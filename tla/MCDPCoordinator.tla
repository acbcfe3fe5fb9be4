-------------------------- MODULE MCDPCoordinator --------------------------
(***************************************************************************)
(* DPCoordinator with a history variable, and the progress of requests.    *)
(*                                                                         *)
(* A FIRST_REQ message in a client's queue does not say in which wave its  *)
(* request was sent; the stats task adds the wave it knows when it         *)
(* forwards the message (core_client.py, 1258-1264).  If the wave is over  *)
(* by then and the client has read of it, the coordinator takes the        *)
(* request for one of the new wave and does not wake its engine, which has *)
(* finished the request and stays idle: the other engines wait for it.     *)
(***************************************************************************)
EXTENDS DPCoordinator

VARIABLE overtaken  \* a client read of a new wave before it forwarded all

MCInit == Init /\ overtaken = FALSE

\* A client reads of a new wave and has a first request left to forward.
Overtaken(c) == client'[c].wave # client[c].wave /\ first'[c] # << >>

MCNext == Next /\ overtaken' = (overtaken \/ \E c \in Client : Overtaken(c))

MCSpec == MCInit /\ [][MCNext]_<<vars, overtaken>> /\ Fairness

Pending == \E r \in Req : req[r].status \in {"sent", "active"}
NoAborts == [](\A r \in Req : req[r].status # "new" => req[r].by # {})
NoneOvertaken == [](~ overtaken)

\* The requests that are sent come to an end: no wave is missed by an engine,
\* which would leave the others waiting for it in a forward pass.  This holds
\* as long as clients abort nothing and forward a first request before they
\* read of the end of its wave; the code guarantees neither.
RequestsFinish == NoAborts /\ NoneOvertaken => (Pending ~> ~ Pending)

\* When the clients send nothing more, the engines pause, under the same two
\* hypotheses.
EnginesPause ==
    NoAborts /\ NoneOvertaken =>
        <>[](\A e \in Engine : ~ engine[e].running /\ engine[e].pc = "input")

=============================================================================
