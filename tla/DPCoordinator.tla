--------------------------- MODULE DPCoordinator ---------------------------
(***************************************************************************)
(* Data-parallel engines of a mixture-of-experts model and the coordinator *)
(* that starts them together (vllm/v1/engine/coordinator.py,               *)
(* DPEngineCoreProc in core.py, DPAsyncMPClient in core_client.py).        *)
(*                                                                         *)
(* Every forward pass is a collective operation: an engine that runs alone *)
(* waits for all others.  The engines run and pause in waves.  A wave ends *)
(* when an all-reduce, done every SyncEvery passes, finds no unfinished    *)
(* request.  A client that believes the engines to be paused notifies the  *)
(* coordinator, which wakes all engines but the one the request goes to.   *)
(***************************************************************************)
EXTENDS Integers, Sequences

CONSTANTS
    Engine,         \* engine ranks
    Rank0,          \* the rank that reports to the coordinator
    Client,         \* API servers
    Req,            \* requests
    NoEngine,       \* None
    SyncEvery,      \* passes between two all-reduces (32)
    MaxPasses,      \* bound: passes a request takes
    MaxNews,        \* bound: publications under way to a client
    Aborts          \* the requests that clients may abort

ASSUME CoordinatorAssumption ==
    /\ Rank0 \in Engine /\ Engine # {Rank0} /\ NoEngine \notin Engine
    /\ {SyncEvery, MaxPasses} \subseteq Nat \ {0} /\ MaxNews \in Nat
    /\ Aborts \subseteq Req

VARIABLES
    engine,         \* current_wave, engines_running, step_counter and position
    coord,          \* current_wave and engines_running of the coordinator
    client,         \* current_wave and engines_running of the clients
    req,            \* status, who may abort it, its engine, passes it needs
    first,          \* clients: first_req socket, engines requests were sent to
    polled,         \* clients: events the stats task was woken for
    input,          \* client to engine
    notice,         \* client to coordinator
    start,          \* coordinator to engine: START_DP_WAVE
    news,           \* coordinator to client
    report          \* engine to coordinator

clients == <<client, first, polled>>
channels == <<input, notice, start, news, report>>
vars == <<engine, coord, clients, req, channels>>

State == [wave : Nat, running : BOOLEAN]
Paused == [wave |-> 0, running |-> FALSE]

Init ==
    /\ engine = [e \in Engine |->
                   [wave |-> 0, running |-> FALSE, step |-> 0, pc |-> "input"]]
    /\ coord = Paused
    /\ client = [c \in Client |-> Paused]
    /\ req = [r \in Req |-> [status |-> "new", by |-> {}, at |-> {}, left |-> 0]]
    /\ first = [c \in Client |-> << >>]
    /\ polled = [c \in Client |-> {}]
    /\ input = [c \in Client |-> [e \in Engine |-> << >>]]
    /\ notice = [c \in Client |-> << >>]
    /\ start = [e \in Engine |-> << >>]
    /\ news = [c \in Client |-> << >>]
    /\ report = [e \in Engine |-> << >>]

-----------------------------------------------------------------------------
(* Clients *)

\* add_request_async: the request carries the wave the client knows.
AddRequest(c, r, e) ==
    /\ req[r].status = "new"
    /\ \E n \in 1..MaxPasses :
         req' = [req EXCEPT ![r] = [status |-> "sent", by |-> {c}, at |-> {e}, left |-> n]]
    /\ input' = [input EXCEPT ![c][e] =
                   Append(@, [type |-> "add", req |-> r, wave |-> client[c].wave])]
    /\ first' = IF client[c].running THEN first
                ELSE [first EXCEPT ![c] = Append(@, e)]
    /\ UNCHANGED <<engine, coord, client, polled, notice, start, news, report>>

\* abort_requests_async, once: behind the request, on the same socket.
AbortRequest(c, r) ==
    /\ r \in Aborts /\ req[r].by = {c}
    /\ req' = [req EXCEPT ![r].by = {}]
    /\ input' = [input EXCEPT ![c] = [e \in Engine |->
                   IF e \in req[r].at
                   THEN Append(@[e], [type |-> "abort", req |-> r, wave |-> 0])
                   ELSE @[e]]]
    /\ UNCHANGED <<engine, coord, clients, notice, start, news, report>>

\* The stats task is woken: poller.poll() returns the sockets that are ready.
Poll(c) ==
    /\ polled[c] = {}
    /\ \E events \in SUBSET {"stats", "first"} \ {{}} :
         /\ "first" \in events <=> first[c] # << >>
         /\ "stats" \in events => news[c] # << >>
         /\ polled' = [polled EXCEPT ![c] = events]
    /\ UNCHANGED <<engine, coord, client, first, req, channels>>

\* The body of the stats task.  A pending first request goes first if the
\* engines are thought to be paused; then all news is read, the last counts.
ServeSockets(c) ==
    LET forward == "first" \in polled[c]
                     /\ ("stats" \notin polled[c] \/ ~ client[c].running)
    IN  /\ polled[c] # {}
        /\ polled' = [polled EXCEPT ![c] = {}]
        /\ IF forward
           THEN /\ notice' = [notice EXCEPT ![c] =
                     Append(@, [engine |-> Head(first[c]), wave |-> client[c].wave])]
                /\ first' = [first EXCEPT ![c] = Tail(@)]
           ELSE UNCHANGED <<notice, first>>
        /\ \E k \in (IF "stats" \in polled[c] THEN 1 ELSE 0)..Len(news[c]) :
             /\ client' = [client EXCEPT ![c] =
                  IF k > 0 THEN news[c][k]
                  ELSE [@ EXCEPT !.running = TRUE]]
             /\ news' = [news EXCEPT ![c] = SubSeq(@, k + 1, Len(@))]
        /\ UNCHANGED <<engine, coord, req, input, start, report>>

-----------------------------------------------------------------------------
(* The coordinator *)

\* The engine that need not be woken: it gets a request of this wave.
Exclude(m) == IF m.wave < coord.wave THEN NoEngine ELSE m.engine

\* _send_start_wave and the publication of the new state.
Announce(wave, exclude) ==
    /\ coord' = [wave |-> wave, running |-> TRUE]
    /\ start' = [e \in Engine |->
                   Append(start[e], [wave |-> wave, exclude |-> exclude])]
    /\ news' = [c \in Client |-> Append(news[c], coord')]

\* A new-request message of a client.
HandleNotice(c) ==
    /\ notice[c] # << >>
    /\ notice' = [notice EXCEPT ![c] = Tail(@)]
    /\ LET m == Head(notice[c])
       IN  IF coord.running THEN UNCHANGED <<coord, start, news>>
           ELSE Announce(coord.wave, Exclude(m))
    /\ UNCHANGED <<engine, clients, req, input, report>>

\* A start_wave message that is news to the coordinator.
StartsWave(m) ==
    m.wave > coord.wave \/ (m.wave = coord.wave /\ ~ coord.running)

\* Mutant of AfterComplete: the coordinator stays in the wave that is over.
AfterCompleteSameWave(m) == [wave |-> m.wave, running |-> FALSE]

\* Mutant of AfterComplete: two waves are counted.
AfterCompleteTwice(m) == [wave |-> m.wave + 2, running |-> FALSE]

AfterComplete(m) == [wave |-> m.wave + 1, running |-> FALSE]

\* wave_complete of rank 0, or start_wave of an engine with a late request.
HandleReport(e) ==
    /\ report[e] # << >>
    /\ report' = [report EXCEPT ![e] = Tail(@)]
    /\ LET m == Head(report[e])
       IN  IF m.type = "complete" /\ coord.wave <= m.wave
           THEN /\ coord' = AfterComplete(m)
                /\ news' = [c \in Client |-> Append(news[c], coord')]
                /\ UNCHANGED start
           ELSE IF m.type = "start" /\ StartsWave(m) THEN Announce(m.wave, e)
           ELSE UNCHANGED <<coord, start, news>>
    /\ UNCHANGED <<engine, clients, req, input, notice>>

\* On a timeout the current state is published again.
Publish ==
    /\ \A c \in Client : Len(news[c]) < MaxNews
    /\ news' = [c \in Client |-> Append(news[c], coord)]
    /\ UNCHANGED <<engine, coord, clients, req, input, notice, start, report>>

-----------------------------------------------------------------------------
(* The engines *)

Active(e) == {r \in Req : req[r].status = "active" /\ e \in req[r].at}

\* Mutant of AfterAdd: a request for a wave that is over starts nothing.
AfterAddIgnored(q, wave) == [q EXCEPT !.wave = IF wave > @ THEN wave ELSE @]

\* The state of an engine after a request that was sent in the given wave.
AfterAdd(q, wave) ==
    IF wave > q.wave THEN [q EXCEPT !.wave = wave]
    ELSE IF wave < q.wave THEN [q EXCEPT !.running = TRUE]
    ELSE q

\* add_request, and finish_requests for an abort.
ReceiveInput(c, e) ==
    /\ engine[e].pc = "input" /\ input[c][e] # << >>
    /\ input' = [input EXCEPT ![c][e] = Tail(@)]
    /\ LET m == Head(input[c][e])
           q == AfterAdd(engine[e], m.wave)
       IN  \/ /\ m.type = "add"
              /\ req' = [req EXCEPT ![m.req].status = "active"]
              /\ engine' = [engine EXCEPT ![e] = q]
              /\ report' = IF q.running = engine[e].running THEN report
                           ELSE [report EXCEPT ![e] =
                                   Append(@, [type |-> "start", wave |-> q.wave])]
           \/ /\ m.type = "abort"
              /\ req' = [req EXCEPT ![m.req].status = "done"]
              /\ UNCHANGED <<engine, report>>
    /\ UNCHANGED <<coord, clients, notice, start, news>>

\* Mutant of Heeds: a START_DP_WAVE of an earlier wave is obeyed.
HeedsStale(e, m) == m.exclude # e

\* Does the engine take notice of a START_DP_WAVE message?
Heeds(e, m) == m.exclude # e /\ m.wave >= engine[e].wave

\* START_DP_WAVE
ReceiveStart(e) ==
    /\ engine[e].pc = "input" /\ start[e] # << >>
    /\ start' = [start EXCEPT ![e] = Tail(@)]
    /\ LET m == Head(start[e])
       IN  engine' = IF Heeds(e, m)
                     THEN [engine EXCEPT ![e].wave = m.wave, ![e].running = TRUE]
                     ELSE engine
    /\ UNCHANGED <<coord, clients, req, input, notice, news, report>>

\* Mutant of HasWork: an engine without requests does not join in.
HasWorkOfItsOwn(e) == Active(e) # {}

\* has_work
HasWork(e) == engine[e].running \/ Active(e) # {}

\* The engine enters a forward pass, of its requests or a dummy batch.
BeginPass(e) ==
    /\ engine[e].pc = "input" /\ HasWork(e)
    /\ engine' = [engine EXCEPT ![e].pc = "forward"]
    /\ UNCHANGED <<coord, clients, req, channels>>

NextStep(step) == (step + 1) % SyncEvery

\* All engines are in the pass, which advances every request.  Then the step
\* counter says whether it is time for an all-reduce.
Forward ==
    /\ \A e \in Engine : engine[e].pc = "forward"
    /\ req' = [r \in Req |->
                 IF req[r].status # "active" THEN req[r]
                 ELSE [req[r] EXCEPT !.left = @ - 1,
                                     !.status = IF req[r].left = 1 THEN "done" ELSE @]]
    /\ engine' = [e \in Engine |->
                    LET step == NextStep(engine[e].step)
                    IN  [wave |-> engine[e].wave, step |-> step,
                         running |-> step # 0 \/ engine[e].running,
                         pc |-> IF step = 0 THEN "reduce" ELSE "input"]]
    /\ UNCHANGED <<coord, clients, channels>>

\* has_unfinished_dp: the maximum of what the engines contribute.
Unfinished == \E e \in Engine : Active(e) # {}

\* _has_global_unfinished_reqs, and the end of the wave.
AllReduce ==
    /\ \A e \in Engine : engine[e].pc = "reduce"
    /\ engine' = [e \in Engine |->
                    [wave |-> engine[e].wave + (IF Unfinished THEN 0 ELSE 1),
                     running |-> Unfinished, step |-> engine[e].step, pc |-> "input"]]
    /\ report' = IF Unfinished THEN report
                 ELSE [report EXCEPT ![Rank0] =
                         Append(@, [type |-> "complete", wave |-> engine[Rank0].wave])]
    /\ UNCHANGED <<coord, clients, req, input, notice, start, news>>

-----------------------------------------------------------------------------

ClientTask(c) == Poll(c) \/ ServeSockets(c)
Coordinator == \/ \E c \in Client : HandleNotice(c)
               \/ \E e \in Engine : HandleReport(e)
Collective == Forward \/ AllReduce
Receive(e) == ReceiveStart(e) \/ \E c \in Client : ReceiveInput(c, e)

Next ==
    \/ \E c \in Client, r \in Req, e \in Engine : AddRequest(c, r, e)
    \/ \E c \in Client, r \in Req : AbortRequest(c, r)
    \/ \E c \in Client : ClientTask(c)
    \/ \E e \in Engine : Receive(e) \/ BeginPass(e)
    \/ Coordinator \/ Publish \/ Collective

Spec == Init /\ [][Next]_vars

\* Sockets deliver, the loops of clients, coordinator and engines go on, and a
\* collective operation that all engines have joined ends.  An engine empties
\* its input queue between any two passes, hence strong fairness there.
\* Publications are too rare to keep a client from forwarding first requests.
Fairness ==
    /\ \A c \in Client : WF_vars(ClientTask(c)) /\ []<>(first[c] = << >>)
    /\ \A e \in Engine : SF_vars(Receive(e)) /\ WF_vars(BeginPass(e))
    /\ WF_vars(Coordinator) /\ WF_vars(Collective)

-----------------------------------------------------------------------------
(* Properties *)

EngineState == [wave : Nat, running : BOOLEAN, step : 0..(SyncEvery - 1),
                pc : {"input", "forward", "reduce"}]
Request == [status : {"new", "sent", "active", "done"}, by : SUBSET Client,
            at : SUBSET Engine, left : Int]
Input == [type : {"add", "abort"}, req : Req, wave : Nat]
Notice == [engine : Engine, wave : Nat]
Start == [wave : Nat, exclude : Engine \union {NoEngine}]
Report == [type : {"complete", "start"}, wave : Nat]

\* Every variable has its type.
TypeOK ==
    /\ engine \in [Engine -> EngineState]
    /\ coord \in State
    /\ client \in [Client -> State]
    /\ req \in [Req -> Request]
    /\ first \in [Client -> Seq(Engine)]
    /\ polled \in [Client -> SUBSET {"stats", "first"}]
    /\ input \in [Client -> [Engine -> Seq(Input)]]
    /\ notice \in [Client -> Seq(Notice)]
    /\ start \in [Engine -> Seq(Start)]
    /\ news \in [Client -> Seq(State)]
    /\ report \in [Engine -> Seq(Report)]

\* "This transition is synchronized via the all-reduce operation": all engines
\* are in the same wave, count the same passes and never meet in different
\* collective operations, whatever messages are late.
InLockstep ==
    \A e, f \in Engine :
        /\ engine[e].wave = engine[f].wave
        /\ engine[e].step = engine[f].step
        /\ engine[e].pc = "reduce" => engine[f].pc = "reduce"

Behind(s, wave) == \A i \in 1..Len(s) : s[i].wave <= wave

\* No process knows of a wave, and no message is under way for one, that the
\* engines have not reached, and the end of a wave is reported after the engines
\* have left it: engines only follow a message, they never run ahead of rank 0.
NothingAhead ==
    LET wave == engine[Rank0].wave
    IN  /\ coord.wave <= wave
        /\ \A c \in Client :
             /\ client[c].wave <= wave
             /\ Behind(notice[c], wave) /\ Behind(news[c], wave)
             /\ \A e \in Engine : Behind(input[c][e], wave)
        /\ \A e \in Engine :
             /\ Behind(start[e], wave) /\ Behind(report[e], wave)
             /\ \A i \in 1..Len(report[e]) :
                  report[e][i].type = "complete" => report[e][i].wave < wave

Quiet ==
    /\ \A e \in Engine : start[e] = << >> /\ report[e] = << >> /\ ~ HasWork(e)
    /\ \A c \in Client : /\ first[c] = << >> /\ notice[c] = << >> /\ news[c] = << >>
                         /\ \A e \in Engine : input[c][e] = << >>

\* When nothing is under way and the engines are paused, coordinator and
\* clients know it: the next request will wake them.
KnownToBePaused ==
    Quiet => \A e \in Engine, c \in Client :
               /\ coord = [wave |-> engine[e].wave, running |-> FALSE]
               /\ client[c] = coord

=============================================================================
