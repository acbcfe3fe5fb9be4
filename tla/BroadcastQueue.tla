--------------------------- MODULE BroadcastQueue ---------------------------
(***************************************************************************)
(* What MessageQueue (shm_broadcast.py) promises its users: one writer,    *)
(* several readers, every reader takes every message once and in order,    *)
(* and the writer is at most Capacity messages ahead of the local readers. *)
(***************************************************************************)
EXTENDS Naturals

CONSTANTS Reader, Local, Capacity, MaxMsgs

VARIABLES
    sent,       \* messages 1 to sent have been enqueued
    taken       \* the last message each reader has taken

Init ==
    /\ sent = 0
    /\ taken = [r \in Reader |-> 0]

Enqueue ==
    /\ sent < MaxMsgs
    /\ \A r \in Local : sent - taken[r] < Capacity
    /\ sent' = sent + 1
    /\ UNCHANGED taken

Dequeue(r) ==
    /\ taken[r] < sent
    /\ taken' = [taken EXCEPT ![r] = @ + 1]
    /\ UNCHANGED sent

Next == Enqueue \/ \E r \in Reader : Dequeue(r)

Spec == Init /\ [][Next]_<<sent, taken>>

=============================================================================
