----------------------------- MODULE MCExecutor -----------------------------
(* Small instances of Executor. *)
EXTENDS Executor

Base == [async |-> TRUE, chunks |-> 2, fails |-> {"step"}, timeouts |-> {},
         kills |-> TRUE, calls |-> 2, crashes |-> 1]

\* Processes that die, with queues the calls cannot fill; and more calls than the
\* queues hold, with processes that live.  A call that fails ends the engine.
Plain == {[Base EXCEPT !.async = a] : a \in BOOLEAN}
    \union {[Base EXCEPT !.async = a, !.chunks = 1, !.kills = FALSE, !.calls = 3,
                         !.crashes = 0] : a \in BOOLEAN}

\* Utility calls may raise in a worker.
UtilityFails == {[Base EXCEPT !.fails = {"utility"}, !.kills = FALSE, !.crashes = 0]}

=============================================================================
