------------------------------ MODULE Executor ------------------------------
(***************************************************************************)
(* MultiprocExecutor and WorkerProc of vllm/v1/executor/                   *)
(* multiproc_executor.py: the engine calls a method on all workers through *)
(* one broadcast queue, each worker answers on a queue of its own, and     *)
(* futures pair answers with calls by their order alone.  Workers die, the *)
(* engine dies, and each side must find out.                               *)
(*                                                                         *)
(* The queues are the message queues of MessageQueue.tla: first in first   *)
(* out, with room for a number of messages, and a wait for a message ends  *)
(* when the queue is shut down.                                            *)
(***************************************************************************)
EXTENDS Integers, Sequences

CONSTANTS
    N,              \* world_size
    OutputRank,     \* the worker whose output a step returns
    MaxCalls,       \* bound: calls of collective_rpc
    Configs         \* the configurations to look at

Worker == 0..(N - 1)

(* async: use_async_scheduling; chunks: max_chunks of the queues; fails: the
   calls whose method may raise in a worker; timeouts: the calls whose deadline
   may pass; kills: the engine's process may be killed; calls, crashes: bounds. *)
ASSUME ExecutorAssumption ==
    /\ N \in Nat \ {0} /\ OutputRank \in Worker
    /\ Configs \subseteq [async : BOOLEAN, chunks : Nat \ {0},
                          fails : SUBSET {"step", "utility"},
                          timeouts : SUBSET {"step", "utility"}, kills : BOOLEAN,
                          calls : 0..MaxCalls, crashes : Nat]

VARIABLES
    config,
    calls,          \* what became of each call; its index is its identity
    futures,        \* futures_queue, oldest first
    engine,         \* the engine's thread
    monitor,        \* the thread MultiprocWorkerMonitor
    is_failed, shutting_down,
    closed,         \* the executor has shut its queues down
    callbacks,      \* EXECUTOR_FAILED messages to the engine
    inbox,          \* rpc_broadcast_mq, what each worker has not read
    executing,      \* the call a worker is at, or 0
    output,         \* the worker's outputs on their way to its queue
    outbox,         \* response_mqs
    proc,           \* worker processes
    stop,           \* the worker's death pipe is closed
    crashes         \* ghost: workers that died by themselves

executor == <<calls, futures>>
flags == <<is_failed, shutting_down, closed, callbacks>>
workers == <<inbox, executing, output, outbox, proc, stop, crashes>>
vars == <<config, executor, engine, monitor, flags, workers>>

Running == [pc |-> "run", call |-> 0, future |-> 0, at |-> 0]

Init ==
    /\ config \in Configs
    /\ calls = << >> /\ futures = << >>
    /\ engine = Running
    /\ monitor = "watch"
    /\ is_failed = FALSE /\ shutting_down = FALSE /\ closed = FALSE /\ callbacks = 0
    /\ inbox = [w \in Worker |-> << >>]
    /\ executing = [w \in Worker |-> 0]
    /\ output = [w \in Worker |-> << >>]
    /\ outbox = [w \in Worker |-> << >>]
    /\ proc = [w \in Worker |-> "alive"]
    /\ stop = [w \in Worker |-> FALSE]
    /\ crashes = 0

At(pc) == engine.pc = pc
Done(c) == calls[c].status \in {"ok", "error"}

\* output_rank: a step is answered by one worker, a utility call by all.
Repliers(c) == IF calls[c].kind = "step" THEN {OutputRank} ELSE Worker
NumRepliers(c) == IF calls[c].kind = "step" THEN 1 ELSE N

-----------------------------------------------------------------------------
(* The engine's thread *)

\* An exception of a step ends the engine; one of a utility call goes back to the
\* client.
Raise(kind) == [Running EXCEPT !.pc = IF kind = "step" THEN "raised" ELSE "run"]

\* collective_rpc up to enqueue.  A step may leave its future for later.
CollectiveRpc(kind, non_block) ==
    /\ At("run") /\ Len(calls) < config.calls
    /\ kind = "utility" => ~ non_block
    /\ LET refused == closed \/ is_failed
       IN  /\ calls' = Append(calls, [kind |-> kind, non_block |-> non_block,
                                      status |-> IF refused THEN "error" ELSE "sent",
                                      answers |-> << >>])
           /\ engine' = IF refused THEN Raise(kind)
                        ELSE [Running EXCEPT !.pc = "enqueue", !.call = Len(calls) + 1]
    /\ UNCHANGED <<config, futures, monitor, flags, workers>>

HasRoom(w) == Len(inbox[w]) < config.chunks

Enqueue ==
    /\ At("enqueue") /\ \A w \in Worker : HasRoom(w)
    /\ inbox' = [w \in Worker |-> Append(inbox[w], engine.call)]
    /\ engine' = [engine EXCEPT !.pc = "register"]
    /\ UNCHANGED <<config, executor, monitor, flags, executing, output, outbox, proc,
                   stop, crashes>>

\* The rest of collective_rpc: the future, over the queues there are now.
Register ==
    /\ At("register")
    /\ LET c == engine.call
           step == calls[c].kind = "step"
       IN  IF closed
           THEN /\ calls' = [calls EXCEPT ![c].status = IF step THEN "error" ELSE "ok"]
                /\ engine' = IF step THEN Raise("step") ELSE Running
                /\ UNCHANGED futures
           ELSE /\ futures' = Append(futures, c)
                /\ engine' = IF calls[c].non_block THEN Running
                             ELSE [engine EXCEPT !.pc = "wait"]
                /\ UNCHANGED calls
    /\ UNCHANGED <<config, monitor, flags, workers>>

\* result() of a future that was kept.
Result(c) ==
    /\ At("run") /\ c \in DOMAIN calls
    /\ calls[c].status = "sent" \/ (calls[c].status = "error" /\ calls[c].non_block)
    /\ engine' = [Running EXCEPT !.pc = "wait", !.call = c]
    /\ UNCHANGED <<config, executor, monitor, flags, workers>>

\* Mutant of NextFuture: the response is taken for the future waited for.
NextFutureOwn == engine.call

\* The future to wait for: the oldest.
NextFuture == Head(futures)

\* result(): draining the futures ahead of this one, and it.
Drain ==
    /\ At("wait") /\ engine.future = 0 /\ ~ Done(engine.call)
    /\ engine' = [engine EXCEPT !.future = NextFuture,
                                !.at = IF calls[NextFuture].kind = "step" THEN OutputRank
                                       ELSE 0]
    /\ futures' = Tail(futures)
    /\ UNCHANGED <<config, calls, monitor, flags, workers>>

\* A response is read from the next queue of the future.
Dequeue ==
    /\ At("wait") /\ engine.future # 0 /\ outbox[engine.at] # << >>
    /\ LET response == Head(outbox[engine.at])
           last == calls[engine.future].kind = "step" \/ engine.at = N - 1
       IN  /\ outbox' = [outbox EXCEPT ![engine.at] = Tail(@)]
           /\ calls' = [calls EXCEPT
                  ![engine.future].answers = Append(@, response.call),
                  ![engine.future].status = IF ~ response.ok THEN "error"
                                            ELSE IF last THEN "ok" ELSE @]
           /\ engine' = IF response.ok /\ ~ last THEN [engine EXCEPT !.at = @ + 1]
                        ELSE [engine EXCEPT !.future = 0, !.at = 0]
    /\ UNCHANGED <<config, futures, monitor, flags, inbox, executing, output, proc, stop,
                   crashes>>

\* The wait ends without a response: the queue was shut down, or the deadline
\* has passed.
Unanswered ==
    /\ At("wait") /\ engine.future # 0 /\ outbox[engine.at] = << >>
    /\ closed \/ calls[engine.future].kind \in config.timeouts
    /\ calls' = [calls EXCEPT ![engine.future].status = "error"]
    /\ engine' = [engine EXCEPT !.future = 0, !.at = 0]
    /\ UNCHANGED <<config, futures, monitor, flags, workers>>

Return ==
    /\ At("wait") /\ engine.future = 0 /\ Done(engine.call)
    /\ engine' = IF calls[engine.call].status = "ok" THEN Running
                 ELSE Raise(calls[engine.call].kind)
    /\ UNCHANGED <<config, executor, monitor, flags, workers>>

\* EXECUTOR_FAILED from the engine's input queue
ExecutorFailed ==
    /\ At("run") /\ callbacks > 0
    /\ engine' = [Running EXCEPT !.pc = "raised"]
    /\ UNCHANGED <<config, executor, monitor, flags, workers>>

-----------------------------------------------------------------------------
(* shutdown(), by the engine's thread or the monitor *)

\* Unless the other one did, the death pipes are closed.
StopWorkers ==
    /\ shutting_down' = TRUE
    /\ stop' = IF shutting_down THEN stop ELSE [w \in Worker |-> TRUE]

AllDead == \A w \in Worker : proc[w] = "dead"

EngineShutdown ==
    /\ At("raised")
    /\ StopWorkers
    /\ engine' = [Running EXCEPT !.pc = IF shutting_down THEN "close" ELSE "terminate"]
    /\ UNCHANGED <<config, executor, monitor, is_failed, closed, callbacks, inbox,
                   executing, output, outbox, proc, crashes>>

EngineTerminated ==
    /\ At("terminate") /\ AllDead
    /\ engine' = [Running EXCEPT !.pc = "close"]
    /\ UNCHANGED <<config, executor, monitor, flags, workers>>

EngineExit ==
    /\ At("close")
    /\ closed' = TRUE
    /\ stop' = [w \in Worker |-> TRUE]
    /\ engine' = [Running EXCEPT !.pc = "exit"]
    /\ monitor' = "end"
    /\ UNCHANGED <<config, executor, is_failed, shutting_down, callbacks, inbox,
                   executing, output, outbox, proc, crashes>>

\* The process is killed; the pipes close with it, and the monitor is gone.
EngineKilled ==
    /\ config.kills /\ ~ At("exit")
    /\ engine' = [Running EXCEPT !.pc = "exit"]
    /\ monitor' = "end"
    /\ stop' = [w \in Worker |-> TRUE]
    /\ UNCHANGED <<config, executor, flags, inbox, executing, output, outbox, proc,
                   crashes>>

\* monitor_workers: a worker has died.
MonitorWorkers ==
    /\ monitor = "watch" /\ \E w \in Worker : proc[w] = "dead"
    /\ IF shutting_down
       THEN monitor' = "end" /\ UNCHANGED is_failed
       ELSE monitor' = "shutdown" /\ is_failed' = TRUE
    /\ UNCHANGED <<config, executor, engine, shutting_down, closed, callbacks, workers>>

MonitorShutdown ==
    /\ monitor = "shutdown"
    /\ StopWorkers
    /\ monitor' = IF shutting_down THEN "close" ELSE "terminate"
    /\ UNCHANGED <<config, executor, engine, is_failed, closed, callbacks, inbox,
                   executing, output, outbox, proc, crashes>>

MonitorTerminated ==
    /\ monitor = "terminate" /\ AllDead
    /\ monitor' = "close"
    /\ UNCHANGED <<config, executor, engine, flags, workers>>

\* Mutant of CloseQueues: the queues the workers answer on stay open.
CloseQueuesNot == UNCHANGED closed

CloseQueues == closed' = TRUE

MonitorClose ==
    /\ monitor = "close"
    /\ CloseQueues
    /\ monitor' = "callback"
    /\ UNCHANGED <<config, executor, engine, is_failed, shutting_down, callbacks, workers>>

\* Mutant of Callback: failure_callback is not there yet.
CallbackLost == UNCHANGED callbacks

Callback == callbacks' = callbacks + 1

MonitorCallback ==
    /\ monitor = "callback"
    /\ Callback
    /\ monitor' = "end"
    /\ UNCHANGED <<config, executor, engine, is_failed, shutting_down, closed, workers>>

-----------------------------------------------------------------------------
(* WorkerProc *)

Alive(w) == proc[w] = "alive"

\* worker_busy_loop: the next call; without async scheduling the last answer
\* has been sent.
Take(w) ==
    /\ Alive(w) /\ executing[w] = 0 /\ inbox[w] # << >>
    /\ config.async \/ output[w] = << >>
    /\ executing' = [executing EXCEPT ![w] = Head(inbox[w])]
    /\ inbox' = [inbox EXCEPT ![w] = Tail(@)]
    /\ UNCHANGED <<config, executor, engine, monitor, flags, output, outbox, proc, stop,
                   crashes>>

\* The method returns or raises; handle_output if this worker replies.
Execute(w) ==
    /\ Alive(w) /\ executing[w] # 0
    /\ LET c == executing[w]
       IN  \E ok \in BOOLEAN :
             /\ ok \/ calls[c].kind \in config.fails
             /\ output' = [output EXCEPT ![w] =
                  IF w \in Repliers(c) THEN Append(@, [call |-> c, ok |-> ok]) ELSE @]
    /\ executing' = [executing EXCEPT ![w] = 0]
    /\ UNCHANGED <<config, executor, engine, monitor, flags, inbox, outbox, proc, stop,
                   crashes>>

\* enqueue_output, by the worker or by its output thread
EnqueueOutput(w) ==
    /\ Alive(w) /\ output[w] # << >> /\ Len(outbox[w]) < config.chunks
    /\ outbox' = [outbox EXCEPT ![w] = Append(@, Head(output[w]))]
    /\ output' = [output EXCEPT ![w] = Tail(@)]
    /\ UNCHANGED <<config, executor, engine, monitor, flags, inbox, executing, proc, stop,
                   crashes>>

Die(w) ==
    /\ proc' = [proc EXCEPT ![w] = "dead"]
    /\ UNCHANGED <<config, executor, engine, monitor, flags, inbox, executing, output,
                   outbox, stop>>

\* Mutant of MayExit: the death pipe does not shut the worker's queues down.
MayExitNever(w) == FALSE

\* DeathPipeMonitor has shut the queues down, and the wait for a call ends.
MayExit(w) ==
    stop[w] /\ executing[w] = 0 /\ inbox[w] = << >> /\ (config.async \/ output[w] = << >>)

Exit(w) == Alive(w) /\ MayExit(w) /\ Die(w) /\ UNCHANGED crashes

\* _ensure_worker_termination: SIGTERM, SIGKILL, which takes effect at once.
Kill(w) ==
    /\ Alive(w) /\ (At("terminate") \/ monitor = "terminate")
    /\ Die(w) /\ UNCHANGED crashes

Crash(w) ==
    /\ Alive(w) /\ crashes < config.crashes
    /\ crashes' = crashes + 1
    /\ Die(w)

Engine ==
    \/ Enqueue \/ Register \/ Drain \/ Dequeue \/ Unanswered \/ Return
    \/ ExecutorFailed \/ EngineShutdown \/ EngineTerminated \/ EngineExit

Monitor ==
    MonitorWorkers \/ MonitorShutdown \/ MonitorTerminated \/ MonitorClose \/ MonitorCallback

Step(w) == Take(w) \/ Execute(w) \/ Exit(w)

Next ==
    \/ Engine \/ Monitor \/ EngineKilled
    \/ \E kind \in {"step", "utility"}, non_block \in BOOLEAN : CollectiveRpc(kind, non_block)
    \/ \E c \in 1..MaxCalls : Result(c)
    \/ \E w \in Worker : Step(w) \/ EnqueueOutput(w) \/ Kill(w) \/ Crash(w)

\* Every thread and process runs on, as long as it lives; the kill after the grace
\* period comes.  Nobody has to make a call, to crash or to be killed.
Spec ==
    /\ Init /\ [][Next]_vars
    /\ WF_vars(Engine) /\ WF_vars(Monitor)
    /\ \A w \in Worker : WF_vars(Step(w)) /\ WF_vars(EnqueueOutput(w)) /\ WF_vars(Kill(w))

-----------------------------------------------------------------------------
(* Properties *)

\* What collective_rpc returns is the answers of the workers that were asked, all
\* of them and to this very call, whichever future is waited for first and
\* however far the workers are apart; only a shutdown cuts a list short.
ResultsAreOwn ==
    \A c \in DOMAIN calls : calls[c].status = "ok" =>
        /\ \A i \in DOMAIN calls[c].answers : calls[c].answers[i] = c
        /\ Len(calls[c].answers) = NumRepliers(c) \/ shutting_down

\* Every call returns or raises, worker processes that die in the middle included.
\* The writer of a full ring does not look for dead readers, so this needs room for
\* all calls (calls <= chunks) where workers may die.
CallsReturn == At("wait") \/ At("enqueue") ~> ~ (At("wait") \/ At("enqueue"))

\* When a worker dies or the engine is gone, no worker process is left behind.
WorkersStop == (crashes > 0 \/ At("raised") \/ At("exit")) ~> AllDead

\* The death of a worker ends the engine, even one that asks nothing of its
\* workers: the callback reaches it.
DeathIsNoticed == crashes > 0 ~> At("exit")

=============================================================================
