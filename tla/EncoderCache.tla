---------------------------- MODULE EncoderCache ----------------------------
(***************************************************************************)
(* The encoder cache at work: the part of schedule() and                   *)
(* update_from_output() (vllm/v1/core/sched/scheduler.py) that decides     *)
(* which encoder inputs a step computes, and the cache of encoder outputs  *)
(* in the worker (gpu_model_runner.py), which stores and drops what it is  *)
(* told to.                                                                *)
(*                                                                         *)
(* The worker runs the steps in the order in which they are scheduled and  *)
(* nothing else touches its cache, so a step is run when it is scheduled;  *)
(* its result comes later.  The KV cache appears as prefix-cache hits and  *)
(* as allocations that fail, at any time.                                  *)
(***************************************************************************)
EXTENDS EncoderCacheManager

CONSTANTS
    Req,
    Features,       \* mm_features of each request, in the order of their offsets
    NumTokens,      \* tokens to compute before a request ends
    Hits,           \* bound: lengths of prefix-cache hits
    TokenBudget,    \* max_num_scheduled_tokens
    ComputeBudget,  \* max_num_encoder_input_tokens
    MaxShortages,   \* bound: KV allocations that fail
    Rank,           \* (priority, arrival_time)
    Configs         \* the configurations to look at

Feature == [hash : Hash, offset : Nat, length : Nat \ {0}, embeds : SUBSET Nat]

ASSUME EncoderAssumption ==
    /\ NumTokens \in [Req -> Nat] /\ Hits \subseteq Nat
    /\ TokenBudget \in Nat /\ ComputeBudget \in Nat /\ MaxShortages \in Nat
    /\ \A r \in Req :
         /\ Features[r] \in Seq(Feature)
         /\ \A i, j \in DOMAIN Features[r] :
              i < j => Features[r][i].offset <= Features[r][j].offset
         /\ \A i \in DOMAIN Features[r] :
              LET f == Features[r][i]
              IN  /\ f.embeds \subseteq 0..(f.length - 1)
                  /\ Cardinality(f.embeds) = NumEmbeds[f.hash]
                  /\ f.offset + f.length <= NumTokens[r]
    /\ \A h \in Hash : NumEmbeds[h] <= ComputeBudget
    /\ Rank \in [Req -> Int]
    /\ Configs \subseteq [policy : {"fcfs", "priority"}, chunked : BOOLEAN,
                          shift : {0, 1}, depth : {1, 2}]

VARIABLES
    config,         \* policy, ~ disable_chunked_mm_input, use_eagle, batch_queue_size
    cache,          \* the encoder cache manager
    req,            \* status and num_computed_tokens
    waiting, running,
    step,           \* schedule() under way
    batches,        \* steps whose results have not been processed
    worker,         \* encoder_cache of the model runner
    missed,         \* ghost: a step ran without an encoder output it needs
    shortages       \* ghost: KV allocations that failed

vars == <<config, cache, req, waiting, running, step, batches, worker, missed, shortages>>

NoTry == [req |-> "none", n |-> 0, budget |-> 0, inputs |-> {}]

Idle == [pc |-> "idle", next |-> 1, tokens |-> 0, budget |-> 0, entries |-> << >>,
         preempted |-> FALSE, try |-> NoTry]

Init ==
    /\ config \in Configs
    /\ cache = EmptyCache
    /\ req = [r \in Req |-> [status |-> "new", num_computed |-> 0]]
    /\ waiting = << >> /\ running = << >>
    /\ step = Idle
    /\ batches = << >>
    /\ worker = {}
    /\ missed = FALSE
    /\ shortages = 0

At(pc) == step.pc = pc
HashesOf(r) == [i \in DOMAIN Features[r] |-> Features[r][i].hash]

\* EncoderCacheManager.free
Free(c, r) == FreeInputs(c, r, HashesOf(r), DOMAIN Features[r])

\* Positions from..to-1 hold embeddings of the input.
Embeds(f, from, to) == \E p \in f.embeds : from <= f.offset + p /\ f.offset + p < to

AddRequest(r) ==
    /\ req[r].status = "new" /\ At("idle")
    /\ req' = [req EXCEPT ![r].status = "waiting"]
    /\ waiting' = Append(waiting, r)
    /\ UNCHANGED <<config, cache, running, step, batches, worker, missed, shortages>>

-----------------------------------------------------------------------------
(* schedule() *)

BeginSchedule ==
    /\ At("idle") /\ Len(batches) < config.depth
    /\ waiting # << >> \/ running # << >>
    /\ step' = [Idle EXCEPT !.pc = "running", !.tokens = TokenBudget,
                            !.budget = ComputeBudget]
    /\ UNCHANGED <<config, cache, req, waiting, running, batches, worker, missed,
                   shortages>>

\* Mutant of Passed: the last token of an input is forgotten.
PassedEarly(f, computed) == f.offset + f.length <= computed + 1

\* The input's tokens are in the KV cache already.
Passed(f, computed) == f.offset + f.length <= computed

\* One round of the loop of _try_schedule_encoder_inputs.
TryInput(r, computed, a, f) ==
    LET end == computed + a.n
        need == NumEmbeds[f.hash] + Sizes(a.inputs)
        stop(n) == [a EXCEPT !.stop = TRUE, !.n = n]
        room == [a EXCEPT !.cache = MakeRoom(@, need)]
    IN  IF a.stop \/ f.offset >= end + config.shift THEN stop(a.n)
        ELSE IF Passed(f, computed) \/ f.hash \in a.inputs THEN a
        ELSE IF IsCached(a.cache, f.hash)
        THEN [a EXCEPT !.cache = UpdateCache(@, r, f.hash)]
        ELSE IF ~ config.chunked /\ computed < f.offset /\ end < f.offset + f.length
        THEN stop(Max({0, f.offset - (computed + config.shift)}))
        ELSE IF ~ CanAllocate(a.cache, f.hash, a.budget, Sizes(a.inputs))
        THEN stop(IF computed + config.shift < f.offset
                  THEN f.offset - (computed + config.shift) ELSE 0)
        ELSE IF ~ Embeds(f, computed, end) THEN room
        ELSE [room EXCEPT !.inputs = @ \union {f.hash},
                          !.budget = @ - NumEmbeds[f.hash]]

\* _try_schedule_encoder_inputs: the inputs to compute, and how many tokens.
TrySchedule(r, computed, n) ==
    LET try[i \in 0..Len(Features[r])] ==
          IF i = 0 THEN [cache |-> cache, n |-> n, budget |-> step.budget,
                         inputs |-> {}, stop |-> n = 0]
          ELSE The({TryInput(r, computed, a, Features[r][i]) : a \in {try[i - 1]}})
    IN  try[Len(Features[r])]

NumNewTokens(r, computed) == Min({NumTokens[r] - computed, step.tokens})

\* The request joins the step.
Scheduled(s, r, computed, t) ==
    [s EXCEPT !.tokens = @ - t.n,
              !.budget = IF t.inputs = {} THEN @ ELSE t.budget,
              !.entries = Append(@, [req |-> r, start |-> computed, n |-> t.n,
                                     inputs |-> t.inputs])]

\* One round of the loop over the running requests, up to allocate_slots.
TryRunning ==
    /\ At("running") /\ step.next <= Len(running) /\ step.tokens > 0
    /\ LET r == running[step.next]
           computed == req[r].num_computed
       IN  \E t \in {TrySchedule(r, computed, NumNewTokens(r, computed))} :
             /\ cache' = t.cache
             /\ step' = IF t.n = 0 THEN [step EXCEPT !.next = @ + 1]
                        ELSE [step EXCEPT !.pc = "allocate",
                                          !.try = [req |-> r, n |-> t.n,
                                                   budget |-> t.budget,
                                                   inputs |-> t.inputs]]
    /\ UNCHANGED <<config, req, waiting, running, batches, worker, missed, shortages>>

ScheduleRunning ==
    /\ At("allocate")
    /\ LET r == step.try.req
       IN  /\ cache' = Allocate(cache, r, step.try.inputs)
           /\ step' = [Scheduled(step, r, req[r].num_computed, step.try)
                         EXCEPT !.pc = "running", !.next = @ + 1, !.try = NoTry]
    /\ UNCHANGED <<config, req, waiting, running, batches, worker, missed, shortages>>

\* Taking a request out of the step again, under priority scheduling.
Undo(s, v) ==
    LET mine == {e \in Range(s.entries) : e.req = v}
    IN  IF mine = {} THEN s
        ELSE LET e == CHOOSE x \in mine : TRUE
             IN  [s EXCEPT !.entries = Without(@, {e}),
                           !.tokens = @ + e.n,
                           !.budget = @ + Sizes(e.inputs),
                           !.next = @ - 1]

Victim == IF config.policy = "fcfs" THEN running[Len(running)]
          ELSE CHOOSE r \in Range(running) : \A q \in Range(running) : Rank[q] <= Rank[r]

\* Mutant of PreemptRequest: the encoder outputs stay referred to.
PreemptRequestKeeps(v) ==
    /\ running' = Without(running, {v})
    /\ waiting' = <<v>> \o waiting
    /\ req' = [req EXCEPT ![v] = [status |-> "waiting", num_computed |-> 0]]
    /\ UNCHANGED cache

\* _preempt_request
PreemptRequest(v) ==
    /\ running' = Without(running, {v})
    /\ waiting' = <<v>> \o waiting
    /\ req' = [req EXCEPT ![v] = [status |-> "waiting", num_computed |-> 0]]
    /\ cache' = Free(cache, v)

\* allocate_slots finds no blocks.
Preempt ==
    /\ At("allocate") /\ shortages < MaxShortages
    /\ shortages' = shortages + 1
    /\ PreemptRequest(Victim)
    /\ step' = [Undo(step, Victim) EXCEPT
                  !.preempted = TRUE,
                  !.pc = IF Victim = step.try.req THEN "finish" ELSE @]
    /\ UNCHANGED <<config, batches, worker, missed>>

EndRunning ==
    /\ At("running") /\ (step.next > Len(running) \/ step.tokens = 0)
    /\ step' = [step EXCEPT !.pc = IF step.preempted THEN "finish" ELSE "waiting"]
    /\ UNCHANGED <<config, cache, req, waiting, running, batches, worker, missed,
                   shortages>>

HeadRequest ==
    IF config.policy = "fcfs" THEN Head(waiting)
    ELSE CHOOSE r \in Range(waiting) : \A q \in Range(waiting) : Rank[r] <= Rank[q]

\* The head of the waiting requests is admitted, or the loop ends.
ScheduleWaiting ==
    /\ At("waiting") /\ waiting # << >> /\ step.tokens > 0
    /\ \E hit \in Hits :
         LET r == HeadRequest
         IN  /\ hit < NumTokens[r]
             /\ \E t \in {TrySchedule(r, hit, NumNewTokens(r, hit))} :
                \/ /\ t.n = 0
                   /\ cache' = t.cache
                   /\ step' = [step EXCEPT !.pc = "finish"]
                   /\ UNCHANGED <<req, waiting, running, shortages>>
                \/ /\ t.n > 0 /\ shortages < MaxShortages
                   /\ shortages' = shortages + 1
                   /\ cache' = Free(t.cache, r)
                   /\ step' = [step EXCEPT !.pc = "finish"]
                   /\ UNCHANGED <<req, waiting, running>>
                \/ /\ t.n > 0
                   /\ cache' = Allocate(t.cache, r, t.inputs)
                   /\ step' = Scheduled(step, r, hit, t)
                   /\ req' = [req EXCEPT ![r] = [status |-> "running",
                                                 num_computed |-> hit]]
                   /\ waiting' = Without(waiting, {r})
                   /\ running' = Append(running, r)
                   /\ UNCHANGED shortages
    /\ UNCHANGED <<config, batches, worker, missed>>

EndWaiting ==
    /\ At("waiting") /\ (waiting = << >> \/ step.tokens = 0)
    /\ step' = [step EXCEPT !.pc = "finish"]
    /\ UNCHANGED <<config, cache, req, waiting, running, batches, worker, missed,
                   shortages>>

\* The worker drops what was evicted, computes the step's inputs and gathers
\* the embeddings of the step's tokens; the drafter those one token further on.
Gathers(e) ==
    \A s \in {0, config.shift} : \A i \in DOMAIN Features[e.req] :
        LET f == Features[e.req][i]
        IN  Embeds(f, e.start + s, e.start + s + e.n) => f.hash \in worker'

\* Mutant of StepInWorker: the list of evicted outputs is not looked at.
StepInWorkerKeeps(inputs) == worker \union inputs

StepInWorker(inputs) == (worker \ cache.freed) \union inputs

\* The rest of schedule(), and the step in the worker.  Until the queue of steps
\* is full the engine may go on to schedule another one.
FinishSchedule ==
    /\ At("finish")
    /\ LET entries == Range(step.entries)
           n(r) == IF \E e \in entries : e.req = r
                   THEN (CHOOSE e \in entries : e.req = r).n ELSE 0
       IN  /\ worker' = StepInWorker(UNION {e.inputs : e \in entries})
           /\ missed' = (missed \/ \E e \in entries : ~ Gathers(e))
           /\ req' = [r \in Req |-> [req[r] EXCEPT !.num_computed = @ + n(r)]]
    /\ cache' = TakeFreed(cache)
    /\ batches' = Append(batches, [i \in DOMAIN step.entries |->
                                    [step.entries[i] EXCEPT !.inputs = {}]])
    /\ \E pc \in {"idle", "update"} :
         /\ pc = "idle" => step.entries # << >> /\ Len(batches) + 1 < config.depth
         /\ step' = [Idle EXCEPT !.pc = pc]
    /\ UNCHANGED <<config, waiting, running, shortages>>

-----------------------------------------------------------------------------
(* update_from_output() and calls from outside *)

\* Mutant of Over: a request keeps its outputs until it ends.
OverAtEnd(r, f, ends) == ends

\* The request needs the output no more.
Over(r, f, ends) == ends \/ Passed(f, req[r].num_computed)

\* _free_encoder_inputs, and free when the request ends.
FreedBy(c, e) ==
    LET r == e.req
        ends == e.start + e.n >= NumTokens[r]
        over == {i \in DOMAIN Features[r] : Over(r, Features[r][i], ends)}
    IN  IF req[r].status = "done" THEN c ELSE FreeInputs(c, r, HashesOf(r), over)

Finish(gone) ==
    /\ req' = [r \in Req |-> IF r \in gone THEN [status |-> "done", num_computed |-> 0]
                            ELSE req[r]]
    /\ waiting' = Without(waiting, gone)
    /\ running' = Without(running, gone)

Update ==
    /\ batches # << >>
    /\ At("update") \/ (At("idle") /\ waiting = << >> /\ running = << >>)
    /\ LET entries == Head(batches)
           free[i \in 0..Len(entries)] ==
             IF i = 0 THEN cache
             ELSE The({FreedBy(c, entries[i]) : c \in {free[i - 1]}})
       IN  /\ cache' = free[Len(entries)]
           /\ Finish({e.req : e \in {x \in Range(entries) :
                                      x.start + x.n >= NumTokens[x.req]}})
    /\ batches' = Tail(batches)
    /\ step' = Idle
    /\ UNCHANGED <<config, worker, missed, shortages>>

\* finish_requests for a client, between steps or before a result is processed
Abort(r) ==
    /\ At("idle") \/ At("update")
    /\ req[r].status \in {"waiting", "running"}
    /\ cache' = Free(cache, r)
    /\ Finish({r})
    /\ UNCHANGED <<config, step, batches, worker, missed, shortages>>

\* reset_encoder_cache of the engine: the scheduler's and the worker's.
ResetEncoderCache ==
    /\ At("idle")
    /\ cache' = EmptyCache
    /\ worker' = {}
    /\ UNCHANGED <<config, req, waiting, running, step, batches, missed, shortages>>

Engine ==
    \/ BeginSchedule \/ TryRunning \/ Preempt \/ ScheduleRunning \/ EndRunning
    \/ ScheduleWaiting \/ EndWaiting \/ FinishSchedule
    \/ Update

Next ==
    \/ Engine
    \/ ResetEncoderCache
    \/ \E r \in Req : AddRequest(r) \/ Abort(r)

\* The engine's busy loop never stops stepping.
Spec == Init /\ [][Next]_vars /\ WF_vars(Engine)

-----------------------------------------------------------------------------
(* Properties *)

\* The type of the state.
TypeOK ==
    /\ config \in Configs
    /\ DOMAIN cache.cached \subseteq Hash
    /\ \A h \in DOMAIN cache.cached : cache.cached[h] \subseteq Req
    /\ \A r \in Req : req[r].num_computed \in 0..NumTokens[r]
    /\ step.tokens \in 0..TokenBudget /\ step.budget \in 0..ComputeBudget
    /\ Len(batches) <= config.depth
    /\ worker \subseteq Hash
    /\ shortages \in 0..MaxShortages

\* num_free_slots and num_freeable_slots of the manager are the sizes of what
\* cached and freeable really hold, and freeable holds exactly the outputs
\* nobody refers to, at every point of schedule() and update_from_output(),
\* failed allocations, preemptions, aborts and resets included.
SlotsAccountedFor == TypeOK /\ SlotsExact(cache) /\ FreeableExact(cache)

\* allocate() never fails an assertion, and can_allocate() never evicts from an
\* empty dictionary.
NoFailure == ~ cache.err

\* No step meets an "Encoder cache miss" in _gather_mm_embeddings: every encoder
\* output the step's tokens (and the drafter's) need is in the worker's cache
\* when the step runs, although the scheduler decides that from its own books.
NoCacheMiss == ~ missed

\* Between steps the worker holds the outputs the manager believes are cached,
\* and no others, so cache_size bounds the worker's memory.
WorkerInStep == At("idle") => worker = DOMAIN cache.cached

\* Between steps only running requests keep outputs from being evicted: a
\* request that was preempted, ended, aborted or not admitted left no reference.
NothingPinned ==
    At("idle") => \A h \in DOMAIN cache.cached : cache.cached[h] \subseteq Range(running)

\* Every request ends, although outputs fit in the cache only one or two at a
\* time and requests hold them while they wait for one another.
RequestsFinish ==
    (\E r \in Req : req[r].status \in {"waiting", "running"})
        ~> (\A r \in Req : req[r].status \in {"new", "done"})

=============================================================================
