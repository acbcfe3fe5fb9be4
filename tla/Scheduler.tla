----------------------------- MODULE Scheduler -----------------------------
(***************************************************************************)
(* The v1 scheduler (vllm/v1/core/sched/scheduler.py, async_scheduler.py,  *)
(* request_queue.py) inside the engine loop (vllm/v1/engine/core.py): a    *)
(* step schedules a batch, hands it to the workers and, when the queue of  *)
(* batches in flight is full or a result is there, applies the oldest      *)
(* result.  schedule() and update_from_output() go through the requests    *)
(* one by one; nothing else happens while they run.                        *)
(*                                                                         *)
(* The workers execute batches in order.  What their KV slots hold is kept *)
(* in a ghost variable, so that one can say whether a token was sampled    *)
(* from slots that were computed for it.                                   *)
(***************************************************************************)
EXTENDS KVCacheManager

CONSTANTS
    NumPrompt,      \* num_prompt_tokens of each request
    MaxTokens,      \* max_tokens of each request
    Rank,           \* order of (priority, arrival_time, request_id)
    MaxRunning,     \* max_num_running_reqs
    Configs,        \* the configurations looked at, see Config
    NoReq           \* no request

\* What an engine is configured for, and what its environment may do.
Config ==
    [reqs : SUBSET Req,             \* the requests that may arrive
     policy : {"fcfs", "priority"},
     token_budget : Nat \ {0},      \* max_num_scheduled_tokens
     long_prefill : Nat,            \* long_prefill_token_threshold, 0 for none
     chunked_prefill : BOOLEAN,     \* enable_chunked_prefill
     reserve_full_isl : BOOLEAN,    \* scheduler_reserve_full_isl
     async : BOOLEAN,               \* AsyncScheduler
     queue_depth : Nat \ {0},       \* batch_queue_size; 1 is step()
     num_spec : Nat,                \* num_spec_tokens
     num_lookahead : Nat,           \* num_lookahead_tokens
     recompute : BOOLEAN,           \* kv_load_failure_policy = "recompute"
     structured : SUBSET Req,       \* wait for a grammar to be compiled
     load_sync : SUBSET Req,        \* the connector may load, within the step
     load_async : SUBSET Req,       \* the connector may load, in the background
     senders : SUBSET Req,          \* sent by the connector when they finish
     loads_fail : BOOLEAN,          \* loads may fail
     calls : SUBSET {"abort", "reset", "reset_running", "pause"}]

ASSUME SchedulerAssumption ==
    /\ Configs \subseteq Config
    /\ \A c \in Configs : c.num_spec > 0 => ~ c.async /\ c.queue_depth = 1
    /\ \A r \in Req : Rank[r] \in Nat
    /\ \A r, q \in Req : Rank[r] = Rank[q] => r = q
    /\ MaxRunning \in Nat \ {0}
    /\ \A c \in Configs :
          /\ c.token_budget >= MaxRunning
          /\ ~ c.chunked_prefill => c.token_budget >= MaxModelLen
    /\ NoReq \notin Req
    /\ \A r \in Req :
          /\ NumPrompt[r] \in 1..(Len(TokenStream[r]) - 1)
          /\ NumPrompt[r] + MaxTokens[r] \in Len(TokenStream[r])..MaxModelLen

VARIABLES
    config,             \* vllm_config: chosen at the start, never changed
    kv,                 \* kv_cache_manager
    req,                \* the Request objects
    waiting,            \* the queues of the scheduler
    skipped_waiting,
    running,
    finished_recving,   \* finished_recving_kv_req_ids
    failed_recving,     \* failed_recving_kv_req_ids
    finished_req_ids,   \* finished_req_ids
    prev_step,          \* prev_step_scheduled_req_ids
    pause,              \* _pause_state
    batches,            \* batch_queue, oldest first
    step,               \* where the engine is, and the locals of the call
    receiving,          \* workers: loads under way
    sending,            \* workers: finished requests whose blocks are being sent
    content,            \* workers: what every KV slot holds
    trouble             \* ghost: what must not happen and did

queues == <<waiting, skipped_waiting, running>>
recvs == <<finished_recving, failed_recving>>
transfers == <<receiving, sending>>
vars == <<kv, req, queues, recvs, transfers, finished_req_ids, prev_step,
          pause, config, batches, step, content, trouble>>

\* "new": not added yet; "finished": done, but still in self.requests because
\* a transfer uses its blocks; "gone": no longer in self.requests.
Status == {"new", "waiting", "grammar", "remote", "running", "preempted",
           "finished", "gone"}

UseConnector == config.load_sync \union config.load_async \union config.senders # {}

Unfinished(r) == req[r].status \notin {"new", "finished", "gone"}
Blocked(r) == req[r].status \in {"grammar", "remote"}

\* A KV slot holds the token prefix it was computed from, or junk.
Slot == Block \X (1..BlockSize)
Junk == << >>
SlotOf(table, p) == <<table[CDiv(p, BlockSize)], ((p - 1) % BlockSize) + 1>>
HasSlot(table, p) == CDiv(p, BlockSize) \in DOMAIN table
Prefix(r, p) == SubSeq(TokenStream[r], 1, Lesser(p, Len(TokenStream[r])))

Idle == [pc |-> "idle"]
At(pc) == step.pc = pc

Init ==
    /\ config \in Configs
    /\ \E queue \in InitialQueues : kv = InitKV(queue)
    /\ req = [r \in Req |->
         [status |-> "new", num_tokens |-> NumPrompt[r], num_computed |-> 0,
          spec |-> 0, placeholders |-> 0, discard |-> FALSE,
          preempted |-> FALSE, chunk |-> FALSE]]
    /\ waiting = << >> /\ skipped_waiting = << >> /\ running = << >>
    /\ finished_recving = {} /\ failed_recving = {}
    /\ receiving = {} /\ sending = {}
    /\ finished_req_ids = {} /\ prev_step = {}
    /\ pause = "unpaused"
    /\ batches = << >>
    /\ step = Idle
    /\ content = [s \in Slot |-> Junk]
    /\ trouble = {}

-----------------------------------------------------------------------------
(* Queues: first come first served, or a heap ordered by Rank *)

InsertByRank(q, r) ==
    LET k == Cardinality({i \in DOMAIN q : Rank[q[i]] < Rank[r]})
    IN  SubSeq(q, 1, k) \o <<r>> \o SubSeq(q, k + 1, Len(q))

AddRequestTo(q, r) ==
    IF config.policy = "priority" THEN InsertByRank(q, r) ELSE Append(q, r)
PrependRequest(q, r) ==
    IF config.policy = "priority" THEN InsertByRank(q, r) ELSE <<r>> \o q

\* Requests skipped in this step go back in front of the others, in the order
\* in which they were skipped.
PrependRequests(q, skipped) ==
    IF config.policy = "fcfs" THEN skipped \o q
    ELSE LET all == Range(q) \union Range(skipped)
         IN  [i \in 1..Cardinality(all) |->
                CHOOSE r \in all :
                    Cardinality({x \in all : Rank[x] < Rank[r]}) = i - 1]

\* _select_waiting_queue_for_scheduling
FromSkipped ==
    /\ skipped_waiting # << >>
    /\ \/ config.policy = "fcfs" \/ waiting = << >>
       \/ Rank[Head(skipped_waiting)] < Rank[Head(waiting)]
HeadRequest == IF FromSkipped THEN Head(skipped_waiting) ELSE Head(waiting)

PopRequest ==
    IF FromSkipped
    THEN skipped_waiting' = Tail(skipped_waiting) /\ UNCHANGED waiting
    ELSE waiting' = Tail(waiting) /\ UNCHANGED skipped_waiting

\* add_request
AddRequest(r) ==
    /\ At("idle") /\ r \in config.reqs /\ req[r].status = "new"
    /\ IF r \in config.structured
       THEN /\ req' = [req EXCEPT ![r].status = "grammar"]
            /\ skipped_waiting' = AddRequestTo(skipped_waiting, r)
            /\ UNCHANGED waiting
       ELSE /\ req' = [req EXCEPT ![r].status = "waiting"]
            /\ waiting' = AddRequestTo(waiting, r)
            /\ UNCHANGED skipped_waiting
    /\ UNCHANGED <<kv, running, recvs, transfers, finished_req_ids, prev_step,
                   pause, config, batches, step, content, trouble>>

-----------------------------------------------------------------------------
(* schedule(): the running requests *)

\* Mutant of HasRequests: requests that were skipped are not counted.
HasRequestsButSkipped ==
    \/ finished_req_ids # {}
    \/ pause # "all" /\ running # << >>
    \/ pause = "unpaused" /\ waiting # << >>

\* has_requests
HasRequests ==
    \/ finished_req_ids # {}
    \/ pause # "all" /\ running # << >>
    \/ pause = "unpaused" /\ waiting \o skipped_waiting # << >>

BeginSchedule ==
    /\ At("idle") /\ HasRequests
    /\ step' = [pc |-> "running", idx |-> 1, cur |-> NoReq, want |-> 0,
                budget |-> IF pause = "all" THEN 0 ELSE config.token_budget,
                order |-> << >>, num |-> [r \in Req |-> 0],
                spec |-> [r \in Req |-> 0], ext |-> [r \in Req |-> 0],
                preempted |-> {}, resumed |-> {}, skipped |-> << >>]
    /\ UNCHANGED <<kv, req, queues, recvs, transfers, finished_req_ids,
                   prev_step, pause, config, batches, content, trouble>>

\* Async scheduling: the tokens in flight are sure to reach max_tokens.
SureToStop(r) ==
    /\ req[r].placeholders > 0
    /\ req[r].num_computed + 2 - req[r].placeholders >= NumPrompt[r] + MaxTokens[r]

Threshold(n) == 
    IF config.long_prefill > 0 THEN Lesser(n, config.long_prefill) ELSE n

\* num_new_tokens of a running request
NumNewTokens(r) ==
    LET rest == req[r].num_tokens + req[r].spec + req[r].placeholders
                  - req[r].num_computed
    IN  Lesser(Lesser(Threshold(rest), step.budget),
               MaxModelLen - 1 - req[r].num_computed)

\* The next running request with something to compute becomes the current one.
PickRunning ==
    /\ At("running") /\ step.cur = NoReq
    /\ step.idx <= Len(running) /\ step.budget > 0
    /\ LET r == running[step.idx]
           n == IF SureToStop(r) THEN 0 ELSE NumNewTokens(r)
       IN  IF n = 0 THEN step' = [step EXCEPT !.idx = @ + 1]
           ELSE step' = [step EXCEPT !.cur = r, !.want = n]
    /\ UNCHANGED <<kv, req, queues, recvs, transfers, finished_req_ids,
                   prev_step, pause, config, batches, content, trouble>>

RunningArgs(r) ==
    [num_computed |-> req[r].num_computed, num_tokens |-> req[r].num_tokens,
     new |-> step.want, hits |-> << >>, lookahead |-> config.num_lookahead,
     external |-> 0, delay |-> FALSE]

\* allocate_slots gave blocks: the request is in the batch.
ScheduleRunning ==
    /\ At("running") /\ step.cur # NoReq
    /\ LET r == step.cur
           a == RunningArgs(r)
           drafts == step.want + req[r].num_computed - req[r].num_tokens
                       - req[r].placeholders
       IN  /\ CanAllocate(kv, r, a)
           /\ kv' = AllocateSlots(kv, r, a)
           /\ step' = [step EXCEPT
                !.cur = NoReq, !.want = 0, !.idx = @ + 1,
                !.budget = @ - step.want, !.order = Append(@, r),
                !.num[r] = step.want,
                !.spec[r] = Lesser(req[r].spec, Greater(0, drafts))]
           /\ req' = [req EXCEPT ![r].spec = 0]
    /\ UNCHANGED <<queues, recvs, transfers, finished_req_ids, prev_step,
                   pause, config, batches, content, trouble>>

\* _preempt_request, for the request record.
Preempted(q) == [q EXCEPT !.status = "preempted", !.num_computed = 0,
                          !.spec = 0, !.preempted = TRUE]

\* The request to preempt: the last one, or the one of lowest priority.
Victim ==
    IF config.policy = "fcfs" THEN running[Len(running)]
    ELSE CHOOSE r \in Range(running) : \A q \in Range(running) : Rank[q] <= Rank[r]

\* Mutant of Undone: a victim stays in the batch.
UndoneNever(v) == FALSE

\* With priorities the victim may have been put into this batch already.
Undone(v) == config.policy = "priority" /\ v \in Range(step.order)

\* allocate_slots gave None: a victim is preempted and the call is repeated;
\* preempting the request itself ends the loop.
PreemptForBlocks ==
    /\ At("running") /\ step.cur # NoReq
    /\ ~ CanAllocate(kv, step.cur, RunningArgs(step.cur))
    /\ LET v == Victim
           undo == Undone(v)
       IN  /\ kv' = Free(AllocateSlots(kv, step.cur, RunningArgs(step.cur)), v)
           /\ req' = [req EXCEPT ![v] = Preempted(@)]
           /\ running' = Without(running, {v})
           /\ waiting' = PrependRequest(waiting, v)
           /\ step' = [step EXCEPT
                !.preempted = @ \union {v},
                !.pc = IF v = step.cur THEN "finish" ELSE @,
                !.order = IF undo THEN Without(@, {v}) ELSE @,
                !.budget = IF undo THEN @ + step.num[v] ELSE @,
                !.idx = IF undo THEN @ - 1 ELSE @,
                !.num[v] = 0, !.spec[v] = 0]
    /\ UNCHANGED <<skipped_waiting, recvs, transfers, finished_req_ids,
                   prev_step, pause, config, batches, content, trouble>>

\* Waiting requests are looked at only if nothing was preempted.
MayAdmit == step.preempted = {} /\ pause = "unpaused"

EndRunning ==
    /\ At("running") /\ step.cur = NoReq
    /\ step.idx > Len(running) \/ step.budget = 0
    /\ step' = [step EXCEPT !.pc = IF MayAdmit THEN "waiting" ELSE "finish"]
    /\ UNCHANGED <<kv, req, queues, recvs, transfers, finished_req_ids,
                   prev_step, pause, config, batches, content, trouble>>

-----------------------------------------------------------------------------
(* schedule(): the waiting requests *)

MoreWaiting ==
    /\ At("waiting")
    /\ waiting \o skipped_waiting # << >>
    /\ step.budget > 0
    /\ Len(running) # MaxRunning

EndWaiting ==
    /\ At("waiting") /\ ~ MoreWaiting
    /\ step' = [step EXCEPT !.pc = "finish"]
    /\ UNCHANGED <<kv, req, queues, recvs, transfers, finished_req_ids,
                   prev_step, pause, config, batches, content, trouble>>

\* A blocked request that cannot be promoted, or one for which the connector
\* cannot tell yet how many tokens it has, is set aside for this step.
SkipWaiting ==
    /\ MoreWaiting
    /\ LET r == HeadRequest
       IN  /\ \/ req[r].status = "grammar"
              \/ req[r].status = "remote" /\ r \notin finished_recving
              \/ /\ ~ Blocked(r) /\ req[r].num_computed = 0
                 /\ r \in config.load_sync \union config.load_async
           /\ step' = [step EXCEPT !.skipped = Append(@, r)]
    /\ PopRequest
    /\ UNCHANGED <<kv, req, running, recvs, transfers, finished_req_ids,
                   prev_step, pause, config, batches, content, trouble>>

\* _try_promote_blocked_waiting_request: the grammar is compiled, or the load
\* is over.  What was loaded is cached; with nothing left the blocks go back.
PromoteWaiting ==
    /\ MoreWaiting
    /\ LET r == HeadRequest
           known == req[r].num_tokens
           done == req[r].num_computed
           failed == r \in failed_recving
       IN  \/ /\ req[r].status = "grammar"
              /\ req' = [req EXCEPT ![r].status = "waiting"]
              /\ UNCHANGED <<kv, recvs>>
           \/ /\ req[r].status = "remote" /\ r \in finished_recving
              /\ kv' = IF failed /\ done = 0 THEN Free(kv, r)
                       ELSE CacheBlocks(kv, r, done, known)
              /\ req' = [req EXCEPT
                   ![r].num_computed =
                       IF ~ failed /\ done = known THEN known - 1 ELSE done,
                   ![r].status =
                       IF req[r].preempted THEN "preempted" ELSE "waiting"]
              /\ finished_recving' = finished_recving \ {r}
              /\ failed_recving' = failed_recving \ {r}
    /\ UNCHANGED <<queues, transfers, finished_req_ids, prev_step, pause, config,
                   batches, step, content, trouble>>

Hits(r) ==
    IF req[r].num_computed # 0 THEN << >>
    ELSE GetComputedBlocks(kv, r, req[r].num_tokens)

\* get_num_new_matched_tokens: what the connector has beyond the local hits;
\* loads within the step leave the last token to be computed.
External(r) ==
    IF req[r].num_computed # 0 THEN {0}
    ELSE LET most == req[r].num_tokens - Len(Hits(r)) * BlockSize
         IN  {0} \union (IF r \in config.load_sync THEN 0..(most - 1) ELSE {})
ExternalAsync(r) ==
    IF req[r].num_computed # 0 \/ r \notin config.load_async THEN {}
    ELSE 1..(req[r].num_tokens - Len(Hits(r)) * BlockSize)

WaitingArgs(r, new, external, delay) ==
    [num_computed |-> req[r].num_computed, num_tokens |-> req[r].num_tokens,
     new |-> new, hits |-> Hits(r),
     lookahead |-> IF req[r].num_computed = 0 THEN 0 ELSE config.num_lookahead,
     external |-> external, delay |-> delay]

\* Every test of the loop that ends it, chunked prefill excepted.
Fits(r, a) ==
    /\ config.reserve_full_isl => CanFitFullSequence(kv, r, a)
    /\ CanAllocate(kv, r, a)

\* The loop ends at a request that does not fit, in the budget or in memory.
StopWaiting(r, a) ==
    /\ ~ Fits(r, a)
    /\ kv' = IF config.reserve_full_isl /\ ~ CanFitFullSequence(kv, r, a) THEN kv
             ELSE AllocateSlots(kv, r, a)
    /\ step' = [step EXCEPT !.pc = "finish"]
    /\ UNCHANGED <<req, queues, transfers>>

\* A waiting request starts or resumes running with its next chunk.
ScheduleWaiting ==
    /\ MoreWaiting /\ ~ Blocked(HeadRequest)
    /\ LET r == HeadRequest
       IN  \E external \in External(r) :
           LET start == req[r].num_computed + Len(Hits(r)) * BlockSize + external
               rest == Threshold(req[r].num_tokens - start)
               new == Lesser(rest, step.budget)
               a == WaitingArgs(r, new, external, FALSE)
           IN  IF ~ config.chunked_prefill /\ rest > step.budget
               THEN /\ step' = [step EXCEPT !.pc = "finish"]
                    /\ UNCHANGED <<kv, req, queues, transfers>>
               ELSE \/ StopWaiting(r, a)
                    \/ /\ Fits(r, a)
                       /\ kv' = AllocateSlots(kv, r, a)
                       /\ PopRequest
                       /\ running' = Append(running, r)
                       /\ step' = [step EXCEPT
                            !.budget = @ - new, !.order = Append(@, r),
                            !.num[r] = new, !.ext[r] = external,
                            !.resumed = IF req[r].status = "preempted"
                                        THEN @ \union {r} ELSE @]
                       /\ req' = [req EXCEPT ![r].status = "running",
                                             ![r].num_computed = start]
                       /\ UNCHANGED transfers
    /\ UNCHANGED <<recvs, finished_req_ids, prev_step, pause, config, batches,
                   content, trouble>>

\* A waiting request gets blocks, and the connector loads them in the
\* background.  num_computed_tokens counts the tokens as if they were there.
StartLoad ==
    /\ MoreWaiting /\ ~ Blocked(HeadRequest)
    /\ LET r == HeadRequest
       IN  \E external \in ExternalAsync(r) :
           LET local == Len(Hits(r)) * BlockSize
               a == WaitingArgs(r, 0, external, TRUE)
           IN  \/ StopWaiting(r, a)
               \/ /\ Fits(r, a)
                  /\ kv' = AllocateSlots(kv, r, a)
                  /\ PopRequest
                  /\ UNCHANGED running
                  /\ step' = [step EXCEPT !.skipped = Append(@, r)]
                  /\ req' = [req EXCEPT ![r].status = "remote",
                                        ![r].num_computed = local + external]
                  /\ receiving' = receiving \union
                       {[req |-> r, table |-> kv'.req_to_blocks[r],
                         from |-> local, to |-> local + external, bad |-> {}]}
                  /\ UNCHANGED sending
    /\ UNCHANGED <<recvs, finished_req_ids, prev_step, pause, config, batches,
                   content, trouble>>

-----------------------------------------------------------------------------
(* schedule(): the batch, and where the engine goes from there *)

\* What the workers are told about one request: start with start tokens
\* computed, of which ext are loaded first, compute n, of which spec are
\* drafts, and sample position pos (0: a partial prefill samples nothing).
Entry(r) ==
    LET start == req[r].num_computed
        known == req[r].num_tokens + req[r].placeholders
    IN  [start |-> start, n |-> step.num[r], ext |-> step.ext[r],
         spec |-> step.spec[r], table |-> kv.req_to_blocks[r],
         pos |-> IF start + step.num[r] >= known THEN known + 1 ELSE 0]

\* Mutant of AfterSchedule: a placeholder for every chunk.
AfterScheduleCountsChunks(r) ==
    LET done == req[r].num_computed + step.num[r]
    IN  [req[r] EXCEPT !.num_computed = done,
                       !.chunk = done < req[r].num_tokens + req[r].placeholders,
                       !.placeholders = IF config.async THEN @ + 1 ELSE @]

\* _update_after_schedule, of Scheduler and AsyncScheduler.
AfterSchedule(r) ==
    LET q == req[r]
        done == q.num_computed + step.num[r]
        chunk == done < q.num_tokens + q.placeholders
    IN  [q EXCEPT !.num_computed = done, !.chunk = chunk,
                  !.placeholders = IF config.async /\ ~ chunk THEN @ + 1 ELSE @]

\* Is there room in the queue behind the new batch?
HasRoom == Len(batches) + 1 < config.queue_depth

\* The asserts at the end of schedule() and at the head of the update loop.
WithinLimits ==
    /\ step.budget >= 0
    /\ Len(running) <= MaxRunning
    /\ Len(step.order) <= Len(running)
    /\ \A r \in Range(step.order) : step.num[r] > 0

\* The batch is queued.  step() waits for its result; step_with_batch_queue()
\* goes on scheduling while the queue has room, unless the oldest result is
\* there, nothing was scheduled, or sampling has to wait for an earlier token
\* to advance a grammar.
FinishSchedule ==
    /\ At("finish")
    /\ LET scheduled == Range(step.order)
           deferred == config.async /\ \E r \in scheduled \cap config.structured :
                         ~ AfterSchedule(r).chunk /\ req[r].placeholders > 0
           room == step.order # << >> /\ ~ deferred /\ HasRoom
       IN  /\ batches' = Append(batches,
                [order |-> step.order, entry |-> [r \in scheduled |-> Entry(r)]])
           /\ req' = [r \in Req |->
                        IF r \in scheduled THEN AfterSchedule(r) ELSE req[r]]
           /\ prev_step' = scheduled
           /\ trouble' = trouble
                \union (IF WithinLimits THEN {} ELSE {"beyond the limits"})
                \union (IF step.resumed \cap prev_step # {}
                        THEN {"resumed a request of the previous step"} ELSE {})
                \union (IF deferred /\ batches = << >>
                        THEN {"waited for an empty queue"} ELSE {})
           /\ \/ room /\ step' = Idle
              \/ step' = [pc |-> "output"]
    /\ skipped_waiting' = PrependRequests(skipped_waiting, step.skipped)
    /\ finished_req_ids' = {}
    /\ UNCHANGED <<kv, waiting, running, recvs, transfers, pause, config, content>>

\* Nothing to schedule, but results are outstanding.
AwaitOutput ==
    /\ At("idle") /\ ~ HasRequests /\ batches # << >>
    /\ step' = [pc |-> "output"]
    /\ UNCHANGED <<kv, req, queues, recvs, transfers, finished_req_ids,
                   prev_step, pause, config, batches, content, trouble>>

-----------------------------------------------------------------------------
(* The workers: one batch at a time, in order *)

\* Positions that attention reads for the token after position start.
Reads(start) ==
    {p \in 1..start : SlidingWindow = 0 \/ p > start - (SlidingWindow - 1)}

\* How far the tokens of a request are real after the step: rejected drafts
\* are not.
Real(e, accepted) == IF e.pos = 0 THEN e.start + e.n ELSE e.pos - 1 + accepted

\* Who computes, and who loads within the step, which position into slot s.
Members(batch) == DOMAIN batch.entry
Places(batch, s) ==
    {x \in Members(batch) \X (1..MaxModelLen) :
       LET table == batch.entry[x[1]].table
       IN  HasSlot(table, x[2]) /\ SlotOf(table, x[2]) = s}
Writers(batch, s) ==
    {x \in Places(batch, s) :
       LET e == batch.entry[x[1]] IN x[2] \in (e.start + 1)..(e.start + e.n)}
Loaders(batch, s) ==
    {x \in Places(batch, s) :
       LET e == batch.entry[x[1]] IN x[2] \in (e.start - e.ext + 1)..e.start}

\* The slots after the loads of this step: those within the step, and those in
\* the background that are over.  A block that failed to load holds junk.
Loaded(batch, bad, over) ==
    LET Puts(s) ==
            {IF s[1] \in bad THEN Junk ELSE Prefix(x[1], x[2]) :
               x \in Loaders(batch, s)}
            \union
            UNION {{IF s[1] \in bad \union l.bad THEN Junk ELSE Prefix(l.req, p) :
                      p \in {q \in (l.from + 1)..l.to : SlotOf(l.table, q) = s}} :
                    l \in over}
    IN  [s \in Slot |-> IF Puts(s) = {} THEN content[s]
                        ELSE CHOOSE c \in Puts(s) : TRUE]

\* The requests of the batch that read a slot which does not hold what they
\* take it for, be it from before or from another request of the batch.
Misled(batch, accepted, slots) ==
    LET Wrong(r, p, misled) ==
            LET e == batch.entry[r]
                s == SlotOf(e.table, p)
            IN  IF ~ HasSlot(e.table, p) THEN TRUE
                ELSE IF Writers(batch, s) = {} THEN slots[s] # Prefix(r, p)
                ELSE \E w \in Writers(batch, s) :
                       \/ w[1] \in misled
                       \/ w[2] > Real(batch.entry[w[1]], accepted[w[1]])
                       \/ Prefix(w[1], w[2]) # Prefix(r, p)
        misled[k \in 0..Cardinality(Members(batch))] ==
            IF k = 0 THEN {}
            ELSE {r \in Members(batch) : \E p \in Reads(batch.entry[r].start) :
                                            Wrong(r, p, misled[k - 1])}
    IN  misled[Cardinality(Members(batch))]

\* The slots after the batch: whoever was misled writes junk.
Computed(batch, accepted, slots) ==
    LET misled == Misled(batch, accepted, slots)
        Puts(s) ==
            {IF x[1] \in misled \/ x[2] > Real(batch.entry[x[1]], accepted[x[1]])
             THEN Junk ELSE Prefix(x[1], x[2]) : x \in Writers(batch, s)}
    IN  [s \in Slot |-> IF Puts(s) = {} THEN slots[s]
                        ELSE IF Junk \in Puts(s) THEN Junk
                        ELSE CHOOSE c \in Puts(s) : TRUE]

\* Blocks whose load may fail in this step; one does at most.
BlocksOf(table, from, to) ==
    {table[i] : i \in (from \div BlockSize + 1)..CDiv(to, BlockSize)}
MayFail(batch) ==
    UNION {LET e == batch.entry[r] IN BlocksOf(e.table, e.start - e.ext, e.start) :
             r \in {q \in Members(batch) : batch.entry[q].ext > 0}}
    \union UNION {BlocksOf(l.table, l.from, l.to) \ l.bad : l \in receiving}

-----------------------------------------------------------------------------
(* update_from_output *)

\* _update_requests_with_invalid_blocks for one list of requests and one bad
\* block b: those that hold b among the blocks they take for computed.
\* num_scheduled is what the batch computes of a request.
ComputedBefore(r, batch) ==
    req[r].num_computed - (IF r \in Members(batch) THEN batch.entry[r].n ELSE 0)
IndexOf(r, b, batch) ==
    {i \in 1..CDiv(ComputedBefore(r, batch), BlockSize) :
       i \in DOMAIN kv.req_to_blocks[r] /\ kv.req_to_blocks[r][i] = b}
Affected(list, b, batch) ==
    Without(list, {r \in Range(list) : IndexOf(r, b, batch) = {}})

\* The first of them is cut back to the bad block and will recompute it; the
\* others are cut back to what they had before the step.
CutBack(list, b, batch) ==
    [r \in Range(Affected(list, b, batch)) |->
       IF r = Head(Affected(list, b, batch))
       THEN (Min(IndexOf(r, b, batch)) - 1) * BlockSize
       ELSE ComputedBefore(r, batch)]

\* Mutant of AsyncLoading: loading requests are looked for in waiting.
AsyncLoadingInWaiting ==
    Without(waiting, {r \in Range(waiting) : req[r].status # "remote"})

\* The requests that load in the background.
AsyncLoading ==
    Without(skipped_waiting,
            {r \in Range(skipped_waiting) : req[r].status # "remote"})

\* The bad block, and the blocks computed from it.
Downstream(table, at) == Range(SubSeq(table, at, Len(table)))

\* _handle_invalid_blocks for the bad block b.
HandleInvalidBlocks(b, batch) ==
    LET async == CutBack(AsyncLoading, b, batch)
        sync == CutBack(running, b, batch)
        first == Head(Affected(running, b, batch))
        table == kv.req_to_blocks[first]
        at == Min(IndexOf(first, b, batch))
    IN  [req |-> [r \in Req |->
            IF r \in DOMAIN async THEN [req[r] EXCEPT !.num_computed = async[r]]
            ELSE IF r \in DOMAIN sync THEN [req[r] EXCEPT !.num_computed = sync[r]]
            ELSE req[r]],
         kv |-> IF DOMAIN sync = {} \/ config.recompute THEN kv
                ELSE EvictBlocks(kv, Downstream(table, at)),
         retry |-> IF config.recompute THEN DOMAIN async ELSE {},
         failed |-> IF config.recompute THEN DOMAIN sync
                    ELSE DOMAIN async \union DOMAIN sync]

\* The oldest result arrives: how many drafts were accepted, which block
\* failed to load, which transfers are over.
BeginUpdate ==
    /\ At("output")
    /\ LET batch == Head(batches)
       IN  \E accepted \in {f \in [Members(batch) -> 0..config.num_spec] :
                              \A r \in DOMAIN f : f[r] <= batch.entry[r].spec},
              bad \in {{}} \union
                (IF config.loads_fail THEN {{b} : b \in MayFail(batch)} ELSE {}),
              over \in SUBSET receiving, sent \in SUBSET sending :
           LET slots == Loaded(batch, bad, over)
               handled == IF bad = {}
                          THEN [req |-> req, kv |-> kv, retry |-> {}, failed |-> {}]
                          ELSE HandleInvalidBlocks(CHOOSE b \in bad : TRUE, batch)
           IN  /\ content' = Computed(batch, accepted, slots)
               /\ receiving' = {[l EXCEPT !.bad = @ \union
                                   (bad \cap BlocksOf(l.table, l.from, l.to))] :
                                l \in receiving \ over}
               /\ sending' = sending \ sent
               /\ req' = handled.req
               /\ kv' = handled.kv
               /\ failed_recving' = failed_recving \union handled.retry
               /\ step' = [pc |-> "update", todo |-> batch.order,
                           batch |-> batch, accepted |-> accepted,
                           misled |-> Misled(batch, accepted, slots),
                           failed |-> handled.failed, stopped |-> {},
                           stopped_preempted |-> {},
                           recvd |-> {l.req : l \in over}, sent |-> sent]
    /\ batches' = Tail(batches)
    /\ UNCHANGED <<queues, finished_recving, finished_req_ids, prev_step,
                   pause, config, trouble>>

\* _free_request: the blocks go back unless a transfer still uses them.
Sends(r) ==
    /\ r \in config.senders
    /\ req[r].status # "remote" /\ kv.req_to_blocks[r] # << >>

\* Mutant of FreeRequest: the blocks are freed although a transfer uses them.
FreeRequestAtOnce(k, r, num_tokens, delay) == Free(k, r)

FreeRequest(k, r, num_tokens, delay) ==
    LET k1 == IF UseConnector THEN RemoveSkippedBlocks(k, r, num_tokens) ELSE k
    IN  IF delay THEN k1 ELSE Free(k1, r)
Ended(q, delay) == [q EXCEPT !.status = IF delay THEN "finished" ELSE "gone"]

\* Mutant of NumRejected: rejected drafts count as computed.
NumRejectedIgnored(e, accepted) == 0

\* Drafts the sampler rejected.
NumRejected(e, accepted) == IF e.pos > 0 THEN e.spec - accepted ELSE 0

\* The body of the loop over the requests of the batch.  A request that was
\* aborted, failed or cut back gets nothing.
UpdateRequest ==
    /\ At("update") /\ step.todo # << >>
    /\ LET r == Head(step.todo)
           e == step.batch.entry[r]
           q == req[r]
           generated == IF e.pos = 0 THEN 0 ELSE step.accepted[r] + 1
           rejected == NumRejected(e, step.accepted[r])
           drop == config.async /\ q.discard /\ generated > 0
           new == IF drop THEN 0
                  ELSE Lesser(generated, Len(TokenStream[r]) - q.num_tokens)
           known == q.num_tokens + new
           computed == IF q.num_computed > 0 THEN q.num_computed - rejected ELSE 0
           left == IF config.async THEN q.placeholders - new ELSE q.placeholders
           stopped == new > 0 /\ known = Len(TokenStream[r])
           k == IF config.async /\ new > 0 /\ q.status = "running"
                THEN CacheBlocks(kv, r, computed - left, known) ELSE kv
           after == [q EXCEPT !.num_tokens = known, !.num_computed = computed,
                              !.placeholders = left,
                              !.discard = IF drop THEN FALSE ELSE @]
       IN  IF r \in step.failed \/ ~ Unfinished(r)
           THEN /\ step' = [step EXCEPT !.todo = Tail(@)]
                /\ UNCHANGED <<kv, req, sending, finished_req_ids, trouble>>
           ELSE /\ trouble' = trouble
                     \union (IF new > 0 /\ e.pos # q.num_tokens + 1
                             THEN {"token out of place"} ELSE {})
                     \union (IF new > 0 /\ r \in step.misled
                             THEN {"token from wrong KV"} ELSE {})
                     \union (IF left < 0 THEN {"negative placeholders"} ELSE {})
                /\ kv' = IF stopped THEN FreeRequest(k, r, known, Sends(r)) ELSE k
                /\ req' = [req EXCEPT ![r] =
                             IF stopped THEN Ended(after, Sends(r)) ELSE after]
                /\ sending' = IF stopped /\ Sends(r) THEN sending \union {r}
                              ELSE sending
                /\ finished_req_ids' = IF stopped THEN finished_req_ids \union {r}
                                       ELSE finished_req_ids
                /\ step' = [step EXCEPT
                     !.todo = Tail(@),
                     !.stopped = IF stopped /\ q.status = "running"
                                 THEN @ \union {r} ELSE @,
                     !.stopped_preempted = IF stopped /\ q.status # "running"
                                           THEN @ \union {r} ELSE @]
    /\ UNCHANGED <<queues, recvs, receiving, prev_step, pause, config, batches,
                   content>>

\* Stopped requests leave their queues.
RemoveStopped ==
    /\ At("update") /\ step.todo = << >>
    /\ running' = Without(running, step.stopped)
    /\ waiting' = Without(waiting, step.stopped_preempted)
    /\ step' = [pc |-> "transfers", batch |-> step.batch,
                failed |-> IF config.recompute THEN {} ELSE step.failed,
                recvd |-> step.recvd, sent |-> step.sent]
    /\ UNCHANGED <<kv, req, skipped_waiting, recvs, transfers,
                   finished_req_ids, prev_step, pause, config, batches, content,
                   trouble>>

LeaveQueues(r) ==
    /\ running' = Without(running, {r})
    /\ waiting' = Without(waiting, {r})
    /\ skipped_waiting' = Without(skipped_waiting, {r})

\* The blocks of a request that loads or sends are freed later.
DelayFree(r) ==
    \/ req[r].status = "remote" /\ r \notin finished_recving
    \/ Sends(r)

\* finish_requests for one unfinished request.
FinishRequest(r) ==
    LET delay == DelayFree(r)
    IN  /\ LeaveQueues(r)
        /\ kv' = FreeRequest(kv, r, req[r].num_tokens, delay)
        /\ req' = [req EXCEPT ![r] = Ended(@, delay)]
        /\ sending' = IF Sends(r) THEN sending \union {r} ELSE sending
        /\ finished_recving' = finished_recving \ {r}
        /\ failed_recving' = failed_recving \ {r}
        /\ finished_req_ids' = finished_req_ids \union {r}

\* The fail policy ends the requests a failed load affects.
FailRequest ==
    /\ At("transfers")
    /\ \E r \in step.failed :
         /\ step' = [step EXCEPT !.failed = @ \ {r}]
         /\ FinishRequest(r)
    /\ UNCHANGED <<receiving, prev_step, pause, config, batches, content, trouble>>

\* _update_from_kv_xfer_finished: loads that are over, then sends.
TransferDone ==
    /\ At("transfers") /\ step.failed = {}
    /\ \/ \E r \in step.recvd :
            /\ step' = [step EXCEPT !.recvd = @ \ {r}]
            /\ IF req[r].status = "remote"
               THEN /\ finished_recving' = finished_recving \union {r}
                    /\ UNCHANGED <<kv, req, trouble>>
               ELSE /\ kv' = Free(kv, r)
                    /\ req' = [req EXCEPT ![r].status = "gone"]
                    /\ trouble' = IF req[r].status = "finished" THEN trouble
                                  ELSE trouble \union {"load of an unknown request"}
                    /\ UNCHANGED finished_recving
       \/ \E r \in step.sent :
            /\ step.recvd = {}
            /\ step' = [step EXCEPT !.sent = @ \ {r}]
            /\ kv' = Free(kv, r)
            /\ req' = [req EXCEPT ![r].status = "gone"]
            /\ trouble' = IF req[r].status = "finished" THEN trouble
                          ELSE trouble \union {"send of an unknown request"}
            /\ UNCHANGED finished_recving
    /\ UNCHANGED <<queues, failed_recving, transfers, finished_req_ids,
                   prev_step, pause, config, batches, content>>

\* post_step: the drafter proposes tokens for the requests of the batch.
EndUpdate ==
    /\ At("transfers")
    /\ step.failed \union step.recvd \union step.sent = {}
    /\ \E drafts \in [Members(step.batch) -> 0..config.num_spec] :
         req' = [r \in Req |->
                   IF r \in Members(step.batch) /\ Unfinished(r) /\ ~ config.async
                   THEN [req[r] EXCEPT !.spec = IF req[r].chunk THEN 0 ELSE drafts[r]]
                   ELSE req[r]]
    /\ step' = Idle
    /\ UNCHANGED <<kv, queues, recvs, transfers, finished_req_ids, prev_step,
                   pause, config, batches, content, trouble>>

-----------------------------------------------------------------------------
(* Clients and operators, between two steps of the engine; aborts are also    *)
(* taken in just before a result is applied.                                  *)

Abort(r) ==
    /\ "abort" \in config.calls
    /\ At("idle") \/ At("output")
    /\ Unfinished(r)
    /\ FinishRequest(r)
    /\ UNCHANGED <<receiving, prev_step, pause, config, batches, step, content,
                   trouble>>

\* reset_prefix_cache()
Reset ==
    /\ "reset" \in config.calls /\ At("idle")
    /\ kv' = ResetPrefixCache(kv)
    /\ UNCHANGED <<req, queues, recvs, transfers, finished_req_ids, prev_step,
                   pause, config, batches, step, content, trouble>>

\* reset_prefix_cache(reset_running_requests = True): everything that runs is
\* preempted, last first, and its next token from the workers is dropped.
ResetRunning ==
    /\ "reset_running" \in config.calls /\ At("idle")
    /\ LET freed[i \in 0..Len(running)] ==
             IF i = 0 THEN kv ELSE Free(freed[i - 1], running[Len(running) + 1 - i])
           queued[i \in 0..Len(running)] ==
             IF i = 0 THEN waiting
             ELSE PrependRequest(queued[i - 1], running[Len(running) + 1 - i])
           k == freed[Len(running)]
       IN  /\ kv' = ResetPrefixCache(k)
           /\ waiting' = queued[Len(running)]
           /\ trouble' = IF CanResetPrefixCache(k) THEN trouble
                         ELSE trouble \union {"reset failed"}
    /\ req' = [r \in Req |->
                 IF r \in Range(running)
                 THEN [Preempted(req[r]) EXCEPT !.placeholders = 0, !.discard = TRUE]
                 ELSE req[r]]
    /\ running' = << >>
    /\ prev_step' = {}
    /\ UNCHANGED <<skipped_waiting, recvs, transfers, finished_req_ids, pause,
                   config, batches, step, content>>

\* set_pause_state
SetPauseState(s) ==
    /\ "pause" \in config.calls /\ At("idle")
    /\ s # pause /\ pause' = s
    /\ UNCHANGED <<config, kv, req, queues, recvs, transfers, finished_req_ids,
                   prev_step, batches, step, content, trouble>>

\* _process_input_queue blocks while there is no work.
WaitForInput ==
    /\ At("idle") /\ ~ HasRequests /\ batches = << >>
    /\ UNCHANGED vars

Engine ==
    \/ BeginSchedule \/ PickRunning \/ ScheduleRunning \/ PreemptForBlocks
    \/ EndRunning \/ EndWaiting \/ SkipWaiting \/ PromoteWaiting
    \/ ScheduleWaiting \/ StartLoad \/ FinishSchedule \/ AwaitOutput
    \/ BeginUpdate \/ UpdateRequest \/ RemoveStopped \/ FailRequest
    \/ TransferDone \/ EndUpdate

Next ==
    \/ Engine
    \/ \E r \in Req : AddRequest(r) \/ Abort(r)
    \/ Reset \/ ResetRunning \/ WaitForInput
    \/ \E s \in {"unpaused", "new", "all"} : SetPauseState(s)

Spec == Init /\ [][Next]_vars

\* has_work, or a call of the scheduler is under way: the engine can step.
Busy == ~ At("idle") \/ HasRequests \/ batches # << >>

\* The busy loop keeps stepping while there is work (weak fairness of Engine,
\* which Busy enables).  Grammars get compiled and the connector comes to know
\* what it has: a request at the head of its queue is not skipped for ever.
\* Loads come to an end while the engine asks for results.
Offered == MoreWaiting /\ req[HeadRequest].status # "remote"
Fairness ==
    /\ ([]<>~ Busy) \/ ([]<><<Engine>>_vars)
    /\ (<>[]~ Offered)
       \/ ([]<><<Offered /\ (PromoteWaiting \/ ScheduleWaiting \/ StartLoad)>>_vars)
    /\ (<>[]~ At("output")) \/ ([]<>(receiving = {}))

LiveSpec == Spec /\ Fairness

-----------------------------------------------------------------------------
(* Properties *)

\* Every variable has its type.
TypeOK ==
    /\ config \in Configs
    /\ kv \in KVState
    /\ req \in [Req -> [status : Status, num_tokens : Nat, num_computed : Nat,
                        spec : 0..config.num_spec, placeholders : Nat,
                        discard : BOOLEAN, preempted : BOOLEAN, chunk : BOOLEAN]]
    /\ {waiting, skipped_waiting, running} \subseteq Seq(Req)
    /\ UNION {finished_recving, failed_recving, sending, finished_req_ids,
              prev_step} \subseteq Req
    /\ pause \in {"unpaused", "new", "all"}
    /\ Len(batches) <= config.queue_depth
    /\ step.pc \in {"idle", "running", "waiting", "finish", "output", "update",
                    "transfers"}

\* No assert and no raise is reached: not in the block pool, not at the end of
\* schedule() (token budget, running requests), not in
\* _make_cached_request_data (a resumed request was not in the previous step),
\* not in AsyncScheduler (placeholders are never negative), not when transfers
\* are reported for requests that are gone, not by popping an empty queue.
NoFailure ==
    /\ ~ kv.err
    /\ trouble \subseteq {"token out of place", "token from wrong KV", "reset failed"}

\* Tokens reach a request in order: each one was sampled for the position it
\* is appended at, none twice and none missing, whatever was in flight when
\* the request was preempted and resumed.
TokensInOrder == "token out of place" \notin trouble

\* No token is sampled from KV that was not computed from the tokens of its
\* own request: every slot attention reads holds what the block table says.
TokensFromOwnKV == "token from wrong KV" \notin trouble

\* Between two steps every request is in the one queue its status says.
QueuesMatchStatus ==
    At("idle") =>
    /\ IsInjective(running \o waiting \o skipped_waiting)
    /\ Range(running) = {r \in Req : req[r].status = "running"}
    /\ {r \in Req : Blocked(r)} \subseteq Range(skipped_waiting)
    /\ Range(waiting) \union Range(skipped_waiting) =
         {r \in Req : Unfinished(r) /\ req[r].status # "running"}

\* Blocks are held by requests that run, load, have loaded, or whose blocks a
\* transfer still needs; a transfer never outlives its blocks.
BlocksMatchStatus ==
    At("idle") =>
    /\ \A r \in Holders(kv) :
          \/ req[r].status \in {"running", "remote", "finished"}
          \/ req[r].status \in {"waiting", "preempted"} /\ req[r].num_computed > 0
    /\ \A l \in receiving : l.table = kv.req_to_blocks[l.req]

\* Queues, statuses, block tables and batches agree between two steps, whichever
\* of the six places that move a request was the last: no request is lost or
\* queued twice, none keeps blocks it has no use for, and no more batches are
\* in flight than the queue of the engine has room for.
StateConsistent == TypeOK /\ QueuesMatchStatus /\ BlocksMatchStatus

\* The number of output tokens a request waits for.
TokensInFlight(r) ==
    Cardinality({i \in DOMAIN batches :
                   r \in Members(batches[i]) /\ batches[i].entry[r].pos > 0})

\* Async scheduling: the placeholders of a request are its tokens in flight.
PlaceholdersExact ==
    (config.async /\ At("idle")) =>
    \A r \in Req : Unfinished(r) /\ ~ req[r].discard =>
        req[r].placeholders = TokensInFlight(r)

\* When nothing is in flight, a cached block holds the tokens its hash names:
\* a later request that hits it reads what it would have computed.
CacheHoldsItsHash ==
    (At("idle") /\ batches = << >>) =>
    \A h \in Hash : \A b \in Range(kv.cached[h]) :
        \A i \in 1..BlockSize :
            content[<<b, i>>] = SubSeq(h, 1, Len(h) - BlockSize + i)

\* "If a block hash is not in the cached_block_hash_to_id, the following block
\* hashes are not computed yet for sure": whatever was evicted, freed tail
\* first or preempted in between, a cached block has its whole prefix cached.
PrefixClosed ==
    \A r \in Req : \A i \in 2..(Len(TokenStream[r]) \div BlockSize) :
        IsCached(kv, BlockHash(r, i)) => IsCached(kv, BlockHash(r, i - 1))

\* Every request that is added comes to an end, however often it is preempted,
\* as long as the pool is large enough for each request alone.
RequestsFinish ==
    \A r \in Req : Unfinished(r) ~> ~ Unfinished(r)

\* A forced reset preempts everything that runs, so that it cannot fail as long
\* as no transfer holds blocks.
ForcedResetSucceeds == "reset failed" \notin trouble

=============================================================================
