# A verification of the vLLM v1 engine core

The repository is a fork of vLLM with a library that partitions the streaming
multiprocessors of a GPU (`vllm/v1/libsmctrl.py`) and experiments around it.
This project specifies the part of it that decides *which request computes
what, when, and in which memory*, and the protocols between the processes that
carry it out: the paged KV cache and its prefix cache, the scheduler and the
engine loop, the cache of encoder outputs, the coordination of data-parallel
engines, the shared-memory message queue and the multiprocess executor. It is
written in TLA+ and model-checked with TLC on small instances; the safety of every
part but the scheduler is proved for all sizes with TLAPS.
Paths below are relative to `src/vllm/vllm`.

## The system and its parts

| Part | Source | Module | Extent |
|---|---|---|---|
| Free block list | `v1/core/kv_cache_utils.py` (FreeKVCacheBlockQueue) | `FreeBlockQueue`, abstract: `FreeQueue` | all operations |
| Block pool | `v1/core/block_pool.py` | `BlockPool` | all operations but events and metrics |
| KV-cache manager | `v1/core/kv_cache_manager.py`, `kv_cache_coordinator.py`, `single_type_kv_cache_manager.py` | `KVCacheManager`, driven by `KVCache` | one group, full attention or sliding window |
| Scheduler | `v1/core/sched/scheduler.py`, `async_scheduler.py`, `request_queue.py`, `utils.py`, `v1/request.py` | `Scheduler` | see below |
| Engine loop | `v1/engine/core.py` | `Scheduler`, `DPCoordinator`, `Executor` | `step`, `step_with_batch_queue`, aborts, pause, reset, busy loops |
| KV connector | `distributed/kv_transfer/kv_connector/v1/base.py` | `Scheduler` | what a connector may tell the scheduler |
| Encoder cache | `v1/core/encoder_cache_manager.py`, `scheduler.py`, `v1/worker/gpu_model_runner.py` | `EncoderCacheManager`, driven by `EncoderCache` | decoder-only models, without an EC connector |
| Data-parallel waves | `v1/engine/coordinator.py`, `core.py`, `core_client.py` | `DPCoordinator` | waves, requests, aborts |
| Message queue | `distributed/device_communicators/shm_broadcast.py` | `MessageQueue`, abstract: `BroadcastQueue` | after the subscription handshake |
| Multiprocess executor | `v1/executor/multiproc_executor.py` | `Executor` | calls, futures, failures, shutdown |
| Workers | `v1/worker/` | `Scheduler`, `EncoderCache` (ghost state) | batches in order, which slot holds which token |

A client's request enters the scheduler's `waiting` queue (or
`skipped_waiting`, if a grammar has to be compiled first). `schedule()` gives
every running request its next tokens, preempting others when the pool runs
short, then admits waiting requests: local prefix-cache hits first, then
whatever a KV connector can load. Tokens that stand for images need encoder
outputs, which have a cache of their own with its own budget. The batch goes to
the workers by `collective_rpc`, one message on a broadcast queue, and their
answers come back on a queue each; `update_from_output()` applies the result
one or more `schedule()` calls later. With data parallelism several such
engines make every forward pass together, and a coordinator starts them.

## The modules

**FreeBlockQueue** is the doubly linked list threaded through the blocks, one
action per method. **FreeQueue** is what it promises, a queue as a sequence;
`FreeBlockQueue` implements it under a mapping that follows the `next` links
(`ImplementsQueue`), so the other modules may take the free queue for a
sequence.

**BlockPool** has the state of the pool as a record (`ref_cnt`, `block_hash`,
`free`, `cached`, `err`) and one operator per method from record to record.
`cached[h]` lists the blocks with hash `h` in the order in which they were
cached. `err` becomes true wherever the code asserts or raises.
**KVCacheManager** adds the block tables and `num_cached_block` and composes the
pool's operations to `AllocateSlots`, `GetComputedBlocks`, `CacheBlocks`,
`RemoveSkippedBlocks`, `Free` and the others. A request is its token stream,
prompt and everything it will ever sample; a block hash is the prefix of the
stream up to the end of the block, which is what a chained hash without
collisions amounts to. **KVCache** drives the manager through every sequence of
calls its callers make, without the scheduler's policy. It is the module the
proofs are about: what holds here holds whatever the policy is.

**Scheduler** is the policy. Its variables are those of the `Scheduler` object,
the Request objects (`req`), the manager (`kv`), the engine's queue of batches
(`batches`), the locals of the call under way (`step`), and the workers:
transfers under way and `content`, what every KV slot really holds. `trouble`
collects what must not happen. `config` holds the options of the scheduler; it
is chosen in the initial state from `Configs` and never changes, so that one
run looks at several configurations.

| Actions | Code |
|---|---|
| BeginSchedule, PickRunning, ScheduleRunning, PreemptForBlocks, EndRunning | `schedule()`, loop over `self.running` |
| SkipWaiting, PromoteWaiting, ScheduleWaiting, StartLoad, EndWaiting | `schedule()`, loop over the waiting queues |
| FinishSchedule | rest of `schedule()`, `_update_after_schedule`, the engine's decision to go on or to wait |
| BeginUpdate | the workers execute the oldest batch; `_handle_invalid_blocks` |
| UpdateRequest, RemoveStopped | the loop of `update_from_output()` and what follows it |
| FailRequest, TransferDone, EndUpdate | failed loads, `_update_from_kv_xfer_finished`, new draft tokens |
| AddRequest, Abort, Reset, ResetRunning, SetPauseState, WaitForInput | clients and operators |

One call of `schedule()` or `update_from_output()` is several steps of the
model, one per request; nothing interleaves with them, as in the code, where
the engine core is one thread. What does interleave: requests arrive and
operators call between two engine steps, aborts are also taken between the end
of a batch and its update, up to `queue_depth` batches are in flight, transfers
end at any later batch.

**EncoderCacheManager** is the manager of encoder outputs (`cached`,
`freeable`, the two slot counters, `freed`) with one operator per method.
**EncoderCache** drives it: `TrySchedule` is the loop of
`_try_schedule_encoder_inputs`, `Preempt`, `ScheduleRunning`, `ScheduleWaiting`
and `Update` are the parts of `schedule()` and `update_from_output()` that call
the manager, and `worker` is the model runner's own cache, which only follows
the scheduler's messages. KV blocks appear as prefix-cache hits and as
allocations that fail at any time, at most `MaxShortages` times.

**DPCoordinator** has the engines (`wave`, `running`, `step_counter`, position
in the busy loop), the coordinator, the clients and a first-in-first-out channel
for each socket. `AddRequest`, `Poll` and `ServeSockets` are the client,
`HandleNotice`, `HandleReport` and `Publish` the coordinator, `ReceiveStart`,
`ReceiveInput` and `BeginPass` an engine; `Forward` and `AllReduce` are the
collective operations, which need all engines. **MCDPCoordinator** adds a history
variable, `overtaken`, that no action reads, and states the two properties about
progress with it.

**MessageQueue** is the ring buffer. A reader loads the two flags of a chunk in
two steps, and the writer resets the read flags one by one before it sets the
written flag (the fences in the code make them take effect in program order).
`AcquireWrite` takes the loads of the writer and the clearing of the written flag
together: meanwhile readers only set flags, which can only turn its test true.
Also modelled are the writing of a chunk in two steps, payloads that are too
large for a chunk and travel on a socket, remote readers, sleeping and waking,
timeouts (`EnqueueTimeout` on a full ring, `ReadTimeout` before a wait,
`PollTimeout` during one, `GiveUpPayload` on the socket) and shutdown.

**BroadcastQueue** is what it promises: every reader takes every message once
and in order, and the writer is at most `max_chunks` ahead of the readers on its
node. The ghost variable `taken` counts the messages whose chunk a reader is
done with; the refinement mapping takes it for local readers, and the number of
messages received for remote ones. A reader that gives up on a payload has taken
the message all the same: the queue's bound holds for it, the order of what it
gets (`InOrder`) does not.

**Executor** builds on that promise: its queues are bounded sequences.
`CollectiveRpc`, `Enqueue` and `Register` are `collective_rpc`; `Drain`,
`Dequeue`, `Unanswered` and `Return` are `FutureWrapper.result` and
`get_response`; `Take`, `Execute` and `EnqueueOutput` the worker's busy loop and
output thread; the `Monitor` actions the thread that watches the processes,
which runs `shutdown()` concurrently with the engine's own. Answers carry the
identity of their call as a ghost; in the code they have none.
A method that a worker executes ends, also when another worker has died in the
meantime, and a process that is killed is gone when `_ensure_worker_termination`
goes on.

## What the runs check

Run with `tlc -workers 2 -config <cfg> <module>`; each takes up to two minutes.

| Run | Configuration | What it shows |
|---|---|---|
| free_list | `FreeBlockQueue.cfg` | 4 blocks. The list stays intact in both directions and no raise is reached (`ListIntact`), and the list implements the abstract queue. |
| kv_full | `MCKVCache_full.cfg` | 2 requests with a common prefix, one of which does not read the prefix cache; loads within the step and in the background that may fail; drafts; 4 usable blocks. Reference counts, free queue and hash map agree (`BlocksAccountedFor`, `HashMapConsistent`); a shared block means the same to all holders (`SharingSound`); computed tokens have blocks (`WindowCovered`); cascade attention's common prefix is really common (`CommonPrefixShared`); tables are append-only (`AppendOnlyTables`). |
| kv_window | `MCKVCache_window.cfg` | 3 requests, a window of 3 tokens, blocks of 2: no block is released while the next token attends to it. (That blocks are released once is proved for every window, see below.) |
| sched | `MCScheduler_safe.cfg` | Nine configurations of 2 or 3 requests and 3 blocks: drafts; resets, also forced; two batches in flight with the synchronous and the asynchronous scheduler; aborts; pauses; a connector that loads in the background under both failure policies, or within the step. No assertion is reached (`NoFailure`); queues, statuses, tables and batches agree between steps (`StateConsistent`); tokens are applied in order; placeholders are exactly the tokens in flight; no token is sampled from KV that is not its own (`TokensFromOwnKV`); cached blocks hold the tokens their hash names and have their prefix cached. |
| sched_live | `MCScheduler_live.cfg` | Every request ends (`RequestsFinish`), however often it is preempted: with drafts, with asynchronous scheduling and a grammar, and by priority, where victims may be in the batch already. |
| encoder | `MCEncoderCache_plain.cfg` | 3 requests that share images, one with the same image twice, one with two images that do not fit together; hits, preemptions, failed admissions, aborts, resets; one or two steps in flight; with and without chunked inputs. The manager's books are exact (`SlotsAccountedFor`), no assertion fails, no step misses an output (`NoCacheMiss`), the worker holds exactly what the manager believes (`WorkerInStep`), only running requests hold references (`NothingPinned`), and all requests end. |
| dp_waves | `MCDPCoordinator.cfg` | 2 engines, 1 client, 2 requests of which one may be aborted. All engines stay in the same wave, pass and collective operation (`InLockstep`); nobody knows of a wave ahead of them (`NothingAhead`); when all is quiet, everybody knows that the engines are paused (`KnownToBePaused`). Requests end (`RequestsFinish`) and engines pause (`EnginesPause`) if nothing is aborted and no first request is overtaken by the end of its wave; both hypotheses are in the properties, and needed. |
| message_queue | `MessageQueue.cfg` | 2 local readers and 1 remote, a ring of 2 chunks, 3 messages of which 2 are large, a reader with timeouts and one that is shut down. Writer and readers never overlap in a chunk (`NoOverlap`); messages arrive complete and in order (`InOrder`); the queue implements `BroadcastQueue`; no wake-up is lost (`MessagesArrive`) and a shutdown ends the wait (`ShutdownStops`). |
| executor | `MCExecutor_plain.cfg` | 2 workers, up to 3 calls, with and without asynchronous output; one worker may die at any point, the engine may be killed or a step may raise. What a call returns is its own answers (`ResultsAreOwn`), every call returns (`CallsReturn`), no worker is left behind (`WorkersStop`), and an idle engine learns of a death (`DeathIsNoticed`). |

**Bounds.** KV blocks of two tokens, so that blocks are empty, partly full and
full; streams of four to six tokens, two or three blocks; pools of three or
four blocks besides the null block, enough for the longest request and too few
for two of them, so that eviction, preemption and failed allocation all happen;
token budgets below the sum of the prompts, so that prefills are chunked. Two
requests share a first block and diverge later; a third shares nothing. With
two batches in flight there is one step between scheduling and update. Usable
blocks are interchangeable, hence the symmetry; `sched_live` does without it.
The encoder cache holds two or one of the images at a time. Two chunks and
three messages take the ring round once, with a chunk reused while another is
unread. Two engines show a stale or missing message to one of them; the proof
covers more. Two workers are enough for one to fail before the other answers.
`MaxPasses`, `MaxNews`, `MaxMsgs`, `MaxCalls`, `MaxShortages` and
`config.crashes` bound what the environment does; no counter of the code is
capped, and the all-reduce period is 2 instead of 32.

**Fairness.** `Scheduler`: the engine's busy loop steps while it has work
(`Busy`); a request at the head of its queue is not skipped for ever, because
grammars are compiled by an executor that ends and a connector may answer "not
yet" only finitely often; a background load ends. `EncoderCache`: the engine
keeps stepping. `DPCoordinator`: sockets deliver and the loops go on; an engine
empties its input queue between two passes, hence strong fairness of
`Receive`; publications, ten a second, do not keep a client from forwarding.
`MessageQueue`: the
writer finishes what it has begun, readers keep dequeuing. `Executor`: threads
and processes that live go on, and the kill after the grace period comes.
Nobody is obliged to send, abort, call, crash or shut down.

Deadlock is checked except in `Executor`, which ends when engine and workers
have exited.

## Where the code and its documentation disagree

Three runs are expected to fail. Each checks a property that holds in the runs
above and is broken under one more feature; the `findings` of `PROJECT.json`
quote the sentence the code contradicts.

| Run | Property | What happens |
|---|---|---|
| sched_recompute | `TokensFromOwnKV` | With loads within the step and the recompute policy, bad blocks stay in the prefix cache because they "will be recomputed". The request that would do so is preempted first, and another one hits the bad block. |
| encoder_eagle | `NoCacheMiss` | With EAGLE, the drafter gathers embeddings one token ahead. An input whose first embedding is just behind the step is not scheduled, since the range in `_try_schedule_encoder_inputs` leaves the shift out, and the drafter misses it. |
| executor_failure | `ResultsAreOwn` | A utility call that fails in the first worker leaves the second one's answer in its queue; the next call takes it for its own. |

Other configurations, not kept as runs, violate properties as well. They can be
reproduced by changing `Configs` or a constant.

- Priority policy with prefix caching: a victim is taken out of the batch, but
  the blocks that `allocate_slots` cached for it stay cached and are never
  computed (`scheduler.py:481`, `CacheHoldsItsHash`). The same holds for its
  encoder outputs, which the manager takes for cached (`WorkerInStep`).
- Forced reset with asynchronous scheduling and nothing in flight: the next
  token is dropped all the same (`scheduler.py:1891`, `TokensInOrder`).
- Three batches in flight, synchronous scheduler: a preempted request resumes
  before its outstanding token is there (`scheduler.py:961`, `TokensInOrder`).
- Loads within the step and an abort before the update: bad blocks of the
  aborted request stay cached (`scheduler.py:2264`, `CacheHoldsItsHash`). With
  asynchronous scheduling the placeholder of a dropped token stays
  (`scheduler.py:1352`). With three requests that share a bad block, only what
  the first one computed from it is evicted.
- Sliding window and loads: after a load of the whole prompt, or a failed one,
  a block of the window may be missing (`scheduler.py:2063`, `WindowCovered`).
- A loaded request that holds blocks behind one that needs them: neither
  proceeds (`scheduler.py:772`, `RequestsFinish`).
- `evict_blocks` may leave a cached block with an uncached prefix
  (`block_pool.py:424`, `PrefixClosed`); harmless.
- Two adjacent images that exceed the encoder cache together, with EAGLE's
  shift: no progress (`RequestsFinish`).
- An aborted first request: the engine excluded from `START_DP_WAVE` never
  enters the wave and the others wait for it in a forward pass
  (`coordinator.py:453`); this is why `RequestsFinish` and `EnginesPause` of
  `MCDPCoordinator` exclude aborts (`NoAborts`).
- A first request that is overtaken by the end of its wave: the same hang without
  an abort. Two requests are sent while the engines are paused, and the client's
  stats task forwards the first notice only. The engines run both requests and end
  the wave. The client reads that, and forwards the second notice with the number
  of the new wave (`core_client.py:1262`), although its request was sent in the old
  one. To the coordinator it is not stale (`coordinator.py:357`), so it starts the
  wave without the engine of that request, which has nothing left to do. The others
  stay in a dummy pass (`EnginesPause` fails with two requests), and a further
  request to one of them never ends (`RequestsFinish` fails with three). The
  engines do not wait for the clients, so only timing prevents this: 32 passes are
  usually longer than a turn of the stats task. The two properties exclude it by
  `NoneOvertaken`; without that hypothesis TLC finds the hang.
- A local reader whose `recv` of a large payload times out has consumed the
  chunk already; the payload is taken for that of the next large message
  (`shm_broadcast.py:768`). The model keeps such readers in `lost`.
- A deadline of `collective_rpc` that passes leaves late answers to the next
  call, like a failure. A dead worker and a full ring keep `enqueue` spinning
  (`shm_broadcast.py:549`), so the runs with crashes have no more calls than
  chunks.

## What is proved

`KVCacheProofs` proves about `KVCache`, for every finite set of requests, every
pool, block size, window, token stream and number of drafts, with and without
caching, EAGLE and a connector:

- `TypeCorrect`: `Spec => []TypeOK`;
- `NeverFails`: `Spec => []NoFailure`. No assert or raise of the block pool or
  the managers is reachable;
- `NothingLeaks`: `Spec => []BlocksAccountedFor`;
- `CacheConsistent`: `Spec => []HashMapConsistent`;
- `SharingIsSound`: `Spec => []SharingSound`;
- `TablesAppendOnly`: `Spec => AppendOnlyTables`;
- `WindowIsCovered`: `Spec => []WindowCovered` if `SlidingWindow = 0` or there is
  no connector. The hypothesis is needed: with both, the property fails (see the
  list above);
- `CommonPrefixIsShared`: `Spec => []CommonPrefixShared`.

The first five follow from `InvariantHolds: Spec => []IInv`. None of them is
inductive by itself. `NothingLeaks` needs that a table holds a block at most
once; `SharingIsSound` needs that the hash map names blocks with that hash, and
that a block with a hash is full and at the place the hash says; `NeverFails`
needs that the blocks beyond `num_cached_block` are private and unhashed (or
`cache_full_blocks` would hash one twice), that a request that waits with no
computed token holds no block, and that what is computed has slots. `IInv` is
the conjunction: `TypeOK`, `Good(kv)` (tables, counts, queue, map and hashes
agree, and the tail of every table is private) and `ReqOK` for every request.
For the tables, every operation is shown to let them evolve (`Evolves`: entries
stay, or become null once they are out of the window), and a step of the driver
to move a request's window forward only (`Advances`); `WInv`, which adds to
`IInv` that the window of every request is covered, is inductive from there. The
common prefix is read off one request's table by `ref_cnt`: a block that as many
requests hold as there are running ones is in the table of each, and by
`SharingSound` at the same place.

The argument goes bottom up. `KVManagerProofs`: each operation of pool and
manager preserves `Sound`; what `allocate_slots` needs is what the capacity check
counted, so that `get_new_blocks` never runs short; hence each operation
preserves `Good` and does not set `err`. `KVCacheProofs`: each action of the
driver establishes `ReqOK` for its request and leaves the others alone.

`FreeBlockQueueProofs` proves about the linked list, for every finite pool:

- `ListStaysIntact`: `Spec => []ListIntact`;
- `ListImplementsQueue`: `Spec => ImplementsQueue`, the refinement of `FreeQueue`.

The invariant says that the links are those of some sequence q without
repetition that holds exactly the unused blocks (`State(q)`): a link of every
block in the list, and of both sentinels, to its neighbours, null links in every
other block. Each method turns the links of q into those of the sequence that
the abstract operation computes, and a walk along the links, which is how
`get_all_free_blocks` reads the list, finds q (an induction over the steps of
the walk).

`DPCoordinatorProofs` proves about `DPCoordinator`, for any engines, clients,
requests and period of the all-reduce, without fairness, with aborts and with
first requests forwarded at any time:

- `TypeCorrect`: `Spec => []TypeOK`;
- `Lockstep`: `Spec => []InLockstep`;
- `NeverAhead`: `Spec => []NothingAhead`;
- `PauseIsKnown`: `Spec => []KnownToBePaused`.

`InLockstep` alone is not inductive: an engine takes the wave number of a
message if it is newer than its own. That never happens because no message is
ahead of the engines (`NothingAhead`), which in turn rests on lockstep, since
the end of a wave is reported by one engine for all, and on `FirstPending`: a
client that is woken for a first request has one to forward. `Inv` is the
conjunction of the four. `KnownToBePaused` says something only when all queues
are empty; `Knows` says what must be in which queue otherwise: a client that is
behind the coordinator has news coming, the end of a wave the coordinator has not
heard of is in a report, and a start it has announced is on its way to the
engines, is heeded, or has been answered.

`MessageQueueProofs` proves about `MessageQueue`, for any local and remote
readers, any number of chunks and messages, any choice of the large ones, and
with timeouts and shutdowns at any moment:

- `TypeCorrect`: `Spec => []TypeOK`;
- `NoOverlapHolds`: `Spec => []NoOverlap`;
- `InOrderHolds`: `Spec => []InOrder`;
- `Refinement`: `Spec => ImplementsBroadcast`.

The key is what the flags mean. Message k + 1 goes to chunk k % `max_chunks`;
to a reader, a chunk that is written and not read holds one of the messages
`taken + 1` to `sent`, and every such message is in such a chunk (`FlagsOK`).
The reader loads the two flags one after the other, and in between the writer
may recycle the chunk: `PlaceOK` says that a reader that saw its read flag clear
and has nothing to take finds the written flag clear, which holds because the
writer clears `written` before it resets the read flags and sets it after
(`ChunkOK`). `NoOverlap` and the bound of the broadcast queue follow, since two
pending messages are less than a turn of the ring apart (the lemmas on
remainders). For the order, `DataOK` says that a pending chunk holds its
message; `LocalOK` that the local socket lists exactly the large messages a
reader has yet to get, up to the last one shipped (the chunk is published before
its payload is sent, `Shipped`); `Continues` that what a remote reader got and
what is on its socket are the messages sent to it. `Inv` is the conjunction.

`ExecutorProofs` proves about `Executor`, for any number of workers and calls
and with deaths of workers and of the engine at any moment:

- `AnswersAreOwn`: `Spec => [](AnswersAwaited => ResultsAreOwn)`.

`AnswersAwaited` says that no deadline of `collective_rpc` passes and no utility
call fails; without it the property fails, which is what the run
executor_failure shows. The answers carry no name, a future takes the next one of
each queue. The invariant therefore follows every worker's line, from its inbox
through the call it executes and its output thread to its response queue
(`LineInOrder`): what is in it is, in the order of the calls, exactly what the
futures and the call being waited for have yet to take (`AnswersInOrder`), and
the futures are in the order of their calls (`FuturesInOrder`). A shutdown may
cut this short, hence `ShutdownInOrder`.

`EncoderCacheProofs` proves about `EncoderCache`, for any requests, inputs, sizes,
budgets and any cache that holds the largest input:

- `SlotsStayAccounted`: `Spec => []SlotsAccountedFor`;
- `ManagerNeverFails`: `Spec => []NoFailure`;
- `OutputsAreReleased`: `Spec => [](config.shift = 0 => NothingPinned)`, if the
  inputs of a prompt are in order and do not overlap (`Apart`);
- `WorkerStaysInStep`: `Spec => [](config.policy = "fcfs" => WorkerInStep)`;
- `NoStepMisses`: `Spec => [](config.policy = "fcfs" /\ config.shift = 0 =>
  NoCacheMiss)`.

The conditions are those under which the code has the property: the priority
policy and EAGLE's shift break it (see above and the run encoder_eagle). The
manager's part is `Books`: counters, `cached` and `freeable` agree after every
operation, which rests on sums over sets of inputs (`Slots`). `Inv` adds the
state of `schedule()` in the middle of its loops: the entries of the step, what is
left of the budgets, which requests hold references for tokens already scheduled
(`EntriesOK`, `TryStands`), and `InStep`: the worker's keys, with what the step will
compute and without what it will free, are the manager's. `NeedsMet` says that
what the tokens of an entry need is cached and referred to, so that no later
allocation of the same step evicts it.

`SeqFacts` lists what these proofs need of sequences and finite sets, as named
formulas, and `SeqFilterProofs` proves all of them (`FactsHold`): filtering a
sequence keeps exactly the elements it should, in order and without repetition,
and the facts on cardinality are those of the library. The lemmas of
`FreeBlockQueueProofs`, `KVManagerProofs`, `KVCacheProofs` and `EncoderCacheProofs`
assume `Facts`; their theorems discharge it with `FactsHold`, and assume nothing
of the kind.

The assumptions are the named ones on the constants (`PoolAssumption`,
`ManagerAssumption`, `DriverAssumption`, `CoordinatorAssumption`,
`QueueAssumption`, `ExecutorAssumption`, `CacheAssumption`, `EncoderAssumption`); TLC
evaluates them in every run of the modules.

Only model-checked: everything about the scheduler, and liveness. Liveness is out
of the prover's reach, as is what recursive functions compute for every input. The
invariants of `Scheduler` speak about the tokens behind every slot of the KV cache
under nine configurations; their inductive invariant would have to describe the
batches in flight, the resets and failed loads in between and the slots they will
overwrite, and some hold only for particular configurations (see the list above).
The part of the scheduler's state that the KV-cache manager owns is covered by
`KVManagerProofs`: its lemmas are about every call that meets the manager's
precondition (`CallOK`), whoever makes it.

## Not modelled

- Scheduler: LoRA limits, streaming sessions, pooling requests, statistics and
  events. A request stops at the end of its stream, which stands for the
  end-of-sequence token as well as for the length limit. Draft tokens are
  modelled with the synchronous scheduler and one batch in flight. At most one
  block fails to load per step. `UseEagle` is false in the scheduler's runs; the
  proofs about the KV cache cover it.
- KV-cache groups: one. Hybrid models, chunked local attention, Mamba, cross
  attention and attention sinks are not modelled.
- Encoder cache: loads through an EC connector, `EncoderDecoderCacheManager`
  (which, read beside its counterpart, returns an input's slots on every
  update), the limit on running requests. A step runs when it is scheduled: the
  worker executes steps in order and nothing else touches its cache.
- Data parallelism: load statistics and balancing, pause and resume, elastic
  scaling, external load balancers.
- Message queue: creation and the handshake. The notification socket is not
  covered by `wait_until_ready`; the model starts after all subscriptions. A
  remote reader's `shutdown()` does not wake a blocked `recv`, so only local
  readers are stopped.
- Executor: start-up; the failure callback is registered from the start; steps
  that aggregate the outputs of a KV connector; Ray and single-process
  executors. A utility call that races with a shutdown may return an empty
  list, which `ResultsAreOwn` allows.
- CPU offloading (`v1/kv_offload`, `v1/simple_kv_offload`): an optional
  connector, of which the scheduler sees what `Scheduler` contains. The
  persistent input batch of the workers: tensor code.
- Output processor and API servers, structured-output backends, proposers of
  draft tokens, SM masks (thin calls into an external library).
- Connectors, grammar backends, sampling and drafting are choices of the
  environment. GPU code is represented by which slot is read and written when.

Most of the 600,000 lines of the repository are models, layers, kernels,
quantization, entry points, configuration and the tests of all these: numerical
code, and input and output, in which there is no protocol or shared state to
specify. The modules cover the part that has, and therefore only a small share
of the lines.
