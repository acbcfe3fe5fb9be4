---------------------------- MODULE MCScheduler ----------------------------
(***************************************************************************)
(* Small instances of Scheduler: requests with a common prefix, and a pool *)
(* that cannot hold them all.                                              *)
(***************************************************************************)
EXTENDS Scheduler, TLC

CONSTANTS r1, r2, r3, b0, b1, b2, b3, b4

MCRank == (r1 :> 2) @@ (r2 :> 1) @@ (r3 :> 3)

BlockSymmetry == Permutations(Block \ {NullBlock})

\* r2 begins like r1; r3 has nothing in common with them.
LongStream == (r1 :> <<1, 1, 1, 1, 1, 1>>) @@ (r2 :> <<1, 1, 2, 2, 2>>)
                @@ (r3 :> <<2, 2, 2, 2>>)
LongHash == {SubSeq(LongStream[r1], 1, 2 * i) : i \in 1..3}
              \union {SubSeq(LongStream[r2], 1, 4), <<2, 2>>, <<2, 2, 2, 2>>}
LongPrompt == (r1 :> 2) @@ (r2 :> 3) @@ (r3 :> 2)
LongMaxTokens == (r1 :> 4) @@ (r2 :> 2) @@ (r3 :> 2)

\* First come first served, one batch at a time; nothing optional.
Plain ==
    [reqs |-> Req, policy |-> "fcfs", token_budget |-> 3, long_prefill |-> 0,
     chunked_prefill |-> TRUE, reserve_full_isl |-> TRUE, async |-> FALSE,
     queue_depth |-> 1, num_spec |-> 0, num_lookahead |-> 0, recompute |-> FALSE,
     structured |-> {}, load_sync |-> {}, load_async |-> {}, senders |-> {},
     loads_fail |-> FALSE, calls |-> {}]

\* step() with a draft token; resets, also forced; two batches in flight, with
\* the synchronous and the asynchronous scheduler; a connector that loads in the
\* background, under both failure policies, or within the step.
Drafting == [Plain EXCEPT !.num_spec = 1, !.num_lookahead = 1]
Sync == [Drafting EXCEPT !.reqs = {r1, r2}, !.calls = {"abort"}]
Resets == [Drafting EXCEPT !.calls = {"reset", "reset_running"}]
Pipeline == [Plain EXCEPT !.queue_depth = 2, !.calls = {"abort"}]
Asynchronous == [Pipeline EXCEPT !.async = TRUE, !.structured = {r3},
                                 !.calls = {}]
AsyncAborts == [Asynchronous EXCEPT !.reqs = {r1, r2}, !.calls = {"abort"}]
Pauses == [Asynchronous EXCEPT !.calls = {"pause"}]
Loads == [Plain EXCEPT !.reqs = {r1, r2}, !.loads_fail = TRUE]
Background == [Loads EXCEPT !.load_async = {r1, r2}, !.senders = {r2},
                            !.calls = {"abort"}]
Recompute == [Background EXCEPT !.recompute = TRUE]
WithinStep == [Loads EXCEPT !.load_sync = {r1, r2}]

SafeConfigs == {Sync, Resets, Pipeline, Asynchronous, AsyncAborts,
                Pauses, Background, Recompute, WithinStep}

\* What must come to an end: with drafts, with batches in flight and a grammar,
\* and by priority.
Priority == [Plain EXCEPT !.policy = "priority", !.token_budget = 7,
                          !.long_prefill = 2, !.chunked_prefill = FALSE,
                          !.reserve_full_isl = FALSE]
LiveConfigs == {Drafting, Asynchronous, Priority}

\* Loads within the step under the recompute policy, and requests enough to
\* run out of blocks.
RecomputeConfigs ==
    {[WithinStep EXCEPT !.reqs = Req, !.recompute = TRUE]}

=============================================================================
