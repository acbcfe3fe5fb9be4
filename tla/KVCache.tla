------------------------------ MODULE KVCache ------------------------------
(***************************************************************************)
(* The KV-cache manager driven the way the scheduler drives it: requests   *)
(* are admitted with prefix-cache hits and externally computed tokens,     *)
(* loaded asynchronously, extended in chunks, decoded with draft tokens,   *)
(* preempted, finished, and failed after a bad load; the prefix cache is   *)
(* reset at any time.  Every call of the manager is one step.              *)
(***************************************************************************)
EXTENDS KVCacheManager

CONSTANTS
    NumPrompt,      \* prompt length of each request
    Lookahead,      \* num_lookahead_tokens
    MaxDraft,       \* bound: draft tokens of one step
    UseConnector    \* a KV connector supplies externally computed tokens

ASSUME DriverAssumption ==
    /\ Lookahead \in Nat
    /\ MaxDraft \in Nat
    /\ UseConnector \in BOOLEAN
    /\ NumPrompt \in [Req -> Nat]
    /\ \A r \in Req : NumPrompt[r] \in 1..Len(TokenStream[r])

VARIABLES
    kv,             \* the manager and its block pool
    num_tokens,     \* Request.num_tokens
    num_computed,   \* Request.num_computed_tokens
    status          \* Request.status, as far as the manager's callers need it

vars == <<kv, num_tokens, num_computed, status>>

\* "waiting" also covers preempted; "loading" is WAITING_FOR_REMOTE_KVS.
Status == {"waiting", "loading", "running", "finished"}

Init ==
    /\ kv \in {InitKV(queue) : queue \in InitialQueues}
    /\ num_tokens = NumPrompt
    /\ num_computed = [r \in Req |-> 0]
    /\ status = [r \in Req |-> "waiting"]

-----------------------------------------------------------------------------
(* Admission of a waiting request *)

Hits(r) == GetComputedBlocks(kv, r, num_tokens[r])

\* What the connector may offer on top of the local hits.
External(r, most) ==
    IF UseConnector THEN 0..(most - Len(Hits(r)) * BlockSize) ELSE {0}

AdmitArgs(r, new, external, delay) ==
    [num_computed |-> 0, num_tokens |-> num_tokens[r], new |-> new,
     hits |-> Hits(r), lookahead |-> 0, external |-> external,
     delay |-> delay]

\* A waiting request with nothing computed: local hits, tokens the connector
\* loads within the step, and a first chunk of at least one token.
Admit(r) ==
    /\ status[r] = "waiting" /\ num_computed[r] = 0
    /\ \E external \in External(r, num_tokens[r] - 1) :
       LET done == Len(Hits(r)) * BlockSize + external
       IN  \E new \in 1..(num_tokens[r] - done) :
             LET a == AdmitArgs(r, new, external, FALSE)
             IN  /\ kv' = AllocateSlots(kv, r, a)
                 /\ IF CanAllocate(kv, r, a)
                    THEN /\ status' = [status EXCEPT ![r] = "running"]
                         /\ num_computed' = [num_computed EXCEPT ![r] = done + new]
                    ELSE UNCHANGED <<status, num_computed>>
    /\ UNCHANGED num_tokens

\* The connector loads asynchronously: slots now, caching when it is done.
StartLoad(r) ==
    /\ status[r] = "waiting" /\ num_computed[r] = 0
    /\ \E external \in External(r, num_tokens[r]) \ {0} :
       LET a == AdmitArgs(r, 0, external, TRUE)
       IN  /\ CanAllocate(kv, r, a)
           /\ kv' = AllocateSlots(kv, r, a)
           /\ num_computed' = [num_computed EXCEPT
                ![r] = Len(Hits(r)) * BlockSize + external]
    /\ status' = [status EXCEPT ![r] = "loading"]
    /\ UNCHANGED num_tokens

\* _update_waiting_for_remote_kv after a load without failures.
FinishLoad(r) ==
    /\ status[r] = "loading"
    /\ kv' = CacheBlocks(kv, r, num_computed[r], num_tokens[r])
    /\ num_computed' = [num_computed EXCEPT
         ![r] = Lesser(@, num_tokens[r] - 1)]
    /\ status' = [status EXCEPT ![r] = "waiting"]
    /\ UNCHANGED num_tokens

\* Mutants of FailLoad: with no token left the blocks are kept, or the token
\* count is.
FailLoadKeepsBlocks(r) ==
    /\ status[r] = "loading"
    /\ \E i \in kv.num_cached_block[r]..(CDiv(num_computed[r], BlockSize) - 1) :
         /\ num_computed' = [num_computed EXCEPT ![r] = i * BlockSize]
         /\ kv' = CacheBlocks(kv, r, i * BlockSize, num_tokens[r])
    /\ status' = [status EXCEPT ![r] = "waiting"]
    /\ UNCHANGED num_tokens

FailLoadKeepsTokens(r) ==
    /\ status[r] = "loading"
    /\ \E i \in kv.num_cached_block[r]..(CDiv(num_computed[r], BlockSize) - 1) :
         kv' = IF i = 0 THEN Free(kv, r)
               ELSE CacheBlocks(kv, r, i * BlockSize, num_tokens[r])
    /\ status' = [status EXCEPT ![r] = "waiting"]
    /\ UNCHANGED <<num_tokens, num_computed>>

\* The same after block i + 1 failed to load: only the tokens before it count,
\* and with none left the blocks go back.
FailLoad(r) ==
    /\ status[r] = "loading"
    /\ \E i \in kv.num_cached_block[r]..(CDiv(num_computed[r], BlockSize) - 1) :
         /\ num_computed' = [num_computed EXCEPT ![r] = i * BlockSize]
         /\ kv' = IF i = 0 THEN Free(kv, r)
                  ELSE CacheBlocks(kv, r, i * BlockSize, num_tokens[r])
    /\ status' = [status EXCEPT ![r] = "waiting"]
    /\ UNCHANGED num_tokens

-----------------------------------------------------------------------------
(* Requests that hold blocks *)

StepArgs(r, new) ==
    [num_computed |-> num_computed[r], num_tokens |-> num_tokens[r],
     new |-> new, hits |-> << >>, lookahead |-> Lookahead, external |-> 0,
     delay |-> FALSE]

\* A chunk of the tokens not yet computed, and behind the last of them the
\* draft tokens: running requests, and waiting ones whose load has finished.
Extend(r) ==
    /\ status[r] = "running" \/ (status[r] = "waiting" /\ num_computed[r] > 0)
    /\ num_computed[r] < num_tokens[r]
    /\ LET rest == num_tokens[r] - num_computed[r]
           drafts == IF status[r] = "running" THEN MaxDraft ELSE 0
           most == Lesser(rest + drafts, MaxModelLen - 1 - num_computed[r])
       IN  \E new \in 1..most :
             LET a == StepArgs(r, new)
             IN  /\ kv' = AllocateSlots(kv, r, a)
                 /\ IF CanAllocate(kv, r, a)
                    THEN /\ num_computed' = [num_computed EXCEPT ![r] = @ + new]
                         /\ status' = [status EXCEPT ![r] = "running"]
                    ELSE UNCHANGED <<num_computed, status>>
    /\ UNCHANGED num_tokens

\* The sampler accepted some of the drafts and added one token of its own.
Sample(r) ==
    /\ status[r] = "running"
    /\ num_computed[r] >= num_tokens[r]
    /\ \E accepted \in 0..(num_computed[r] - num_tokens[r]) :
         /\ num_tokens[r] + accepted + 1 <= Len(TokenStream[r])
         /\ num_tokens' = [num_tokens EXCEPT ![r] = @ + accepted + 1]
         /\ num_computed' = [num_computed EXCEPT ![r] = num_tokens[r] + accepted]
    /\ UNCHANGED <<kv, status>>

Preempt(r) ==
    /\ status[r] = "running"
    /\ kv' = Free(kv, r)
    /\ num_computed' = [num_computed EXCEPT ![r] = 0]
    /\ status' = [status EXCEPT ![r] = "waiting"]
    /\ UNCHANGED num_tokens

\* Finished, or aborted; the blocks of a loading request are kept until the
\* transfer is over, so it finishes from "waiting".
Finish(r) ==
    /\ status[r] \in {"running", "waiting"}
    /\ kv' = Free(kv, r)
    /\ status' = [status EXCEPT ![r] = "finished"]
    /\ UNCHANGED <<num_tokens, num_computed>>

\* _handle_invalid_blocks with the fail policy: the blocks of r from the first
\* invalid one on lose their hash, and r ends in error.
FailRunning(r) ==
    /\ UseConnector /\ status[r] = "running"
    /\ \E i \in 1..Len(kv.req_to_blocks[r]) :
         LET table == kv.req_to_blocks[r]
         IN  kv' = Free(EvictBlocks(kv,
                     Range(SubSeq(table, i, Len(table)))), r)
    /\ status' = [status EXCEPT ![r] = "finished"]
    /\ UNCHANGED <<num_tokens, num_computed>>

\* reset_prefix_cache; it may fail and is retried by the operator at will.
Reset ==
    /\ kv' = ResetPrefixCache(kv)
    /\ UNCHANGED <<num_tokens, num_computed, status>>

Next ==
    \/ \E r \in Req : \/ Admit(r) \/ StartLoad(r) \/ FinishLoad(r)
                      \/ FailLoad(r) \/ Extend(r) \/ Sample(r)
                      \/ Preempt(r) \/ Finish(r) \/ FailRunning(r)
    \/ Reset

Spec == Init /\ [][Next]_vars

-----------------------------------------------------------------------------
(* Properties *)

\* Every field of the manager and of the driver has its type.
TypeOK ==
    /\ kv \in KVState
    /\ num_tokens \in [Req -> Nat]
    /\ \A r \in Req : num_tokens[r] \in 1..Len(TokenStream[r])
    /\ num_computed \in [Req -> 0..MaxModelLen]
    /\ status \in [Req -> Status]

\* No sequence of calls reaches an assert or a raise of the block pool or of
\* the managers; in particular get_new_blocks never runs short after the
\* capacity check of allocate_slots, and no block is hashed twice.
NoFailure == ~ kv.err

\* touch, get_new_blocks and free_blocks balance: a block's ref_cnt is the
\* number of tables that hold it, and exactly the unused blocks are queued.
BlocksAccountedFor == RefCountsExact(kv) /\ FreeQueueExact(kv)

\* The hash map and the hashes on the blocks agree, so that eviction always
\* finds the block it has to remove from the map.
HashMapConsistent == CacheMapExact(kv)

\* A block that several requests hold means the same tokens to all of them,
\* and a hash on it names those tokens.  This is what makes it safe that
\* requests read blocks others wrote.
SharingSound == SharedBlocksAgree(kv) /\ TablesOwnHash(kv)

\* The common prefix that cascade attention reads once for the whole batch is
\* at the head of the table of every request that holds blocks.
CommonPrefixShared ==
    \A r \in Holders(kv), q \in Holders(kv) :
        \A i \in 1..NumCommonPrefixBlocks(kv, r) :
            /\ i <= Len(kv.req_to_blocks[q])
            /\ kv.req_to_blocks[q][i] = kv.req_to_blocks[r][i]

\* What a request has computed is backed by blocks: every token the next one
\* attends to, all or the last SlidingWindow - 1 of them, is in a real block.
WindowCovered ==
    \A r \in Req :
        (status[r] = "running" \/ (status[r] = "waiting" /\ num_computed[r] > 0)) =>
        \A p \in 1..num_computed[r] :
            (SlidingWindow = 0 \/ p > num_computed[r] - (SlidingWindow - 1)) =>
            /\ CDiv(p, BlockSize) \in DOMAIN kv.req_to_blocks[r]
            /\ kv.req_to_blocks[r][CDiv(p, BlockSize)] # NullBlock

\* "block tables are append-only": until its blocks are freed, a request keeps
\* every block of its table where it is, or sees it replaced by the null block.
AppendOnlyTables ==
    [][\A r \in Req :
         \/ kv'.req_to_blocks[r] = << >>
         \/ \A i \in DOMAIN kv.req_to_blocks[r] :
              /\ i \in DOMAIN kv'.req_to_blocks[r]
              /\ kv'.req_to_blocks[r][i] \in {kv.req_to_blocks[r][i], NullBlock}]_vars

=============================================================================
