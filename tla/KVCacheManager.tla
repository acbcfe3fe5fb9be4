--------------------------- MODULE KVCacheManager ---------------------------
(***************************************************************************)
(* KVCacheManager, UnitaryKVCacheCoordinator and SingleTypeKVCacheManager  *)
(* (vllm/v1/core/kv_cache_manager.py, kv_cache_coordinator.py and          *)
(* single_type_kv_cache_manager.py) for one KV-cache group, with full      *)
(* attention (SlidingWindow = 0) or a sliding window.  The operators work  *)
(* on the record of BlockPool extended with                                *)
(*                                                                         *)
(*   req_to_blocks     [Req -> Seq(Block)]  block table of each request    *)
(*   num_cached_block  [Req -> Int]         -1: no entry for the request   *)
(*                                                                         *)
(* A request is its token stream: the prompt followed by what it will      *)
(* sample.  A block hash is a chained hash over all tokens up to the end   *)
(* of the block, so it is modelled by that prefix of the stream: distinct  *)
(* prefixes have distinct hashes.                                          *)
(***************************************************************************)
EXTENDS BlockPool, FiniteSetsExt

CONSTANTS
    Req,            \* request ids
    TokenStream,    \* the tokens each request has or will have
    BlockSize,      \* block_size
    MaxModelLen,    \* max_model_len
    SlidingWindow,  \* sliding_window, or 0 for full attention
    UseEagle,       \* use_eagle
    SkipReading     \* requests with skip_reading_prefix_cache

\* The hash of the i-th full block of request r.
BlockHash(r, i) == SubSeq(TokenStream[r], 1, i * BlockSize)

ASSUME ManagerAssumption ==
    /\ IsFiniteSet(Req)
    /\ BlockSize \in Nat \ {0}
    /\ MaxModelLen \in Nat
    /\ SlidingWindow \in Nat
    /\ UseEagle \in BOOLEAN
    /\ \A r \in Req : /\ TokenStream[r] \in Seq(Range(TokenStream[r]))
                      /\ Len(TokenStream[r]) <= MaxModelLen
                      /\ \A i \in 1..(Len(TokenStream[r]) \div BlockSize) :
                            BlockHash(r, i) \in Hash

Lesser(a, b) == IF a < b THEN a ELSE b
Greater(a, b) == IF a < b THEN b ELSE a
CDiv(a, b) == (a + b - 1) \div b

InitKV(queue) ==
    [ref_cnt          |-> InitPool(queue).ref_cnt,
     block_hash       |-> InitPool(queue).block_hash,
     free             |-> InitPool(queue).free,
     cached           |-> InitPool(queue).cached,
     err              |-> InitPool(queue).err,
     req_to_blocks    |-> [r \in Req |-> << >>],
     num_cached_block |-> [r \in Req |-> -1]]

\* Request.block_hashes: one hash per full block of the request's tokens.
BlockHashes(r, num_tokens) ==
    [i \in 1..(num_tokens \div BlockSize) |-> BlockHash(r, i)]

-----------------------------------------------------------------------------
(* Prefix-cache lookup *)

\* FullAttentionManager.find_longest_cache_hit: the longest prefix of blocks
\* that are all cached; with EAGLE the last one is dropped.
FullAttentionHit(kv, r, max_blocks) ==
    LET n == Max({k \in 0..max_blocks :
                    \A i \in 1..k : IsCached(kv, BlockHash(r, i))})
        m == IF UseEagle /\ n > 0 THEN n - 1 ELSE n
    IN  [i \in 1..m |-> GetCachedBlock(kv, BlockHash(r, i))]

\* SlidingWindowManager.find_longest_cache_hit: the rightmost run of cached
\* blocks long enough to fill the window, everything before it null; failing
\* that, the cached prefix.
SlidingWindowHit(kv, r, max_blocks) ==
    LET need == Greater(1, CDiv(SlidingWindow - 1, BlockSize)
                             + (IF UseEagle THEN 1 ELSE 0))
        Cached(i) == IsCached(kv, BlockHash(r, i))
        ends == {e \in need..max_blocks : \A i \in (e - need + 1)..e : Cached(i)}
        n == IF ends # {} THEN Max(ends)
             ELSE Max({k \in 0..max_blocks : \A i \in 1..k : Cached(i)})
        m == IF UseEagle /\ n > 0 THEN n - 1 ELSE n
    IN  [i \in 1..m |-> IF ends # {} /\ i <= n - need THEN NullBlock
                        ELSE GetCachedBlock(kv, BlockHash(r, i))]

\* get_computed_blocks: the last token is always left to be computed.
GetComputedBlocks(kv, r, num_tokens) ==
    IF ~ EnableCaching \/ r \in SkipReading THEN << >>
    ELSE IF SlidingWindow = 0
         THEN FullAttentionHit(kv, r, (num_tokens - 1) \div BlockSize)
         ELSE SlidingWindowHit(kv, r, (num_tokens - 1) \div BlockSize)

-----------------------------------------------------------------------------
(* Block tables *)

\* Mutant of NumSkippedTokens: the window one token too short.
NumSkippedTokensOffByOne(num_computed) ==
    IF SlidingWindow = 0 THEN 0
    ELSE Greater(0, num_computed - SlidingWindow + 2)

\* get_num_skipped_tokens: tokens that fell out of the attention window.
NumSkippedTokens(num_computed) ==
    IF SlidingWindow = 0 THEN 0
    ELSE Greater(0, num_computed - SlidingWindow + 1)

\* remove_skipped_blocks: from the last skipped block back to the first one
\* already replaced, blocks become null and are freed in that order.
RemoveSkippedBlocks(kv, r, total_computed) ==
    LET table == kv.req_to_blocks[r]
        k == Lesser(NumSkippedTokens(total_computed) \div BlockSize, Len(table))
        done == Max({0} \union {i \in 1..k : table[i] = NullBlock})
        removed == [j \in 1..(k - done) |-> table[k + 1 - j]]
    IN  [FreeBlocks(kv, removed) EXCEPT
           !.req_to_blocks = [kv.req_to_blocks EXCEPT ![r] =
               [i \in 1..Len(table) |->
                  IF i \in (done + 1)..k THEN NullBlock ELSE table[i]]]]

\* Mutant of NumBlocksToAllocate: idle hits leave the queue uncounted.
NumBlocksToAllocateWithoutHits(kv, r, num_tokens, hits, total_computed) ==
    LET held    == Len(kv.req_to_blocks[r])
        skipped == NumSkippedTokens(total_computed) \div BlockSize
    IN  Greater(CDiv(num_tokens, BlockSize) - Greater(skipped, Len(hits) + held), 0)

\* get_num_blocks_to_allocate: what the request would take from the free
\* queue, the idle blocks it hits included.
NumBlocksToAllocate(kv, r, num_tokens, hits, total_computed) ==
    LET required == CDiv(num_tokens, BlockSize)
        held     == Len(kv.req_to_blocks[r])
        skipped  == NumSkippedTokens(total_computed) \div BlockSize
        idle     == {i \in (Greater(0, skipped - held) + 1)..Len(hits) :
                       hits[i] # NullBlock /\ kv.ref_cnt[hits[i]] = 0}
    IN  IF kv.num_cached_block[r] # -1
        THEN Greater(required - held, 0)
        ELSE Greater(required - Greater(skipped, Len(hits) + held), 0)
               + Cardinality(idle)

\* Mutant of GrowTable: new blocks are put in front.
GrowTableInFront(kv, r, n) ==
    IF n \notin 0..GetNumFreeBlocks(kv) THEN GetNewBlocks(kv, n)
    ELSE [GetNewBlocks(kv, n) EXCEPT
            !.req_to_blocks =
                [kv.req_to_blocks EXCEPT ![r] = NewBlocks(kv, n) \o @]]

\* A table grows by n blocks from the head of the free queue, unless
\* get_new_blocks raises.
GrowTable(kv, r, n) ==
    IF n \notin 0..GetNumFreeBlocks(kv) THEN GetNewBlocks(kv, n)
    ELSE [GetNewBlocks(kv, n) EXCEPT
            !.req_to_blocks =
                [kv.req_to_blocks EXCEPT ![r] = @ \o NewBlocks(kv, n)]]

\* allocate_new_computed_blocks: hits are touched and enter the table behind
\* the nulls of the skipped blocks, then blocks for external tokens follow.
\* Asserts that hits come only to a request that has no blocks yet.
AllocateNewComputedBlocks(kv, r, hits, num_local, num_external) ==
    LET total    == num_local + num_external
        skipTok  == NumSkippedTokens(total)
        skipped  == skipTok \div BlockSize
        kept     == SubSeq(hits, skipped + 1, Len(hits))
        external == IF skipped > 0 THEN Lesser(total - skipTok, num_external)
                    ELSE num_external
        table    == [i \in 1..skipped |-> NullBlock] \o kept
        touched  == [Touch(kv, kept) EXCEPT
                       !.req_to_blocks = [kv.req_to_blocks EXCEPT ![r] = table],
                       !.num_cached_block =
                           [kv.num_cached_block EXCEPT ![r] = Len(table)]]
    IN  IF kv.num_cached_block[r] # -1
        THEN [kv EXCEPT !.err = @ \/ hits # << >>]
        ELSE IF \/ kv.req_to_blocks[r] # << >>
                \/ (~ EnableCaching /\ kept # << >>)
        THEN [kv EXCEPT !.err = TRUE]
        ELSE IF external > 0
        THEN GrowTable(touched, r, CDiv(total, BlockSize) - Len(table))
        ELSE touched

\* allocate_new_blocks
AllocateNewBlocks(kv, r, num_tokens) ==
    LET n == CDiv(num_tokens, BlockSize) - Len(kv.req_to_blocks[r])
    IN  IF n <= 0 THEN kv ELSE GrowTable(kv, r, n)

\* cache_blocks (of the manager: only with caching enabled)
CacheBlocks(kv, r, num_to_cache, num_tokens) ==
    LET cached == Greater(0, kv.num_cached_block[r])
        full   == num_to_cache \div BlockSize
    IN  IF ~ EnableCaching \/ cached >= full THEN kv
        ELSE [CacheFullBlocks(kv, kv.req_to_blocks[r],
                              BlockHashes(r, num_tokens), cached, full)
                EXCEPT !.num_cached_block =
                           [kv.num_cached_block EXCEPT ![r] = full]]

\* Mutant of Free: the table is released head first.
FreeHeadFirst(kv, r) ==
    [FreeBlocks(kv, kv.req_to_blocks[r]) EXCEPT
       !.req_to_blocks = [kv.req_to_blocks EXCEPT ![r] = << >>],
       !.num_cached_block = [kv.num_cached_block EXCEPT ![r] = -1]]

\* free: the table is released tail first.
Free(kv, r) ==
    LET table == kv.req_to_blocks[r]
        reversed == [i \in 1..Len(table) |-> table[Len(table) + 1 - i]]
    IN  [FreeBlocks(kv, reversed) EXCEPT
           !.req_to_blocks = [kv.req_to_blocks EXCEPT ![r] = << >>],
           !.num_cached_block = [kv.num_cached_block EXCEPT ![r] = -1]]

-----------------------------------------------------------------------------
(* allocate_slots *)

\* The arguments of one call: num_computed and num_tokens of the request, new
\* tokens, prefix-cache hits, lookahead slots, external tokens, delay_cache.
AllocArgs ==
    [num_computed : Nat, num_tokens : Nat, new : Nat, hits : Seq(Block),
     lookahead : Nat, external : Nat, delay : BOOLEAN]

NumLocalComputed(a) == a.num_computed + Len(a.hits) * BlockSize
TotalComputed(a) == Lesser(NumLocalComputed(a) + a.external, MaxModelLen)
NumNeedSlot(a) == Lesser(TotalComputed(a) + a.new + a.lookahead, MaxModelLen)

\* The first stage: blocks outside the window go even if the call then fails.
AfterSkip(kv, r, a) == RemoveSkippedBlocks(kv, r, TotalComputed(a))

\* allocate_slots returns None when the free queue is too short.
CanAllocate(kv, r, a) ==
    NumBlocksToAllocate(AfterSkip(kv, r, a), r, NumNeedSlot(a), a.hits,
                        NumLocalComputed(a) + a.external)
        <= GetNumFreeBlocks(AfterSkip(kv, r, a))

\* can_fit_full_sequence: the admission gate looks at the whole request, where
\* allocate_slots looks at the next chunk.
CanFitFullSequence(kv, r, a) ==
    NumBlocksToAllocate(kv, r, Lesser(a.num_tokens, MaxModelLen), a.hits,
                        TotalComputed(a))
        <= GetNumFreeBlocks(kv)

\* The state after allocate_slots.
AllocateSlots(kv, r, a) ==
    LET kv1 == AfterSkip(kv, r, a)
        kv2 == IF a.hits # << >> \/ a.external > 0
               THEN AllocateNewComputedBlocks(kv1, r, a.hits,
                        NumLocalComputed(a), a.external)
               ELSE kv1
        kv3 == AllocateNewBlocks(kv2, r, NumNeedSlot(a))
        kv4 == IF a.delay THEN kv3
               ELSE CacheBlocks(kv3, r,
                        Lesser(TotalComputed(a) + a.new, a.num_tokens),
                        a.num_tokens)
    IN  IF a.new = 0 /\ a.external = 0 THEN [kv EXCEPT !.err = TRUE]
        ELSE IF CanAllocate(kv, r, a) THEN kv4 ELSE kv1

-----------------------------------------------------------------------------

\* get_num_common_prefix_blocks of full attention: leading blocks of r that
\* every request with a table references.
Holders(kv) == {r \in Req : kv.req_to_blocks[r] # << >>}

\* Mutant of NumCommonPrefixBlocks: one request may lack the block.
NumCommonPrefixBlocksButOne(kv, r) ==
    IF SlidingWindow # 0 THEN 0
    ELSE Max({k \in 0..Len(kv.req_to_blocks[r]) :
                \A i \in 1..k :
                   kv.ref_cnt[kv.req_to_blocks[r][i]] >= Cardinality(Holders(kv)) - 1})

NumCommonPrefixBlocks(kv, r) ==
    IF SlidingWindow # 0 THEN 0
    ELSE Max({k \in 0..Len(kv.req_to_blocks[r]) :
                \A i \in 1..k :
                   kv.ref_cnt[kv.req_to_blocks[r][i]] = Cardinality(Holders(kv))})

-----------------------------------------------------------------------------
(* What the state of the manager must satisfy between two calls *)

KVState ==
    [ref_cnt : [Block -> Int],
     block_hash : [Block -> Hash \union {NoHash}],
     free : Seq(Block),
     cached : [Hash -> Seq(Block)],
     err : BOOLEAN,
     req_to_blocks : [Req -> Seq(Block)],
     num_cached_block : [Req -> Int]]

Users(kv, b) == {r \in Req : b \in Range(kv.req_to_blocks[r])}

\* A block's ref_cnt is the number of tables that hold it, and no table holds
\* a block twice.
RefCountsExact(kv) ==
    /\ \A b \in Block \ {NullBlock} : kv.ref_cnt[b] = Cardinality(Users(kv, b))
    /\ \A r \in Req : \A i, j \in DOMAIN kv.req_to_blocks[r] :
          (/\ kv.req_to_blocks[r][i] = kv.req_to_blocks[r][j]
           /\ kv.req_to_blocks[r][i] # NullBlock) => i = j

\* The free queue lists every unused block, the null block excepted, once.
FreeQueueExact(kv) ==
    /\ IsInjective(kv.free)
    /\ Range(kv.free) = {b \in Block \ {NullBlock} : kv.ref_cnt[b] = 0}

\* The hash map lists, once, exactly the blocks that carry the hash.
CacheMapExact(kv) ==
    \A h \in Hash :
        /\ IsInjective(kv.cached[h])
        /\ Range(kv.cached[h]) = {b \in Block \ {NullBlock} : kv.block_hash[b] = h}

\* A hashed block in a table carries the hash of its place in that table.
TablesOwnHash(kv) ==
    \A r \in Req : \A i \in DOMAIN kv.req_to_blocks[r] :
        LET b == kv.req_to_blocks[r][i]
        IN  b = NullBlock \/ kv.block_hash[b] = NoHash
              \/ (/\ i * BlockSize <= Len(TokenStream[r])
                  /\ kv.block_hash[b] = BlockHash(r, i))

\* A block two requests share sits at the same place in both tables, and the
\* requests agree on every token up to its end.
SharedBlocksAgree(kv) ==
    \A r, q \in Req :
        \A i \in DOMAIN kv.req_to_blocks[r], j \in DOMAIN kv.req_to_blocks[q] :
            (/\ r # q
             /\ kv.req_to_blocks[r][i] = kv.req_to_blocks[q][j]
             /\ kv.req_to_blocks[r][i] # NullBlock)
            => /\ i = j
               /\ i * BlockSize <= Lesser(Len(TokenStream[r]), Len(TokenStream[q]))
               /\ BlockHash(r, i) = BlockHash(q, i)

=============================================================================
