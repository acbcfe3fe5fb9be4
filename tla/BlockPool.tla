----------------------------- MODULE BlockPool -----------------------------
(***************************************************************************)
(* The KV-cache block pool (vllm/v1/core/block_pool.py) as operators on a  *)
(* record p with the fields                                                *)
(*                                                                         *)
(*   ref_cnt     [Block -> Int]        KVCacheBlock.ref_cnt                *)
(*   block_hash  [Block -> Hash or NoHash]   KVCacheBlock.block_hash       *)
(*   free        Seq(Block)            free_block_queue, eviction order    *)
(*   cached      [Hash -> Seq(Block)]  cached_block_hash_to_block; the     *)
(*                                     dict of one hash in insertion order *)
(*   err         BOOLEAN               an assert or a raise was reached    *)
(*                                                                         *)
(* An operator returns the record after the call.  The free queue is a     *)
(* sequence here; FreeBlockQueue shows that the linked list implements it. *)
(***************************************************************************)
EXTENDS SeqFilter, FiniteSets

CONSTANTS
    Block,          \* the blocks, num_gpu_blocks of them
    NullBlock,      \* the placeholder block, block_id 0
    Hash,           \* block hashes (with the KV-cache group id)
    NoHash,         \* block_hash is None
    EnableCaching   \* enable_caching

ASSUME PoolAssumption ==
    /\ IsFiniteSet(Block)
    /\ NullBlock \in Block
    /\ NoHash \notin Hash
    /\ EnableCaching \in BOOLEAN

NumBlocks == Cardinality(Block)

\* How often b occurs in the list of blocks bs.
Count(bs, b) == Cardinality({i \in DOMAIN bs : bs[i] = b})

\* Which block has which id does not matter, so the queue starts in any order.
\* The null block is popped from it at once and never returns; its ref_cnt is
\* not maintained, and the operators below leave it at 0.
InitialQueues == Bijection(1..(NumBlocks - 1), Block \ {NullBlock})

InitPool(queue) ==
    [ref_cnt    |-> [b \in Block |-> 0],
     block_hash |-> [b \in Block |-> NoHash],
     free       |-> queue,
     cached     |-> [h \in Hash |-> << >>],
     err        |-> FALSE]

GetNumFreeBlocks(p) == Len(p.free)

\* get_cached_block for one group: is there a block for h, and the first one.
IsCached(p, h) == p.cached[h] # << >>
GetCachedBlock(p, h) == Head(p.cached[h])

\* Mutant of MaybeEvict: reset_hash is forgotten.
MaybeEvictKeepsHash(p, B) ==
    LET out == {b \in B : /\ p.block_hash[b] # NoHash
                          /\ b \in Range(p.cached[p.block_hash[b]])}
    IN  [p EXCEPT !.cached = [h \in Hash |->
               Without(p.cached[h], {b \in out : p.block_hash[b] = h})]]

\* _maybe_evict_cached_block for every block of B: a block that the map holds
\* under its hash leaves the map and loses the hash.
MaybeEvict(p, B) ==
    LET out == {b \in B : /\ p.block_hash[b] # NoHash
                          /\ b \in Range(p.cached[p.block_hash[b]])}
    IN  [p EXCEPT
           !.cached = [h \in Hash |->
               Without(p.cached[h], {b \in out : p.block_hash[b] = h})],
           !.block_hash = [b \in Block |->
               IF b \in out THEN NoHash ELSE p.block_hash[b]]]

\* get_new_blocks(n): the n blocks at the head of the queue ...
NewBlocks(p, n) == SubSeq(p.free, 1, n)

\* Mutant of GetNewBlocks: a block that still caches a prefix is handed out.
GetNewBlocksKeepsCache(p, n) ==
    IF n \notin 0..GetNumFreeBlocks(p) THEN [p EXCEPT !.err = TRUE]
    ELSE [p EXCEPT
            !.free = SubSeq(p.free, n + 1, Len(p.free)),
            !.ref_cnt = [b \in Block |->
                p.ref_cnt[b] + (IF b \in Range(NewBlocks(p, n)) THEN 1 ELSE 0)]]

\* ... and the pool after it.  ValueError when there are too few.
GetNewBlocks(p, n) ==
    IF n \notin 0..GetNumFreeBlocks(p) THEN [p EXCEPT !.err = TRUE]
    ELSE LET ret == Range(NewBlocks(p, n))
             q   == IF EnableCaching THEN MaybeEvict(p, ret) ELSE p
         IN  [q EXCEPT
                !.free = SubSeq(p.free, n + 1, Len(p.free)),
                !.ref_cnt = [b \in Block |->
                    p.ref_cnt[b] + (IF b \in ret THEN 1 ELSE 0)],
                !.err = p.err \/ \E b \in ret : p.ref_cnt[b] # 0]

\* touch(blocks): eviction candidates leave the queue; remove() of a block
\* that is not in the queue raises.
Touch(p, blocks) ==
    LET idle == {b \in Range(blocks) \ {NullBlock} : p.ref_cnt[b] = 0}
    IN  [p EXCEPT
           !.free = Without(p.free, idle),
           !.ref_cnt = [b \in Block |->
               p.ref_cnt[b] + (IF b = NullBlock THEN 0 ELSE Count(blocks, b))],
           !.err = p.err \/ ~ (idle \subseteq Range(p.free))]

\* Mutant of FreeBlocks: blocks join the queue while others still use them.
FreeBlocksStillUsed(p, blocks) ==
    [p EXCEPT
       !.ref_cnt = [b \in Block |->
           p.ref_cnt[b] - (IF b = NullBlock THEN 0 ELSE Count(blocks, b))],
       !.free = p.free \o Without(blocks, {NullBlock})]

\* free_blocks(ordered_blocks): all counts drop first, then the blocks whose
\* count reached zero join the queue in the given order.
FreeBlocks(p, blocks) ==
    LET left == [b \in Block |->
                    p.ref_cnt[b] - (IF b = NullBlock THEN 0 ELSE Count(blocks, b))]
    IN  [p EXCEPT
           !.ref_cnt = left,
           !.free = p.free \o Without(blocks,
                        {b \in Block : b = NullBlock \/ left[b] # 0})]

\* cache_full_blocks: the blocks of a request from num_cached + 1 to num_full
\* get the hash hashes[i] of their position, null blocks excepted.  Asserts
\* that the hashes exist and that no block has one already.
CacheFullBlocks(p, blocks, hashes, num_cached, num_full) ==
    LET new == {i \in (num_cached + 1)..num_full :
                  i \in DOMAIN blocks /\ blocks[i] # NullBlock}
        At(b) == CHOOSE i \in new : blocks[i] = b
        For(h) == CHOOSE i \in new : hashes[i] = h
    IN  IF \/ num_full > Len(hashes)
           \/ \E i \in new : p.block_hash[blocks[i]] # NoHash
        THEN [p EXCEPT !.err = TRUE]
        ELSE [p EXCEPT
               !.block_hash = [b \in Block |->
                   IF \E i \in new : blocks[i] = b THEN hashes[At(b)]
                   ELSE p.block_hash[b]],
               !.cached = [h \in Hash |->
                   IF \E i \in new : hashes[i] = h
                   THEN Append(p.cached[h], blocks[For(h)])
                   ELSE p.cached[h]]]

\* evict_blocks(block_ids)
EvictBlocks(p, B) == MaybeEvict(p, B)

\* Mutant of CanResetPrefixCache: the null block is not counted.
CanResetPrefixCacheForgetsNull(p) == NumBlocks = GetNumFreeBlocks(p)

\* reset_prefix_cache() succeeds only when the null block alone is in use.
CanResetPrefixCache(p) == NumBlocks - GetNumFreeBlocks(p) = 1

ResetPrefixCache(p) ==
    IF CanResetPrefixCache(p)
    THEN [p EXCEPT !.cached = [h \in Hash |-> << >>],
                   !.block_hash = [b \in Block |-> NoHash]]
    ELSE p

=============================================================================
