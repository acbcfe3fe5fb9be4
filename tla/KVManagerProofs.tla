-------------------------- MODULE KVManagerProofs ---------------------------
(***************************************************************************)
(* Every operation of the KV-cache manager preserves the soundness of its  *)
(* state: reference counts, free queue, hash map and the agreement of      *)
(* requests on the blocks they share.  In allocate_slots and cache_blocks, *)
(* prefix-cache hits enter a table where their hash says, and a block that *)
(* becomes full gets the hash of its place.                                *)
(*                                                                         *)
(* And no call of the manager reaches an assert or a raise.  Beyond        *)
(* soundness this needs that the blocks of a table behind num_cached_block *)
(* are neither hashed nor shared, and that get_num_blocks_to_allocate      *)
(* counts what the call then takes from the free queue.                    *)
(***************************************************************************)
EXTENDS KVCacheManager, SeqFacts, TLAPS

\* The inductive invariant of the manager's state.
Sound(k) ==
    /\ k \in KVState
    /\ RefCountsExact(k)
    /\ FreeQueueExact(k)
    /\ CacheMapExact(k)
    /\ TablesOwnHash(k)
    /\ SharedBlocksAgree(k)
    /\ EnableCaching \/ \A b \in Block : k.block_hash[b] = NoHash

-----------------------------------------------------------------------------
(* Cardinalities *)

\* Users is a finite set, so its cardinality is a natural number.
LEMMA UsersFinite ==
  ASSUME Facts, NEW k, NEW b
  PROVE  IsFiniteSet(Users(k, b)) /\ Cardinality(Users(k, b)) \in Nat
<1>1. Users(k, b) \subseteq Req BY Zenon DEF Users
<1> QED BY Zenon, <1>1, ManagerAssumption DEF Facts, FiniteSubset, FiniteCardinality

\* What the table of r adds to the count of b.
Uses(k, r, b) == IF b \in Range(k.req_to_blocks[r]) THEN 1 ELSE 0

\* A change of the table of r alone moves the number of users of b by what r
\* gains or loses.
LEMMA UsersStep ==
  ASSUME Facts, NEW k, NEW m, NEW r \in Req, NEW b,
         \A q \in Req \ {r} : m.req_to_blocks[q] = k.req_to_blocks[q]
  PROVE  Cardinality(Users(m, b)) =
           Cardinality(Users(k, b))
             + Uses(m, r, b)
             - Uses(k, r, b)
<1>1. IsFiniteSet(Users(k, b)) /\ Cardinality(Users(k, b)) \in Nat
  BY Zenon, UsersFinite
<1>2. IsFiniteSet(Users(m, b)) /\ Cardinality(Users(m, b)) \in Nat
  BY Zenon, UsersFinite
<1>3. CASE b \in Range(k.req_to_blocks[r]) <=> b \in Range(m.req_to_blocks[r])
  <2>1. Users(m, b) = Users(k, b) BY <1>3 DEF Users
  <2> QED BY ONLY <1>1, <1>3, <2>1 DEF Uses
<1>4. CASE b \in Range(m.req_to_blocks[r]) /\ b \notin Range(k.req_to_blocks[r])
  <2>1. Users(m, b) = Users(k, b) \union {r} /\ r \notin Users(k, b)
    BY <1>4 DEF Users
  <2>2. Cardinality(Users(m, b)) = Cardinality(Users(k, b)) + 1
    BY <1>1, <2>1, Zenon DEF Facts, FiniteAdd
  <2> QED BY ONLY <1>1, <1>4, <2>2 DEF Uses
<1>5. CASE b \notin Range(m.req_to_blocks[r]) /\ b \in Range(k.req_to_blocks[r])
  <2>1. Users(k, b) = Users(m, b) \union {r} /\ r \notin Users(m, b)
    BY <1>5 DEF Users
  <2>2. Cardinality(Users(k, b)) = Cardinality(Users(m, b)) + 1
    BY <1>2, <2>1, Zenon DEF Facts, FiniteAdd
  <2> QED BY ONLY <1>1, <1>2, <1>5, <2>2 DEF Uses
<1> QED BY Zenon, <1>3, <1>4, <1>5

\* In a sound state a block of the free queue is in no table.
LEMMA FreeUnused ==
  ASSUME Facts, NEW k, Sound(k), NEW b \in Range(k.free), NEW r \in Req
  PROVE  b \in Block \ {NullBlock} /\ b \notin Range(k.req_to_blocks[r])
<1>1. b \in Block \ {NullBlock} /\ k.ref_cnt[b] = 0
  BY Zenon DEF Sound, FreeQueueExact
<1>2. Cardinality(Users(k, b)) = 0
  BY Zenon, <1>1 DEF Sound, RefCountsExact
<1>3. Users(k, b) = {}
  BY Zenon, <1>2, UsersFinite DEF Facts, FiniteEmpty
<1> QED BY Zenon, <1>1, <1>3 DEF Users

\* A list that holds b once at most counts it as 1 or 0.
LEMMA CountDistinct ==
  ASSUME Facts, NEW s \in Seq(Block), NEW b,
         \A i, j \in DOMAIN s : s[i] = b /\ s[j] = b => i = j
  PROVE  Count(s, b) = IF b \in Range(s) THEN 1 ELSE 0
<1> DEFINE At == {i \in DOMAIN s : s[i] = b}
<1>1. CASE b \in Range(s)
  <2>1. PICK i \in DOMAIN s : s[i] = b BY Zenon, <1>1 DEF Range
  <2>2. At = {i} BY Zenon, <2>1
  <2> QED BY <1>1, <2>2, Zenon DEF Count, Facts, FiniteSingleton
<1>2. CASE b \notin Range(s)
  <2>1. At = {} BY Zenon, <1>2 DEF Range
  <2> QED BY Zenon, <1>2, <2>1 DEF Count, Facts, FiniteEmpty
<1> QED BY Zenon, <1>1, <1>2

-----------------------------------------------------------------------------
(* Operations that leave the tables alone *)

\* _maybe_evict_cached_block on a set of blocks takes them out of the map and
\* clears their hashes, and nothing else.
LEMMA MaybeEvictFields ==
  ASSUME Facts, NEW k \in KVState, CacheMapExact(k), NEW B \in SUBSET Block
  PROVE  LET m == MaybeEvict(k, B)
         IN  /\ m \in KVState
             /\ m = [k EXCEPT !.cached = m.cached, !.block_hash = m.block_hash]
             /\ \A b \in Block \ {NullBlock} :
                   m.block_hash[b] = IF b \in B THEN NoHash ELSE k.block_hash[b]
             /\ m.block_hash[NullBlock] = k.block_hash[NullBlock]
             /\ CacheMapExact(m)
<1> DEFINE m == MaybeEvict(k, B)
           out == {b \in B : /\ k.block_hash[b] # NoHash
                             /\ b \in Range(k.cached[k.block_hash[b]])}
           cached == [h \in Hash |->
                        Without(k.cached[h], {b \in out : k.block_hash[b] = h})]
           hash == [b \in Block |-> IF b \in out THEN NoHash ELSE k.block_hash[b]]
<1>1. m = [k EXCEPT !.cached = cached, !.block_hash = hash]
  BY Zenon DEF MaybeEvict
<1>2. k.block_hash \in [Block -> Hash \union {NoHash}] /\ k.cached \in [Hash -> Seq(Block)]
  BY Zenon DEF KVState
<1>3. out = {b \in B \ {NullBlock} : k.block_hash[b] # NoHash}
  BY <1>2 DEF CacheMapExact
<1>4. cached \in [Hash -> Seq(Block)]
  BY Zenon, <1>2 DEF Facts, WithoutProperties
<1>5. hash \in [Block -> Hash \union {NoHash}]
  BY Zenon, <1>2
<1>6. m \in KVState /\ m.cached = cached /\ m.block_hash = hash
  BY Zenon, <1>1, <1>4, <1>5 DEF KVState
<1>7. \A b \in Block \ {NullBlock} :
         hash[b] = IF b \in B THEN NoHash ELSE k.block_hash[b]
  BY Zenon, <1>3
<1>8. hash[NullBlock] = k.block_hash[NullBlock]
  BY Zenon, <1>3, PoolAssumption
<1>9. ASSUME NEW h \in Hash
      PROVE  /\ IsInjective(cached[h])
             /\ Range(cached[h]) = {b \in Block \ {NullBlock} : hash[b] = h}
  <2> DEFINE S == {b \in out : k.block_hash[b] = h}
  <2>1. cached[h] = Without(k.cached[h], S) BY Zenon
  <2>2. k.cached[h] \in Seq(Block) BY Zenon, <1>2
  <2>3. IsInjective(k.cached[h]) BY Zenon DEF CacheMapExact
  <2>4. Range(cached[h]) = Range(k.cached[h]) \ S /\ IsInjective(cached[h])
    BY <2>1, <2>2, <2>3 DEF Facts, WithoutProperties
  <2>5. Range(k.cached[h]) = {b \in Block \ {NullBlock} : k.block_hash[b] = h}
    BY Zenon DEF CacheMapExact
  <2>6. NoHash # h BY Zenon, PoolAssumption
  <2> QED BY Zenon, <1>3, <1>7, <2>4, <2>5, <2>6
<1> HIDE DEF m, hash, cached
<1>10. CacheMapExact(m)
  BY Zenon, <1>6, <1>9 DEF CacheMapExact
<1>11. m = [k EXCEPT !.cached = m.cached, !.block_hash = m.block_hash]
  BY Zenon, <1>1, <1>6
<1> QED BY Zenon, <1>6, <1>7, <1>8, <1>10, <1>11 DEF m

\* Clearing hashes keeps a state sound.
LEMMA HashDropSound ==
  ASSUME Facts, NEW k, Sound(k), NEW m \in KVState, CacheMapExact(m),
         m.ref_cnt = k.ref_cnt, m.free = k.free,
         m.req_to_blocks = k.req_to_blocks,
         \A b \in Block \ {NullBlock} : m.block_hash[b] \in {NoHash, k.block_hash[b]},
         EnableCaching \/ \A b \in Block : m.block_hash[b] = NoHash
  PROVE  Sound(m)
<1>1. RefCountsExact(m) BY DEF Sound, RefCountsExact, Users
<1>2. FreeQueueExact(m) BY Zenon DEF Sound, FreeQueueExact
<1>3. SharedBlocksAgree(m) BY DEF Sound, SharedBlocksAgree
<1>4. TablesOwnHash(m)
  <2> SUFFICES ASSUME NEW r \in Req, NEW i \in DOMAIN k.req_to_blocks[r],
                      k.req_to_blocks[r][i] # NullBlock,
                      m.block_hash[k.req_to_blocks[r][i]] # NoHash
               PROVE  /\ i * BlockSize <= Len(TokenStream[r])
                      /\ m.block_hash[k.req_to_blocks[r][i]] = BlockHash(r, i)
    BY DEF TablesOwnHash
  <2>1. k.req_to_blocks[r][i] \in Block \ {NullBlock}
    BY DEF Sound, KVState, Facts, LenProperties
  <2>2. m.block_hash[k.req_to_blocks[r][i]] = k.block_hash[k.req_to_blocks[r][i]]
    BY Zenon, <2>1
  <2> QED BY Zenon, <2>2 DEF Sound, TablesOwnHash
<1> QED BY Zenon, <1>1, <1>2, <1>3, <1>4 DEF Sound

\* evict_blocks keeps the state sound.
LEMMA EvictBlocksSound ==
  ASSUME Facts, NEW k, Sound(k), NEW B \in SUBSET Block
  PROVE  Sound(EvictBlocks(k, B))
<1> DEFINE m == MaybeEvict(k, B)
<1>0. k \in KVState /\ CacheMapExact(k) BY Zenon DEF Sound
<1>1. /\ m \in KVState
      /\ m = [k EXCEPT !.cached = m.cached, !.block_hash = m.block_hash]
      /\ \A b \in Block \ {NullBlock} :
           m.block_hash[b] = IF b \in B THEN NoHash ELSE k.block_hash[b]
      /\ m.block_hash[NullBlock] = k.block_hash[NullBlock]
      /\ CacheMapExact(m)
  BY Zenon, <1>0, MaybeEvictFields
<1> HIDE DEF m
<1>2. m.ref_cnt = k.ref_cnt /\ m.free = k.free /\ m.req_to_blocks = k.req_to_blocks
  BY <1>0, <1>1, Zenon DEF KVState
<1>3. EnableCaching \/ \A b \in Block : m.block_hash[b] = NoHash
  BY Zenon, <1>1 DEF Sound
<1>4. Sound(m)
  BY Zenon, <1>1, <1>2, <1>3, HashDropSound
<1> QED BY Zenon, <1>4 DEF EvictBlocks, m

\* reset_prefix_cache keeps the state sound.
LEMMA ResetSound ==
  ASSUME Facts, NEW k, Sound(k)
  PROVE  Sound(ResetPrefixCache(k))
<1> DEFINE m == [k EXCEPT !.cached = [h \in Hash |-> << >>],
                          !.block_hash = [b \in Block |-> NoHash]]
<1>0. k \in KVState BY Zenon DEF Sound
<1>1. /\ m \in KVState
      /\ m.ref_cnt = k.ref_cnt /\ m.free = k.free /\ m.req_to_blocks = k.req_to_blocks
      /\ m.cached = [h \in Hash |-> << >>]
      /\ m.block_hash = [b \in Block |-> NoHash]
  BY <1>0, Zenon DEF KVState, Facts, EmptySeq
<1> HIDE DEF m
<1>2. CacheMapExact(m)
  BY ONLY <1>1, PoolAssumption DEF CacheMapExact, IsInjective, Range
<1>3. Sound(m)
  BY Zenon, <1>1, <1>2, HashDropSound
<1> QED BY Zenon, <1>3 DEF ResetPrefixCache, m

-----------------------------------------------------------------------------
(* Operations that change one table *)

\* A failed assertion changes nothing but the flag.
LEMMA FailSound ==
  ASSUME Facts, NEW k, Sound(k), NEW e \in BOOLEAN
  PROVE  Sound([k EXCEPT !.err = e])
<1> DEFINE m == [k EXCEPT !.err = e]
<1>0. k \in KVState BY Zenon DEF Sound
<1>1. /\ m \in KVState
      /\ m.ref_cnt = k.ref_cnt /\ m.free = k.free /\ m.req_to_blocks = k.req_to_blocks
      /\ m.cached = k.cached /\ m.block_hash = k.block_hash
  BY <1>0, Zenon DEF KVState
<1> HIDE DEF m
<1>2. CacheMapExact(m) BY <1>1 DEF Sound, CacheMapExact
<1>3. EnableCaching \/ \A b \in Block : m.block_hash[b] = NoHash
  BY Zenon, <1>1 DEF Sound
<1>4. Sound(m) BY Zenon, <1>1, <1>2, <1>3, HashDropSound
<1> QED BY Zenon, <1>4 DEF m

\* The entries of a table are blocks.
LEMMA TableEntry ==
  ASSUME Facts, NEW k \in KVState, NEW r \in Req
  PROVE  /\ k.req_to_blocks[r] \in Seq(Block)
         /\ Len(k.req_to_blocks[r]) \in Nat
         /\ DOMAIN k.req_to_blocks[r] = 1..Len(k.req_to_blocks[r])
         /\ \A i \in DOMAIN k.req_to_blocks[r] :
               /\ k.req_to_blocks[r][i] \in Block
               /\ k.req_to_blocks[r][i] \in Range(k.req_to_blocks[r])
<1>1. k.req_to_blocks[r] \in Seq(Block) BY Zenon DEF KVState
<1> QED BY Zenon, <1>1 DEF Range, Facts, LenProperties, ElementOfSeq

\* How a call that works on the table of r may leave the rest of the state:
\* other tables stay, counts follow the table of r, hashes of blocks in other
\* tables at most disappear, and no block enters the table of r twice.
OneTableStep(k, m, r) ==
    /\ m \in KVState
    /\ \A q \in Req \ {r} : m.req_to_blocks[q] = k.req_to_blocks[q]
    /\ \A b \in Block \ {NullBlock} :
          m.ref_cnt[b] = k.ref_cnt[b]
             + Uses(m, r, b)
             - Uses(k, r, b)
    /\ \A q \in Req \ {r} : \A i \in DOMAIN k.req_to_blocks[q] :
          \/ k.req_to_blocks[q][i] = NullBlock
          \/ m.block_hash[k.req_to_blocks[q][i]]
                \in {NoHash, k.block_hash[k.req_to_blocks[q][i]]}
    /\ \A i, j \in DOMAIN m.req_to_blocks[r] :
          (/\ m.req_to_blocks[r][i] = m.req_to_blocks[r][j]
           /\ m.req_to_blocks[r][i] # NullBlock) => i = j
    /\ EnableCaching \/ \A b \in Block : m.block_hash[b] = NoHash

\* Every block of the table of r in m is where its hash, and the other tables
\* of k, want it.
EntriesPlaced(k, m, r) ==
    \A i \in DOMAIN m.req_to_blocks[r] :
        LET b == m.req_to_blocks[r][i]
        IN  \/ b = NullBlock
            \/ /\ \/ m.block_hash[b] = NoHash
                  \/ /\ i * BlockSize <= Len(TokenStream[r])
                     /\ m.block_hash[b] = BlockHash(r, i)
               /\ \A q \in Req \ {r} : \A j \in DOMAIN k.req_to_blocks[q] :
                     b = k.req_to_blocks[q][j] =>
                        /\ i = j
                        /\ i * BlockSize <= Lesser(Len(TokenStream[r]),
                                                   Len(TokenStream[q]))
                        /\ BlockHash(r, i) = BlockHash(q, i)

\* Such a change is sound if the queue and the hash map are again exact.
LEMMA TableStepSound ==
  ASSUME Facts, NEW k, Sound(k), NEW m, NEW r \in Req,
         OneTableStep(k, m, r), EntriesPlaced(k, m, r),
         CacheMapExact(m), FreeQueueExact(m)
  PROVE  Sound(m)
<1>0. /\ k \in KVState /\ m \in KVState
      /\ \A q \in Req \ {r} : m.req_to_blocks[q] = k.req_to_blocks[q]
  BY Zenon DEF Sound, OneTableStep
<1>1. RefCountsExact(m)
  <2>1. ASSUME NEW b \in Block \ {NullBlock}
        PROVE  m.ref_cnt[b] = Cardinality(Users(m, b))
    <3>1. k.ref_cnt[b] = Cardinality(Users(k, b)) BY Zenon DEF Sound, RefCountsExact
    <3>2. m.ref_cnt[b] = k.ref_cnt[b]
             + Uses(m, r, b)
             - Uses(k, r, b)
      BY Zenon DEF OneTableStep
    <3>3. Cardinality(Users(m, b)) =
           Cardinality(Users(k, b))
             + Uses(m, r, b)
             - Uses(k, r, b)
      BY <1>0, UsersStep, Zenon
    <3> QED BY Zenon, <3>1, <3>2, <3>3
  <2>2. ASSUME NEW q \in Req, NEW i \in DOMAIN m.req_to_blocks[q],
               NEW j \in DOMAIN m.req_to_blocks[q],
               m.req_to_blocks[q][i] = m.req_to_blocks[q][j],
               m.req_to_blocks[q][i] # NullBlock
        PROVE  i = j
    <3>1. CASE q = r BY Zenon, <2>2, <3>1 DEF OneTableStep
    <3>2. CASE q # r BY <1>0, <2>2, <3>2 DEF Sound, RefCountsExact
    <3> QED BY Zenon, <3>1, <3>2
  <2> QED BY Zenon, <2>1, <2>2 DEF RefCountsExact
<1>2. TablesOwnHash(m)
  <2> SUFFICES ASSUME NEW q \in Req, NEW i \in DOMAIN m.req_to_blocks[q],
                      m.req_to_blocks[q][i] # NullBlock,
                      m.block_hash[m.req_to_blocks[q][i]] # NoHash
               PROVE  /\ i * BlockSize <= Len(TokenStream[q])
                      /\ m.block_hash[m.req_to_blocks[q][i]] = BlockHash(q, i)
    BY Zenon DEF TablesOwnHash
  <2>1. CASE q = r BY Zenon, <2>1 DEF EntriesPlaced
  <2>2. CASE q # r
    <3>1. m.req_to_blocks[q] = k.req_to_blocks[q] BY Zenon, <1>0, <2>2
    <3>2. m.block_hash[k.req_to_blocks[q][i]] = k.block_hash[k.req_to_blocks[q][i]]
      <4> DEFINE b == k.req_to_blocks[q][i]
      <4>1. i \in DOMAIN k.req_to_blocks[q] /\ m.req_to_blocks[q][i] = b BY Zenon, <3>1
      <4>2. b # NullBlock /\ m.block_hash[b] # NoHash BY Zenon, <4>1
      <4> QED BY Zenon, <2>2, <4>1, <4>2 DEF OneTableStep
    <3>3. TablesOwnHash(k) BY Zenon DEF Sound
    <3>4. i \in DOMAIN k.req_to_blocks[q] BY Zenon, <3>1
    <3>5. \/ k.req_to_blocks[q][i] = NullBlock
          \/ k.block_hash[k.req_to_blocks[q][i]] = NoHash
          \/ (/\ i * BlockSize <= Len(TokenStream[q])
              /\ k.block_hash[k.req_to_blocks[q][i]] = BlockHash(q, i))
      BY Zenon, <3>3, <3>4 DEF TablesOwnHash
    <3> QED BY Zenon, <3>1, <3>2, <3>5
  <2> QED BY Zenon, <2>1, <2>2
<1>3. SharedBlocksAgree(m)
  <2> SUFFICES ASSUME NEW p \in Req, NEW q \in Req,
                      NEW i \in DOMAIN m.req_to_blocks[p],
                      NEW j \in DOMAIN m.req_to_blocks[q], p # q,
                      m.req_to_blocks[p][i] = m.req_to_blocks[q][j],
                      m.req_to_blocks[p][i] # NullBlock
               PROVE  /\ i = j
                      /\ i * BlockSize <= Lesser(Len(TokenStream[p]), Len(TokenStream[q]))
                      /\ BlockHash(p, i) = BlockHash(q, i)
    BY DEF SharedBlocksAgree
  <2>1. CASE p = r
    <3>1. m.req_to_blocks[q] = k.req_to_blocks[q] BY Zenon, <1>0, <2>1
    <3> QED BY <2>1, <3>1 DEF EntriesPlaced
  <2>2. CASE q = r
    <3>1. m.req_to_blocks[p] = k.req_to_blocks[p] BY Zenon, <1>0, <2>2
    <3>2. /\ j = i
          /\ j * BlockSize <= Lesser(Len(TokenStream[q]), Len(TokenStream[p]))
          /\ BlockHash(q, j) = BlockHash(p, j)
      BY <2>2, <3>1 DEF EntriesPlaced
    <3>3. Len(TokenStream[p]) \in Nat /\ Len(TokenStream[q]) \in Nat
      BY Zenon, ManagerAssumption DEF Facts, LenProperties
    <3> QED BY ONLY <3>2, <3>3 DEF Lesser
  <2>3. CASE p # r /\ q # r
    <3>1. m.req_to_blocks[p] = k.req_to_blocks[p] /\ m.req_to_blocks[q] = k.req_to_blocks[q]
      BY Zenon, <1>0, <2>3
    <3> QED BY <3>1 DEF Sound, SharedBlocksAgree
  <2> QED BY Zenon, <2>1, <2>2, <2>3
<1> QED BY Zenon, <1>0, <1>1, <1>2, <1>3 DEF Sound, OneTableStep

\* A table that grows from the head of the queue stays sound: the new blocks
\* were in no table, and lose their hash on the way out of the queue.
LEMMA GrowTableSound ==
  ASSUME Facts, NEW k, Sound(k), NEW r \in Req, NEW n \in Int
  PROVE  Sound(GrowTable(k, r, n))
<1>0. /\ k \in KVState /\ CacheMapExact(k)
      /\ k.free \in Seq(Block) /\ Len(k.free) \in Nat
      /\ IsInjective(k.free)
      /\ k.ref_cnt \in [Block -> Int]
      /\ k.err \in BOOLEAN
  BY Zenon DEF Sound, KVState, FreeQueueExact, Facts, LenProperties
<1>1. CASE n \notin 0..Len(k.free)
  BY <1>1, FailSound, Zenon DEF GrowTable, GetNewBlocks, GetNumFreeBlocks
<1>2. CASE n \in 0..Len(k.free)
  <2> DEFINE new  == SubSeq(k.free, 1, n)
             rest == SubSeq(k.free, n + 1, Len(k.free))
             ret  == Range(new)
             q    == IF EnableCaching THEN MaybeEvict(k, ret) ELSE k
             cnt  == [b \in Block |-> k.ref_cnt[b] + (IF b \in ret THEN 1 ELSE 0)]
             bad  == k.err \/ \E b \in ret : k.ref_cnt[b] # 0
             table == k.req_to_blocks[r] \o new
             m == [[q EXCEPT !.free = rest, !.ref_cnt = cnt, !.err = bad]
                     EXCEPT !.req_to_blocks = [k.req_to_blocks EXCEPT ![r] = @ \o new]]
  <2>1. GrowTable(k, r, n) = m
    BY Zenon, <1>2 DEF GrowTable, GetNewBlocks, NewBlocks, GetNumFreeBlocks
  <2>2. /\ new \in Seq(Block) /\ Len(new) = n
        /\ rest \in Seq(Block)
        /\ IsInjective(new) /\ IsInjective(rest)
        /\ ret \subseteq Range(k.free)
        /\ Range(rest) = Range(k.free) \ ret
    BY <1>0, <1>2 DEF Facts, SplitProperties
  <2>3. /\ DOMAIN new = 1..n
        /\ \A i \in 1..n : new[i] \in ret
    BY <2>2, Zenon DEF Range, Facts, LenProperties
  <2> HIDE DEF new, rest, ret
  <2>4. /\ ret \subseteq Block \ {NullBlock}
        /\ \A p \in Req : ret \intersect Range(k.req_to_blocks[p]) = {}
    <3>1. ASSUME NEW b \in ret, NEW p \in Req
          PROVE  b \in Block \ {NullBlock} /\ b \notin Range(k.req_to_blocks[p])
      BY Zenon, <2>2, FreeUnused
    <3> QED BY Zenon, <3>1
  <2>5. /\ q \in KVState /\ CacheMapExact(q)
        /\ q = [k EXCEPT !.cached = q.cached, !.block_hash = q.block_hash]
        /\ \A b \in Block \ {NullBlock} :
              q.block_hash[b] = IF b \in ret THEN NoHash ELSE k.block_hash[b]
        /\ EnableCaching \/ \A b \in Block : q.block_hash[b] = NoHash
    <3>1. CASE EnableCaching
      <4> DEFINE e == MaybeEvict(k, ret)
      <4>1. ret \in SUBSET Block BY Zenon, <2>4
      <4>2. /\ e \in KVState
            /\ e = [k EXCEPT !.cached = e.cached, !.block_hash = e.block_hash]
            /\ \A b \in Block \ {NullBlock} :
                  e.block_hash[b] = IF b \in ret THEN NoHash ELSE k.block_hash[b]
            /\ e.block_hash[NullBlock] = k.block_hash[NullBlock]
            /\ CacheMapExact(e)
        BY Zenon, <1>0, <4>1, MaybeEvictFields
      <4>3. q = e BY Zenon, <3>1
      <4> HIDE DEF e, q
      <4> QED BY Zenon, <3>1, <4>2, <4>3
    <3>2. CASE ~ EnableCaching
      <4>1. k = [k EXCEPT !.cached = k.cached, !.block_hash = k.block_hash]
        BY <1>0, Zenon DEF KVState
      <4> QED BY Zenon, <1>0, <3>2, <4>1 DEF Sound
    <3> QED BY Zenon, <3>1, <3>2
  <2> DEFINE old == k.req_to_blocks[r]
  <2>6. /\ old \in Seq(Block) /\ Len(old) \in Nat /\ DOMAIN old = 1..Len(old)
        /\ \A i \in DOMAIN old : old[i] \in Block /\ old[i] \in Range(old)
    BY Zenon, <1>0, TableEntry
  <2>7. /\ table \in Seq(Block) /\ DOMAIN table = 1..(Len(old) + n)
        /\ \A i \in 1..Len(old) : table[i] = old[i]
        /\ \A i \in 1..n : table[Len(old) + i] = new[i]
        /\ \A i \in 1..(Len(old) + n) :
              i \in 1..Len(old) \/ \E j \in 1..n : i = Len(old) + j
        /\ Range(table) = Range(old) \union ret
    <3>1. table \in Seq(Block) /\ IsConcat(table, old, new)
      BY Zenon, <2>2, <2>6 DEF Facts, ConcatEntries
    <3> HIDE DEF table, old
    <3> QED BY Zenon, <2>2, <3>1 DEF ret, IsConcat
  <2>8. cnt \in [Block -> Int] /\ bad \in BOOLEAN
    BY ONLY <1>0
  <2> HIDE DEF q, cnt, bad
  <2>9. /\ m \in KVState
        /\ m.free = rest /\ m.ref_cnt = cnt
        /\ m.cached = q.cached /\ m.block_hash = q.block_hash
        /\ m.req_to_blocks = [k.req_to_blocks EXCEPT ![r] = table]
    BY <1>0, <2>2, <2>5, <2>7, <2>8, Zenon DEF KVState
  <2>10. /\ m.req_to_blocks[r] = table
         /\ \A p \in Req \ {r} : m.req_to_blocks[p] = k.req_to_blocks[p]
    BY Zenon, <1>0, <2>9 DEF KVState
  <2> HIDE DEF m, table, old
  <2>11. CacheMapExact(m)
    BY ONLY <2>5, <2>9 DEF CacheMapExact
  <2>12. FreeQueueExact(m)
    <3>1. ASSUME NEW b \in Block \ {NullBlock}
          PROVE  b \in Range(rest) <=> cnt[b] = 0
      <4>1. b \in Range(k.free) <=> k.ref_cnt[b] = 0
        BY Zenon DEF Sound, FreeQueueExact
      <4>2. k.ref_cnt[b] = Cardinality(Users(k, b)) BY Zenon DEF Sound, RefCountsExact
      <4>3. k.ref_cnt[b] \in Nat BY Zenon, <4>2, UsersFinite
      <4>4. cnt[b] = k.ref_cnt[b] + (IF b \in ret THEN 1 ELSE 0) BY Zenon DEF cnt
      <4> QED BY ONLY <2>2, <4>1, <4>3, <4>4
    <3>2. Range(rest) \subseteq Block \ {NullBlock}
      BY Zenon, <2>2 DEF Sound, FreeQueueExact
    <3> QED BY Zenon, <2>2, <2>9, <3>1, <3>2 DEF FreeQueueExact
  <2>13. OneTableStep(k, m, r)
    <3>1. ASSUME NEW b \in Block \ {NullBlock}
          PROVE  m.ref_cnt[b] = k.ref_cnt[b] + Uses(m, r, b) - Uses(k, r, b)
      <4>1. m.ref_cnt[b] = k.ref_cnt[b] + (IF b \in ret THEN 1 ELSE 0)
        BY Zenon, <2>9 DEF cnt
      <4>2. k.ref_cnt[b] \in Int BY Zenon, <1>0
      <4>3. b \in Range(m.req_to_blocks[r])
               <=> b \in Range(k.req_to_blocks[r]) \/ b \in ret
        BY Zenon, <2>7, <2>10 DEF old
      <4>4. ~ (b \in ret /\ b \in Range(k.req_to_blocks[r])) BY Zenon, <2>4
      <4> QED BY ONLY <4>1, <4>2, <4>3, <4>4 DEF Uses
    <3>2. ASSUME NEW p \in Req, NEW i \in DOMAIN k.req_to_blocks[p],
                 k.req_to_blocks[p][i] # NullBlock
          PROVE  m.block_hash[k.req_to_blocks[p][i]] = k.block_hash[k.req_to_blocks[p][i]]
      <4>1. k.req_to_blocks[p][i] \in Block /\ k.req_to_blocks[p][i] \notin ret
        BY Zenon, <1>0, <2>4, TableEntry
      <4> QED BY Zenon, <2>5, <2>9, <3>2, <4>1
    <3>3. ASSUME NEW i \in DOMAIN table, NEW j \in DOMAIN table,
                 table[i] = table[j], table[i] # NullBlock
          PROVE  i = j
      <4>1. CASE i \in 1..Len(old) /\ j \in 1..Len(old)
        <5>1. old[i] = old[j] /\ old[i] # NullBlock BY Zenon, <2>7, <3>3, <4>1
        <5> QED BY Zenon, <2>6, <4>1, <5>1 DEF Sound, RefCountsExact, old
      <4>2. CASE i \notin 1..Len(old) /\ j \notin 1..Len(old)
        <5>1. PICK x \in 1..n : i = Len(old) + x BY <2>7, <4>2, Zenon
        <5>2. PICK y \in 1..n : j = Len(old) + y BY <2>7, <4>2, Zenon
        <5>3. new[x] = new[y] BY Zenon, <2>7, <3>3, <5>1, <5>2
        <5> QED BY Zenon, <2>2, <2>3, <5>1, <5>2, <5>3 DEF IsInjective
      <4>3. ASSUME NEW x \in 1..Len(old), NEW y \in DOMAIN table,
                   y \notin 1..Len(old), table[x] = table[y]
            PROVE  FALSE
        <5>1. PICK z \in 1..n : y = Len(old) + z BY <2>7, <4>3, Zenon
        <5>2. table[y] \in ret BY <2>3, <2>7, <5>1, Zenon
        <5>3. table[x] \in Range(old) BY Zenon, <2>6, <2>7
        <5> QED BY Zenon, <2>4, <4>3, <5>2, <5>3 DEF old
      <4> QED BY Zenon, <3>3, <4>1, <4>2, <4>3
    <3>4. EnableCaching \/ \A b \in Block : m.block_hash[b] = NoHash
      BY Zenon, <2>5, <2>9
    <3> QED BY ONLY <2>9, <2>10, <3>1, <3>2, <3>3, <3>4 DEF OneTableStep
  <2>14. EntriesPlaced(k, m, r)
    <3> SUFFICES ASSUME NEW i \in DOMAIN table, table[i] # NullBlock
                 PROVE  /\ \/ m.block_hash[table[i]] = NoHash
                           \/ /\ i * BlockSize <= Len(TokenStream[r])
                              /\ m.block_hash[table[i]] = BlockHash(r, i)
                        /\ \A p \in Req \ {r} : \A j \in DOMAIN k.req_to_blocks[p] :
                             table[i] = k.req_to_blocks[p][j] =>
                               /\ i = j
                               /\ i * BlockSize <= Lesser(Len(TokenStream[r]),
                                                          Len(TokenStream[p]))
                               /\ BlockHash(r, i) = BlockHash(p, i)
      BY Zenon, <2>10 DEF EntriesPlaced
    <3>3. CASE i \in 1..Len(old)
      <4>1. i \in DOMAIN old /\ table[i] = old[i] /\ old[i] \in Block \ {NullBlock}
        BY Zenon, <2>6, <2>7, <3>3
      <4>2. m.block_hash[old[i]] \in {NoHash, k.block_hash[old[i]]}
        BY Zenon, <2>5, <2>9, <4>1
      <4>3. \/ k.block_hash[old[i]] = NoHash
            \/ (/\ i * BlockSize <= Len(TokenStream[r])
                /\ k.block_hash[old[i]] = BlockHash(r, i))
        BY Zenon, <4>1 DEF Sound, TablesOwnHash, old
      <4>4. \A p \in Req \ {r} : \A j \in DOMAIN k.req_to_blocks[p] :
              old[i] = k.req_to_blocks[p][j] =>
                /\ i = j
                /\ i * BlockSize <= Lesser(Len(TokenStream[r]), Len(TokenStream[p]))
                /\ BlockHash(r, i) = BlockHash(p, i)
        BY Zenon, <4>1 DEF Sound, SharedBlocksAgree, old
      <4> QED BY Zenon, <4>1, <4>2, <4>3, <4>4
    <3>4. CASE i \notin 1..Len(old)
      <4>1. PICK x \in 1..n : i = Len(old) + x BY <2>7, <3>4, Zenon
      <4>2. table[i] \in ret BY <2>3, <2>7, <4>1, Zenon
      <4>3. m.block_hash[table[i]] = NoHash
        BY Zenon, <2>4, <2>5, <2>9, <4>2
      <4>4. \A p \in Req : \A j \in DOMAIN k.req_to_blocks[p] :
               table[i] # k.req_to_blocks[p][j]
        BY Zenon, <1>0, <2>4, <4>2, TableEntry
      <4> QED BY Zenon, <4>3, <4>4
    <3> QED BY Zenon, <3>3, <3>4
  <2>15. Sound(m)
    BY Zenon, <2>11, <2>12, <2>13, <2>14, TableStepSound
  <2> QED BY Zenon, <2>1, <2>15
<1> QED BY Zenon, <1>1, <1>2

\* The counts and the queue after free_blocks.
Left(k, gone) ==
    [b \in Block |-> k.ref_cnt[b] - (IF b = NullBlock THEN 0 ELSE Count(gone, b))]
Queue(k, gone) ==
    k.free \o Without(gone, {b \in Block : b = NullBlock \/ Left(k, gone)[b] # 0})

\* A request lets go of some blocks of its table: the list gone names each of
\* them once, nulls aside, and what the table keeps stays in place.
Release(k, m, r, gone) ==
    /\ m \in KVState
    /\ gone \in Seq(Block)
    /\ m.ref_cnt = Left(k, gone) /\ m.free = Queue(k, gone)
    /\ m.cached = k.cached /\ m.block_hash = k.block_hash
    /\ \A q \in Req \ {r} : m.req_to_blocks[q] = k.req_to_blocks[q]
    /\ DistinctOutside(gone, {NullBlock})
    /\ Range(gone) \ {NullBlock} \subseteq Range(k.req_to_blocks[r])
    /\ \A i \in DOMAIN m.req_to_blocks[r] :
          \/ m.req_to_blocks[r][i] = NullBlock
          \/ /\ i \in DOMAIN k.req_to_blocks[r]
             /\ m.req_to_blocks[r][i] = k.req_to_blocks[r][i]
    /\ Range(m.req_to_blocks[r]) \ {NullBlock}
          = Range(k.req_to_blocks[r]) \ (Range(gone) \union {NullBlock})

\* Releasing blocks is sound: those nobody else holds join the queue.
LEMMA ReleaseSound ==
  ASSUME Facts, NEW k, Sound(k), NEW m, NEW r \in Req, NEW gone, Release(k, m, r, gone)
  PROVE  Sound(m)
<1>0. /\ k \in KVState /\ m \in KVState /\ gone \in Seq(Block)
      /\ k.free \in Seq(Block) /\ IsInjective(k.free)
      /\ k.ref_cnt \in [Block -> Int]
      /\ \A b \in Block \ {NullBlock} : b \in Range(k.free) <=> k.ref_cnt[b] = 0
      /\ Range(k.free) \subseteq Block \ {NullBlock}
  BY Zenon DEF Sound, Release, KVState, FreeQueueExact
<1>1. ASSUME NEW b \in Block \ {NullBlock}
      PROVE  /\ k.ref_cnt[b] \in Nat
             /\ b \in Range(gone) => k.ref_cnt[b] > 0
             /\ m.ref_cnt[b] = k.ref_cnt[b] - (IF b \in Range(gone) THEN 1 ELSE 0)
  <2>1. k.ref_cnt[b] = Cardinality(Users(k, b)) BY Zenon DEF Sound, RefCountsExact
  <2>2. k.ref_cnt[b] \in Nat BY Zenon, <2>1, UsersFinite
  <2>3. ASSUME b \in Range(gone) PROVE k.ref_cnt[b] > 0
    <3>1. b \in Range(k.req_to_blocks[r]) BY Zenon, <2>3 DEF Release
    <3>2. Users(k, b) # {} BY Zenon, <3>1 DEF Users
    <3>3. Cardinality(Users(k, b)) # 0 BY Zenon, <3>2, UsersFinite DEF Facts, FiniteEmpty
    <3> QED BY ONLY <2>1, <2>2, <3>3
  <2>4. Count(gone, b) = IF b \in Range(gone) THEN 1 ELSE 0
    <3>1. \A i, j \in DOMAIN gone : gone[i] = b /\ gone[j] = b => i = j
      BY Zenon DEF Release, DistinctOutside
    <3> QED BY Zenon, <1>0, <3>1, CountDistinct
  <2>5. m.ref_cnt[b] = k.ref_cnt[b] - Count(gone, b) BY Zenon DEF Release, Left
  <2> QED BY Zenon, <2>2, <2>3, <2>4, <2>5
<1>2. FreeQueueExact(m)
  <2> DEFINE S == {b \in Block : b = NullBlock \/ Left(k, gone)[b] # 0}
             back == Without(gone, S)
  <2>1. m.free = k.free \o back /\ m.ref_cnt = Left(k, gone) BY Zenon DEF Release, Queue
  <2>2. DistinctOutside(gone, S)
    BY Zenon, PoolAssumption DEF Release, DistinctOutside
  <2>3. /\ back \in Seq(Block) /\ Range(back) = Range(gone) \ S /\ IsInjective(back)
    <3> HIDE DEF S
    <3> QED BY Zenon, <1>0, <2>2 DEF Facts, WithoutProperties
  <2>4. Range(gone) \subseteq Block BY ONLY <1>0 DEF Range, Facts, ElementOfSeq, LenProperties
  <2>5. \A b \in Block : b \in S <=> b = NullBlock \/ m.ref_cnt[b] # 0
    BY Zenon, <2>1
  <2> HIDE DEF S, back
  <2>6. IsConcat(m.free, k.free, back) BY <1>0, <2>1, <2>3 DEF Facts, ConcatEntries
  <2>7. Range(m.free) = Range(k.free) \union (Range(gone) \ S)
    BY Zenon, <2>3, <2>6 DEF IsConcat
  <2>8. ASSUME NEW b \in Block \ {NullBlock}
        PROVE  b \in Range(m.free) <=> m.ref_cnt[b] = 0
    BY ONLY <1>0, <1>1, <2>5, <2>7
  <2>9. Range(k.free) \intersect Range(back) = {}
    BY ONLY <1>0, <1>1, <2>3, <2>4
  <2>10. IsInjective(m.free)
    <3> SUFFICES ASSUME NEW i \in DOMAIN m.free, NEW j \in DOMAIN m.free,
                        m.free[i] = m.free[j]
                 PROVE  i = j
      BY Zenon DEF IsInjective
    <3>1. /\ DOMAIN k.free = 1..Len(k.free) /\ DOMAIN back = 1..Len(back)
          /\ \A x \in 1..Len(k.free) : k.free[x] \in Range(k.free)
          /\ \A x \in 1..Len(back) : back[x] \in Range(back)
      BY ONLY <1>0, <2>3 DEF Range, Facts, LenProperties
    <3>2. CASE i \in 1..Len(k.free) /\ j \in 1..Len(k.free)
      <4>1. k.free[i] = k.free[j] BY Zenon, <2>6, <3>2 DEF IsConcat
      <4> QED BY Zenon, <1>0, <3>1, <3>2, <4>1 DEF IsInjective
    <3>3. CASE i \notin 1..Len(k.free) /\ j \notin 1..Len(k.free)
      <4>1. PICK x \in 1..Len(back) : i = Len(k.free) + x BY Zenon, <2>6, <3>3 DEF IsConcat
      <4>2. PICK y \in 1..Len(back) : j = Len(k.free) + y BY Zenon, <2>6, <3>3 DEF IsConcat
      <4>3. back[x] = back[y] BY Zenon, <2>6, <4>1, <4>2 DEF IsConcat
      <4> QED BY <2>3, <3>1, <4>1, <4>2, <4>3, Zenon DEF IsInjective
    <3>4. ASSUME NEW x \in 1..Len(k.free), NEW y \in DOMAIN m.free,
                 y \notin 1..Len(k.free), m.free[x] = m.free[y]
          PROVE  FALSE
      <4>1. PICK z \in 1..Len(back) : y = Len(k.free) + z BY Zenon, <2>6, <3>4 DEF IsConcat
      <4>2. m.free[y] \in Range(back) BY Zenon, <2>6, <3>1, <4>1 DEF IsConcat
      <4>3. m.free[x] \in Range(k.free) BY Zenon, <2>6, <3>1 DEF IsConcat
      <4> QED BY Zenon, <2>9, <3>4, <4>2, <4>3
    <3> QED BY Zenon, <3>2, <3>3, <3>4
  <2>11. Range(m.free) \subseteq Block \ {NullBlock}
    BY Zenon, <1>0, <2>4, <2>5, <2>7
  <2> QED BY Zenon, <2>8, <2>10, <2>11 DEF FreeQueueExact
<1>3. CacheMapExact(m)
  <2>1. CacheMapExact(k) BY Zenon DEF Sound
  <2>2. m.block_hash = k.block_hash /\ m.cached = k.cached BY Zenon DEF Release
  <2> QED BY Zenon, <2>1, <2>2 DEF CacheMapExact
<1>4. OneTableStep(k, m, r)
  <2>1. ASSUME NEW b \in Block \ {NullBlock}
        PROVE  m.ref_cnt[b] = k.ref_cnt[b] + Uses(m, r, b) - Uses(k, r, b)
    <3>1. b \in Range(m.req_to_blocks[r])
             <=> b \in Range(k.req_to_blocks[r]) /\ b \notin Range(gone)
      BY Zenon DEF Release
    <3>2. b \in Range(gone) => b \in Range(k.req_to_blocks[r])
      BY Zenon DEF Release
    <3> QED BY ONLY <1>1, <3>1, <3>2 DEF Uses
  <2>2. ASSUME NEW i \in DOMAIN m.req_to_blocks[r], NEW j \in DOMAIN m.req_to_blocks[r],
               m.req_to_blocks[r][i] = m.req_to_blocks[r][j],
               m.req_to_blocks[r][i] # NullBlock
        PROVE  i = j
    <3>1. /\ i \in DOMAIN k.req_to_blocks[r] /\ j \in DOMAIN k.req_to_blocks[r]
          /\ k.req_to_blocks[r][i] = k.req_to_blocks[r][j]
          /\ k.req_to_blocks[r][i] # NullBlock
      BY Zenon, <2>2 DEF Release
    <3> QED BY Zenon, <3>1 DEF Sound, RefCountsExact
  <2>3. EnableCaching \/ \A b \in Block : m.block_hash[b] = NoHash
    BY Zenon DEF Release, Sound
  <2>4. /\ m.block_hash = k.block_hash
        /\ \A q \in Req \ {r} : m.req_to_blocks[q] = k.req_to_blocks[q]
    BY Zenon DEF Release
  <2> QED BY Zenon, <1>0, <2>1, <2>2, <2>3, <2>4 DEF OneTableStep
<1>5. EntriesPlaced(k, m, r)
  <2> SUFFICES ASSUME NEW i \in DOMAIN m.req_to_blocks[r],
                      m.req_to_blocks[r][i] # NullBlock
               PROVE  LET b == m.req_to_blocks[r][i]
                      IN  /\ \/ m.block_hash[b] = NoHash
                             \/ /\ i * BlockSize <= Len(TokenStream[r])
                                /\ m.block_hash[b] = BlockHash(r, i)
                          /\ \A p \in Req \ {r} : \A j \in DOMAIN k.req_to_blocks[p] :
                               b = k.req_to_blocks[p][j] =>
                                 /\ i = j
                                 /\ i * BlockSize <= Lesser(Len(TokenStream[r]),
                                                            Len(TokenStream[p]))
                                 /\ BlockHash(r, i) = BlockHash(p, i)
    BY Zenon DEF EntriesPlaced
  <2>1. /\ i \in DOMAIN k.req_to_blocks[r]
        /\ m.req_to_blocks[r][i] = k.req_to_blocks[r][i]
        /\ m.block_hash = k.block_hash
    BY Zenon DEF Release
  <2>2. \/ k.block_hash[k.req_to_blocks[r][i]] = NoHash
        \/ /\ i * BlockSize <= Len(TokenStream[r])
           /\ k.block_hash[k.req_to_blocks[r][i]] = BlockHash(r, i)
    BY Zenon, <2>1 DEF Sound, TablesOwnHash
  <2>3. \A p \in Req \ {r} : \A j \in DOMAIN k.req_to_blocks[p] :
          k.req_to_blocks[r][i] = k.req_to_blocks[p][j] =>
            /\ i = j
            /\ i * BlockSize <= Lesser(Len(TokenStream[r]), Len(TokenStream[p]))
            /\ BlockHash(r, i) = BlockHash(p, i)
    <3>1. SharedBlocksAgree(k) BY Zenon DEF Sound
    <3> QED BY <2>1, <3>1 DEF SharedBlocksAgree
  <2> QED BY Zenon, <2>1, <2>2, <2>3
<1> QED BY Zenon, <1>2, <1>3, <1>4, <1>5, TableStepSound

\* A bounded non-empty set of naturals has a greatest element.
LEMMA MaxProperties ==
  ASSUME Facts, NEW n \in Nat, NEW S \in SUBSET (0..n), S # {}
  PROVE  Max(S) \in S /\ \A x \in S : x <= Max(S)
<1> DEFINE T == {y \in 0..n : n - y \in S}
<1>1. T \in SUBSET Nat /\ T # {}
  <2>1. PICK x \in S : TRUE BY Zenon
  <2>2. n - x \in 0..n /\ n - (n - x) = x OBVIOUS
  <2>3. n - x \in T BY Zenon, <2>1, <2>2
  <2>4. T \in SUBSET Nat OBVIOUS
  <2> HIDE DEF T
  <2> QED BY Zenon, <2>3, <2>4
<1>2. PICK y \in T : \A z \in T : y <= z
  <2> HIDE DEF T
  <2> QED BY Zenon, <1>1 DEF Facts, Least
<1>3. n - y \in S BY Zenon, <1>2
<1>4. ASSUME NEW z \in S PROVE n - y >= z
  <2>1. n - z \in 0..n /\ n - (n - z) = z OBVIOUS
  <2>2. n - z \in T BY Zenon, <2>1
  <2>3. y <= n - z /\ y \in 0..n BY Zenon, <1>2, <2>2
  <2> QED BY ONLY <2>1, <2>3
<1>5. Max(S) \in S /\ \A z \in S : Max(S) >= z BY <1>3, <1>4, Zenon DEF Max
<1> QED BY Zenon, <1>5

\* What free_blocks returns is a queue and counts, whatever list it gets.
LEMMA FreeBlocksType ==
  ASSUME Facts, NEW k \in KVState, NEW gone \in Seq(Block)
  PROVE  /\ Left(k, gone) \in [Block -> Int]
         /\ Queue(k, gone) \in Seq(Block)
<1>1. \A b \in Block : Count(gone, b) \in Int
  <2> SUFFICES ASSUME NEW b \in Block PROVE Count(gone, b) \in Int BY Zenon
  <2>1. Len(gone) \in Nat /\ DOMAIN gone = 1..Len(gone) BY Zenon DEF Facts, LenProperties
  <2>2. IsFiniteSet(1..Len(gone)) BY <2>1 DEF Facts, FiniteInterval
  <2>3. {i \in DOMAIN gone : gone[i] = b} \subseteq 1..Len(gone) BY Zenon, <2>1
  <2> QED BY <2>2, <2>3 DEF Count, Facts, FiniteSubset, FiniteCardinality
<1>2. Left(k, gone) \in [Block -> Int] BY ONLY <1>1 DEF Left, KVState
<1>3. Queue(k, gone) \in Seq(Block)
  <2> DEFINE S == {b \in Block : b = NullBlock \/ Left(k, gone)[b] # 0}
  <2>1. Without(gone, S) \in Seq(Block) BY Zenon DEF Facts, WithoutProperties
  <2>2. k.free \in Seq(Block) BY Zenon DEF KVState
  <2> QED BY Zenon, <2>1, <2>2 DEF Queue, Facts, ConcatProperties
<1> QED BY Zenon, <1>2, <1>3

\* free keeps the state sound.
LEMMA FreeSound ==
  ASSUME Facts, NEW k, Sound(k), NEW r \in Req
  PROVE  /\ Sound(Free(k, r))
         /\ Free(k, r).req_to_blocks = [k.req_to_blocks EXCEPT ![r] = << >>]
<1> DEFINE table == k.req_to_blocks[r]
           gone  == [i \in 1..Len(table) |-> table[Len(table) + 1 - i]]
           m     == Free(k, r)
<1>0. /\ k \in KVState
      /\ table \in Seq(Block) /\ Len(table) \in Nat /\ DOMAIN table = 1..Len(table)
      /\ \A i \in DOMAIN table : table[i] \in Block
  BY Zenon, TableEntry DEF Sound
<1>1. \A i \in 1..Len(table) : Len(table) + 1 - i \in 1..Len(table)
  BY ONLY <1>0
<1>2. gone \in Seq(Block) /\ DOMAIN gone = 1..Len(table)
  <2> HIDE DEF table
  <2> QED BY ONLY <1>0, <1>1
<1>3. Range(gone) = Range(table)
  <2>1. ASSUME NEW b \in Range(table) PROVE b \in Range(gone)
    <3>1. PICK i \in 1..Len(table) : b = table[i] BY Zenon, <1>0 DEF Range
    <3>2. /\ Len(table) + 1 - i \in 1..Len(table)
          /\ Len(table) + 1 - (Len(table) + 1 - i) = i
      BY ONLY <1>0
    <3>3. gone[Len(table) + 1 - i] = b BY Zenon, <3>1, <3>2
    <3> QED BY <1>2, <3>2, <3>3, Zenon DEF Range
  <2> QED BY <1>0, <1>1, <1>2, <2>1, Zenon DEF Range
<1>4. DistinctOutside(gone, {NullBlock})
  <2> SUFFICES ASSUME NEW i \in 1..Len(table), NEW j \in 1..Len(table),
                      gone[i] = gone[j], gone[i] # NullBlock
               PROVE  i = j
    BY <1>2, Zenon DEF DistinctOutside
  <2>1. Len(table) + 1 - i = Len(table) + 1 - j
    BY <1>0, <1>1, Zenon DEF Sound, RefCountsExact
  <2> QED BY ONLY <1>0, <2>1
<1>5. /\ Left(k, gone) \in [Block -> Int]
      /\ Queue(k, gone) \in Seq(Block)
  BY <1>0, <1>2, FreeBlocksType, Zenon
<1> DEFINE tables == [k.req_to_blocks EXCEPT ![r] = << >>]
           counts == [k.num_cached_block EXCEPT ![r] = -1]
<1>6. m = [[k EXCEPT !.ref_cnt = Left(k, gone), !.free = Queue(k, gone)]
             EXCEPT !.req_to_blocks = tables, !.num_cached_block = counts]
  BY Zenon DEF Free, FreeBlocks, Left, Queue
<1>61. tables \in [Req -> Seq(Block)] /\ counts \in [Req -> Int]
  BY ONLY <1>0 DEF KVState, Facts, EmptySeq
<1> HIDE DEF gone, m, tables, counts
<1>7. /\ m \in KVState
      /\ m.ref_cnt = Left(k, gone) /\ m.free = Queue(k, gone)
      /\ m.cached = k.cached /\ m.block_hash = k.block_hash
      /\ m.req_to_blocks = tables
  BY <1>0, <1>5, <1>6, <1>61, Zenon DEF KVState
<1>8. /\ m.req_to_blocks[r] = << >>
      /\ \A q \in Req \ {r} : m.req_to_blocks[q] = k.req_to_blocks[q]
  BY Zenon, <1>0, <1>7 DEF KVState, tables
<1>9. Release(k, m, r, gone)
  <2>1. DOMAIN m.req_to_blocks[r] = {} /\ Range(m.req_to_blocks[r]) = {}
    BY ONLY <1>8 DEF Range
  <2> HIDE DEF table
  <2> QED BY Zenon, <1>2, <1>3, <1>4, <1>7, <1>8, <2>1 DEF Release, table
<1>10. Sound(m) BY Zenon, <1>9, ReleaseSound
<1> QED BY Zenon, <1>7, <1>10 DEF m, tables

\* The number of skipped blocks is a natural number.
LEMMA SkippedType ==
  ASSUME NEW n \in Int
  PROVE  /\ NumSkippedTokens(n) \in Nat
         /\ NumSkippedTokens(n) \div BlockSize \in Nat
<1>1. NumSkippedTokens(n) \in Nat
  BY ONLY ManagerAssumption DEF NumSkippedTokens, Greater
<1> QED BY ONLY <1>1, ManagerAssumption

\* remove_skipped_blocks keeps the state sound.
LEMMA RemoveSkippedSound ==
  ASSUME Facts, NEW k, Sound(k), NEW r \in Req, NEW n \in Nat
  PROVE  Sound(RemoveSkippedBlocks(k, r, n))
<1> DEFINE table == k.req_to_blocks[r]
           last  == Lesser(NumSkippedTokens(n) \div BlockSize, Len(table))
           nulls == {0} \union {i \in 1..last : table[i] = NullBlock}
           done  == Max(nulls)
           gone  == [j \in 1..(last - done) |-> table[last + 1 - j]]
           next  == [i \in 1..Len(table) |->
                       IF i \in (done + 1)..last THEN NullBlock ELSE table[i]]
           m     == RemoveSkippedBlocks(k, r, n)
<1>0. /\ k \in KVState
      /\ table \in Seq(Block) /\ Len(table) \in Nat /\ DOMAIN table = 1..Len(table)
      /\ \A i \in DOMAIN table : table[i] \in Block
  BY Zenon, TableEntry DEF Sound
<1>1. last \in 0..Len(table)
  <2> DEFINE d == NumSkippedTokens(n) \div BlockSize
  <2>1. d \in Nat BY ONLY SkippedType
  <2> HIDE DEF d, table
  <2>2. Lesser(d, Len(table)) \in 0..Len(table) BY ONLY <1>0, <2>1 DEF Lesser
  <2> QED BY Zenon, <2>2 DEF d, table
<1> HIDE DEF last
<1>2. /\ done \in 0..last
      /\ \A i \in (done + 1)..last : table[i] # NullBlock
  <2>1. nulls \in SUBSET (0..last) /\ nulls # {} /\ last \in Nat BY ONLY <1>0, <1>1
  <2> HIDE DEF nulls
  <2>2. done \in nulls /\ \A i \in nulls : i <= done BY Zenon, <2>1, MaxProperties
  <2> HIDE DEF done
  <2>3. ASSUME NEW i \in (done + 1)..last, table[i] = NullBlock PROVE FALSE
    <3>1. done \in 0..last BY Zenon, <2>1, <2>2
    <3>2. i \in 1..last /\ ~ (i <= done) BY ONLY <2>1, <2>3, <3>1
    <3>3. i \in nulls BY Zenon, <2>3, <3>2 DEF nulls
    <3> QED BY Zenon, <2>2, <3>2, <3>3
  <2> QED BY Zenon, <2>1, <2>2, <2>3
<1> HIDE DEF done
<1>3. ASSUME NEW j \in 1..(last - done)
      PROVE  last + 1 - j \in (done + 1)..last /\ last + 1 - j \in 1..Len(table)
  BY ONLY <1>0, <1>1, <1>2
<1>4. gone \in Seq(Block) /\ DOMAIN gone = 1..(last - done)
  <2>1. last - done \in Nat BY ONLY <1>0, <1>1, <1>2
  <2>2. \A j \in 1..(last - done) : table[last + 1 - j] \in Block BY Zenon, <1>0, <1>3
  <2> HIDE DEF table
  <2> QED BY ONLY <2>1, <2>2
<1>5. next \in Seq(Block) /\ DOMAIN next = 1..Len(table)
  <2>1. \A i \in 1..Len(table) :
           (IF i \in (done + 1)..last THEN NullBlock ELSE table[i]) \in Block
    BY Zenon, <1>0, PoolAssumption
  <2> HIDE DEF table
  <2> QED BY ONLY <1>0, <2>1
<1>6. Range(gone) = {table[i] : i \in (done + 1)..last}
  <2>1. ASSUME NEW i \in (done + 1)..last PROVE table[i] \in Range(gone)
    <3>1. /\ last + 1 - i \in 1..(last - done)
          /\ last + 1 - (last + 1 - i) = i
      BY ONLY <1>0, <1>1, <1>2
    <3>2. gone[last + 1 - i] = table[i] BY Zenon, <3>1
    <3> QED BY Zenon, <1>4, <3>1, <3>2 DEF Range
  <2>2. \A b \in Range(gone) : \E i \in (done + 1)..last : b = table[i]
    BY Zenon, <1>3, <1>4 DEF Range
  <2> QED BY Zenon, <2>1, <2>2
<1>7. \A i, j \in 1..Len(table) : table[i] = table[j] /\ table[i] # NullBlock => i = j
  BY Zenon, <1>0 DEF Sound, RefCountsExact
<1>8. DistinctOutside(gone, {NullBlock})
  <2> SUFFICES ASSUME NEW i \in 1..(last - done), NEW j \in 1..(last - done),
                      gone[i] = gone[j], gone[i] # NullBlock
               PROVE  i = j
    BY Zenon, <1>4 DEF DistinctOutside
  <2>1. last + 1 - i = last + 1 - j BY Zenon, <1>3, <1>7
  <2> QED BY ONLY <1>0, <1>1, <2>1
<1>9. m = [[k EXCEPT !.ref_cnt = Left(k, gone), !.free = Queue(k, gone)]
             EXCEPT !.req_to_blocks = [k.req_to_blocks EXCEPT ![r] = next]]
  BY Zenon DEF RemoveSkippedBlocks, FreeBlocks, Left, Queue, last, done
<1>10. (done + 1)..last \subseteq 1..Len(table) BY ONLY <1>0, <1>1, <1>2
<1>11. /\ \A i \in 1..Len(table) :
             next[i] = IF i \in (done + 1)..last THEN NullBlock ELSE table[i]
  BY Zenon
<1>12. Left(k, gone) \in [Block -> Int] /\ Queue(k, gone) \in Seq(Block)
  BY <1>0, <1>4, FreeBlocksType, Zenon
<1> HIDE DEF gone, m, next
<1>13. /\ m \in KVState
       /\ m.ref_cnt = Left(k, gone) /\ m.free = Queue(k, gone)
       /\ m.cached = k.cached /\ m.block_hash = k.block_hash
       /\ m.req_to_blocks = [k.req_to_blocks EXCEPT ![r] = next]
  BY <1>0, <1>5, <1>9, <1>12, Zenon DEF KVState
<1>14. /\ m.req_to_blocks[r] = next
       /\ \A q \in Req \ {r} : m.req_to_blocks[q] = k.req_to_blocks[q]
  BY Zenon, <1>0, <1>13 DEF KVState
<1>15. Range(next) \ {NullBlock} = Range(table) \ (Range(gone) \union {NullBlock})
  <2>1. ASSUME NEW b \in Range(next), b # NullBlock
        PROVE  b \in Range(table) /\ b \notin Range(gone)
    <3>1. PICK i \in 1..Len(table) : b = next[i] BY Zenon, <1>5 DEF Range
    <3>2. i \notin (done + 1)..last /\ b = table[i] BY Zenon, <1>11, <2>1, <3>1
    <3>3. ASSUME NEW j \in (done + 1)..last, b = table[j] PROVE FALSE
      BY <1>7, <1>10, <2>1, <3>2, <3>3, Zenon
    <3> QED BY <1>0, <1>6, <3>2, <3>3, Zenon DEF Range
  <2>2. ASSUME NEW b \in Range(table), b \notin Range(gone)
        PROVE  b \in Range(next)
    <3>1. PICK i \in 1..Len(table) : b = table[i] BY Zenon, <1>0 DEF Range
    <3>2. i \notin (done + 1)..last BY Zenon, <1>6, <2>2, <3>1
    <3> QED BY Zenon, <1>5, <1>11, <3>1, <3>2 DEF Range
  <2> QED BY Zenon, <2>1, <2>2
<1>16. Release(k, m, r, gone)
  <2>1. Range(gone) \subseteq Range(table) BY Zenon, <1>0, <1>6, <1>10 DEF Range
  <2>2. \A i \in DOMAIN next : \/ next[i] = NullBlock
                               \/ i \in DOMAIN table /\ next[i] = table[i]
    BY Zenon, <1>0, <1>5, <1>11
  <2> HIDE DEF table
  <2> QED BY Zenon, <1>4, <1>8, <1>13, <1>14, <1>15, <2>1, <2>2 DEF Release, table
<1>17. Sound(m) BY Zenon, <1>16, ReleaseSound
<1> QED BY Zenon, <1>17 DEF m

-----------------------------------------------------------------------------
(* Prefix-cache hits and allocation *)

\* The quotient and the remainder of \div.
LEMMA DivBounds ==
  ASSUME NEW a \in Nat, NEW d \in Nat \ {0}
  PROVE  /\ a \div d \in Nat
         /\ (a \div d) * d <= a
         /\ a < (a \div d) * d + d
OBVIOUS

\* \div gives the greatest such quotient ...
LEMMA DivGreatest ==
  ASSUME NEW a \in Nat, NEW d \in Nat \ {0}, NEW i \in Nat, i * d <= a
  PROVE  i <= a \div d
<1> DEFINE q == a \div d
<1>1. q \in Nat /\ a < q * d + d BY Zenon, DivBounds
<1> HIDE DEF q
<1>2. ASSUME i > q PROVE FALSE
  <2>1. i >= q + 1 BY ONLY <1>1, <1>2
  <2>2. i * d >= (q + 1) * d BY ONLY <1>1, <2>1
  <2>3. (q + 1) * d = q * d + d BY ONLY <1>1
  <2> QED BY <1>1, <2>2, <2>3
<1> QED BY ONLY <1>1, <1>2 DEF q

\* ... so it is monotone.
LEMMA DivMonotone ==
  ASSUME NEW a \in Nat, NEW b \in Nat, NEW d \in Nat \ {0}, a <= b
  PROVE  a \div d <= b \div d
<1> DEFINE q == a \div d
<1>1. q \in Nat /\ q * d <= a BY Zenon, DivBounds
<1> HIDE DEF q
<1>2. q * d \in Nat BY ONLY <1>1
<1>3. q * d <= b BY <1>1, <1>2
<1> QED BY Zenon, <1>1, <1>3, DivGreatest DEF q

\* Multiplication is monotone.
LEMMA MulMonotone ==
  ASSUME NEW a \in Nat, NEW b \in Nat, NEW d \in Nat, a <= b
  PROVE  a * d <= b * d
OBVIOUS

\* A block hash covers whole blocks: its length tells the place.
LEMMA BlockHashLength ==
  ASSUME Facts, NEW r \in Req, NEW i \in Nat, i * BlockSize <= Len(TokenStream[r])
  PROVE  Len(BlockHash(r, i)) = i * BlockSize
<1> DEFINE s == TokenStream[r]  n == i * BlockSize
<1>1. s \in Seq(Range(s)) /\ Len(s) \in Nat BY ManagerAssumption, Zenon
  DEF Facts, LenProperties
<1>2. n \in Nat BY ONLY ManagerAssumption
<1>3. n <= Len(s) BY Zenon
<1>4. \A x \in 1..n : s[x] \in Range(s)
  BY ONLY <1>1, <1>2, <1>3 DEF Facts, ElementOfSeq, LenProperties
<1>5. BlockHash(r, i) = SubSeq(s, 1, n) BY Zenon DEF BlockHash
<1> HIDE DEF s, n
<1>6. Len(SubSeq(s, 1, n)) = n
  BY ONLY <1>1, <1>2, <1>3, <1>4 DEF Facts, SubSeqProperties
<1> QED BY <1>5, <1>6, Zenon DEF n

\* Equal hashes name the same place.
LEMMA BlockHashPlace ==
  ASSUME Facts, NEW r \in Req, NEW q \in Req, NEW i \in Nat, NEW j \in Nat,
         i * BlockSize <= Len(TokenStream[r]), j * BlockSize <= Len(TokenStream[q]),
         BlockHash(r, i) = BlockHash(q, j)
  PROVE  i = j
<1>1. i * BlockSize = j * BlockSize BY Zenon, BlockHashLength
<1>2. BlockSize \in Nat \ {0} BY Zenon, ManagerAssumption
<1> QED BY ONLY <1>1, <1>2

\* The hash of a full block of a request is one of the hashes.
LEMMA BlockHashType ==
  ASSUME Facts, NEW r \in Req, NEW i \in Nat \ {0}, i * BlockSize <= Len(TokenStream[r])
  PROVE  BlockHash(r, i) \in Hash /\ BlockHash(r, i) # NoHash
<1>1. Len(TokenStream[r]) \in Nat BY Zenon, ManagerAssumption DEF Facts, LenProperties
<1>2. BlockSize \in Nat \ {0} BY Zenon, ManagerAssumption
<1> DEFINE n == Len(TokenStream[r])
<1> HIDE DEF n
<1>3. i \in 1..(n \div BlockSize)
  <2>1. n \in Nat /\ i \in Nat /\ i * BlockSize <= n BY Zenon, <1>1 DEF n
  <2>2. i <= n \div BlockSize BY Zenon, <1>2, <2>1, DivGreatest
  <2>3. n \div BlockSize \in Nat BY Zenon, <1>2, <2>1, DivBounds
  <2> QED BY ONLY <2>2, <2>3
<1>4. BlockHash(r, i) \in Hash BY <1>3, ManagerAssumption, Zenon DEF n
<1> QED BY Zenon, <1>4, PoolAssumption

\* Prefix-cache hits of r: each is null or carries the hash of its place.
HitsOK(k, r, hits) ==
    /\ hits \in Seq(Block)
    /\ \A i \in DOMAIN hits :
          \/ hits[i] = NullBlock
          \/ /\ i * BlockSize <= Len(TokenStream[r])
             /\ k.block_hash[hits[i]] = BlockHash(r, i)

\* The state once the hits kept are touched and the table is in place.
Touched(k, r, kept, table) ==
    [Touch(k, kept) EXCEPT
        !.req_to_blocks = [k.req_to_blocks EXCEPT ![r] = table],
        !.num_cached_block = [k.num_cached_block EXCEPT ![r] = Len(table)]]

\* Hits enter an empty table soundly: a shared block carries one hash, so it
\* is at one place, the same for all who hold it.
LEMMA TouchSound ==
  ASSUME Facts, NEW k, Sound(k), NEW r \in Req, k.req_to_blocks[r] = << >>,
         NEW table, HitsOK(k, r, table),
         NEW kept \in Seq(Block), DistinctOutside(kept, {NullBlock}),
         Range(kept) \ {NullBlock} = Range(table) \ {NullBlock}
  PROVE  Sound(Touched(k, r, kept, table))
<1> DEFINE idle == {b \in Range(kept) \ {NullBlock} : k.ref_cnt[b] = 0}
           cnt  == [b \in Block |->
                      k.ref_cnt[b] + (IF b = NullBlock THEN 0 ELSE Count(kept, b))]
           bad  == k.err \/ ~ (idle \subseteq Range(k.free))
           tables == [k.req_to_blocks EXCEPT ![r] = table]
           counts == [k.num_cached_block EXCEPT ![r] = Len(table)]
           queue  == Without(k.free, idle)
           m == Touched(k, r, kept, table)
<1>0. /\ k \in KVState /\ k.free \in Seq(Block) /\ IsInjective(k.free)
      /\ k.ref_cnt \in [Block -> Int] /\ k.err \in BOOLEAN
      /\ table \in Seq(Block) /\ Len(table) \in Nat /\ DOMAIN table = 1..Len(table)
      /\ Range(table) \subseteq Block
      /\ \A b \in Block \ {NullBlock} : b \in Range(k.free) <=> k.ref_cnt[b] = 0
      /\ Range(k.free) \subseteq Block \ {NullBlock}
  BY DEF Sound, KVState, FreeQueueExact, HitsOK, Range, Facts, LenProperties, ElementOfSeq
<1>1. ASSUME NEW b \in Block \ {NullBlock}
      PROVE  /\ k.ref_cnt[b] \in Nat
             /\ Count(kept, b) = IF b \in Range(table) THEN 1 ELSE 0
  <2>1. k.ref_cnt[b] = Cardinality(Users(k, b)) BY Zenon DEF Sound, RefCountsExact
  <2>2. \A i, j \in DOMAIN kept : kept[i] = b /\ kept[j] = b => i = j
    BY Zenon DEF DistinctOutside
  <2>3. Count(kept, b) = IF b \in Range(kept) THEN 1 ELSE 0 BY Zenon, <2>2, CountDistinct
  <2> QED BY <2>1, <2>3, UsersFinite
<1>2. cnt \in [Block -> Int] BY ONLY <1>0, <1>1
<1>3. queue \in Seq(Block) /\ Range(queue) = Range(k.free) \ idle /\ IsInjective(queue)
  <2> HIDE DEF idle
  <2> QED BY <1>0 DEF Facts, WithoutProperties
<1>4. tables \in [Req -> Seq(Block)] /\ counts \in [Req -> Int]
  BY ONLY <1>0 DEF KVState
<1>5. m = [[k EXCEPT !.free = queue, !.ref_cnt = cnt, !.err = bad]
             EXCEPT !.req_to_blocks = tables, !.num_cached_block = counts]
  BY Zenon DEF Touched, Touch
<1>6. bad \in BOOLEAN BY Zenon, <1>0
<1> HIDE DEF m, tables, counts, queue, cnt, bad
<1>7. /\ m \in KVState /\ m.free = queue /\ m.ref_cnt = cnt
      /\ m.cached = k.cached /\ m.block_hash = k.block_hash
      /\ m.req_to_blocks = tables
  BY <1>0, <1>2, <1>3, <1>4, <1>5, <1>6, Zenon DEF KVState
<1>8. /\ m.req_to_blocks[r] = table
      /\ \A q \in Req \ {r} : m.req_to_blocks[q] = k.req_to_blocks[q]
  BY Zenon, <1>0, <1>7 DEF KVState, tables
<1>9. FreeQueueExact(m)
  <2>1. ASSUME NEW b \in Block \ {NullBlock}
        PROVE  b \in Range(queue) <=> cnt[b] = 0
    <3>1. cnt[b] = k.ref_cnt[b] + (IF b \in Range(table) THEN 1 ELSE 0)
      BY Zenon, <1>1 DEF cnt
    <3>2. b \in idle <=> b \in Range(table) /\ k.ref_cnt[b] = 0 BY Zenon
    <3> HIDE DEF idle
    <3> QED BY ONLY <1>0, <1>1, <1>3, <3>1, <3>2
  <2> HIDE DEF idle
  <2> QED BY Zenon, <1>0, <1>3, <1>7, <2>1 DEF FreeQueueExact
<1>10. CacheMapExact(m) BY <1>7 DEF Sound, CacheMapExact
<1>11. Range(k.req_to_blocks[r]) = {} BY DEF Range
<1>12. OneTableStep(k, m, r)
  <2>1. ASSUME NEW b \in Block \ {NullBlock}
        PROVE  m.ref_cnt[b] = k.ref_cnt[b] + Uses(m, r, b) - Uses(k, r, b)
    <3>1. Uses(k, r, b) = 0 BY Zenon, <1>11 DEF Uses
    <3>2. cnt[b] = k.ref_cnt[b] + (IF b \in Range(table) THEN 1 ELSE 0)
      BY Zenon, <1>1 DEF cnt
    <3> QED BY ONLY <1>1, <1>7, <1>8, <3>1, <3>2 DEF Uses
  <2>2. ASSUME NEW i \in DOMAIN table, NEW j \in DOMAIN table,
               table[i] = table[j], table[i] # NullBlock
        PROVE  i = j
    <3>1. i \in Nat /\ j \in Nat BY ONLY <1>0
    <3>2. /\ i * BlockSize <= Len(TokenStream[r])
          /\ k.block_hash[table[i]] = BlockHash(r, i)
      BY Zenon, <2>2 DEF HitsOK
    <3>3. /\ j * BlockSize <= Len(TokenStream[r])
          /\ k.block_hash[table[j]] = BlockHash(r, j)
      BY Zenon, <2>2 DEF HitsOK
    <3> QED BY Zenon, <2>2, <3>1, <3>2, <3>3, BlockHashPlace
  <2>3. EnableCaching \/ \A b \in Block : m.block_hash[b] = NoHash
    BY Zenon, <1>7 DEF Sound
  <2> QED BY Zenon, <1>7, <1>8, <2>1, <2>2, <2>3 DEF OneTableStep
<1>13. EntriesPlaced(k, m, r)
  <2> SUFFICES ASSUME NEW i \in DOMAIN table, table[i] # NullBlock
               PROVE  /\ \/ m.block_hash[table[i]] = NoHash
                         \/ /\ i * BlockSize <= Len(TokenStream[r])
                            /\ m.block_hash[table[i]] = BlockHash(r, i)
                      /\ \A p \in Req \ {r} : \A j \in DOMAIN k.req_to_blocks[p] :
                           table[i] = k.req_to_blocks[p][j] =>
                             /\ i = j
                             /\ i * BlockSize <= Lesser(Len(TokenStream[r]),
                                                        Len(TokenStream[p]))
                             /\ BlockHash(r, i) = BlockHash(p, i)
    BY Zenon, <1>8 DEF EntriesPlaced
  <2>1. /\ i \in Nat \ {0} /\ i * BlockSize <= Len(TokenStream[r])
        /\ k.block_hash[table[i]] = BlockHash(r, i)
    BY <1>0 DEF HitsOK
  <2>2. BlockHash(r, i) # NoHash BY Zenon, <2>1, BlockHashType
  <2>3. ASSUME NEW p \in Req \ {r}, NEW j \in DOMAIN k.req_to_blocks[p],
               table[i] = k.req_to_blocks[p][j]
        PROVE  /\ i = j
               /\ i * BlockSize <= Lesser(Len(TokenStream[r]), Len(TokenStream[p]))
               /\ BlockHash(r, i) = BlockHash(p, i)
    <3>1. /\ j * BlockSize <= Len(TokenStream[p])
          /\ k.block_hash[table[i]] = BlockHash(p, j)
      BY <2>1, <2>2, <2>3 DEF Sound, TablesOwnHash
    <3>2. j \in Nat
      <4>1. /\ DOMAIN k.req_to_blocks[p] = 1..Len(k.req_to_blocks[p])
            /\ Len(k.req_to_blocks[p]) \in Nat
        BY Zenon, <1>0, TableEntry
      <4> QED BY ONLY <4>1
    <3>3. i = j BY <2>1, <3>1, <3>2, BlockHashPlace, Zenon
    <3> QED BY Zenon, <2>1, <3>1, <3>3 DEF Lesser
  <2> QED BY Zenon, <1>7, <2>1, <2>3
<1>14. Sound(m) BY Zenon, <1>9, <1>10, <1>12, <1>13, TableStepSound
<1> QED BY Zenon, <1>14 DEF m

\* cache_blocks keeps the state sound, as long as the request has no more
\* tokens than its stream.
LEMMA CacheBlocksSound ==
  ASSUME Facts, NEW k, Sound(k), NEW r \in Req, NEW n \in Nat,
         NEW len \in 0..Len(TokenStream[r])
  PROVE  Sound(CacheBlocks(k, r, n, len))
<1> DEFINE cached == Greater(0, k.num_cached_block[r])
           full   == n \div BlockSize
           T      == k.req_to_blocks[r]
           hashes == BlockHashes(r, len)
           counts == [k.num_cached_block EXCEPT ![r] = full]
           new    == {i \in (cached + 1)..full : i \in DOMAIN T /\ T[i] # NullBlock}
           At(b)  == CHOOSE i \in new : T[i] = b
           For(h) == CHOOSE i \in new : hashes[i] = h
           fails  == \/ full > Len(hashes)
                     \/ \E i \in new : k.block_hash[T[i]] # NoHash
           p      == CacheFullBlocks(k, T, hashes, cached, full)
           m      == [p EXCEPT !.num_cached_block = counts]
<1>0. /\ k \in KVState
      /\ T \in Seq(Block) /\ Len(T) \in Nat /\ DOMAIN T = 1..Len(T)
      /\ \A i \in DOMAIN T : T[i] \in Block
      /\ BlockSize \in Nat \ {0}
  BY Zenon, TableEntry, ManagerAssumption DEF Sound
<1>1. full \in Nat /\ cached \in Nat /\ counts \in [Req -> Int]
  <2>1. full \in Nat BY Zenon, <1>0, DivBounds
  <2>2. k.num_cached_block \in [Req -> Int] BY Zenon, <1>0 DEF KVState
  <2> HIDE DEF full
  <2> QED BY ONLY <2>1, <2>2 DEF Greater
<1>2. CASE ~ EnableCaching \/ cached >= full
  BY Zenon, <1>2 DEF CacheBlocks
<1>3. CASE EnableCaching /\ ~ (cached >= full)
  <2>0. CacheBlocks(k, r, n, len) = m BY Zenon, <1>3 DEF CacheBlocks
  <2>1. CASE fails
    <3>1. m = [[k EXCEPT !.err = TRUE] EXCEPT !.num_cached_block = counts]
      BY Zenon, <2>1 DEF CacheFullBlocks
    <3> HIDE DEF m, counts, fails
    <3>2. /\ m \in KVState
          /\ m.ref_cnt = k.ref_cnt /\ m.free = k.free /\ m.req_to_blocks = k.req_to_blocks
          /\ m.cached = k.cached /\ m.block_hash = k.block_hash
      BY <1>0, <1>1, <3>1, Zenon DEF KVState
    <3>3. CacheMapExact(m) BY <3>2 DEF Sound, CacheMapExact
    <3>4. Sound(m) BY Zenon, <1>3, <3>2, <3>3, HashDropSound
    <3> QED BY Zenon, <2>0, <3>4
  <2>2. CASE ~ fails
    <3> DEFINE hash == [b \in Block |->
                 IF \E i \in new : T[i] = b THEN hashes[At(b)] ELSE k.block_hash[b]]
               map == [h \in Hash |->
                 IF \E i \in new : hashes[i] = h THEN Append(k.cached[h], T[For(h)])
                 ELSE k.cached[h]]
    <3>1. m = [[k EXCEPT !.block_hash = hash, !.cached = map]
                 EXCEPT !.num_cached_block = counts]
      BY Zenon, <2>2 DEF CacheFullBlocks
    <3>2. len \in Nat /\ Len(TokenStream[r]) \in Nat /\ len <= Len(TokenStream[r])
      BY ONLY ManagerAssumption DEF Facts, LenProperties
    <3>3. len \div BlockSize \in Nat /\ (len \div BlockSize) * BlockSize <= len
      BY <1>0, <3>2, DivBounds, Zenon
    <3>4. Len(hashes) = len \div BlockSize /\ full <= len \div BlockSize
      <4>1. Len(hashes) = len \div BlockSize BY ONLY <3>3 DEF BlockHashes
      <4> HIDE DEF hashes, full
      <4> QED BY ONLY <1>1, <2>2, <3>3, <4>1
    <3>5. ASSUME NEW i \in new
          PROVE  /\ i \in Nat \ {0} /\ i * BlockSize <= Len(TokenStream[r])
                 /\ hashes[i] = BlockHash(r, i)
                 /\ BlockHash(r, i) \in Hash
                 /\ i \in DOMAIN T /\ T[i] \in Block \ {NullBlock}
                 /\ k.block_hash[T[i]] = NoHash
      <4> HIDE DEF full, cached
      <4>1. i \in 1..(len \div BlockSize) BY ONLY <1>1, <3>3, <3>4
      <4>2. hashes[i] = BlockHash(r, i) BY Zenon, <4>1 DEF BlockHashes
      <4>3. i * BlockSize <= (len \div BlockSize) * BlockSize
        <5> DEFINE q == len \div BlockSize
        <5>1. i \in Nat /\ q \in Nat /\ i <= q BY ONLY <3>3, <4>1
        <5> HIDE DEF q
        <5>2. i * BlockSize <= q * BlockSize BY Zenon, <1>0, <5>1, MulMonotone
        <5> QED BY Zenon, <5>2 DEF q
      <4>4. i * BlockSize <= Len(TokenStream[r]) /\ i \in Nat \ {0}
        <5>1. i \in Nat /\ i * BlockSize \in Nat /\ (len \div BlockSize) * BlockSize \in Nat
          BY ONLY <1>0, <3>3, <4>1
        <5> QED BY ONLY <3>2, <3>3, <4>1, <4>3, <5>1
      <4>5. BlockHash(r, i) \in Hash BY Zenon, <4>4, BlockHashType
      <4>6. i \in DOMAIN T /\ T[i] \in Block \ {NullBlock} BY Zenon, <1>0
      <4>7. k.block_hash[T[i]] = NoHash BY Zenon, <2>2
      <4> QED BY Zenon, <4>2, <4>4, <4>5, <4>6, <4>7
    <3>6. ASSUME NEW i \in new, NEW j \in new, hashes[i] = hashes[j] PROVE i = j
      BY <3>5, <3>6, BlockHashPlace
    <3>7. ASSUME NEW i \in new, NEW j \in DOMAIN T, T[i] = T[j] PROVE i = j
      BY Zenon, <3>5, <3>7 DEF Sound, RefCountsExact
    <3>8. ASSUME NEW i \in new PROVE At(T[i]) = i /\ For(hashes[i]) = i
      <4>1. At(T[i]) = i BY Zenon, <3>5, <3>7
      <4>2. For(hashes[i]) = i BY Zenon, <3>6
      <4> QED BY Zenon, <4>1, <4>2
    <3>9. ASSUME NEW i \in new
          PROVE  hash[T[i]] = BlockHash(r, i) /\ map[BlockHash(r, i)]
                    = Append(k.cached[BlockHash(r, i)], T[i])
      <4> HIDE DEF At, For, new, hashes
      <4>1. hash[T[i]] = hashes[i] BY Zenon, <3>5, <3>8
      <4>2. map[hashes[i]] = Append(k.cached[hashes[i]], T[i]) BY Zenon, <3>5, <3>8
      <4> QED BY Zenon, <3>5, <4>1, <4>2
    <3>10. ASSUME NEW b \in Block, ~ \E i \in new : T[i] = b
           PROVE  hash[b] = k.block_hash[b]
      BY Zenon, <3>10
    <3>11. ASSUME NEW h \in Hash, ~ \E i \in new : BlockHash(r, i) = h
           PROVE  map[h] = k.cached[h]
      <4> HIDE DEF new, hashes
      <4> QED BY Zenon, <3>5, <3>11
    <3> HIDE DEF hash, map, new, At, For, hashes, T
    <3>12. /\ hash \in [Block -> Hash \union {NoHash}]
           /\ map \in [Hash -> Seq(Block)]
      <4>1. /\ k.block_hash \in [Block -> Hash \union {NoHash}]
            /\ k.cached \in [Hash -> Seq(Block)]
        BY Zenon, <1>0 DEF KVState
      <4>2. ASSUME NEW b \in Block PROVE hash[b] \in Hash \union {NoHash}
        BY ONLY <3>5, <3>9, <3>10, <4>1
      <4>3. ASSUME NEW h \in Hash PROVE map[h] \in Seq(Block)
        <5>1. CASE \E i \in new : BlockHash(r, i) = h
          <6>1. PICK i \in new : BlockHash(r, i) = h BY Zenon, <5>1
          <6>2. map[h] = Append(k.cached[h], T[i]) /\ T[i] \in Block
            BY Zenon, <3>5, <3>9, <6>1
          <6>3. k.cached[h] \in Seq(Block) BY Zenon, <4>1
          <6> QED BY ONLY <6>2, <6>3 DEF Facts, AppendProperties
        <5>2. CASE ~ \E i \in new : BlockHash(r, i) = h
          BY Zenon, <3>11, <4>1, <5>2
        <5> QED BY Zenon, <5>1, <5>2
      <4> QED BY Zenon, <4>2, <4>3 DEF hash, map
    <3> HIDE DEF m, counts
    <3>13. /\ m \in KVState
           /\ m.ref_cnt = k.ref_cnt /\ m.free = k.free /\ m.req_to_blocks = k.req_to_blocks
           /\ m.cached = map /\ m.block_hash = hash
      BY <1>0, <1>1, <3>1, <3>12, Zenon DEF KVState
    <3>14. CacheMapExact(m)
      <4> SUFFICES ASSUME NEW h \in Hash
                   PROVE  /\ IsInjective(map[h])
                          /\ Range(map[h]) = {b \in Block \ {NullBlock} : hash[b] = h}
        BY Zenon, <3>13 DEF CacheMapExact
      <4>0. /\ IsInjective(k.cached[h])
            /\ Range(k.cached[h]) = {b \in Block \ {NullBlock} : k.block_hash[b] = h}
            /\ k.cached[h] \in Seq(Block) /\ h # NoHash
        BY Zenon, <1>0, PoolAssumption DEF Sound, CacheMapExact, KVState
      <4>1. CASE \E i \in new : BlockHash(r, i) = h
        <5>1. PICK i \in new : BlockHash(r, i) = h BY Zenon, <4>1
        <5> DEFINE s == k.cached[h]  e == T[i]
        <5>2. map[h] = Append(s, e) BY Zenon, <3>9, <5>1
        <5>3. e \in Block \ {NullBlock} /\ k.block_hash[e] = NoHash /\ hash[e] = h
          BY Zenon, <3>5, <3>9, <5>1
        <5>4. e \notin Range(s) BY Zenon, <4>0, <5>3
        <5>5. /\ DOMAIN Append(s, e) = 1..(Len(s) + 1)
              /\ \A x \in 1..Len(s) : Append(s, e)[x] = s[x]
              /\ Append(s, e)[Len(s) + 1] = e
              /\ DOMAIN s = 1..Len(s) /\ Len(s) \in Nat
          <6>1. s \in Seq(Block) BY Zenon, <4>0
          <6>2. e \in Block BY Zenon, <5>3
          <6> HIDE DEF s, e
          <6> QED BY ONLY <6>1, <6>2 DEF Facts, AppendProperties, LenProperties
        <5>6. IsInjective(Append(s, e))
          <6>1. IsInjective(s) BY Zenon, <4>0
          <6> HIDE DEF s, e
          <6> QED BY ONLY <5>4, <5>5, <6>1 DEF IsInjective, Range
        <5>7. Range(Append(s, e)) = Range(s) \union {e}
          <6> HIDE DEF s, e
          <6> QED BY ONLY <5>5 DEF Range
        <5>8. ASSUME NEW b \in Block \ {NullBlock}
              PROVE  hash[b] = h <=> b \in Range(s) \/ b = e
          <6>1. CASE \E j \in new : T[j] = b
            <7>1. PICK j \in new : T[j] = b BY Zenon, <6>1
            <7>2. hash[b] = BlockHash(r, j) /\ k.block_hash[b] = NoHash
              BY Zenon, <3>5, <3>9, <7>1
            <7>3. BlockHash(r, j) = h => j = i
              BY <3>5, <5>1, BlockHashPlace
            <7>4. b \notin Range(s) BY Zenon, <4>0, <7>2
            <7> QED BY Zenon, <5>3, <7>1, <7>2, <7>3, <7>4
          <6>2. CASE ~ \E j \in new : T[j] = b
            <7>1. hash[b] = k.block_hash[b] /\ b # e BY Zenon, <3>10, <5>1, <6>2
            <7> QED BY Zenon, <4>0, <7>1
          <6> QED BY Zenon, <6>1, <6>2
        <5>9. Range(s) \subseteq Block \ {NullBlock} BY Zenon, <4>0
        <5> HIDE DEF s, e
        <5> QED BY Zenon, <5>2, <5>3, <5>6, <5>7, <5>8, <5>9
      <4>2. CASE ~ \E i \in new : BlockHash(r, i) = h
        <5>1. map[h] = k.cached[h] BY Zenon, <3>11, <4>2
        <5>2. ASSUME NEW b \in Block \ {NullBlock}
              PROVE  hash[b] = h <=> k.block_hash[b] = h
          <6>1. CASE \E j \in new : T[j] = b
            <7>1. PICK j \in new : T[j] = b BY Zenon, <6>1
            <7>2. hash[b] = BlockHash(r, j) /\ k.block_hash[b] = NoHash
              BY Zenon, <3>5, <3>9, <7>1
            <7> QED BY Zenon, <4>0, <4>2, <7>2
          <6>2. CASE ~ \E j \in new : T[j] = b BY Zenon, <3>10, <6>2
          <6> QED BY Zenon, <6>1, <6>2
        <5> QED BY Zenon, <4>0, <5>1, <5>2
      <4> QED BY Zenon, <4>1, <4>2
    <3>15. TablesOwnHash(m)
      <4> SUFFICES ASSUME NEW q \in Req, NEW j \in DOMAIN k.req_to_blocks[q],
                          k.req_to_blocks[q][j] # NullBlock,
                          hash[k.req_to_blocks[q][j]] # NoHash
                   PROVE  /\ j * BlockSize <= Len(TokenStream[q])
                          /\ hash[k.req_to_blocks[q][j]] = BlockHash(q, j)
        BY Zenon, <3>13 DEF TablesOwnHash
      <4> DEFINE b == k.req_to_blocks[q][j]
      <4>0. b \in Block BY Zenon, <1>0, TableEntry
      <4>1. CASE \E i \in new : T[i] = b
        <5>1. PICK i \in new : T[i] = b BY Zenon, <4>1
        <5>2. hash[b] = BlockHash(r, i) /\ i * BlockSize <= Len(TokenStream[r])
              /\ i \in DOMAIN T
          BY Zenon, <3>5, <3>9, <5>1
        <5>3. CASE q = r
          <6>1. i = j BY Zenon, <3>7, <5>1, <5>3 DEF T
          <6> QED BY Zenon, <5>2, <5>3, <6>1
        <5>4. CASE q # r
          <6>1. /\ i = j
                /\ i * BlockSize <= Lesser(Len(TokenStream[r]), Len(TokenStream[q]))
                /\ BlockHash(r, i) = BlockHash(q, i)
            <7>1. SharedBlocksAgree(k) BY Zenon DEF Sound
            <7> QED BY <5>1, <5>2, <5>4, <7>1 DEF SharedBlocksAgree, T
          <6>2. Len(TokenStream[q]) \in Nat /\ Len(TokenStream[r]) \in Nat /\ i * BlockSize \in Nat
            BY ONLY <1>0, <3>5, ManagerAssumption DEF Facts, LenProperties
          <6> QED BY ONLY <5>2, <6>1, <6>2 DEF Lesser
        <5> QED BY Zenon, <5>3, <5>4
      <4>2. CASE ~ \E i \in new : T[i] = b
        <5>1. hash[b] = k.block_hash[b] BY Zenon, <3>10, <4>0, <4>2
        <5>2. TablesOwnHash(k) BY Zenon DEF Sound
        <5> QED BY Zenon, <5>1, <5>2 DEF TablesOwnHash
      <4> QED BY Zenon, <4>1, <4>2
    <3>20. RefCountsExact(k) /\ FreeQueueExact(k) /\ SharedBlocksAgree(k) BY Zenon DEF Sound
    <3>16. RefCountsExact(m) BY <3>13, <3>20, SMTT(60) DEF RefCountsExact, Users
    <3>17. FreeQueueExact(m) BY Zenon, <3>13, <3>20 DEF FreeQueueExact
    <3>18. SharedBlocksAgree(m) BY ONLY <3>13, <3>20 DEF SharedBlocksAgree
    <3>19. Sound(m) BY Zenon, <1>3, <3>13, <3>14, <3>15, <3>16, <3>17, <3>18 DEF Sound
    <3> QED BY Zenon, <2>0, <3>19
  <2> QED BY Zenon, <2>1, <2>2
<1> QED BY Zenon, <1>2, <1>3

\* Upward rounding is a natural number.
LEMMA CDivType ==
  ASSUME NEW a \in Nat
  PROVE  CDiv(a, BlockSize) \in Nat
<1>1. BlockSize \in Nat \ {0} BY Zenon, ManagerAssumption
<1>2. a + BlockSize - 1 \in Nat BY ONLY <1>1
<1> DEFINE c == a + BlockSize - 1
<1> HIDE DEF c
<1>3. c \div BlockSize \in Nat BY Zenon, <1>1, <1>2, DivBounds DEF c
<1> QED BY Zenon, <1>3 DEF CDiv, c

\* The hits left behind the skipped blocks, and the table that starts with them.
Kept(hits, skipped) == SubSeq(hits, skipped + 1, Len(hits))
Placed(hits, skipped) == [i \in 1..skipped |-> NullBlock] \o Kept(hits, skipped)

IsDrop(kept, hits, s) ==
    /\ Len(kept) = Greater(Len(hits) - s, 0)
    /\ \A i \in 1..Len(kept) : s + i \in 1..Len(hits) /\ kept[i] = hits[s + i]

PlacedOK(k, r, hits, skipped) ==
    LET kept  == Kept(hits, skipped)
        table == Placed(hits, skipped)
    IN  /\ kept \in Seq(Block) /\ DistinctOutside(kept, {NullBlock})
        /\ HitsOK(k, r, table)
        /\ Range(kept) \ {NullBlock} = Range(table) \ {NullBlock}
        /\ Len(table) = Greater(skipped, Len(hits))
        /\ IsDrop(kept, hits, skipped)

\* Facts about the greater of two numbers.
LEMMA GreaterFacts ==
  ASSUME NEW a \in Int, NEW b \in Int
  PROVE  /\ Greater(a, b) \in Int
         /\ a <= Greater(a, b) /\ b <= Greater(a, b)
         /\ Greater(a, b) \in {a, b}
         /\ a + Greater(b - a, 0) = Greater(a, b)
         /\ Greater(b - a, 0) = IF a + 1 <= b THEN b - (a + 1) + 1 ELSE 0
BY DEF Greater

\* Behind one null per skipped block, the hits that are left are in place, and
\* the table is as long as the longer of the two.
LEMMA PlacedHits ==
  ASSUME Facts, NEW k, NEW r \in Req, NEW hits, HitsOK(k, r, hits), NEW skipped \in Nat
  PROVE  PlacedOK(k, r, hits, skipped)
<1> DEFINE kept  == Kept(hits, skipped)
           nulls == [i \in 1..skipped |-> NullBlock]
           table == nulls \o kept
<1>0. /\ hits \in Seq(Block) /\ Len(hits) \in Nat /\ DOMAIN hits = 1..Len(hits)
      /\ \A i \in 1..Len(hits) : hits[i] \in Block
  BY Zenon DEF HitsOK, Facts, LenProperties, ElementOfSeq
<1>3. nulls \in Seq(Block) /\ Len(nulls) = skipped /\ Range(nulls) \subseteq {NullBlock}
      /\ \A i \in 1..skipped : nulls[i] = NullBlock
  <2>1. nulls \in Seq(Block) BY ONLY PoolAssumption
  <2>2. Len(nulls) = skipped BY ONLY <2>1 DEF Facts, LenProperties
  <2> QED BY Zenon, <2>1, <2>2 DEF Range
<1>4. /\ kept \in Seq(Block) /\ Len(kept) \in Nat /\ DOMAIN kept = 1..Len(kept)
      /\ Len(kept) = Greater(Len(hits) - skipped, 0)
      /\ \A i \in 1..Len(kept) : skipped + i \in 1..Len(hits) /\ kept[i] = hits[skipped + i]
  <2>1. \A i \in (skipped + 1)..Len(hits) : hits[i] \in Block BY ONLY <1>0
  <2>2. /\ kept \in Seq(Block)
        /\ Len(kept) = IF skipped + 1 <= Len(hits)
                       THEN Len(hits) - (skipped + 1) + 1 ELSE 0
        /\ \A i \in 1..(Len(hits) - (skipped + 1) + 1) :
              kept[i] = hits[(skipped + 1) + i - 1]
    BY ONLY <1>0, <2>1 DEF Kept, Facts, SubSeqProperties
  <2> HIDE DEF kept
  <2>3. Len(kept) \in Nat /\ DOMAIN kept = 1..Len(kept) BY Zenon, <2>2 DEF Facts, LenProperties
  <2>4. ASSUME NEW i \in 1..Len(kept)
        PROVE  skipped + i \in 1..Len(hits) /\ kept[i] = hits[skipped + i]
    <3>0. Len(kept) # 0 BY ONLY <2>3
    <3>1. skipped + 1 <= Len(hits) /\ Len(kept) = Len(hits) - (skipped + 1) + 1
      BY Zenon, <2>2, <3>0
    <3>2. /\ i \in 1..(Len(hits) - (skipped + 1) + 1)
          /\ (skipped + 1) + i - 1 = skipped + i /\ skipped + i \in 1..Len(hits)
      BY ONLY <1>0, <3>1
    <3> QED BY Zenon, <2>2, <3>2
  <2>5. Len(kept) = Greater(Len(hits) - skipped, 0)
    <3>1. skipped \in Int /\ Len(hits) \in Int BY ONLY <1>0
    <3>2. Greater(Len(hits) - skipped, 0)
            = IF skipped + 1 <= Len(hits) THEN Len(hits) - (skipped + 1) + 1 ELSE 0
      BY <3>1, GreaterFacts, Zenon
    <3> QED BY ONLY <2>2, <3>2
  <2> QED BY Zenon, <2>2, <2>3, <2>4, <2>5
<1> HIDE DEF kept, nulls
<1>5. table \in Seq(Block) /\ IsConcat(table, nulls, kept)
  BY Zenon, <1>3, <1>4 DEF Facts, ConcatEntries
<1> HIDE DEF table
<1>6. ASSUME NEW i \in 1..Len(kept), kept[i] # NullBlock
      PROVE  /\ skipped + i \in Nat
             /\ (skipped + i) * BlockSize <= Len(TokenStream[r])
             /\ k.block_hash[kept[i]] = BlockHash(r, skipped + i)
  <2>1. skipped + i \in DOMAIN hits /\ kept[i] = hits[skipped + i] BY Zenon, <1>0, <1>4
  <2> QED BY <1>6, <2>1 DEF HitsOK
<1>7. HitsOK(k, r, table)
  <2> SUFFICES ASSUME NEW i \in DOMAIN table, table[i] # NullBlock
               PROVE  /\ i * BlockSize <= Len(TokenStream[r])
                      /\ k.block_hash[table[i]] = BlockHash(r, i)
    BY Zenon, <1>5 DEF HitsOK
  <2>1. i \in 1..(Len(nulls) + Len(kept)) BY Zenon, <1>5 DEF IsConcat
  <2>2. i \notin 1..Len(nulls) BY Zenon, <1>3, <1>5 DEF IsConcat
  <2>3. PICK j \in 1..Len(kept) : i = Len(nulls) + j BY Zenon, <1>5, <2>1, <2>2 DEF IsConcat
  <2>4. table[i] = kept[j] /\ i = skipped + j BY Zenon, <1>3, <1>5, <2>3 DEF IsConcat
  <2> QED BY Zenon, <1>6, <2>4
<1>8. DistinctOutside(kept, {NullBlock})
  <2> SUFFICES ASSUME NEW i \in 1..Len(kept), NEW j \in 1..Len(kept),
                      kept[i] = kept[j], kept[i] # NullBlock
               PROVE  i = j
    BY Zenon, <1>4 DEF DistinctOutside
  <2>1. skipped + i = skipped + j BY <1>6, BlockHashPlace, Zenon
  <2> QED BY ONLY <2>1
<1>9. Range(kept) \ {NullBlock} = Range(table) \ {NullBlock}
  BY Zenon, <1>3, <1>5 DEF IsConcat
<1>10. Len(table) = Greater(skipped, Len(hits))
  <2>1. DOMAIN table = 1..(Len(nulls) + Len(kept)) BY Zenon, <1>5 DEF IsConcat
  <2>2. Len(table) \in Nat /\ DOMAIN table = 1..Len(table) BY Zenon, <1>5 DEF Facts, LenProperties
  <2>3. Len(table) = skipped + Len(kept) BY ONLY <1>3, <1>4, <2>1, <2>2
  <2> QED BY ONLY <1>0, <1>4, <2>3, GreaterFacts
<1> QED BY <1>4, <1>7, <1>8, <1>9, <1>10, Zenon DEF kept, table, nulls, Placed, PlacedOK, IsDrop

-----------------------------------------------------------------------------
(* Hits *)

\* The block get_cached_block returns carries the hash it was asked for.
LEMMA CachedBlockHash ==
  ASSUME Facts, NEW k, Sound(k), NEW h \in Hash, IsCached(k, h)
  PROVE  /\ GetCachedBlock(k, h) \in Block \ {NullBlock}
         /\ k.block_hash[GetCachedBlock(k, h)] = h
<1> DEFINE s == k.cached[h]
<1>1. s \in Seq(Block) /\ s # << >> BY Zenon DEF Sound, KVState, IsCached
<1>2. Range(s) = {b \in Block \ {NullBlock} : k.block_hash[b] = h}
  BY Zenon DEF Sound, CacheMapExact
<1>3. GetCachedBlock(k, h) = s[1] BY ONLY <1>1 DEF GetCachedBlock
<1> HIDE DEF s
<1>4. 1 \in DOMAIN s BY ONLY <1>1 DEF Facts, LenProperties, EmptySeq
<1> QED BY Zenon, <1>2, <1>3, <1>4 DEF Range

\* The greatest prefix length with a property of every block below it.
Prefixes(k, r, max_blocks) ==
    {n \in 0..max_blocks : \A i \in 1..n : IsCached(k, BlockHash(r, i))}

\* The hits of get_computed_blocks are fit for allocate_slots.
LEMMA ComputedBlocksOK ==
  ASSUME Facts, NEW k, Sound(k), NEW r \in Req, NEW len \in 1..Len(TokenStream[r])
  PROVE  HitsOK(k, r, GetComputedBlocks(k, r, len))
<1> DEFINE most == (len - 1) \div BlockSize
<1>0. Len(TokenStream[r]) \in Nat /\ BlockSize \in Nat \ {0} /\ len - 1 \in Nat
  BY ONLY ManagerAssumption DEF Facts, LenProperties
<1>1. most \in Nat /\ most * BlockSize <= len - 1
  BY Zenon, <1>0, DivBounds
<1> HIDE DEF most
<1>2. ASSUME NEW i \in 1..most
      PROVE  i * BlockSize <= Len(TokenStream[r]) /\ BlockHash(r, i) \in Hash
  <2>1. i \in Nat \ {0} /\ i <= most BY ONLY <1>1
  <2>2. i * BlockSize <= most * BlockSize BY ONLY <1>0, <1>1, <2>1
  <2>3. i * BlockSize \in Nat /\ most * BlockSize \in Nat BY ONLY <1>0, <1>1, <2>1
  <2>4. i * BlockSize <= Len(TokenStream[r]) BY ONLY <1>0, <1>1, <2>2, <2>3
  <2> QED BY Zenon, <2>1, <2>4, BlockHashType
<1>3. ASSUME NEW m \in 0..most, NEW hits, hits = [i \in 1..m |-> hits[i]],
             \A i \in 1..m :
                \/ hits[i] = NullBlock
                \/ /\ IsCached(k, BlockHash(r, i))
                   /\ hits[i] = GetCachedBlock(k, BlockHash(r, i))
      PROVE  HitsOK(k, r, hits)
  <2>1. DOMAIN hits = 1..m BY Zenon, <1>3
  <2>2. ASSUME NEW i \in 1..m
        PROVE  /\ hits[i] \in Block
               /\ \/ hits[i] = NullBlock
                  \/ /\ i * BlockSize <= Len(TokenStream[r])
                     /\ k.block_hash[hits[i]] = BlockHash(r, i)
    <3>1. CASE hits[i] = NullBlock BY Zenon, <3>1, PoolAssumption
    <3>2. CASE hits[i] # NullBlock
      <4>1. i \in 1..most BY ONLY <1>1
      <4>2. i * BlockSize <= Len(TokenStream[r]) /\ BlockHash(r, i) \in Hash
        BY Zenon, <1>2, <4>1
      <4>3. IsCached(k, BlockHash(r, i)) /\ hits[i] = GetCachedBlock(k, BlockHash(r, i))
        BY Zenon, <1>3, <3>2
      <4> QED BY <4>2, <4>3, CachedBlockHash
    <3> QED BY Zenon, <3>1, <3>2
  <2>3. hits \in Seq(Block)
    <3>1. m \in Nat BY ONLY <1>1
    <3>2. \A i \in 1..m : hits[i] \in Block BY Zenon, <2>2
    <3> QED BY ONLY <1>3, <3>1, <3>2
  <2> QED BY Zenon, <2>1, <2>2, <2>3 DEF HitsOK
<1>4. LET n == Max(Prefixes(k, r, most))
      IN  n \in 0..most /\ \A i \in 1..n : IsCached(k, BlockHash(r, i))
  <2> DEFINE S == Prefixes(k, r, most)
  <2>1. S \in SUBSET (0..most) /\ 0 \in S BY ONLY <1>1 DEF Prefixes
  <2> HIDE DEF S
  <2>2. Max(S) \in S BY <1>1, <2>1, MaxProperties, Zenon
  <2> QED BY Zenon, <2>2 DEF S, Prefixes
<1>5. HitsOK(k, r, << >>)
  BY DEF HitsOK, Facts, EmptySeq
<1>6. HitsOK(k, r, FullAttentionHit(k, r, most))
  <2> DEFINE n == Max(Prefixes(k, r, most))
             m == IF UseEagle /\ n > 0 THEN n - 1 ELSE n
             hits == [i \in 1..m |-> GetCachedBlock(k, BlockHash(r, i))]
  <2>1. FullAttentionHit(k, r, most) = hits BY Zenon DEF FullAttentionHit, Prefixes
  <2>2. n \in 0..most /\ \A i \in 1..n : IsCached(k, BlockHash(r, i)) BY Zenon, <1>4
  <2> HIDE DEF n
  <2>3. m \in 0..most /\ m <= n BY ONLY <1>1, <2>2
  <2> HIDE DEF m
  <2>4. \A i \in 1..m : /\ IsCached(k, BlockHash(r, i))
                        /\ hits[i] = GetCachedBlock(k, BlockHash(r, i))
    BY ONLY <1>1, <2>2, <2>3
  <2>5. hits = [i \in 1..m |-> hits[i]] BY Zenon
  <2> HIDE DEF hits
  <2>6. HitsOK(k, r, hits) BY Zenon, <1>3, <2>3, <2>4, <2>5
  <2> QED BY Zenon, <2>1, <2>6
<1>7. HitsOK(k, r, SlidingWindowHit(k, r, most))
  <2> DEFINE need == Greater(1, CDiv(SlidingWindow - 1, BlockSize)
                                  + (IF UseEagle THEN 1 ELSE 0))
             ends == {e \in need..most :
                        \A i \in (e - need + 1)..e : IsCached(k, BlockHash(r, i))}
             n == IF ends # {} THEN Max(ends) ELSE Max(Prefixes(k, r, most))
             m == IF UseEagle /\ n > 0 THEN n - 1 ELSE n
             hits == [i \in 1..m |-> IF ends # {} /\ i <= n - need THEN NullBlock
                                     ELSE GetCachedBlock(k, BlockHash(r, i))]
  <2>1. SlidingWindowHit(k, r, most) = hits BY Zenon DEF SlidingWindowHit, Prefixes
  <2>2. need \in Nat
    <3> DEFINE c == CDiv(SlidingWindow - 1, BlockSize)
    <3>1. c \in Int
      <4>1. SlidingWindow - 1 + BlockSize - 1 \in Int BY ONLY ManagerAssumption
      <4> QED BY ONLY <1>0, <4>1 DEF CDiv
    <3> HIDE DEF c
    <3>2. Greater(1, c + (IF UseEagle THEN 1 ELSE 0)) \in Nat BY ONLY <3>1 DEF Greater
    <3> QED BY Zenon, <3>2 DEF c
  <2> HIDE DEF need
  <2>3. /\ n \in 0..most
        /\ \A i \in 1..n : \/ ends # {} /\ i <= n - need
                           \/ IsCached(k, BlockHash(r, i))
    <3>1. CASE ends # {}
      <4>1. ends \in SUBSET (0..most) BY ONLY <1>1, <2>2
      <4>2. n = Max(ends) BY Zenon, <3>1
      <4>3. n \in ends
        <5> HIDE DEF ends, n
        <5> QED BY <1>1, <3>1, <4>1, <4>2, MaxProperties, Zenon
      <4> HIDE DEF n
      <4>4. n \in 0..most /\ \A i \in (n - need + 1)..n : IsCached(k, BlockHash(r, i))
        BY Zenon, <4>1, <4>3
      <4> HIDE DEF ends
      <4>5. \A i \in 1..n : i <= n - need \/ i \in (n - need + 1)..n
        BY ONLY <1>1, <2>2, <4>4
      <4> QED BY Zenon, <3>1, <4>4, <4>5
    <3>2. CASE ends = {}
      <4>1. n = Max(Prefixes(k, r, most)) BY Zenon, <3>2
      <4> HIDE DEF n, ends
      <4> QED BY Zenon, <1>4, <4>1
    <3> QED BY Zenon, <3>1, <3>2
  <2> HIDE DEF n, ends
  <2>4. m \in 0..most /\ m <= n BY ONLY <1>1, <2>3
  <2> HIDE DEF m
  <2>5. ASSUME NEW i \in 1..m
        PROVE  \/ hits[i] = NullBlock
               \/ /\ IsCached(k, BlockHash(r, i))
                  /\ hits[i] = GetCachedBlock(k, BlockHash(r, i))
    <3>1. i \in 1..n BY ONLY <1>1, <2>3, <2>4
    <3> QED BY Zenon, <2>3, <3>1
  <2>6. hits = [i \in 1..m |-> hits[i]] BY Zenon
  <2> HIDE DEF hits
  <2>7. HitsOK(k, r, hits) BY Zenon, <1>3, <2>4, <2>5, <2>6
  <2> QED BY Zenon, <2>1, <2>7
<1> QED BY Zenon, <1>5, <1>6, <1>7 DEF GetComputedBlocks, most

-----------------------------------------------------------------------------
(* Hits and the sliding window *)

\* Rounding up is monotone, and covers what is rounded.
LEMMA CDivFacts ==
  ASSUME NEW a \in Nat, NEW b \in Nat, a <= b
  PROVE  /\ CDiv(a, BlockSize) <= CDiv(b, BlockSize)
         /\ a \div BlockSize <= CDiv(a, BlockSize)
         /\ a <= CDiv(a, BlockSize) * BlockSize
<1>0. BlockSize \in Nat \ {0} BY Zenon, ManagerAssumption
<1> DEFINE c == a + BlockSize - 1
           d == b + BlockSize - 1
<1>1. c \in Nat /\ d \in Nat /\ c <= d /\ a <= c BY <1>0
<1>2. a < c - BlockSize + 2 BY ONLY <1>0
<1> HIDE DEF c, d
<1>3. c \div BlockSize <= d \div BlockSize BY Zenon, <1>0, <1>1, DivMonotone
<1>4. a \div BlockSize <= c \div BlockSize BY Zenon, <1>0, <1>1, DivMonotone
<1>5. a <= (c \div BlockSize) * BlockSize
  <2> DEFINE e == (c \div BlockSize) * BlockSize
  <2>1. c \div BlockSize \in Nat /\ c < e + BlockSize BY Zenon, <1>0, <1>1, DivBounds
  <2>2. e \in Nat BY ONLY <1>0, <2>1
  <2> HIDE DEF e
  <2>3. a <= e BY ONLY <1>0, <1>1, <1>2, <2>1, <2>2
  <2> QED BY Zenon, <2>3 DEF e
<1> QED BY Zenon, <1>3, <1>4, <1>5 DEF CDiv, c, d

\* No more tokens are skipped than there are.
LEMMA SkippedBound ==
  ASSUME NEW n \in Nat
  PROVE  NumSkippedTokens(n) <= n
BY ONLY ManagerAssumption DEF NumSkippedTokens, Greater

\* Null blocks among the hits lie outside the window of the next token.
NullHits(hits, n) ==
    \A i \in DOMAIN hits : hits[i] = NullBlock => i * BlockSize <= n

\* A block list that covers no token is empty.
LEMMA NoHits ==
  ASSUME Facts, NEW hits \in Seq(Block), NEW e \in Nat, e + Len(hits) * BlockSize <= 1, e >= 1
  PROVE  hits = << >>
<1>1. Len(hits) \in Nat /\ BlockSize \in Nat \ {0} BY Zenon, ManagerAssumption
  DEF Facts, LenProperties
<1>2. Len(hits) * BlockSize <= 0 /\ Len(hits) * BlockSize \in Nat BY <1>1
<1>3. Len(hits) = 0 BY ONLY <1>1, <1>2
<1> QED BY Zenon, <1>3 DEF Facts, EmptySeq

\* The more tokens there are, the more are skipped.
LEMMA SkippedMore ==
  ASSUME NEW n \in Nat, NEW m \in Nat, n <= m
  PROVE  /\ NumSkippedTokens(n) \in Nat /\ NumSkippedTokens(m) \in Nat
         /\ NumSkippedTokens(n) <= NumSkippedTokens(m)
BY ManagerAssumption DEF NumSkippedTokens, Greater

\* Null hits that lie outside a window lie outside every later one.
LEMMA NullHitsMore ==
  ASSUME Facts, NEW hits \in Seq(Block), NEW n \in Nat, NEW m \in Nat, n <= m,
         NullHits(hits, NumSkippedTokens(n))
  PROVE  NullHits(hits, NumSkippedTokens(m))
<1> DEFINE x == NumSkippedTokens(n)
           y == NumSkippedTokens(m)
<1>1. x \in Nat /\ y \in Nat /\ x <= y BY Zenon, SkippedMore
<1> HIDE DEF x, y
<1>2. NullHits(hits, x) BY Zenon DEF x
<1>3. ASSUME NEW i \in DOMAIN hits, hits[i] = NullBlock PROVE i * BlockSize <= y
  <2>1. i \in Nat /\ BlockSize \in Nat BY ONLY ManagerAssumption DEF Facts, LenProperties
  <2>2. i * BlockSize <= x BY Zenon, <1>2, <1>3 DEF NullHits
  <2> DEFINE z == i * BlockSize
  <2>3. z \in Nat BY ONLY <2>1
  <2> HIDE DEF z
  <2>4. z <= y BY ONLY <1>1, <2>2, <2>3 DEF z
  <2> QED BY Zenon, <2>4 DEF z
<1> QED BY Zenon, <1>3 DEF NullHits, y

\* The nulls that the sliding-window lookup puts before the run of hits that
\* fills the window are outside the window; other lookups return no null.
LEMMA ComputedBlocksNull ==
  ASSUME Facts, NEW k, Sound(k), NEW r \in Req, NEW len \in 1..Len(TokenStream[r])
  PROVE  LET hits == GetComputedBlocks(k, r, len)
         IN  NullHits(hits, NumSkippedTokens(Len(hits) * BlockSize))
<1> DEFINE most == (len - 1) \div BlockSize
<1>0. Len(TokenStream[r]) \in Nat /\ BlockSize \in Nat \ {0} /\ len - 1 \in Nat
  BY ONLY ManagerAssumption DEF Facts, LenProperties
<1>1. most \in Nat /\ most * BlockSize <= len - 1 BY Zenon, <1>0, DivBounds
<1> HIDE DEF most
<1>2. ASSUME NEW i \in 1..most, IsCached(k, BlockHash(r, i))
      PROVE  GetCachedBlock(k, BlockHash(r, i)) # NullBlock
  <2>1. i \in Nat \ {0} /\ i <= most BY ONLY <1>1
  <2>2. i * BlockSize <= most * BlockSize BY ONLY <1>0, <1>1, <2>1
  <2>3. i * BlockSize \in Nat /\ most * BlockSize \in Nat BY ONLY <1>0, <1>1, <2>1
  <2>4. i * BlockSize <= Len(TokenStream[r]) BY ONLY <1>0, <1>1, <2>2, <2>3
  <2>5. BlockHash(r, i) \in Hash BY Zenon, <2>1, <2>4, BlockHashType
  <2> QED BY Zenon, <1>2, <2>5, CachedBlockHash
<1>3. LET n == Max(Prefixes(k, r, most))
      IN  n \in 0..most /\ \A i \in 1..n : IsCached(k, BlockHash(r, i))
  <2> DEFINE S == Prefixes(k, r, most)
  <2>1. S \in SUBSET (0..most) /\ 0 \in S BY ONLY <1>1 DEF Prefixes
  <2> HIDE DEF S
  <2>2. Max(S) \in S BY <1>1, <2>1, MaxProperties, Zenon
  <2> QED BY Zenon, <2>2 DEF S, Prefixes
<1>4. CASE ~ EnableCaching \/ r \in SkipReading
  <2>1. GetComputedBlocks(k, r, len) = << >> BY Zenon, <1>4 DEF GetComputedBlocks
  <2> QED BY ONLY <2>1 DEF NullHits
<1>5. CASE EnableCaching /\ r \notin SkipReading /\ SlidingWindow = 0
  <2> DEFINE n == Max(Prefixes(k, r, most))
             m == IF UseEagle /\ n > 0 THEN n - 1 ELSE n
             hits == [i \in 1..m |-> GetCachedBlock(k, BlockHash(r, i))]
  <2>1. GetComputedBlocks(k, r, len) = hits
    BY Zenon, <1>5 DEF GetComputedBlocks, FullAttentionHit, Prefixes, most
  <2>2. n \in 0..most /\ \A i \in 1..n : IsCached(k, BlockHash(r, i)) BY Zenon, <1>3
  <2> HIDE DEF n
  <2>3. m \in 0..most /\ m <= n BY ONLY <1>1, <2>2
  <2> HIDE DEF m
  <2>4. ASSUME NEW i \in 1..m PROVE hits[i] # NullBlock
    <3>1. i \in 1..n /\ i \in 1..most BY ONLY <1>1, <2>2, <2>3
    <3> QED BY Zenon, <1>2, <2>2, <3>1
  <2>5. DOMAIN hits = 1..m BY Zenon
  <2> HIDE DEF hits
  <2> QED BY Zenon, <2>1, <2>4, <2>5 DEF NullHits
<1>6. CASE EnableCaching /\ r \notin SkipReading /\ SlidingWindow # 0
  <2> DEFINE c == CDiv(SlidingWindow - 1, BlockSize)
             need == Greater(1, c + (IF UseEagle THEN 1 ELSE 0))
             ends == {e \in need..most :
                        \A i \in (e - need + 1)..e : IsCached(k, BlockHash(r, i))}
             n == IF ends # {} THEN Max(ends) ELSE Max(Prefixes(k, r, most))
             m == IF UseEagle /\ n > 0 THEN n - 1 ELSE n
             hits == [i \in 1..m |-> IF ends # {} /\ i <= n - need THEN NullBlock
                                     ELSE GetCachedBlock(k, BlockHash(r, i))]
  <2>1. GetComputedBlocks(k, r, len) = hits
    BY Zenon, <1>6 DEF GetComputedBlocks, SlidingWindowHit, Prefixes, most
  <2>2. c \in Nat /\ SlidingWindow - 1 <= c * BlockSize /\ SlidingWindow - 1 \in Nat
    <3>1. SlidingWindow - 1 \in Nat BY ONLY <1>6, ManagerAssumption
    <3> DEFINE w == SlidingWindow - 1
    <3> HIDE DEF w
    <3>2. w \in Nat /\ w <= w BY ONLY <3>1 DEF w
    <3>3. CDiv(w, BlockSize) \in Nat /\ w <= CDiv(w, BlockSize) * BlockSize
      BY Zenon, <3>2, CDivType, CDivFacts
    <3> QED BY Zenon, <3>1, <3>3 DEF w
  <2> HIDE DEF c
  <2>3. need \in Nat /\ need >= 1 /\ need >= c /\ (UseEagle => need >= c + 1)
    BY ONLY <2>2 DEF Greater
  <2> HIDE DEF need
  <2>4. /\ n \in 0..most
        /\ \A i \in 1..n : \/ ends # {} /\ i <= n - need
                           \/ IsCached(k, BlockHash(r, i))
    <3>1. CASE ends # {}
      <4>1. ends \in SUBSET (0..most) BY ONLY <1>1, <2>3
      <4>2. n = Max(ends) BY Zenon, <3>1
      <4>3. n \in ends
        <5> HIDE DEF ends, n
        <5> QED BY <1>1, <3>1, <4>1, <4>2, MaxProperties, Zenon
      <4> HIDE DEF n
      <4>4. n \in 0..most /\ \A i \in (n - need + 1)..n : IsCached(k, BlockHash(r, i))
        BY Zenon, <4>1, <4>3
      <4> HIDE DEF ends
      <4>5. \A i \in 1..n : i <= n - need \/ i \in (n - need + 1)..n
        BY ONLY <1>1, <2>3, <4>4
      <4> QED BY Zenon, <3>1, <4>4, <4>5
    <3>2. CASE ends = {}
      <4>1. n = Max(Prefixes(k, r, most)) BY Zenon, <3>2
      <4> HIDE DEF n, ends
      <4> QED BY Zenon, <1>3, <4>1
    <3> QED BY Zenon, <3>1, <3>2
  <2> HIDE DEF n, ends
  <2>5. m \in 0..most /\ m <= n /\ n - need <= m - c
    BY ONLY <1>1, <2>2, <2>3, <2>4, ManagerAssumption
  <2> HIDE DEF m
  <2>6. DOMAIN hits = 1..m /\ Len(hits) = m
    <3>1. m \in Nat BY ONLY <1>1, <2>5
    <3> QED BY ONLY <3>1
  <2>7. ASSUME NEW i \in 1..m, hits[i] = NullBlock
        PROVE  i * BlockSize <= NumSkippedTokens(m * BlockSize)
    <3>1. i \in 1..n /\ i \in 1..most BY ONLY <1>1, <2>4, <2>5
    <3>2. i <= n - need BY Zenon, <1>2, <2>4, <2>7, <3>1
    <3>3. i \in Nat /\ m \in Nat /\ n \in Nat /\ i + c <= m BY ONLY <1>1, <2>2, <2>3, <2>4, <2>5, <3>1, <3>2
    <3>4. (i + c) * BlockSize <= m * BlockSize BY ONLY <1>0, <2>2, <3>3
    <3>5. (i + c) * BlockSize = i * BlockSize + c * BlockSize BY ONLY <1>0, <2>2, <3>3
    <3> DEFINE x == i * BlockSize
               y == c * BlockSize
               z == m * BlockSize
    <3>6. x \in Nat /\ y \in Nat /\ z \in Nat /\ x + y <= z /\ SlidingWindow - 1 <= y
      BY ONLY <1>0, <2>2, <3>3, <3>4, <3>5
    <3> HIDE DEF x, y, z
    <3>7. x <= NumSkippedTokens(z)
      BY ONLY <1>6, <3>6, ManagerAssumption DEF NumSkippedTokens, Greater
    <3> QED BY Zenon, <3>7 DEF x, z
  <2> HIDE DEF hits
  <2> QED BY Zenon, <2>1, <2>6, <2>7 DEF NullHits
<1> QED BY Zenon, <1>4, <1>5, <1>6

-----------------------------------------------------------------------------
(* allocate_slots *)

\* The quantities of one call are natural numbers.
LEMMA ArgsType ==
  ASSUME Facts, NEW a \in AllocArgs
  PROVE  /\ NumLocalComputed(a) \in Nat
         /\ TotalComputed(a) \in Nat
         /\ NumNeedSlot(a) \in Nat
         /\ Lesser(TotalComputed(a) + a.new, a.num_tokens) \in Nat
<1>0. /\ a.num_computed \in Nat /\ a.num_tokens \in Nat /\ a.new \in Nat
      /\ a.hits \in Seq(Block) /\ a.lookahead \in Nat /\ a.external \in Nat
  BY Zenon DEF AllocArgs
<1>1. Len(a.hits) \in Nat /\ BlockSize \in Nat /\ MaxModelLen \in Nat
  BY Zenon, <1>0, ManagerAssumption DEF Facts, LenProperties
<1>2. Len(a.hits) * BlockSize \in Nat BY ONLY <1>1
<1>3. NumLocalComputed(a) \in Nat BY ONLY <1>0, <1>2 DEF NumLocalComputed
<1>4. TotalComputed(a) \in Nat BY ONLY <1>0, <1>1, <1>3 DEF TotalComputed, Lesser
<1>5. NumNeedSlot(a) \in Nat BY ONLY <1>0, <1>1, <1>4 DEF NumNeedSlot, Lesser
<1>6. Lesser(TotalComputed(a) + a.new, a.num_tokens) \in Nat
  BY ONLY <1>0, <1>4 DEF Lesser
<1> QED BY Zenon, <1>3, <1>4, <1>5, <1>6

-----------------------------------------------------------------------------
(* No assert or raise *)

\* Blocks of r behind num_cached_block[r] carry no hash and are r's alone.
TailBlock(k, r, i) ==
    /\ i > Greater(0, k.num_cached_block[r])
    /\ k.req_to_blocks[r][i] # NullBlock

FreshTail(k) ==
    \A r \in Req : \A i \in DOMAIN k.req_to_blocks[r] :
        TailBlock(k, r, i) =>
        /\ k.block_hash[k.req_to_blocks[r][i]] = NoHash
        /\ \A q \in Req \ {r} : k.req_to_blocks[r][i] \notin Range(k.req_to_blocks[q])

Good(k) ==
    /\ Sound(k)
    /\ FreshTail(k)
    /\ ~ k.err
    /\ \A r \in Req : k.num_cached_block[r] \in Nat \union {-1}

\* Only r is affected.
SameOthers(k, m, r) ==
    \A q \in Req \ {r} : /\ m.req_to_blocks[q] = k.req_to_blocks[q]
                         /\ m.num_cached_block[q] = k.num_cached_block[q]

\* One call after another.
LEMMA SameOthersOn ==
  ASSUME NEW k, NEW l, NEW m, NEW r, SameOthers(k, l, r), SameOthers(l, m, r)
  PROVE  SameOthers(k, m, r)
BY Zenon DEF SameOthers

\* The table of r only grows or loses blocks to the null block, and a null
\* block is new only where no more than n tokens precede its end.
Evolves(k, m, r, n) ==
    /\ \A i \in DOMAIN k.req_to_blocks[r] :
          /\ i \in DOMAIN m.req_to_blocks[r]
          /\ m.req_to_blocks[r][i] \in {k.req_to_blocks[r][i], NullBlock}
    /\ \A i \in DOMAIN m.req_to_blocks[r] :
          m.req_to_blocks[r][i] = NullBlock =>
          \/ i \in DOMAIN k.req_to_blocks[r] /\ k.req_to_blocks[r][i] = NullBlock
          \/ i * BlockSize <= n

\* The same of two calls.
LEMMA EvolvesOn ==
  ASSUME NEW k, NEW l, NEW m, NEW r, NEW n, Evolves(k, l, r, n), Evolves(l, m, r, n)
  PROVE  Evolves(k, m, r, n)
BY Zenon DEF Evolves

\* A call that leaves the table alone.
LEMMA EvolvesSame ==
  ASSUME NEW k, NEW m, NEW r, NEW n, m.req_to_blocks[r] = k.req_to_blocks[r]
  PROVE  Evolves(k, m, r, n)
BY Zenon DEF Evolves

\* A call that appends blocks, none of them null.
LEMMA EvolvesGrown ==
  ASSUME NEW k, NEW m, NEW r, NEW n,
         DOMAIN k.req_to_blocks[r] \subseteq DOMAIN m.req_to_blocks[r],
         \A i \in DOMAIN k.req_to_blocks[r] :
            m.req_to_blocks[r][i] = k.req_to_blocks[r][i],
         \A i \in DOMAIN m.req_to_blocks[r] \ DOMAIN k.req_to_blocks[r] :
            m.req_to_blocks[r][i] # NullBlock
  PROVE  Evolves(k, m, r, n)
BY Zenon DEF Evolves

\* What a call for r has to leave true of the tails.
LEMMA TailStep ==
  ASSUME NEW k, FreshTail(k), NEW m, NEW r \in Req, SameOthers(k, m, r),
         \A q \in Req \ {r} : \A i \in DOMAIN k.req_to_blocks[q] :
            TailBlock(k, q, i) =>
            /\ m.block_hash[k.req_to_blocks[q][i]] = NoHash
            /\ k.req_to_blocks[q][i] \notin Range(m.req_to_blocks[r]),
         \A i \in DOMAIN m.req_to_blocks[r] :
            TailBlock(m, r, i) =>
            /\ m.block_hash[m.req_to_blocks[r][i]] = NoHash
            /\ \A q \in Req \ {r} : m.req_to_blocks[r][i] \notin Range(k.req_to_blocks[q])
  PROVE  FreshTail(m)
<1> SUFFICES ASSUME NEW p \in Req, NEW i \in DOMAIN m.req_to_blocks[p],
                    TailBlock(m, p, i)
             PROVE  /\ m.block_hash[m.req_to_blocks[p][i]] = NoHash
                    /\ \A q \in Req \ {p} :
                          m.req_to_blocks[p][i] \notin Range(m.req_to_blocks[q])
  BY Zenon DEF FreshTail
<1>1. CASE p = r
  BY Zenon, <1>1 DEF SameOthers
<1>2. CASE p # r
  <2>1. /\ m.req_to_blocks[p] = k.req_to_blocks[p]
        /\ m.num_cached_block[p] = k.num_cached_block[p]
    BY Zenon, <1>2 DEF SameOthers
  <2>2. i \in DOMAIN k.req_to_blocks[p] /\ TailBlock(k, p, i)
    BY Zenon, <2>1 DEF TailBlock
  <2>3. /\ m.block_hash[k.req_to_blocks[p][i]] = NoHash
        /\ k.req_to_blocks[p][i] \notin Range(m.req_to_blocks[r])
    BY Zenon, <1>2, <2>2
  <2>4. \A q \in Req \ {p} : k.req_to_blocks[p][i] \notin Range(k.req_to_blocks[q])
    BY Zenon, <2>2 DEF FreshTail
  <2>5. ASSUME NEW q \in Req \ {p}
        PROVE  k.req_to_blocks[p][i] \notin Range(m.req_to_blocks[q])
    <3>1. CASE q = r BY Zenon, <2>3, <3>1
    <3>2. CASE q # r
      <4>1. m.req_to_blocks[q] = k.req_to_blocks[q] BY Zenon, <3>2 DEF SameOthers
      <4> QED BY Zenon, <2>4, <4>1
    <3> QED BY Zenon, <3>1, <3>2
  <2> QED BY Zenon, <2>1, <2>3, <2>5
<1> QED BY Zenon, <1>1, <1>2

\* Hashes that disappear do not disturb the tails.
LEMMA HashDropGood ==
  ASSUME Facts, NEW k, Good(k), NEW m, Sound(m), ~ m.err,
         m.req_to_blocks = k.req_to_blocks, m.num_cached_block = k.num_cached_block,
         \A b \in Block \ {NullBlock} : m.block_hash[b] \in {NoHash, k.block_hash[b]}
  PROVE  Good(m)
<1>1. FreshTail(m)
  <2> SUFFICES ASSUME NEW r \in Req, NEW i \in DOMAIN k.req_to_blocks[r],
                      TailBlock(m, r, i)
               PROVE  /\ m.block_hash[k.req_to_blocks[r][i]] = NoHash
                      /\ \A q \in Req \ {r} :
                           k.req_to_blocks[r][i] \notin Range(k.req_to_blocks[q])
    BY Zenon DEF FreshTail
  <2>1. TailBlock(k, r, i) BY Zenon DEF TailBlock
  <2>2. k.req_to_blocks[r][i] \in Block \ {NullBlock}
    BY Zenon, <2>1, TableEntry DEF Good, Sound, TailBlock
  <2> QED BY Zenon, <2>1, <2>2 DEF Good, FreshTail
<1> QED BY Zenon, <1>1 DEF Good

\* evict_blocks reaches no assertion.
LEMMA EvictBlocksGood ==
  ASSUME Facts, NEW k, Good(k), NEW B \in SUBSET Block
  PROVE  LET m == EvictBlocks(k, B)
         IN  /\ Good(m)
             /\ m.req_to_blocks = k.req_to_blocks
             /\ m.num_cached_block = k.num_cached_block
<1> DEFINE m == MaybeEvict(k, B)
<1>0. k \in KVState /\ CacheMapExact(k) BY Zenon DEF Good, Sound
<1>1. /\ m \in KVState
      /\ m = [k EXCEPT !.cached = m.cached, !.block_hash = m.block_hash]
      /\ \A b \in Block \ {NullBlock} :
           m.block_hash[b] = IF b \in B THEN NoHash ELSE k.block_hash[b]
      /\ m.block_hash[NullBlock] = k.block_hash[NullBlock]
      /\ CacheMapExact(m)
  BY Zenon, <1>0, MaybeEvictFields
<1>2. Sound(m) BY Zenon, EvictBlocksSound DEF Good, EvictBlocks
<1> HIDE DEF m
<1>3. /\ m.err = k.err /\ m.req_to_blocks = k.req_to_blocks
      /\ m.num_cached_block = k.num_cached_block
  BY <1>0, <1>1, Zenon DEF KVState
<1>4. ~ m.err BY Zenon, <1>3 DEF Good
<1>5. Good(m) BY Zenon, <1>1, <1>2, <1>3, <1>4, HashDropGood
<1> QED BY Zenon, <1>3, <1>5 DEF m, EvictBlocks

\* reset_prefix_cache reaches no assertion.
LEMMA ResetGood ==
  ASSUME Facts, NEW k, Good(k)
  PROVE  LET m == ResetPrefixCache(k)
         IN  /\ Good(m)
             /\ m.req_to_blocks = k.req_to_blocks
             /\ m.num_cached_block = k.num_cached_block
<1> DEFINE m == ResetPrefixCache(k)
<1>1. Sound(m) BY Zenon, ResetSound DEF Good
<1>2. /\ m.err = k.err /\ m.req_to_blocks = k.req_to_blocks
      /\ m.num_cached_block = k.num_cached_block
      /\ \A b \in Block \ {NullBlock} : m.block_hash[b] \in {NoHash, k.block_hash[b]}
  BY Zenon DEF Good, Sound, KVState, ResetPrefixCache
<1> HIDE DEF m
<1>3. ~ m.err BY Zenon, <1>2 DEF Good
<1>4. Good(m) BY Zenon, <1>1, <1>2, <1>3, HashDropGood
<1> QED BY Zenon, <1>2, <1>4 DEF m

\* free reaches no assertion and forgets the request.
LEMMA FreeGood ==
  ASSUME Facts, NEW k, Good(k), NEW r \in Req
  PROVE  LET m == Free(k, r)
         IN  /\ Good(m) /\ SameOthers(k, m, r)
             /\ m.req_to_blocks[r] = << >> /\ m.num_cached_block[r] = -1
<1> DEFINE m == Free(k, r)
<1>0. k \in KVState /\ Sound(k) /\ ~ k.err /\ FreshTail(k) BY Zenon DEF Good, Sound
<1>1. Sound(m) /\ m.req_to_blocks = [k.req_to_blocks EXCEPT ![r] = << >>]
  BY Zenon, <1>0, FreeSound
<1>2. /\ m.err = k.err /\ m.block_hash = k.block_hash
      /\ m.num_cached_block = [k.num_cached_block EXCEPT ![r] = -1]
  BY Zenon, <1>0 DEF Free, FreeBlocks, KVState
<1>3. /\ k.req_to_blocks \in [Req -> Seq(Block)]
      /\ k.num_cached_block \in [Req -> Int]
  BY Zenon, <1>0 DEF KVState
<1> HIDE DEF m
<1>4. /\ SameOthers(k, m, r)
      /\ m.req_to_blocks[r] = << >> /\ m.num_cached_block[r] = -1
  BY Zenon, <1>1, <1>2, <1>3 DEF SameOthers
<1>5. DOMAIN m.req_to_blocks[r] = {} /\ Range(m.req_to_blocks[r]) = {}
  BY ONLY <1>4 DEF Range
<1>6. FreshTail(m)
  <2>1. \A q \in Req \ {r} : \A i \in DOMAIN k.req_to_blocks[q] :
            TailBlock(k, q, i) => m.block_hash[k.req_to_blocks[q][i]] = NoHash
    BY ONLY <1>0, <1>2 DEF FreshTail
  <2> QED BY Zenon, <1>0, <1>4, <1>5, <2>1, TailStep
<1>7. \A q \in Req : m.num_cached_block[q] \in Nat \union {-1}
  BY Zenon, <1>4 DEF Good, SameOthers
<1>8. Good(m) BY Zenon, <1>0, <1>1, <1>2, <1>6, <1>7 DEF Good
<1> QED BY Zenon, <1>4, <1>8 DEF m

\* remove_skipped_blocks reaches no assertion; the table keeps its length.
LEMMA RemoveSkippedGood ==
  ASSUME Facts, NEW k, Good(k), NEW r \in Req, NEW n \in Nat
  PROVE  LET m == RemoveSkippedBlocks(k, r, n)
         IN  /\ Good(m) /\ SameOthers(k, m, r)
             /\ m.block_hash = k.block_hash
             /\ m.num_cached_block = k.num_cached_block
             /\ Len(m.req_to_blocks[r]) = Len(k.req_to_blocks[r])
             /\ \A i \in DOMAIN k.req_to_blocks[r] :
                   m.req_to_blocks[r][i] \in {k.req_to_blocks[r][i], NullBlock}
             /\ Evolves(k, m, r, NumSkippedTokens(n))
<1> DEFINE m == RemoveSkippedBlocks(k, r, n)
           T == k.req_to_blocks[r]
           U == m.req_to_blocks[r]
<1>0. k \in KVState /\ Sound(k) /\ ~ k.err /\ FreshTail(k) BY Zenon DEF Good, Sound
<1>1. Sound(m) BY Zenon, <1>0, RemoveSkippedSound
<1>2. /\ m.err = k.err /\ m.block_hash = k.block_hash
      /\ m.num_cached_block = k.num_cached_block
  BY Zenon, <1>0 DEF RemoveSkippedBlocks, FreeBlocks, KVState
<1>3. /\ \A q \in Req \ {r} : m.req_to_blocks[q] = k.req_to_blocks[q]
      /\ DOMAIN U = 1..Len(T)
      /\ \A i \in 1..Len(T) : U[i] \in {T[i], NullBlock}
  BY Zenon, <1>0 DEF RemoveSkippedBlocks, FreeBlocks, KVState
<1>4. Len(T) \in Nat /\ DOMAIN T = 1..Len(T) /\ \A i \in DOMAIN T : T[i] \in Range(T)
  BY Zenon, <1>0, TableEntry
<1>5. Len(U) \in Nat /\ DOMAIN U = 1..Len(U)
  BY Zenon, <1>1, TableEntry DEF Sound
<1> HIDE DEF m, T, U
<1>6. Len(U) = Len(T) BY ONLY <1>3, <1>4, <1>5
<1>7. SameOthers(k, m, r) BY Zenon, <1>2, <1>3 DEF SameOthers
<1>8. FreshTail(m)
  <2>1. ASSUME NEW q \in Req \ {r}, NEW i \in DOMAIN k.req_to_blocks[q],
               TailBlock(k, q, i)
        PROVE  /\ m.block_hash[k.req_to_blocks[q][i]] = NoHash
               /\ k.req_to_blocks[q][i] \notin Range(U)
    <3>1. /\ k.block_hash[k.req_to_blocks[q][i]] = NoHash
          /\ k.req_to_blocks[q][i] \notin Range(T)
      BY Zenon, <1>0, <2>1 DEF FreshTail, T
    <3>2. Range(U) \subseteq Range(T) \union {NullBlock}
      BY Zenon, <1>3, <1>4 DEF Range
    <3> QED BY Zenon, <1>2, <2>1, <3>1, <3>2 DEF TailBlock
  <2>2. ASSUME NEW i \in DOMAIN U, TailBlock(m, r, i)
        PROVE  /\ m.block_hash[U[i]] = NoHash
               /\ \A q \in Req \ {r} : U[i] \notin Range(k.req_to_blocks[q])
    <3>1. i \in DOMAIN T /\ U[i] = T[i] /\ TailBlock(k, r, i)
      BY Zenon, <1>2, <1>3, <1>4, <2>2 DEF TailBlock, T, U
    <3> QED BY Zenon, <1>0, <1>2, <3>1 DEF FreshTail, T
  <2> QED BY Zenon, <1>0, <1>7, <2>1, <2>2, TailStep DEF U
<1>9. Good(m) BY Zenon, <1>0, <1>1, <1>2, <1>8 DEF Good
<1>10. Evolves(k, m, r, NumSkippedTokens(n))
  <2>1. ASSUME NEW i \in 1..Len(T), U[i] # T[i] PROVE i * BlockSize <= NumSkippedTokens(n)
    <3> DEFINE d    == NumSkippedTokens(n) \div BlockSize
               last == Lesser(d, Len(T))
               done == Max({0} \union {j \in 1..last : T[j] = NullBlock})
    <3>1. U[i] = IF i \in (done + 1)..last THEN NullBlock ELSE T[i]
      BY Zenon, <1>0 DEF RemoveSkippedBlocks, FreeBlocks, KVState, U, T, m
    <3> HIDE DEF done
    <3>2. i \in (done + 1)..last BY Zenon, <2>1, <3>1
    <3>3. /\ d \in Nat /\ NumSkippedTokens(n) \in Nat /\ BlockSize \in Nat \ {0}
          /\ d * BlockSize <= NumSkippedTokens(n)
      <4> DEFINE t == NumSkippedTokens(n)
      <4>0. n \in Int OBVIOUS
      <4>1. t \in Nat /\ BlockSize \in Nat \ {0}
        BY <4>0, SkippedType, ManagerAssumption, Zenon
      <4> HIDE DEF t
      <4>2. t \div BlockSize \in Nat /\ (t \div BlockSize) * BlockSize <= t
        BY Zenon, <4>1, DivBounds
      <4> QED BY Zenon, <4>1, <4>2 DEF t
    <3>4. last <= d
      <4> HIDE DEF d
      <4> QED BY ONLY <1>4, <3>3 DEF Lesser
    <3>5. i <= last BY ONLY <3>2
    <3> DEFINE t == NumSkippedTokens(n)
    <3> HIDE DEF last, d, t
    <3>6. last \in Int BY ONLY <1>4, <3>3 DEF last, Lesser
    <3>7. i \in Nat /\ i <= d BY ONLY <1>4, <3>3, <3>4, <3>5, <3>6
    <3>8. i * BlockSize <= d * BlockSize /\ i * BlockSize \in Nat /\ d * BlockSize \in Nat
      BY ONLY <3>3, <3>7
    <3>9. t \in Nat /\ d * BlockSize <= t BY Zenon, <3>3 DEF t
    <3>10. i * BlockSize <= t
      <4> DEFINE x == i * BlockSize
                 y == d * BlockSize
      <4>1. x \in Nat /\ y \in Nat /\ x <= y /\ y <= t BY Zenon, <3>8, <3>9
      <4> HIDE DEF x, y
      <4>2. x <= t BY ONLY <3>9, <4>1
      <4> QED BY Zenon, <4>2 DEF x
    <3> QED BY Zenon, <3>10 DEF t
  <2> QED BY Zenon, <1>3, <1>4, <2>1 DEF Evolves, T, U
<1> QED BY Zenon, <1>2, <1>3, <1>4, <1>6, <1>7, <1>9, <1>10 DEF m, T, U

\* A table grows without assertion while the queue is long enough.
LEMMA GrowTableGood ==
  ASSUME Facts, NEW k, Good(k), NEW r \in Req, NEW n \in 0..Len(k.free)
  PROVE  LET m == GrowTable(k, r, n)
         IN  /\ Good(m) /\ SameOthers(k, m, r)
             /\ m.num_cached_block = k.num_cached_block
             /\ Len(m.free) = Len(k.free) - n
             /\ Len(m.req_to_blocks[r]) = Len(k.req_to_blocks[r]) + n
             /\ \A i \in DOMAIN k.req_to_blocks[r] :
                   m.req_to_blocks[r][i] = k.req_to_blocks[r][i]
             /\ \A z : Evolves(k, m, r, z)
<1> DEFINE new  == SubSeq(k.free, 1, n)
           rest == SubSeq(k.free, n + 1, Len(k.free))
           ret  == Range(new)
           q    == IF EnableCaching THEN MaybeEvict(k, ret) ELSE k
           cnt  == [b \in Block |-> k.ref_cnt[b] + (IF b \in ret THEN 1 ELSE 0)]
           bad  == k.err \/ \E b \in ret : k.ref_cnt[b] # 0
           T    == k.req_to_blocks[r]
           m    == GrowTable(k, r, n)
<1>0. /\ k \in KVState /\ Sound(k) /\ ~ k.err /\ FreshTail(k) /\ CacheMapExact(k)
      /\ k.free \in Seq(Block) /\ Len(k.free) \in Nat /\ IsInjective(k.free)
  BY Zenon DEF Good, Sound, KVState, FreeQueueExact, Facts, LenProperties
<1>1. Sound(m) BY <1>0, GrowTableSound
<1>2. m = [[q EXCEPT !.free = rest, !.ref_cnt = cnt, !.err = bad]
             EXCEPT !.req_to_blocks = [k.req_to_blocks EXCEPT ![r] = @ \o new]]
  BY Zenon DEF GrowTable, GetNewBlocks, NewBlocks, GetNumFreeBlocks
<1>3. /\ new \in Seq(Block) /\ Len(new) = n
      /\ rest \in Seq(Block) /\ Len(rest) = Len(k.free) - n
      /\ ret \subseteq Range(k.free)
  BY <1>0 DEF Facts, SplitProperties
<1>4. DOMAIN new = 1..n /\ \A i \in 1..n : new[i] \in ret
  BY <1>3, Zenon DEF Range, Facts, LenProperties
<1> HIDE DEF new, rest, ret
<1>5. /\ ret \subseteq Block \ {NullBlock}
      /\ \A p \in Req : ret \intersect Range(k.req_to_blocks[p]) = {}
  <2>1. ASSUME NEW b \in ret, NEW p \in Req
        PROVE  b \in Block \ {NullBlock} /\ b \notin Range(k.req_to_blocks[p])
    BY Zenon, <1>0, <1>3, FreeUnused
  <2> QED BY Zenon, <2>1
<1>6. ~ bad
  <2>1. \A b \in ret : k.ref_cnt[b] = 0 BY Zenon, <1>0, <1>3 DEF Sound, FreeQueueExact
  <2> QED BY Zenon, <1>0, <2>1
<1>7. /\ q \in KVState
      /\ q = [k EXCEPT !.cached = q.cached, !.block_hash = q.block_hash]
      /\ \A b \in Block \ {NullBlock} :
            q.block_hash[b] = IF b \in ret THEN NoHash ELSE k.block_hash[b]
  <2>1. CASE EnableCaching
    <3> DEFINE e == MaybeEvict(k, ret)
    <3>1. ret \in SUBSET Block BY Zenon, <1>5
    <3>2. /\ e \in KVState
          /\ e = [k EXCEPT !.cached = e.cached, !.block_hash = e.block_hash]
          /\ \A b \in Block \ {NullBlock} :
                e.block_hash[b] = IF b \in ret THEN NoHash ELSE k.block_hash[b]
          /\ e.block_hash[NullBlock] = k.block_hash[NullBlock]
          /\ CacheMapExact(e)
      BY Zenon, <1>0, <3>1, MaybeEvictFields
    <3>3. q = e BY Zenon, <2>1
    <3> HIDE DEF e, q
    <3> QED BY Zenon, <3>2, <3>3
  <2>2. CASE ~ EnableCaching
    <3>1. k = [k EXCEPT !.cached = k.cached, !.block_hash = k.block_hash]
      BY <1>0, Zenon DEF KVState
    <3>2. \A b \in Block : k.block_hash[b] = NoHash BY Zenon, <1>0, <2>2 DEF Sound
    <3> QED BY Zenon, <1>0, <2>2, <3>1, <3>2
  <2> QED BY Zenon, <2>1, <2>2
<1> HIDE DEF q, cnt, bad, m
<1>8. /\ m.free = rest /\ m.err = bad /\ m.block_hash = q.block_hash
      /\ m.num_cached_block = k.num_cached_block
      /\ m.req_to_blocks = [k.req_to_blocks EXCEPT ![r] = T \o new]
  BY <1>0, <1>2, <1>7, Zenon DEF KVState
<1>9. /\ m.req_to_blocks[r] = T \o new
      /\ \A p \in Req \ {r} : m.req_to_blocks[p] = k.req_to_blocks[p]
  BY Zenon, <1>0, <1>8 DEF KVState
<1>10. SameOthers(k, m, r) BY Zenon, <1>8, <1>9 DEF SameOthers
<1>11. T \in Seq(Block) /\ Len(T) \in Nat /\ DOMAIN T = 1..Len(T)
  BY Zenon, <1>0, TableEntry
<1> DEFINE U == m.req_to_blocks[r]
<1>12. IsConcat(U, T, new) BY Zenon, <1>3, <1>9, <1>11 DEF Facts, ConcatEntries
<1> HIDE DEF T, U
<1>13. FreshTail(m)
  <2>1. ASSUME NEW p \in Req \ {r}, NEW i \in DOMAIN k.req_to_blocks[p],
               TailBlock(k, p, i)
        PROVE  /\ m.block_hash[k.req_to_blocks[p][i]] = NoHash
               /\ k.req_to_blocks[p][i] \notin Range(U)
    <3> DEFINE b == k.req_to_blocks[p][i]
    <3>1. k.block_hash[b] = NoHash /\ b \notin Range(T)
      BY Zenon, <1>0, <2>1 DEF FreshTail, T
    <3>2. b \in Block \ {NullBlock} /\ b \in Range(k.req_to_blocks[p])
      BY Zenon, <1>0, <2>1, TableEntry DEF TailBlock
    <3>3. b \notin ret BY Zenon, <1>5, <3>2
    <3> HIDE DEF b
    <3>4. m.block_hash[b] = NoHash BY Zenon, <1>7, <1>8, <3>1, <3>2, <3>3
    <3>5. b \notin Range(U) BY Zenon, <1>12, <3>1, <3>3 DEF IsConcat, ret
    <3> QED BY Zenon, <3>4, <3>5 DEF b
  <2>2. ASSUME NEW i \in DOMAIN U, TailBlock(m, r, i)
        PROVE  /\ m.block_hash[U[i]] = NoHash
               /\ \A p \in Req \ {r} : U[i] \notin Range(k.req_to_blocks[p])
    <3>1. CASE i \in 1..Len(T)
      <4>1. U[i] = T[i] /\ TailBlock(k, r, i)
        BY Zenon, <1>8, <1>12, <2>2, <3>1 DEF IsConcat, TailBlock, T, U
      <4>2. T[i] \in Block \ {NullBlock}
        BY Zenon, <1>0, <1>11, <3>1, <4>1, TableEntry DEF TailBlock, T
      <4>3. /\ k.block_hash[T[i]] = NoHash
            /\ \A p \in Req \ {r} : T[i] \notin Range(k.req_to_blocks[p])
        BY Zenon, <1>0, <1>11, <3>1, <4>1 DEF FreshTail, T
      <4>4. m.block_hash[T[i]] = NoHash BY Zenon, <1>7, <1>8, <4>2, <4>3
      <4> QED BY Zenon, <4>1, <4>3, <4>4
    <3>2. CASE i \notin 1..Len(T)
      <4>1. PICK j \in 1..Len(new) : i = Len(T) + j BY Zenon, <1>12, <3>2 DEF IsConcat
      <4>2. U[i] \in ret BY <1>3, <1>4, <1>12, <4>1, Zenon DEF IsConcat
      <4> QED BY Zenon, <1>5, <1>7, <1>8, <4>2
    <3> QED BY Zenon, <3>1, <3>2
  <2> QED BY Zenon, <1>0, <1>10, <2>1, <2>2, TailStep DEF U
<1>14. Good(m) BY Zenon, <1>1, <1>6, <1>8, <1>13 DEF Good
<1>15. Len(U) = Len(T) + n /\ \A i \in DOMAIN T : U[i] = T[i]
  BY Zenon, <1>3, <1>11, <1>12 DEF IsConcat
<1>16. Len(m.free) = Len(k.free) - n BY Zenon, <1>3, <1>8
<1>17. ASSUME NEW z PROVE Evolves(k, m, r, z)
  <2>1. DOMAIN T \subseteq DOMAIN U BY ONLY <1>3, <1>11, <1>12 DEF IsConcat
  <2>2. ASSUME NEW i \in DOMAIN U \ DOMAIN T PROVE U[i] # NullBlock
    <3>1. PICK j \in 1..Len(new) : i = Len(T) + j BY Zenon, <1>11, <1>12, <2>2 DEF IsConcat
    <3>2. U[i] \in ret BY <1>3, <1>4, <1>12, <3>1, Zenon DEF IsConcat
    <3> QED BY Zenon, <1>5, <3>2
  <2> QED BY Zenon, <1>15, <2>1, <2>2, EvolvesGrown DEF T, U
<1> QED BY Zenon, <1>8, <1>10, <1>14, <1>15, <1>16, <1>17 DEF m, T, U

\* The places of a list that hold a block of S.
PlacesOf(s, S) == {i \in 1..Len(s) : s[i] \in S}

\* The blocks of kept that are in the free queue: as many as their places.
LEMMA IdleCount ==
  ASSUME Facts, NEW kept \in Seq(Block), DistinctOutside(kept, {NullBlock}),
         NEW queue \in Seq(Block), IsInjective(queue),
         NEW S, S \subseteq Range(kept) \ {NullBlock}, S \subseteq Range(queue)
  PROVE  /\ Cardinality(PlacesOf(queue, S)) = Cardinality(PlacesOf(kept, S))
         /\ Cardinality(PlacesOf(kept, S)) \in Nat
<1> DEFINE P == {i \in 1..Len(kept) : kept[i] \in S}
           F == {j \in 1..Len(queue) : queue[j] \in S}
           f == [i \in P |-> kept[i]]
           g == [j \in F |-> queue[j]]
<1>0. /\ Len(kept) \in Nat /\ DOMAIN kept = 1..Len(kept)
      /\ Len(queue) \in Nat /\ DOMAIN queue = 1..Len(queue)
  BY Zenon DEF Facts, LenProperties
<1>1. IsFiniteSet(P) /\ IsFiniteSet(F)
  <2>1. IsFiniteSet(1..Len(kept)) /\ IsFiniteSet(1..Len(queue)) BY <1>0
    DEF Facts, FiniteInterval
  <2> QED BY Zenon, <2>1 DEF Facts, FiniteSubset
<1>2. f \in Bijection(P, S)
  <2>1. f \in [P -> S] BY Zenon
  <2>2. \A x, y \in P : f[x] = f[y] => x = y
    BY Zenon, <1>0 DEF DistinctOutside
  <2>3. \A b \in S : \E i \in P : f[i] = b
    BY Zenon, <1>0 DEF Range
  <2> HIDE DEF f, P
  <2> QED BY Zenon, <2>1, <2>2, <2>3 DEF Bijection, Injection, Surjection, IsInjective
<1>3. g \in Bijection(F, S)
  <2>1. g \in [F -> S] BY Zenon
  <2>2. \A x, y \in F : g[x] = g[y] => x = y
    BY Zenon, <1>0 DEF IsInjective
  <2>3. \A b \in S : \E i \in F : g[i] = b
    BY Zenon, <1>0 DEF Range
  <2> HIDE DEF g, F
  <2> QED BY Zenon, <2>1, <2>2, <2>3 DEF Bijection, Injection, Surjection, IsInjective
<1> HIDE DEF P, F, f, g
<1>4. Cardinality(P) = Cardinality(S)
  BY Zenon, <1>1, <1>2 DEF ExistsBijection, Facts, FiniteBijection
<1>5. Cardinality(F) = Cardinality(S)
  BY Zenon, <1>1, <1>3 DEF ExistsBijection, Facts, FiniteBijection
<1>6. Cardinality(P) \in Nat BY Zenon, <1>1 DEF Facts, FiniteCardinality
<1>7. PlacesOf(kept, S) = P /\ PlacesOf(queue, S) = F BY Zenon DEF PlacesOf, P, F
<1> QED BY Zenon, <1>4, <1>5, <1>6, <1>7

\* The places of a list, from the first one on, that hold an unused block.
IdlePlaces(cnt, blocks, first) ==
    {i \in first..Len(blocks) : blocks[i] # NullBlock /\ cnt[blocks[i]] = 0}

\* Hits enter an empty table without assertion, and the queue loses as many
\* blocks as the hits have idle places.
LEMMA TouchGood ==
  ASSUME Facts, NEW k, Good(k), NEW r \in Req, k.req_to_blocks[r] = << >>,
         NEW table, HitsOK(k, r, table),
         NEW kept \in Seq(Block), DistinctOutside(kept, {NullBlock}),
         Range(kept) \ {NullBlock} = Range(table) \ {NullBlock}
  PROVE  LET m == Touched(k, r, kept, table)
             idle == IdlePlaces(k.ref_cnt, kept, 1)
         IN  /\ Good(m) /\ SameOthers(k, m, r)
             /\ m.req_to_blocks[r] = table /\ m.num_cached_block[r] = Len(table)
             /\ Len(m.free) = Len(k.free) - Cardinality(idle)
             /\ Cardinality(idle) \in Nat
<1> DEFINE S == {b \in Range(kept) \ {NullBlock} : k.ref_cnt[b] = 0}
           idle == {i \in 1..Len(kept) : kept[i] # NullBlock /\ k.ref_cnt[kept[i]] = 0}
           m == Touched(k, r, kept, table)
<1>0. /\ k \in KVState /\ Sound(k) /\ ~ k.err /\ FreshTail(k)
      /\ k.free \in Seq(Block) /\ Len(k.free) \in Nat /\ IsInjective(k.free)
      /\ table \in Seq(Block) /\ Len(table) \in Nat /\ DOMAIN table = 1..Len(table)
  BY Zenon DEF Good, Sound, KVState, FreeQueueExact, HitsOK, Facts, LenProperties
<1>1. Sound(m) BY <1>0, TouchSound, Zenon
<1>2. Len(kept) \in Nat /\ DOMAIN kept = 1..Len(kept) /\ Range(kept) \subseteq Block
  BY DEF Range, Facts, LenProperties, ElementOfSeq
<1>3. S \subseteq Range(k.free)
  BY Zenon, <1>0, <1>2 DEF Sound, FreeQueueExact
<1>4. /\ m.free = Without(k.free, S) /\ m.block_hash = k.block_hash
      /\ m.err = (k.err \/ ~ (S \subseteq Range(k.free)))
      /\ m.req_to_blocks = [k.req_to_blocks EXCEPT ![r] = table]
      /\ m.num_cached_block = [k.num_cached_block EXCEPT ![r] = Len(table)]
  BY Zenon, <1>0 DEF Touched, Touch, KVState
<1>5. idle = {i \in 1..Len(kept) : kept[i] \in S}
  BY Zenon, <1>2 DEF Range
<1>6. S \subseteq Range(kept) \ {NullBlock} BY Zenon
<1> HIDE DEF m, S, idle
<1>7. Len(m.free) = Len(k.free) - Cardinality(idle) /\ Cardinality(idle) \in Nat
  <2>1. Len(m.free) = Len(k.free) - Cardinality({j \in 1..Len(k.free) : k.free[j] \in S})
    BY <1>0, <1>4, SMTT(30) DEF Facts, WithoutLength
  <2>2. /\ Cardinality(PlacesOf(k.free, S)) = Cardinality(PlacesOf(kept, S))
        /\ Cardinality(PlacesOf(kept, S)) \in Nat
    <3> DEFINE queue == k.free
    <3>1. queue \in Seq(Block) /\ IsInjective(queue) /\ S \subseteq Range(queue) BY Zenon, <1>0, <1>3
    <3>2. kept \in Seq(Block) /\ DistinctOutside(kept, {NullBlock}) BY Zenon
    <3> HIDE DEF queue
    <3>3. /\ Cardinality(PlacesOf(queue, S)) = Cardinality(PlacesOf(kept, S))
          /\ Cardinality(PlacesOf(kept, S)) \in Nat
      BY ONLY Facts, <1>6, <3>1, <3>2, IdleCount, Zenon
    <3> QED BY Zenon, <3>3 DEF queue
  <2>3. /\ PlacesOf(kept, S) = idle
        /\ PlacesOf(k.free, S) = {j \in 1..Len(k.free) : k.free[j] \in S}
    BY Zenon, <1>5 DEF PlacesOf
  <2> HIDE DEF PlacesOf
  <2> QED BY Zenon, <2>1, <2>2, <2>3
<1>8. /\ m.req_to_blocks[r] = table /\ m.num_cached_block[r] = Len(table)
      /\ SameOthers(k, m, r)
  BY Zenon, <1>0, <1>4 DEF KVState, SameOthers
<1>9. FreshTail(m)
  <2>1. ASSUME NEW p \in Req \ {r}, NEW i \in DOMAIN k.req_to_blocks[p],
               TailBlock(k, p, i)
        PROVE  /\ m.block_hash[k.req_to_blocks[p][i]] = NoHash
               /\ k.req_to_blocks[p][i] \notin Range(table)
    <3> DEFINE b == k.req_to_blocks[p][i]
    <3>1. k.block_hash[b] = NoHash /\ b # NullBlock
      BY Zenon, <1>0, <2>1 DEF FreshTail, TailBlock
    <3> HIDE DEF b
    <3>2. ASSUME NEW j \in DOMAIN table, table[j] = b PROVE FALSE
      <4>1. j \in Nat \ {0} BY ONLY <1>0
      <4>2. j * BlockSize <= Len(TokenStream[r]) /\ k.block_hash[b] = BlockHash(r, j)
        BY Zenon, <3>1, <3>2 DEF HitsOK
      <4> QED BY Zenon, <3>1, <4>1, <4>2, BlockHashType
    <3>3. b \notin Range(table) BY Zenon, <3>2 DEF Range
    <3> QED BY Zenon, <1>4, <3>1, <3>3 DEF b
  <2>2. \A i \in DOMAIN m.req_to_blocks[r] : ~ TailBlock(m, r, i)
    BY ONLY <1>0, <1>8 DEF TailBlock, Greater
  <2> QED BY Zenon, <1>0, <1>8, <2>1, <2>2, TailStep
<1>10. ~ m.err BY <1>0, <1>3, <1>4, Zenon
<1>11. \A q \in Req : m.num_cached_block[q] \in Nat \union {-1}
  BY Zenon, <1>0, <1>8 DEF Good, SameOthers
<1>12. Good(m) BY Zenon, <1>1, <1>9, <1>10, <1>11 DEF Good
<1> QED BY Zenon, <1>7, <1>8, <1>12 DEF m, idle, IdlePlaces

\* cache_blocks reaches no assertion: the request has the hashes, and none of
\* the blocks to cache carries one yet.
LEMMA CacheBlocksGood ==
  ASSUME Facts, NEW k, Good(k), NEW r \in Req, NEW len \in 0..Len(TokenStream[r]),
         NEW n \in 0..len
  PROVE  LET m == CacheBlocks(k, r, n, len)
         IN  /\ Good(m) /\ SameOthers(k, m, r)
             /\ m.req_to_blocks = k.req_to_blocks
             /\ m.num_cached_block[r] \in Nat \union {k.num_cached_block[r]}
<1> DEFINE cached == Greater(0, k.num_cached_block[r])
           full   == n \div BlockSize
           T      == k.req_to_blocks[r]
           hashes == BlockHashes(r, len)
           counts == [k.num_cached_block EXCEPT ![r] = full]
           new    == {i \in (cached + 1)..full : i \in DOMAIN T /\ T[i] # NullBlock}
           At(b)  == CHOOSE i \in new : T[i] = b
           For(h) == CHOOSE i \in new : hashes[i] = h
           hash   == [b \in Block |->
                 IF \E i \in new : T[i] = b THEN hashes[At(b)] ELSE k.block_hash[b]]
           map    == [h \in Hash |->
                 IF \E i \in new : hashes[i] = h THEN Append(k.cached[h], T[For(h)])
                 ELSE k.cached[h]]
           m      == CacheBlocks(k, r, n, len)
<1>0. /\ k \in KVState /\ Sound(k) /\ ~ k.err /\ FreshTail(k)
      /\ Len(TokenStream[r]) \in Nat /\ BlockSize \in Nat \ {0}
      /\ n \in Nat /\ len \in Nat /\ n <= len
  BY ManagerAssumption DEF Good, Sound, Facts, LenProperties
<1>1. /\ full \in Nat /\ len \div BlockSize \in Nat /\ full <= len \div BlockSize
  BY Zenon, <1>0, DivBounds, DivMonotone
<1>2. cached \in Nat BY ONLY <1>0 DEF KVState, Greater
<1>3. CASE ~ EnableCaching \/ cached >= full
  BY Zenon, <1>3 DEF CacheBlocks, SameOthers
<1>4. CASE EnableCaching /\ ~ (cached >= full)
  <2>1. Sound(m) BY Zenon, <1>0, CacheBlocksSound
  <2>2. ~ (full > Len(hashes))
    <3>1. Len(hashes) = len \div BlockSize BY ONLY <1>1 DEF BlockHashes
    <3> HIDE DEF full, hashes
    <3> QED BY ONLY <1>1, <3>1
  <2>3. \A i \in new : k.block_hash[T[i]] = NoHash
    <3> SUFFICES ASSUME NEW i \in new PROVE k.block_hash[T[i]] = NoHash BY Zenon
    <3>1. i \in DOMAIN T /\ T[i] # NullBlock /\ i > cached BY ONLY <1>1, <1>2
    <3>2. TailBlock(k, r, i) BY Zenon, <3>1 DEF TailBlock
    <3> QED BY Zenon, <1>0, <3>1, <3>2 DEF FreshTail
  <2>4. m = [[k EXCEPT !.block_hash = hash, !.cached = map]
               EXCEPT !.num_cached_block = counts]
    <3>1. m = [CacheFullBlocks(k, T, hashes, cached, full) EXCEPT
                 !.num_cached_block = counts]
      BY Zenon, <1>4 DEF CacheBlocks
    <3>2. CacheFullBlocks(k, T, hashes, cached, full)
            = [k EXCEPT !.block_hash = hash, !.cached = map]
      BY Zenon, <2>2, <2>3 DEF CacheFullBlocks
    <3> QED BY Zenon, <3>1, <3>2
  <2>5. /\ m.block_hash = hash /\ m.err = k.err /\ m.num_cached_block = counts
        /\ m.req_to_blocks = k.req_to_blocks
    <3> HIDE DEF hash, map, counts, m
    <3> QED BY Zenon, <1>0, <2>4 DEF KVState
  <2>6. ASSUME NEW b \in Block, ~ \E i \in new : T[i] = b
        PROVE  m.block_hash[b] = k.block_hash[b]
    BY Zenon, <2>5, <2>6
  <2>7. \A i, j \in DOMAIN T : T[i] = T[j] /\ T[i] # NullBlock => i = j
    BY Zenon, <1>0 DEF Sound, RefCountsExact
  <2>8. new \subseteq DOMAIN T /\ \A i \in new : i <= full /\ T[i] # NullBlock
    BY ONLY <1>1, <1>2
  <2>9. m.num_cached_block[r] = full /\ SameOthers(k, m, r)
    <3>1. k.num_cached_block \in [Req -> Int] BY Zenon, <1>0 DEF KVState
    <3> HIDE DEF m, full
    <3> QED BY Zenon, <2>5, <3>1 DEF SameOthers
  <2>10. ~ (full <= cached) BY Zenon, <1>1, <1>2, <1>4
  <2> HIDE DEF m, new, hash, full
  <2>11. FreshTail(m)
    <3>1. ASSUME NEW p \in Req \ {r}, NEW i \in DOMAIN k.req_to_blocks[p],
                 TailBlock(k, p, i)
          PROVE  /\ m.block_hash[k.req_to_blocks[p][i]] = NoHash
                 /\ k.req_to_blocks[p][i] \notin Range(m.req_to_blocks[r])
      <4> DEFINE b == k.req_to_blocks[p][i]
      <4>1. k.block_hash[b] = NoHash /\ b \notin Range(T)
        BY Zenon, <1>0, <3>1 DEF FreshTail
      <4>2. b \in Block BY Zenon, <1>0, TableEntry
      <4>3. ~ \E j \in new : T[j] = b BY Zenon, <2>8, <4>1 DEF Range
      <4> QED BY Zenon, <2>5, <2>6, <4>1, <4>2, <4>3
    <3>2. ASSUME NEW i \in DOMAIN m.req_to_blocks[r], TailBlock(m, r, i)
          PROVE  /\ m.block_hash[m.req_to_blocks[r][i]] = NoHash
                 /\ \A q \in Req \ {r} :
                       m.req_to_blocks[r][i] \notin Range(k.req_to_blocks[q])
      <4>1. i \in DOMAIN T /\ m.req_to_blocks[r][i] = T[i] /\ T[i] # NullBlock
        BY Zenon, <2>5, <3>2 DEF TailBlock
      <4>2. i > full
        <5>1. i > Greater(0, full) BY Zenon, <2>9, <3>2 DEF TailBlock
        <5>2. Greater(0, full) = full BY ONLY <1>1 DEF Greater
        <5> QED BY Zenon, <5>1, <5>2
      <4>3. i \in Nat BY <1>0, <4>1, TableEntry
      <4>4. i > cached BY ONLY <1>1, <1>2, <2>10, <4>2, <4>3
      <4>5. TailBlock(k, r, i) BY Zenon, <4>1, <4>4 DEF TailBlock
      <4>6. /\ k.block_hash[T[i]] = NoHash
            /\ \A q \in Req \ {r} : T[i] \notin Range(k.req_to_blocks[q])
        BY Zenon, <1>0, <4>1, <4>5 DEF FreshTail
      <4>7. ~ \E j \in new : T[j] = T[i]
        <5>1. ASSUME NEW j \in new, T[j] = T[i] PROVE FALSE
          <6>1. j = i BY Zenon, <2>7, <2>8, <4>1, <5>1
          <6>2. i <= full BY Zenon, <2>8, <6>1
          <6> QED BY ONLY <1>1, <4>2, <4>3, <6>2
        <5> QED BY Zenon, <5>1
      <4>8. T[i] \in Block BY Zenon, <1>0, <4>1, TableEntry
      <4>9. m.block_hash[T[i]] = NoHash BY Zenon, <2>6, <4>6, <4>7, <4>8
      <4> QED BY Zenon, <4>1, <4>6, <4>9
    <3> QED BY Zenon, <1>0, <2>9, <3>1, <3>2, TailStep
  <2>12. \A q \in Req : m.num_cached_block[q] \in Nat \union {-1}
    BY Zenon, <1>1, <2>9 DEF Good, SameOthers
  <2>13. Good(m) BY Zenon, <1>0, <2>1, <2>5, <2>11, <2>12 DEF Good
  <2> QED BY Zenon, <1>1, <2>5, <2>9, <2>13 DEF m
<1> QED BY Zenon, <1>3, <1>4

-----------------------------------------------------------------------------
(* The capacity check of allocate_slots *)

\* The idle hits that get_num_blocks_to_allocate counts are those touched.
LEMMA IdleShift ==
  ASSUME Facts, NEW c, NEW hits \in Seq(Block), NEW s \in Nat, NEW kept \in Seq(Block),
         IsDrop(kept, hits, s)
  PROVE  Cardinality(IdlePlaces(c, hits, s + 1)) = Cardinality(IdlePlaces(c, kept, 1))
<1> DEFINE P == {i \in (s + 1)..Len(hits) : hits[i] # NullBlock /\ c[hits[i]] = 0}
           Q == {i \in 1..Len(kept) : kept[i] # NullBlock /\ c[kept[i]] = 0}
           f == [i \in Q |-> s + i]
<1>0. /\ Len(kept) \in Nat /\ Len(hits) \in Nat
      /\ Len(kept) = Greater(Len(hits) - s, 0)
      /\ \A i \in 1..Len(kept) : s + i \in 1..Len(hits) /\ kept[i] = hits[s + i]
  BY Zenon DEF IsDrop, Facts, LenProperties
<1>1. IsFiniteSet(Q)
  <2>1. IsFiniteSet(1..Len(kept)) BY <1>0 DEF Facts, FiniteInterval
  <2> QED BY Zenon, <2>1 DEF Facts, FiniteSubset
<1>2. \A i \in Q : s + i \in P BY ONLY <1>0
<1>3. ASSUME NEW j \in P PROVE \E i \in Q : s + i = j
  <2>1. j - s \in 1..(Len(hits) - s) /\ s + (j - s) = j BY ONLY <1>0
  <2>2. Len(kept) = Len(hits) - s
    <3>1. ~ (Len(hits) - s < 0) BY ONLY <1>0
    <3> QED BY Zenon, <1>0, <3>1 DEF Greater
  <2>3. j - s \in 1..Len(kept) BY Zenon, <2>1, <2>2
  <2>4. kept[j - s] = hits[j] BY Zenon, <1>0, <2>1, <2>3
  <2>5. j - s \in Q BY Zenon, <2>3, <2>4
  <2> QED BY Zenon, <2>1, <2>5
<1>4. Q \subseteq Nat BY ONLY <1>0
<1> HIDE DEF P, Q
<1>5. f \in Bijection(Q, P)
  <2>1. f \in [Q -> P] BY Zenon, <1>2
  <2>2. \A x, y \in Q : f[x] = f[y] => x = y BY ONLY <1>4
  <2>3. \A j \in P : \E i \in Q : f[i] = j BY Zenon, <1>3
  <2> HIDE DEF f
  <2> QED BY Zenon, <2>1, <2>2, <2>3 DEF Bijection, Injection, Surjection, IsInjective
<1>6. Cardinality(P) = Cardinality(Q)
  BY Zenon, <1>1, <1>5 DEF ExistsBijection, Facts, FiniteBijection
<1> QED BY Zenon, <1>6 DEF P, Q, IdlePlaces

\* What is left after the hits and the external blocks covers the rest.
LEMMA CapacityLeft ==
  ASSUME NEW required \in Nat, NEW held \in Nat, NEW idle \in Nat, NEW free \in Nat,
         NEW mid \in Nat, held <= mid, mid <= required,
         Greater(required - held, 0) + idle <= free
  PROVE  /\ mid - held \in 0..(free - idle)
         /\ Greater(required - held, 0) <= free - idle
         /\ Greater(required - mid, 0) <= free - idle - (mid - held)
BY DEF Greater

\* So do those of the table that the hits enter.
LEMMA PlacedNulls ==
  ASSUME Facts, NEW hits \in Seq(Block), NEW n \in Nat, NullHits(hits, n),
         NEW kept \in Seq(Block), IsDrop(kept, hits, n \div BlockSize),
         kept = Kept(hits, n \div BlockSize)
  PROVE  NullHits(Placed(hits, n \div BlockSize), n)
<1> DEFINE s     == n \div BlockSize
           nulls == [i \in 1..s |-> NullBlock]
           table == nulls \o kept
<1>0. /\ Len(kept) \in Nat /\ DOMAIN kept = 1..Len(kept)
      /\ DOMAIN hits = 1..Len(hits) /\ BlockSize \in Nat \ {0}
  BY Zenon, ManagerAssumption DEF Facts, LenProperties
<1>1. s \in Nat /\ s * BlockSize <= n BY Zenon, <1>0, DivBounds
<1>2. Placed(hits, s) = table BY Zenon DEF Placed
<1>3. \A i \in 1..Len(kept) : s + i \in DOMAIN hits /\ kept[i] = hits[s + i]
  BY Zenon, <1>0 DEF IsDrop
<1> HIDE DEF s
<1>4. nulls \in Seq(Block) /\ Len(nulls) = s
  <2>1. nulls \in Seq(Block) BY ONLY <1>1, PoolAssumption
  <2> QED BY ONLY <1>1, <2>1 DEF Facts, LenProperties
<1> HIDE DEF nulls
<1>5. IsConcat(table, nulls, kept) BY Zenon, <1>4 DEF Facts, ConcatEntries
<1> HIDE DEF table
<1>6. ASSUME NEW i \in DOMAIN table, table[i] = NullBlock PROVE i * BlockSize <= n
  <2>1. CASE i \in 1..Len(nulls)
    <3>1. i \in Nat /\ i <= s BY ONLY <1>1, <1>4, <2>1
    <3>2. /\ i * BlockSize <= s * BlockSize /\ i * BlockSize \in Nat
          /\ s * BlockSize \in Nat
      BY ONLY <1>0, <1>1, <3>1
    <3> DEFINE x == i * BlockSize
               y == s * BlockSize
    <3>3. x \in Nat /\ y \in Nat /\ x <= y /\ y <= n BY Zenon, <1>1, <3>2
    <3> HIDE DEF x, y
    <3>4. x <= n BY ONLY <3>3
    <3> QED BY Zenon, <3>4 DEF x
  <2>2. CASE i \notin 1..Len(nulls)
    <3>1. PICK j \in 1..Len(kept) : i = Len(nulls) + j BY Zenon, <1>5, <2>2 DEF IsConcat
    <3>2. table[i] = kept[j] /\ i = s + j BY Zenon, <1>4, <1>5, <3>1 DEF IsConcat
    <3>3. i \in DOMAIN hits /\ hits[i] = NullBlock BY Zenon, <1>3, <1>6, <3>1, <3>2
    <3> QED BY Zenon, <3>3 DEF NullHits
  <2> QED BY Zenon, <2>1, <2>2
<1> QED BY Zenon, <1>2, <1>6 DEF NullHits, s

\* allocate_new_computed_blocks for a request without blocks reaches no
\* assertion once the capacity check has passed, and leaves enough blocks for
\* allocate_new_blocks.
LEMMA AllocateComputedGood ==
  ASSUME Facts, NEW k, Good(k), NEW r \in Req, NEW hits, HitsOK(k, r, hits),
         k.num_cached_block[r] = -1, k.req_to_blocks[r] = << >>,
         EnableCaching \/ hits = << >>,
         NEW local \in Nat, local = Len(hits) * BlockSize,
         NEW ext \in Nat, NEW need \in Nat, local + ext <= need,
         NumBlocksToAllocate(k, r, need, hits, local + ext) <= Len(k.free)
  PROVE  LET m == AllocateNewComputedBlocks(k, r, hits, local, ext)
         IN  /\ Good(m) /\ SameOthers(k, m, r) /\ m.num_cached_block[r] \in Nat
             /\ Greater(CDiv(need, BlockSize) - Len(m.req_to_blocks[r]), 0) <= Len(m.free)
             /\ NullHits(hits, NumSkippedTokens(local + ext)) =>
                  Evolves(k, m, r, NumSkippedTokens(local + ext))
<1> DEFINE total    == local + ext
           skipTok  == NumSkippedTokens(total)
           skipped  == skipTok \div BlockSize
           external == IF skipped > 0 THEN Lesser(total - skipTok, ext) ELSE ext
           kept     == Kept(hits, skipped)
           table    == Placed(hits, skipped)
           touched  == Touched(k, r, kept, table)
           mid      == CDiv(total, BlockSize)
           required == CDiv(need, BlockSize)
           idle     == Cardinality(IdlePlaces(k.ref_cnt, kept, 1))
           free     == Len(k.free)
           m        == AllocateNewComputedBlocks(k, r, hits, local, ext)
<1>0. /\ k \in KVState /\ total \in Nat /\ BlockSize \in Nat \ {0}
      /\ hits \in Seq(Block) /\ Len(hits) \in Nat
      /\ k.free \in Seq(Block) /\ Len(k.free) \in Nat
  <2>1. k \in KVState /\ k.free \in Seq(Block) BY Zenon DEF Good, Sound, KVState
  <2>2. hits \in Seq(Block) BY Zenon DEF HitsOK
  <2>3. Len(hits) \in Nat /\ Len(k.free) \in Nat
    BY Zenon, <2>1, <2>2 DEF Facts, LenProperties
  <2>4. local \in Nat /\ ext \in Nat BY Zenon
  <2>5. total \in Nat BY ONLY <2>4
  <2>6. BlockSize \in Nat \ {0} BY Zenon, ManagerAssumption
  <2> QED BY Zenon, <2>1, <2>2, <2>3, <2>5, <2>6
<1>1. /\ skipTok \in Nat /\ skipped \in Nat /\ skipTok <= total
      /\ mid \in Nat /\ required \in Nat
  <2>1. total \in Int BY ONLY <1>0
  <2> HIDE DEF total
  <2> QED BY <1>0, <2>1, SkippedType, SkippedBound, CDivType, Zenon
<1>2. skipped <= mid /\ Len(hits) <= mid /\ mid <= required
  <2>1. mid <= required /\ total \div BlockSize <= mid
    <3>1. total <= need BY Zenon
    <3> HIDE DEF total
    <3> QED BY <1>0, <3>1, CDivFacts, Zenon
  <2>2. skipped <= total \div BlockSize
    <3> HIDE DEF total, skipTok
    <3> QED BY <1>0, <1>1, DivMonotone, Zenon
  <2>3. Len(hits) <= total \div BlockSize
    <3>1. Len(hits) * BlockSize <= total BY <1>0
    <3> HIDE DEF total
    <3> QED BY <1>0, <3>1, DivGreatest, Zenon
  <2>4. total \div BlockSize \in Nat
    <3> HIDE DEF total
    <3> QED BY <1>0, DivBounds, Zenon
  <2> HIDE DEF total, skipped, mid, required
  <2> QED BY ONLY <1>0, <1>1, <2>1, <2>2, <2>3, <2>4
<1>3. NumBlocksToAllocate(k, r, need, hits, total)
        = Greater(required - Greater(skipped, Len(hits)), 0)
            + Cardinality(IdlePlaces(k.ref_cnt, hits, skipped + 1))
  <2>1. Len(k.req_to_blocks[r]) = 0 BY Zenon DEF Facts, EmptySeq
  <2>2. Len(hits) + 0 = Len(hits) BY ONLY <1>0
  <2>3. Greater(0, skipped - 0) = skipped
    <3> HIDE DEF skipped
    <3> QED BY ONLY <1>1 DEF Greater
  <2> QED BY <2>1, <2>2, <2>3, Zenon DEF NumBlocksToAllocate, IdlePlaces
<1>4. ~ (~ EnableCaching /\ kept # << >>)
  <2>1. ASSUME hits = << >> PROVE kept = << >>
    <3> HIDE DEF skipped
    <3> QED BY ONLY <1>1, <2>1 DEF Kept
  <2> QED BY Zenon, <2>1
<1>5. m = IF external > 0 THEN GrowTable(touched, r, mid - Len(table)) ELSE touched
  <2>1. k.num_cached_block[r] = -1 /\ k.req_to_blocks[r] = << >> BY Zenon
  <2> QED BY <1>4, <2>1, Zenon DEF AllocateNewComputedBlocks, Touched, Kept, Placed
<1>6. PlacedOK(k, r, hits, skipped)
  <2> HIDE DEF skipped
  <2> QED BY Zenon, <1>1, PlacedHits
<1>7. /\ kept \in Seq(Block) /\ DistinctOutside(kept, {NullBlock})
      /\ HitsOK(k, r, table) /\ Range(kept) \ {NullBlock} = Range(table) \ {NullBlock}
      /\ Len(table) = Greater(skipped, Len(hits))
      /\ IsDrop(kept, hits, skipped)
  BY Zenon, <1>6 DEF PlacedOK
<1>15. NullHits(hits, skipTok) => NullHits(table, skipTok)
  <2>1. kept = Kept(hits, skipTok \div BlockSize) BY Zenon
  <2> HIDE DEF skipTok, kept
  <2> QED BY Zenon, <1>0, <1>1, <1>7, <2>1, PlacedNulls DEF kept
<1> HIDE DEF skipped, kept, table, external, mid, required
<1>8. /\ Good(touched) /\ SameOthers(k, touched, r)
      /\ touched.req_to_blocks[r] = table /\ touched.num_cached_block[r] = Len(table)
      /\ Len(touched.free) = free - idle
      /\ idle \in Nat
  BY <1>7, TouchGood, ZenonT(90)
<1>9. Cardinality(IdlePlaces(k.ref_cnt, hits, skipped + 1)) = idle
  <2>1. /\ Facts /\ hits \in Seq(Block) /\ skipped \in Nat /\ kept \in Seq(Block)
        /\ IsDrop(kept, hits, skipped)
    BY Zenon, <1>0, <1>1, <1>7
  <2>2. Cardinality(IdlePlaces(k.ref_cnt, hits, skipped + 1))
          = Cardinality(IdlePlaces(k.ref_cnt, kept, 1))
    BY ONLY <2>1, IdleShift
  <2> QED BY Zenon, <2>2
<1> HIDE DEF idle, free, m, touched
<1>10. Len(table) \in Nat /\ Len(table) <= mid
  <2>1. skipped \in Int /\ Len(hits) \in Int BY ONLY <1>0, <1>1
  <2>2. Greater(skipped, Len(hits)) \in {skipped, Len(hits)} BY <2>1, GreaterFacts, Zenon
  <2> QED BY Zenon, <1>0, <1>1, <1>2, <1>7, <2>2
<1>11. Greater(required - Len(table), 0) + idle <= free
  <2>1. NumBlocksToAllocate(k, r, need, hits, total) <= Len(k.free) BY Zenon
  <2> QED BY Zenon, <1>3, <1>7, <1>9, <2>1 DEF free
<1>12. /\ mid - Len(table) \in 0..Len(touched.free)
       /\ Greater(required - Len(table), 0) <= Len(touched.free)
       /\ Greater(required - mid, 0) <= Len(touched.free) - (mid - Len(table))
  <2>1. free \in Nat BY Zenon, <1>0 DEF free
  <2>2. /\ mid - Len(table) \in 0..(free - idle)
        /\ Greater(required - Len(table), 0) <= free - idle
        /\ Greater(required - mid, 0) <= free - idle - (mid - Len(table))
    BY <1>1, <1>2, <1>8, <1>10, <1>11, <2>1, CapacityLeft, Zenon
  <2> QED BY Zenon, <1>8, <2>2
<1>16. NullHits(hits, skipTok) => Evolves(k, touched, r, skipTok)
  <2>1. DOMAIN k.req_to_blocks[r] = {} OBVIOUS
  <2> HIDE DEF skipTok
  <2> QED BY Zenon, <1>8, <1>15, <2>1 DEF Evolves, NullHits
<1>13. CASE external > 0
  <2> DEFINE n == mid - Len(table)
             g == GrowTable(touched, r, n)
  <2>1. m = g /\ n \in 0..Len(touched.free) BY Zenon, <1>5, <1>12, <1>13
  <2> HIDE DEF n
  <2>2. /\ Good(g) /\ SameOthers(touched, g, r)
        /\ g.num_cached_block = touched.num_cached_block
        /\ Len(g.free) = Len(touched.free) - n
        /\ Len(g.req_to_blocks[r]) = Len(touched.req_to_blocks[r]) + n
        /\ \A i \in DOMAIN touched.req_to_blocks[r] :
              g.req_to_blocks[r][i] = touched.req_to_blocks[r][i]
        /\ \A z : Evolves(touched, g, r, z)
    BY <1>8, <2>1, GrowTableGood, Zenon
  <2> HIDE DEF g
  <2>3. Len(m.req_to_blocks[r]) = mid BY <1>1, <1>8, <1>10, <2>1, <2>2, SMTT(30) DEF n
  <2>4. SameOthers(k, m, r) BY Zenon, <1>8, <2>1, <2>2 DEF SameOthers
  <2>5. Greater(required - Len(m.req_to_blocks[r]), 0) <= Len(m.free)
    BY <1>12, <2>1, <2>2, <2>3, Zenon DEF n
  <2>6. NullHits(hits, skipTok) => Evolves(k, m, r, skipTok)
    BY Zenon, <1>16, <2>1, <2>2, EvolvesOn
  <2> QED BY Zenon, <1>8, <1>10, <2>1, <2>2, <2>4, <2>5, <2>6 DEF m, required
<1>14. CASE ~ (external > 0)
  <2>1. m = touched BY Zenon, <1>5, <1>14
  <2> QED BY Zenon, <1>8, <1>10, <1>12, <1>16, <2>1 DEF m, required
<1> QED BY Zenon, <1>13, <1>14


\* allocate_new_blocks, with enough free blocks, gives every token its slot.
LEMMA AllocateNewBlocksGood ==
  ASSUME Facts, NEW k, Good(k), NEW r \in Req, NEW need \in Nat,
         Greater(CDiv(need, BlockSize) - Len(k.req_to_blocks[r]), 0) <= Len(k.free)
  PROVE  LET m == AllocateNewBlocks(k, r, need)
         IN  /\ Good(m) /\ SameOthers(k, m, r)
             /\ m.num_cached_block = k.num_cached_block
             /\ need <= Len(m.req_to_blocks[r]) * BlockSize
             /\ \A z : Evolves(k, m, r, z)
<1> DEFINE required == CDiv(need, BlockSize)
           held     == Len(k.req_to_blocks[r])
           n        == required - held
           m        == AllocateNewBlocks(k, r, need)
<1>0. /\ required \in Nat /\ held \in Nat /\ BlockSize \in Nat \ {0}
      /\ need <= required * BlockSize /\ Len(k.free) \in Nat
  <2>1. k \in KVState BY Zenon DEF Good, Sound
  <2>2. k.free \in Seq(Block) BY Zenon, <2>1 DEF KVState
  <2>3. required \in Nat BY Zenon, CDivType
  <2>4. need <= required * BlockSize BY ONLY CDivFacts
  <2>5. held \in Nat BY Zenon, <2>1, TableEntry
  <2>6. Len(k.free) \in Nat BY Zenon, <2>2 DEF Facts, LenProperties
  <2> QED BY Zenon, <2>3, <2>4, <2>5, <2>6, ManagerAssumption
<1>1. m = IF n <= 0 THEN k ELSE GrowTable(k, r, n) BY Zenon DEF AllocateNewBlocks
<1> HIDE DEF required, held, m
<1>2. ASSUME NEW l \in Nat, required <= l PROVE need <= l * BlockSize
  <2>1. required * BlockSize <= l * BlockSize BY ONLY <1>0, <1>2
  <2> DEFINE x == required * BlockSize
             y == l * BlockSize
  <2>2. x \in Nat /\ y \in Nat BY ONLY <1>0
  <2>3. need <= x /\ x <= y BY Zenon, <1>0, <2>1
  <2> HIDE DEF x, y
  <2>4. need <= y BY ONLY <2>2, <2>3
  <2> QED BY Zenon, <2>4 DEF y
<1>3. CASE n <= 0
  <2>1. required <= held BY ONLY <1>0, <1>3
  <2>2. m = k BY Zenon, <1>1, <1>3
  <2>3. \A z : Evolves(k, m, r, z) BY Zenon, <2>2, EvolvesSame
  <2> QED BY Zenon, <1>0, <1>2, <2>1, <2>2, <2>3 DEF SameOthers, m, held
<1>4. CASE ~ (n <= 0)
  <2>1. m = GrowTable(k, r, n) BY Zenon, <1>1, <1>4
  <2>2. n \in 0..Len(k.free)
    <3>1. n \in Nat /\ n > 0 BY ONLY <1>0, <1>4
    <3>2. Greater(n, 0) = n BY ONLY <3>1 DEF Greater
    <3>3. Greater(n, 0) <= Len(k.free) BY Zenon DEF required, held
    <3> HIDE DEF n
    <3> QED BY ONLY <1>0, <3>1, <3>2, <3>3
  <2>3. held + n = required BY ONLY <1>0
  <2> HIDE DEF n
  <2>4. /\ Good(m) /\ SameOthers(k, m, r)
        /\ m.num_cached_block = k.num_cached_block
        /\ Len(m.free) = Len(k.free) - n
        /\ Len(m.req_to_blocks[r]) = Len(k.req_to_blocks[r]) + n
        /\ \A i \in DOMAIN k.req_to_blocks[r] :
              m.req_to_blocks[r][i] = k.req_to_blocks[r][i]
        /\ \A z : Evolves(k, m, r, z)
    BY Zenon, <2>1, <2>2, GrowTableGood
  <2>5. Len(m.req_to_blocks[r]) = required BY Zenon, <2>3, <2>4 DEF held
  <2>6. need <= Len(m.req_to_blocks[r]) * BlockSize BY Zenon, <1>0, <2>5
  <2> QED BY Zenon, <2>4, <2>6 DEF m
<1> QED BY Zenon, <1>3, <1>4

\* How the scheduler calls allocate_slots: for a request without blocks, for
\* one that was given its prefix before, or for one that goes on computing.
CallOK(k, r, a) ==
    /\ a \in AllocArgs /\ a.num_tokens <= Len(TokenStream[r])
    /\ HitsOK(k, r, a.hits) /\ (EnableCaching \/ a.hits = << >>)
    /\ a.new # 0 \/ a.external # 0
    /\ NumLocalComputed(a) + a.external <= MaxModelLen
    /\ NullHits(a.hits, NumSkippedTokens(NumLocalComputed(a) + a.external))
    /\ \/ /\ a.num_computed = 0 /\ k.num_cached_block[r] = -1
          /\ k.req_to_blocks[r] = << >>
       \/ a.hits = << >> /\ k.num_cached_block[r] # -1
       \/ /\ a.hits = << >> /\ a.external = 0
          /\ a.num_computed <= Len(k.req_to_blocks[r]) * BlockSize

\* The state once hits and external tokens have their blocks.
Second(k, r, a) ==
    IF a.hits # << >> \/ a.external > 0
    THEN AllocateNewComputedBlocks(k, r, a.hits, NumLocalComputed(a), a.external)
    ELSE k

\* After that the free queue still covers what the request needs.
LEMMA SecondGood ==
  ASSUME Facts, NEW k, Good(k), NEW r \in Req, NEW a, CallOK(k, r, a),
         NumBlocksToAllocate(k, r, NumNeedSlot(a), a.hits,
                             NumLocalComputed(a) + a.external) <= Len(k.free)
  PROVE  LET m == Second(k, r, a)
         IN  /\ Good(m) /\ SameOthers(k, m, r)
             /\ m.num_cached_block[r] = -1
                  => k.num_cached_block[r] = -1 /\ a.external = 0
             /\ Greater(CDiv(NumNeedSlot(a), BlockSize) - Len(m.req_to_blocks[r]), 0)
                  <= Len(m.free)
             /\ Evolves(k, m, r, NumSkippedTokens(NumLocalComputed(a) + a.external))
<1> DEFINE m == Second(k, r, a)
           local == NumLocalComputed(a)
           need == NumNeedSlot(a)
           held == Len(k.req_to_blocks[r])
           required == CDiv(need, BlockSize)
           N == NumBlocksToAllocate(k, r, need, a.hits, local + a.external)
<1>0. /\ a \in AllocArgs /\ a.external \in Nat /\ a.num_computed \in Nat
      /\ local \in Nat /\ need \in Nat /\ BlockSize \in Nat \ {0}
      /\ k \in KVState /\ held \in Nat /\ required \in Nat
      /\ a.new \in Nat /\ a.lookahead \in Nat /\ MaxModelLen \in Nat
  <2>1. a \in AllocArgs /\ k \in KVState BY Zenon DEF CallOK, Good, Sound
  <2>2. local \in Nat /\ need \in Nat BY Zenon, <2>1, ArgsType
  <2> HIDE DEF local, need
  <2> QED BY <2>1, <2>2, ManagerAssumption, TableEntry, CDivType, Zenon DEF AllocArgs
<1>1. local + a.external <= need
  <2>1. TotalComputed(a) = local + a.external
    <3> DEFINE x == local + a.external
    <3>1. x \in Nat /\ x <= MaxModelLen BY <1>0, SMTT(30) DEF CallOK
    <3>2. TotalComputed(a) = Lesser(x, MaxModelLen) BY Zenon DEF TotalComputed
    <3> HIDE DEF x
    <3>3. TotalComputed(a) = x BY ONLY <1>0, <3>1, <3>2 DEF Lesser
    <3> QED BY Zenon, <3>3 DEF x
  <2>2. local + a.external <= MaxModelLen BY Zenon DEF CallOK
  <2>3. need = Lesser((local + a.external) + a.new + a.lookahead, MaxModelLen)
    BY Zenon, <2>1 DEF NumNeedSlot
  <2> HIDE DEF local, need
  <2> DEFINE x == local + a.external
             more == a.new + a.lookahead
  <2>a. /\ local \in Nat /\ a.external \in Nat /\ a.new \in Nat /\ a.lookahead \in Nat
        /\ MaxModelLen \in Nat
    BY Zenon, <1>0
  <2>4. x \in Nat /\ more \in Nat /\ MaxModelLen \in Nat /\ x <= MaxModelLen
    BY ONLY <2>2, <2>a
  <2>5. need = Lesser(x + more, MaxModelLen)
    <3>1. (local + a.external) + a.new + a.lookahead = x + more BY ONLY <2>a
    <3> QED BY Zenon, <2>3, <3>1
  <2> HIDE DEF x, more
  <2>6. x <= Lesser(x + more, MaxModelLen) BY ONLY <2>4 DEF Lesser
  <2> QED BY Zenon, <2>5, <2>6 DEF x
<1>2. CASE /\ a.num_computed = 0 /\ k.num_cached_block[r] = -1
           /\ k.req_to_blocks[r] = << >>
           /\ a.hits # << >> \/ a.external > 0
  <2>1. local = Len(a.hits) * BlockSize
    <3>1. Len(a.hits) \in Nat BY Zenon, <1>0 DEF AllocArgs, Facts, LenProperties
    <3> QED BY ONLY <1>0, <1>2, <3>1 DEF NumLocalComputed
  <2>2. m = AllocateNewComputedBlocks(k, r, a.hits, local, a.external)
    BY Zenon, <1>2 DEF Second
  <2>3. N <= Len(k.free) BY Zenon
  <2>4. /\ HitsOK(k, r, a.hits) /\ (EnableCaching \/ a.hits = << >>)
        /\ NullHits(a.hits, NumSkippedTokens(local + a.external))
    BY Zenon DEF CallOK
  <2> HIDE DEF local, need, m
  <2>5. /\ Good(m) /\ SameOthers(k, m, r) /\ m.num_cached_block[r] \in Nat
        /\ Greater(CDiv(need, BlockSize) - Len(m.req_to_blocks[r]), 0) <= Len(m.free)
        /\ Evolves(k, m, r, NumSkippedTokens(local + a.external))
    BY Zenon, <1>0, <1>1, <1>2, <2>1, <2>2, <2>3, <2>4, AllocateComputedGood
  <2>6. m.num_cached_block[r] # -1 BY ONLY <2>5
  <2> QED BY <2>5, <2>6, Zenon DEF m, need, local
<1>3. CASE a.hits = << >> /\ (a.external = 0 \/ k.num_cached_block[r] # -1)
  <2>1. m = k
    <3>1. CASE a.external = 0 BY ONLY <1>3, <3>1 DEF Second
    <3>2. CASE a.external # 0
      <4>1. m = [k EXCEPT !.err = @ \/ a.hits # << >>]
        BY ONLY <1>0, <1>3, <3>2 DEF Second, AllocateNewComputedBlocks
      <4>2. ~ k.err /\ ~ (a.hits # << >>) BY Zenon, <1>3 DEF Good
      <4>3. m = [k EXCEPT !.err = FALSE] BY <4>1, <4>2, Zenon
      <4>4. k.err = FALSE BY Zenon, <1>0, <4>2 DEF KVState
      <4> HIDE DEF m
      <4> QED BY Zenon, <1>0, <4>3, <4>4 DEF KVState
    <3> QED BY Zenon, <3>1, <3>2
  <2>2. N = Greater(required - held, 0)
    <3>1. CASE k.num_cached_block[r] # -1 BY Zenon, <3>1 DEF NumBlocksToAllocate
    <3>2. CASE k.num_cached_block[r] = -1
      <4> DEFINE skipped == NumSkippedTokens(local + a.external) \div BlockSize
      <4>1. a.external = 0 /\ Len(a.hits) = 0 BY Zenon, <1>3, <3>2 DEF Facts, EmptySeq
      <4>2. local + a.external = a.num_computed
        BY ONLY <1>0, <4>1 DEF NumLocalComputed
      <4>3. a.num_computed <= held * BlockSize
        <5>1. CASE a.num_computed = 0
          <6>1. 0 <= held * BlockSize BY ONLY <1>0
          <6> QED BY Zenon, <5>1, <6>1
        <5>2. CASE a.num_computed # 0 BY Zenon, <3>2, <5>2 DEF CallOK
        <5> QED BY Zenon, <5>1, <5>2
      <4>4. skipped \in Nat /\ skipped <= held
        <5> DEFINE n == a.num_computed
                   st == NumSkippedTokens(n)
        <5>1. n \in Nat /\ n \in Int /\ n <= held * BlockSize BY ONLY <1>0, <4>3
        <5> HIDE DEF n
        <5>2. st \in Nat /\ st \div BlockSize \in Nat /\ st <= n
          BY Zenon, <5>1, SkippedType, SkippedBound
        <5> HIDE DEF st
        <5>3. st \div BlockSize <= n \div BlockSize BY <1>0, <5>1, <5>2, DivMonotone, Zenon
        <5>4. n \div BlockSize <= held
          <6> HIDE DEF held
          <6>1. (n \div BlockSize) * BlockSize <= n /\ n \div BlockSize \in Nat
            BY Zenon, <1>0, <5>1, DivBounds
          <6> DEFINE q == n \div BlockSize
          <6> HIDE DEF q
          <6>2. q \in Nat /\ q * BlockSize <= n BY Zenon, <6>1 DEF q
          <6>3. ASSUME q > held PROVE FALSE
            <7>1. q >= held + 1 BY ONLY <1>0, <6>2, <6>3
            <7>2. q * BlockSize >= (held + 1) * BlockSize BY ONLY <1>0, <6>2, <7>1
            <7>3. (held + 1) * BlockSize = held * BlockSize + BlockSize BY ONLY <1>0
            <7> DEFINE x == held * BlockSize
                       y == q * BlockSize
            <7>4. x \in Nat /\ y \in Nat /\ y >= x + BlockSize /\ n <= x /\ y <= n
              BY ONLY <1>0, <5>1, <6>2, <7>2, <7>3
            <7> HIDE DEF x, y
            <7> QED BY ONLY <1>0, <5>1, <7>4
          <6> QED BY ONLY <1>0, <6>2, <6>3 DEF q
        <5>5. skipped = st \div BlockSize BY Zenon, <4>2 DEF st, n
        <5>6. n \div BlockSize \in Nat BY Zenon, <1>0, <5>1, DivBounds
        <5> HIDE DEF skipped, held
        <5> QED BY ONLY <1>0, <5>2, <5>3, <5>4, <5>5, <5>6
      <4>5. N = Greater(required - Greater(skipped, Len(a.hits) + held), 0)
                  + Cardinality(IdlePlaces(k.ref_cnt, a.hits,
                                           Greater(0, skipped - held) + 1))
        BY Zenon, <3>2 DEF NumBlocksToAllocate, IdlePlaces
      <4> HIDE DEF skipped, N, held, required
      <4>6. Cardinality(IdlePlaces(k.ref_cnt, a.hits, Greater(0, skipped - held) + 1)) = 0
        <5>1. Greater(0, skipped - held) = 0 BY ONLY <1>0, <4>4 DEF Greater
        <5>2. IdlePlaces(k.ref_cnt, a.hits, 1) = {} BY ONLY <4>1 DEF IdlePlaces
        <5>3. IdlePlaces(k.ref_cnt, a.hits, Greater(0, skipped - held) + 1) = {}
          BY ONLY <5>1, <5>2
        <5> QED BY <5>3, Zenon DEF Facts, FiniteEmpty
      <4>7. Greater(skipped, Len(a.hits) + held) = held
        BY ONLY <1>0, <4>1, <4>4 DEF Greater
      <4>8. Greater(required - held, 0) \in Nat BY ONLY <1>0 DEF Greater
      <4>9. N = Greater(required - held, 0) + 0 BY Zenon, <4>5, <4>6, <4>7
      <4> QED BY ONLY <4>8, <4>9
    <3> QED BY Zenon, <3>1, <3>2
  <2>3. N <= Len(k.free) BY Zenon
  <2>4. Greater(required - held, 0) <= Len(k.free) BY Zenon, <2>2, <2>3
  <2>5. SameOthers(k, k, r) BY Zenon DEF SameOthers
  <2>6. \A z : Evolves(k, k, r, z) BY Zenon, EvolvesSame
  <2> QED BY Zenon, <1>3, <2>1, <2>4, <2>5, <2>6 DEF required, held, need, m
<1>4. \/ /\ a.num_computed = 0 /\ k.num_cached_block[r] = -1
         /\ k.req_to_blocks[r] = << >>
         /\ a.hits # << >> \/ a.external > 0
      \/ a.hits = << >> /\ (a.external = 0 \/ k.num_cached_block[r] # -1)
  BY <1>0, SMTT(30) DEF CallOK
<1> QED BY Zenon, <1>2, <1>3, <1>4

\* What a call of allocate_slots leaves behind: if it succeeds every token has
\* its slot; if it fails, only blocks outside the window are gone.
SlotsResult(k, m, r, a) ==
    /\ Good(m) /\ SameOthers(k, m, r)
    /\ m.num_cached_block[r] = -1 => k.num_cached_block[r] = -1
    /\ CanAllocate(k, r, a) =>
         /\ NumNeedSlot(a) <= Len(m.req_to_blocks[r]) * BlockSize
         /\ m.num_cached_block[r] = -1 => a.external = 0
    /\ ~ CanAllocate(k, r, a) =>
         /\ m.num_cached_block = k.num_cached_block
         /\ Len(m.req_to_blocks[r]) = Len(k.req_to_blocks[r])
    /\ Evolves(k, m, r, NumSkippedTokens(TotalComputed(a)))

\* allocate_slots, called as the scheduler calls it, reaches no assertion or
\* raise.
LEMMA AllocateSlotsGood ==
  ASSUME Facts, NEW k, Good(k), NEW r \in Req, NEW a, CallOK(k, r, a)
  PROVE  SlotsResult(k, AllocateSlots(k, r, a), r, a)
<1> DEFINE k1 == AfterSkip(k, r, a)
           k2 == Second(k1, r, a)
           need == NumNeedSlot(a)
           k3 == AllocateNewBlocks(k2, r, need)
           goal == Lesser(TotalComputed(a) + a.new, a.num_tokens)
           k4 == IF a.delay THEN k3 ELSE CacheBlocks(k3, r, goal, a.num_tokens)
           m == AllocateSlots(k, r, a)
           z == NumSkippedTokens(TotalComputed(a))
<1> SUFFICES /\ Good(m) /\ SameOthers(k, m, r)
             /\ m.num_cached_block[r] = -1 => k.num_cached_block[r] = -1
             /\ CanAllocate(k, r, a) =>
                  /\ NumNeedSlot(a) <= Len(m.req_to_blocks[r]) * BlockSize
                  /\ m.num_cached_block[r] = -1 => a.external = 0
             /\ ~ CanAllocate(k, r, a) =>
                  /\ m.num_cached_block = k.num_cached_block
                  /\ Len(m.req_to_blocks[r]) = Len(k.req_to_blocks[r])
             /\ Evolves(k, m, r, NumSkippedTokens(TotalComputed(a)))
  BY Zenon DEF SlotsResult
<1>0. /\ a \in AllocArgs /\ NumLocalComputed(a) \in Nat /\ TotalComputed(a) \in Nat
      /\ need \in Nat /\ goal \in Nat /\ a.num_tokens \in Nat /\ a.new \in Nat
      /\ a.num_tokens \in 0..Len(TokenStream[r]) /\ goal \in 0..a.num_tokens
  <2>1. a \in AllocArgs /\ a.num_tokens <= Len(TokenStream[r]) BY Zenon DEF CallOK
  <2>2. /\ NumLocalComputed(a) \in Nat /\ TotalComputed(a) \in Nat
        /\ need \in Nat /\ goal \in Nat
    BY Zenon, <2>1, ArgsType
  <2>3. a.num_tokens \in Nat /\ a.new \in Nat BY Zenon, <2>1 DEF AllocArgs
  <2>4. Len(TokenStream[r]) \in Nat BY Zenon, ManagerAssumption DEF Facts, LenProperties
  <2>5. goal <= a.num_tokens BY ONLY <2>2, <2>3 DEF Lesser
  <2> HIDE DEF goal
  <2> QED BY ONLY <2>1, <2>2, <2>3, <2>4, <2>5
<1>1. m = IF CanAllocate(k, r, a) THEN k4 ELSE k1
  <2>1. ~ (a.new = 0 /\ a.external = 0) BY Zenon DEF CallOK
  <2> QED BY Zenon, <2>1 DEF AllocateSlots, Second
<1> HIDE DEF goal, m
<1>2. /\ Good(k1) /\ SameOthers(k, k1, r)
      /\ k1.block_hash = k.block_hash
      /\ k1.num_cached_block = k.num_cached_block
      /\ Len(k1.req_to_blocks[r]) = Len(k.req_to_blocks[r])
      /\ \A i \in DOMAIN k.req_to_blocks[r] :
            k1.req_to_blocks[r][i] \in {k.req_to_blocks[r][i], NullBlock}
      /\ Evolves(k, k1, r, z)
  BY Zenon, <1>0, RemoveSkippedGood DEF AfterSkip
<1>7. z = NumSkippedTokens(NumLocalComputed(a) + a.external)
  <2> DEFINE x == NumLocalComputed(a) + a.external
  <2>1. x \in Nat /\ x <= MaxModelLen /\ MaxModelLen \in Nat
    <3>1. a.external \in Nat BY Zenon, <1>0 DEF AllocArgs
    <3>2. x <= MaxModelLen BY Zenon DEF CallOK
    <3> QED BY ONLY <1>0, <3>1, <3>2, ManagerAssumption
  <2>2. TotalComputed(a) = Lesser(x, MaxModelLen) BY Zenon DEF TotalComputed
  <2> HIDE DEF x
  <2>3. TotalComputed(a) = x BY ONLY <2>1, <2>2 DEF Lesser
  <2> QED BY Zenon, <2>3 DEF x
<1> HIDE DEF z
<1>3. CanAllocate(k, r, a) <=>
        NumBlocksToAllocate(k1, r, need, a.hits, NumLocalComputed(a) + a.external)
          <= Len(k1.free)
  BY Zenon DEF CanAllocate, GetNumFreeBlocks
<1> HIDE DEF k1
<1>4. CallOK(k1, r, a)
  <2>1. k.req_to_blocks[r] = << >> => k1.req_to_blocks[r] = << >>
    <3>1. k1.req_to_blocks[r] \in Seq(Block)
      BY Zenon, <1>2, TableEntry DEF Good, Sound
    <3> QED BY Zenon, <1>2, <3>1 DEF Facts, EmptySeq
  <2>2. HitsOK(k1, r, a.hits) BY Zenon, <1>2 DEF CallOK, HitsOK
  <2> QED BY Zenon, <1>2, <2>1, <2>2 DEF CallOK
<1>5. CASE ~ CanAllocate(k, r, a)
  <2>1. m = k1 BY Zenon, <1>1, <1>5
  <2> QED BY Zenon, <1>2, <1>5, <2>1 DEF m, z
<1>6. CASE CanAllocate(k, r, a)
  <2>1. /\ Good(k2) /\ SameOthers(k1, k2, r)
        /\ k2.num_cached_block[r] = -1
             => k1.num_cached_block[r] = -1 /\ a.external = 0
        /\ Greater(CDiv(need, BlockSize) - Len(k2.req_to_blocks[r]), 0) <= Len(k2.free)
        /\ Evolves(k1, k2, r, z)
    BY Zenon, <1>2, <1>3, <1>4, <1>6, <1>7, SecondGood
  <2> HIDE DEF k2, need
  <2>2. /\ Good(k3) /\ SameOthers(k2, k3, r)
        /\ k3.num_cached_block = k2.num_cached_block
        /\ need <= Len(k3.req_to_blocks[r]) * BlockSize
        /\ Evolves(k2, k3, r, z)
    BY Zenon, <1>0, <2>1, AllocateNewBlocksGood
  <2> HIDE DEF k3
  <2>3. /\ Good(k4) /\ SameOthers(k3, k4, r)
        /\ k4.req_to_blocks = k3.req_to_blocks
        /\ k4.num_cached_block[r] \in Nat \union {k3.num_cached_block[r]}
    <3>1. CASE a.delay BY Zenon, <2>2, <3>1 DEF SameOthers
    <3>2. CASE ~ a.delay
      <4>1. k4 = CacheBlocks(k3, r, goal, a.num_tokens) BY Zenon, <3>2
      <4> HIDE DEF k4
      <4> QED BY Zenon, <1>0, <2>2, <4>1, CacheBlocksGood
    <3> QED BY Zenon, <3>1, <3>2
  <2> HIDE DEF k4
  <2>4. m = k4 BY Zenon, <1>1, <1>6
  <2>5. SameOthers(k, m, r)
    <3>1. SameOthers(k, k2, r) BY Zenon, <1>2, <2>1, SameOthersOn
    <3>2. SameOthers(k2, k4, r) BY Zenon, <2>2, <2>3, SameOthersOn
    <3> QED BY Zenon, <2>4, <3>1, <3>2, SameOthersOn
  <2>6. m.num_cached_block[r] = -1 => k2.num_cached_block[r] = -1
    BY <2>2, <2>3, <2>4, SMTT(90)
  <2>7. Good(m) BY Zenon, <2>3, <2>4
  <2>8. m.num_cached_block[r] = -1 => k.num_cached_block[r] = -1 /\ a.external = 0
    BY Zenon, <1>2, <2>1, <2>6
  <2>9. need <= Len(m.req_to_blocks[r]) * BlockSize BY Zenon, <2>2, <2>3, <2>4
  <2>10. Evolves(k, m, r, z)
    <3>1. Evolves(k3, m, r, z) BY Zenon, <2>3, <2>4, EvolvesSame
    <3> QED BY Zenon, <1>2, <2>1, <2>2, <3>1, EvolvesOn
  <2> QED BY Zenon, <1>6, <2>5, <2>7, <2>8, <2>9, <2>10 DEF m, need, z
<1> QED BY Zenon, <1>5, <1>6

=============================================================================
