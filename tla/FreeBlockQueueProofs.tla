------------------------ MODULE FreeBlockQueueProofs ------------------------
(***************************************************************************)
(* The linked list of FreeKVCacheBlockQueue stays intact and implements    *)
(* the queue of FreeQueue, for every finite set of blocks.  A list q of    *)
(* distinct blocks is named by the links; q is what a walk along the links *)
(* finds, and each method turns q into the list the queue has afterwards.  *)
(***************************************************************************)
EXTENDS FreeBlockQueue, SeqFacts, TLAPS

\* A list of distinct blocks; how long it is follows.
IsList(q) == q \in Seq(Block) /\ IsInjective(q)

\* Linked, of given links.
LinkedIn(q, nx, pv) ==
    /\ \A i \in 0..Len(q) : nx[At(q, i)] = At(q, i + 1) /\ pv[At(q, i + 1)] = At(q, i)
    /\ pv[FakeHead] = None /\ nx[FakeTail] = None
    /\ \A b \in Block \ Range(q) : pv[b] = None /\ nx[b] = None

Links == [Node -> Node \union {None}]

-----------------------------------------------------------------------------
(* Lists and their nodes *)

\* Lists are the sequences of distinct blocks.
LEMMA ListFacts ==
  ASSUME Facts, NEW q
  PROVE  /\ q \in Lists <=> IsList(q)
         /\ IsList(q) => /\ Len(q) \in Nat /\ DOMAIN q = 1..Len(q)
                         /\ Len(q) <= Cardinality(Block)
                         /\ \A i \in 1..Len(q) : q[i] \in Block /\ q[i] \in Range(q)
                         /\ \A b \in Range(q) : \E i \in 1..Len(q) : b = q[i]
                         /\ \A i, j \in 1..Len(q) : q[i] = q[j] => i = j
                         /\ Range(q) \subseteq Block
<1>0. IsFiniteSet(Block) /\ Cardinality(Block) \in Nat
  BY Zenon, QueueAssumption DEF Facts, FiniteCardinality
<1>1. ASSUME q \in Lists PROVE IsList(q)
  <2>1. PICK n \in 0..Cardinality(Block) : q \in Injection(1..n, Block) BY Zenon, <1>1 DEF Lists
  <2>2. n \in Nat /\ q \in [1..n -> Block] /\ IsInjective(q) BY ONLY <1>0, <2>1 DEF Injection
  <2>3. q \in Seq(Block) BY ONLY <2>2
  <2> QED BY Zenon, <2>2, <2>3 DEF IsList
<1>2. ASSUME IsList(q)
      PROVE  /\ Len(q) \in Nat /\ DOMAIN q = 1..Len(q) /\ q \in [1..Len(q) -> Block]
             /\ Len(q) <= Cardinality(Block)
  <2>1. Len(q) \in Nat /\ DOMAIN q = 1..Len(q) /\ q \in [1..Len(q) -> Block]
    BY Zenon, <1>2 DEF IsList, Facts, LenProperties
  <2>2. q \in Injection(1..Len(q), Block) BY Zenon, <1>2, <2>1 DEF IsList, Injection
  <2>3. Cardinality(1..Len(q)) <= Cardinality(Block) BY Zenon, <1>0, <2>2
    DEF Facts, FiniteInjection
  <2>4. Cardinality(1..Len(q)) = Len(q)
    <3>1. 1 \in Int /\ Len(q) \in Int BY ONLY <2>1
    <3>2. Cardinality(1..Len(q)) = IF 1 > Len(q) THEN 0 ELSE Len(q) - 1 + 1
      BY Zenon, <3>1 DEF Facts, FiniteInterval
    <3> QED BY ONLY <2>1, <3>2
  <2> QED BY Zenon, <2>1, <2>3, <2>4
<1>3. ASSUME IsList(q) PROVE q \in Lists
  <2>1. q \in Injection(1..Len(q), Block) BY Zenon, <1>2, <1>3 DEF IsList, Injection
  <2>2. Len(q) \in 0..Cardinality(Block) BY ONLY <1>0, <1>2, <1>3
  <2> QED BY Zenon, <2>1, <2>2 DEF Lists
<1>4. ASSUME IsList(q)
      PROVE  /\ \A i \in 1..Len(q) : q[i] \in Block /\ q[i] \in Range(q)
             /\ \A b \in Range(q) : \E i \in 1..Len(q) : b = q[i]
             /\ \A i, j \in 1..Len(q) : q[i] = q[j] => i = j
             /\ Range(q) \subseteq Block
  BY Zenon, <1>2, <1>4 DEF IsList, IsInjective, Range
<1> QED BY Zenon, <1>1, <1>2, <1>3, <1>4

\* The nodes of a list, the fake ends included, are distinct, and none is None.
LEMMA AtFacts ==
  ASSUME Facts, NEW q, IsList(q)
  PROVE  /\ \A i \in 0..(Len(q) + 1) : At(q, i) \in Node /\ At(q, i) # None
         /\ \A i, j \in 0..(Len(q) + 1) : At(q, i) = At(q, j) => i = j
         /\ At(q, 0) = FakeHead /\ At(q, Len(q) + 1) = FakeTail
         /\ \A i \in 1..Len(q) : At(q, i) = q[i] /\ At(q, i) \in Block
         /\ FakeHead \in Node /\ FakeTail \in Node /\ FakeHead # FakeTail
         /\ FakeHead \notin Block /\ FakeTail \notin Block
         /\ None \notin Node
<1>1. /\ Len(q) \in Nat /\ \A i \in 1..Len(q) : q[i] \in Block
      /\ \A i, j \in 1..Len(q) : q[i] = q[j] => i = j
  BY Zenon, ListFacts
<1> QED BY ONLY <1>1, QueueAssumption DEF At, Node

\* The links along a list are the same whether read through the state or as values.
LEMMA LinkedIsLinkedIn ==
  ASSUME NEW q
  PROVE  /\ Linked(q) <=> LinkedIn(q, next, prev)
         /\ Linked(q)' <=> LinkedIn(q, next', prev')
BY Zenon DEF Linked, LinkedIn

-----------------------------------------------------------------------------
(* Walking along the links *)

\* The node a walk is at after i links, None behind the fake tail.
Trail(q, i) == IF i <= Len(q) + 1 THEN At(q, i) ELSE None

\* A walk along a list passes its nodes in order.
LEMMA WalkAlong ==
  ASSUME Facts, NEW q, IsList(q), Linked(q), NEW n \in Nat
  PROVE  Walk(n) = [i \in 0..n |-> Trail(q, i)]
<1> DEFINE Step(F, i) == IF i = 0 THEN FakeHead ELSE NextOf(F[i - 1])
           Curr == CHOOSE F : F = [i \in 0..n |-> Step(F, i)]
           W == [i \in 0..n |-> Trail(q, i)]
<1>0. Len(q) \in Nat BY Zenon, ListFacts
<1>1. ASSUME NEW i \in 1..n PROVE Trail(q, i) = NextOf(Trail(q, i - 1))
  <2>1. CASE i <= Len(q) + 1
    <3>1. i - 1 \in 0..Len(q) /\ Trail(q, i - 1) = At(q, i - 1) /\ Trail(q, i) = At(q, i)
      BY ONLY <1>0, <2>1 DEF Trail
    <3>2. next[At(q, i - 1)] = At(q, (i - 1) + 1) BY Zenon, <3>1 DEF Linked
    <3>3. At(q, i - 1) # None BY <1>0, <3>1, AtFacts
    <3>4. (i - 1) + 1 = i OBVIOUS
    <3> QED BY Zenon, <3>1, <3>2, <3>3, <3>4 DEF NextOf
  <2>2. CASE i = Len(q) + 2
    <3>1. Trail(q, i) = None /\ Trail(q, i - 1) = At(q, Len(q) + 1) BY ONLY <1>0, <2>2 DEF Trail
    <3>2. At(q, Len(q) + 1) = FakeTail BY Zenon, AtFacts
    <3> QED BY Zenon, <3>1, <3>2 DEF NextOf, Linked
  <2>3. CASE i > Len(q) + 2 BY ONLY <1>0, <2>3 DEF Trail, NextOf
  <2> QED BY ONLY <1>0, <2>1, <2>2, <2>3
<1>2. Trail(q, 0) = FakeHead BY <1>0, AtFacts DEF Trail
<1>3. W = [i \in 0..n |-> Step(W, i)]
  <2>1. ASSUME NEW i \in 0..n PROVE W[i] = Step(W, i)
    <3>1. CASE i = 0 BY Zenon, <1>2, <3>1
    <3>2. CASE i # 0
      <4>1. i \in 1..n /\ i - 1 \in 0..n BY ONLY <3>2
      <4> QED BY ONLY <1>1, <4>1
    <3> QED BY Zenon, <3>1, <3>2
  <2> HIDE DEF Step
  <2> QED BY Zenon, <2>1
<1>4. Curr = [i \in 0..n |-> Step(Curr, i)]
  <2> HIDE DEF W, Step
  <2> QED BY Zenon, <1>3
<1>5. \A i \in 0..n : i \in {j \in 0..n : Curr[j] = Trail(q, j)}
  <2> DEFINE T == {j \in 0..n : Curr[j] = Trail(q, j)}
  <2> HIDE DEF Curr
  <2>1. 0 \in T
    <3>1. Curr[0] = Step(Curr, 0) BY ONLY <1>4
    <3> QED BY ONLY <1>2, <3>1
  <2>2. ASSUME NEW i \in 0..(n - 1), i \in T PROVE i + 1 \in T
    <3>1. Curr[i + 1] = Step(Curr, i + 1) BY ONLY <1>4
    <3>2. Step(Curr, i + 1) = NextOf(Curr[i]) OBVIOUS
    <3>3. Trail(q, i + 1) = NextOf(Trail(q, i))
      <4>1. i + 1 \in 1..n /\ (i + 1) - 1 = i OBVIOUS
      <4> QED BY Zenon, <1>1, <4>1
    <3> QED BY ONLY <2>2, <3>1, <3>2, <3>3
  <2> HIDE DEF T
  <2>3. \A i \in 0..n : i \in T BY Zenon, <2>1, <2>2 DEF Facts, IntervalInduction
  <2> QED BY Zenon, <2>3 DEF T
<1>6. Walk(n) = Curr BY Zenon DEF Walk
<1>7. Curr = [i \in 0..n |-> Curr[i]]
  <2> HIDE DEF Curr, Step
  <2> QED BY Zenon, <1>4
<1> HIDE DEF Curr
<1> QED BY Zenon, <1>5, <1>6, <1>7

\* get_all_free_blocks finds the list that is linked.
LEMMA AllFreeBlocks ==
  ASSUME Facts, NEW q, IsList(q), Linked(q)
  PROVE  GetAllFreeBlocks = q
<1> DEFINE m == Cardinality(Block) + 1
           curr == Walk(m)
           live == {i \in 0..m : \A j \in 1..i : curr[j] # None /\ next[curr[j]] # None}
<1>0. /\ Len(q) \in Nat /\ Len(q) <= Cardinality(Block) /\ Cardinality(Block) \in Nat
      /\ q = [i \in 1..Len(q) |-> q[i]]
  <2>1. Cardinality(Block) \in Nat BY Zenon, QueueAssumption DEF Facts, FiniteCardinality
  <2>2. q = [i \in 1..Len(q) |-> q[i]]
    <3>1. q \in [1..Len(q) -> Block] BY Zenon DEF IsList, Facts, LenProperties
    <3> QED BY ONLY Zenon, <3>1
  <2> QED BY Zenon, <2>1, <2>2, ListFacts
<1>1. curr = [i \in 0..m |-> Trail(q, i)]
  <2>1. m \in Nat BY ONLY <1>0
  <2> HIDE DEF m
  <2> QED BY Zenon, <2>1, WalkAlong
<1>2. ASSUME NEW j \in 1..Len(q)
      PROVE  curr[j] = q[j] /\ curr[j] # None /\ next[curr[j]] # None
  <2>1. j \in 0..m /\ curr[j] = At(q, j) BY ONLY <1>0, <1>1 DEF Trail
  <2>2. next[At(q, j)] = At(q, j + 1) BY <1>0 DEF Linked
  <2>3. At(q, j) # None /\ At(q, j + 1) # None /\ At(q, j) = q[j] BY <1>0, AtFacts
  <2> QED BY Zenon, <2>1, <2>2, <2>3
<1>3. next[curr[Len(q) + 1]] = None
  <2>1. curr[Len(q) + 1] = FakeTail BY ONLY <1>0, <1>1, AtFacts DEF Trail
  <2> QED BY Zenon, <2>1 DEF Linked
<1> HIDE DEF curr
<1>4. live = 0..Len(q)
  <2>1. ASSUME NEW i \in 0..m PROVE i \in live <=> i <= Len(q)
    <3>1. CASE i <= Len(q) BY ONLY <1>0, <1>2, <3>1
    <3>2. CASE i > Len(q)
      <4>1. Len(q) + 1 \in 1..i BY ONLY <1>0, <3>2
      <4> QED BY ONLY <1>3, <1>0, <3>2, <4>1
    <3> QED BY ONLY <1>0, <3>1, <3>2
  <2> QED BY ONLY <1>0, <2>1
<1>5. Max(live) = Len(q)
  <2>1. \E x \in 0..Len(q) : \A y \in 0..Len(q) : x >= y BY ONLY <1>0
  <2>2. \A x \in 0..Len(q) : (\A y \in 0..Len(q) : x >= y) => x = Len(q) BY ONLY <1>0
  <2> QED BY Zenon, <1>4, <2>1, <2>2 DEF Max
<1>6. GetAllFreeBlocks = [i \in 1..Max(live) |-> curr[i]] BY Zenon DEF GetAllFreeBlocks, curr
<1> QED BY Zenon, <1>0, <1>2, <1>5, <1>6

-----------------------------------------------------------------------------
(* What the methods do to the links *)

\* What is left of a list behind its n-th element.
LEMMA RestEntries ==
  ASSUME Facts, NEW X, NEW s \in Seq(X), IsInjective(s), NEW n \in 0..Len(s)
  PROVE  /\ SubSeq(s, n + 1, Len(s)) \in Seq(X)
         /\ Len(SubSeq(s, n + 1, Len(s))) = Len(s) - n
         /\ IsInjective(SubSeq(s, n + 1, Len(s)))
         /\ \A i \in 1..(Len(s) - n) : SubSeq(s, n + 1, Len(s))[i] = s[n + i]
<1>1. SubSeq(s, n + 1, Len(s)) \in Seq(X) BY Zenon DEF Facts, SplitProperties
<1>2. Len(SubSeq(s, n + 1, Len(s))) = Len(s) - n BY DEF Facts, SplitProperties
<1>3. IsInjective(SubSeq(s, n + 1, Len(s))) BY Zenon DEF Facts, SplitProperties
<1>4. \A i \in 1..(Len(s) - n) : SubSeq(s, n + 1, Len(s))[i] = s[n + i] BY DEF Facts,
      SplitProperties
<1> QED BY Zenon, <1>1, <1>2, <1>3, <1>4

\* How popleft and popleft_n set the links when they take the blocks S, the
\* first n of the list.
Popped(q, n, S, nx, pv, nx2, pv2) ==
    /\ n \in 1..Len(q) /\ \A x : x \in S <=> \E i \in 1..n : x = q[i]
    /\ nx2 \in Links /\ pv2 \in Links
    /\ \A x \in Node : nx2[x] = IF x \in S THEN None
                         ELSE IF x = FakeHead THEN At(q, n + 1) ELSE nx[x]
    /\ \A x \in Node : pv2[x] = IF x \in S THEN None
                         ELSE IF x = At(q, n + 1) THEN FakeHead ELSE pv[x]

\* The first n blocks are taken off the list: popleft and popleft_n.
LEMMA PopLinks ==
  ASSUME Facts, NEW q, NEW n, NEW S, NEW nx, NEW pv, NEW nx2, NEW pv2,
         IsList(q), LinkedIn(q, nx, pv), Popped(q, n, S, nx, pv, nx2, pv2)
  PROVE  LET r == SubSeq(q, n + 1, Len(q))
         IN  /\ IsList(r) /\ Len(r) = Len(q) - n /\ Range(r) = Range(q) \ S
             /\ LinkedIn(r, nx2, pv2)
<1> DEFINE r == SubSeq(q, n + 1, Len(q))
<1> USE DEF Popped
<1>0. /\ q \in Seq(Block) /\ Len(q) \in Nat /\ n \in 0..Len(q) /\ IsInjective(q)
      /\ DOMAIN q = 1..Len(q) /\ n \in 1..Len(q)
  BY ListFacts DEF IsList
<1>1. /\ r \in Seq(Block) /\ Len(r) = Len(q) - n /\ IsInjective(r)
      /\ \A i \in 1..Len(r) : r[i] = q[i + n]
  <2>1. /\ r \in Seq(Block) /\ Len(r) = Len(q) - n /\ IsInjective(r)
        /\ \A i \in 1..(Len(q) - n) : r[i] = q[n + i]
    BY ONLY Facts, Zenon, <1>0, RestEntries DEF r
  <2> HIDE DEF r
  <2>2. ASSUME NEW i \in 1..(Len(q) - n) PROVE n + i = i + n BY ONLY <1>0
  <2> QED BY Zenon, <2>1, <2>2
<1>2. IsList(r) BY Zenon, <1>1 DEF IsList
<1> HIDE DEF r
<1>3. /\ At(r, 0) = FakeHead
      /\ \A i \in 1..(Len(r) + 1) : i + n \in 1..(Len(q) + 1) /\ At(r, i) = At(q, i + n)
  <2>1. ASSUME NEW i \in 1..(Len(r) + 1) PROVE At(r, i) = At(q, i + n)
    BY ONLY <1>0, <1>1, <2>1 DEF At
  <2> QED BY ONLY <1>0, <1>1, <2>1 DEF At
<1>4. /\ \A i \in 0..(Len(q) + 1) : At(q, i) \in Node /\ At(q, i) # None
      /\ \A i, j \in 0..(Len(q) + 1) : At(q, i) = At(q, j) => i = j
      /\ At(q, 0) = FakeHead /\ At(q, Len(q) + 1) = FakeTail
      /\ \A i \in 1..Len(q) : At(q, i) = q[i] /\ At(q, i) \in Block
      /\ FakeHead \in Node /\ FakeTail \in Node /\ FakeHead # FakeTail
      /\ FakeHead \notin Block /\ FakeTail \notin Block /\ None \notin Node
  BY Zenon, AtFacts
<1>5. S = {At(q, i) : i \in 1..n} BY <1>0, <1>4
<1>6. ASSUME NEW i \in 0..(Len(q) + 1) PROVE At(q, i) \in S <=> i \in 1..n
  <2>1. ASSUME i \in 1..n PROVE At(q, i) \in S BY Zenon, <1>5, <2>1
  <2>2. ASSUME At(q, i) \in S PROVE i \in 1..n
    <3>1. PICK j \in 1..n : At(q, i) = At(q, j) BY Zenon, <1>5, <2>2
    <3>2. j \in 0..(Len(q) + 1) BY ONLY <1>0
    <3>3. i = j BY Zenon, <1>4, <3>1, <3>2
    <3> QED BY Zenon, <3>3
  <2> QED BY Zenon, <2>1, <2>2
<1>8. Range(r) = Range(q) \ S
  <2>1. ASSUME NEW b \in Range(r) PROVE b \in Range(q) \ S
    <3>1. PICK i \in 1..Len(r) : b = r[i] BY <1>2, ListFacts
    <3>2. i + n \in 1..Len(q) /\ ~ (i + n \in 1..n) /\ b = At(q, i + n)
      BY ONLY <1>0, <1>1, <1>4, <3>1
    <3> QED BY <1>0, <1>4, <1>6, <3>2, ListFacts
  <2>2. ASSUME NEW b \in Range(q) \ S PROVE b \in Range(r)
    <3>1. PICK i \in 1..Len(q) : b = q[i] BY ListFacts
    <3>2. ~ (i \in 1..n) BY Zenon, <1>4, <1>6, <2>2, <3>1
    <3>3. i - n \in 1..Len(r) /\ (i - n) + n = i BY ONLY <1>0, <1>1, <3>1, <3>2
    <3>4. r[i - n] = q[i] BY ONLY <1>1, <3>3
    <3> QED BY Zenon, <1>2, <3>1, <3>3, <3>4, ListFacts
  <2> QED BY Zenon, <2>1, <2>2
<1>9. ASSUME NEW i \in 0..Len(r)
      PROVE  nx2[At(r, i)] = At(r, i + 1) /\ pv2[At(r, i + 1)] = At(r, i)
  <2>1. CASE i = 0
    <3>1. At(r, i) = At(q, 0) /\ At(r, i + 1) = At(q, n + 1) /\ n + 1 \in 0..(Len(q) + 1)
      BY ONLY <1>0, <1>1, <1>3, <1>4, <2>1
    <3>2. At(q, 0) \notin S /\ At(q, n + 1) \notin S BY ONLY <1>0, <1>6, <3>1
    <3> QED BY Zenon, <1>4, <3>1, <3>2
  <2>2. CASE i # 0
    <3>1. /\ i + n \in 1..Len(q) /\ At(r, i) = At(q, i + n)
          /\ i + n + 1 \in 1..(Len(q) + 1) /\ At(r, i + 1) = At(q, i + n + 1)
      <4>1. i \in 1..(Len(r) + 1) /\ i + 1 \in 1..(Len(r) + 1) /\ (i + 1) + n = i + n + 1
        BY ONLY <1>0, <1>1, <2>2
      <4>2. At(r, i + 1) = At(q, (i + 1) + n) BY Zenon, <1>3, <4>1
      <4> QED BY ONLY <1>0, <1>1, <1>3, <4>1, <4>2
    <3>2. nx[At(q, i + n)] = At(q, i + n + 1) /\ pv[At(q, i + n + 1)] = At(q, i + n)
      BY <1>0, <3>1 DEF LinkedIn
    <3>3. At(q, i + n) \notin S /\ At(q, i + n + 1) \notin S
      <4>1. i + n \in 0..(Len(q) + 1) /\ i + n + 1 \in 0..(Len(q) + 1)
            /\ ~ (i + n \in 1..n) /\ ~ (i + n + 1 \in 1..n)
        BY ONLY <1>0, <2>2, <3>1
      <4> QED BY Zenon, <1>6, <4>1
    <3>4. At(q, i + n) # FakeHead /\ At(q, i + n + 1) # At(q, n + 1)
      <4>1. i + n # 0 /\ i + n + 1 # n + 1 /\ n + 1 \in 0..(Len(q) + 1)
            /\ 0 \in 0..(Len(q) + 1) /\ i + n \in 0..(Len(q) + 1)
            /\ i + n + 1 \in 0..(Len(q) + 1)
        BY ONLY <1>0, <2>2, <3>1
      <4> QED BY Zenon, <1>4, <4>1
    <3>5. At(q, i + n) \in Node /\ At(q, i + n + 1) \in Node BY ONLY <1>0, <1>4, <3>1
    <3> QED BY <3>1, <3>2, <3>3, <3>4, <3>5
  <2> QED BY Zenon, <2>1, <2>2
<1>10. pv2[FakeHead] = None /\ nx2[FakeTail] = None
  <2>1. FakeHead \notin S /\ FakeTail \notin S /\ FakeHead # At(q, n + 1)
    <3>1. 0 \in 0..(Len(q) + 1) /\ Len(q) + 1 \in 0..(Len(q) + 1) /\ n + 1 \in 0..(Len(q) + 1)
          /\ n + 1 # 0 /\ ~ (0 \in 1..n) /\ ~ (Len(q) + 1 \in 1..n)
      BY ONLY <1>0
    <3> QED BY Zenon, <1>4, <1>6, <3>1
  <2> QED BY Zenon, <1>4, <2>1 DEF LinkedIn
<1>11. ASSUME NEW b \in Block \ Range(r) PROVE pv2[b] = None /\ nx2[b] = None
  <2>1. b \in Node /\ b # FakeHead /\ b # FakeTail BY Zenon, <1>4 DEF Node
  <2>2. CASE b \in S BY Zenon, <2>1, <2>2
  <2>3. CASE b \notin S
    <3>1. b \notin Range(q) BY Zenon, <1>8, <2>3
    <3>2. b # At(q, n + 1)
      <4>1. CASE n + 1 <= Len(q) BY <1>0, <1>4, <3>1, <4>1, ListFacts
      <4>2. CASE n + 1 > Len(q)
        <5>1. n + 1 = Len(q) + 1 BY ONLY <1>0, <4>2
        <5> QED BY Zenon, <1>4, <2>1, <5>1
      <4> QED BY ONLY <1>0, <4>1, <4>2
    <3>3. pv[b] = None /\ nx[b] = None BY Zenon, <3>1 DEF LinkedIn
    <3> QED BY Zenon, <2>1, <2>3, <3>2, <3>3
  <2> QED BY Zenon, <2>2, <2>3
<1>12. LinkedIn(r, nx2, pv2) BY Zenon, <1>9, <1>10, <1>11 DEF LinkedIn
<1> QED BY Zenon, <1>1, <1>2, <1>8, <1>12 DEF r

\* A list without its k-th block: the blocks behind it move up by one.
LEMMA WithoutOne ==
  ASSUME Facts, NEW q, IsList(q), NEW k \in 1..Len(q)
  PROVE  LET r == Without(q, {q[k]})
         IN  /\ IsList(r) /\ Len(r) = Len(q) - 1
             /\ Range(r) = Range(q) \ {q[k]}
             /\ \A j \in 1..(Len(q) - 1) : r[j] = IF j < k THEN q[j] ELSE q[j + 1]
<1>1. q \in Seq(Block) /\ IsInjective(q) BY Zenon DEF IsList
<1> QED BY Zenon, <1>1 DEF IsList, Facts, DropOne

\* How remove sets the links when it takes the block b.
Removed(b, nx, pv, nx2, pv2) ==
    /\ nx2 \in Links /\ pv2 \in Links
    /\ \A x \in Node : nx2[x] = IF x = b THEN None
                         ELSE IF x = pv[b] THEN nx[b] ELSE nx[x]
    /\ \A x \in Node : pv2[x] = IF x = b THEN None
                         ELSE IF x = nx[b] THEN pv[b] ELSE pv[x]

\* A block in the list is taken out of it: remove.
LEMMA RemoveLinks ==
  ASSUME Facts, NEW q, NEW nx, NEW pv, NEW nx2, NEW pv2, NEW k \in 1..Len(q), NEW b, b = q[k],
         IsList(q), LinkedIn(q, nx, pv), Removed(b, nx, pv, nx2, pv2)
  PROVE  LinkedIn(Without(q, {b}), nx2, pv2)
<1> DEFINE r == Without(q, {b})
<1> USE DEF Removed
<1>0. Len(q) \in Nat BY Zenon, ListFacts
<1>1. /\ IsList(r) /\ Len(r) = Len(q) - 1 /\ Range(r) = Range(q) \ {b}
      /\ \A j \in 1..(Len(q) - 1) : r[j] = IF j < k THEN q[j] ELSE q[j + 1]
  BY WithoutOne
<1> HIDE DEF r
<1>2. /\ \A i \in 0..(Len(q) + 1) : At(q, i) \in Node /\ At(q, i) # None
      /\ \A i, j \in 0..(Len(q) + 1) : At(q, i) = At(q, j) => i = j
      /\ At(q, 0) = FakeHead /\ At(q, Len(q) + 1) = FakeTail
      /\ \A i \in 1..Len(q) : At(q, i) = q[i] /\ At(q, i) \in Block
      /\ FakeHead \in Node /\ FakeTail \in Node /\ FakeHead # FakeTail
      /\ FakeHead \notin Block /\ FakeTail \notin Block /\ None \notin Node
  BY Zenon, AtFacts
<1>3. ASSUME NEW i \in 0..(Len(r) + 1)
      PROVE  At(r, i) = At(q, IF i < k THEN i ELSE i + 1)
  BY ONLY <1>0, <1>1 DEF At
<1>4. \A i \in 0..Len(q) : nx[At(q, i)] = At(q, i + 1) /\ pv[At(q, i + 1)] = At(q, i)
  BY Zenon DEF LinkedIn
<1>5. /\ At(q, k) = b /\ b \in Block /\ b \in Node
      /\ nx[b] = At(q, k + 1) /\ pv[b] = At(q, k - 1)
      /\ k - 1 \in 0..(Len(q) + 1) /\ k + 1 \in 0..(Len(q) + 1) /\ k \in 0..(Len(q) + 1)
  <2>1. At(q, k) = b /\ b \in Block /\ k \in 0..Len(q) /\ k - 1 \in 0..Len(q) /\ (k - 1) + 1 = k
    BY <1>0, <1>2
  <2>2. nx[At(q, k)] = At(q, k + 1) BY Zenon, <1>4, <2>1
  <2>3. pv[At(q, (k - 1) + 1)] = At(q, k - 1) BY Zenon, <1>4, <2>1
  <2> QED BY ONLY <1>0, <2>1, <2>2, <2>3 DEF Node
<1>7. ASSUME NEW i \in 0..(Len(q) + 1), i # k
      PROVE  /\ nx2[At(q, i)] = IF i = k - 1 THEN At(q, k + 1) ELSE nx[At(q, i)]
             /\ pv2[At(q, i)] = IF i = k + 1 THEN At(q, k - 1) ELSE pv[At(q, i)]
  <2>1. At(q, i) \in Node /\ At(q, i) # b BY ONLY <1>2, <1>5, <1>7
  <2>2. At(q, i) = pv[b] <=> i = k - 1 BY ONLY <1>2, <1>5
  <2>3. At(q, i) = nx[b] <=> i = k + 1 BY ONLY <1>2, <1>5
  <2> QED BY Zenon, <1>5, <2>1, <2>2, <2>3
<1>8. ASSUME NEW i \in 0..Len(r)
      PROVE  nx2[At(r, i)] = At(r, i + 1) /\ pv2[At(r, i + 1)] = At(r, i)
  <2> DEFINE u == IF i < k THEN i ELSE i + 1
             v == IF i + 1 < k THEN i + 1 ELSE i + 2
  <2>1. At(r, i) = At(q, u) /\ At(r, i + 1) = At(q, v)
    <3>1. i \in 0..(Len(r) + 1) /\ i + 1 \in 0..(Len(r) + 1) /\ (i + 1) + 1 = i + 2
      BY ONLY <1>0, <1>1
    <3>2. At(r, i + 1) = At(q, IF i + 1 < k THEN i + 1 ELSE (i + 1) + 1) BY Zenon, <1>3, <3>1
    <3> QED BY Zenon, <1>3, <3>1, <3>2
  <2>2. /\ u \in 0..(Len(q) + 1) /\ v \in 0..(Len(q) + 1) /\ u # k /\ v # k
        /\ IF u = k - 1 THEN v = k + 1 ELSE v = u + 1
        /\ IF v = k + 1 THEN u = k - 1 ELSE v = u + 1
        /\ v = u + 1 => u \in 0..Len(q)
    BY ONLY <1>0, <1>1
  <2>3. v = u + 1 => nx[At(q, u)] = At(q, v) /\ pv[At(q, v)] = At(q, u)
    BY ONLY <1>4, <2>2
  <2> HIDE DEF u, v
  <2>4. /\ nx2[At(q, u)] = IF u = k - 1 THEN At(q, k + 1) ELSE nx[At(q, u)]
        /\ pv2[At(q, v)] = IF v = k + 1 THEN At(q, k - 1) ELSE pv[At(q, v)]
    BY Zenon, <1>7, <2>2
  <2> QED BY Zenon, <2>1, <2>2, <2>3, <2>4
<1>9. pv2[FakeHead] = None /\ nx2[FakeTail] = None
  <2>1. /\ pv2[At(q, 0)] = pv[At(q, 0)] /\ nx2[At(q, Len(q) + 1)] = nx[At(q, Len(q) + 1)]
    <3>1. /\ 0 \in 0..(Len(q) + 1) /\ 0 # k /\ 0 # k + 1
          /\ Len(q) + 1 \in 0..(Len(q) + 1) /\ Len(q) + 1 # k /\ Len(q) + 1 # k - 1
      BY ONLY <1>0
    <3> QED BY Zenon, <1>7, <3>1
  <2> QED BY Zenon, <1>2, <2>1 DEF LinkedIn
<1>10. ASSUME NEW c \in Block \ Range(r) PROVE pv2[c] = None /\ nx2[c] = None
  <2>1. c \in Node BY Zenon DEF Node
  <2>2. CASE c = b BY Zenon, <2>1, <2>2
  <2>3. CASE c # b
    <3>1. c \notin Range(q) BY Zenon, <1>1, <2>3
    <3>2. pv[c] = None /\ nx[c] = None BY Zenon, <3>1 DEF LinkedIn
    <3>3. \A i \in 0..(Len(q) + 1) : At(q, i) # c
      <4>1. ASSUME NEW i \in 0..(Len(q) + 1), At(q, i) = c PROVE FALSE
        <5>1. CASE i \in 1..Len(q) BY <1>2, <3>1, <4>1, <5>1, ListFacts
        <5>2. CASE i \notin 1..Len(q)
          <6>1. i = 0 \/ i = Len(q) + 1 BY ONLY <1>0, <5>2
          <6> QED BY Zenon, <1>2, <4>1, <6>1
        <5> QED BY Zenon, <5>1, <5>2
      <4> QED BY Zenon, <4>1
    <3>4. c # pv[b] /\ c # nx[b] BY Zenon, <1>5, <3>3
    <3> QED BY Zenon, <2>1, <2>3, <3>2, <3>4
  <2> QED BY Zenon, <2>2, <2>3
<1>11. LinkedIn(r, nx2, pv2) BY Zenon, <1>8, <1>9, <1>10 DEF LinkedIn
<1> QED BY Zenon, <1>11 DEF r

\* How append_n sets the links when it puts the blocks of t behind the node last.
Appended(last, t, nx, pv, nx2, pv2) ==
    /\ nx2 \in Links /\ pv2 \in Links
    /\ nx2[last] = t[1] /\ pv2[FakeTail] = t[Len(t)]
    /\ \A x \in Node \ Range(t) : /\ x # last => nx2[x] = nx[x]
                                  /\ x # FakeTail => pv2[x] = pv[x]
    /\ \A j \in 1..Len(t) : /\ nx2[t[j]] = At(t, j + 1)
                            /\ pv2[t[j]] = IF j = 1 THEN last ELSE t[j - 1]

\* Blocks that are not in the list are put behind it: append_n.
LEMMA AppendLinks ==
  ASSUME Facts, NEW q, NEW t, NEW nx, NEW pv, NEW nx2, NEW pv2,
         IsList(q), IsList(t), Range(t) \cap Range(q) = {}, Len(t) > 0,
         LinkedIn(q, nx, pv), Appended(At(q, Len(q)), t, nx, pv, nx2, pv2)
  PROVE  /\ IsList(q \o t) /\ Len(q \o t) = Len(q) + Len(t)
         /\ Range(q \o t) = Range(q) \union Range(t)
         /\ LinkedIn(q \o t, nx2, pv2)
<1> DEFINE r == q \o t
           n == Len(q)
           m == Len(t)
<1> USE DEF Appended
<1>0. /\ n \in Nat /\ m \in Nat /\ q \in Seq(Block) /\ t \in Seq(Block)
      /\ DOMAIN q = 1..n /\ DOMAIN t = 1..m
      /\ \A i \in 1..n : q[i] \in Range(q) /\ q[i] \in Block
      /\ \A i \in 1..m : t[i] \in Range(t) /\ t[i] \in Block
      /\ \A i, j \in 1..n : q[i] = q[j] => i = j
      /\ \A i, j \in 1..m : t[i] = t[j] => i = j
      /\ Range(t) \subseteq Block
  BY Zenon, ListFacts DEF IsList
<1> HIDE DEF n, m
<1>n. n \in Nat /\ m \in Nat /\ m > 0 BY Zenon, <1>0 DEF m
<1>1. r \in Seq(Block) /\ Len(r) = n + m /\ DOMAIN r = 1..(n + m)
  BY ONLY <1>0 DEF n, m, Facts, ConcatProperties, LenProperties
<1>2. \A i \in 1..(n + m) : r[i] = IF i <= n THEN q[i] ELSE t[i - n]
  BY ONLY <1>0 DEF n, m, Facts, ConcatProperties
<1> HIDE DEF r
<1>3. IsInjective(r)
  <2>1. ASSUME NEW i \in 1..(n + m), NEW j \in 1..(n + m), r[i] = r[j] PROVE i = j
    <3>1. CASE i <= n /\ j <= n BY ONLY <1>0, <1>2, <2>1, <3>1
    <3>2. CASE i > n /\ j > n
      <4>1. r[i] = t[i - n] /\ r[j] = t[j - n] /\ i - n \in 1..m /\ j - n \in 1..m
        BY ONLY <1>n, <1>2, <3>2
      <4> DEFINE u == i - n
                 v == j - n
      <4>2. u \in 1..m /\ v \in 1..m /\ t[u] = t[v] BY Zenon, <2>1, <4>1
      <4>3. u = v => i = j BY ONLY <1>n
      <4> HIDE DEF u, v
      <4>4. u = v BY Zenon, <1>0, <4>2
      <4> QED BY Zenon, <4>3, <4>4
    <3>3. CASE i <= n /\ j > n
      <4>1. r[i] = q[i] /\ r[j] = t[j - n] /\ i \in 1..n /\ j - n \in 1..m
        BY ONLY <1>0, <1>2, <3>3
      <4> QED BY Zenon, <1>0, <2>1, <4>1
    <3>4. CASE i > n /\ j <= n
      <4>1. r[j] = q[j] /\ r[i] = t[i - n] /\ j \in 1..n /\ i - n \in 1..m
        BY ONLY <1>0, <1>2, <3>4
      <4> QED BY <1>0, <2>1, <4>1
    <3> QED BY ONLY <1>0, <3>1, <3>2, <3>3, <3>4
  <2> QED BY Zenon, <1>1, <2>1 DEF IsInjective
<1>4. Range(r) = Range(q) \union Range(t)
  <2>1. ASSUME NEW x \in Range(r) PROVE x \in Range(q) \union Range(t)
    <3>1. PICK i \in 1..(n + m) : x = r[i] BY ONLY <1>1 DEF Range
    <3>2. i <= n \/ (i - n \in 1..m /\ ~ (i <= n)) BY ONLY <1>0
    <3> QED BY ONLY <1>0, <1>2, <3>1, <3>2
  <2>2. ASSUME NEW x \in Range(q) PROVE x \in Range(r)
    <3>1. PICK i \in 1..n : x = q[i] BY ONLY <1>0 DEF Range
    <3>2. i \in 1..(n + m) /\ i <= n BY ONLY <1>0
    <3> QED BY Zenon, <1>1, <1>2, <3>1, <3>2 DEF Range
  <2>3. ASSUME NEW x \in Range(t) PROVE x \in Range(r)
    <3>1. PICK i \in 1..m : x = t[i] BY ONLY <1>0 DEF Range
    <3>2. n + i \in 1..(n + m) /\ ~ (n + i <= n) /\ (n + i) - n = i BY ONLY <1>0
    <3>3. r[n + i] = x BY ONLY <1>2, <3>1, <3>2
    <3> QED BY Zenon, <1>1, <3>2, <3>3 DEF Range
  <2> QED BY Zenon, <2>1, <2>2, <2>3
<1>5. IsList(r) BY Zenon, <1>1, <1>3 DEF IsList
<1>6. /\ \A i \in 0..(n + 1) : At(q, i) \in Node
      /\ \A i, j \in 0..(n + 1) : At(q, i) = At(q, j) => i = j
      /\ At(q, 0) = FakeHead /\ At(q, n + 1) = FakeTail
      /\ \A i \in 1..n : At(q, i) = q[i]
      /\ FakeHead \in Node /\ FakeTail \in Node /\ FakeHead # FakeTail
      /\ FakeHead \notin Block /\ FakeTail \notin Block
  BY AtFacts DEF n
<1>7. \A i \in 0..n : At(q, i) \notin Range(t)
  <2>1. ASSUME NEW i \in 0..n PROVE At(q, i) \notin Range(t)
    <3>1. CASE i = 0 BY Zenon, <1>0, <1>6, <3>1
    <3>2. CASE i # 0 BY <1>0, <1>6, <3>2
    <3> QED BY Zenon, <3>1, <3>2
  <2> QED BY Zenon, <2>1
<1>8. \A i \in 0..n : nx[At(q, i)] = At(q, i + 1) /\ pv[At(q, i + 1)] = At(q, i)
  BY Zenon DEF LinkedIn, n
<1>9. /\ \A i \in 0..n : At(r, i) = At(q, i)
      /\ \A i \in 1..m : At(r, n + i) = t[i]
      /\ At(r, n + m + 1) = FakeTail
  <2>1. \A i \in 0..n : At(r, i) = At(q, i) BY ONLY <1>0, <1>1, <1>2 DEF At, n
  <2>2. ASSUME NEW i \in 1..m PROVE At(r, n + i) = t[i]
    <3>1. n + i \in 1..(n + m) /\ ~ (n + i <= n) /\ (n + i) - n = i /\ n + i # 0 BY ONLY <1>0
    <3> QED BY ONLY <1>1, <1>2, <3>1 DEF At
  <2>3. At(r, n + m + 1) = FakeTail BY ONLY <1>0, <1>1 DEF At
  <2> QED BY Zenon, <2>1, <2>2, <2>3
<1>10. ASSUME NEW i \in 0..(n + m)
       PROVE  nx2[At(r, i)] = At(r, i + 1) /\ pv2[At(r, i + 1)] = At(r, i)
  <2>1. CASE i < n
    <3>1. i \in 0..n /\ i + 1 \in 0..n /\ i \in 0..(n + 1) /\ i + 1 \in 0..(n + 1)
          /\ n \in 0..(n + 1) /\ n + 1 \in 0..(n + 1) /\ i # n /\ i + 1 # n + 1
      BY ONLY <1>n, <2>1
    <3>2. /\ At(r, i) = At(q, i) /\ At(r, i + 1) = At(q, i + 1)
          /\ nx[At(q, i)] = At(q, i + 1) /\ pv[At(q, i + 1)] = At(q, i)
      BY Zenon, <1>8, <1>9, <3>1
    <3>3. At(q, i) # At(q, n) /\ At(q, i + 1) # FakeTail BY Zenon, <1>6, <3>1
    <3>4. /\ At(q, i) \in Node \ Range(t) /\ At(q, i + 1) \in Node \ Range(t)
      BY Zenon, <1>6, <1>7, <3>1
    <3>5. nx2[At(q, i)] = nx[At(q, i)] BY Zenon, <3>3, <3>4 DEF n
    <3>6. pv2[At(q, i + 1)] = pv[At(q, i + 1)] BY Zenon, <3>3, <3>4
    <3> QED BY Zenon, <3>2, <3>5, <3>6
  <2>2. CASE i = n
    <3>1. n \in 0..n /\ 1 \in 1..m BY <1>0
    <3>2. At(r, i) = At(q, n) /\ At(r, i + 1) = t[1] BY Zenon, <1>9, <2>2, <3>1
    <3>3. nx2[At(q, n)] = t[1] /\ pv2[t[1]] = At(q, n) BY Zenon, <3>1 DEF n, m
    <3> QED BY Zenon, <3>2, <3>3
  <2>3. CASE i > n
    <3> DEFINE j == i - n
    <3>1. j \in 1..m /\ i = n + j /\ i + 1 = n + (j + 1) /\ j + 1 # 1 /\ (j + 1) - 1 = j
      BY ONLY <1>0, <2>3
    <3> HIDE DEF j
    <3>2. At(r, i) = t[j] /\ nx2[t[j]] = At(t, j + 1) BY Zenon, <1>9, <3>1 DEF m
    <3>3. CASE j = m
      <4>1. At(t, j + 1) = FakeTail /\ i + 1 = n + m + 1 BY ONLY <1>n, <3>1, <3>3 DEF At, m
      <4>2. At(r, i + 1) = FakeTail /\ pv2[FakeTail] = t[j] BY Zenon, <1>9, <3>3, <4>1 DEF m
      <4> QED BY Zenon, <3>2, <4>1, <4>2
    <3>4. CASE j # m
      <4>0. j + 1 \in 1..m BY ONLY <1>n, <3>1, <3>4
      <4>1. j + 1 \in 1..m /\ At(t, j + 1) = t[j + 1] BY ONLY <4>0 DEF At, m
      <4>2. At(r, n + (j + 1)) = t[j + 1] BY Zenon, <1>9, <4>1
      <4>3. pv2[t[j + 1]] = t[(j + 1) - 1] BY Zenon, <3>1, <4>1 DEF m
      <4> QED BY Zenon, <3>1, <3>2, <4>1, <4>2, <4>3
    <3> QED BY Zenon, <3>3, <3>4
  <2> QED BY ONLY <1>n, <2>1, <2>2, <2>3
<1>11. pv2[FakeHead] = None /\ nx2[FakeTail] = None
  <2>1. n \in 0..(n + 1) /\ n + 1 \in 0..(n + 1) /\ n # n + 1 BY ONLY <1>n
  <2>2. FakeTail # At(q, n) BY Zenon, <1>6, <2>1
  <2>3. FakeHead \notin Range(t) /\ FakeTail \notin Range(t) BY Zenon, <1>0, <1>6
  <2>4. nx2[FakeTail] = nx[FakeTail] BY Zenon, <1>6, <2>2, <2>3 DEF n
  <2>5. pv2[FakeHead] = pv[FakeHead] BY Zenon, <1>6, <2>3
  <2> QED BY Zenon, <2>4, <2>5 DEF LinkedIn
<1>12. ASSUME NEW b \in Block \ Range(r) PROVE pv2[b] = None /\ nx2[b] = None
  <2>1. b \in Node \ Range(t) /\ b \notin Range(q) /\ b # FakeTail /\ b # FakeHead
    BY Zenon, <1>4, <1>6 DEF Node
  <2>2. b # At(q, n)
    <3>1. CASE n = 0 BY Zenon, <1>6, <2>1, <3>1
    <3>2. CASE n # 0
      <4>1. n \in 1..n BY ONLY <1>0, <3>2
      <4> QED BY ONLY <1>0, <1>6, <2>1, <4>1
    <3> QED BY Zenon, <3>1, <3>2
  <2>3. nx2[b] = nx[b] /\ pv2[b] = pv[b] BY Zenon, <2>1, <2>2 DEF n
  <2> QED BY Zenon, <2>1, <2>3 DEF LinkedIn
<1>13. LinkedIn(r, nx2, pv2) BY Zenon, <1>1, <1>10, <1>11, <1>12 DEF LinkedIn
<1> QED BY Zenon, <1>1, <1>4, <1>5, <1>13 DEF r, n, m

-----------------------------------------------------------------------------
(* The methods, one lemma each *)

\* The links, the counter and the caller's idle blocks all tell of the list q.
Holds(q, nx, pv, num, blocks) ==
    /\ IsList(q) /\ nx \in Links /\ pv \in Links /\ LinkedIn(q, nx, pv)
    /\ Range(q) = blocks /\ num = Len(q)

State(q) == Holds(q, next, prev, num_free_blocks, idle) /\ failed = FALSE
StateNext(q) == Holds(q, next', prev', num_free_blocks', idle') /\ failed' = FALSE

\* __init__ links the blocks in the order of its argument.
LEMMA InitHolds ==
  ASSUME Facts, Init
  PROVE  \E q \in Lists : State(q) /\ Range(q) = Block /\ ret = << >>
<1>1. PICK q \in Lists :
        /\ Range(q) = Block
        /\ next = [x \in Node |-> IF x = FakeTail THEN None
                     ELSE At(q, 1 + CHOOSE i \in 0..Len(q) : At(q, i) = x)]
        /\ prev = [x \in Node |-> IF x = FakeHead THEN None
                     ELSE At(q, (CHOOSE i \in 1..(Len(q) + 1) : At(q, i) = x) - 1)]
        /\ num_free_blocks = Len(q)
  BY Zenon DEF Init
<1>2. IsList(q) /\ Len(q) \in Nat BY Zenon, ListFacts
<1>3. /\ \A i \in 0..(Len(q) + 1) : At(q, i) \in Node
      /\ \A i, j \in 0..(Len(q) + 1) : At(q, i) = At(q, j) => i = j
      /\ At(q, 0) = FakeHead /\ At(q, Len(q) + 1) = FakeTail
      /\ \A i \in 1..Len(q) : At(q, i) = q[i]
      /\ FakeHead \in Node /\ FakeTail \in Node
  BY Zenon, <1>2, AtFacts
<1>4. \A x \in Node : \E i \in 0..(Len(q) + 1) : x = At(q, i)
  <2>1. ASSUME NEW x \in Node PROVE \E i \in 0..(Len(q) + 1) : x = At(q, i)
    <3>1. CASE x \in Block
      <4>1. PICK i \in 1..Len(q) : x = q[i] BY Zenon, <1>1, <1>2, <3>1, ListFacts
      <4>2. i \in 0..(Len(q) + 1) BY ONLY <1>2
      <4> QED BY Zenon, <1>3, <4>1, <4>2
    <3>2. CASE x \notin Block
      <4>1. 0 \in 0..(Len(q) + 1) /\ Len(q) + 1 \in 0..(Len(q) + 1) BY ONLY <1>2
      <4> QED BY Zenon, <1>3, <3>2, <4>1 DEF Node
    <3> QED BY Zenon, <3>1, <3>2
  <2> QED BY Zenon, <2>1
<1>5. ASSUME NEW i \in 0..Len(q)
      PROVE  next[At(q, i)] = At(q, i + 1) /\ prev[At(q, i + 1)] = At(q, i)
  <2>0. /\ i \in 0..(Len(q) + 1) /\ i + 1 \in 1..(Len(q) + 1) /\ i + 1 \in 0..(Len(q) + 1)
        /\ 0 \in 0..(Len(q) + 1) /\ Len(q) + 1 \in 0..(Len(q) + 1) /\ i # Len(q) + 1
        /\ i + 1 # 0 /\ 1 + i = i + 1 /\ (i + 1) - 1 = i
        /\ \A j \in 0..Len(q) : j \in 0..(Len(q) + 1)
        /\ \A j \in 1..(Len(q) + 1) : j \in 0..(Len(q) + 1)
    BY ONLY <1>2
  <2>1. (CHOOSE j \in 0..Len(q) : At(q, j) = At(q, i)) = i BY Zenon, <1>3, <2>0
  <2>2. (CHOOSE j \in 1..(Len(q) + 1) : At(q, j) = At(q, i + 1)) = i + 1 BY Zenon, <1>3, <2>0
  <2>3. At(q, i) \in Node /\ At(q, i) # FakeTail BY Zenon, <1>3, <2>0
  <2>4. At(q, i + 1) \in Node /\ At(q, i + 1) # FakeHead BY Zenon, <1>3, <2>0
  <2>5. next[At(q, i)] = At(q, 1 + i) BY Zenon, <1>1, <2>1, <2>3
  <2>6. prev[At(q, i + 1)] = At(q, (i + 1) - 1) BY Zenon, <1>1, <2>2, <2>4
  <2> QED BY Zenon, <2>0, <2>5, <2>6
<1>6. prev[FakeHead] = None /\ next[FakeTail] = None BY Zenon, <1>1, <1>3
<1>7. LinkedIn(q, next, prev) BY Zenon, <1>1, <1>5, <1>6 DEF LinkedIn
<1>8. \A x \in Node : next[x] \in Node \union {None} /\ prev[x] \in Node \union {None}
  <2>1. ASSUME NEW x \in Node
        PROVE  next[x] \in Node \union {None} /\ prev[x] \in Node \union {None}
    <3>1. PICK i \in 0..(Len(q) + 1) : x = At(q, i) BY Zenon, <1>4
    <3>2. next[x] \in Node \union {None}
      <4>1. CASE i = Len(q) + 1 BY Zenon, <1>3, <1>6, <3>1, <4>1
      <4>2. CASE i # Len(q) + 1
        <5>1. i \in 0..Len(q) /\ i + 1 \in 0..(Len(q) + 1) BY ONLY <1>2, <4>2
        <5> QED BY Zenon, <1>3, <1>5, <3>1, <5>1
      <4> QED BY Zenon, <4>1, <4>2
    <3>3. prev[x] \in Node \union {None}
      <4>1. CASE i = 0 BY Zenon, <1>3, <1>6, <3>1, <4>1
      <4>2. CASE i # 0
        <5>1. i - 1 \in 0..Len(q) /\ i - 1 \in 0..(Len(q) + 1) /\ (i - 1) + 1 = i
          BY ONLY <1>2, <4>2
        <5>2. prev[At(q, (i - 1) + 1)] = At(q, i - 1) BY Zenon, <1>5, <5>1
        <5> QED BY Zenon, <1>3, <3>1, <5>1, <5>2
      <4> QED BY Zenon, <4>1, <4>2
    <3> QED BY Zenon, <3>2, <3>3
  <2> QED BY Zenon, <2>1
<1>9. next \in Links /\ prev \in Links
  <2>1. next = [x \in Node |-> next[x]] /\ prev = [x \in Node |-> prev[x]] BY ONLY <1>1
  <2> QED BY Zenon, <1>8, <2>1 DEF Links
<1>10. State(q) BY Zenon, <1>1, <1>2, <1>7, <1>9 DEF State, Holds, Init
<1> QED BY Zenon, <1>1, <1>10 DEF Init

\* popleft takes the first block, and raises only if there is none.
LEMMA PopleftHolds ==
  ASSUME Facts, NEW q, State(q), Popleft
  PROVE  \E r : /\ StateNext(r) /\ ret' \in Lists \union {NoBlocks}
                /\ IF q = << >> THEN ret' = NoBlocks /\ r = q
                   ELSE ret' = <<Head(q)>> /\ r = Tail(q)
<1>0. /\ IsList(q) /\ next \in Links /\ prev \in Links /\ LinkedIn(q, next, prev)
      /\ Range(q) = idle /\ num_free_blocks = Len(q) /\ failed = FALSE
      /\ Len(q) \in Nat /\ q \in Seq(Block)
  BY Zenon, ListFacts DEF State, Holds, IsList
<1>1. /\ \A i \in 0..(Len(q) + 1) : At(q, i) \in Node /\ At(q, i) # None
      /\ \A i, j \in 0..(Len(q) + 1) : At(q, i) = At(q, j) => i = j
      /\ At(q, 0) = FakeHead /\ At(q, Len(q) + 1) = FakeTail
      /\ \A i \in 1..Len(q) : At(q, i) = q[i] /\ At(q, i) \in Block
      /\ FakeHead \in Node /\ FakeHead \notin Block /\ FakeTail \notin Block
      /\ None \notin Node
  BY Zenon, <1>0, AtFacts
<1>2. \A i \in 0..Len(q) : next[At(q, i)] = At(q, i + 1) BY Zenon, <1>0 DEF LinkedIn
<1>3. next[FakeHead] = At(q, 1)
  <2>1. 0 \in 0..Len(q) /\ 0 + 1 = 1 BY ONLY <1>0
  <2> QED BY Zenon, <1>1, <1>2, <2>1
<1>4. CASE q = << >>
  <2>1. Len(q) = 0 BY Zenon, <1>4
  <2>2. next[FakeHead] = FakeTail BY ONLY <1>1, <1>3, <2>1
  <2>3. /\ ret' = NoBlocks /\ failed' = FALSE
        /\ UNCHANGED <<prev, next, num_free_blocks, idle>>
    BY Zenon, <1>0, <2>1, <2>2 DEF Popleft
  <2>4. StateNext(q) BY Zenon, <1>0, <2>3 DEF StateNext, Holds
  <2> QED BY Zenon, <1>4, <2>3, <2>4
<1>5. CASE q # << >>
  <2>1. Len(q) > 0 /\ 1 \in 1..Len(q)
    <3>1. Len(q) # 0 BY Zenon, <1>0, <1>5 DEF Facts, EmptySeq
    <3> QED BY ONLY <1>0, <3>1
  <2> DEFINE b == q[1]
             r == SubSeq(q, 1 + 1, Len(q))
  <2>2. b = q[1] /\ r = SubSeq(q, 1 + 1, Len(q)) BY Zenon
  <2>3. /\ next[FakeHead] = b /\ b \in Block /\ b \in Node /\ next[b] = At(q, 1 + 1)
        /\ At(q, 1 + 1) \in Node /\ At(q, 1 + 1) # None
        /\ b # None /\ b # FakeTail /\ b # FakeHead
    <3>1. 1 \in 0..Len(q) /\ 1 + 1 \in 0..(Len(q) + 1) BY ONLY <1>0, <2>1
    <3>2. At(q, 1) = b /\ b \in Block BY Zenon, <1>1, <2>1
    <3>3. next[At(q, 1)] = At(q, 1 + 1) BY Zenon, <1>2, <3>1
    <3> QED BY Zenon, <1>1, <1>3, <3>1, <3>2, <3>3 DEF Node
  <2>4. /\ next' = [next EXCEPT ![FakeHead] = next[b], ![b] = None]
        /\ prev' = [prev EXCEPT ![next[b]] = FakeHead, ![b] = None]
        /\ num_free_blocks' = num_free_blocks - 1 /\ ret' = <<b>>
        /\ idle' = idle \ {b} /\ failed' = failed
    BY Zenon, <2>3 DEF Popleft
  <2> HIDE DEF b, r
  <2>5. Popped(q, 1, {b}, next, prev, next', prev')
    <3>1. \A x : x \in {b} <=> \E i \in 1..1 : x = q[i]
      <4>1. \A i \in 1..1 : i = 1 OBVIOUS
      <4> QED BY ONLY <2>2, <4>1
    <3> QED BY Zenon, <1>0, <1>1, <2>1, <2>3, <2>4, <3>1 DEF Links, Popped
  <2>6. /\ IsList(r) /\ Len(r) = Len(q) - 1
        /\ Range(r) = Range(q) \ {b} /\ LinkedIn(r, next', prev')
    BY Zenon, <1>0, <2>5, PopLinks DEF r
  <2>7. StateNext(r) BY Zenon, <1>0, <2>4, <2>5, <2>6 DEF StateNext, Holds, Popped
  <2>8. Head(q) = b /\ Tail(q) = r BY ONLY <1>0, <1>5, 1 + 1 = 2 DEF b, r
  <2>9. <<b>> \in Lists
    <3>1. <<b>> \in Seq(Block) BY ONLY <2>3
    <3>2. IsInjective(<<b>>) BY DEF IsInjective
    <3> QED BY Zenon, <3>1, <3>2, ListFacts DEF IsList
  <2> QED BY Zenon, <1>5, <2>4, <2>7, <2>8, <2>9
<1> QED BY Zenon, <1>4, <1>5

\* The first n blocks of a list are a list.
LEMMA FirstBlocks ==
  ASSUME Facts, NEW q, IsList(q), NEW n \in 0..Len(q)
  PROVE  /\ SubSeq(q, 1, n) = [i \in 1..n |-> q[i]] /\ SubSeq(q, 1, n) \in Lists
         /\ Range(SubSeq(q, 1, n)) = {q[i] : i \in 1..n}
<1>1. q \in Seq(Block) /\ IsInjective(q) /\ Len(q) \in Nat /\ n \in Nat
  BY ListFacts DEF IsList
<1> DEFINE h == SubSeq(q, 1, n)
<1>2. h \in Seq(Block) BY Zenon, <1>1 DEF Facts, SplitProperties
<1>3. Len(h) = n BY ONLY <1>1 DEF Facts, SplitProperties
<1>4. IsInjective(h) BY Zenon, <1>1 DEF Facts, SplitProperties
<1>5. \A i \in 1..n : h[i] = q[i] BY ONLY <1>1 DEF Facts, SplitProperties
<1> HIDE DEF h
<1>6. DOMAIN h = 1..n /\ h \in [1..n -> Block] BY Zenon, <1>2, <1>3 DEF Facts, LenProperties
<1>7. h = [i \in 1..n |-> q[i]] BY Zenon, <1>5, <1>6
<1>8. h \in Lists BY Zenon, <1>2, <1>4, ListFacts DEF IsList
<1>9. Range(h) = {q[i] : i \in 1..n} BY Zenon, <1>5, <1>6 DEF Range
<1> QED BY Zenon, <1>7, <1>8, <1>9 DEF h

\* popleft_n takes the first n blocks.
LEMMA PopleftNHolds ==
  ASSUME Facts, NEW q, State(q), NEW n \in 0..Cardinality(Block), PopleftN(n)
  PROVE  /\ n <= Len(q)
         /\ ret' = SubSeq(q, 1, n) /\ ret' \in Lists
         /\ StateNext(SubSeq(q, n + 1, Len(q)))
<1>0. /\ IsList(q) /\ next \in Links /\ prev \in Links /\ LinkedIn(q, next, prev)
      /\ Linked(q) /\ Range(q) = idle /\ num_free_blocks = Len(q) /\ failed = FALSE
      /\ Len(q) \in Nat /\ q \in Seq(Block) /\ DOMAIN q = 1..Len(q)
  BY Zenon, ListFacts, LinkedIsLinkedIn DEF State, Holds, IsList
<1>1. n \in Nat /\ n <= Len(q) /\ n \in 0..Len(q)
  <2>1. Cardinality(Block) \in Nat BY Zenon, QueueAssumption DEF Facts, FiniteCardinality
  <2>2. n <= num_free_blocks BY Zenon DEF PopleftN
  <2> QED BY ONLY <1>0, <2>1, <2>2
<1>2. /\ \A i \in 0..(Len(q) + 1) : At(q, i) \in Node /\ At(q, i) # None
      /\ \A i \in 1..Len(q) : At(q, i) = q[i] /\ At(q, i) \in Block
      /\ FakeHead \in Node /\ FakeHead \notin Block /\ FakeTail \notin Block
      /\ None \notin Node
  BY Zenon, <1>0, AtFacts
<1>3. /\ SubSeq(q, 1, n) = [i \in 1..n |-> q[i]] /\ SubSeq(q, 1, n) \in Lists
      /\ Range(SubSeq(q, 1, n)) = {q[i] : i \in 1..n}
  BY Zenon, <1>0, <1>1, FirstBlocks
<1>4. CASE n = 0
  <2>1. ret' = << >> /\ UNCHANGED <<prev, next, num_free_blocks, failed, idle>>
    BY Zenon, <1>4 DEF PopleftN
  <2>2. SubSeq(q, 1, n) = << >>
    <3>1. 1 \in Int /\ n \in Int /\ n < 1 BY ONLY <1>4
    <3> QED BY ONLY <3>1
  <2>3. SubSeq(q, n + 1, Len(q)) = q
    <3> DEFINE r == SubSeq(q, n + 1, Len(q))
    <3>1. /\ r \in Seq(Block) /\ Len(r) = Len(q) - n
          /\ \A i \in 1..(Len(q) - n) : r[i] = q[n + i]
      <4>1. IsInjective(q) BY Zenon, <1>0 DEF IsList
      <4> QED BY ONLY Zenon, Facts, <1>0, <1>1, <4>1, RestEntries DEF r
    <3> HIDE DEF r
    <3>2. Len(r) = Len(q) /\ \A i \in 1..Len(q) : n + i = i /\ i \in 1..(Len(q) - n)
      BY ONLY <1>0, <1>4, <3>1
    <3>3. \A i \in 1..Len(q) : r[i] = q[i] BY Zenon, <3>1, <3>2
    <3>4. r = q BY ONLY <1>0, <3>1, <3>2, <3>3
    <3> QED BY Zenon, <3>4 DEF r
  <2>4. StateNext(q) BY Zenon, <1>0, <2>1 DEF StateNext, Holds
  <2> QED BY Zenon, <1>1, <1>3, <2>1, <2>2, <2>3, <2>4
<1>5. CASE n # 0
  <2> DEFINE S == {q[i] : i \in 1..n}
             popped == [i \in 1..n |-> Walk(n + 1)[i]]
             rest == Walk(n + 1)[n + 1]
  <2>1. Walk(n + 1) = [i \in 0..(n + 1) |-> Trail(q, i)]
    <3>1. n + 1 \in Nat BY ONLY <1>1
    <3> QED BY Zenon, <1>0, <3>1, WalkAlong
  <2>2. \A i \in 0..(n + 1) : Walk(n + 1)[i] = At(q, i)
    <3>1. \A i \in 0..(n + 1) : i <= Len(q) + 1 BY ONLY <1>0, <1>1
    <3> QED BY Zenon, <2>1, <3>1 DEF Trail
  <2>3. popped = [i \in 1..n |-> q[i]] /\ rest = At(q, n + 1)
    <3>1. \A i \in 1..n : Walk(n + 1)[i] = q[i]
      <4>1. \A i \in 1..n : i \in 0..(n + 1) /\ i \in 1..Len(q) BY ONLY <1>0, <1>1
      <4> QED BY Zenon, <1>2, <2>2, <4>1
    <3>2. rest = At(q, n + 1) BY ONLY <1>1, <2>2
    <3> QED BY Zenon, <3>1, <3>2
  <2>4. Range(popped) = S BY Zenon, <2>3 DEF Range
  <2>5. S \subseteq Block /\ None \notin S /\ FakeHead \notin S
    <3>1. \A i \in 1..n : q[i] \in Block
      <4>1. \A i \in 1..n : i \in 1..Len(q) BY ONLY <1>0, <1>1
      <4> QED BY Zenon, <1>2, <4>1
    <3>2. None \notin Block BY Zenon, <1>2 DEF Node
    <3> QED BY Zenon, <1>2, <3>1, <3>2
  <2>6. At(q, n + 1) \in Node /\ At(q, n + 1) # None /\ n \in 1..Len(q)
    <3>1. n + 1 \in 0..(Len(q) + 1) /\ n \in 1..Len(q) BY ONLY <1>0, <1>1, <1>5
    <3> QED BY Zenon, <1>2, <3>1
  <2>7. /\ next' = [x \in Node |-> IF x \in Range(popped) THEN None
                      ELSE IF x = FakeHead /\ rest # None THEN rest ELSE next[x]]
        /\ prev' = [x \in Node |-> IF x \in Range(popped) THEN None
                      ELSE IF x = rest THEN FakeHead ELSE prev[x]]
        /\ num_free_blocks' = num_free_blocks - n
        /\ ret' = popped /\ idle' = idle \ Range(popped) /\ failed' = failed
    BY Zenon, <1>5, <2>4, <2>5 DEF PopleftN
  <2> HIDE DEF popped, rest
  <2>8. Popped(q, n, S, next, prev, next', prev')
    <3>1. \A x : x \in S <=> \E i \in 1..n : x = q[i] BY Zenon
    <3> HIDE DEF S
    <3>2. \A x \in Node : next'[x] = IF x \in S THEN None
                           ELSE IF x = FakeHead THEN At(q, n + 1) ELSE next[x]
      BY Zenon, <2>3, <2>4, <2>6, <2>7
    <3>3. \A x \in Node : prev'[x] = IF x \in S THEN None
                           ELSE IF x = At(q, n + 1) THEN FakeHead ELSE prev[x]
      BY Zenon, <2>3, <2>4, <2>6, <2>7
    <3>4. next' \in Links /\ prev' \in Links
      <4>1. next' = [x \in Node |-> next'[x]] /\ prev' = [x \in Node |-> prev'[x]] BY Zenon, <2>7
      <4>2. \A x \in Node : next[x] \in Node \union {None} /\ prev[x] \in Node \union {None}
        BY Zenon, <1>0 DEF Links
      <4>3. \A x \in Node : next'[x] \in Node \union {None} /\ prev'[x] \in Node \union {None}
        BY Zenon, <1>2, <2>6, <3>2, <3>3, <4>2
      <4> QED BY Zenon, <4>1, <4>3 DEF Links
    <3> QED BY Zenon, <2>6, <3>1, <3>2, <3>3, <3>4 DEF Popped
  <2> HIDE DEF S
  <2> DEFINE r == SubSeq(q, n + 1, Len(q))
  <2>9. /\ IsList(r) /\ Len(r) = Len(q) - n
        /\ Range(r) = Range(q) \ S /\ LinkedIn(r, next', prev')
    BY ONLY Zenon, Facts, <1>0, <2>8, PopLinks DEF r
  <2> HIDE DEF r
  <2>10. StateNext(r)
    BY Zenon, <1>0, <2>4, <2>7, <2>8, <2>9 DEF StateNext, Holds, Popped
  <2>11. ret' = SubSeq(q, 1, n) BY Zenon, <1>3, <2>3, <2>7
  <2> QED BY Zenon, <1>1, <1>3, <2>10, <2>11 DEF r
<1> QED BY Zenon, <1>4, <1>5

\* remove takes out a block whose ref_cnt is 0.
LEMMA RemoveHolds ==
  ASSUME Facts, NEW q, State(q), NEW b \in Block, Remove(b)
  PROVE  /\ b \in Range(q) /\ ret' = << >> /\ StateNext(Without(q, {b}))
<1>0. /\ IsList(q) /\ next \in Links /\ prev \in Links /\ LinkedIn(q, next, prev)
      /\ Range(q) = idle /\ num_free_blocks = Len(q) /\ failed = FALSE /\ Len(q) \in Nat
  BY Zenon, ListFacts DEF State, Holds
<1>1. b \in Range(q) BY Zenon, <1>0 DEF Remove
<1>2. PICK k \in 1..Len(q) : b = q[k] BY Zenon, <1>0, <1>1, ListFacts
<1>3. /\ \A i \in 0..(Len(q) + 1) : At(q, i) \in Node /\ At(q, i) # None
      /\ \A i \in 1..Len(q) : At(q, i) = q[i]
  BY Zenon, <1>0, AtFacts
<1>4. \A i \in 0..Len(q) : next[At(q, i)] = At(q, i + 1) /\ prev[At(q, i + 1)] = At(q, i)
  BY Zenon, <1>0 DEF LinkedIn
<1>5. /\ b \in Node /\ next[b] = At(q, k + 1) /\ prev[b] = At(q, k - 1)
      /\ next[b] \in Node /\ next[b] # None /\ prev[b] \in Node /\ prev[b] # None
  <2>1. /\ k \in 0..Len(q) /\ k - 1 \in 0..Len(q) /\ (k - 1) + 1 = k
        /\ k + 1 \in 0..(Len(q) + 1) /\ k - 1 \in 0..(Len(q) + 1)
    BY ONLY <1>0
  <2>2. At(q, k) = b BY Zenon, <1>2, <1>3
  <2>3. next[At(q, k)] = At(q, k + 1) BY Zenon, <1>4, <2>1
  <2>4. prev[At(q, (k - 1) + 1)] = At(q, k - 1) BY Zenon, <1>4, <2>1
  <2> QED BY Zenon, <1>3, <2>1, <2>2, <2>3, <2>4 DEF Node
<1>6. /\ next' = [next EXCEPT ![prev[b]] = next[b], ![b] = None]
      /\ prev' = [prev EXCEPT ![next[b]] = prev[b], ![b] = None]
      /\ num_free_blocks' = num_free_blocks - 1 /\ ret' = << >>
      /\ idle' = idle \ {b} /\ failed' = failed
  BY Zenon, <1>5 DEF Remove
<1>7. Removed(b, next, prev, next', prev')
  BY Zenon, <1>0, <1>5, <1>6 DEF Removed, Links
<1>8. LinkedIn(Without(q, {b}), next', prev') BY Zenon, <1>0, <1>2, <1>7, RemoveLinks
<1>9. /\ IsList(Without(q, {b})) /\ Len(Without(q, {b})) = Len(q) - 1
      /\ Range(Without(q, {b})) = Range(q) \ {b}
  BY Zenon, <1>0, <1>2, WithoutOne
<1> QED BY Zenon, <1>0, <1>1, <1>6, <1>7, <1>8, <1>9 DEF StateNext, Holds, Removed

\* append_n puts distinct blocks whose ref_cnt was positive behind the list.
LEMMA AppendNHolds ==
  ASSUME Facts, NEW q, State(q), NEW blocks \in Lists, AppendN(blocks)
  PROVE  /\ Range(blocks) \cap Range(q) = {} /\ ret' = << >>
         /\ StateNext(q \o blocks)
<1> DEFINE last == prev[FakeTail]
           n == Len(blocks)
           Index(b) == CHOOSE i \in 1..n : blocks[i] = b
<1>0. /\ IsList(q) /\ next \in Links /\ prev \in Links /\ LinkedIn(q, next, prev)
      /\ Range(q) = idle /\ num_free_blocks = Len(q) /\ failed = FALSE
      /\ Len(q) \in Nat /\ q \in Seq(Block) /\ IsList(blocks) /\ n \in Nat
      /\ blocks \in Seq(Block)
  BY Zenon, ListFacts DEF State, Holds, IsList
<1>1. Range(blocks) \cap Range(q) = {} BY Zenon, <1>0 DEF AppendN
<1>2. CASE n = 0
  <2>1. ret' = << >> /\ UNCHANGED <<prev, next, num_free_blocks, failed, idle>>
    BY Zenon, <1>2 DEF AppendN
  <2>2. blocks = << >> BY Zenon, <1>0, <1>2 DEF Facts, EmptySeq
  <2>3. q \o blocks = q BY ONLY <1>0, <2>2
  <2>4. StateNext(q) BY Zenon, <1>0, <2>1 DEF StateNext, Holds
  <2> QED BY Zenon, <1>1, <2>1, <2>3, <2>4
<1>3. CASE n # 0
  <2>1. /\ \A i \in 1..n : blocks[i] \in Block /\ blocks[i] \in Range(blocks)
        /\ \A b \in Range(blocks) : \E i \in 1..n : b = blocks[i]
        /\ \A i, j \in 1..n : blocks[i] = blocks[j] => i = j
        /\ Range(blocks) \subseteq Block
        /\ n > 0 /\ 1 \in 1..n /\ n \in 1..n
    BY <1>0, <1>3, ListFacts
  <2>2. /\ \A i \in 0..(Len(q) + 1) : At(q, i) \in Node /\ At(q, i) # None
        /\ \A i \in 1..Len(q) : At(q, i) = q[i]
        /\ At(q, 0) = FakeHead /\ At(q, Len(q) + 1) = FakeTail
        /\ FakeHead \in Node /\ FakeTail \in Node /\ FakeHead # FakeTail
        /\ FakeHead \notin Block /\ FakeTail \notin Block
    BY Zenon, <1>0, AtFacts
  <2>3. last = At(q, Len(q)) /\ last \in Node /\ last # None /\ last \notin Range(blocks)
    <3>1. Len(q) \in 0..Len(q) /\ Len(q) \in 0..(Len(q) + 1) BY ONLY <1>0
    <3>2. last = At(q, Len(q)) BY Zenon, <1>0, <2>2, <3>1 DEF LinkedIn
    <3>3. At(q, Len(q)) \notin Range(blocks)
      <4>1. CASE Len(q) = 0 BY Zenon, <2>1, <2>2, <4>1
      <4>2. CASE Len(q) # 0
        <5>1. Len(q) \in 1..Len(q) BY ONLY <1>0, <4>2
        <5>2. At(q, Len(q)) \in Range(q) BY <1>0, <2>2, <5>1, ListFacts
        <5> QED BY Zenon, <1>1, <5>2
      <4> QED BY Zenon, <4>1, <4>2
    <3> QED BY Zenon, <2>2, <3>1, <3>2, <3>3
  <2>4. \A j \in 1..n : Index(blocks[j]) = j BY Zenon, <2>1
  <2>5. /\ next' = [x \in Node |->
               IF x = last THEN blocks[1]
               ELSE IF x \notin Range(blocks) THEN next[x]
               ELSE IF Index(x) = n THEN FakeTail ELSE blocks[Index(x) + 1]]
        /\ prev' = [x \in Node |->
               IF x = FakeTail THEN blocks[n]
               ELSE IF x \notin Range(blocks) THEN prev[x]
               ELSE IF Index(x) = 1 THEN last ELSE blocks[Index(x) - 1]]
        /\ num_free_blocks' = num_free_blocks + n /\ ret' = << >>
        /\ idle' = idle \union Range(blocks) /\ failed' = failed
    BY Zenon, <1>3, <2>3 DEF AppendN
  <2> HIDE DEF last, n, Index
  <2>6. next'[last] = blocks[1] /\ prev'[FakeTail] = blocks[n] BY Zenon, <2>2, <2>3, <2>5
  <2>7. \A x \in Node \ Range(blocks) : /\ x # last => next'[x] = next[x]
                                        /\ x # FakeTail => prev'[x] = prev[x]
    BY Zenon, <2>5
  <2>8. ASSUME NEW j \in 1..n
        PROVE  /\ next'[blocks[j]] = At(blocks, j + 1)
               /\ prev'[blocks[j]] = IF j = 1 THEN last ELSE blocks[j - 1]
    <3>1. /\ blocks[j] \in Node /\ blocks[j] \in Range(blocks)
          /\ blocks[j] # last /\ blocks[j] # FakeTail /\ Index(blocks[j]) = j
      BY ONLY <2>1, <2>2, <2>3, <2>4 DEF Node
    <3>2. At(blocks, j + 1) = IF j = n THEN FakeTail ELSE blocks[j + 1]
      <4>1. n \in Nat /\ n = Len(blocks) BY Zenon, <1>0 DEF n
      <4> QED BY ONLY <4>1 DEF At
    <3>3. next'[blocks[j]] = IF j = n THEN FakeTail ELSE blocks[j + 1] BY Zenon, <2>5, <3>1
    <3>4. prev'[blocks[j]] = IF j = 1 THEN last ELSE blocks[j - 1] BY Zenon, <2>5, <3>1
    <3> QED BY ONLY <3>2, <3>3, <3>4
  <2>9. next' \in Links /\ prev' \in Links
    <3>1. next' = [x \in Node |-> next'[x]] /\ prev' = [x \in Node |-> prev'[x]] BY Zenon, <2>5
    <3>2. ASSUME NEW x \in Node
          PROVE  next'[x] \in Node \union {None} /\ prev'[x] \in Node \union {None}
      <4>0. \A i \in 1..n : blocks[i] \in Node BY Zenon, <2>1 DEF Node
      <4>1. CASE x \in Range(blocks)
        <5>1. PICK j \in 1..n : x = blocks[j] BY Zenon, <2>1, <4>1
        <5>2. At(blocks, j + 1) \in Node
          <6>1. n \in Nat /\ n = Len(blocks) BY Zenon, <1>0 DEF n
          <6>2. j + 1 # 0 /\ (j + 1 <= n => j + 1 \in 1..n) BY ONLY <6>1
          <6> QED BY Zenon, <2>2, <4>0, <6>1, <6>2 DEF At
        <5>3. (IF j = 1 THEN last ELSE blocks[j - 1]) \in Node
          <6>1. n \in Nat BY Zenon, <1>0 DEF n
          <6>2. j # 1 => j - 1 \in 1..n BY ONLY <6>1
          <6> QED BY Zenon, <2>3, <4>0, <6>2
        <5> QED BY Zenon, <2>8, <5>1, <5>2, <5>3
      <4>2. CASE x \notin Range(blocks)
        <5>1. next[x] \in Node \union {None} /\ prev[x] \in Node \union {None}
          BY Zenon, <1>0 DEF Links
        <5>2. blocks[1] \in Node /\ blocks[n] \in Node BY Zenon, <2>1, <4>0
        <5> QED BY Zenon, <2>6, <2>7, <4>2, <5>1, <5>2
      <4> QED BY Zenon, <4>1, <4>2
    <3> QED BY Zenon, <3>1, <3>2 DEF Links
  <2>10. Appended(At(q, Len(q)), blocks, next, prev, next', prev')
    BY Zenon, <2>3, <2>6, <2>7, <2>8, <2>9 DEF Appended, n
  <2>11. /\ IsList(q \o blocks) /\ Len(q \o blocks) = Len(q) + n
         /\ Range(q \o blocks) = Range(q) \union Range(blocks)
         /\ LinkedIn(q \o blocks, next', prev')
    <3>1. Len(blocks) > 0 /\ n = Len(blocks) BY Zenon, <2>1 DEF n
    <3> QED BY ONLY Zenon, Facts, <1>0, <1>1, <2>10, <3>1, AppendLinks
  <2> QED BY Zenon, <1>0, <1>1, <2>5, <2>9, <2>11 DEF StateNext, Holds
<1> QED BY Zenon, <1>2, <1>3

-----------------------------------------------------------------------------
(* The theorems *)

\* Some list is what the links, the counter and the idle blocks tell of.
QueueInv == (\E q : State(q)) /\ ret \in Lists \union {NoBlocks}

\* What a walk finds is that list, before and after a step.
LEMMA Found ==
  ASSUME Facts
  PROVE  \A q : IsList(q) /\ Linked(q) => GetAllFreeBlocks = q
  BY Zenon, AllFreeBlocks

\* The same after a step.
LEMMA FoundNext ==
  ASSUME Facts
  PROVE  (\A q : IsList(q) /\ Linked(q) => GetAllFreeBlocks = q)'
  BY Found, PTL

\* A walk finds the list that the state holds.
LEMMA FoundBoth ==
  ASSUME Facts, NEW q
  PROVE  State(q) => GetAllFreeBlocks = q
<1>1. State(q) => IsList(q) /\ Linked(q) BY Zenon, LinkedIsLinkedIn DEF State, Holds
<1> QED BY Zenon, <1>1, Found

\* The same after a step.
LEMMA FoundAfter ==
  ASSUME Facts, NEW q
  PROVE  StateNext(q) => GetAllFreeBlocks' = q
<1>1. StateNext(q) => IsList(q) /\ Linked(q)' BY Zenon, LinkedIsLinkedIn DEF StateNext, Holds
<1>2. IsList(q) /\ Linked(q)' => GetAllFreeBlocks' = q BY Zenon, FoundNext
<1> QED BY Zenon, <1>1, <1>2

\* The empty sequence is a list of blocks.
LEMMA EmptyIsList ==
  ASSUME Facts
  PROVE  << >> \in Lists
<1>1. << >> \in Seq(Block) /\ IsInjective(<< >>) BY DEF IsInjective
<1> QED BY Zenon, <1>1, ListFacts DEF IsList

\* The queue's module and this one mean the same by their operators.
LEMMA SameRange == ASSUME NEW f PROVE Queue!Range(f) = Range(f)
  BY Zenon DEF Queue!Range, Range

\* The instance of FreeQueue counts, filters and lists as this module does.
LEMMA SameCardinality == ASSUME NEW S PROVE Queue!Cardinality(S) = Cardinality(S)
  BY Zenon DEF Queue!Cardinality, Cardinality

\* The same of Without.
LEMMA SameWithout == ASSUME NEW s, NEW S PROVE Queue!Without(s, S) = Without(s, S)
  BY Zenon DEF Queue!Without, Without

\* The same of Lists.
LEMMA SameLists == Queue!Lists = Lists
<1>1. ASSUME NEW S, NEW T PROVE Queue!Injection(S, T) = Injection(S, T)
  BY Zenon DEF Queue!Injection, Injection, Queue!IsInjective, IsInjective
<1> QED BY Zenon, <1>1, SameCardinality DEF Queue!Lists, Lists

\* Every call turns the list into a list, and does to it what the queue does.
LEMMA NextHolds ==
  ASSUME Facts, NEW q, State(q), Next
  PROVE  /\ \E r : StateNext(r)
         /\ ret' \in Lists \union {NoBlocks}
         /\ Queue!Next
<1>0. GetAllFreeBlocks = q BY Zenon, FoundBoth
<1>1. CASE Popleft
  <2>1. PICK r : /\ StateNext(r) /\ ret' \in Lists \union {NoBlocks}
                 /\ IF q = << >> THEN ret' = NoBlocks /\ r = q
                    ELSE ret' = <<Head(q)>> /\ r = Tail(q)
    BY Zenon, <1>1, PopleftHolds
  <2>2. GetAllFreeBlocks' = r BY Zenon, <2>1, FoundAfter
  <2>3. Queue!Popleft BY Zenon, <1>0, <2>1, <2>2 DEF Queue!Popleft
  <2> QED BY Zenon, <2>1, <2>3 DEF Queue!Next
<1>2. CASE \E n \in 0..Cardinality(Block) : PopleftN(n)
  <2>1. PICK n \in 0..Cardinality(Block) : PopleftN(n) BY Zenon, <1>2
  <2> DEFINE r == SubSeq(q, n + 1, Len(q))
  <2>2. n <= Len(q) /\ ret' = SubSeq(q, 1, n) /\ ret' \in Lists /\ StateNext(r)
    BY Zenon, <2>1, PopleftNHolds
  <2> HIDE DEF r
  <2>3. GetAllFreeBlocks' = r BY Zenon, <2>2, FoundAfter
  <2>4. Queue!PopleftN(n) BY Zenon, <1>0, <2>2, <2>3 DEF Queue!PopleftN, r
  <2> QED BY Zenon, <2>2, <2>4, SameCardinality DEF Queue!Next
<1>3. CASE \E b \in Block : Remove(b)
  <2>1. PICK b \in Block : Remove(b) BY Zenon, <1>3
  <2> DEFINE r == Without(q, {b})
  <2>2. b \in Range(q) /\ ret' = << >> /\ StateNext(r) BY Zenon, <2>1, RemoveHolds
  <2> HIDE DEF r
  <2>3. GetAllFreeBlocks' = r BY Zenon, <2>2, FoundAfter
  <2>4. Queue!Remove(b) BY Zenon, <1>0, <2>2, <2>3, SameRange, SameWithout DEF Queue!Remove, r
  <2> QED BY Zenon, <2>2, <2>4, EmptyIsList DEF Queue!Next
<1>4. CASE \E blocks \in Lists : AppendN(blocks)
  <2>1. PICK blocks \in Lists : AppendN(blocks) BY Zenon, <1>4
  <2> DEFINE r == q \o blocks
  <2>2. Range(blocks) \cap Range(q) = {} /\ ret' = << >> /\ StateNext(r)
    BY Zenon, <2>1, AppendNHolds
  <2> HIDE DEF r
  <2>3. GetAllFreeBlocks' = r BY Zenon, <2>2, FoundAfter
  <2>4. Queue!AppendN(blocks) BY Zenon, <1>0, <2>2, <2>3, SameRange DEF Queue!AppendN, r
  <2> QED BY Zenon, <2>2, <2>4, EmptyIsList, SameLists DEF Queue!Next
<1> QED BY Zenon, <1>1, <1>2, <1>3, <1>4 DEF Next

\* A step that changes no variable changes no list.
LEMMA StutterHolds ==
  ASSUME Facts, NEW q, State(q), UNCHANGED vars
  PROVE  StateNext(q) /\ ret' = ret /\ GetAllFreeBlocks' = GetAllFreeBlocks
<1>1. StateNext(q) BY Zenon DEF State, StateNext, vars
<1>2. GetAllFreeBlocks = q /\ GetAllFreeBlocks' = q BY Zenon, <1>1, FoundBoth, FoundAfter
<1> QED BY Zenon, <1>1, <1>2 DEF vars

\* What the lemmas on the methods say of the next state is the invariant.
LEMMA QueueInvNext ==
  (\E r : StateNext(r)) /\ ret' \in Lists \union {NoBlocks} => QueueInv'
BY Zenon DEF QueueInv, State, StateNext

\* What the invariant says of the list that a walk finds.
LEMMA InvGivesIntact ==
  ASSUME Facts
  PROVE  QueueInv => ListIntact
<1> SUFFICES ASSUME QueueInv PROVE ListIntact BY Zenon
<1>1. PICK q : State(q) BY Zenon DEF QueueInv
<1>2. GetAllFreeBlocks = q BY Zenon, <1>1, FoundBoth
<1>3. /\ IsList(q) /\ Linked(q) /\ next \in Links /\ prev \in Links
      /\ Range(q) = idle /\ num_free_blocks = Len(q) /\ failed = FALSE
  BY Zenon, <1>1, LinkedIsLinkedIn DEF State, Holds
<1>4. q \in Lists /\ Len(q) \in 0..Cardinality(Block) /\ idle \in SUBSET Block
  <2>1. Cardinality(Block) \in Nat BY Zenon, QueueAssumption DEF Facts, FiniteCardinality
  <2> QED BY <1>3, <2>1, ListFacts
<1>5. TypeOK BY Zenon, <1>3, <1>4 DEF TypeOK, Links, QueueInv
<1> QED BY Zenon, <1>2, <1>3, <1>4, <1>5 DEF ListIntact

\* The facts that the lemmas assume, proved from the libraries.
INSTANCE SeqFilterProofs

\* Between calls the invariant holds.
LEMMA QueueInvariant ==
  Spec => []QueueInv
<1> USE FactsHold
<1>1. Init => QueueInv BY Zenon, InitHolds, EmptyIsList DEF QueueInv
<1>2. QueueInv /\ [Next]_vars => QueueInv'
  <2> SUFFICES ASSUME QueueInv, [Next]_vars PROVE QueueInv' BY Zenon
  <2>1. PICK q : State(q) BY Zenon DEF QueueInv
  <2>2. CASE Next BY Zenon, <2>1, <2>2, NextHolds, QueueInvNext
  <2>3. CASE UNCHANGED vars
    BY Zenon, <2>1, <2>3, StutterHolds, QueueInvNext DEF QueueInv
  <2> QED BY Zenon, <2>2, <2>3
<1> QED BY <1>1, <1>2, PTL DEF Spec

\* Whatever calls BlockPool makes, for every finite set of blocks: the free list
\* can be walked in both directions, holds exactly the blocks with ref_cnt 0,
\* num_free_blocks counts them, and no assert or RuntimeError of
\* FreeKVCacheBlockQueue is reached.
THEOREM ListStaysIntact ==
  Spec => []ListIntact
<1> USE FactsHold
<1>1. QueueInv => ListIntact BY Zenon, InvGivesIntact
<1> QED BY <1>1, QueueInvariant, PTL

\* The linked list implements the queue: seen through get_all_free_blocks, every
\* method does what the queue's operation does, and returns the same blocks.
THEOREM ListImplementsQueue ==
  Spec => ImplementsQueue
<1> USE FactsHold
<1>1. Init => Queue!Init
  <2> SUFFICES ASSUME Init PROVE Queue!Init BY Zenon
  <2>1. PICK q \in Lists : State(q) /\ Range(q) = Block /\ ret = << >> BY Zenon, InitHolds
  <2>2. GetAllFreeBlocks = q BY Zenon, <2>1, FoundBoth
  <2> QED BY Zenon, <2>1, <2>2, SameLists, SameRange DEF Queue!Init
<1>2. QueueInv /\ [Next]_vars => [Queue!Next]_<<GetAllFreeBlocks, ret>>
  <2> SUFFICES ASSUME QueueInv, [Next]_vars
               PROVE  [Queue!Next]_<<GetAllFreeBlocks, ret>>
    BY Zenon
  <2>1. PICK q : State(q) BY Zenon DEF QueueInv
  <2>2. CASE Next BY Zenon, <2>1, <2>2, NextHolds
  <2>3. CASE UNCHANGED vars BY Zenon, <2>1, <2>3, StutterHolds
  <2> QED BY Zenon, <2>2, <2>3
<1> QED BY <1>1, <1>2, QueueInvariant, PTL DEF Spec, ImplementsQueue, Queue!Spec

=============================================================================
