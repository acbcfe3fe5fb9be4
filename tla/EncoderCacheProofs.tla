------------------------- MODULE EncoderCacheProofs -------------------------
(***************************************************************************)
(* The books of the encoder cache are right at every point of schedule()   *)
(* and update_from_output(), for any requests, inputs, sizes and budgets.  *)
(***************************************************************************)
EXTENDS EncoderCache, SeqFacts, TLAPS

(* The slots that inputs take *)

\* Inputs take finitely many slots.
LEMMA SlotsFinite ==
  ASSUME Facts, NEW A \in SUBSET Hash
  PROVE  IsFiniteSet(A) /\ IsFiniteSet(Slots(A))
<1>1. IsFiniteSet(A) BY Zenon, CacheAssumption DEF Facts, FiniteSubset
<1>2. IsFiniteSet(1..CacheSize) BY CacheAssumption DEF Facts, FiniteInterval
<1>3. IsFiniteSet(A \X (1..CacheSize)) BY Zenon, <1>1, <1>2 DEF Facts, FiniteProduct
<1>4. \A h \in A : NumEmbeds[h] \in Nat /\ NumEmbeds[h] <= CacheSize /\ CacheSize \in Nat
  BY Zenon, CacheAssumption
<1>5. Slots(A) \subseteq A \X (1..CacheSize)
  <2> SUFFICES ASSUME NEW h \in A, NEW x \in {h} \X (1..NumEmbeds[h])
               PROVE  x \in A \X (1..CacheSize)
    BY Zenon DEF Slots
  <2>1. 1..NumEmbeds[h] \subseteq 1..CacheSize BY ONLY <1>4
  <2> QED BY Zenon, <2>1
<1> QED BY Zenon, <1>1, <1>3, <1>5 DEF Facts, FiniteSubset

\* The size of a set of inputs is a natural number.
LEMMA SizesType ==
  ASSUME Facts, NEW A \in SUBSET Hash
  PROVE  Sizes(A) \in Nat
BY Zenon, SlotsFinite DEF Sizes, Facts, FiniteCardinality

\* Different inputs take different slots.
LEMMA SizesUnion ==
  ASSUME Facts, NEW A \in SUBSET Hash, NEW B \in SUBSET Hash, A \cap B = {}
  PROVE  Sizes(A \union B) = Sizes(A) + Sizes(B)
<1>1. Slots(A \union B) = Slots(A) \union Slots(B) BY Zenon DEF Slots
<1>2. Slots(A) \cap Slots(B) = {} BY DEF Slots
<1>3. IsFiniteSet(Slots(A)) /\ IsFiniteSet(Slots(B)) BY Zenon, SlotsFinite
<1>4. Sizes(A) \in Nat /\ Sizes(B) \in Nat BY Zenon, SizesType
<1>5. Cardinality(Slots(A) \union Slots(B))
        = Sizes(A) + Sizes(B) - Cardinality(Slots(A) \cap Slots(B))
  BY Zenon, <1>3 DEF Sizes, Facts, FiniteUnion
<1>6. Cardinality(Slots(A) \cap Slots(B)) = 0 BY Zenon, <1>2 DEF Facts, FiniteEmpty
<1>7. Sizes(A \union B) = Sizes(A) + Sizes(B) - 0 BY Zenon, <1>1, <1>5, <1>6 DEF Sizes
<1> QED BY ONLY <1>4, <1>7

\* One input takes as many slots as it has embeddings.
LEMMA SizesOne ==
  ASSUME Facts, NEW h \in Hash
  PROVE  Sizes({h}) = NumEmbeds[h] /\ NumEmbeds[h] \in Nat \ {0}
<1>0. NumEmbeds[h] \in Nat \ {0} BY Zenon, CacheAssumption
<1>1. Slots({h}) = {h} \X (1..NumEmbeds[h]) BY Zenon DEF Slots
<1>2. IsFiniteSet({h}) /\ Cardinality({h}) = 1 BY Zenon DEF Facts, FiniteSingleton
<1>3. IsFiniteSet(1..NumEmbeds[h]) /\ Cardinality(1..NumEmbeds[h]) = NumEmbeds[h]
  <2>1. /\ IsFiniteSet(1..NumEmbeds[h])
        /\ Cardinality(1..NumEmbeds[h]) =
             IF 1 > NumEmbeds[h] THEN 0 ELSE NumEmbeds[h] - 1 + 1
    <3>1. 1 \in Int /\ NumEmbeds[h] \in Int BY ONLY <1>0
    <3> QED BY Zenon, <3>1 DEF Facts, FiniteInterval
  <2> QED BY ONLY <1>0, <2>1
<1>4. Cardinality({h} \X (1..NumEmbeds[h])) = Cardinality({h}) * Cardinality(1..NumEmbeds[h])
  BY <1>2, <1>3, Zenon DEF Facts, FiniteProduct
<1>5. Cardinality({h} \X (1..NumEmbeds[h])) = 1 * NumEmbeds[h] BY <1>2, <1>3, <1>4, Zenon
<1>6. Sizes({h}) = 1 * NumEmbeds[h] BY <1>1, <1>5, Zenon DEF Sizes
<1> QED BY ONLY <1>0, <1>6

\* No input takes no slot.
LEMMA SizesNone ==
  ASSUME Facts
  PROVE  Sizes({}) = 0
<1>1. Slots({}) = {} BY Zenon DEF Slots
<1> QED BY Zenon, <1>1 DEF Sizes, Facts, FiniteEmpty

\* The size of a set is that of a part and of the rest.
LEMMA SizesPart ==
  ASSUME Facts, NEW A \in SUBSET Hash, NEW B \in SUBSET A
  PROVE  /\ Sizes(A) = Sizes(B) + Sizes(A \ B)
         /\ Sizes(A) \in Nat /\ Sizes(B) \in Nat /\ Sizes(A \ B) \in Nat
<1>1. A = B \union (A \ B) /\ B \cap (A \ B) = {} BY Zenon
<1>2. B \in SUBSET Hash /\ A \ B \in SUBSET Hash BY Zenon
<1>3. Sizes(B \union (A \ B)) = Sizes(B) + Sizes(A \ B) BY Zenon, <1>1, <1>2, SizesUnion
<1> QED BY Zenon, <1>1, <1>2, <1>3, SizesType

-----------------------------------------------------------------------------
(* The books of the manager *)

\* The hashes of a request's inputs.
InputsOf(r) == Range(HashesOf(r))

\* From some of the hashes to the requests that refer to them.
Table == UNION {[S -> SUBSET Req] : S \in SUBSET Hash}

CacheState ==
    [cached : Table, freeable : Seq(Hash), freed : SUBSET Hash,
     num_free_slots : Int, num_freeable_slots : Int, err : BOOLEAN]

\* Requests refer to inputs of their own only.
OwnInputs(c) == \A h \in DOMAIN c.cached : \A r \in c.cached[h] : h \in InputsOf(r)

Books(c) ==
    c \in CacheState /\ SlotsExact(c) /\ FreeableExact(c) /\ OwnInputs(c) /\ ~ c.err

\* A table maps hashes to sets of requests.
LEMMA TableFacts ==
  ASSUME NEW f \in Table
  PROVE  /\ DOMAIN f \in SUBSET Hash
         /\ f \in [DOMAIN f -> SUBSET Req]
         /\ \A h \in DOMAIN f : f[h] \in SUBSET Req
BY Zenon DEF Table

\* A map from hashes to sets of requests is a table.
LEMMA IsTable ==
  ASSUME NEW S \in SUBSET Hash, NEW f \in [S -> SUBSET Req]
  PROVE  f \in Table
BY Zenon DEF Table

\* What the books say of the two lists and the counters.
BooksSay(c) ==
    /\ c \in CacheState
    /\ c.cached \in Table /\ DOMAIN c.cached \in SUBSET Hash
    /\ c.freeable \in Seq(Hash) /\ IsInjective(c.freeable)
    /\ Range(c.freeable) \in SUBSET (DOMAIN c.cached)
    /\ \A h \in DOMAIN c.cached : h \in Range(c.freeable) <=> c.cached[h] = {}
    /\ c.num_free_slots \in Nat
    /\ c.num_free_slots = CacheSize - Sizes(DOMAIN c.cached)
    /\ c.num_freeable_slots = c.num_free_slots + Sizes(Range(c.freeable))
    /\ Sizes(Range(c.freeable)) \in Nat /\ Sizes(DOMAIN c.cached) \in Nat
    /\ CacheSize \in Nat /\ c.freed \in SUBSET Hash /\ c.num_freeable_slots \in Int

\* The types that the books imply.
LEMMA BooksFacts ==
  ASSUME Facts, NEW c, Books(c)
  PROVE  BooksSay(c)
<1>1. /\ c \in CacheState /\ c.cached \in Table /\ c.freeable \in Seq(Hash)
      /\ c.num_free_slots \in Int /\ c.freed \in SUBSET Hash /\ c.num_freeable_slots \in Int
  BY Zenon DEF Books, CacheState
<1>2. DOMAIN c.cached \in SUBSET Hash BY Zenon, <1>1, TableFacts
<1>3. Range(c.freeable) = {h \in DOMAIN c.cached : c.cached[h] = {}}
  BY Zenon DEF Books, FreeableExact
<1>4. Range(c.freeable) \in SUBSET (DOMAIN c.cached) /\ Range(c.freeable) \in SUBSET Hash
  BY Zenon, <1>2, <1>3
<1>5. Sizes(Range(c.freeable)) \in Nat /\ Sizes(DOMAIN c.cached) \in Nat
  BY Zenon, <1>2, <1>4, SizesType
<1> QED BY <1>1, <1>2, <1>3, <1>4, <1>5, CacheAssumption DEF BooksSay, Books, SlotsExact, FreeableExact

\* check_and_update_cache keeps the books.
LEMMA UpdateBooks ==
  ASSUME Facts, NEW c, Books(c), NEW r \in Req, NEW h \in DOMAIN c.cached, h \in InputsOf(r),
         NEW m, m = UpdateCache(c, r, h)
  PROVE  /\ Books(m) /\ m.num_free_slots = c.num_free_slots /\ m.freed = c.freed
         /\ m.cached = [c.cached EXCEPT ![h] = c.cached[h] \union {r}]
<1>0. BooksSay(c) BY Zenon, BooksFacts
<1>1. /\ m.cached = [c.cached EXCEPT ![h] = c.cached[h] \union {r}]
      /\ m.freeable = IF c.cached[h] = {} THEN Without(c.freeable, {h}) ELSE c.freeable
      /\ m.num_freeable_slots = IF c.cached[h] = {} THEN c.num_freeable_slots - NumEmbeds[h]
                                ELSE c.num_freeable_slots
      /\ m.num_free_slots = c.num_free_slots /\ m.freed = c.freed /\ m.err = c.err
  BY Zenon, <1>0 DEF BooksSay, CacheState, UpdateCache
<1>2. h \in Hash BY Zenon, <1>0 DEF BooksSay
<1>3. NumEmbeds[h] \in Nat \ {0} /\ Sizes({h}) = NumEmbeds[h] BY Zenon, <1>2, SizesOne
<1>4. m.cached \in Table /\ DOMAIN m.cached = DOMAIN c.cached
  <2>1. c.cached \in [DOMAIN c.cached -> SUBSET Req] BY Zenon, <1>0, TableFacts DEF BooksSay
  <2>2. m.cached \in [DOMAIN c.cached -> SUBSET Req] BY ONLY <1>1, <2>1
  <2> QED BY Zenon, <2>2, <1>0, IsTable DEF BooksSay
<1>5. m.freeable \in Seq(Hash) /\ IsInjective(m.freeable)
  BY <1>1, <1>0 DEF BooksSay, Facts, WithoutProperties
<1>6. Range(m.freeable) = Range(c.freeable) \ {h}
  <2>1. CASE c.cached[h] = {} BY <1>1, <2>1, <1>0 DEF BooksSay, Facts, WithoutProperties
  <2>2. CASE c.cached[h] # {}
    <3>1. h \notin Range(c.freeable) BY Zenon, <2>2, <1>0 DEF BooksSay
    <3> QED BY Zenon, <1>1, <2>2, <3>1
  <2> QED BY Zenon, <2>1, <2>2
<1>7. m \in CacheState
  <2>1. c.num_freeable_slots \in Int BY Zenon, <1>0 DEF BooksSay
  <2>2. m.num_freeable_slots \in Int BY ONLY <1>1, <1>3, <2>1
  <2> QED BY Zenon, <1>0, <1>1, <1>4, <1>5, <2>2 DEF BooksSay, CacheState, UpdateCache
<1>8. m.num_freeable_slots = m.num_free_slots + Sizes(Range(m.freeable))
  <2>1. CASE c.cached[h] = {}
    <3>1. {h} \in SUBSET Range(c.freeable) BY Zenon, <2>1, <1>0 DEF BooksSay
    <3>2. Range(c.freeable) \in SUBSET Hash BY Zenon, <1>0 DEF BooksSay
    <3>3. Sizes(Range(c.freeable)) = Sizes({h}) + Sizes(Range(c.freeable) \ {h})
          /\ Sizes(Range(c.freeable) \ {h}) \in Nat
      BY Zenon, <3>1, <3>2, SizesPart
    <3>4. Sizes(Range(m.freeable)) = Sizes(Range(c.freeable) \ {h}) BY Zenon, <1>6
    <3>5. /\ c.num_freeable_slots = c.num_free_slots + Sizes(Range(c.freeable))
          /\ c.num_free_slots \in Nat
      BY Zenon, <1>0 DEF BooksSay
    <3>6. m.num_freeable_slots = c.num_freeable_slots - NumEmbeds[h] BY Zenon, <1>1, <2>1
    <3> QED BY ONLY <1>1, <1>3, <3>3, <3>4, <3>5, <3>6
  <2>2. CASE c.cached[h] # {} BY Zenon, <1>1, <2>2, <1>0 DEF BooksSay
  <2> QED BY Zenon, <2>1, <2>2
<1>9. SlotsExact(m) BY ONLY <1>1, <1>4, <1>8, <1>0 DEF SlotsExact, BooksSay
<1>10. FreeableExact(m)
  <2>1. \A x \in DOMAIN c.cached : m.cached[x] = {} <=> (c.cached[x] = {} /\ x # h)
    BY Zenon, <1>1
  <2>2. Range(m.freeable) = {x \in DOMAIN m.cached : m.cached[x] = {}}
    BY Zenon, <1>4, <1>6, <2>1, <1>0 DEF BooksSay
  <2> QED BY Zenon, <1>5, <2>2 DEF FreeableExact
<1>11. OwnInputs(m)
  <2>1. OwnInputs(c) BY Zenon DEF Books
  <2> QED BY <1>1, <1>4, <2>1 DEF OwnInputs
<1> QED BY Zenon, <1>1, <1>7, <1>9, <1>10, <1>11 DEF Books

\* A non-empty set of naturals contains its minimum.
LEMMA MinIsIn ==
  ASSUME Facts, NEW S \in SUBSET Nat, S # {}
  PROVE  Min(S) \in S /\ \A x \in S : Min(S) <= x
BY Zenon DEF Min, Facts, Least

\* The outputs are evicted that nobody refers to, and the others stay.
Evicts(c, m) ==
    /\ DOMAIN m.cached \subseteq DOMAIN c.cached
    /\ \A h \in DOMAIN m.cached : m.cached[h] = c.cached[h]
    /\ \A h \in DOMAIN c.cached : c.cached[h] # {} => h \in DOMAIN m.cached
    /\ m.freed = c.freed \union (DOMAIN c.cached \ DOMAIN m.cached)

\* Eviction keeps the books, and makes the room that can_allocate promised.
LEMMA MakeRoomBooks ==
  ASSUME Facts, NEW c, Books(c), NEW n \in Nat,
         n <= c.num_free_slots \/ n <= c.num_freeable_slots,
         NEW m, m = MakeRoom(c, n)
  PROVE  Books(m) /\ Evicts(c, m) /\ n <= m.num_free_slots
<1> DEFINE s == c.freeable
           F(k) == Range(SubSeq(s, 1, k))
           enough == {k \in 0..Len(s) : c.num_free_slots + Sizes(F(k)) >= n}
           k == Min(enough)
           gone == F(k)
<1>0. BooksSay(c) BY Zenon, BooksFacts
<1>1. s \in Seq(Hash) /\ IsInjective(s) /\ Len(s) \in Nat
  BY Zenon, <1>0 DEF BooksSay, Facts, LenProperties
<1>2. F(Len(s)) = Range(s)
  <2>1. SubSeq(s, 1, Len(s)) = s BY ONLY <1>1 DEF Facts, SubSeqProperties
  <2> QED BY Zenon, <2>1
<1>3. Len(s) \in enough
  <2>1. c.num_free_slots + Sizes(Range(s)) >= n BY <1>0 DEF BooksSay
  <2> QED BY ONLY <1>1, <1>2, <2>1
<1>4. k \in 0..Len(s) /\ c.num_free_slots + Sizes(gone) >= n
  <2>1. enough \in SUBSET Nat /\ enough # {} BY ONLY <1>1, <1>3
  <2> HIDE DEF enough
  <2>2. k \in enough BY Zenon, <2>1, MinIsIn
  <2> QED BY Zenon, <2>2 DEF enough
<1>5. m = [c EXCEPT !.cached = Restrict(c.cached, DOMAIN c.cached \ gone),
                    !.freeable = SubSeq(s, k + 1, Len(s)),
                    !.freed = c.freed \union gone,
                    !.num_free_slots = c.num_free_slots + Sizes(gone)]
  <2>1. enough # {} BY Zenon, <1>3
  <2> QED BY Zenon, <2>1 DEF MakeRoom
<1> HIDE DEF enough
<1> DEFINE rest == SubSeq(s, k + 1, Len(s))
<1>6. /\ rest \in Seq(Hash) /\ IsInjective(rest)
      /\ gone \subseteq Range(s) /\ Range(rest) = Range(s) \ gone
  BY <1>1, <1>4 DEF Facts, SplitProperties
<1> HIDE DEF rest, k, F
<1>7. /\ m.cached = Restrict(c.cached, DOMAIN c.cached \ gone) /\ m.freeable = rest
      /\ m.freed = c.freed \union gone /\ m.num_free_slots = c.num_free_slots + Sizes(gone)
      /\ m.num_freeable_slots = c.num_freeable_slots /\ m.err = c.err
  BY Zenon, <1>0, <1>5 DEF BooksSay, CacheState, rest
<1>8. gone \in SUBSET (DOMAIN c.cached) /\ gone \in SUBSET Hash BY Zenon, <1>0, <1>6 DEF BooksSay
<1>9. /\ DOMAIN m.cached = DOMAIN c.cached \ gone
      /\ \A h \in DOMAIN m.cached : m.cached[h] = c.cached[h]
  BY Zenon, <1>7 DEF Restrict
<1>10. m.cached \in Table
  <2>1. c.cached \in [DOMAIN c.cached -> SUBSET Req] BY Zenon, <1>0, TableFacts DEF BooksSay
  <2>2. m.cached \in [DOMAIN c.cached \ gone -> SUBSET Req] BY Zenon, <1>7, <2>1 DEF Restrict
  <2>3. DOMAIN c.cached \ gone \in SUBSET Hash BY Zenon, <1>0 DEF BooksSay
  <2> QED BY Zenon, <2>2, <2>3, IsTable
<1>11. Sizes(gone) \in Nat /\ Sizes(Range(rest)) \in Nat
       /\ Sizes(Range(s)) = Sizes(gone) + Sizes(Range(rest))
  <2>1. Range(s) \in SUBSET Hash BY Zenon, <1>0 DEF BooksSay
  <2> QED BY Zenon, <1>6, <2>1, SizesPart
<1>12. Sizes(DOMAIN c.cached) = Sizes(gone) + Sizes(DOMAIN m.cached)
       /\ Sizes(DOMAIN m.cached) \in Nat
  <2>1. DOMAIN c.cached \in SUBSET Hash BY Zenon, <1>0 DEF BooksSay
  <2> QED BY Zenon, <1>8, <1>9, <2>1, SizesPart
<1>13. m \in CacheState
  <2>1. c \in CacheState /\ c.num_free_slots \in Nat /\ c.freed \in SUBSET Hash BY Zenon, <1>0 DEF BooksSay
  <2>2. c.num_free_slots + Sizes(gone) \in Int /\ c.freed \union gone \in SUBSET Hash
    BY ONLY <1>8, <1>11, <2>1
  <2> QED BY Zenon, <1>5, <1>6, <1>7, <1>10, <2>1, <2>2 DEF CacheState, rest
<1>14. SlotsExact(m)
  <2>1. /\ c.num_free_slots \in Nat /\ CacheSize \in Nat
        /\ c.num_free_slots = CacheSize - Sizes(DOMAIN c.cached)
        /\ c.num_freeable_slots = c.num_free_slots + Sizes(Range(s))
    BY Zenon, <1>0 DEF BooksSay
  <2>2. Range(m.freeable) = Range(rest) BY Zenon, <1>7
  <2> QED BY ONLY <1>7, <1>11, <1>12, <2>1, <2>2 DEF SlotsExact
<1>15. FreeableExact(m)
  <2>1. \A h \in DOMAIN c.cached : h \in Range(s) <=> c.cached[h] = {} BY Zenon, <1>0 DEF BooksSay
  <2>2. Range(s) \subseteq DOMAIN c.cached BY Zenon, <1>0 DEF BooksSay
  <2>3. Range(m.freeable) = {h \in DOMAIN m.cached : m.cached[h] = {}}
    BY Zenon, <1>6, <1>7, <1>9, <2>1, <2>2
  <2> QED BY Zenon, <1>6, <1>7, <2>3 DEF FreeableExact
<1>16. OwnInputs(m)
  <2>1. OwnInputs(c) BY Zenon DEF Books
  <2> QED BY Zenon, <1>9, <2>1 DEF OwnInputs
<1>17. Evicts(c, m)
  <2>1. ASSUME NEW h \in DOMAIN c.cached, c.cached[h] # {} PROVE h \in DOMAIN m.cached
    <3>1. h \notin Range(s) BY Zenon, <1>0, <2>1 DEF BooksSay
    <3> QED BY Zenon, <1>6, <1>9, <3>1
  <2>2. DOMAIN c.cached \ DOMAIN m.cached = gone BY Zenon, <1>8, <1>9
  <2> QED BY Zenon, <1>7, <1>9, <2>1, <2>2 DEF Evicts
<1>18. ~ m.err BY Zenon, <1>7 DEF Books
<1>19. n <= m.num_free_slots BY Zenon, <1>0, <1>4, <1>7, <1>11 DEF BooksSay
<1> QED BY Zenon, <1>13, <1>14, <1>15, <1>16, <1>17, <1>18, <1>19 DEF Books

\* allocate keeps the books when there is room for the inputs, and none of them
\* is cached.
LEMMA AllocateBooks ==
  ASSUME Facts, NEW c, Books(c), NEW r \in Req, NEW A \in SUBSET InputsOf(r), A \in SUBSET Hash,
         A \cap DOMAIN c.cached = {}, Sizes(A) <= c.num_free_slots,
         NEW m, m = Allocate(c, r, A)
  PROVE  /\ Books(m) /\ m.freed = c.freed
         /\ DOMAIN m.cached = DOMAIN c.cached \union A
         /\ \A h \in DOMAIN c.cached : m.cached[h] = c.cached[h]
         /\ \A h \in A : m.cached[h] = {r}
<1>0. BooksSay(c) BY Zenon, BooksFacts
<1> DEFINE T == [h \in DOMAIN c.cached \union A |->
                   (IF IsCached(c, h) THEN c.cached[h] ELSE {})
                     \union IF h \in A THEN {r} ELSE {}]
<1>1. Sizes(A) \in Nat BY Zenon, SizesType
<1>2. /\ c.num_free_slots \in Nat /\ CacheSize \in Nat /\ Sizes(Range(c.freeable)) \in Nat
      /\ c.num_free_slots = CacheSize - Sizes(DOMAIN c.cached)
      /\ c.num_freeable_slots = c.num_free_slots + Sizes(Range(c.freeable))
      /\ Sizes(DOMAIN c.cached) \in Nat
  BY Zenon, <1>0 DEF BooksSay
<1>3. ~ (c.num_free_slots < Sizes(A)) /\ ~ (c.num_freeable_slots < Sizes(A)) BY <1>1, <1>2
<1>4. /\ m.cached = T /\ m.freeable = c.freeable /\ m.freed = c.freed
      /\ m.num_free_slots = c.num_free_slots - Sizes(A)
      /\ m.num_freeable_slots = c.num_freeable_slots - Sizes(A)
      /\ m.err = c.err
  <2>1. /\ m.cached = T /\ m.freeable = c.freeable /\ m.freed = c.freed
        /\ m.num_free_slots = c.num_free_slots - Sizes(A)
        /\ m.num_freeable_slots = c.num_freeable_slots - Sizes(A)
        /\ m.err = (c.err \/ c.num_free_slots < Sizes(A) \/ c.num_freeable_slots < Sizes(A))
    BY Zenon, <1>0 DEF BooksSay, CacheState, Allocate
  <2>2. c.err \in BOOLEAN BY Zenon, <1>0 DEF BooksSay, CacheState
  <2> QED BY Zenon, <1>3, <2>1, <2>2
<1>5. /\ DOMAIN T = DOMAIN c.cached \union A
      /\ \A h \in DOMAIN c.cached : T[h] = c.cached[h]
      /\ \A h \in A : T[h] = {r}
  BY Zenon DEF IsCached
<1>6. m.cached \in Table
  <2>1. \A h \in DOMAIN c.cached : c.cached[h] \in SUBSET Req BY Zenon, <1>0, TableFacts DEF BooksSay
  <2>2. T \in [DOMAIN c.cached \union A -> SUBSET Req] BY ONLY <1>5, <2>1
  <2>3. DOMAIN c.cached \union A \in SUBSET Hash BY Zenon, <1>0 DEF BooksSay
  <2> HIDE DEF T
  <2> QED BY Zenon, <1>4, <2>2, <2>3, IsTable
<1> HIDE DEF T
<1>7. m \in CacheState
  <2>1. m.num_free_slots \in Int /\ m.num_freeable_slots \in Int BY ONLY <1>1, <1>2, <1>4
  <2>2. c \in CacheState BY Zenon, <1>0 DEF BooksSay
  <2>3. m.err \in BOOLEAN BY Zenon, <1>4, <2>2 DEF CacheState
  <2> QED BY Zenon, <1>4, <1>6, <2>1, <2>2, <2>3 DEF CacheState, Allocate
<1>8. SlotsExact(m)
  <2>1. DOMAIN c.cached \in SUBSET Hash BY Zenon, <1>0 DEF BooksSay
  <2>2. Sizes(DOMAIN m.cached) = Sizes(DOMAIN c.cached) + Sizes(A)
    BY Zenon, <1>4, <1>5, <2>1, SizesUnion
  <2> QED BY ONLY Sizes(A) <= c.num_free_slots, <1>1, <1>2, <1>4, <2>2 DEF SlotsExact
<1>9. FreeableExact(m)
  <2>1. Range(c.freeable) = {h \in DOMAIN c.cached : c.cached[h] = {}} BY Zenon DEF Books, FreeableExact
  <2>2. \A h \in DOMAIN m.cached : m.cached[h] = {} <=> (h \in DOMAIN c.cached /\ c.cached[h] = {})
    BY Zenon, <1>4, <1>5
  <2>3. Range(m.freeable) = {h \in DOMAIN m.cached : m.cached[h] = {}}
    BY Zenon, <1>4, <1>5, <2>1, <2>2
  <2> QED BY Zenon, <1>0, <1>4, <2>3 DEF FreeableExact, BooksSay
<1>10. OwnInputs(m)
  <2>1. OwnInputs(c) BY Zenon DEF Books
  <2> QED BY ONLY <1>4, <1>5, <2>1 DEF OwnInputs
<1> QED BY Zenon, <1>4, <1>5, <1>7, <1>8, <1>9, <1>10 DEF Books

\* Appending a new element to a sequence that repeats none.
LEMMA AppendNew ==
  ASSUME Facts, NEW X, NEW s \in Seq(X), NEW x \in X, IsInjective(s), x \notin Range(s)
  PROVE  /\ Append(s, x) \in Seq(X) /\ IsInjective(Append(s, x))
         /\ Range(Append(s, x)) = Range(s) \union {x}
<1>1. /\ Append(s, x) \in Seq(X) /\ Len(s) \in Nat /\ DOMAIN s = 1..Len(s)
      /\ DOMAIN Append(s, x) = 1..(Len(s) + 1)
      /\ \A i \in 1..Len(s) : Append(s, x)[i] = s[i]
      /\ Append(s, x)[Len(s) + 1] = x
  BY DEF Facts, AppendProperties, LenProperties
<1>2. Range(Append(s, x)) = Range(s) \union {x} BY ONLY <1>1 DEF Range
<1>3. \A i \in 1..Len(s) : s[i] # x BY Zenon, <1>1 DEF Range
<1>4. ASSUME NEW i \in 1..(Len(s) + 1), NEW j \in 1..(Len(s) + 1),
             Append(s, x)[i] = Append(s, x)[j]
      PROVE  i = j
  <2>1. CASE i \in 1..Len(s) /\ j \in 1..Len(s)
    BY Zenon, <1>1, <1>4, <2>1 DEF IsInjective
  <2>2. CASE i = Len(s) + 1 /\ j \in 1..Len(s) BY Zenon, <1>1, <1>3, <1>4, <2>2
  <2>3. CASE j = Len(s) + 1 /\ i \in 1..Len(s) BY Zenon, <1>1, <1>3, <1>4, <2>3
  <2> QED BY ONLY <1>1, <2>1, <2>2, <2>3
<1> QED BY Zenon, <1>1, <1>2, <1>4 DEF IsInjective

\* r no longer refers to the outputs in H; all else that eviction looks at, but
\* the order of eviction, is the same.
Releases(c, m, r, H) ==
    /\ DOMAIN m.cached = DOMAIN c.cached
    /\ \A h \in DOMAIN c.cached :
         m.cached[h] = IF h \in H THEN c.cached[h] \ {r} ELSE c.cached[h]
    /\ m.num_free_slots = c.num_free_slots /\ m.freed = c.freed

\* free_encoder_input keeps the books.
LEMMA FreeInputBooks ==
  ASSUME Facts, NEW c, Books(c), NEW r \in Req, NEW h \in Hash, NEW m, m = FreeInput(c, r, h)
  PROVE  Books(m) /\ Releases(c, m, r, {h})
<1>0. BooksSay(c) BY Zenon, BooksFacts
<1>1. CASE h \notin DOMAIN c.cached
  <2>1. m = c BY Zenon, <1>1 DEF FreeInput, IsCached
  <2> QED BY Zenon, <1>1, <2>1 DEF Releases
<1>2. CASE h \in DOMAIN c.cached
  <2> DEFINE last == LastUser(c, r, h)
  <2>1. /\ m.cached = [c.cached EXCEPT ![h] = c.cached[h] \ {r}]
        /\ m.freeable = IF last THEN Append(c.freeable, h) ELSE c.freeable
        /\ m.num_freeable_slots = IF last THEN c.num_freeable_slots + NumEmbeds[h]
                                  ELSE c.num_freeable_slots
        /\ m.num_free_slots = c.num_free_slots /\ m.freed = c.freed /\ m.err = c.err
    BY Zenon, <1>0, <1>2 DEF BooksSay, CacheState, FreeInput, IsCached
  <2>2. last <=> c.cached[h] = {r} BY Zenon, <1>2 DEF LastUser, IsCached
  <2>3. NumEmbeds[h] \in Nat \ {0} /\ Sizes({h}) = NumEmbeds[h] BY Zenon, SizesOne
  <2>4. /\ DOMAIN m.cached = DOMAIN c.cached
        /\ \A x \in DOMAIN c.cached :
             m.cached[x] = IF x = h THEN c.cached[x] \ {r} ELSE c.cached[x]
    BY Zenon, <2>1
  <2>5. m.cached \in Table
    <3>1. c.cached \in [DOMAIN c.cached -> SUBSET Req] BY Zenon, <1>0, TableFacts DEF BooksSay
    <3>2. m.cached \in [DOMAIN c.cached -> SUBSET Req] BY Zenon, <2>1, <3>1
    <3>3. DOMAIN c.cached \in SUBSET Hash BY Zenon, <1>0 DEF BooksSay
    <3> QED BY Zenon, <3>2, <3>3, IsTable
  <2>6. last => h \notin Range(c.freeable) BY Zenon, <1>0, <1>2, <2>2 DEF BooksSay
  <2>7. /\ m.freeable \in Seq(Hash) /\ IsInjective(m.freeable)
        /\ Range(m.freeable) = Range(c.freeable) \union IF last THEN {h} ELSE {}
    <3>1. c.freeable \in Seq(Hash) /\ IsInjective(c.freeable) BY Zenon, <1>0 DEF BooksSay
    <3>2. CASE last
      <4>1. m.freeable = Append(c.freeable, h) /\ h \notin Range(c.freeable) BY Zenon, <2>1, <2>6, <3>2
      <4> QED BY <3>1, <3>2, <4>1, AppendNew
    <3>3. CASE ~ last BY Zenon, <2>1, <3>1, <3>3
    <3> QED BY Zenon, <3>2, <3>3
  <2>8. m \in CacheState
    <3>1. c \in CacheState /\ c.num_freeable_slots \in Int BY Zenon, <1>0 DEF BooksSay
    <3>2. m.num_freeable_slots \in Int BY ONLY <2>1, <2>3, <3>1
    <3> QED BY Zenon, <1>2, <2>1, <2>5, <2>7, <3>1, <3>2 DEF CacheState, FreeInput, IsCached
  <2>9. m.num_freeable_slots = m.num_free_slots + Sizes(Range(m.freeable))
    <3>1. /\ c.num_freeable_slots = c.num_free_slots + Sizes(Range(c.freeable))
          /\ c.num_free_slots \in Nat /\ Sizes(Range(c.freeable)) \in Nat
          /\ Range(c.freeable) \in SUBSET Hash
      BY Zenon, <1>0 DEF BooksSay
    <3>2. CASE last
      <4>1. Range(c.freeable) \cap {h} = {} BY Zenon, <2>6, <3>2
      <4>2. Sizes(Range(c.freeable) \union {h}) = Sizes(Range(c.freeable)) + Sizes({h})
        BY Zenon, <3>1, <4>1, SizesUnion
      <4>3. Sizes(Range(m.freeable)) = Sizes(Range(c.freeable)) + NumEmbeds[h]
        BY Zenon, <2>3, <2>7, <3>2, <4>2
      <4>4. m.num_freeable_slots = c.num_freeable_slots + NumEmbeds[h] BY Zenon, <2>1, <3>2
      <4> QED BY ONLY <2>1, <2>3, <3>1, <4>3, <4>4
    <3>3. CASE ~ last BY Zenon, <2>1, <2>7, <3>1, <3>3
    <3> QED BY Zenon, <3>2, <3>3
  <2>10. SlotsExact(m) BY ONLY <1>0, <2>1, <2>4, <2>9 DEF SlotsExact, BooksSay
  <2>11. FreeableExact(m)
    <3>1. \A x \in DOMAIN c.cached : x \in Range(c.freeable) <=> c.cached[x] = {}
      BY Zenon, <1>0 DEF BooksSay
    <3>2. Range(c.freeable) \subseteq DOMAIN c.cached BY Zenon, <1>0 DEF BooksSay
    <3>3. c.cached[h] \ {r} = {} <=> (c.cached[h] = {} \/ last) BY Zenon, <2>2
    <3>4. Range(m.freeable) = {x \in DOMAIN m.cached : m.cached[x] = {}}
      <4>1. \A x \in DOMAIN m.cached : m.cached[x] = {} <=> (c.cached[x] = {} \/ (x = h /\ last))
        BY Zenon, <2>4, <3>3
      <4> QED BY ONLY <1>2, <2>4, <2>7, <3>1, <3>2, <4>1
    <3> QED BY Zenon, <2>7, <3>4 DEF FreeableExact
  <2>12. OwnInputs(m)
    <3>1. OwnInputs(c) BY Zenon DEF Books
    <3> QED BY Zenon, <2>4, <3>1 DEF OwnInputs
  <2> QED BY Zenon, <2>1, <2>4, <2>8, <2>10, <2>11, <2>12 DEF Books, Releases
<1> QED BY Zenon, <1>1, <1>2

\* One round of FreeInputs.
FreeRound(c, r, s, ids, F, i) ==
    IF i = 0 THEN c
    ELSE The({IF i \in ids THEN FreeInput(d, r, s[i]) ELSE d : d \in {F[i - 1]}})

\* A round of the loop in free().
LEMMA FreeRoundIs ==
  ASSUME NEW c, NEW r, NEW s, NEW ids, NEW F, NEW i \in Nat \ {0}
  PROVE  FreeRound(c, r, s, ids, F, i)
           = IF i \in ids THEN FreeInput(F[i - 1], r, s[i]) ELSE F[i - 1]
<1> DEFINE v == IF i \in ids THEN FreeInput(F[i - 1], r, s[i]) ELSE F[i - 1]
<1>1. {IF i \in ids THEN FreeInput(d, r, s[i]) ELSE d : d \in {F[i - 1]}} = {v} BY Zenon
<1> HIDE DEF v
<1>2. FreeRound(c, r, s, ids, F, i) = The({v}) BY Zenon, <1>1 DEF FreeRound
<1>3. The({v}) = v BY Zenon DEF The
<1> QED BY Zenon, <1>2, <1>3 DEF v

\* The recursive definition inside FreeInputs has a solution.
LEMMA FreeExists ==
  ASSUME Facts, NEW c, NEW r, NEW s, NEW ids, NEW n \in Nat
  PROVE  \E F : F = [i \in 0..n |-> FreeRound(c, r, s, ids, F, i)]
<1> DEFINE Ok(m) == \E F : F = [i \in 0..m |-> FreeRound(c, r, s, ids, F, i)]
           T == {m \in 0..n : Ok(m)}
<1>1. Ok(0)
  <2> DEFINE F == [i \in 0..0 |-> c]
  <2>1. \A i \in 0..0 : FreeRound(c, r, s, ids, F, i) = c BY DEF FreeRound
  <2>2. F = [i \in 0..0 |-> FreeRound(c, r, s, ids, F, i)] BY Zenon, <2>1
  <2> QED BY Zenon, <2>2
<1>2. ASSUME NEW m \in 0..(n - 1), Ok(m) PROVE Ok(m + 1)
  <2>1. PICK F : F = [i \in 0..m |-> FreeRound(c, r, s, ids, F, i)] BY Zenon, <1>2
  <2> DEFINE G == [i \in 0..(m + 1) |-> IF i <= m THEN F[i]
                                        ELSE FreeRound(c, r, s, ids, F, i)]
  <2>2. ASSUME NEW i \in 0..(m + 1) PROVE G[i] = FreeRound(c, r, s, ids, G, i)
    <3>1. G[i] = FreeRound(c, r, s, ids, F, i) BY ONLY <2>1
    <3>2. CASE i = 0 BY Zenon, <3>1, <3>2 DEF FreeRound
    <3>3. CASE i # 0
      <4>1. i - 1 \in 0..m /\ i \in Nat \ {0} BY ONLY <3>3
      <4>2. G[i - 1] = F[i - 1] BY ONLY <4>1
      <4> HIDE DEF G
      <4> QED BY Zenon, <3>1, <3>3, <4>2 DEF FreeRound
    <3> QED BY Zenon, <3>2, <3>3
  <2>3. G = [i \in 0..(m + 1) |-> FreeRound(c, r, s, ids, G, i)]
    <3>1. DOMAIN G = 0..(m + 1) /\ G = [i \in 0..(m + 1) |-> G[i]] BY Zenon
    <3> HIDE DEF G
    <3> QED BY Zenon, <2>2, <3>1
  <2> HIDE DEF G
  <2> QED BY Zenon, <2>3
<1>3. \A m \in 0..n : m \in T
  <2>1. 0 \in T BY ONLY <1>1
  <2>2. \A m \in 0..(n - 1) : m \in T => m + 1 \in T
    <3> HIDE DEF Ok
    <3> QED BY ONLY <1>2
  <2> HIDE DEF T
  <2> QED BY <2>1, <2>2, Zenon DEF Facts, IntervalInduction
<1> HIDE DEF Ok
<1>4. Ok(n) BY ONLY <1>3
<1> QED BY Zenon, <1>4 DEF Ok

\* free_encoder_input of several inputs keeps the books, and r refers to none of
\* them any more.
LEMMA FreeInputsBooks ==
  ASSUME Facts, NEW c, Books(c), NEW r \in Req, NEW s \in Seq(Hash), NEW ids,
         NEW m, m = FreeInputs(c, r, s, ids)
  PROVE  Books(m) /\ Releases(c, m, r, {s[i] : i \in ids \cap DOMAIN s})
<1> DEFINE F == CHOOSE G : G = [i \in 0..Len(s) |-> FreeRound(c, r, s, ids, G, i)]
           H(k) == {s[i] : i \in ids \cap (1..k)}
           Good(k) == Books(F[k]) /\ Releases(c, F[k], r, H(k))
           T == {k \in 0..Len(s) : Good(k)}
<1>0. Len(s) \in Nat /\ DOMAIN s = 1..Len(s) BY Zenon DEF Facts, LenProperties
<1>1. F = [i \in 0..Len(s) |-> FreeRound(c, r, s, ids, F, i)] BY ONLY <1>0, FreeExists, SMTT(20)
<1>2. m = F[Len(s)] BY Zenon DEF FreeInputs, FreeRound
<1> HIDE DEF F
<1>3. \A i \in 0..Len(s) : F[i] = FreeRound(c, r, s, ids, F, i) BY Zenon, <1>1
<1>4. Good(0)
  <2>0. F[0] = FreeRound(c, r, s, ids, F, 0) BY ONLY <1>0, <1>3
  <2>1. F[0] = c BY <2>0, Zenon DEF FreeRound
  <2>2. H(0) = {} OBVIOUS
  <2> QED BY Zenon, <2>1, <2>2 DEF Releases
<1>5. ASSUME NEW k \in 0..(Len(s) - 1), Good(k) PROVE Good(k + 1)
  <2>0. k + 1 \in 1..Len(s) /\ k + 1 \in Nat \ {0} /\ (k + 1) - 1 = k BY ONLY <1>0
  <2>1. F[k + 1] = IF k + 1 \in ids THEN FreeInput(F[k], r, s[k + 1]) ELSE F[k]
    BY ONLY <1>0, <1>3, <2>0, FreeRoundIs
  <2>2. CASE k + 1 \notin ids
    <3>1. H(k + 1) = H(k) BY ONLY <2>0, <2>2
    <3> HIDE DEF H
    <3> QED BY Zenon, <1>5, <2>1, <2>2, <3>1
  <2>3. CASE k + 1 \in ids
    <3>1. H(k + 1) = H(k) \union {s[k + 1]} BY ONLY <2>0, <2>3
    <3>2. s[k + 1] \in Hash BY Zenon, <2>0 DEF Facts, ElementOfSeq
    <3>3. F[k + 1] = FreeInput(F[k], r, s[k + 1]) BY Zenon, <2>1, <2>3
    <3> HIDE DEF H
    <3>4. Books(F[k + 1]) /\ Releases(F[k], F[k + 1], r, {s[k + 1]})
      BY Zenon, <1>5, <3>2, <3>3, FreeInputBooks
    <3>5. Releases(c, F[k + 1], r, H(k + 1)) BY Zenon, <1>5, <3>1, <3>4 DEF Releases
    <3> QED BY Zenon, <3>4, <3>5
  <2> QED BY Zenon, <2>2, <2>3
<1>6. \A k \in 0..Len(s) : k \in T
  <2>1. 0 \in T BY ONLY <1>0, <1>4
  <2>2. \A k \in 0..(Len(s) - 1) : k \in T => k + 1 \in T
    <3> HIDE DEF Good
    <3> QED BY ONLY <1>0, <1>5
  <2> HIDE DEF T
  <2> QED BY <1>0, <2>1, <2>2, Zenon DEF Facts, IntervalInduction
<1>7. Good(Len(s))
  <2> HIDE DEF Good
  <2> QED BY ONLY <1>0, <1>6
<1>8. H(Len(s)) = {s[i] : i \in ids \cap DOMAIN s} BY Zenon, <1>0
<1> QED BY Zenon, <1>2, <1>7, <1>8

-----------------------------------------------------------------------------
(* _try_schedule_encoder_inputs *)

\* The larger of two numbers.
LEMMA MaxOfTwo ==
  ASSUME NEW x \in Int, NEW y \in Int
  PROVE  Max({x, y}) = IF x >= y THEN x ELSE y
BY DEF Max

\* The smaller of two numbers.
LEMMA MinOfTwo ==
  ASSUME NEW x \in Int, NEW y \in Int
  PROVE  Min({x, y}) = IF x <= y THEN x ELSE y
BY DEF Min

\* What the loop over the inputs carries along.
Attempt ==
    [cache : CacheState, n : Nat, budget : Int, inputs : SUBSET Hash, stop : BOOLEAN]

\* The loop ends at input f with n tokens.
Stops(a, b, computed, f) ==
    /\ b = [a EXCEPT !.stop = TRUE, !.n = b.n]
    /\ b.n \in 0..a.n
    /\ config.shift = 0 => b.n = 0 \/ a.stop \/ f.offset >= computed + b.n
    /\ (a.stop \/ f.offset >= computed + a.n + config.shift) => b.n = a.n
    /\ ~ a.stop /\ b.n # a.n /\ b.n = 0 => f.offset <= computed + config.shift

\* The input needs nothing.
Skips(a, b, computed, f) == b = a /\ (Passed(f, computed) \/ f.hash \in a.inputs)

\* The input is cached already.
Finds(a, b, r, computed, f) ==
    /\ f.hash \in DOMAIN a.cache.cached /\ ~ Passed(f, computed)
    /\ b = [a EXCEPT !.cache = UpdateCache(a.cache, r, f.hash)]

\* There is room for the input, and it is computed if a token of the step needs it.
Takes(a, b, computed, f) ==
    LET need == NumEmbeds[f.hash] + Sizes(a.inputs)
    IN  /\ f.hash \notin DOMAIN a.cache.cached /\ f.hash \notin a.inputs
        /\ NumEmbeds[f.hash] <= a.budget
        /\ need <= a.cache.num_free_slots \/ need <= a.cache.num_freeable_slots
        /\ b.cache = MakeRoom(a.cache, need) /\ b.n = a.n /\ b.stop = a.stop
        /\ \/ /\ ~ Embeds(f, computed, computed + a.n)
              /\ b.inputs = a.inputs /\ b.budget = a.budget
           \/ /\ b.inputs = a.inputs \union {f.hash}
              /\ b.budget = a.budget - NumEmbeds[f.hash]

\* The record of the loop after Takes.
TakenRecord(b) == b = [cache |-> b.cache, n |-> b.n, budget |-> b.budget,
                       inputs |-> b.inputs, stop |-> b.stop]

\* The ways a round of the loop can go.
LEMMA TryCases ==
  ASSUME config.shift \in {0, 1}, NEW r, NEW computed \in Nat, NEW a \in Attempt,
         NEW f \in Feature, NEW b, b = TryInput(r, computed, a, f)
  PROVE  \/ Stops(a, b, computed, f)
         \/ Skips(a, b, computed, f) /\ ~ a.stop
         \/ Finds(a, b, r, computed, f) /\ ~ a.stop
         \/ Takes(a, b, computed, f) /\ TakenRecord(b) /\ ~ a.stop
<1> DEFINE end == computed + a.n
           shift == config.shift
           need == NumEmbeds[f.hash] + Sizes(a.inputs)
           stop(n) == [a EXCEPT !.stop = TRUE, !.n = n]
           room == [a EXCEPT !.cache = MakeRoom(a.cache, need)]
<1>0. /\ f.offset \in Nat /\ f.length \in Nat /\ f.hash \in Hash
      /\ a.n \in Nat /\ a.stop \in BOOLEAN /\ shift \in {0, 1}
  BY Zenon DEF Feature, Attempt
<1>00. \A n : stop(n).n = n BY Zenon DEF Attempt
<1>1. CASE a.stop \/ f.offset >= end + shift
  <2>1. b = stop(a.n) BY Zenon, <1>1 DEF TryInput
  <2>2. b.n = a.n BY Zenon, <1>00, <2>1
  <2> QED BY ONLY <1>0, <1>1, <2>1, <2>2 DEF Stops
<1>2. CASE ~ (a.stop \/ f.offset >= end + shift) /\ (Passed(f, computed) \/ f.hash \in a.inputs)
  <2>1. b = a BY Zenon, <1>2 DEF TryInput
  <2> QED BY Zenon, <1>2, <2>1 DEF Skips
<1> DEFINE Here == /\ ~ (a.stop \/ f.offset >= end + shift)
                   /\ ~ (Passed(f, computed) \/ f.hash \in a.inputs)
<1>3. CASE Here /\ IsCached(a.cache, f.hash)
  <2>1. b = [a EXCEPT !.cache = UpdateCache(a.cache, r, f.hash)] BY Zenon, <1>3 DEF TryInput
  <2> QED BY Zenon, <1>3, <2>1 DEF Finds, IsCached
<1> DEFINE Split == ~ config.chunked /\ computed < f.offset /\ end < f.offset + f.length
<1>4. CASE Here /\ ~ IsCached(a.cache, f.hash) /\ Split
  <2> DEFINE k == Max({0, f.offset - (computed + shift)})
  <2>1. b = stop(k) BY Zenon, <1>4 DEF TryInput
  <2>2. k = IF 0 >= f.offset - (computed + shift) THEN 0 ELSE f.offset - (computed + shift)
    <3>1. f.offset - (computed + shift) \in Int BY ONLY <1>0
    <3> QED BY ONLY <3>1, MaxOfTwo
  <2> HIDE DEF k
  <2>3. b.n = k BY Zenon, <1>00, <2>1
  <2>4. k \in 0..a.n /\ f.offset < computed + a.n + shift BY ONLY <1>0, <1>4, <2>2
  <2>5. shift = 0 => k = 0 \/ f.offset >= computed + k BY ONLY <1>0, <2>2
  <2>6. k = 0 => f.offset <= computed + shift BY ONLY <1>0, <2>2
  <2> QED BY Zenon, <1>0, <1>4, <2>1, <2>3, <2>4, <2>5, <2>6 DEF Stops
<1> DEFINE Full == ~ CanAllocate(a.cache, f.hash, a.budget, Sizes(a.inputs))
<1>5. CASE Here /\ ~ IsCached(a.cache, f.hash) /\ ~ Split /\ Full
  <2> DEFINE k == IF computed + shift < f.offset THEN f.offset - (computed + shift) ELSE 0
  <2>1. b = stop(k) BY Zenon, <1>5 DEF TryInput
  <2>3. b.n = k BY Zenon, <1>00, <2>1
  <2>4. k \in 0..a.n /\ f.offset < computed + a.n + shift BY ONLY <1>0, <1>5
  <2>5. shift = 0 => k = 0 \/ f.offset >= computed + k BY ONLY <1>0
  <2>6. k = 0 => f.offset <= computed + shift BY ONLY <1>0
  <2> HIDE DEF k
  <2> QED BY Zenon, <1>0, <1>5, <2>1, <2>3, <2>4, <2>5, <2>6 DEF Stops
<1>6. CASE Here /\ ~ IsCached(a.cache, f.hash) /\ ~ Split /\ ~ Full
  <2>1. /\ NumEmbeds[f.hash] <= a.budget
        /\ need <= a.cache.num_free_slots \/ need <= a.cache.num_freeable_slots
    BY Zenon, <1>6 DEF CanAllocate
  <2>2. b = IF ~ Embeds(f, computed, end) THEN room
            ELSE [room EXCEPT !.inputs = room.inputs \union {f.hash},
                              !.budget = room.budget - NumEmbeds[f.hash]]
    BY Zenon, <1>6 DEF TryInput
  <2>3. /\ room.cache = MakeRoom(a.cache, need) /\ room.n = a.n /\ room.budget = a.budget
        /\ room.inputs = a.inputs /\ room.stop = a.stop
        /\ TakenRecord(room)
    BY DEF Attempt, TakenRecord
  <2>4. CASE ~ Embeds(f, computed, end)
    <3>1. b = room BY Zenon, <2>2, <2>4
    <3> HIDE DEF room
    <3> QED BY Zenon, <1>6, <2>1, <2>3, <2>4, <3>1 DEF Takes, IsCached
  <2>5. CASE Embeds(f, computed, end)
    <3>1. b = [room EXCEPT !.inputs = room.inputs \union {f.hash},
                           !.budget = room.budget - NumEmbeds[f.hash]]
      BY Zenon, <2>2, <2>5
    <3> HIDE DEF room
    <3>2. /\ b.cache = room.cache /\ b.n = room.n /\ b.stop = room.stop
          /\ b.inputs = room.inputs \union {f.hash}
          /\ b.budget = room.budget - NumEmbeds[f.hash] /\ TakenRecord(b)
      BY Zenon, <2>3, <3>1 DEF TakenRecord
    <3> QED BY Zenon, <1>6, <2>1, <2>3, <3>2 DEF Takes, IsCached
  <2> QED BY Zenon, <2>4, <2>5
<1> QED BY Zenon, <1>1, <1>2, <1>3, <1>4, <1>5, <1>6

\* From c to m requests lose no output that is referred to, and of the requests
\* only r may refer to more.
Grows(c, m, r) ==
    /\ DOMAIN m.cached \subseteq DOMAIN c.cached
    /\ \A h \in DOMAIN m.cached :
         c.cached[h] \subseteq m.cached[h] /\ m.cached[h] \subseteq c.cached[h] \union {r}
    /\ \A h \in DOMAIN c.cached : c.cached[h] # {} => h \in DOMAIN m.cached
    /\ m.freed = c.freed \union (DOMAIN c.cached \ DOMAIN m.cached)

\* A cache that is left alone grows.
LEMMA GrowsSame == \A c, r : Grows(c, c, r)
BY Zenon DEF Grows

\* Evictions do not take what the request refers to.
LEMMA GrowsEvicts ==
  ASSUME NEW c, NEW d, NEW m, NEW r, Grows(c, d, r), Evicts(d, m)
  PROVE  Grows(c, m, r)
<1>1. DOMAIN m.cached \subseteq DOMAIN c.cached BY Zenon DEF Grows, Evicts
<1>2. ASSUME NEW h \in DOMAIN m.cached
      PROVE  c.cached[h] \subseteq m.cached[h] /\ m.cached[h] \subseteq c.cached[h] \union {r}
  BY Zenon, <1>2 DEF Grows, Evicts
<1>3. ASSUME NEW h \in DOMAIN c.cached, c.cached[h] # {} PROVE h \in DOMAIN m.cached
  <2>1. h \in DOMAIN d.cached /\ c.cached[h] \subseteq d.cached[h] BY Zenon, <1>3 DEF Grows
  <2>2. d.cached[h] # {} BY Zenon, <1>3, <2>1
  <2> QED BY Zenon, <2>1, <2>2 DEF Evicts
<1>4. m.freed = c.freed \union (DOMAIN c.cached \ DOMAIN m.cached) BY Zenon DEF Grows, Evicts
<1> QED BY Zenon, <1>1, <1>2, <1>3, <1>4 DEF Grows

\* A further reference only adds.
LEMMA GrowsUpdate ==
  ASSUME NEW c, NEW d, NEW m, NEW r, NEW h \in DOMAIN d.cached, Grows(c, d, r),
         m.cached = [d.cached EXCEPT ![h] = d.cached[h] \union {r}], m.freed = d.freed
  PROVE  Grows(c, m, r)
<1>1. /\ DOMAIN m.cached = DOMAIN d.cached
      /\ \A x \in DOMAIN d.cached :
           m.cached[x] = IF x = h THEN d.cached[x] \union {r} ELSE d.cached[x]
  BY Zenon
<1> QED BY <1>1 DEF Grows

\* The loop has kept the books, and there is room for the inputs it took.
TryOK(c, r, n, budget, a) ==
    /\ a \in Attempt /\ Books(a.cache) /\ Grows(c, a.cache, r)
    /\ a.inputs \subseteq InputsOf(r) /\ a.inputs \cap DOMAIN a.cache.cached = {}
    /\ Sizes(a.inputs) <= a.cache.num_free_slots
    /\ a.budget = budget - Sizes(a.inputs) /\ a.budget >= 0
    /\ a.n <= n /\ (~ a.stop => a.n = n)

\* One input of a prompt: what is to be encoded so far fits the budgets and the
\* cache.
LEMMA TryInputOK ==
  ASSUME Facts, config.shift \in {0, 1}, NEW c, NEW r \in Req, NEW computed \in Nat,
         NEW n \in Nat, NEW budget \in Nat, NEW a, TryOK(c, r, n, budget, a),
         NEW f \in Feature, f.hash \in InputsOf(r),
         NEW b, b = TryInput(r, computed, a, f)
  PROVE  TryOK(c, r, n, budget, b)
<1>0. /\ a \in Attempt /\ Books(a.cache) /\ Grows(c, a.cache, r)
      /\ a.inputs \subseteq InputsOf(r) /\ a.inputs \cap DOMAIN a.cache.cached = {}
      /\ Sizes(a.inputs) <= a.cache.num_free_slots
      /\ a.budget = budget - Sizes(a.inputs) /\ a.budget >= 0
      /\ a.n <= n /\ (~ a.stop => a.n = n)
  BY Zenon DEF TryOK
<1>1. a.n \in Nat /\ a.inputs \in SUBSET Hash /\ a.stop \in BOOLEAN /\ f.hash \in Hash
      /\ a.cache \in CacheState
  BY Zenon, <1>0 DEF Attempt, Feature
<1>2. Sizes(a.inputs) \in Nat BY Zenon, <1>1, SizesType
<1>3. BooksSay(a.cache) BY Zenon, <1>0, BooksFacts
<1>4. NumEmbeds[f.hash] \in Nat /\ Sizes({f.hash}) = NumEmbeds[f.hash] BY Zenon, <1>1, SizesOne
<1>5. CASE Stops(a, b, computed, f)
  <2>1. b = [a EXCEPT !.stop = TRUE, !.n = b.n] /\ b.n \in 0..a.n BY Zenon, <1>5 DEF Stops
  <2>2. b.n \in Nat /\ b.n <= n BY ONLY <1>0, <1>1, <2>1
  <2>3. b \in Attempt BY Zenon, <1>0, <2>1, <2>2 DEF Attempt
  <2>4. b.cache = a.cache /\ b.inputs = a.inputs /\ b.budget = a.budget /\ b.stop = TRUE
    BY Zenon, <1>0, <2>1 DEF Attempt
  <2> QED BY Zenon, <1>0, <2>2, <2>3, <2>4 DEF TryOK
<1>6. CASE Skips(a, b, computed, f) BY Zenon, <1>6 DEF Skips
<1>7. CASE Finds(a, b, r, computed, f)
  <2> DEFINE h == f.hash
             m == UpdateCache(a.cache, r, h)
  <2>1. h \in DOMAIN a.cache.cached /\ b = [a EXCEPT !.cache = m] BY Zenon, <1>7 DEF Finds
  <2>2. /\ Books(m) /\ m.num_free_slots = a.cache.num_free_slots
        /\ m.freed = a.cache.freed
        /\ m.cached = [a.cache.cached EXCEPT ![h] = a.cache.cached[h] \union {r}]
    BY <1>0, <2>1, UpdateBooks
  <2> HIDE DEF m, h
  <2>3. m \in CacheState BY Zenon, <2>2 DEF Books
  <2>4. /\ b.cache = m /\ b.inputs = a.inputs /\ b.budget = a.budget /\ b.stop = a.stop
        /\ b.n = a.n /\ b \in Attempt
    BY Zenon, <1>0, <2>1, <2>3 DEF Attempt
  <2>5. Grows(c, m, r) BY Zenon, <1>0, <2>1, <2>2, GrowsUpdate
  <2>6. DOMAIN m.cached = DOMAIN a.cache.cached BY Zenon, <2>2
  <2> QED BY Zenon, <1>0, <2>2, <2>4, <2>5, <2>6 DEF TryOK
<1>8. CASE Takes(a, b, computed, f) /\ TakenRecord(b) /\ ~ a.stop
  <2> DEFINE need == NumEmbeds[f.hash] + Sizes(a.inputs)
             m == MakeRoom(a.cache, need)
  <2>1. /\ f.hash \notin DOMAIN a.cache.cached /\ f.hash \notin a.inputs
        /\ NumEmbeds[f.hash] <= a.budget
        /\ need <= a.cache.num_free_slots \/ need <= a.cache.num_freeable_slots
        /\ b.cache = m /\ b.n = a.n /\ b.stop = a.stop
    BY Zenon, <1>8 DEF Takes
  <2>2. need \in Nat BY ONLY <1>2, <1>4
  <2>3. Books(m) /\ Evicts(a.cache, m) /\ need <= m.num_free_slots
    BY Zenon, <1>0, <2>1, <2>2, MakeRoomBooks
  <2>4. m \in CacheState /\ m.num_free_slots \in Nat /\ DOMAIN m.cached \subseteq DOMAIN a.cache.cached
    <3>1. BooksSay(m) BY Zenon, <2>3, BooksFacts
    <3> QED BY Zenon, <2>3, <3>1 DEF BooksSay, Evicts
  <2> HIDE DEF m
  <2>5. Grows(c, m, r) BY Zenon, <1>0, <2>3, GrowsEvicts
  <2>6. CASE b.inputs = a.inputs /\ b.budget = a.budget
    <3>1. b \in Attempt BY Zenon, <1>0, <1>8, <2>1, <2>4, <2>6 DEF Attempt, TakenRecord
    <3>2. Sizes(a.inputs) <= m.num_free_slots BY ONLY <1>2, <1>4, <2>3, <2>4
    <3> QED BY Zenon, <1>0, <2>1, <2>3, <2>4, <2>5, <2>6, <3>1, <3>2 DEF TryOK
  <2>7. CASE b.inputs = a.inputs \union {f.hash} /\ b.budget = a.budget - NumEmbeds[f.hash]
    <3>1. Sizes(b.inputs) = Sizes(a.inputs) + NumEmbeds[f.hash]
      <4>1. a.inputs \cap {f.hash} = {} BY Zenon, <2>1
      <4>2. Sizes(a.inputs \union {f.hash}) = Sizes(a.inputs) + Sizes({f.hash})
        BY Zenon, <1>1, <4>1, SizesUnion
      <4> QED BY Zenon, <1>4, <2>7, <4>2
    <3>2. Sizes(b.inputs) <= m.num_free_slots BY ONLY <1>2, <1>4, <2>3, <2>4, <3>1
    <3>3. b.budget = budget - Sizes(b.inputs) /\ b.budget >= 0 /\ b.budget \in Int
      BY ONLY <1>0, <1>2, <1>4, <2>1, <2>7, <3>1
    <3>4. b \in Attempt BY Zenon, <1>0, <1>1, <1>8, <2>1, <2>4, <2>7, <3>3 DEF Attempt, TakenRecord
    <3>5. b.inputs \subseteq InputsOf(r) /\ b.inputs \cap DOMAIN m.cached = {}
      BY <1>0, <2>1, <2>4, <2>7
    <3> QED BY Zenon, <1>0, <2>1, <2>3, <2>5, <3>2, <3>3, <3>4, <3>5 DEF TryOK
  <2> QED BY Zenon, <1>8, <2>6, <2>7 DEF Takes
<1> QED BY Zenon, <1>0, <1>5, <1>6, <1>7, <1>8, TryCases

\* Request r refers to the output.
Refers(c, r, h) == h \in DOMAIN c.cached /\ r \in c.cached[h]

\* All that tokens start..start+n-1 of r need is in inputs, or r refers to it.
Needs(c, r, start, n, inputs) ==
    \A i \in DOMAIN Features[r] :
      Embeds(Features[r][i], start, start + n)
        => Features[r][i].hash \in inputs \/ Refers(c, r, Features[r][i].hash)

\* The inputs of a request lie one after the other.
Apart ==
    \A r \in Req : \A i, j \in DOMAIN Features[r] :
      i < j => Features[r][i].offset + Features[r][i].length <= Features[r][j].offset

\* The first i inputs, or all of them once the loop has ended, are provided for.
Provided(r, computed, a, i) ==
    \A j \in DOMAIN Features[r] :
      /\ j <= i \/ a.stop
      /\ Embeds(Features[r][j], computed, computed + a.n)
      => Features[r][j].hash \in a.inputs \/ Refers(a.cache, r, Features[r][j].hash)

\* From c to m nobody refers to more.
NoneNew(c, m) == \A h \in DOMAIN m.cached : m.cached[h] \subseteq c.cached[h]

\* The request refers to more only if it has tokens to compute.
ForTokens(c, r, computed, a, i) ==
    \/ NoneNew(c, a.cache)
    \/ a.n # 0 /\ \E j \in DOMAIN Features[r] : j <= i /\ ~ Passed(Features[r][j], computed)

\* What is known of an input of a prompt.
LEMMA FeatureFacts ==
  ASSUME Facts, NEW r \in Req, NEW i \in DOMAIN Features[r]
  PROVE  LET f == Features[r][i]
         IN  /\ f \in Feature /\ f.hash \in InputsOf(r) /\ f.hash \in Hash
             /\ f.offset \in Nat /\ f.length \in Nat \ {0} /\ i \in Nat
             /\ \A p \in f.embeds : p \in Nat /\ p < f.length
<1>1. /\ Features[r] \in Seq(Feature)
      /\ Features[r][i].embeds \subseteq 0..(Features[r][i].length - 1)
  BY Zenon, EncoderAssumption
<1>2. Features[r][i] \in Feature /\ i \in Nat BY ONLY <1>1 DEF Facts, ElementOfSeq, LenProperties
<1>3. Features[r][i].hash \in InputsOf(r) BY Zenon DEF InputsOf, HashesOf, Range
<1> QED BY ONLY <1>1, <1>2, <1>3 DEF Feature

\* What r refers to it goes on referring to, when its outputs grow.
LEMMA RefersGrows ==
  ASSUME NEW c, NEW m, NEW r, NEW q, Grows(c, m, q), NEW h, Refers(c, r, h)
  PROVE  Refers(m, r, h)
BY Zenon DEF Grows, Refers

\* One round provides for one more input.
LEMMA RoundProvides ==
  ASSUME Facts, config.shift = 0, NEW r \in Req, NEW computed \in Nat, NEW a \in Attempt,
         NEW i \in Nat, i + 1 \in DOMAIN Features[r], Provided(r, computed, a, i),
         NEW b \in Attempt, Grows(a.cache, b.cache, r), a.inputs \subseteq b.inputs,
         b.n <= a.n,
         NEW f, f = Features[r][i + 1],
         \/ Stops(a, b, computed, f)
         \/ Skips(a, b, computed, f) /\ ~ a.stop
         \/ Refers(b.cache, r, f.hash) /\ ~ b.stop
         \/ f.hash \in b.inputs /\ ~ b.stop
         \/ ~ Embeds(f, computed, computed + b.n) /\ ~ b.stop
  PROVE  Provided(r, computed, b, i + 1)
<1> SUFFICES ASSUME NEW j \in DOMAIN Features[r], j <= i + 1 \/ b.stop,
                    Embeds(Features[r][j], computed, computed + b.n)
             PROVE  \/ Features[r][j].hash \in b.inputs
                    \/ Refers(b.cache, r, Features[r][j].hash)
  BY Zenon DEF Provided
<1> DEFINE g == Features[r][j]
<1>0. /\ a.n \in Nat /\ b.n \in Nat /\ a.stop \in BOOLEAN /\ b.stop \in BOOLEAN BY Zenon DEF Attempt
<1>1. /\ j \in Nat /\ g.offset \in Nat /\ f.offset \in Nat /\ f.length \in Nat
      /\ \A p \in g.embeds : p \in Nat
      /\ \A p \in f.embeds : p \in Nat /\ p < f.length
  BY Zenon, FeatureFacts
<1>2. Embeds(g, computed, computed + a.n) BY <1>0, <1>1 DEF Embeds
<1>3. CASE j <= i \/ a.stop
  <2>1. g.hash \in a.inputs \/ Refers(a.cache, r, g.hash) BY Zenon, <1>2, <1>3 DEF Provided
  <2> QED BY Zenon, <2>1, RefersGrows
<1>4. CASE ~ a.stop /\ ~ (j <= i) /\ Stops(a, b, computed, f)
  <2>1. b.n = 0 \/ f.offset >= computed + b.n BY Zenon, <1>4 DEF Stops
  <2>2. f.offset <= g.offset
    <3>1. CASE j = i + 1 BY <1>1, <3>1
    <3>2. CASE i + 1 < j BY Zenon, <3>2, EncoderAssumption
    <3> QED BY ONLY <1>1, <1>4, <3>1, <3>2
  <2>3. PICK p \in g.embeds : computed <= g.offset + p /\ g.offset + p < computed + b.n
    BY Zenon DEF Embeds
  <2> QED BY ONLY <1>0, <1>1, <2>1, <2>2, <2>3
<1>5. CASE ~ a.stop /\ ~ (j <= i) /\ ~ b.stop
  <2>1. j = i + 1 BY <1>1, <1>5
  <2>2. CASE Skips(a, b, computed, f)
    <3>1. ~ Passed(f, computed) BY <1>0, <1>1, <2>1 DEF Passed, Embeds
    <3> QED BY Zenon, <2>1, <2>2, <3>1 DEF Skips
  <2>3. CASE Stops(a, b, computed, f) BY Zenon, <1>4, <1>5, <2>3
  <2> QED BY Zenon, <2>1, <2>2, <2>3
<1>6. CASE ~ a.stop /\ ~ (j <= i) /\ b.stop
  <2>1. ~ Skips(a, b, computed, f) BY Zenon, <1>6 DEF Skips
  <2> QED BY Zenon, <1>4, <1>6, <2>1
<1> QED BY Zenon, <1>0, <1>3, <1>5, <1>6

\* One round makes r refer to more only for tokens it has to compute.
LEMMA RoundForTokens ==
  ASSUME Facts, config.shift = 0, Apart, NEW c, NEW r \in Req, NEW computed \in Nat, NEW a \in Attempt,
         NEW i \in Nat, i + 1 \in DOMAIN Features[r], ForTokens(c, r, computed, a, i),
         NEW b \in Attempt, NEW f, f = Features[r][i + 1],
         \/ Stops(a, b, computed, f)
         \/ b.n = a.n /\ ((~ Passed(f, computed) /\ ~ a.stop /\ a.n # 0) \/ NoneNew(a.cache, b.cache)),
         DOMAIN b.cache.cached \subseteq DOMAIN a.cache.cached
  PROVE  ForTokens(c, r, computed, b, i + 1)
<1>0. a.n \in Nat /\ b.n \in Nat /\ a.stop \in BOOLEAN BY Zenon DEF Attempt
<1>1. i + 1 \in Nat /\ i + 1 <= i + 1 OBVIOUS
<1>2. \A j \in DOMAIN Features[r] : j \in Nat BY Zenon, FeatureFacts
<1>3. CASE Stops(a, b, computed, f)
  <2>1. b.cache = a.cache BY Zenon, <1>3 DEF Stops, Attempt
  <2>2. CASE NoneNew(c, a.cache) BY Zenon, <2>1, <2>2 DEF ForTokens
  <2>3. CASE ~ NoneNew(c, a.cache)
    <3>1. a.n # 0 BY Zenon, <2>3 DEF ForTokens
    <3>2. PICK j \in DOMAIN Features[r] : j <= i /\ ~ Passed(Features[r][j], computed)
      BY Zenon, <2>3 DEF ForTokens
    <3>3. j \in Nat /\ j <= i + 1 /\ j < i + 1 BY ONLY <1>2, <3>2
    <3>4. b.n # 0
      <4>1. CASE b.n = a.n BY Zenon, <3>1, <4>1
      <4>2. CASE b.n # a.n /\ b.n = 0
        <5>1. f.offset <= computed BY <1>3, <4>2 DEF Stops
        <5>2. Features[r][j].offset + Features[r][j].length <= f.offset
          BY Zenon, <3>3 DEF Apart
        <5>3. /\ f.offset \in Nat /\ Features[r][j].offset \in Nat
              /\ Features[r][j].length \in Nat
          BY Zenon, FeatureFacts
        <5> QED BY ONLY <3>2, <5>1, <5>2, <5>3 DEF Passed
      <4> QED BY Zenon, <4>1, <4>2
    <3> QED BY Zenon, <3>2, <3>3, <3>4 DEF ForTokens
  <2> QED BY Zenon, <2>2, <2>3
<1>4. CASE b.n = a.n /\ ~ Passed(f, computed) /\ a.n # 0
  BY Zenon, <1>1, <1>4 DEF ForTokens
<1>5. CASE b.n = a.n /\ NoneNew(a.cache, b.cache)
  <2>1. NoneNew(c, a.cache) => NoneNew(c, b.cache) BY Zenon, <1>5 DEF NoneNew
  <2>2. \A j \in DOMAIN Features[r] : j <= i => j <= i + 1 BY ONLY <1>2
  <2> QED BY Zenon, <1>5, <2>1, <2>2 DEF ForTokens
<1> QED BY Zenon, <1>3, <1>4, <1>5

\* What holds after i rounds of the loop.
LoopOK(c, r, computed, n, budget, a, i) ==
    /\ TryOK(c, r, n, budget, a)
    /\ config.shift = 0 => Provided(r, computed, a, i)
    /\ config.shift = 0 /\ Apart => ForTokens(c, r, computed, a, i)
    /\ n = 0 => a.stop
    /\ ~ a.stop => a.n # 0

\* One round of _try_schedule_encoder_inputs preserves its loop invariant.
LEMMA RoundOK ==
  ASSUME Facts, config.shift \in {0, 1}, NEW c, NEW r \in Req, NEW computed \in Nat,
         NEW n \in Nat, NEW budget \in Nat, NEW a, NEW i \in Nat,
         i + 1 \in DOMAIN Features[r], LoopOK(c, r, computed, n, budget, a, i),
         NEW b, b = TryInput(r, computed, a, Features[r][i + 1])
  PROVE  LoopOK(c, r, computed, n, budget, b, i + 1)
<1> DEFINE f == Features[r][i + 1]
<1>0. TryOK(c, r, n, budget, a) BY Zenon DEF LoopOK
<1>1. f \in Feature /\ f.hash \in InputsOf(r) BY Zenon, FeatureFacts
<1> HIDE DEF f
<1>2. b = TryInput(r, computed, a, f) BY Zenon DEF f
<1>3. TryOK(c, r, n, budget, b) BY Zenon, <1>0, <1>1, <1>2, TryInputOK
<1>4. a \in Attempt /\ b \in Attempt /\ Books(a.cache) BY Zenon, <1>0, <1>3 DEF TryOK
<1>5. a.n \in Nat /\ a.stop \in BOOLEAN /\ (~ a.stop => a.n # 0) /\ (n = 0 => a.stop)
  BY Zenon, <1>4 DEF LoopOK, Attempt
<1> DEFINE Round == /\ Grows(a.cache, b.cache, r) /\ a.inputs \subseteq b.inputs /\ b.n <= a.n
                    /\ (a.stop => b.stop) /\ (~ b.stop => b.n # 0)
                    /\ \/ Stops(a, b, computed, f)
                       \/ Skips(a, b, computed, f) /\ ~ a.stop
                       \/ Refers(b.cache, r, f.hash) /\ ~ b.stop
                       \/ f.hash \in b.inputs /\ ~ b.stop
                       \/ ~ Embeds(f, computed, computed + b.n) /\ ~ b.stop
                    /\ \/ Stops(a, b, computed, f)
                       \/ /\ b.n = a.n
                          /\ \/ ~ Passed(f, computed) /\ ~ a.stop /\ a.n # 0
                             \/ NoneNew(a.cache, b.cache)
<1>6. Round
  <2>1. CASE Stops(a, b, computed, f)
    <3>1. b = [a EXCEPT !.stop = TRUE, !.n = b.n] /\ b.n \in 0..a.n BY Zenon, <2>1 DEF Stops
    <3>2. b.cache = a.cache /\ b.inputs = a.inputs /\ b.stop = TRUE BY Zenon, <1>4, <3>1 DEF Attempt
    <3> QED BY ONLY <1>5, <2>1, <3>1, <3>2, GrowsSame
  <2>2. CASE Skips(a, b, computed, f) /\ ~ a.stop
    <3>1. b = a BY Zenon, <2>2 DEF Skips
    <3> QED BY ONLY <1>5, <2>2, <3>1, GrowsSame DEF NoneNew
  <2>3. CASE Finds(a, b, r, computed, f) /\ ~ a.stop
    <3> DEFINE m == UpdateCache(a.cache, r, f.hash)
    <3>1. /\ f.hash \in DOMAIN a.cache.cached /\ ~ Passed(f, computed)
          /\ b = [a EXCEPT !.cache = m]
      BY <2>3, Zenon DEF Finds
    <3>2. /\ m.freed = a.cache.freed
          /\ m.cached = [a.cache.cached EXCEPT ![f.hash] = a.cache.cached[f.hash] \union {r}]
      <4>1. f.hash \in DOMAIN a.cache.cached /\ f.hash \in InputsOf(r) BY Zenon, <1>1, <3>1
      <4> QED BY <1>4, <4>1, UpdateBooks
    <3> HIDE DEF m
    <3>3. b.cache = m /\ b.inputs = a.inputs /\ b.n = a.n /\ b.stop = a.stop
      BY Zenon, <1>4, <3>1 DEF Attempt
    <3>4. Grows(a.cache, m, r) BY Zenon, <3>1, <3>2, GrowsSame, GrowsUpdate
    <3>5. Refers(m, r, f.hash) BY Zenon, <3>1, <3>2 DEF Refers
    <3> QED BY ONLY <1>5, <2>3, <3>1, <3>3, <3>4, <3>5
  <2>4. CASE Takes(a, b, computed, f) /\ ~ a.stop
    <3> DEFINE need == NumEmbeds[f.hash] + Sizes(a.inputs)
               m == MakeRoom(a.cache, need)
    <3>1. /\ need <= a.cache.num_free_slots \/ need <= a.cache.num_freeable_slots
          /\ b.cache = m /\ b.n = a.n /\ b.stop = a.stop
          /\ a.inputs \subseteq b.inputs
          /\ f.hash \in b.inputs \/ ~ Embeds(f, computed, computed + b.n)
      BY Zenon, <2>4 DEF Takes
    <3>2. need \in Nat
      <4>1. f.hash \in Hash /\ a.inputs \in SUBSET Hash BY Zenon, <1>1, <1>4 DEF Feature, Attempt
      <4>2. NumEmbeds[f.hash] \in Nat BY Zenon, <4>1, SizesOne
      <4>3. Sizes(a.inputs) \in Nat BY Zenon, <4>1, SizesType
      <4> QED BY ONLY <4>2, <4>3
    <3>3. Evicts(a.cache, m) BY Zenon, <1>4, <3>1, <3>2, MakeRoomBooks
    <3> HIDE DEF need
    <3> HIDE DEF m
    <3>4. Grows(a.cache, m, r) BY Zenon, <3>3, GrowsSame, GrowsEvicts
    <3>5. NoneNew(a.cache, m) BY Zenon, <3>3 DEF Evicts, NoneNew
    <3> QED BY ONLY <1>5, <2>4, <3>1, <3>4, <3>5
  <2> QED BY Zenon, <1>1, <1>2, <1>4, <2>1, <2>2, <2>3, <2>4, TryCases
<1>7. config.shift = 0 => Provided(r, computed, b, i + 1)
  BY Zenon, <1>4, <1>6, RoundProvides DEF LoopOK, f
<1>8. config.shift = 0 /\ Apart => ForTokens(c, r, computed, b, i + 1)
  <2>1. DOMAIN b.cache.cached \subseteq DOMAIN a.cache.cached BY Zenon, <1>6 DEF Grows
  <2> QED BY Zenon, <1>4, <1>6, <2>1, RoundForTokens DEF LoopOK, f
<1> QED BY Zenon, <1>3, <1>5, <1>6, <1>7, <1>8 DEF LoopOK

\* One round of TrySchedule.
TryRound(r, computed, n, F, i) ==
    IF i = 0 THEN [cache |-> cache, n |-> n, budget |-> step.budget,
                   inputs |-> {}, stop |-> n = 0]
    ELSE The({TryInput(r, computed, a, Features[r][i]) : a \in {F[i - 1]}})

\* A round of the loop in _try_schedule_encoder_inputs.
LEMMA TryRoundIs ==
  ASSUME NEW r, NEW computed, NEW n, NEW F, NEW i \in Nat \ {0}
  PROVE  TryRound(r, computed, n, F, i) = TryInput(r, computed, F[i - 1], Features[r][i])
<1> DEFINE v == TryInput(r, computed, F[i - 1], Features[r][i])
<1>1. {TryInput(r, computed, a, Features[r][i]) : a \in {F[i - 1]}} = {v} BY Zenon
<1> HIDE DEF v
<1>2. TryRound(r, computed, n, F, i) = The({v}) BY Zenon, <1>1 DEF TryRound
<1>3. The({v}) = v BY Zenon DEF The
<1> QED BY Zenon, <1>2, <1>3 DEF v

\* F is the function that the loop's rounds define.
Solves(F, r, computed, n, len) == F = [i \in 0..len |-> TryRound(r, computed, n, F, i)]

\* The recursive definition inside TrySchedule has a solution.
LEMMA TryExists ==
  ASSUME Facts, NEW r, NEW computed, NEW n, NEW len \in Nat
  PROVE  \E F : Solves(F, r, computed, n, len)
<1> DEFINE Ok(m) == \E F : F = [i \in 0..m |-> TryRound(r, computed, n, F, i)]
           T == {m \in 0..len : Ok(m)}
           first == TryRound(r, computed, n, << >>, 0)
<1>1. Ok(0)
  <2> DEFINE F == [i \in 0..0 |-> first]
  <2>1. \A i \in 0..0 : TryRound(r, computed, n, F, i) = first BY DEF TryRound
  <2> HIDE DEF first
  <2>2. F = [i \in 0..0 |-> TryRound(r, computed, n, F, i)] BY Zenon, <2>1
  <2> QED BY Zenon, <2>2
<1>2. ASSUME NEW m \in 0..(len - 1), Ok(m) PROVE Ok(m + 1)
  <2>1. PICK F : F = [i \in 0..m |-> TryRound(r, computed, n, F, i)] BY Zenon, <1>2
  <2> DEFINE G == [i \in 0..(m + 1) |-> IF i <= m THEN F[i]
                                        ELSE TryRound(r, computed, n, F, i)]
  <2>2. ASSUME NEW i \in 0..(m + 1) PROVE G[i] = TryRound(r, computed, n, G, i)
    <3>1. G[i] = TryRound(r, computed, n, F, i) BY ONLY <2>1
    <3>2. CASE i = 0 BY Zenon, <3>1, <3>2 DEF TryRound
    <3>3. CASE i # 0
      <4>1. i - 1 \in 0..m /\ i \in Nat \ {0} BY ONLY <3>3
      <4>2. G[i - 1] = F[i - 1] BY ONLY <4>1
      <4> HIDE DEF G
      <4> QED BY Zenon, <3>1, <3>3, <4>2 DEF TryRound
    <3> QED BY Zenon, <3>2, <3>3
  <2>3. G = [i \in 0..(m + 1) |-> TryRound(r, computed, n, G, i)]
    <3>1. DOMAIN G = 0..(m + 1) /\ G = [i \in 0..(m + 1) |-> G[i]] BY Zenon
    <3> HIDE DEF G
    <3> QED BY Zenon, <2>2, <3>1
  <2> HIDE DEF G
  <2> QED BY Zenon, <2>3
<1>3. \A m \in 0..len : m \in T
  <2>1. 0 \in T BY ONLY <1>1
  <2>2. \A m \in 0..(len - 1) : m \in T => m + 1 \in T
    <3> HIDE DEF Ok
    <3> QED BY ONLY <1>2
  <2> HIDE DEF T
  <2> QED BY <2>1, <2>2, Zenon DEF Facts, IntervalInduction
<1> HIDE DEF Ok
<1>4. Ok(len) BY ONLY <1>3
<1> QED BY Zenon, <1>4 DEF Ok, Solves

\* What the loop as a whole leaves.
LEMMA TryScheduleOK ==
  ASSUME Facts, config.shift \in {0, 1}, Books(cache), step.budget \in Nat,
         NEW r \in Req, NEW computed \in Nat, NEW n \in Nat,
         NEW t, t = TrySchedule(r, computed, n)
  PROVE  LoopOK(cache, r, computed, n, step.budget, t, Len(Features[r]))
<1> DEFINE len == Len(Features[r])
           F == CHOOSE G : G = [i \in 0..len |-> TryRound(r, computed, n, G, i)]
           Good(k) == LoopOK(cache, r, computed, n, step.budget, F[k], k)
           T == {k \in 0..len : Good(k)}
<1>0. len \in Nat /\ DOMAIN Features[r] = 1..len BY Zenon, EncoderAssumption
  DEF Facts, LenProperties
<1>1. F = [i \in 0..len |-> TryRound(r, computed, n, F, i)]
  <2>1. \E G : G = [i \in 0..len |-> TryRound(r, computed, n, G, i)]
    <3>1. \E G : Solves(G, r, computed, n, len) BY Zenon, <1>0, TryExists
    <3> QED BY Zenon, <3>1 DEF Solves
  <2> QED BY Zenon, <2>1
<1>2. t = F[len] BY Zenon DEF TrySchedule, TryRound
<1> HIDE DEF F
<1>3. \A i \in 0..len : F[i] = TryRound(r, computed, n, F, i) BY Zenon, <1>1
<1>4. Good(0)
  <2> DEFINE a == F[0]
  <2>0. F[0] = TryRound(r, computed, n, F, 0) BY ONLY <1>0, <1>3
  <2>1. a = [cache |-> cache, n |-> n, budget |-> step.budget, inputs |-> {}, stop |-> n = 0]
    BY <2>0, Zenon DEF TryRound
  <2> HIDE DEF a
  <2>2. /\ a.cache = cache /\ a.n = n /\ a.budget = step.budget /\ a.inputs = {}
        /\ a.stop = (n = 0)
    BY Zenon, <2>1
  <2>3. a \in Attempt BY <2>1 DEF Attempt, Books
  <2>4. cache.num_free_slots \in Nat BY Zenon, BooksFacts DEF BooksSay
  <2>5. TryOK(cache, r, n, step.budget, a) BY <2>2, <2>3, <2>4, SizesNone, GrowsSame DEF TryOK
  <2>6. Provided(r, computed, a, 0)
    <3> SUFFICES ASSUME NEW j \in DOMAIN Features[r], j <= 0 \/ a.stop,
                        Embeds(Features[r][j], computed, computed + a.n)
                 PROVE  FALSE
      BY Zenon DEF Provided
    <3>1. a.stop BY <1>0
    <3>2. n = 0 BY <2>2, <3>1, Zenon
    <3>4. computed + a.n = computed BY ONLY <2>2, <3>2
    <3>3. /\ Features[r][j].offset \in Nat
          /\ \A p \in Features[r][j].embeds : p \in Nat
      BY Zenon, FeatureFacts
    <3> QED BY <3>3, <3>4 DEF Embeds
  <2>7. ForTokens(cache, r, computed, a, 0) BY Zenon, <2>2 DEF ForTokens, NoneNew
  <2> QED BY Zenon, <2>2, <2>5, <2>6, <2>7 DEF LoopOK, a
<1>5. ASSUME NEW k \in 0..(len - 1), Good(k) PROVE Good(k + 1)
  <2>0. /\ k \in Nat /\ k + 1 \in DOMAIN Features[r] /\ k + 1 \in Nat \ {0}
        /\ (k + 1) - 1 = k /\ k + 1 \in 0..len
    BY ONLY <1>0
  <2>1. F[k + 1] = TryInput(r, computed, F[k], Features[r][k + 1])
    <3>1. TryRound(r, computed, n, F, k + 1)
            = TryInput(r, computed, F[(k + 1) - 1], Features[r][k + 1])
      BY Zenon, <2>0, TryRoundIs
    <3>2. F[k + 1] = TryRound(r, computed, n, F, k + 1) BY Zenon, <1>3, <2>0
    <3> QED BY Zenon, <2>0, <3>1, <3>2
  <2> QED BY Zenon, <1>5, <2>0, <2>1, RoundOK
<1>6. \A k \in 0..len : k \in T
  <2>1. 0 \in T BY ONLY <1>0, <1>4
  <2>2. \A k \in 0..(len - 1) : k \in T => k + 1 \in T
    <3> HIDE DEF Good
    <3> QED BY ONLY <1>0, <1>5
  <2> HIDE DEF T
  <2> QED BY <1>0, <2>1, <2>2, Zenon DEF Facts, IntervalInduction
<1> HIDE DEF Good
<1>7. Good(len) BY ONLY <1>0, <1>6
<1> QED BY Zenon, <1>2, <1>7 DEF Good

-----------------------------------------------------------------------------
(* free, and update_from_output *)

\* From c to m some references are given up, and nothing else changes.
Shrinks(c, m) ==
    /\ DOMAIN m.cached = DOMAIN c.cached
    /\ \A h \in DOMAIN c.cached : m.cached[h] \subseteq c.cached[h]
    /\ m.num_free_slots = c.num_free_slots /\ m.freed = c.freed

\* The hashes of a prompt's inputs.
LEMMA HashesType ==
  ASSUME Facts, NEW r \in Req
  PROVE  /\ HashesOf(r) \in Seq(Hash) /\ DOMAIN HashesOf(r) = DOMAIN Features[r]
         /\ {HashesOf(r)[i] : i \in DOMAIN Features[r] \cap DOMAIN HashesOf(r)} = InputsOf(r)
<1>1. Features[r] \in Seq(Feature) BY Zenon, EncoderAssumption
<1>2. DOMAIN Features[r] = 1..Len(Features[r]) /\ Len(Features[r]) \in Nat
  BY Zenon, <1>1 DEF Facts, LenProperties
<1>3. DOMAIN HashesOf(r) = DOMAIN Features[r] BY Zenon DEF HashesOf
<1>4. \A i \in 1..Len(Features[r]) : HashesOf(r)[i] \in Hash BY Zenon, <1>2, FeatureFacts DEF HashesOf
<1>5. HashesOf(r) \in [1..Len(Features[r]) -> Hash] BY Zenon, <1>2, <1>4 DEF HashesOf
<1>6. HashesOf(r) \in Seq(Hash) BY ONLY <1>2, <1>5
<1> QED BY Zenon, <1>3, <1>6 DEF InputsOf, Range

\* free: the request refers to nothing any more.
LEMMA FreeBooks ==
  ASSUME Facts, NEW c, Books(c), NEW r \in Req, NEW m, m = Free(c, r)
  PROVE  /\ Books(m) /\ Shrinks(c, m)
         /\ \A h \in DOMAIN c.cached : m.cached[h] = c.cached[h] \ {r}
<1>1. Books(m) /\ Releases(c, m, r, InputsOf(r))
  <2>1. HashesOf(r) \in Seq(Hash) BY Zenon, HashesType
  <2>2. m = FreeInputs(c, r, HashesOf(r), DOMAIN Features[r]) BY Zenon DEF Free
  <2> QED BY <2>1, <2>2, FreeInputsBooks, HashesType
<1>2. ASSUME NEW h \in DOMAIN c.cached PROVE m.cached[h] = c.cached[h] \ {r}
  <2>1. CASE h \in InputsOf(r) BY Zenon, <1>1, <2>1 DEF Releases
  <2>2. CASE h \notin InputsOf(r)
    <3>1. m.cached[h] = c.cached[h] BY Zenon, <1>1, <2>2 DEF Releases
    <3>2. r \notin c.cached[h] BY Zenon, <2>2 DEF Books, OwnInputs
    <3> QED BY Zenon, <3>1, <3>2
  <2> QED BY Zenon, <2>1, <2>2
<1> QED BY Zenon, <1>1, <1>2 DEF Shrinks, Releases

\* The request of e refers to nothing any more if the entry ends it.
LEMMA FreedByBooks ==
  ASSUME Facts, NEW c, Books(c), NEW e, e.req \in Req, NEW m, m = FreedBy(c, e)
  PROVE  /\ Books(m) /\ Shrinks(c, m)
         /\ e.start + e.n >= NumTokens[e.req] /\ req[e.req].status # "done"
            => \A h \in DOMAIN c.cached : e.req \notin m.cached[h]
<1> DEFINE r == e.req
           ends == e.start + e.n >= NumTokens[r]
           over == {i \in DOMAIN Features[r] : Over(r, Features[r][i], ends)}
<1>1. CASE req[r].status = "done"
  <2>1. m = c BY Zenon, <1>1 DEF FreedBy
  <2> QED BY Zenon, <1>1, <2>1 DEF Shrinks
<1>2. CASE req[r].status # "done" /\ ~ ends
  <2>1. m = FreeInputs(c, r, HashesOf(r), over) BY Zenon, <1>2 DEF FreedBy
  <2>2. HashesOf(r) \in Seq(Hash) BY Zenon, HashesType
  <2> HIDE DEF over, r
  <2>3. r \in Req BY Zenon DEF r
  <2>4. PICK H : Books(m) /\ Releases(c, m, r, H) BY Zenon, <2>1, <2>2, <2>3, FreeInputsBooks
  <2>5. Shrinks(c, m) BY Zenon, <2>4 DEF Shrinks, Releases
  <2> QED BY Zenon, <1>2, <2>4, <2>5 DEF r
<1>3. CASE req[r].status # "done" /\ ends
  <2>1. over = DOMAIN Features[r] BY Zenon, <1>3 DEF Over
  <2>2. m = Free(c, r) BY Zenon, <1>3, <2>1 DEF FreedBy, Free
  <2> HIDE DEF over, r
  <2>3. r \in Req BY Zenon DEF r
  <2>4. Books(m) /\ Shrinks(c, m) /\ \A h \in DOMAIN c.cached : m.cached[h] = c.cached[h] \ {r}
    BY <2>2, <2>3, FreeBooks
  <2>5. \A h \in DOMAIN c.cached : r \notin m.cached[h] BY Zenon, <2>4
  <2> QED BY Zenon, <2>4, <2>5 DEF r
<1> QED BY Zenon, <1>1, <1>2, <1>3

\* One round of the loop of update_from_output.
UpdateRound(entries, F, i) ==
    IF i = 0 THEN cache ELSE The({FreedBy(c, entries[i]) : c \in {F[i - 1]}})

\* A round of the loop in update_from_output().
LEMMA UpdateRoundIs ==
  ASSUME NEW entries, NEW F, NEW i \in Nat \ {0}
  PROVE  UpdateRound(entries, F, i) = FreedBy(F[i - 1], entries[i])
<1> DEFINE v == FreedBy(F[i - 1], entries[i])
<1>1. {FreedBy(c, entries[i]) : c \in {F[i - 1]}} = {v} BY Zenon
<1> HIDE DEF v
<1>2. UpdateRound(entries, F, i) = The({v}) BY Zenon, <1>1 DEF UpdateRound
<1>3. The({v}) = v BY Zenon DEF The
<1> QED BY Zenon, <1>2, <1>3 DEF v

\* The recursive definition inside Update has a solution.
LEMMA UpdateExists ==
  ASSUME Facts, NEW entries, NEW len \in Nat
  PROVE  \E F : F = [i \in 0..len |-> UpdateRound(entries, F, i)]
<1> DEFINE Ok(m) == \E F : F = [i \in 0..m |-> UpdateRound(entries, F, i)]
           T == {m \in 0..len : Ok(m)}
<1>1. Ok(0)
  <2> DEFINE F == [i \in 0..0 |-> cache]
  <2>1. \A i \in 0..0 : UpdateRound(entries, F, i) = cache BY DEF UpdateRound
  <2>2. F = [i \in 0..0 |-> UpdateRound(entries, F, i)] BY Zenon, <2>1
  <2> QED BY Zenon, <2>2
<1>2. ASSUME NEW m \in 0..(len - 1), Ok(m) PROVE Ok(m + 1)
  <2>1. PICK F : F = [i \in 0..m |-> UpdateRound(entries, F, i)] BY Zenon, <1>2
  <2> DEFINE G == [i \in 0..(m + 1) |-> IF i <= m THEN F[i] ELSE UpdateRound(entries, F, i)]
  <2>2. ASSUME NEW i \in 0..(m + 1) PROVE G[i] = UpdateRound(entries, G, i)
    <3>1. G[i] = UpdateRound(entries, F, i) BY ONLY <2>1
    <3>2. CASE i = 0 BY Zenon, <3>1, <3>2 DEF UpdateRound
    <3>3. CASE i # 0
      <4>1. i - 1 \in 0..m /\ i \in Nat \ {0} BY ONLY <3>3
      <4>2. G[i - 1] = F[i - 1] BY ONLY <4>1
      <4> HIDE DEF G
      <4> QED BY Zenon, <3>1, <3>3, <4>2 DEF UpdateRound
    <3> QED BY Zenon, <3>2, <3>3
  <2>3. G = [i \in 0..(m + 1) |-> UpdateRound(entries, G, i)]
    <3>1. DOMAIN G = 0..(m + 1) /\ G = [i \in 0..(m + 1) |-> G[i]] BY Zenon
    <3> HIDE DEF G
    <3> QED BY Zenon, <2>2, <3>1
  <2> HIDE DEF G
  <2> QED BY Zenon, <2>3
<1>3. \A m \in 0..len : m \in T
  <2>1. 0 \in T BY ONLY <1>1
  <2>2. \A m \in 0..(len - 1) : m \in T => m + 1 \in T
    <3> HIDE DEF Ok
    <3> QED BY ONLY <1>2
  <2> HIDE DEF T
  <2> QED BY <2>1, <2>2, Zenon DEF Facts, IntervalInduction
<1> HIDE DEF Ok
<1>4. Ok(len) BY ONLY <1>3
<1> QED BY Zenon, <1>4 DEF Ok

\* What the loop of update_from_output has given up after k entries.
Given(entries, m, k) ==
    /\ Books(m) /\ Shrinks(cache, m)
    /\ \A i \in 1..k :
         LET e == entries[i]
         IN  e.start + e.n >= NumTokens[e.req] /\ req[e.req].status # "done"
               => \A h \in DOMAIN cache.cached : e.req \notin m.cached[h]

\* After all rounds every entry has released what it needs no more.
LEMMA UpdateLoop ==
  ASSUME Facts, Books(cache), NEW entries, Len(entries) \in Nat,
         \A i \in 1..Len(entries) : entries[i].req \in Req,
         NEW m,
         m = LET free[i \in 0..Len(entries)] ==
                   IF i = 0 THEN cache
                   ELSE The({FreedBy(c, entries[i]) : c \in {free[i - 1]}})
             IN  free[Len(entries)]
  PROVE  Given(entries, m, Len(entries))
<1> DEFINE len == Len(entries)
           F == CHOOSE G : G = [i \in 0..len |-> UpdateRound(entries, G, i)]
           Good(k) == Given(entries, F[k], k)
           T == {k \in 0..len : Good(k)}
<1>1. F = [i \in 0..len |-> UpdateRound(entries, F, i)] BY Zenon, UpdateExists
<1>2. m = F[len] BY Zenon DEF UpdateRound
<1> HIDE DEF F
<1>3. \A i \in 0..len : F[i] = UpdateRound(entries, F, i) BY Zenon, <1>1
<1>4. Good(0)
  <2>0. F[0] = UpdateRound(entries, F, 0) BY ONLY <1>3
  <2>1. F[0] = cache BY <2>0, Zenon DEF UpdateRound
  <2> QED BY <2>1 DEF Given, Shrinks
<1>5. ASSUME NEW k \in 0..(len - 1), Good(k) PROVE Good(k + 1)
  <2>0. k + 1 \in 1..len /\ k + 1 \in Nat \ {0} /\ (k + 1) - 1 = k OBVIOUS
  <2>1. F[k + 1] = FreedBy(F[k], entries[k + 1]) BY ONLY <1>3, <2>0, UpdateRoundIs
  <2> DEFINE e == entries[k + 1]
             c == F[k]
             d == F[k + 1]
             ends(x) == x.start + x.n >= NumTokens[x.req] /\ req[x.req].status # "done"
  <2>2. e.req \in Req /\ Books(c) /\ Shrinks(cache, c) BY Zenon, <1>5, <2>0 DEF Given
  <2>3. d = FreedBy(c, e) BY Zenon, <2>1
  <2> HIDE DEF e, c, d
  <2>4. /\ Books(d) /\ Shrinks(c, d)
        /\ ends(e) => \A h \in DOMAIN c.cached : e.req \notin d.cached[h]
    BY Zenon, <2>2, <2>3, FreedByBooks
  <2>5. Shrinks(cache, d) BY Zenon, <2>2, <2>4 DEF Shrinks
  <2>6. ASSUME NEW i \in 1..(k + 1), ends(entries[i]), NEW h \in DOMAIN cache.cached
        PROVE  entries[i].req \notin d.cached[h]
    <3>1. CASE i = k + 1 BY Zenon, <2>2, <2>4, <2>6, <3>1 DEF e, Shrinks
    <3>2. CASE i \in 1..k
      <4>1. entries[i].req \notin c.cached[h] BY Zenon, <1>5, <2>6, <3>2 DEF Given, c
      <4> QED BY Zenon, <2>2, <2>4, <4>1 DEF Shrinks
    <3> QED BY ONLY <3>1, <3>2
  <2> QED BY Zenon, <2>4, <2>5, <2>6 DEF Given, d
<1>6. \A k \in 0..len : k \in T
  <2>1. 0 \in T BY ONLY <1>4
  <2>2. \A k \in 0..(len - 1) : k \in T => k + 1 \in T
    <3> HIDE DEF Good
    <3> QED BY ONLY <1>5
  <2> HIDE DEF T
  <2> QED BY <2>1, <2>2, Zenon DEF Facts, IntervalInduction
<1> HIDE DEF Good
<1>7. Good(len) BY ONLY <1>6
<1> QED BY Zenon, <1>2, <1>7 DEF Good

-----------------------------------------------------------------------------
(* The inductive invariant *)

Entry == [req : Req, start : Nat, n : Nat, inputs : SUBSET Hash]
Try == [req : Req, n : Nat, budget : Nat, inputs : SUBSET Hash]

StepType ==
    [pc : {"idle", "running", "allocate", "waiting", "finish", "update"},
     next : Nat, tokens : Nat, budget : Nat, entries : Seq(Entry),
     preempted : BOOLEAN, try : {NoTry} \union Try]

\* The requests of some of the step's entries, and their tokens, embeddings and
\* inputs.
Reqs(E) == {e.req : e \in E}
TokensOf(E) == UNION {{e.req} \X (1..e.n) : e \in E}
EmbedsOf(E) == UNION {{e.req} \X Slots(e.inputs) : e \in E}
Inputs(E) == UNION {e.inputs : e \in E}

\* Running and waiting requests have that status, and no request runs twice.
QueuesOK(q, w, run) ==
    /\ q \in [Req -> [status : {"new", "waiting", "running", "done"}, num_computed : Nat]]
    /\ \A r \in Req : q[r].num_computed <= NumTokens[r]
    /\ w \in Seq(Req) /\ \A r \in Range(w) : q[r].status = "waiting"
    /\ run \in Seq(Req) /\ IsInjective(run)
    /\ \A r \in Range(run) : q[r].status = "running"

\* The entries of the step are of different running requests and keep their inputs.
EntriesOK(c, E, q, run) ==
    /\ \A e, f \in E : e.req = f.req => e = f
    /\ Reqs(E) \subseteq Range(run)
    /\ \A e \in E :
         /\ e.start = q[e.req].num_computed /\ e.start + e.n <= NumTokens[e.req]
         /\ \A h \in e.inputs : Refers(c, e.req, h)

\* What the step computes and what is left of the budgets.
WithinBudget(s) ==
    LET E == Range(s.entries)
    IN  /\ s.tokens + Cardinality(TokensOf(E)) <= TokenBudget
        /\ s.budget + Cardinality(EmbedsOf(E)) <= ComputeBudget

\* The loop over the running requests is behind those that are in the step.
PlaceOK(s, run) ==
    /\ s.pc \in {"running", "allocate"} =>
         /\ s.next >= 1
         /\ \A j \in DOMAIN run : run[j] \in Reqs(Range(s.entries)) => j < s.next
    /\ s.pc = "allocate" => \A j \in DOMAIN run : run[j] = s.try.req => j <= s.next

\* What allocate_slots was called for can still be done.
TryStands(c, s, q, run) ==
    s.pc = "allocate" =>
      LET t == s.try
      IN  /\ t \in Try
          /\ t.req \in Range(run) /\ t.req \notin Reqs(Range(s.entries))
          /\ t.n <= s.tokens /\ q[t.req].num_computed + t.n <= NumTokens[t.req]
          /\ t.budget + Sizes(t.inputs) <= s.budget
          /\ t.inputs \subseteq InputsOf(t.req) /\ t.inputs \cap DOMAIN c.cached = {}
          /\ Sizes(t.inputs) <= c.num_free_slots

Core(c, s, q, w, run) ==
    /\ Books(c) /\ QueuesOK(q, w, run) /\ s \in StepType
    /\ EntriesOK(c, Range(s.entries), q, run) /\ WithinBudget(s)
    /\ PlaceOK(s, run) /\ TryStands(c, s, q, run)

\* Between steps there is nothing left of the last one.
Quiet ==
    IF step.pc \in {"idle", "update"}
    THEN step = [Idle EXCEPT !.pc = step.pc] /\ cache.freed = {}
    ELSE Len(batches) < config.depth

RestOK ==
    /\ config \in Configs
    /\ batches \in Seq(Seq(Entry)) /\ Len(batches) <= config.depth
    /\ worker \in SUBSET Hash /\ missed \in BOOLEAN /\ shortages \in 0..MaxShortages

\* In order of arrival, the loop over the running requests stays where it is when
\* the last of them loses its blocks ...
InPlace(s, run) ==
    s.pc = "allocate" => s.next \in DOMAIN run /\ run[s.next] = s.try.req

\* ... and the worker will have what the manager believes is cached.
InStep(c, s, wk) ==
    DOMAIN c.cached = (wk \ c.freed) \union Inputs(Range(s.entries))

\* Without drafts, the requests in the step refer to all they need.
NeedsMet(c, s, q) ==
    /\ \A e \in Range(s.entries) : Needs(c, e.req, e.start, e.n, {})
    /\ s.pc = "allocate" =>
         Needs(c, s.try.req, q[s.try.req].num_computed, s.try.n, s.try.inputs)

\* Only running requests refer to outputs.
Pinned(c, run) == \A h \in DOMAIN c.cached : c.cached[h] \subseteq Range(run)

Fcfs == config.policy = "fcfs"
NoDrafts == config.shift = 0

Inv ==
    /\ Core(cache, step, req, waiting, running) /\ RestOK /\ Quiet
    /\ Fcfs => InPlace(step, running) /\ InStep(cache, step, worker)
    /\ NoDrafts => NeedsMet(cache, step, req)
    /\ NoDrafts /\ Apart => Pinned(cache, running)
    /\ Fcfs /\ NoDrafts => ~ missed

(* What the entries of a step add up to *)

\* Pairs with one first component.
LEMMA CardPairs ==
  ASSUME Facts, NEW q, NEW B, IsFiniteSet(B), NEW P, P = {q} \X B
  PROVE  IsFiniteSet(P) /\ Cardinality(P) = Cardinality(B)
<1>1. IsFiniteSet({q}) /\ Cardinality({q}) = 1 BY Zenon DEF Facts, FiniteSingleton
<1>2. /\ IsFiniteSet({q} \X B)
      /\ Cardinality({q} \X B) = Cardinality({q}) * Cardinality(B)
  BY Zenon, <1>1 DEF Facts, FiniteProduct
<1>3. Cardinality(B) \in Nat BY Zenon DEF Facts, FiniteCardinality
<1> QED BY <1>1, <1>2, <1>3

\* The cardinality of a disjoint union.
LEMMA CardDisjoint ==
  ASSUME Facts, NEW A, IsFiniteSet(A), NEW P, IsFiniteSet(P), A \cap P = {}
  PROVE  /\ Cardinality(A \union P) = Cardinality(A) + Cardinality(P)
         /\ Cardinality(A) \in Nat /\ Cardinality(P) \in Nat
<1>1. Cardinality(A) \in Nat /\ Cardinality(P) \in Nat BY Zenon DEF Facts, FiniteCardinality
<1>2. Cardinality(A \union P) = Cardinality(A) + Cardinality(P) - Cardinality(A \cap P)
  BY Zenon DEF Facts, FiniteUnion
<1>3. Cardinality(A \cap P) = 0 BY Zenon DEF Facts, FiniteEmpty
<1> QED BY ONLY <1>1, <1>2, <1>3

\* The tokens and the embeddings of finitely many entries are finitely many.
LEMMA SumsFinite ==
  ASSUME Facts, NEW E \in SUBSET Entry, IsFiniteSet(E)
  PROVE  /\ IsFiniteSet(TokensOf(E)) /\ IsFiniteSet(EmbedsOf(E))
         /\ Cardinality(TokensOf(E)) \in Nat /\ Cardinality(EmbedsOf(E)) \in Nat
<1>1. \A e \in E : IsFiniteSet({e.req} \X (1..e.n)) /\ IsFiniteSet({e.req} \X Slots(e.inputs))
  <2> TAKE e \in E
  <2>1. e.n \in Nat /\ e.inputs \in SUBSET Hash BY Zenon DEF Entry
  <2>2. IsFiniteSet(1..e.n) BY <2>1 DEF Facts, FiniteInterval
  <2>3. IsFiniteSet(Slots(e.inputs)) BY Zenon, <2>1, SlotsFinite
  <2>4. IsFiniteSet({e.req}) BY Zenon DEF Facts, FiniteSingleton
  <2> QED BY Zenon, <2>2, <2>3, <2>4 DEF Facts, FiniteProduct
<1>2. /\ IsFiniteSet({{e.req} \X (1..e.n) : e \in E})
      /\ IsFiniteSet({{e.req} \X Slots(e.inputs) : e \in E})
  <2>1. \A S : S = {{e.req} \X (1..e.n) : e \in E} => IsFiniteSet(S)
    <3> SUFFICES ASSUME NEW S, S = {{e.req} \X (1..e.n) : e \in E} PROVE IsFiniteSet(S)
      BY Zenon
    <3> DEFINE f == [e \in E |-> {e.req} \X (1..e.n)]
    <3>1. f \in Surjection(E, S) BY Zenon DEF Surjection
    <3> QED BY Zenon, <3>1 DEF Facts, FiniteImage
  <2>2. \A S : S = {{e.req} \X Slots(e.inputs) : e \in E} => IsFiniteSet(S)
    <3> SUFFICES ASSUME NEW S, S = {{e.req} \X Slots(e.inputs) : e \in E} PROVE IsFiniteSet(S)
      BY Zenon
    <3> DEFINE f == [e \in E |-> {e.req} \X Slots(e.inputs)]
    <3>1. f \in Surjection(E, S) BY Zenon DEF Surjection
    <3> QED BY Zenon, <3>1 DEF Facts, FiniteImage
  <2> QED BY Zenon, <2>1, <2>2
<1>3. IsFiniteSet(TokensOf(E)) BY Zenon, <1>1, <1>2 DEF TokensOf, Facts, FiniteUNION
<1>4. IsFiniteSet(EmbedsOf(E)) BY Zenon, <1>1, <1>2 DEF EmbedsOf, Facts, FiniteUNION
<1> QED BY Zenon, <1>3, <1>4 DEF Facts, FiniteCardinality

\* One more entry, of another request, adds its tokens and embeddings.
LEMMA SumsAdd ==
  ASSUME Facts, NEW E \in SUBSET Entry, IsFiniteSet(E), NEW e \in Entry, e.req \notin Reqs(E)
  PROVE  /\ Cardinality(TokensOf(E \union {e})) = Cardinality(TokensOf(E)) + e.n
         /\ Cardinality(EmbedsOf(E \union {e})) = Cardinality(EmbedsOf(E)) + Sizes(e.inputs)
         /\ Cardinality(TokensOf(E)) \in Nat /\ Cardinality(EmbedsOf(E)) \in Nat
         /\ e.n \in Nat /\ Sizes(e.inputs) \in Nat
<1>1. e.n \in Nat /\ e.inputs \in SUBSET Hash BY Zenon DEF Entry
<1>2. /\ IsFiniteSet(TokensOf(E)) /\ IsFiniteSet(EmbedsOf(E))
      /\ Cardinality(TokensOf(E)) \in Nat /\ Cardinality(EmbedsOf(E)) \in Nat
  BY Zenon, SumsFinite
<1> DEFINE P == {e.req} \X (1..e.n)
           Q == {e.req} \X Slots(e.inputs)
<1>3. TokensOf(E \union {e}) = TokensOf(E) \union P BY Zenon DEF TokensOf
<1>4. EmbedsOf(E \union {e}) = EmbedsOf(E) \union Q BY Zenon DEF EmbedsOf
<1>5. TokensOf(E) \cap P = {} BY DEF TokensOf, Reqs
<1>6. EmbedsOf(E) \cap Q = {} BY DEF EmbedsOf, Reqs
<1>7. IsFiniteSet(1..e.n) /\ Cardinality(1..e.n) = e.n
  <2>1. /\ IsFiniteSet(1..e.n)
        /\ Cardinality(1..e.n) = IF 1 > e.n THEN 0 ELSE e.n - 1 + 1
    <3>1. 1 \in Int /\ e.n \in Int BY ONLY <1>1
    <3> QED BY Zenon, <3>1 DEF Facts, FiniteInterval
  <2> QED BY ONLY <1>1, <2>1
<1>8. IsFiniteSet(Slots(e.inputs)) BY Zenon, <1>1, SlotsFinite
<1>9. IsFiniteSet(P) /\ Cardinality(P) = e.n BY <1>7, CardPairs, ZenonT(30)
<1>10. IsFiniteSet(Q) /\ Cardinality(Q) = Sizes(e.inputs) BY <1>8, CardPairs, Zenon DEF Sizes
<1> HIDE DEF P, Q
<1>11. Cardinality(TokensOf(E \union {e})) = Cardinality(TokensOf(E)) + e.n
  BY Zenon, <1>2, <1>3, <1>5, <1>9, CardDisjoint
<1>12. Cardinality(EmbedsOf(E \union {e})) = Cardinality(EmbedsOf(E)) + Sizes(e.inputs)
  BY Zenon, <1>2, <1>4, <1>6, <1>10, CardDisjoint
<1> QED BY Zenon, <1>1, <1>2, <1>11, <1>12, SizesType

\* The elements of a sequence are finitely many.
LEMMA RangeFinite ==
  ASSUME Facts, NEW X, NEW s \in Seq(X)
  PROVE  IsFiniteSet(Range(s)) /\ Range(s) \in SUBSET X
<1>1. IsFiniteSet(1..Len(s)) BY DEF Facts, FiniteInterval
<1>2. s \in Surjection(1..Len(s), Range(s)) BY DEF Surjection, Range
<1> QED BY <1>1, <1>2 DEF Range, Facts, FiniteImage

(* What requests refer to from one state of the manager to the next *)

\* The requests in R go on referring to what they referred to.
Keeps(c, m, R) == \A r \in R : \A h \in DOMAIN c.cached : r \in c.cached[h] => Refers(m, r, h)

\* A cache that grows keeps all references.
LEMMA GrowsKeeps ==
  ASSUME NEW c, NEW m, NEW r, Grows(c, m, r), NEW R
  PROVE  Keeps(c, m, R)
BY Zenon DEF Grows, Keeps, Refers

\* Freeing what r refers to keeps the references of others.
LEMMA FreeKeeps ==
  ASSUME NEW c, NEW m, NEW r, Shrinks(c, m),
         \A h \in DOMAIN c.cached : m.cached[h] = c.cached[h] \ {r},
         NEW R, r \notin R
  PROVE  Keeps(c, m, R)
BY Zenon DEF Shrinks, Keeps, Refers

\* Entries stay right when the references of their requests are kept.
LEMMA EntriesKept ==
  ASSUME NEW c, NEW m, NEW E, NEW q, NEW run, EntriesOK(c, E, q, run),
         NEW E2 \in SUBSET E, Keeps(c, m, Reqs(E2)),
         NEW q2, \A r \in Reqs(E2) : q2[r].num_computed = q[r].num_computed,
         NEW run2, Reqs(E2) \subseteq Range(run2)
  PROVE  EntriesOK(m, E2, q2, run2)
<1>1. \A e \in E2 : e.req \in Reqs(E2) BY Zenon DEF Reqs
<1>2. \A e \in E2 : \A h \in e.inputs : Refers(m, e.req, h)
  BY Zenon, <1>1 DEF EntriesOK, Keeps, Refers
<1> QED BY Zenon, <1>1, <1>2 DEF EntriesOK

\* What tokens need is still there when the references of their request are kept.
LEMMA NeedsKept ==
  ASSUME NEW c, NEW m, NEW r, NEW start, NEW n, NEW inputs, Needs(c, r, start, n, inputs),
         Keeps(c, m, {r})
  PROVE  Needs(m, r, start, n, inputs)
BY Zenon DEF Needs, Keeps, Refers

\* What the entries of the step brought is not evicted.
LEMMA GrowsInStep ==
  ASSUME NEW c, NEW m, NEW r, Grows(c, m, r), NEW s, NEW s2, s2.entries = s.entries,
         NEW q, NEW run, EntriesOK(c, Range(s.entries), q, run), NEW wk, InStep(c, s, wk)
  PROVE  InStep(m, s2, wk)
<1>1. \A h \in Inputs(Range(s.entries)) : h \in DOMAIN c.cached /\ c.cached[h] # {}
  BY DEF Inputs, EntriesOK, Refers
<1>2. DOMAIN m.cached \subseteq DOMAIN c.cached /\ Inputs(Range(s.entries)) \subseteq DOMAIN m.cached
  BY Zenon, <1>1 DEF Grows
<1> QED BY Zenon, <1>2 DEF Grows, InStep

\* Freed references do not change the keys.
LEMMA ShrinksInStep ==
  ASSUME NEW c, NEW m, Shrinks(c, m), NEW s, NEW s2, s2.entries = s.entries, NEW wk,
         InStep(c, s, wk)
  PROVE  InStep(m, s2, wk)
BY Zenon DEF Shrinks, InStep

-----------------------------------------------------------------------------
(* Calls of _try_schedule_encoder_inputs *)

TryResult(c, s, r, computed, t) ==
    /\ Books(t.cache) /\ Grows(c, t.cache, r)
    /\ t.n \in Nat /\ t.budget \in Nat /\ t.inputs \in SUBSET Hash
    /\ t.n <= s.tokens /\ computed + t.n <= NumTokens[r]
    /\ t.budget + Sizes(t.inputs) <= s.budget
    /\ t.inputs \subseteq InputsOf(r) /\ t.inputs \cap DOMAIN t.cache.cached = {}
    /\ Sizes(t.inputs) <= t.cache.num_free_slots
    /\ NoDrafts => Needs(t.cache, r, computed, t.n, t.inputs)
    /\ NoDrafts /\ Apart /\ t.n = 0 => NoneNew(c, t.cache)

\* The values of the configuration that matter.
LEMMA ConfigFacts ==
  ASSUME RestOK
  PROVE  config.shift \in {0, 1} /\ config.depth \in {1, 2}
BY Zenon, EncoderAssumption DEF RestOK

\* What _try_schedule_encoder_inputs returns to schedule().
LEMMA TryCall ==
  ASSUME Facts, RestOK, Books(cache), step \in StepType, NEW r \in Req,
         NEW computed \in Nat, computed <= NumTokens[r],
         NEW t, t = TrySchedule(r, computed, NumNewTokens(r, computed))
  PROVE  TryResult(cache, step, r, computed, t)
<1> DEFINE n == NumNewTokens(r, computed)
<1>1. NumTokens[r] \in Nat /\ step.tokens \in Nat /\ step.budget \in Nat
  BY Zenon, EncoderAssumption DEF StepType
<1>2. n \in Nat /\ n <= step.tokens /\ computed + n <= NumTokens[r]
  BY <1>1, MinOfTwo DEF NumNewTokens
<1> HIDE DEF n
<1>3. LoopOK(cache, r, computed, n, step.budget, t, Len(Features[r]))
  BY Zenon, <1>1, <1>2, ConfigFacts, TryScheduleOK DEF n
<1>4. TryOK(cache, r, n, step.budget, t) BY Zenon, <1>3 DEF LoopOK
<1>5. /\ Books(t.cache) /\ Grows(cache, t.cache, r)
      /\ t.inputs \subseteq InputsOf(r) /\ t.inputs \cap DOMAIN t.cache.cached = {}
      /\ Sizes(t.inputs) <= t.cache.num_free_slots
  BY Zenon, <1>4 DEF TryOK
<1>6. /\ t.n \in Nat /\ t.budget \in Int /\ t.budget >= 0 /\ t.inputs \in SUBSET Hash
      /\ t.budget = step.budget - Sizes(t.inputs) /\ t.n <= n
  BY Zenon, <1>4 DEF TryOK, Attempt
<1>7. Sizes(t.inputs) \in Nat BY Zenon, <1>6, SizesType
<1>8. NoDrafts => Needs(t.cache, r, computed, t.n, t.inputs)
  <2>1. \A j \in DOMAIN Features[r] : j <= Len(Features[r]) BY ONLY EncoderAssumption
  <2> QED BY Zenon, <1>3, <2>1 DEF LoopOK, Provided, Needs, NoDrafts
<1>9. NoDrafts /\ Apart /\ t.n = 0 => NoneNew(cache, t.cache)
  BY Zenon, <1>3 DEF LoopOK, ForTokens, NoDrafts
<1>10. t.budget \in Nat /\ t.n <= step.tokens /\ computed + t.n <= NumTokens[r]
       /\ t.budget + Sizes(t.inputs) <= step.budget
  BY ONLY <1>1, <1>2, <1>6, <1>7
<1> QED BY Zenon, <1>5, <1>6, <1>8, <1>9, <1>10 DEF TryResult

-----------------------------------------------------------------------------
(* A request joins the step *)

\* What is asked of t when r is scheduled with it.
Fits(c, s, r, computed, t) ==
    /\ t.n \in Nat /\ t.budget \in Nat /\ t.inputs \in SUBSET Hash
    /\ t.n <= s.tokens /\ computed + t.n <= NumTokens[r]
    /\ t.budget + Sizes(t.inputs) <= s.budget
    /\ t.inputs \subseteq InputsOf(r) /\ t.inputs \cap DOMAIN c.cached = {}
    /\ Sizes(t.inputs) <= c.num_free_slots

NewEntry(r, computed, t) == [req |-> r, start |-> computed, n |-> t.n, inputs |-> t.inputs]

\* From c to m, r refers to A as well.
Gets(c, m, r, A) ==
    /\ Books(m) /\ m.freed = c.freed
    /\ DOMAIN m.cached = DOMAIN c.cached \union A
    /\ \A h \in A : m.cached[h] = {r}
    /\ \A h \in DOMAIN c.cached : m.cached[h] = c.cached[h]
    /\ \A R : Keeps(c, m, R)

\* s2 is s with r in the step.
Adds(s, s2, r, computed, t) ==
    /\ s2 \in StepType /\ s2.pc = s.pc /\ s2.next = s.next
    /\ s2.preempted = s.preempted /\ s2.try = s.try
    /\ s2.tokens = s.tokens - t.n
    /\ s2.budget \in Nat /\ s2.budget + Sizes(t.inputs) <= s.budget
    /\ NewEntry(r, computed, t) \in Entry
    /\ Range(s2.entries) = Range(s.entries) \union {NewEntry(r, computed, t)}

\* Allocate with the inputs of a request makes it refer to them.
LEMMA AllocateFacts ==
  ASSUME Facts, NEW c, Books(c), NEW s, NEW r \in Req, NEW computed, NEW t, Fits(c, s, r, computed, t),
         NEW m, m = Allocate(c, r, t.inputs)
  PROVE  Gets(c, m, r, t.inputs)
<1>1. /\ Books(m) /\ m.freed = c.freed
      /\ DOMAIN m.cached = DOMAIN c.cached \union t.inputs
      /\ \A h \in DOMAIN c.cached : m.cached[h] = c.cached[h]
      /\ \A h \in t.inputs : m.cached[h] = {r}
  BY AllocateBooks DEF Fits
<1>2. \A R : Keeps(c, m, R) BY Zenon, <1>1 DEF Keeps, Refers
<1> QED BY Zenon, <1>1, <1>2 DEF Gets

\* The step after Scheduled.
LEMMA ScheduledFacts ==
  ASSUME Facts, NEW s \in StepType, NEW c, NEW r \in Req, NEW computed \in Nat,
         NEW t, Fits(c, s, r, computed, t), NEW s2, s2 = Scheduled(s, r, computed, t)
  PROVE  Adds(s, s2, r, computed, t)
<1> DEFINE e == NewEntry(r, computed, t)
<1>1. e \in Entry BY Zenon DEF NewEntry, Entry, Fits
<1>2. Sizes(t.inputs) \in Nat BY Zenon, SizesType DEF Fits
<1>3. /\ s.tokens \in Nat /\ s.budget \in Nat /\ s.entries \in Seq(Entry)
      /\ s.next \in Nat /\ s.preempted \in BOOLEAN /\ s.try \in {NoTry} \union Try
  BY Zenon DEF StepType
<1> DEFINE b2 == IF t.inputs = {} THEN s.budget ELSE t.budget
<1>4. b2 \in Nat /\ b2 + Sizes(t.inputs) <= s.budget
  <2>1. CASE t.inputs = {} BY <1>3, <2>1, SizesNone
  <2>2. CASE t.inputs # {} BY Zenon, <1>2, <1>3, <2>2 DEF Fits
  <2> QED BY Zenon, <2>1, <2>2
<1>5. s.tokens - t.n \in Nat BY <1>3 DEF Fits
<1>6. s2 = [s EXCEPT !.tokens = s.tokens - t.n, !.budget = b2, !.entries = Append(s.entries, e)]
  BY Zenon DEF Scheduled, NewEntry
<1>7. /\ Append(s.entries, e) \in Seq(Entry)
      /\ Range(Append(s.entries, e)) = Range(s.entries) \union {e}
  <2>1. Append(s.entries, e) \in Seq(Entry) BY ONLY <1>1, <1>3
  <2>2. Len(Append(s.entries, e)) = Len(s.entries) + 1 BY ONLY <1>1, <1>3
  <2>3. \A i \in 1..(Len(s.entries) + 1) :
          Append(s.entries, e)[i] = IF i <= Len(s.entries) THEN s.entries[i] ELSE e
    BY ONLY <1>1, <1>3
  <2>4. Len(s.entries) \in Nat /\ DOMAIN s.entries = 1..Len(s.entries)
        /\ DOMAIN Append(s.entries, e) = 1..(Len(s.entries) + 1)
    BY ONLY <1>1, <1>3, <2>2
  <2> HIDE DEF e
  <2>5. \A i \in 1..Len(s.entries) : i \in 1..(Len(s.entries) + 1) /\ i <= Len(s.entries)
    BY ONLY <2>4
  <2>6. /\ Len(s.entries) + 1 \in 1..(Len(s.entries) + 1)
        /\ ~ Len(s.entries) + 1 <= Len(s.entries)
        /\ \A i \in 1..(Len(s.entries) + 1) : i <= Len(s.entries) => i \in 1..Len(s.entries)
    BY ONLY <2>4
  <2> QED BY Zenon, <2>1, <2>3, <2>4, <2>5, <2>6 DEF Range
<1> HIDE DEF e, b2
<1>8. s2 \in StepType BY Zenon, <1>4, <1>5, <1>6, <1>7 DEF StepType
<1>9. /\ s2.pc = s.pc /\ s2.next = s.next /\ s2.preempted = s.preempted /\ s2.try = s.try
      /\ s2.tokens = s.tokens - t.n /\ s2.budget = b2 /\ s2.entries = Append(s.entries, e)
  BY Zenon, <1>6 DEF StepType
<1> QED BY Zenon, <1>1, <1>4, <1>7, <1>8, <1>9 DEF Adds, e

\* The entries stay right, and within the budgets.
Joining(c, m, s, s2, q, q2, run, run2, r, computed, t) ==
    /\ s \in StepType /\ WithinBudget(s) /\ EntriesOK(c, Range(s.entries), q, run)
    /\ r \notin Reqs(Range(s.entries)) /\ Fits(c, s, r, computed, t)
    /\ Gets(c, m, r, t.inputs) /\ Adds(s, s2, r, computed, t)
    /\ q2[r].num_computed = computed
    /\ \A x \in Reqs(Range(s.entries)) : q2[x].num_computed = q[x].num_computed
    /\ Range(run) \union {r} \subseteq Range(run2)

\* With the new entry the step is within its budgets and all entries are right.
LEMMA Joins ==
  ASSUME Facts, NEW c, NEW m, NEW s, NEW s2, NEW q, NEW q2, NEW run, NEW run2, NEW r, NEW computed,
         NEW t, Joining(c, m, s, s2, q, q2, run, run2, r, computed, t)
  PROVE  WithinBudget(s2) /\ EntriesOK(m, Range(s2.entries), q2, run2)
<1> DEFINE E == Range(s.entries)
           e == NewEntry(r, computed, t)
<1> USE DEF Joining
<1>1. /\ s2.tokens = s.tokens - t.n
      /\ s2.budget \in Nat /\ s2.budget + Sizes(t.inputs) <= s.budget
      /\ e \in Entry /\ Range(s2.entries) = E \union {e}
  BY Zenon DEF Adds
<1>2. e.req = r /\ e.start = computed /\ e.n = t.n /\ e.inputs = t.inputs BY Zenon DEF NewEntry
<1>3. s.tokens \in Nat /\ s.budget \in Nat /\ IsFiniteSet(E) /\ E \in SUBSET Entry
  BY Zenon, RangeFinite DEF StepType
<1>4. /\ DOMAIN m.cached = DOMAIN c.cached \union t.inputs
      /\ \A h \in t.inputs : m.cached[h] = {r}
      /\ Keeps(c, m, Reqs(E))
  BY Zenon DEF Gets
<1> HIDE DEF E, e
<1>5. WithinBudget(s2)
  <2>1. /\ Cardinality(TokensOf(E \union {e})) = Cardinality(TokensOf(E)) + t.n
        /\ Cardinality(EmbedsOf(E \union {e})) = Cardinality(EmbedsOf(E)) + Sizes(t.inputs)
        /\ Cardinality(TokensOf(E)) \in Nat /\ Cardinality(EmbedsOf(E)) \in Nat
        /\ t.n \in Nat /\ Sizes(t.inputs) \in Nat
    BY Zenon, <1>1, <1>2, <1>3, SumsAdd DEF E
  <2>2. /\ s.tokens + Cardinality(TokensOf(E)) <= TokenBudget
        /\ s.budget + Cardinality(EmbedsOf(E)) <= ComputeBudget
        /\ TokenBudget \in Nat /\ ComputeBudget \in Nat
    BY Zenon, EncoderAssumption DEF WithinBudget, E
  <2>3. /\ s2.tokens + Cardinality(TokensOf(E \union {e})) <= TokenBudget
        /\ s2.budget + Cardinality(EmbedsOf(E \union {e})) <= ComputeBudget
    BY ONLY <1>1, <1>3, <2>1, <2>2
  <2> QED BY Zenon, <1>1, <2>3 DEF WithinBudget
<1>6. Reqs(E) \subseteq Range(run) BY Zenon DEF EntriesOK, E
<1>7. EntriesOK(m, E, q2, run2)
  BY <1>4, <1>6, EntriesKept DEF E
<1>8. \A h \in e.inputs : Refers(m, r, h) BY Zenon, <1>2, <1>4 DEF Refers
<1>9. EntriesOK(m, E \union {e}, q2, run2)
  <2>1. \A f \in E : f.req # e.req BY Zenon, <1>2 DEF Reqs, E
  <2>2. Reqs(E \union {e}) \subseteq Range(run2) BY <1>2, <1>7 DEF Reqs, EntriesOK
  <2>3. e.start = q2[e.req].num_computed /\ e.start + e.n <= NumTokens[e.req]
    BY Zenon, <1>2 DEF Fits
  <2> QED BY Zenon, <1>2, <1>7, <1>8, <2>1, <2>2, <2>3 DEF EntriesOK
<1> QED BY Zenon, <1>1, <1>5, <1>9

-----------------------------------------------------------------------------
(* Steps that only move on *)

\* Moving on to a point where no request is being looked at, with the same entries.
LEMMA MovesOn ==
  ASSUME NEW c, NEW s, NEW q, NEW w, NEW run, Core(c, s, q, w, run),
         NEW s2 \in StepType, s2.entries = s.entries, s2.tokens = s.tokens,
         s2.budget = s.budget, s2.pc \notin {"running", "allocate"},
         NEW m, Books(m), Keeps(c, m, Reqs(Range(s.entries)))
  PROVE  /\ Core(m, s2, q, w, run)
         /\ NeedsMet(c, s, q) => NeedsMet(m, s2, q)
         /\ InPlace(s2, run)
<1> DEFINE E == Range(s.entries)
<1>1. EntriesOK(c, E, q, run) /\ QueuesOK(q, w, run) /\ WithinBudget(s) BY Zenon DEF Core
<1>2. Reqs(E) \subseteq Range(run) BY Zenon, <1>1 DEF EntriesOK
<1> HIDE DEF E
<1>3. EntriesOK(m, E, q, run) BY Zenon, <1>1, <1>2, EntriesKept DEF E
<1>4. WithinBudget(s2) BY Zenon, <1>1 DEF WithinBudget
<1>5. Core(m, s2, q, w, run) BY Zenon, <1>1, <1>3, <1>4 DEF Core, PlaceOK, TryStands, E
<1>6. ASSUME NeedsMet(c, s, q) PROVE NeedsMet(m, s2, q)
  <2>1. \A e \in E : Needs(c, e.req, e.start, e.n, {}) BY Zenon, <1>6 DEF NeedsMet, E
  <2>2. \A e \in E : Keeps(c, m, {e.req}) BY Zenon DEF Keeps, Reqs, E
  <2>3. \A e \in E : Needs(m, e.req, e.start, e.n, {}) BY Zenon, <2>1, <2>2, NeedsKept
  <2> QED BY Zenon, <2>3 DEF NeedsMet, E
<1> QED BY Zenon, <1>5, <1>6 DEF InPlace

\* A cache that is left alone keeps all references.
LEMMA KeepsSame == \A c, R : Keeps(c, c, R)
BY Zenon DEF Keeps, Refers

\* The end of the loop over the running requests.
LEMMA EndRunningInv ==
  ASSUME Inv, EndRunning
  PROVE  Inv'
<1>1. /\ Core(cache, step, req, waiting, running) /\ RestOK /\ Quiet /\ step \in StepType
      /\ Books(cache)
  BY Zenon DEF Inv, Core
<1>2. step' = [step EXCEPT !.pc = IF step.preempted THEN "finish" ELSE "waiting"]
  BY Zenon DEF EndRunning
<1>3. /\ step' \in StepType /\ step'.entries = step.entries /\ step'.tokens = step.tokens
      /\ step'.budget = step.budget /\ step'.pc \in {"finish", "waiting"}
  BY Zenon, <1>1, <1>2 DEF StepType
<1>4. UNCHANGED <<config, cache, req, waiting, running, batches, worker, missed, shortages>>
  BY Zenon DEF EndRunning
<1>5. /\ Core(cache, step', req, waiting, running)
      /\ NeedsMet(cache, step, req) => NeedsMet(cache, step', req)
      /\ InPlace(step', running)
  BY Zenon, <1>1, <1>3, MovesOn, KeepsSame
<1>6. Quiet' BY Zenon, <1>1, <1>3, <1>4 DEF Quiet, EndRunning, At
<1>7. InStep(cache, step, worker) => InStep(cache, step', worker) BY Zenon, <1>3 DEF InStep
<1> QED BY Zenon, <1>1, <1>4, <1>5, <1>6, <1>7 DEF Inv, RestOK, Fcfs, NoDrafts

\* The end of the loop over the waiting requests.
LEMMA EndWaitingInv ==
  ASSUME Inv, EndWaiting
  PROVE  Inv'
<1>1. /\ Core(cache, step, req, waiting, running) /\ RestOK /\ Quiet /\ step \in StepType
      /\ Books(cache)
  BY Zenon DEF Inv, Core
<1>2. step' = [step EXCEPT !.pc = "finish"] BY Zenon DEF EndWaiting
<1>3. /\ step' \in StepType /\ step'.entries = step.entries /\ step'.tokens = step.tokens
      /\ step'.budget = step.budget /\ step'.pc = "finish"
  BY Zenon, <1>1, <1>2 DEF StepType
<1>4. UNCHANGED <<config, cache, req, waiting, running, batches, worker, missed, shortages>>
  BY Zenon DEF EndWaiting
<1>5. /\ Core(cache, step', req, waiting, running)
      /\ NeedsMet(cache, step, req) => NeedsMet(cache, step', req)
      /\ InPlace(step', running)
  BY Zenon, <1>1, <1>3, MovesOn, KeepsSame
<1>6. Quiet' BY Zenon, <1>1, <1>3, <1>4 DEF Quiet, EndWaiting, At
<1>7. InStep(cache, step, worker) => InStep(cache, step', worker) BY Zenon, <1>3 DEF InStep
<1> QED BY Zenon, <1>1, <1>4, <1>5, <1>6, <1>7 DEF Inv, RestOK, Fcfs, NoDrafts

-----------------------------------------------------------------------------
(* Between steps *)

\* A step without entries asks for nothing but the books and the queues.
LEMMA NoEntries ==
  ASSUME Facts, NEW s \in StepType, s.entries = << >>, s.tokens <= TokenBudget,
         s.budget <= ComputeBudget, s.pc \in {"idle", "update", "running"}, s.next >= 1,
         NEW m, Books(m), NEW q, NEW w, NEW run, QueuesOK(q, w, run)
  PROVE  /\ Core(m, s, q, w, run) /\ NeedsMet(m, s, q) /\ InPlace(s, run)
         /\ \A wk : InStep(m, s, wk) <=> DOMAIN m.cached = wk \ m.freed
<1>1. Range(s.entries) = {} BY DEF Range
<1>2. TokensOf({}) = {} /\ EmbedsOf({}) = {} /\ Reqs({}) = {} /\ Inputs({}) = {}
  BY Zenon DEF TokensOf, EmbedsOf, Reqs, Inputs
<1>3. Cardinality({}) = 0 BY Zenon DEF Facts, FiniteEmpty
<1>4. s.tokens \in Nat /\ s.budget \in Nat BY Zenon DEF StepType
<1>5. WithinBudget(s)
  <2>1. /\ Cardinality(TokensOf(Range(s.entries))) = 0
        /\ Cardinality(EmbedsOf(Range(s.entries))) = 0
    BY Zenon, <1>1, <1>2, <1>3
  <2> QED BY <1>4, <2>1, EncoderAssumption DEF WithinBudget
<1>6. EntriesOK(m, {}, q, run) BY Zenon, <1>2 DEF EntriesOK
<1>7. PlaceOK(s, run) /\ TryStands(m, s, q, run) BY Zenon, <1>1, <1>2 DEF PlaceOK, TryStands
<1>8. NeedsMet(m, s, q) /\ InPlace(s, run) BY Zenon, <1>1 DEF NeedsMet, InPlace
<1>9. \A wk : InStep(m, s, wk) <=> DOMAIN m.cached = wk \ m.freed
  BY Zenon, <1>1, <1>2 DEF InStep
<1> QED BY Zenon, <1>1, <1>5, <1>6, <1>7, <1>8, <1>9 DEF Core

\* A step that has not begun.
LEMMA IdleFacts ==
  ASSUME NEW s, NEW pc \in {"idle", "update"}, s = [Idle EXCEPT !.pc = pc]
  PROVE  /\ s \in StepType /\ s.entries = << >> /\ s.tokens <= TokenBudget
         /\ s.budget <= ComputeBudget /\ s.pc = pc /\ s.next >= 1
<1>1. s = [pc |-> pc, next |-> 1, tokens |-> 0, budget |-> 0, entries |-> << >>,
           preempted |-> FALSE, try |-> NoTry]
  BY Zenon DEF Idle
<1>2. << >> \in Seq(Entry) OBVIOUS
<1>3. s \in StepType
  <2>1. CASE pc = "idle" BY ONLY Zenon, <1>1, <1>2, <2>1 DEF StepType
  <2>2. CASE pc = "update" BY ONLY Zenon, <1>1, <1>2, <2>2 DEF StepType
  <2> QED BY Zenon, <2>1, <2>2
<1>4. s.entries = << >> /\ s.tokens = 0 /\ s.budget = 0 /\ s.pc = pc /\ s.next = 1 BY ONLY <1>1
<1> QED BY ONLY <1>3, <1>4, EncoderAssumption

\* What has to be shown of a state between steps.
LEMMA BecomesIdle ==
  ASSUME Facts, NEW pc \in {"idle", "update"}, step' = [Idle EXCEPT !.pc = pc], RestOK',
         Books(cache'), cache'.freed = {}, QueuesOK(req', waiting', running'),
         UNCHANGED config,
         Fcfs => DOMAIN cache'.cached = worker',
         NoDrafts /\ Apart => Pinned(cache', running'),
         Fcfs /\ NoDrafts => ~ missed'
  PROVE  Inv'
<1>1. /\ step' \in StepType /\ step'.entries = << >> /\ step'.tokens <= TokenBudget
      /\ step'.budget <= ComputeBudget /\ step'.pc = pc /\ step'.next >= 1
  BY Zenon, IdleFacts
<1>2. /\ Core(cache', step', req', waiting', running') /\ NeedsMet(cache', step', req')
      /\ InPlace(step', running')
      /\ \A wk : InStep(cache', step', wk) <=> DOMAIN cache'.cached = wk \ cache'.freed
  BY Zenon, <1>1, NoEntries
<1>3. Fcfs => InStep(cache', step', worker') BY Zenon, <1>2
<1>4. Quiet' BY Zenon, <1>1 DEF Quiet
<1> QED BY Zenon, <1>2, <1>3, <1>4 DEF Inv, Fcfs, NoDrafts

\* What holds between steps.
LEMMA BetweenSteps ==
  ASSUME Facts, Inv, step.pc \in {"idle", "update"}
  PROVE  /\ step = [Idle EXCEPT !.pc = step.pc] /\ cache.freed = {} /\ Books(cache)
         /\ QueuesOK(req, waiting, running) /\ RestOK
         /\ Fcfs => DOMAIN cache.cached = worker
<1>1. /\ step = [Idle EXCEPT !.pc = step.pc] /\ cache.freed = {} /\ Books(cache)
      /\ QueuesOK(req, waiting, running) /\ RestOK
  BY Zenon DEF Inv, Core, Quiet
<1>2. /\ step \in StepType /\ step.entries = << >> /\ step.tokens <= TokenBudget
      /\ step.budget <= ComputeBudget /\ step.next >= 1
  BY Zenon, <1>1, IdleFacts
<1>3. \A wk : InStep(cache, step, wk) <=> DOMAIN cache.cached = wk \ cache.freed
  BY Zenon, <1>1, <1>2, NoEntries
<1>4. Fcfs => InStep(cache, step, worker) BY Zenon DEF Inv
<1> QED BY Zenon, <1>1, <1>3, <1>4

\* schedule() begins.
LEMMA BeginScheduleInv ==
  ASSUME Facts, Inv, BeginSchedule
  PROVE  Inv'
<1>1. step.pc = "idle" /\ Len(batches) < config.depth BY Zenon DEF BeginSchedule, At
<1>2. /\ cache.freed = {} /\ Books(cache) /\ QueuesOK(req, waiting, running) /\ RestOK
      /\ Fcfs => DOMAIN cache.cached = worker
  BY Zenon, <1>1, BetweenSteps
<1>3. step' = [pc |-> "running", next |-> 1, tokens |-> TokenBudget, budget |-> ComputeBudget,
               entries |-> << >>, preempted |-> FALSE, try |-> NoTry]
  BY Zenon DEF BeginSchedule, Idle
<1>4. TokenBudget \in Nat /\ ComputeBudget \in Nat /\ << >> \in Seq(Entry)
  BY ONLY EncoderAssumption
<1>5. step' \in StepType BY Zenon, <1>3, <1>4 DEF StepType
<1>6. /\ step'.entries = << >> /\ step'.tokens = TokenBudget /\ step'.budget = ComputeBudget
      /\ step'.pc = "running" /\ step'.next = 1 /\ step'.next >= 1
      /\ step'.tokens <= TokenBudget /\ step'.budget <= ComputeBudget
  <2>1. /\ step'.entries = << >> /\ step'.tokens = TokenBudget
        /\ step'.budget = ComputeBudget /\ step'.pc = "running" /\ step'.next = 1
    BY Zenon, <1>3
  <2> QED BY ONLY <1>4, <2>1
<1>7. UNCHANGED <<config, cache, req, waiting, running, batches, worker, missed, shortages>>
  BY Zenon DEF BeginSchedule
<1>8. /\ Core(cache, step', req, waiting, running) /\ NeedsMet(cache, step', req)
      /\ InPlace(step', running)
      /\ \A wk : InStep(cache, step', wk) <=> DOMAIN cache.cached = wk \ cache.freed
  BY Zenon, <1>2, <1>4, <1>5, <1>6, NoEntries
<1>9. Fcfs => InStep(cache, step', worker) BY Zenon, <1>2, <1>8
<1>10. Quiet' BY Zenon, <1>1, <1>6, <1>7 DEF Quiet
<1> QED BY Zenon, <1>2, <1>7, <1>8, <1>9, <1>10 DEF Inv, RestOK, Fcfs, NoDrafts

\* Requests that finish leave the queues.
LEMMA FinishQueues ==
  ASSUME Facts, QueuesOK(req, waiting, running), NEW gone \in SUBSET Req, Finish(gone)
  PROVE  QueuesOK(req', waiting', running') /\ Range(running') = Range(running) \ gone
<1>1. /\ req \in [Req -> [status : {"new", "waiting", "running", "done"}, num_computed : Nat]]
      /\ \A r \in Req : req[r].num_computed <= NumTokens[r]
      /\ waiting \in Seq(Req) /\ running \in Seq(Req) /\ IsInjective(running)
  BY Zenon DEF QueuesOK
<1>2. /\ req' = [r \in Req |-> IF r \in gone THEN [status |-> "done", num_computed |-> 0]
                               ELSE req[r]]
      /\ waiting' = Without(waiting, gone) /\ running' = Without(running, gone)
  BY Zenon DEF Finish
<1>3. waiting' \in Seq(Req) /\ Range(waiting') = Range(waiting) \ gone
  BY Zenon, <1>1, <1>2 DEF Facts, WithoutProperties
<1>4. running' \in Seq(Req) /\ Range(running') = Range(running) \ gone /\ IsInjective(running')
  BY Zenon, <1>1, <1>2 DEF Facts, WithoutProperties
<1>5. req' \in [Req -> [status : {"new", "waiting", "running", "done"}, num_computed : Nat]]
  BY Zenon, <1>1, <1>2
<1>6. \A r \in Req : req'[r].num_computed <= NumTokens[r]
  BY ONLY <1>1, <1>2, EncoderAssumption
<1>7. \A r \in Req \ gone : req'[r] = req[r] BY Zenon, <1>2
<1>8. Range(waiting) \in SUBSET Req /\ Range(running) \in SUBSET Req BY Zenon, <1>1, RangeFinite
<1>9. \A r \in Range(waiting') : req'[r].status = "waiting" BY Zenon, <1>3, <1>7, <1>8 DEF QueuesOK
<1>10. \A r \in Range(running') : req'[r].status = "running" BY Zenon, <1>4, <1>7, <1>8 DEF QueuesOK
<1> QED BY Zenon, <1>3, <1>4, <1>5, <1>6, <1>9, <1>10 DEF QueuesOK

\* A request is aborted between steps.
LEMMA AbortInv ==
  ASSUME Facts, Inv, NEW r \in Req, Abort(r)
  PROVE  Inv'
<1>1. step.pc \in {"idle", "update"} BY Zenon DEF Abort, At
<1>2. /\ step = [Idle EXCEPT !.pc = step.pc] /\ cache.freed = {} /\ Books(cache)
      /\ QueuesOK(req, waiting, running) /\ RestOK
      /\ Fcfs => DOMAIN cache.cached = worker
  BY Zenon, <1>1, BetweenSteps
<1>3. cache' = Free(cache, r) /\ Finish({r}) BY Zenon DEF Abort
<1>4. UNCHANGED <<config, step, batches, worker, missed, shortages>> BY Zenon DEF Abort
<1>5. /\ Books(cache') /\ Shrinks(cache, cache')
      /\ \A h \in DOMAIN cache.cached : cache'.cached[h] = cache.cached[h] \ {r}
  BY <1>2, <1>3, FreeBooks
<1>6. QueuesOK(req', waiting', running') /\ Range(running') = Range(running) \ {r}
  BY Zenon, <1>2, <1>3, FinishQueues
<1>7. DOMAIN cache'.cached = DOMAIN cache.cached /\ cache'.freed = {} BY Zenon, <1>2, <1>5 DEF Shrinks
<1>8. NoDrafts /\ Apart => Pinned(cache', running')
  BY Zenon, <1>5, <1>6, <1>7 DEF Inv, Pinned
<1>9. RestOK' BY Zenon, <1>2, <1>4 DEF RestOK
<1>10. step' = [Idle EXCEPT !.pc = step.pc] BY Zenon, <1>2, <1>4
<1>11. Fcfs => DOMAIN cache'.cached = worker' BY Zenon, <1>2, <1>4, <1>7
<1>12. Fcfs /\ NoDrafts => ~ missed' BY Zenon, <1>4 DEF Inv
<1> QED BY Zenon, <1>1, <1>4, <1>5, <1>6, <1>7, <1>8, <1>9, <1>10, <1>11, <1>12, BecomesIdle

\* update_from_output() frees what the tokens of the step have passed.
LEMMA UpdateInv ==
  ASSUME Facts, Inv, Update
  PROVE  Inv'
<1> DEFINE entries == Head(batches)
           ended == {x \in Range(entries) : x.start + x.n >= NumTokens[x.req]}
           gone == {e.req : e \in ended}
<1>1. step.pc \in {"idle", "update"} /\ batches # << >> BY Zenon DEF Update, At
<1>2. /\ cache.freed = {} /\ Books(cache) /\ QueuesOK(req, waiting, running) /\ RestOK
      /\ Fcfs => DOMAIN cache.cached = worker
  BY Zenon, <1>1, BetweenSteps
<1>3. /\ entries \in Seq(Entry) /\ Tail(batches) \in Seq(Seq(Entry))
      /\ Len(Tail(batches)) <= config.depth
  <2>1. /\ batches \in Seq(Seq(Entry)) /\ Len(batches) <= config.depth /\ Len(batches) \in Nat
        /\ config.depth \in {1, 2}
    BY ONLY <1>2, ConfigFacts DEF RestOK
  <2>2. /\ Head(batches) \in Seq(Entry) /\ Tail(batches) \in Seq(Seq(Entry))
        /\ Len(Tail(batches)) = Len(batches) - 1
    BY ONLY <1>1, <2>1
  <2> QED BY ONLY <2>1, <2>2
<1>4. /\ cache' = LET free[i \in 0..Len(entries)] ==
                        IF i = 0 THEN cache
                        ELSE The({FreedBy(c, entries[i]) : c \in {free[i - 1]}})
                  IN  free[Len(entries)]
      /\ Finish(gone)
  BY Zenon DEF Update
<1>5. batches' = Tail(batches) /\ step' = Idle /\ UNCHANGED <<config, worker, missed, shortages>>
  BY Zenon DEF Update
<1>6. /\ Len(entries) \in Nat /\ DOMAIN entries = 1..Len(entries)
      /\ \A i \in 1..Len(entries) : entries[i] \in Entry
  BY ONLY <1>3
<1>7. \A i \in 1..Len(entries) : entries[i].req \in Req BY Zenon, <1>6 DEF Entry
<1> HIDE DEF entries
<1>8. Given(entries, cache', Len(entries)) BY Zenon, <1>2, <1>4, <1>6, <1>7, UpdateLoop
<1>9. Books(cache') /\ Shrinks(cache, cache') BY Zenon, <1>8 DEF Given
<1>10. DOMAIN cache'.cached = DOMAIN cache.cached /\ cache'.freed = {} BY Zenon, <1>2, <1>9 DEF Shrinks
<1>11. gone \in SUBSET Req BY Zenon, <1>6, <1>7 DEF Range
<1>12. QueuesOK(req', waiting', running') /\ Range(running') = Range(running) \ gone
  BY Zenon, <1>2, <1>4, <1>11, FinishQueues
<1>13. NoDrafts /\ Apart => Pinned(cache', running')
  <2> SUFFICES ASSUME Pinned(cache, running), NEW h \in DOMAIN cache.cached,
                      NEW r \in cache'.cached[h]
               PROVE  r \in Range(running) \ gone
    BY Zenon, <1>10, <1>12 DEF Inv, Pinned
  <2>1. r \in Range(running) BY Zenon, <1>9 DEF Pinned, Shrinks
  <2>2. req[r].status # "done" BY Zenon, <1>2, <2>1 DEF QueuesOK
  <2>3. ASSUME NEW e \in ended PROVE e.req # r
    <3>1. PICK i \in 1..Len(entries) : e = entries[i] BY Zenon, <1>6, <2>3 DEF Range
    <3>2. e.start + e.n >= NumTokens[e.req] BY Zenon, <2>3
    <3> QED BY Zenon, <1>8, <2>2, <3>1, <3>2 DEF Given
  <2> QED BY Zenon, <2>1, <2>3
<1>14. RestOK' BY Zenon, <1>2, <1>3, <1>5 DEF RestOK, entries
<1>15. step' = [Idle EXCEPT !.pc = "idle"]
  <2>1. PICK s : s = [Idle EXCEPT !.pc = "idle"] BY Zenon
  <2>2. s = Idle BY Zenon, <2>1 DEF Idle
  <2> QED BY Zenon, <1>5, <2>1, <2>2
<1>16. Fcfs => DOMAIN cache'.cached = worker' BY Zenon, <1>2, <1>5, <1>10
<1>17. Fcfs /\ NoDrafts => ~ missed' BY Zenon, <1>5 DEF Inv
<1> QED BY Zenon, <1>5, <1>9, <1>10, <1>12, <1>13, <1>14, <1>15, <1>16, <1>17, BecomesIdle

\* The books of an empty cache are right.
LEMMA EmptyBooks ==
  ASSUME Facts
  PROVE  Books(EmptyCache) /\ EmptyCache.freed = {} /\ DOMAIN EmptyCache.cached = {}
<1> DEFINE m == EmptyCache
<1>1. /\ m.cached = << >> /\ m.freeable = << >> /\ m.freed = {} /\ m.err = FALSE
      /\ m.num_free_slots = CacheSize /\ m.num_freeable_slots = CacheSize
  BY Zenon DEF EmptyCache
<1>2. CacheSize \in Nat BY Zenon, CacheAssumption
<1>3. << >> \in Table
  <2>1. << >> \in [{} -> SUBSET Req] OBVIOUS
  <2> QED BY Zenon, <2>1, IsTable
<1>4. m \in CacheState
  <2>1. m = [cached |-> << >>, freeable |-> << >>, freed |-> {}, num_free_slots |-> CacheSize,
             num_freeable_slots |-> CacheSize, err |-> FALSE]
    BY Zenon DEF EmptyCache
  <2>2. << >> \in Seq(Hash) OBVIOUS
  <2> HIDE DEF m
  <2> QED BY ONLY <1>2, <1>3, <2>1, <2>2 DEF CacheState
<1>5. DOMAIN m.cached = {} /\ Range(m.freeable) = {} /\ IsInjective(m.freeable)
  BY ONLY <1>1 DEF Range, IsInjective
<1> HIDE DEF m
<1>6. SlotsExact(m)
  <2>1. Sizes(DOMAIN m.cached) = 0 /\ Sizes(Range(m.freeable)) = 0 BY Zenon, <1>5, SizesNone
  <2>2. m.num_free_slots = CacheSize /\ m.num_freeable_slots = CacheSize BY Zenon, <1>1
  <2> QED BY ONLY <1>2, <2>1, <2>2 DEF SlotsExact
<1>7. FreeableExact(m) /\ OwnInputs(m) BY Zenon, <1>5 DEF FreeableExact, OwnInputs
<1> QED BY Zenon, <1>1, <1>4, <1>5, <1>6, <1>7 DEF Books, m

\* reset_encoder_cache() empties the manager and the worker.
LEMMA ResetInv ==
  ASSUME Facts, Inv, ResetEncoderCache
  PROVE  Inv'
<1>1. step.pc = "idle" BY Zenon DEF ResetEncoderCache, At
<1>2. /\ step = [Idle EXCEPT !.pc = step.pc] /\ QueuesOK(req, waiting, running) /\ RestOK
  BY Zenon, <1>1, BetweenSteps
<1>3. /\ cache' = EmptyCache /\ worker' = {}
      /\ UNCHANGED <<config, req, waiting, running, step, batches, missed, shortages>>
  BY Zenon DEF ResetEncoderCache
<1>4. Books(cache') /\ cache'.freed = {} /\ DOMAIN cache'.cached = {} BY Zenon, <1>3, EmptyBooks
<1>5. RestOK' BY Zenon, <1>2, <1>3 DEF RestOK
<1>6. Pinned(cache', running') BY Zenon, <1>4 DEF Pinned
<1>7. Fcfs /\ NoDrafts => ~ missed' BY Zenon, <1>3 DEF Inv
<1>8. step' = [Idle EXCEPT !.pc = "idle"] BY Zenon, <1>1, <1>2, <1>3
<1>9. QueuesOK(req', waiting', running') BY Zenon, <1>2, <1>3
<1> QED BY Zenon, <1>3, <1>4, <1>5, <1>6, <1>7, <1>8, <1>9, BecomesIdle

\* A new element at the end of a sequence.
LEMMA AppendRange ==
  ASSUME NEW X, NEW s \in Seq(X), NEW x \in X
  PROVE  Append(s, x) \in Seq(X) /\ Range(Append(s, x)) = Range(s) \union {x}
<1>1. Append(s, x) \in Seq(X) /\ Len(Append(s, x)) = Len(s) + 1 OBVIOUS
<1>2. \A i \in 1..(Len(s) + 1) : Append(s, x)[i] = IF i <= Len(s) THEN s[i] ELSE x OBVIOUS
<1>3. Len(s) \in Nat /\ DOMAIN s = 1..Len(s) /\ DOMAIN Append(s, x) = 1..(Len(s) + 1)
  BY ONLY <1>1
<1>4. \A i \in 1..Len(s) : i \in 1..(Len(s) + 1) /\ Append(s, x)[i] = s[i] BY ONLY <1>2, <1>3
<1>5. Len(s) + 1 \in 1..(Len(s) + 1) /\ Append(s, x)[Len(s) + 1] = x BY ONLY <1>2, <1>3
<1>6. \A i \in 1..(Len(s) + 1) : i \in 1..Len(s) \/ i = Len(s) + 1 BY ONLY <1>3
<1> QED BY Zenon, <1>1, <1>3, <1>4, <1>5, <1>6 DEF Range

\* A request arrives.
LEMMA AddRequestInv ==
  ASSUME Facts, Inv, NEW r \in Req, AddRequest(r)
  PROVE  Inv'
<1>1. step.pc = "idle" /\ req[r].status = "new" BY Zenon DEF AddRequest, At
<1>2. /\ step = [Idle EXCEPT !.pc = step.pc] /\ cache.freed = {} /\ Books(cache)
      /\ QueuesOK(req, waiting, running) /\ RestOK
      /\ Fcfs => DOMAIN cache.cached = worker
  BY Zenon, <1>1, BetweenSteps
<1>3. /\ req' = [req EXCEPT ![r].status = "waiting"] /\ waiting' = Append(waiting, r)
      /\ UNCHANGED <<config, cache, running, step, batches, worker, missed, shortages>>
  BY Zenon DEF AddRequest
<1>4. /\ req \in [Req -> [status : {"new", "waiting", "running", "done"}, num_computed : Nat]]
      /\ \A x \in Req : req[x].num_computed <= NumTokens[x]
      /\ waiting \in Seq(Req) /\ running \in Seq(Req)
  BY Zenon, <1>2 DEF QueuesOK
<1>5. req' \in [Req -> [status : {"new", "waiting", "running", "done"}, num_computed : Nat]]
  BY Zenon, <1>3, <1>4
<1>6. /\ \A x \in Req \ {r} : req'[x] = req[x]
      /\ req'[r].status = "waiting" /\ req'[r].num_computed = req[r].num_computed
  BY Zenon, <1>3, <1>4
<1>7. waiting' \in Seq(Req) /\ Range(waiting') = Range(waiting) \union {r}
  BY ONLY <1>3, <1>4, AppendRange
<1>8. Range(waiting) \in SUBSET Req /\ Range(running) \in SUBSET Req BY Zenon, <1>4, RangeFinite
<1>9. r \notin Range(running) BY Zenon, <1>1, <1>2 DEF QueuesOK
<1>10. \A x \in Req : req'[x].num_computed = req[x].num_computed BY Zenon, <1>6
<1>11. QueuesOK(req', waiting', running')
  <2>1. \A x \in Req : req'[x].num_computed <= NumTokens[x] BY Zenon, <1>4, <1>10
  <2>2. \A x \in Range(waiting') : req'[x].status = "waiting" BY Zenon, <1>2, <1>6, <1>7, <1>8 DEF QueuesOK
  <2>3. \A x \in Range(running) : req'[x].status = "running" BY Zenon, <1>2, <1>6, <1>8, <1>9 DEF QueuesOK
  <2> QED BY Zenon, <1>2, <1>3, <1>5, <1>7, <2>1, <2>2, <2>3 DEF QueuesOK
<1>12. RestOK' BY Zenon, <1>2, <1>3 DEF RestOK
<1>13. NoDrafts /\ Apart => Pinned(cache', running') BY Zenon, <1>3 DEF Inv
<1>14. Fcfs /\ NoDrafts => ~ missed' BY Zenon, <1>3 DEF Inv
<1>15. step' = [Idle EXCEPT !.pc = "idle"] BY Zenon, <1>1, <1>2, <1>3
<1>16. Books(cache') /\ cache'.freed = {} /\ (Fcfs => DOMAIN cache'.cached = worker')
  BY Zenon, <1>2, <1>3
<1> QED BY Zenon, <1>3, <1>11, <1>12, <1>13, <1>14, <1>15, <1>16, BecomesIdle

\* The initial state has the invariant.
LEMMA InitInv ==
  ASSUME Facts, Init
  PROVE  Inv
<1>1. /\ config \in Configs /\ cache = EmptyCache /\ step = Idle /\ batches = << >>
      /\ worker = {} /\ missed = FALSE /\ shortages = 0 /\ waiting = << >> /\ running = << >>
      /\ req = [r \in Req |-> [status |-> "new", num_computed |-> 0]]
  BY Zenon DEF Init
<1>2. Books(cache) /\ cache.freed = {} /\ DOMAIN cache.cached = {} BY Zenon, <1>1, EmptyBooks
<1>3. step = [Idle EXCEPT !.pc = "idle"]
  <2>1. PICK s : s = [Idle EXCEPT !.pc = "idle"] BY Zenon
  <2>2. s = Idle BY Zenon, <2>1 DEF Idle
  <2> QED BY Zenon, <1>1, <2>1, <2>2
<1>4. /\ step \in StepType /\ step.entries = << >> /\ step.tokens <= TokenBudget
      /\ step.budget <= ComputeBudget /\ step.pc = "idle" /\ step.next >= 1
  BY Zenon, <1>3, IdleFacts
<1>5. QueuesOK(req, waiting, running)
  <2>1. Range(<< >>) = {} /\ IsInjective(<< >>) /\ << >> \in Seq(Req) BY DEF Range, IsInjective
  <2>2. /\ req \in [Req -> [status : {"new", "waiting", "running", "done"}, num_computed : Nat]]
        /\ \A r \in Req : req[r].num_computed <= NumTokens[r]
    BY ONLY <1>1, EncoderAssumption
  <2> QED BY Zenon, <1>1, <2>1, <2>2 DEF QueuesOK
<1>6. /\ Core(cache, step, req, waiting, running) /\ NeedsMet(cache, step, req)
      /\ InPlace(step, running)
      /\ \A wk : InStep(cache, step, wk) <=> DOMAIN cache.cached = wk \ cache.freed
  BY Zenon, <1>2, <1>4, <1>5, NoEntries
<1>7. InStep(cache, step, worker) BY Zenon, <1>1, <1>2, <1>6
<1>8. RestOK
  <2>1. << >> \in Seq(Seq(Entry)) /\ Len(<< >>) = 0 OBVIOUS
  <2>2. config.depth \in {1, 2} BY Zenon, <1>1, EncoderAssumption
  <2>3. batches \in Seq(Seq(Entry)) /\ Len(batches) <= config.depth BY ONLY <1>1, <2>1, <2>2, SMTT(20)
  <2>4. shortages \in 0..MaxShortages BY ONLY <1>1, EncoderAssumption
  <2> QED BY Zenon, <1>1, <2>3, <2>4 DEF RestOK
<1>9. Quiet BY Zenon, <1>2, <1>3, <1>4 DEF Quiet
<1>10. Pinned(cache, running) BY Zenon, <1>2 DEF Pinned
<1> QED BY Zenon, <1>1, <1>6, <1>7, <1>8, <1>9, <1>10 DEF Inv

-----------------------------------------------------------------------------
(* The end of schedule() *)

\* get_freed_mm_hashes keeps the books.
LEMMA TakeFreedBooks ==
  ASSUME NEW c, Books(c), NEW m, m = TakeFreed(c)
  PROVE  Books(m) /\ m.cached = c.cached /\ m.freed = {}
<1>1. c \in CacheState /\ SlotsExact(c) /\ FreeableExact(c) /\ OwnInputs(c) /\ ~ c.err
  BY Zenon DEF Books
<1>2. m = [c EXCEPT !.freed = {}] BY Zenon DEF TakeFreed
<1>3. m \in CacheState BY Zenon, <1>1, <1>2 DEF CacheState
<1>4. /\ m.cached = c.cached /\ m.freeable = c.freeable /\ m.freed = {} /\ m.err = c.err
      /\ m.num_free_slots = c.num_free_slots /\ m.num_freeable_slots = c.num_freeable_slots
  BY Zenon, <1>1, <1>2 DEF CacheState
<1>5. SlotsExact(m) BY Zenon, <1>1, <1>4 DEF SlotsExact
<1>6. FreeableExact(m) /\ OwnInputs(m) BY Zenon, <1>1, <1>4 DEF FreeableExact, OwnInputs
<1> QED BY Zenon, <1>1, <1>3, <1>4, <1>5, <1>6 DEF Books

\* The worker has what the step needs.
LEMMA GathersAll ==
  ASSUME NoDrafts, NeedsMet(cache, step, req), worker' = DOMAIN cache.cached,
         NEW e \in Range(step.entries), e \in Entry
  PROVE  Gathers(e)
<1> SUFFICES ASSUME NEW i \in DOMAIN Features[e.req],
                    Embeds(Features[e.req][i], e.start + 0, e.start + 0 + e.n)
             PROVE  Features[e.req][i].hash \in worker'
  BY Zenon DEF Gathers, NoDrafts
<1>1. e.start \in Nat /\ e.n \in Nat BY Zenon DEF Entry
<1>2. e.start + 0 = e.start /\ e.start + 0 + e.n = e.start + e.n BY ONLY <1>1
<1>3. Embeds(Features[e.req][i], e.start, e.start + e.n) BY Zenon, <1>2
<1>4. Needs(cache, e.req, e.start, e.n, {}) BY Zenon DEF NeedsMet
<1> QED BY Zenon, <1>3, <1>4 DEF Needs, Refers

\* What num_computed_tokens becomes.
LEMMA ComputedQueues ==
  ASSUME Facts, QueuesOK(req, waiting, running), NEW n, \A r \in Req : n[r] \in Nat,
         \A r \in Req : req[r].num_computed + n[r] <= NumTokens[r],
         NEW q, q = [r \in Req |-> [req[r] EXCEPT !.num_computed = @ + n[r]]]
  PROVE  QueuesOK(q, waiting, running)
<1>1. /\ req \in [Req -> [status : {"new", "waiting", "running", "done"}, num_computed : Nat]]
      /\ waiting \in Seq(Req) /\ running \in Seq(Req)
  BY Zenon DEF QueuesOK
<1>2. \A r \in Req : /\ q[r] = [req[r] EXCEPT !.num_computed = req[r].num_computed + n[r]]
                     /\ req[r] \in [status : {"new", "waiting", "running", "done"},
                                    num_computed : Nat]
  BY Zenon, <1>1
<1>3. \A r \in Req : /\ q[r].status = req[r].status
                     /\ q[r].num_computed = req[r].num_computed + n[r]
                     /\ q[r] \in [status : {"new", "waiting", "running", "done"},
                                  num_computed : Nat]
  BY <1>2
<1>4. q \in [Req -> [status : {"new", "waiting", "running", "done"}, num_computed : Nat]]
  BY Zenon, <1>3
<1>5. Range(waiting) \in SUBSET Req /\ Range(running) \in SUBSET Req BY Zenon, <1>1, RangeFinite
<1> QED BY <1>3, <1>4, <1>5 DEF QueuesOK

\* The step is sent to the worker, which frees, computes and gathers.
LEMMA FinishScheduleInv ==
  ASSUME Facts, Inv, FinishSchedule
  PROVE  Inv'
<1> DEFINE E == Range(step.entries)
           of(r) == CHOOSE e \in E : e.req = r
           n == [r \in Req |-> IF \E e \in E : e.req = r THEN of(r).n ELSE 0]
           batch == [i \in DOMAIN step.entries |-> [step.entries[i] EXCEPT !.inputs = {}]]
<1>1. /\ RestOK /\ Quiet /\ Books(cache) /\ step \in StepType /\ step.pc = "finish"
      /\ QueuesOK(req, waiting, running) /\ EntriesOK(cache, E, req, running)
  BY Zenon DEF Inv, Core, FinishSchedule, At
<1>2. E \in SUBSET Entry /\ step.entries \in Seq(Entry) BY Zenon, <1>1, RangeFinite DEF StepType
<1>3. /\ worker' = (worker \ cache.freed) \union Inputs(E)
      /\ missed' = (missed \/ \E e \in E : ~ Gathers(e))
      /\ cache' = TakeFreed(cache) /\ batches' = Append(batches, batch)
      /\ UNCHANGED <<config, waiting, running, shortages>>
  BY Zenon DEF FinishSchedule, StepInWorker, Inputs
<1>4. PICK pc \in {"idle", "update"} : step' = [Idle EXCEPT !.pc = pc]
  BY Zenon DEF FinishSchedule
<1>5. \A r \in Req : n[r] \in Nat /\ req[r].num_computed + n[r] <= NumTokens[r]
  <2> TAKE r \in Req
  <2>1. CASE \E e \in E : e.req = r
    <3>1. of(r) \in E /\ of(r).req = r BY Zenon, <2>1
    <3>2. n[r] = of(r).n BY Zenon, <2>1
    <3> HIDE DEF n, of
    <3>3. of(r).n \in Nat BY Zenon, <1>2, <3>1 DEF Entry
    <3>4. /\ of(r).start = req[of(r).req].num_computed
          /\ of(r).start + of(r).n <= NumTokens[of(r).req]
      BY Zenon, <1>1, <3>1 DEF EntriesOK
    <3> QED BY Zenon, <3>1, <3>2, <3>3, <3>4
  <2>2. CASE ~ \E e \in E : e.req = r
    <3>1. n[r] = 0 BY Zenon, <2>2
    <3>2. req[r].num_computed \in Nat /\ req[r].num_computed <= NumTokens[r]
      BY Zenon, <1>1 DEF QueuesOK
    <3> HIDE DEF n
    <3> QED BY ONLY <3>1, <3>2
  <2> QED BY Zenon, <2>1, <2>2
<1>6. req' = [r \in Req |-> [req[r] EXCEPT !.num_computed = @ + n[r]]]
  BY Zenon DEF FinishSchedule
<1>7. QueuesOK(req', waiting', running')
  <2> HIDE DEF n
  <2>1. QueuesOK(req', waiting, running) BY Zenon, <1>1, <1>5, <1>6, ComputedQueues
  <2> QED BY Zenon, <1>3, <2>1
<1>8. RestOK'
  <2>1. /\ batches \in Seq(Seq(Entry)) /\ Len(batches) \in Nat /\ Len(batches) < config.depth
        /\ config.depth \in {1, 2}
    BY ONLY <1>1, ConfigFacts DEF RestOK, Quiet
  <2>2. batch \in Seq(Entry)
    <3>1. DOMAIN step.entries = 1..Len(step.entries) /\ Len(step.entries) \in Nat BY ONLY <1>2
    <3>2. \A i \in DOMAIN step.entries : step.entries[i] \in Entry BY ONLY <1>2
    <3>3. \A i \in DOMAIN step.entries : [step.entries[i] EXCEPT !.inputs = {}] \in Entry
      BY Zenon, <3>2 DEF Entry
    <3>4. batch \in [1..Len(step.entries) -> Entry] BY Zenon, <3>1, <3>3
    <3> QED BY ONLY <3>1, <3>4
  <2> HIDE DEF batch
  <2>3. batches' \in Seq(Seq(Entry)) /\ Len(batches') = Len(batches) + 1
    BY ONLY <1>3, <2>1, <2>2
  <2>4. Len(batches') <= config.depth BY ONLY <2>1, <2>3
  <2>5. Inputs(E) \in SUBSET Hash BY Zenon, <1>2 DEF Inputs, Entry
  <2>6. worker' \in SUBSET Hash BY Zenon, <1>1, <1>3, <2>5 DEF RestOK
  <2> QED BY Zenon, <1>1, <1>3, <2>3, <2>4, <2>6 DEF RestOK
<1>9. Books(cache') /\ cache'.cached = cache.cached /\ cache'.freed = {}
  BY Zenon, <1>1, <1>3, TakeFreedBooks
<1>10. Fcfs => DOMAIN cache.cached = worker' BY Zenon, <1>3 DEF Inv, InStep
<1>11. Fcfs /\ NoDrafts => ~ missed'
  <2> SUFFICES ASSUME Fcfs, NoDrafts PROVE ~ missed' BY Zenon
  <2>1. ~ missed /\ NeedsMet(cache, step, req) BY Zenon DEF Inv
  <2>2. \A e \in E : Gathers(e) BY Zenon, <1>2, <1>10, <2>1, GathersAll
  <2> QED BY Zenon, <1>3, <2>1, <2>2
<1>12. NoDrafts /\ Apart => Pinned(cache', running') BY Zenon, <1>3, <1>9 DEF Inv, Pinned
<1>13. Fcfs => DOMAIN cache'.cached = worker' BY Zenon, <1>9, <1>10
<1> HIDE DEF E, n, batch
<1> QED BY Zenon, <1>3, <1>4, <1>7, <1>8, <1>9, <1>11, <1>12, <1>13, BecomesIdle

-----------------------------------------------------------------------------
(* The loop over the running requests *)

\* What the entries of a step need they keep while references are only added.
LEMMA EntriesNeed ==
  ASSUME NEW c, NEW s, NEW q, NeedsMet(c, s, q), NEW E, E \subseteq Range(s.entries),
         NEW m, Keeps(c, m, Reqs(E))
  PROVE  \A e \in E : Needs(m, e.req, e.start, e.n, {})
<1>1. \A e \in E : Needs(c, e.req, e.start, e.n, {}) BY Zenon DEF NeedsMet
<1>2. \A e \in E : Keeps(c, m, {e.req}) BY Zenon DEF Keeps, Reqs
<1> QED BY Zenon, <1>1, <1>2, NeedsKept

\* The encoder inputs of a running request are tried.
LEMMA TryRunningInv ==
  ASSUME Facts, Inv, TryRunning
  PROVE  Inv'
<1> DEFINE E == Range(step.entries)
           r == running[step.next]
           computed == req[r].num_computed
<1>1. /\ RestOK /\ Quiet /\ Books(cache) /\ step \in StepType /\ step.pc = "running"
      /\ QueuesOK(req, waiting, running) /\ EntriesOK(cache, E, req, running)
      /\ WithinBudget(step) /\ PlaceOK(step, running)
      /\ step.next <= Len(running)
  BY Zenon DEF Inv, Core, TryRunning, At
<1>2. /\ step.next \in Nat /\ step.next >= 1 /\ running \in Seq(Req) /\ IsInjective(running)
  BY Zenon, <1>1 DEF StepType, PlaceOK, QueuesOK
<1>3. DOMAIN running = 1..Len(running) /\ Len(running) \in Nat /\ step.next \in DOMAIN running
  BY ONLY <1>1, <1>2
<1>4. r \in Req /\ r \in Range(running) BY ONLY <1>2, <1>3 DEF Range
<1>5. computed \in Nat /\ computed <= NumTokens[r] BY Zenon, <1>1, <1>4 DEF QueuesOK
<1>6. PICK t : /\ t = TrySchedule(r, computed, NumNewTokens(r, computed))
               /\ cache' = t.cache
               /\ step' = IF t.n = 0 THEN [step EXCEPT !.next = @ + 1]
                          ELSE [step EXCEPT !.pc = "allocate",
                                            !.try = [req |-> r, n |-> t.n, budget |-> t.budget,
                                                     inputs |-> t.inputs]]
  BY Zenon DEF TryRunning
<1>7. UNCHANGED <<config, req, waiting, running, batches, worker, missed, shortages>>
  BY Zenon DEF TryRunning
<1>8. r \notin Reqs(E) BY ONLY <1>1, <1>2, <1>3 DEF PlaceOK
<1>9. Reqs(E) \subseteq Range(running) BY Zenon, <1>1 DEF EntriesOK
<1> HIDE DEF r, computed, E
<1>10. TryResult(cache, step, r, computed, t)
  BY Zenon, <1>1, <1>4, <1>5, <1>6, TryCall
<1>11. /\ Books(t.cache) /\ Grows(cache, t.cache, r)
       /\ t.n \in Nat /\ t.budget \in Nat /\ t.inputs \in SUBSET Hash
  BY Zenon, <1>10 DEF TryResult
<1>12. \A R : Keeps(cache, cache', R) BY Zenon, <1>6, <1>11, GrowsKeeps
<1>13. EntriesOK(cache', E, req, running) BY Zenon, <1>1, <1>9, <1>12, EntriesKept
<1>14. Fcfs => InStep(cache, step, worker) BY Zenon DEF Inv
<1>15. NoDrafts => \A e \in E : Needs(cache', e.req, e.start, e.n, {})
  BY Zenon, <1>12, EntriesNeed DEF Inv, E
<1>16. NoDrafts /\ Apart => Pinned(cache', running)
  BY Zenon, <1>4, <1>6, <1>11 DEF Inv, Pinned, Grows
<1>17. ASSUME step' \in StepType, step'.pc \in {"running", "allocate"},
              step'.entries = step.entries, step'.tokens = step.tokens,
              step'.budget = step.budget, PlaceOK(step', running),
              TryStands(cache', step', req, running), Fcfs => InPlace(step', running),
              NoDrafts => NeedsMet(cache', step', req)
       PROVE  Inv'
  <2>1. WithinBudget(step') BY Zenon, <1>1, <1>17 DEF WithinBudget
  <2>2. Core(cache', step', req, waiting, running)
    BY Zenon, <1>1, <1>6, <1>11, <1>13, <1>17, <2>1 DEF Core, E
  <2>3. Fcfs => InStep(cache', step', worker)
    <3>1. Grows(cache, cache', r) /\ step'.entries = step.entries BY Zenon, <1>6, <1>11, <1>17
    <3>2. EntriesOK(cache, Range(step.entries), req, running) BY Zenon, <1>1 DEF E
    <3> QED BY Zenon, <1>14, <3>1, <3>2, GrowsInStep
  <2>4. Quiet' BY Zenon, <1>1, <1>7, <1>17 DEF Quiet
  <2> QED BY Zenon, <1>1, <1>7, <1>16, <1>17, <2>2, <2>3, <2>4 DEF Inv, RestOK, Fcfs, NoDrafts
<1>18. CASE t.n = 0
  <2>1. step' = [step EXCEPT !.next = step.next + 1] BY Zenon, <1>6, <1>18
  <2>2. /\ step' \in StepType /\ step'.pc = "running" /\ step'.entries = step.entries
        /\ step'.tokens = step.tokens /\ step'.budget = step.budget
        /\ step'.next = step.next + 1
    <3>0. step.next + 1 \in Nat BY ONLY <1>2
    <3>1. step \in StepType /\ step.pc = "running" /\ step.next + 1 \in Nat
      BY Zenon, <1>1, <3>0
    <3> QED BY ONLY <2>1, <3>1 DEF StepType
  <2>3. PlaceOK(step', running) BY ONLY <1>1, <1>2, <1>3, <2>2 DEF PlaceOK
  <2>4. TryStands(cache', step', req, running) /\ InPlace(step', running)
    BY Zenon, <2>2 DEF TryStands, InPlace
  <2>5. NoDrafts => NeedsMet(cache', step', req) BY Zenon, <1>15, <2>2 DEF NeedsMet, E
  <2> QED BY Zenon, <1>17, <2>2, <2>3, <2>4, <2>5
<1>19. CASE t.n # 0
  <2> DEFINE try == [req |-> r, n |-> t.n, budget |-> t.budget, inputs |-> t.inputs]
  <2>1. step' = [step EXCEPT !.pc = "allocate", !.try = try] BY Zenon, <1>6, <1>19
  <2>2. try \in Try BY Zenon, <1>4, <1>11 DEF Try
  <2>3. try.req = r /\ try.n = t.n /\ try.budget = t.budget /\ try.inputs = t.inputs BY Zenon
  <2> HIDE DEF try
  <2>4. /\ step' \in StepType /\ step'.pc = "allocate" /\ step'.entries = step.entries
        /\ step'.tokens = step.tokens /\ step'.budget = step.budget
        /\ step'.next = step.next /\ step'.try = try
    BY Zenon, <1>1, <2>1, <2>2 DEF StepType
  <2>5. PlaceOK(step', running)
    <3>1. \A j \in DOMAIN running : running[j] = r => j = step.next
      BY Zenon, <1>2, <1>3 DEF IsInjective, r
    <3> QED BY ONLY <1>1, <1>2, <2>3, <2>4, <3>1 DEF PlaceOK
  <2>6. TryStands(cache', step', req, running)
    <3>1. /\ t.n <= step.tokens /\ computed + t.n <= NumTokens[r]
          /\ t.budget + Sizes(t.inputs) <= step.budget
          /\ t.inputs \subseteq InputsOf(r) /\ t.inputs \cap DOMAIN t.cache.cached = {}
          /\ Sizes(t.inputs) <= t.cache.num_free_slots
      BY Zenon, <1>10 DEF TryResult
    <3> QED BY Zenon, <1>4, <1>6, <1>8, <2>2, <2>3, <2>4, <3>1 DEF TryStands, computed, E
  <2>7. InPlace(step', running) BY Zenon, <1>3, <2>3, <2>4 DEF InPlace, r
  <2>8. NoDrafts => NeedsMet(cache', step', req)
    <3>1. NoDrafts => Needs(cache', r, computed, t.n, t.inputs) BY Zenon, <1>6, <1>10 DEF TryResult
    <3> QED BY Zenon, <1>15, <2>3, <2>4, <3>1 DEF NeedsMet, E, computed
  <2> QED BY Zenon, <1>17, <2>4, <2>5, <2>6, <2>7, <2>8
<1> QED BY Zenon, <1>18, <1>19

\* With the new entry, what every entry needs is cached or scheduled.
LEMMA JoinsNeeds ==
  ASSUME NEW c, NEW m, NEW s, NEW s2, NEW r, NEW computed, NEW t, Gets(c, m, r, t.inputs),
         Adds(s, s2, r, computed, t),
         \A e \in Range(s.entries) : Needs(c, e.req, e.start, e.n, {}),
         Needs(c, r, computed, t.n, t.inputs)
  PROVE  \A e \in Range(s2.entries) : Needs(m, e.req, e.start, e.n, {})
<1> DEFINE e2 == NewEntry(r, computed, t)
<1>1. e2.req = r /\ e2.start = computed /\ e2.n = t.n BY Zenon DEF NewEntry
<1>2. Range(s2.entries) = Range(s.entries) \union {e2} BY Zenon DEF Adds
<1> HIDE DEF e2
<1>3. \A e \in Range(s.entries) : Needs(m, e.req, e.start, e.n, {})
  BY Zenon, NeedsKept DEF Gets
<1>4. \A h : h \in t.inputs \/ Refers(c, r, h) => Refers(m, r, h) BY Zenon DEF Gets, Refers
<1>5. Needs(m, r, computed, t.n, {}) BY Zenon, <1>4 DEF Needs
<1> QED BY Zenon, <1>1, <1>2, <1>3, <1>5

\* With the new entry, the worker will have the keys of the manager.
LEMMA JoinsInStep ==
  ASSUME NEW c, NEW m, NEW s, NEW s2, NEW r, NEW computed, NEW t, Gets(c, m, r, t.inputs),
         Adds(s, s2, r, computed, t), NEW wk, InStep(c, s, wk)
  PROVE  InStep(m, s2, wk)
<1> DEFINE e2 == NewEntry(r, computed, t)
<1>1. e2.inputs = t.inputs BY Zenon DEF NewEntry
<1>2. Range(s2.entries) = Range(s.entries) \union {e2} BY Zenon DEF Adds
<1> HIDE DEF e2
<1>3. Inputs(Range(s2.entries)) = Inputs(Range(s.entries)) \union t.inputs
  BY Zenon, <1>1, <1>2 DEF Inputs
<1> QED BY Zenon, <1>3 DEF Gets, InStep

\* A running request gets its tokens.
LEMMA ScheduleRunningInv ==
  ASSUME Facts, Inv, ScheduleRunning
  PROVE  Inv'
<1> DEFINE E == Range(step.entries)
           t == step.try
           r == t.req
           computed == req[r].num_computed
           s2 == Scheduled(step, r, computed, t)
<1>1. /\ RestOK /\ Quiet /\ Books(cache) /\ step \in StepType /\ step.pc = "allocate"
      /\ QueuesOK(req, waiting, running) /\ EntriesOK(cache, E, req, running)
      /\ WithinBudget(step) /\ PlaceOK(step, running) /\ TryStands(cache, step, req, running)
  BY Zenon DEF Inv, Core, ScheduleRunning, At
<1>2. /\ cache' = Allocate(cache, r, t.inputs)
      /\ step' = [s2 EXCEPT !.pc = "running", !.next = @ + 1, !.try = NoTry]
      /\ UNCHANGED <<config, req, waiting, running, batches, worker, missed, shortages>>
  BY Zenon DEF ScheduleRunning
<1>3. t \in Try /\ r \in Range(running) /\ r \notin Reqs(E) BY Zenon, <1>1 DEF TryStands
<1>4. r \in Req BY Zenon, <1>3 DEF Try
<1>5. computed \in Nat BY Zenon, <1>1, <1>4 DEF QueuesOK
<1>6. Fits(cache, step, r, computed, t) BY Zenon, <1>1, <1>3 DEF TryStands, Fits, Try
<1>7. Needs(cache, r, computed, t.n, t.inputs) \/ ~ NoDrafts BY Zenon, <1>1 DEF Inv, NeedsMet
<1>8. \A j \in DOMAIN running : running[j] = r => j <= step.next BY Zenon, <1>1 DEF PlaceOK
<1> HIDE DEF E, t, r, computed, s2
<1>9. Gets(cache, cache', r, t.inputs) BY Zenon, <1>1, <1>2, <1>4, <1>6, AllocateFacts
<1>10. Adds(step, s2, r, computed, t)
  BY Zenon, <1>1, <1>4, <1>5, <1>6, ScheduledFacts DEF s2
<1>11. WithinBudget(s2) /\ EntriesOK(cache', Range(s2.entries), req, running)
  <2>1. req[r].num_computed = computed /\ Range(running) \union {r} \subseteq Range(running)
    BY Zenon, <1>3 DEF computed
  <2>2. Joining(cache, cache', step, s2, req, req, running, running, r, computed, t)
    BY Zenon, <1>1, <1>3, <1>6, <1>9, <1>10, <2>1 DEF Joining, E
  <2> QED BY Zenon, <2>2, Joins
<1>12. /\ s2 \in StepType /\ s2.next = step.next
       /\ Range(s2.entries) = E \union {NewEntry(r, computed, t)}
  BY Zenon, <1>10 DEF Adds, E
<1>13. /\ step' \in StepType /\ step'.pc = "running" /\ step'.entries = s2.entries
       /\ step'.tokens = s2.tokens /\ step'.budget = s2.budget /\ step'.next = step.next + 1
  <2>1. s2.next \in Nat /\ s2.next + 1 \in Nat BY ONLY <1>12 DEF StepType
  <2> QED BY Zenon, <1>2, <1>12, <2>1 DEF StepType
<1>14. WithinBudget(step') /\ EntriesOK(cache', Range(step'.entries), req, running)
  BY Zenon, <1>11, <1>13 DEF WithinBudget
<1>15. Reqs(Range(step'.entries)) = Reqs(E) \union {r}
  <2>1. NewEntry(r, computed, t).req = r BY Zenon DEF NewEntry
  <2> QED BY Zenon, <1>12, <1>13, <2>1 DEF Reqs
<1>16. PlaceOK(step', running)
  <2>1. step.next \in Nat /\ step.next >= 1 BY Zenon, <1>1 DEF StepType, PlaceOK
  <2>2. \A j \in DOMAIN running : running[j] \in Reqs(E) => j < step.next BY Zenon, <1>1 DEF PlaceOK, E
  <2>3. \A j \in DOMAIN running : j \in Nat BY ONLY <1>1 DEF QueuesOK
  <2> QED BY ONLY <1>8, <1>13, <1>15, <2>1, <2>2, <2>3 DEF PlaceOK
<1>17. TryStands(cache', step', req, running) /\ InPlace(step', running)
  BY Zenon, <1>13 DEF TryStands, InPlace
<1>18. Core(cache', step', req, waiting, running)
  BY Zenon, <1>1, <1>9, <1>13, <1>14, <1>16, <1>17 DEF Core, Gets
<1>19. NoDrafts => NeedsMet(cache', step', req)
  <2> SUFFICES ASSUME NoDrafts PROVE NeedsMet(cache', step', req) BY Zenon
  <2>1. \A e \in Range(step.entries) : Needs(cache, e.req, e.start, e.n, {}) BY Zenon DEF Inv, NeedsMet
  <2>2. \A e \in Range(s2.entries) : Needs(cache', e.req, e.start, e.n, {})
    BY Zenon, <1>7, <1>9, <1>10, <2>1, JoinsNeeds
  <2> QED BY Zenon, <1>13, <2>2 DEF NeedsMet
<1>20. Fcfs => InStep(cache', step', worker)
  <2>0. Fcfs => InStep(cache, step, worker) BY Zenon DEF Inv
  <2>1. Fcfs => InStep(cache', s2, worker) BY Zenon, <1>9, <1>10, <2>0, JoinsInStep
  <2> QED BY Zenon, <1>13, <2>1 DEF InStep
<1>21. NoDrafts /\ Apart => Pinned(cache', running) BY Zenon, <1>3, <1>9 DEF Inv, Pinned, Gets
<1>22. Quiet' BY Zenon, <1>1, <1>2, <1>13 DEF Quiet
<1> QED BY Zenon, <1>1, <1>2, <1>17, <1>18, <1>19, <1>20, <1>21, <1>22 DEF Inv, RestOK, Fcfs, NoDrafts

\* Requests can be compared by their priority and time of arrival.
LEMMA ExtremeRank ==
  ASSUME Facts, NEW w \in Seq(Req), w # << >>
  PROVE  /\ \E r \in Range(w) : \A q \in Range(w) : Rank[r] <= Rank[q]
         /\ \E r \in Range(w) : \A q \in Range(w) : Rank[q] <= Rank[r]
<1>1. Len(w) \in Nat /\ Len(w) >= 1 /\ DOMAIN w = 1..Len(w) BY DEF Facts, EmptySeq,
      LenProperties
<1>2. \A i \in 1..Len(w) : Rank[w[i]] \in Int BY ONLY EncoderAssumption
<1> DEFINE T == {i \in 0..Len(w) :
                   i # 0 => /\ \E k \in 1..i : \A j \in 1..i : Rank[w[k]] <= Rank[w[j]]
                            /\ \E k \in 1..i : \A j \in 1..i : Rank[w[j]] <= Rank[w[k]]}
<1>3. 0 \in T BY ONLY <1>1
<1>4. ASSUME NEW i \in 0..(Len(w) - 1), i \in T PROVE i + 1 \in T
  <2>1. i + 1 \in 1..Len(w) /\ i + 1 \in 0..Len(w) /\ i \in Nat BY ONLY <1>1
  <2>2. \A j \in 1..(i + 1) : j \in 1..i \/ j = i + 1 BY ONLY <2>1
  <2>3. \A j \in 1..(i + 1) : j \in 1..Len(w) BY ONLY <1>1, <2>1
  <2>4. i + 1 \in 1..(i + 1) /\ \A k \in 1..i : k \in 1..(i + 1) BY ONLY <2>1
  <2>5. CASE i = 0 BY ONLY <1>2, <2>1, <2>2, <2>3, <2>4, <2>5
  <2>6. CASE i # 0
    <3>1. PICK k \in 1..i : \A j \in 1..i : Rank[w[k]] <= Rank[w[j]] BY Zenon, <1>4, <2>6
    <3>2. PICK l \in 1..i : \A j \in 1..i : Rank[w[j]] <= Rank[w[l]] BY Zenon, <1>4, <2>6
    <3>3. \E x \in 1..(i + 1) : \A j \in 1..(i + 1) : Rank[w[x]] <= Rank[w[j]]
      <4>1. CASE Rank[w[k]] <= Rank[w[i + 1]] BY Zenon, <2>2, <2>4, <3>1, <4>1
      <4>2. CASE ~ (Rank[w[k]] <= Rank[w[i + 1]])
        <5>1. \A j \in 1..i : Rank[w[i + 1]] <= Rank[w[j]]
          BY ONLY <1>2, <2>1, <2>3, <2>4, <3>1, <4>2, SMTT(20)
        <5>2. Rank[w[i + 1]] <= Rank[w[i + 1]] BY ONLY <1>2, <2>1
        <5> QED BY Zenon, <2>2, <2>4, <5>1, <5>2
      <4> QED BY Zenon, <4>1, <4>2
    <3>4. \E x \in 1..(i + 1) : \A j \in 1..(i + 1) : Rank[w[j]] <= Rank[w[x]]
      <4>1. CASE Rank[w[i + 1]] <= Rank[w[l]] BY Zenon, <2>2, <2>4, <3>2, <4>1
      <4>2. CASE ~ (Rank[w[i + 1]] <= Rank[w[l]])
        <5>1. \A j \in 1..i : Rank[w[j]] <= Rank[w[i + 1]]
          BY <1>2, <2>1, <2>3, <2>4, <3>2, <4>2, SMTT(20)
        <5>2. Rank[w[i + 1]] <= Rank[w[i + 1]] BY ONLY <1>2, <2>1
        <5> QED BY Zenon, <2>2, <2>4, <5>1, <5>2
      <4> QED BY Zenon, <4>1, <4>2
    <3> QED BY Zenon, <2>1, <3>3, <3>4
  <2> QED BY Zenon, <2>5, <2>6
<1> HIDE DEF T
<1>5. Len(w) \in T
  <2>1. \A i \in 0..(Len(w) - 1) : i \in T => i + 1 \in T BY Zenon, <1>4
  <2>2. \A i \in 0..Len(w) : i \in T BY Zenon, <1>1, <1>3, <2>1 DEF Facts, IntervalInduction
  <2> QED BY ONLY <1>1, <2>2
<1>6. /\ \E k \in 1..Len(w) : \A j \in 1..Len(w) : Rank[w[k]] <= Rank[w[j]]
      /\ \E k \in 1..Len(w) : \A j \in 1..Len(w) : Rank[w[j]] <= Rank[w[k]]
  <2>1. Len(w) # 0 BY ONLY <1>1
  <2> QED BY Zenon, <1>5, <2>1 DEF T
<1> QED BY Zenon, <1>1, <1>6 DEF Range

\* The head of the queue is a waiting request.
LEMMA HeadIsWaiting ==
  ASSUME Facts, waiting \in Seq(Req), waiting # << >>
  PROVE  HeadRequest \in Range(waiting)
<1>1. Head(waiting) \in Range(waiting)
  <2>1. Len(waiting) \in Nat /\ Len(waiting) >= 1 /\ DOMAIN waiting = 1..Len(waiting)
    BY DEF Facts, EmptySeq, LenProperties
  <2> QED BY ONLY <2>1 DEF Range
<1>2. \E r \in Range(waiting) : \A q \in Range(waiting) : Rank[r] <= Rank[q]
  BY Zenon, ExtremeRank
<1> QED BY Zenon, <1>1, <1>2 DEF HeadRequest

\* The victim is a running request.
LEMMA VictimIsRunning ==
  ASSUME Facts, running \in Seq(Req), running # << >>
  PROVE  Victim \in Range(running)
<1>1. Len(running) \in Nat /\ Len(running) >= 1 /\ DOMAIN running = 1..Len(running)
  BY DEF Facts, EmptySeq, LenProperties
<1>2. running[Len(running)] \in Range(running) BY ONLY <1>1 DEF Range
<1>3. \E r \in Range(running) : \A q \in Range(running) : Rank[q] <= Rank[r]
  BY Zenon, ExtremeRank
<1> QED BY Zenon, <1>2, <1>3 DEF Victim

-----------------------------------------------------------------------------
(* The loop over the waiting requests *)

\* The queues q, w and run when a waiting request is admitted.
Admits(r, hit, q, w, run) ==
    /\ q = [req EXCEPT ![r] = [status |-> "running", num_computed |-> hit]]
    /\ w = Without(waiting, {r}) /\ run = Append(running, r)

\* An admitted request changes queues.
LEMMA AdmitQueues ==
  ASSUME Facts, QueuesOK(req, waiting, running), NEW r \in Range(waiting),
         NEW hit \in Nat, hit < NumTokens[r],
         NEW q, NEW w, NEW run, Admits(r, hit, q, w, run)
  PROVE  /\ QueuesOK(q, w, run) /\ Range(run) = Range(running) \union {r}
         /\ r \in Req /\ r \notin Range(running) /\ q[r].num_computed = hit
         /\ \A x \in Req \ {r} : q[x] = req[x]
<1>1. /\ req \in [Req -> [status : {"new", "waiting", "running", "done"}, num_computed : Nat]]
      /\ waiting \in Seq(Req) /\ running \in Seq(Req) /\ IsInjective(running)
      /\ \A x \in Req : req[x].num_computed <= NumTokens[x]
      /\ \A x \in Range(waiting) : req[x].status = "waiting"
      /\ \A x \in Range(running) : req[x].status = "running"
  BY Zenon DEF QueuesOK
<1>2. Range(waiting) \in SUBSET Req /\ Range(running) \in SUBSET Req BY Zenon, <1>1, RangeFinite
<1>3. r \in Req /\ r \notin Range(running) BY Zenon, <1>1, <1>2
<1>4. w \in Seq(Req) /\ Range(w) = Range(waiting) \ {r} BY Zenon, <1>1
  DEF Admits, Facts, WithoutProperties
<1>5. /\ run \in Seq(Req) /\ IsInjective(run) /\ Range(run) = Range(running) \union {r}
  BY <1>1, <1>3, AppendNew DEF Admits
<1>6. q \in [Req -> [status : {"new", "waiting", "running", "done"}, num_computed : Nat]]
  BY Zenon, <1>1, <1>3 DEF Admits
<1>7. /\ q[r].status = "running" /\ q[r].num_computed = hit
      /\ \A x \in Req \ {r} : q[x] = req[x]
  BY Zenon, <1>1, <1>3 DEF Admits
<1>8. NumTokens[r] \in Nat BY Zenon, <1>3, EncoderAssumption
<1>9. ASSUME NEW x \in Req PROVE q[x].num_computed <= NumTokens[x]
  <2>1. CASE x = r BY <1>7, <1>8, <2>1
  <2>2. CASE x # r BY Zenon, <1>1, <1>7, <2>2
  <2> QED BY Zenon, <2>1, <2>2
<1>10. \A x \in Range(w) : q[x].status = "waiting" BY Zenon, <1>1, <1>2, <1>4, <1>7
<1>11. \A x \in Range(run) : q[x].status = "running" BY Zenon, <1>1, <1>2, <1>5, <1>7
<1> QED BY Zenon, <1>3, <1>4, <1>5, <1>6, <1>7, <1>9, <1>10, <1>11 DEF QueuesOK

\* The loop ends without admitting a request.
LEMMA NotAdmitted ==
  ASSUME Inv, At("waiting"), step' = [step EXCEPT !.pc = "finish"],
         UNCHANGED <<config, req, waiting, running, batches, worker, missed>>,
         shortages' \in 0..MaxShortages, Books(cache'),
         Keeps(cache, cache', Reqs(Range(step.entries))),
         Fcfs => InStep(cache', step, worker),
         NoDrafts /\ Apart => Pinned(cache', running)
  PROVE  Inv'
<1>1. /\ Core(cache, step, req, waiting, running) /\ RestOK /\ Quiet /\ step \in StepType
      /\ step.pc = "waiting"
  BY Zenon DEF Inv, Core, At
<1>2. /\ step' \in StepType /\ step'.entries = step.entries /\ step'.tokens = step.tokens
      /\ step'.budget = step.budget /\ step'.pc = "finish"
  BY Zenon, <1>1 DEF StepType
<1>3. /\ Core(cache', step', req, waiting, running)
      /\ NeedsMet(cache, step, req) => NeedsMet(cache', step', req)
      /\ InPlace(step', running)
  BY Zenon, <1>1, <1>2, MovesOn
<1>4. Fcfs => InStep(cache', step', worker) BY Zenon, <1>2 DEF InStep
<1>5. Quiet' BY Zenon, <1>1, <1>2 DEF Quiet
<1>6. NoDrafts => NeedsMet(cache', step', req) BY Zenon, <1>3 DEF Inv
<1> QED BY Zenon, <1>1, <1>3, <1>4, <1>5, <1>6 DEF Inv, RestOK, Fcfs, NoDrafts

\* A waiting request is admitted, or not.
LEMMA ScheduleWaitingInv ==
  ASSUME Facts, Inv, ScheduleWaiting
  PROVE  Inv'
<1> DEFINE E == Range(step.entries)
           r == HeadRequest
<1>1. /\ RestOK /\ Quiet /\ Books(cache) /\ step \in StepType /\ step.pc = "waiting"
      /\ QueuesOK(req, waiting, running) /\ EntriesOK(cache, E, req, running)
      /\ WithinBudget(step) /\ waiting # << >>
  BY Zenon DEF Inv, Core, ScheduleWaiting, At
<1>2. waiting \in Seq(Req) /\ Range(waiting) \in SUBSET Req BY Zenon, <1>1, RangeFinite DEF QueuesOK
<1>3. r \in Range(waiting) /\ r \in Req BY Zenon, <1>1, <1>2, HeadIsWaiting
<1>4. PICK hit \in Hits :
        /\ hit < NumTokens[r]
        /\ \E t \in {TrySchedule(r, hit, NumNewTokens(r, hit))} :
             \/ /\ t.n = 0
                /\ cache' = t.cache
                /\ step' = [step EXCEPT !.pc = "finish"]
                /\ UNCHANGED <<req, waiting, running, shortages>>
             \/ /\ t.n > 0 /\ shortages < MaxShortages
                /\ shortages' = shortages + 1
                /\ cache' = Free(t.cache, r)
                /\ step' = [step EXCEPT !.pc = "finish"]
                /\ UNCHANGED <<req, waiting, running>>
             \/ /\ t.n > 0
                /\ cache' = Allocate(t.cache, r, t.inputs)
                /\ step' = Scheduled(step, r, hit, t)
                /\ req' = [req EXCEPT ![r] = [status |-> "running", num_computed |-> hit]]
                /\ waiting' = Without(waiting, {r})
                /\ running' = Append(running, r)
                /\ UNCHANGED shortages
  BY Zenon DEF ScheduleWaiting
<1>5. UNCHANGED <<config, batches, worker, missed>> BY Zenon DEF ScheduleWaiting
<1>6. hit \in Nat /\ NumTokens[r] \in Nat /\ hit <= NumTokens[r]
  BY ONLY <1>3, <1>4, EncoderAssumption
<1>7. PICK t : t = TrySchedule(r, hit, NumNewTokens(r, hit)) BY Zenon
<1> HIDE DEF r, E
<1>8. TryResult(cache, step, r, hit, t) BY Zenon, <1>1, <1>3, <1>6, <1>7, TryCall
<1>9. Books(t.cache) /\ Grows(cache, t.cache, r) BY Zenon, <1>8 DEF TryResult
<1>10. \A R : Keeps(cache, t.cache, R) BY Zenon, <1>9, GrowsKeeps
<1>11. r \notin Range(running) BY Zenon, <1>1, <1>3 DEF QueuesOK
<1>12. Reqs(E) \subseteq Range(running) /\ r \notin Reqs(E) BY Zenon, <1>1, <1>11 DEF EntriesOK
<1>13. Fcfs => InStep(t.cache, step, worker)
  <2>1. Fcfs => InStep(cache, step, worker) BY Zenon DEF Inv
  <2> QED BY Zenon, <1>1, <1>9, <2>1, GrowsInStep DEF E
<1>14. shortages \in 0..MaxShortages /\ MaxShortages \in Nat
  BY Zenon, <1>1, EncoderAssumption DEF RestOK
<1>15. CASE /\ t.n = 0 /\ cache' = t.cache /\ step' = [step EXCEPT !.pc = "finish"]
            /\ UNCHANGED <<req, waiting, running, shortages>>
  <2>1. NoDrafts /\ Apart => Pinned(cache', running)
    BY Zenon, <1>8, <1>9, <1>15 DEF TryResult, NoneNew, Grows, Pinned, Inv
  <2>2. At("waiting") BY Zenon, <1>1 DEF At
  <2> QED BY Zenon, <1>5, <1>9, <1>10, <1>13, <1>14, <1>15, <2>1, <2>2, NotAdmitted
<1>16. CASE /\ t.n > 0 /\ shortages < MaxShortages /\ shortages' = shortages + 1
            /\ cache' = Free(t.cache, r) /\ step' = [step EXCEPT !.pc = "finish"]
            /\ UNCHANGED <<req, waiting, running>>
  <2>1. /\ Books(cache') /\ Shrinks(t.cache, cache')
        /\ \A h \in DOMAIN t.cache.cached : cache'.cached[h] = t.cache.cached[h] \ {r}
    BY <1>3, <1>9, <1>16, FreeBooks
  <2>2. Keeps(t.cache, cache', Reqs(E)) BY Zenon, <1>12, <2>1, FreeKeeps
  <2>3. Keeps(cache, cache', Reqs(E)) BY Zenon, <1>10, <2>2 DEF Keeps, Refers
  <2>4. Fcfs => InStep(cache', step, worker) BY Zenon, <1>13, <2>1, ShrinksInStep
  <2>5. NoDrafts /\ Apart => Pinned(cache', running)
    BY Zenon, <1>9, <2>1 DEF Grows, Shrinks, Pinned, Inv
  <2>6. shortages' \in 0..MaxShortages BY ONLY <1>14, <1>16
  <2>7. At("waiting") BY Zenon, <1>1 DEF At
  <2> QED BY Zenon, <1>5, <1>16, <2>1, <2>3, <2>4, <2>5, <2>6, <2>7, NotAdmitted DEF E
<1>17. CASE /\ t.n > 0 /\ cache' = Allocate(t.cache, r, t.inputs)
            /\ step' = Scheduled(step, r, hit, t)
            /\ req' = [req EXCEPT ![r] = [status |-> "running", num_computed |-> hit]]
            /\ waiting' = Without(waiting, {r}) /\ running' = Append(running, r)
            /\ UNCHANGED shortages
  <2>1. /\ QueuesOK(req', waiting', running') /\ Range(running') = Range(running) \union {r}
        /\ req'[r].num_computed = hit /\ \A x \in Req \ {r} : req'[x] = req[x]
    <3>1. Admits(r, hit, req', waiting', running') BY Zenon, <1>17 DEF Admits
    <3>2. QueuesOK(req, waiting, running) /\ hit \in Nat /\ hit < NumTokens[r]
      BY Zenon, <1>1, <1>4, <1>6
    <3> QED BY <1>3, <3>1, <3>2, AdmitQueues
  <2>2. Fits(t.cache, step, r, hit, t) BY Zenon, <1>8 DEF TryResult, Fits
  <2>3. Gets(t.cache, cache', r, t.inputs) BY Zenon, <1>3, <1>9, <1>17, <2>2, AllocateFacts
  <2>4. Adds(step, step', r, hit, t) BY Zenon, <1>1, <1>3, <1>6, <1>17, <2>2, ScheduledFacts
  <2>5. EntriesOK(t.cache, E, req, running) BY Zenon, <1>1, <1>10, <1>12, EntriesKept
  <2>6. \A x \in Reqs(E) : req'[x].num_computed = req[x].num_computed
    <3>1. Range(running) \in SUBSET Req BY Zenon, <1>1, RangeFinite DEF QueuesOK
    <3> QED BY Zenon, <1>12, <2>1, <3>1
  <2>7. Range(running) \union {r} \subseteq Range(running') BY Zenon, <2>1
  <2>8. WithinBudget(step') /\ EntriesOK(cache', Range(step'.entries), req', running')
    <3>1. Joining(t.cache, cache', step, step', req, req', running, running', r, hit, t)
      BY Zenon, <1>1, <1>12, <2>1, <2>2, <2>3, <2>4, <2>5, <2>6, <2>7 DEF Joining, E
    <3> QED BY Zenon, <3>1, Joins
  <2>9. step' \in StepType /\ step'.pc = "waiting" BY Zenon, <1>1, <2>4 DEF Adds
  <2>10. Core(cache', step', req', waiting', running')
    <3>1. PlaceOK(step', running') /\ TryStands(cache', step', req', running')
      BY Zenon, <2>9 DEF PlaceOK, TryStands
    <3> QED BY Zenon, <2>1, <2>3, <2>8, <2>9, <3>1 DEF Core, Gets
  <2>11. NoDrafts => NeedsMet(cache', step', req')
    <3> SUFFICES ASSUME NoDrafts PROVE NeedsMet(cache', step', req') BY Zenon
    <3>1. \A e \in Range(step.entries) : Needs(t.cache, e.req, e.start, e.n, {})
      BY Zenon, <1>10, EntriesNeed DEF Inv
    <3>2. Needs(t.cache, r, hit, t.n, t.inputs) BY Zenon, <1>8 DEF TryResult
    <3>3. \A e \in Range(step'.entries) : Needs(cache', e.req, e.start, e.n, {})
      BY Zenon, <2>3, <2>4, <3>1, <3>2, JoinsNeeds
    <3> QED BY Zenon, <2>9, <3>3 DEF NeedsMet
  <2>12. Fcfs => InStep(cache', step', worker) BY Zenon, <1>13, <2>3, <2>4, JoinsInStep
  <2>13. NoDrafts /\ Apart => Pinned(cache', running')
    <3>1. \A h \in DOMAIN t.cache.cached : t.cache.cached[h] \subseteq cache.cached[h] \union {r}
                                           /\ h \in DOMAIN cache.cached
      BY Zenon, <1>9 DEF Grows
    <3> QED BY Zenon, <2>1, <2>3, <3>1 DEF Inv, Pinned, Gets
  <2>14. InPlace(step', running') /\ Quiet' BY Zenon, <1>1, <1>5, <2>9 DEF InPlace, Quiet
  <2> QED BY ZenonT(30), <1>1, <1>5, <1>17, <2>10, <2>11, <2>12, <2>13, <2>14
          DEF Inv, RestOK, Fcfs, NoDrafts
<1> QED BY Zenon, <1>4, <1>7, <1>15, <1>16, <1>17

-----------------------------------------------------------------------------
(* Preemption *)

\* From s to s2, request v is no longer in the step.
Undone(s, s2, v) ==
    LET E == Range(s.entries)
    IN  /\ s2 \in StepType /\ s2.pc = s.pc /\ s2.try = s.try /\ WithinBudget(s2)
        /\ Range(s2.entries) = {e \in E : e.req # v}
        /\ s2.tokens >= s.tokens /\ s2.budget >= s.budget
        /\ s2.next = IF v \in Reqs(E) THEN s.next - 1 ELSE s.next
        /\ v \notin Reqs(E) => s2.entries = s.entries

\* What taking a victim out of the batch gives back.
LEMMA UndoFacts ==
  ASSUME Facts, NEW s \in StepType, WithinBudget(s), NEW v,
         \A e, f \in Range(s.entries) : e.req = f.req => e = f,
         v \in Reqs(Range(s.entries)) => s.next >= 1,
         NEW s2, s2 = Undo(s, v)
  PROVE  Undone(s, s2, v)
<1> DEFINE E == Range(s.entries)
           mine == {e \in E : e.req = v}
<1>1. /\ s.entries \in Seq(Entry) /\ s.next \in Nat /\ s.tokens \in Nat /\ s.budget \in Nat
      /\ E \in SUBSET Entry /\ IsFiniteSet(E)
  BY Zenon, RangeFinite DEF StepType
<1>2. CASE v \notin Reqs(E)
  <2>1. mine = {} BY Zenon, <1>2 DEF Reqs
  <2>2. s2 = s BY Zenon, <2>1 DEF Undo
  <2>3. E = {e \in E : e.req # v} BY Zenon, <1>2 DEF Reqs
  <2> QED BY <1>1, <1>2, <2>2, <2>3 DEF Undone
<1>3. CASE v \in Reqs(E)
  <2>1. mine # {} BY Zenon, <1>3 DEF Reqs
  <2>2. PICK e : e = CHOOSE x \in mine : TRUE BY Zenon
  <2>3. e \in E /\ e.req = v BY Zenon, <2>1, <2>2
  <2>4. s2 = [s EXCEPT !.entries = Without(@, {e}), !.tokens = @ + e.n,
                       !.budget = @ + Sizes(e.inputs), !.next = @ - 1]
    BY Zenon, <2>1, <2>2 DEF Undo
  <2> DEFINE D == E \ {e}
  <2>5. D = {f \in E : f.req # v} BY Zenon, <2>3
  <2>6. e \in Entry /\ D \in SUBSET Entry /\ IsFiniteSet(D) /\ E = D \union {e}
    BY Zenon, <1>1, <2>3 DEF Facts, FiniteSubset
  <2>7. e.req \notin Reqs(D) BY Zenon, <2>3, <2>5 DEF Reqs
  <2>8. Without(s.entries, {e}) \in Seq(Entry) /\ Range(Without(s.entries, {e})) = D
    BY Zenon, <1>1 DEF Facts, WithoutProperties
  <2> HIDE DEF D, E, mine
  <2>9. /\ Cardinality(TokensOf(E)) = Cardinality(TokensOf(D)) + e.n
        /\ Cardinality(EmbedsOf(E)) = Cardinality(EmbedsOf(D)) + Sizes(e.inputs)
        /\ Cardinality(TokensOf(D)) \in Nat /\ Cardinality(EmbedsOf(D)) \in Nat
        /\ e.n \in Nat /\ Sizes(e.inputs) \in Nat
    BY Zenon, <2>6, <2>7, SumsAdd
  <2>10. /\ s2.entries = Without(s.entries, {e}) /\ s2.tokens = s.tokens + e.n
         /\ s2.budget = s.budget + Sizes(e.inputs) /\ s2.next = s.next - 1
         /\ s2.pc = s.pc /\ s2.try = s.try
    BY Zenon, <2>4 DEF StepType
  <2>11. s.next - 1 \in Nat /\ s.tokens + e.n \in Nat /\ s.budget + Sizes(e.inputs) \in Nat
    <3>1. s.next >= 1 BY Zenon, <1>3 DEF E
    <3>2. s.next \in Nat /\ s.tokens \in Nat /\ s.budget \in Nat BY Zenon, <1>1
    <3> QED BY ONLY <2>9, <3>1, <3>2
  <2>12. s2 \in StepType BY Zenon, <2>4, <2>8, <2>11 DEF StepType
  <2>13. /\ s.tokens + Cardinality(TokensOf(E)) <= TokenBudget
         /\ s.budget + Cardinality(EmbedsOf(E)) <= ComputeBudget
         /\ TokenBudget \in Nat /\ ComputeBudget \in Nat
    BY Zenon, EncoderAssumption DEF WithinBudget, E
  <2>14. /\ s2.tokens + Cardinality(TokensOf(D)) <= TokenBudget
         /\ s2.budget + Cardinality(EmbedsOf(D)) <= ComputeBudget
         /\ s2.tokens >= s.tokens /\ s2.budget >= s.budget
    <3>1. s.tokens \in Nat /\ s.budget \in Nat BY Zenon, <1>1
    <3> QED BY ONLY <2>9, <2>10, <2>13, <3>1
  <2>15. Range(s2.entries) = D BY Zenon, <2>8, <2>10
  <2>16. WithinBudget(s2) BY Zenon, <2>14, <2>15 DEF WithinBudget
  <2> QED BY Zenon, <1>3, <2>5, <2>10, <2>12, <2>14, <2>15, <2>16 DEF Undone, E
<1> QED BY Zenon, <1>2, <1>3

\* Where the loop over the running requests is when one of them leaves.
LEMMA PlaceKept ==
  ASSUME Facts, NEW run \in Seq(Req), IsInjective(run), NEW k \in 1..Len(run),
         NEW s \in StepType, s.pc = "allocate", PlaceOK(s, run), NEW s2, s2.try = s.try,
         Reqs(Range(s2.entries)) \subseteq Reqs(Range(s.entries)),
         s2.next = IF run[k] \in Reqs(Range(s.entries)) THEN s.next - 1 ELSE s.next
  PROVE  PlaceOK(s2, Without(run, {run[k]}))
<1> DEFINE run2 == Without(run, {run[k]})
           R == Reqs(Range(s.entries))
<1>1. /\ run2 \in Seq(Req) /\ Len(run2) = Len(run) - 1
      /\ \A j \in 1..(Len(run) - 1) : run2[j] = IF j < k THEN run[j] ELSE run[j + 1]
  BY Zenon DEF Facts, DropOne
<1>2. /\ Len(run) \in Nat /\ DOMAIN run = 1..Len(run) /\ DOMAIN run2 = 1..(Len(run) - 1)
      /\ s.next \in Nat /\ k \in Nat
  BY ONLY <1>1 DEF StepType, Facts, LenProperties
<1>3. /\ s.next >= 1 /\ \A j \in 1..Len(run) : run[j] \in R => j < s.next
      /\ \A j \in 1..Len(run) : run[j] = s.try.req => j <= s.next
  BY Zenon, <1>2 DEF PlaceOK
<1>4. run[k] \in R => k < s.next BY Zenon, <1>3
<1>5. s2.next >= 1 BY <1>2, <1>3, <1>4
<1> HIDE DEF run2, R
<1>6. ASSUME NEW j \in 1..(Len(run) - 1),
             NEW i \in 1..Len(run), i = IF j < k THEN j ELSE j + 1, i <= s.next
      PROVE  j <= s2.next /\ (i < s.next => j < s2.next)
  <2>1. CASE run[k] \in R
    <3>1. k < s.next /\ s2.next = s.next - 1 BY Zenon, <1>4, <2>1 DEF R
    <3> QED BY ONLY <1>2, <1>6, <3>1
  <2>2. CASE run[k] \notin R
    <3>1. s2.next = s.next BY Zenon, <2>2 DEF R
    <3> QED BY ONLY <1>2, <1>6, <3>1
  <2> QED BY Zenon, <2>1, <2>2
<1>7. ASSUME NEW j \in 1..(Len(run) - 1)
      PROVE  /\ run2[j] \in R => j < s2.next
             /\ run2[j] = s.try.req => j <= s2.next
  <2>1. PICK i \in 1..Len(run) : i = IF j < k THEN j ELSE j + 1 BY ONLY <1>2
  <2>2. run2[j] = run[i] BY Zenon, <1>1, <2>1
  <2> QED BY ONLY <1>2, <1>3, <1>6, <2>1, <2>2
<1> QED BY Zenon, <1>2, <1>5, <1>7 DEF PlaceOK, run2, R

\* A preempted request changes queues.
LEMMA PreemptQueues ==
  ASSUME Facts, QueuesOK(req, waiting, running), NEW v \in Range(running), PreemptRequest(v)
  PROVE  /\ QueuesOK(req', waiting', running') /\ Range(running') = Range(running) \ {v}
         /\ v \in Req /\ \A x \in Req \ {v} : req'[x] = req[x]
<1>1. /\ req \in [Req -> [status : {"new", "waiting", "running", "done"}, num_computed : Nat]]
      /\ waiting \in Seq(Req) /\ running \in Seq(Req) /\ IsInjective(running)
      /\ \A x \in Req : req[x].num_computed <= NumTokens[x]
      /\ \A x \in Range(waiting) : req[x].status = "waiting"
      /\ \A x \in Range(running) : req[x].status = "running"
  BY Zenon DEF QueuesOK
<1>2. Range(waiting) \in SUBSET Req /\ Range(running) \in SUBSET Req BY Zenon, <1>1, RangeFinite
<1>3. v \in Req /\ v \notin Range(waiting) BY Zenon, <1>1, <1>2
<1>4. /\ running' \in Seq(Req) /\ Range(running') = Range(running) \ {v}
      /\ IsInjective(running')
  BY Zenon, <1>1 DEF PreemptRequest, Facts, WithoutProperties
<1>5. waiting' \in Seq(Req) /\ Range(waiting') = {v} \union Range(waiting)
  <2>1. <<v>> \in Seq(Req) /\ Range(<<v>>) = {v} BY ONLY <1>3 DEF Range
  <2>2. waiting' \in Seq(Req) /\ IsConcat(waiting', <<v>>, waiting)
    BY Zenon, <1>1, <2>1 DEF PreemptRequest, Facts, ConcatEntries
  <2> QED BY Zenon, <2>1, <2>2 DEF IsConcat
<1>6. req' = [req EXCEPT ![v] = [status |-> "waiting", num_computed |-> 0]]
  BY Zenon DEF PreemptRequest
<1>7. req' \in [Req -> [status : {"new", "waiting", "running", "done"}, num_computed : Nat]]
  BY Zenon, <1>1, <1>3, <1>6
<1>8. /\ req'[v].status = "waiting" /\ req'[v].num_computed = 0
      /\ \A x \in Req \ {v} : req'[x] = req[x]
  BY Zenon, <1>1, <1>3, <1>6
<1>9. ASSUME NEW x \in Req PROVE req'[x].num_computed <= NumTokens[x]
  <2>1. CASE x = v
    <3>1. NumTokens[v] \in Nat BY Zenon, <1>3, EncoderAssumption
    <3> QED BY ONLY <1>8, <2>1, <3>1
  <2>2. CASE x # v BY Zenon, <1>1, <1>8, <2>2
  <2> QED BY Zenon, <2>1, <2>2
<1>10. \A x \in Range(waiting') : req'[x].status = "waiting" BY Zenon, <1>1, <1>2, <1>5, <1>8
<1>11. \A x \in Range(running') : req'[x].status = "running" BY Zenon, <1>1, <1>2, <1>4, <1>8
<1> QED BY Zenon, <1>3, <1>4, <1>5, <1>7, <1>8, <1>9, <1>10, <1>11 DEF QueuesOK

\* The last, or the least important, running request is preempted.
LEMMA PreemptInv ==
  ASSUME Facts, Inv, Preempt
  PROVE  Inv'
<1> DEFINE E == Range(step.entries)
           E2 == Range(step'.entries)
           t == step.try
           v == Victim
<1>1. /\ RestOK /\ Quiet /\ Books(cache) /\ step \in StepType /\ step.pc = "allocate"
      /\ QueuesOK(req, waiting, running) /\ EntriesOK(cache, E, req, running)
      /\ WithinBudget(step) /\ PlaceOK(step, running) /\ TryStands(cache, step, req, running)
  BY Zenon DEF Inv, Core, Preempt, At
<1>2. /\ shortages < MaxShortages /\ shortages' = shortages + 1 /\ PreemptRequest(v)
      /\ step' = [Undo(step, v) EXCEPT !.preempted = TRUE,
                                       !.pc = IF v = t.req THEN "finish" ELSE @]
      /\ UNCHANGED <<config, batches, worker, missed>>
  BY Zenon DEF Preempt
<1>3. running \in Seq(Req) /\ IsInjective(running) /\ Range(running) \in SUBSET Req
  BY Zenon, <1>1, RangeFinite DEF QueuesOK
<1>4. t.req \in Range(running) /\ t.req \notin Reqs(E) BY Zenon, <1>1 DEF TryStands
<1>5. v \in Range(running)
  <2>1. running # << >> BY ONLY <1>4 DEF Range
  <2> QED BY Zenon, <1>3, <2>1, VictimIsRunning
<1>6. PICK k \in 1..Len(running) : running[k] = v BY Zenon, <1>3, <1>5
  DEF Range, Facts, LenProperties
<1>7. Fcfs => v = running[Len(running)] BY Zenon DEF Victim, Fcfs
<1> HIDE DEF E, E2, t, v
<1>8. Undone(step, Undo(step, v), v)
  <2>1. \A e, f \in E : e.req = f.req => e = f BY Zenon, <1>1 DEF EntriesOK
  <2>2. step.next >= 1 BY Zenon, <1>1 DEF PlaceOK
  <2> QED BY Zenon, <1>1, <2>1, <2>2, UndoFacts DEF E
<1>9. /\ step' \in StepType /\ step'.try = t /\ WithinBudget(step')
      /\ E2 = {e \in E : e.req # v}
      /\ step'.tokens >= step.tokens /\ step'.budget >= step.budget
      /\ step'.next = IF v \in Reqs(E) THEN step.next - 1 ELSE step.next
      /\ v \notin Reqs(E) => step'.entries = step.entries
      /\ step'.pc = IF v = t.req THEN "finish" ELSE "allocate"
  <2>1. PICK s : s = Undo(step, v) BY Zenon
  <2>2. Undone(step, s, v) /\ s \in StepType BY Zenon, <1>8, <2>1 DEF Undone
  <2>3. step' = [s EXCEPT !.preempted = TRUE, !.pc = IF v = t.req THEN "finish" ELSE @]
    BY Zenon, <1>2, <2>1
  <2>4. s.pc = "allocate" BY Zenon, <1>1, <2>2 DEF Undone
  <2>5. /\ step' \in StepType /\ step'.try = s.try /\ step'.entries = s.entries
        /\ step'.tokens = s.tokens /\ step'.budget = s.budget /\ step'.next = s.next
        /\ step'.pc = IF v = t.req THEN "finish" ELSE "allocate"
    BY ONLY Zenon, <2>2, <2>3, <2>4 DEF StepType
  <2>6. WithinBudget(step') BY Zenon, <2>2, <2>5 DEF Undone, WithinBudget
  <2> QED BY Zenon, <2>2, <2>5, <2>6 DEF Undone, E, E2, t
<1>10. E2 \in SUBSET E /\ Reqs(E2) \subseteq Reqs(E) /\ v \notin Reqs(E2) BY Zenon, <1>9 DEF Reqs
<1>11. /\ QueuesOK(req', waiting', running') /\ Range(running') = Range(running) \ {v}
       /\ v \in Req /\ \A x \in Req \ {v} : req'[x] = req[x]
  BY Zenon, <1>1, <1>2, <1>5, PreemptQueues
<1>12. /\ Books(cache') /\ Shrinks(cache, cache')
       /\ \A h \in DOMAIN cache.cached : cache'.cached[h] = cache.cached[h] \ {v}
  BY <1>1, <1>2, <1>11, FreeBooks DEF PreemptRequest
<1>13. Keeps(cache, cache', Reqs(E2)) BY Zenon, <1>10, <1>12, FreeKeeps
<1>14. EntriesOK(cache', E2, req', running')
  <2>1. Reqs(E2) \subseteq Range(running) BY Zenon, <1>1, <1>10 DEF EntriesOK
  <2>2. Reqs(E2) \subseteq Range(running') BY Zenon, <1>10, <1>11, <2>1
  <2>3. \A x \in Reqs(E2) : req'[x].num_computed = req[x].num_computed
    BY Zenon, <1>3, <1>10, <1>11, <2>1
  <2> QED BY Zenon, <1>1, <1>10, <1>13, <2>2, <2>3, EntriesKept
<1>15. PlaceOK(step', running')
  <2>1. running' = Without(running, {running[k]}) BY Zenon, <1>2, <1>6 DEF PreemptRequest
  <2> QED BY Zenon, <1>1, <1>3, <1>6, <1>9, <1>10, <2>1, PlaceKept DEF E, E2, t
<1>16. TryStands(cache', step', req', running')
  <2> SUFFICES ASSUME step'.pc = "allocate" PROVE TryStands(cache', step', req', running')
    BY Zenon DEF TryStands
  <2>1. v # t.req BY Zenon, <1>9
  <2>2. req'[t.req] = req[t.req] /\ t.req \in Range(running') BY Zenon, <1>3, <1>4, <1>11, <2>1
  <2>3. t.req \notin Reqs(E2) BY Zenon, <1>4, <1>10
  <2>4. /\ t \in Try /\ t.n <= step.tokens /\ t.budget + Sizes(t.inputs) <= step.budget
        /\ req[t.req].num_computed + t.n <= NumTokens[t.req]
        /\ t.inputs \subseteq InputsOf(t.req) /\ t.inputs \cap DOMAIN cache.cached = {}
        /\ Sizes(t.inputs) <= cache.num_free_slots
    BY Zenon, <1>1 DEF TryStands, t
  <2>5. t.n <= step'.tokens /\ t.budget + Sizes(t.inputs) <= step'.budget
    <3>1. /\ step.tokens \in Nat /\ step'.tokens \in Nat /\ step.budget \in Nat
          /\ step'.budget \in Nat /\ t.n \in Nat /\ t.budget \in Nat /\ t.inputs \in SUBSET Hash
      BY Zenon, <1>1, <1>9, <2>4 DEF StepType, Try
    <3>2. Sizes(t.inputs) \in Nat BY Zenon, <3>1, SizesType
    <3>3. step'.tokens >= step.tokens /\ step'.budget >= step.budget BY Zenon, <1>9
    <3>4. t.n <= step.tokens /\ t.budget + Sizes(t.inputs) <= step.budget BY Zenon, <2>4
    <3> HIDE DEF t
    <3> QED BY ONLY <3>1, <3>2, <3>3, <3>4
  <2>6. t.inputs \cap DOMAIN cache'.cached = {} /\ Sizes(t.inputs) <= cache'.num_free_slots
    BY Zenon, <1>12, <2>4 DEF Shrinks
  <2> QED BY Zenon, <1>9, <2>2, <2>3, <2>4, <2>5, <2>6 DEF TryStands, E2
<1>17. Core(cache', step', req', waiting', running')
  BY Zenon, <1>9, <1>11, <1>12, <1>14, <1>15, <1>16 DEF Core, E2
<1>18. Fcfs => InPlace(step', running') /\ InStep(cache', step', worker)
  <2> SUFFICES ASSUME Fcfs PROVE InPlace(step', running') /\ InStep(cache', step', worker)
    BY Zenon
  <2>1. InPlace(step, running) /\ InStep(cache, step, worker) BY Zenon DEF Inv
  <2>2. /\ Len(running) \in Nat /\ DOMAIN running = 1..Len(running) /\ step.next \in Nat
        /\ step.next \in 1..Len(running) /\ running[step.next] = t.req
    BY Zenon, <1>1, <1>3, <2>1 DEF InPlace, t, StepType, Facts, LenProperties
  <2>3. Len(running) \in 1..Len(running) /\ running[Len(running)] = v BY <1>7, <2>2
  <2>4. v \notin Reqs(E)
    <3>1. v \in Reqs(E) => Len(running) < step.next BY Zenon, <1>1, <2>2, <2>3 DEF PlaceOK, E
    <3> QED BY ONLY <2>2, <3>1
  <2>5. InStep(cache', step', worker) BY Zenon, <1>9, <1>12, <2>1, <2>4, ShrinksInStep
  <2>6. ASSUME step'.pc = "allocate"
        PROVE  step'.next \in DOMAIN running' /\ running'[step'.next] = step'.try.req
    <3>1. v # t.req BY Zenon, <1>9, <2>6
    <3>2. step'.next = step.next /\ step.next < Len(running)
      <4>1. step.next # Len(running) BY Zenon, <2>2, <2>3, <3>1
      <4> QED BY ONLY <1>9, <2>2, <2>4, <4>1
    <3>3. running' = Without(running, {running[Len(running)]}) BY Zenon, <1>2, <2>3 DEF PreemptRequest
    <3>4. /\ running' \in Seq(Req) /\ Len(running') = Len(running) - 1
          /\ \A j \in 1..(Len(running) - 1) :
               running'[j] = IF j < Len(running) THEN running[j] ELSE running[j + 1]
      BY Zenon, <1>3, <2>3, <3>3 DEF Facts, DropOne
    <3>5. step.next \in 1..(Len(running) - 1) BY ONLY <2>2, <3>2
    <3>6. DOMAIN running' = 1..(Len(running) - 1) BY Zenon, <3>4 DEF Facts, LenProperties
    <3> QED BY Zenon, <1>9, <2>2, <3>2, <3>4, <3>5, <3>6
  <2> QED BY Zenon, <2>5, <2>6 DEF InPlace
<1>19. NoDrafts => NeedsMet(cache', step', req')
  <2> SUFFICES ASSUME NoDrafts PROVE NeedsMet(cache', step', req') BY Zenon
  <2>1. NeedsMet(cache, step, req) BY Zenon DEF Inv
  <2>2. \A e \in E2 : Needs(cache', e.req, e.start, e.n, {})
    BY Zenon, <1>10, <1>13, <2>1, EntriesNeed DEF E
  <2>3. ASSUME step'.pc = "allocate"
        PROVE  Needs(cache', t.req, req'[t.req].num_computed, t.n, t.inputs)
    <3>1. v # t.req BY Zenon, <1>9, <2>3
    <3>2. req'[t.req] = req[t.req] BY Zenon, <1>3, <1>4, <1>11, <3>1
    <3>3. Keeps(cache, cache', {t.req}) BY Zenon, <1>12, <3>1, FreeKeeps
    <3>4. Needs(cache, t.req, req[t.req].num_computed, t.n, t.inputs)
      BY Zenon, <1>1, <2>1 DEF NeedsMet, t
    <3> QED BY Zenon, <3>2, <3>3, <3>4, NeedsKept
  <2> QED BY Zenon, <1>9, <2>2, <2>3 DEF NeedsMet, E2
<1>20. NoDrafts /\ Apart => Pinned(cache', running')
  BY Zenon, <1>11, <1>12 DEF Inv, Pinned, Shrinks
<1>21. Quiet' BY ONLY <1>1, <1>2, <1>9 DEF Quiet
<1>22. RestOK'
  <2>1. shortages' \in 0..MaxShortages BY ONLY <1>1, <1>2, EncoderAssumption DEF RestOK
  <2> QED BY Zenon, <1>1, <1>2, <2>1 DEF RestOK
<1> QED BY Zenon, <1>2, <1>17, <1>18, <1>19, <1>20, <1>21, <1>22 DEF Inv, Fcfs, NoDrafts

-----------------------------------------------------------------------------
(* The theorems *)

\* Every step preserves the invariant.
LEMMA NextInv ==
  ASSUME Facts, Inv, [Next]_vars
  PROVE  Inv'
<1>1. CASE Engine
  BY Zenon, <1>1, BeginScheduleInv, TryRunningInv, PreemptInv, ScheduleRunningInv, EndRunningInv,
     ScheduleWaitingInv, EndWaitingInv, FinishScheduleInv, UpdateInv DEF Engine
<1>2. CASE ResetEncoderCache BY Zenon, <1>2, ResetInv
<1>3. CASE \E r \in Req : AddRequest(r) \/ Abort(r) BY Zenon, <1>3, AddRequestInv, AbortInv
<1>4. CASE UNCHANGED vars
  BY Zenon, <1>4 DEF vars, Inv, Core, Quiet, RestOK, Fcfs, NoDrafts, InPlace, InStep, NeedsMet, Pinned
<1> QED BY Zenon, <1>1, <1>2, <1>3, <1>4 DEF Next

\* The invariant implies the manager's properties.
LEMMA SlotsByInv ==
  ASSUME Facts, Inv
  PROVE  SlotsAccountedFor /\ NoFailure
<1>1. /\ Books(cache) /\ BooksSay(cache) /\ RestOK /\ step \in StepType /\ WithinBudget(step)
      /\ QueuesOK(req, waiting, running)
  BY Zenon, BooksFacts DEF Inv, Core
<1>2. SlotsExact(cache) /\ FreeableExact(cache) /\ ~ cache.err BY Zenon, <1>1 DEF Books
<1>3. DOMAIN cache.cached \subseteq Hash /\ \A h \in DOMAIN cache.cached : cache.cached[h] \subseteq Req
  BY Zenon, <1>1, TableFacts DEF BooksSay
<1>4. \A r \in Req : req[r].num_computed \in 0..NumTokens[r]
  BY ONLY <1>1, EncoderAssumption DEF QueuesOK
<1>5. step.tokens \in 0..TokenBudget /\ step.budget \in 0..ComputeBudget
  <2> DEFINE E == Range(step.entries)
  <2>1. E \in SUBSET Entry /\ IsFiniteSet(E) BY Zenon, <1>1, RangeFinite DEF StepType
  <2>2. step.tokens \in Nat /\ step.budget \in Nat BY Zenon, <1>1 DEF StepType
  <2>3. /\ step.tokens + Cardinality(TokensOf(E)) <= TokenBudget
        /\ step.budget + Cardinality(EmbedsOf(E)) <= ComputeBudget
    BY Zenon, <1>1 DEF WithinBudget
  <2> HIDE DEF E
  <2>4. Cardinality(TokensOf(E)) \in Nat /\ Cardinality(EmbedsOf(E)) \in Nat
    BY Zenon, <2>1, SumsFinite
  <2>5. TokenBudget \in Nat /\ ComputeBudget \in Nat BY Zenon, EncoderAssumption
  <2> QED BY ONLY <2>2, <2>3, <2>4, <2>5
<1>6. TypeOK BY Zenon, <1>1, <1>3, <1>4, <1>5 DEF TypeOK, RestOK
<1> QED BY Zenon, <1>2, <1>6 DEF SlotsAccountedFor, NoFailure

\* The invariant implies that only running requests pin outputs.
LEMMA NothingPinnedByInv ==
  ASSUME Inv, Apart
  PROVE  config.shift = 0 => NothingPinned
BY Zenon DEF Inv, NothingPinned, Pinned, NoDrafts

\* The invariant implies that the worker is in step.
LEMMA WorkerByInv ==
  ASSUME Facts, Inv
  PROVE  config.policy = "fcfs" => WorkerInStep
<1>1. At("idle") => step.pc \in {"idle", "update"} BY Zenon DEF At
<1>2. ASSUME config.policy = "fcfs", At("idle") PROVE worker = DOMAIN cache.cached
  BY Zenon, <1>1, <1>2, BetweenSteps DEF Fcfs
<1> QED BY Zenon, <1>2 DEF WorkerInStep

\* The invariant implies that no step misses an output.
LEMMA NoMissByInv ==
  ASSUME Inv
  PROVE  config.policy = "fcfs" /\ config.shift = 0 => NoCacheMiss
BY Zenon DEF Inv, NoCacheMiss, Fcfs, NoDrafts

\* The facts that the lemmas assume, proved from the libraries.
INSTANCE SeqFilterProofs

\* The invariant holds in every reachable state.
LEMMA Invariance == Spec => []Inv
<1>1. Init => Inv BY Zenon, FactsHold, InitInv
<1>2. Inv /\ [Next]_vars => Inv' BY Zenon, FactsHold, NextInv
<1> QED BY <1>1, <1>2, PTL DEF Spec

\* The two counters of the encoder-cache manager always are the sizes of what its
\* dictionaries hold, freeable holds exactly the outputs nobody refers to, and the
\* token and encoder budgets of schedule() are never overdrawn: after can_allocate,
\* check_and_update_cache, allocate, free and the resets, in any order in which
\* the scheduler calls them, for any requests, inputs, budgets and cache size.
THEOREM SlotsStayAccounted == Spec => []SlotsAccountedFor
<1>1. Inv => SlotsAccountedFor BY Zenon, FactsHold, SlotsByInv
<1> QED BY <1>1, Invariance, PTL

\* allocate() never fails its assertions and can_allocate() never pops from an
\* empty freeable dictionary.
THEOREM ManagerNeverFails == Spec => []NoFailure
<1>1. Inv => NoFailure BY Zenon, FactsHold, SlotsByInv
<1> QED BY <1>1, Invariance, PTL

\* Without EAGLE's look-ahead, and when the inputs of a prompt are in order and do
\* not overlap, only running requests keep outputs from being evicted: preempting,
\* aborting, ending or not admitting a request releases all it referred to.
THEOREM OutputsAreReleased ==
  ASSUME Apart
  PROVE  Spec => [](config.shift = 0 => NothingPinned)
<1>1. Inv => (config.shift = 0 => NothingPinned) BY Zenon, NothingPinnedByInv
<1> QED BY <1>1, Invariance, PTL

\* Under first-come first-served scheduling the worker's encoder_cache and the
\* manager's cached dictionary have the same keys between steps: what the manager
\* evicts is freed in the worker and what it allocates is computed, whatever the
\* order of preemptions, aborts, resets and pipelined batches.
THEOREM WorkerStaysInStep == Spec => [](config.policy = "fcfs" => WorkerInStep)
<1>1. Inv => (config.policy = "fcfs" => WorkerInStep) BY Zenon, FactsHold, WorkerByInv
<1> QED BY <1>1, Invariance, PTL

\* Under first-come first-served scheduling, without EAGLE's look-ahead, no step
\* fails with "Encoder cache miss": every output that the step's tokens need is
\* in the worker's cache when the step runs.
THEOREM NoStepMisses ==
  Spec => [](config.policy = "fcfs" /\ config.shift = 0 => NoCacheMiss)
<1>1. Inv => (config.policy = "fcfs" /\ config.shift = 0 => NoCacheMiss) BY Zenon, NoMissByInv
<1> QED BY <1>1, Invariance, PTL

=============================================================================
