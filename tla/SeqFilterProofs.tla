-------------------------- MODULE SeqFilterProofs --------------------------
(***************************************************************************)
(* What Without computes.  The induction over the sequence goes through    *)
(* the least element of a set of naturals, which is a first-order fact.    *)
(***************************************************************************)
EXTENDS SeqFacts, FiniteSetTheorems, TLAPS

(* The facts about sequences that the proofs cite *)

\* A sequence as a function, and its length.
LEMMA LenLemma ==
  ASSUME NEW X, NEW s \in Seq(X)
  PROVE  Len(s) \in Nat /\ DOMAIN s = 1..Len(s) /\ s \in [1..Len(s) -> X]
OBVIOUS

\* Where the elements of a sequence are from.
LEMMA ElementOfSeqLemma ==
  ASSUME NEW X, NEW s \in Seq(X), NEW i \in 1..Len(s)
  PROVE  s[i] \in X
OBVIOUS

\* The only sequence of length 0.
LEMMA EmptySeqLemma ==
  ASSUME NEW X
  PROVE  << >> \in Seq(X) /\ Len(<< >>) = 0 /\ \A s \in Seq(X) : Len(s) = 0 => s = << >>
OBVIOUS

\* What Append computes.
LEMMA AppendLemma ==
  ASSUME NEW X, NEW s \in Seq(X), NEW x \in X
  PROVE  /\ Append(s, x) \in Seq(X) /\ Len(Append(s, x)) = Len(s) + 1
         /\ \A i \in 1..Len(s) : Append(s, x)[i] = s[i]
         /\ Append(s, x)[Len(s) + 1] = x
OBVIOUS

\* What concatenation computes.
LEMMA ConcatLemma ==
  ASSUME NEW X, NEW s \in Seq(X), NEW t \in Seq(X)
  PROVE  /\ s \o t \in Seq(X) /\ Len(s \o t) = Len(s) + Len(t)
         /\ \A i \in 1..(Len(s) + Len(t)) :
              (s \o t)[i] = IF i <= Len(s) THEN s[i] ELSE t[i - Len(s)]
OBVIOUS

\* What SubSeq computes.
LEMMA SubSeqLemma ==
  ASSUME NEW X, NEW s, NEW m \in Int, NEW n \in Int, \A i \in m..n : s[i] \in X
  PROVE  /\ SubSeq(s, m, n) \in Seq(X)
         /\ Len(SubSeq(s, m, n)) = IF m <= n THEN n - m + 1 ELSE 0
         /\ \A i \in 1..(n - m + 1) : SubSeq(s, m, n)[i] = s[m + i - 1]
OBVIOUS

(* Induction *)

\* A non-empty set of naturals has a least element.
LEMMA LeastLemma ==
  ASSUME NEW T \in SUBSET Nat, T # {}
  PROVE  \E n \in T : \A m \in T : n <= m
<1>1. IsWellFoundedOn(OpToRel(<, Nat), Nat)
  BY Zenon, NatLessThanWellFounded
<1>2. PICK n \in T : \A m \in T : ~ (<<m, n>> \in OpToRel(<, Nat))
  BY Zenon, <1>1, WFMin
<1>3. ASSUME NEW m \in T, m < n PROVE FALSE
  <2>1. <<m, n>> \in Nat \X Nat BY Zenon
  <2>2. <<m, n>> \in {ss \in Nat \X Nat : ss[1] < ss[2]}
    BY <1>3, <2>1, SMT
  <2>3. OpToRel(<, Nat) = {ss \in Nat \X Nat : ss[1] < ss[2]}
    BY Zenon DEF OpToRel
  <2> QED BY Zenon, <2>2, <2>3, <1>2
<1> QED BY ONLY <1>3

\* Induction over an interval, with the induction hypothesis a set.
LEMMA IntervalInductionLemma ==
  ASSUME NEW n \in Nat, NEW T, 0 \in T,
         \A i \in 0..(n - 1) : i \in T => i + 1 \in T
  PROVE  \A i \in 0..n : i \in T
<1> DEFINE Bad == (0..n) \ T
<1> SUFFICES ASSUME Bad # {} PROVE FALSE OBVIOUS
<1>1. PICK k \in Bad : \A m \in Bad : k <= m
  <2>1. Bad \in SUBSET Nat OBVIOUS
  <2> HIDE DEF Bad
  <2> QED BY <2>1, LeastLemma
<1>2. k # 0 /\ k - 1 \in 0..(n - 1) BY <1>1
<1>3. k - 1 \in T BY ONLY <1>1, <1>2
<1>4. (k - 1) + 1 \in T BY <1>2, <1>3
<1> QED BY ONLY <1>1, <1>4

\* One step of the recursion of Without.
FilterStep(s, S, F, i) ==
    IF i = 0 THEN << >>
    ELSE IF s[i] \in S THEN F[i - 1]
    ELSE Append(F[i - 1], s[i])

\* The recursive definition inside Without has a solution.
LEMMA FilterExists ==
  ASSUME NEW X, NEW s \in Seq(X), NEW S
  PROVE  \E F : F = [i \in 0..Len(s) |-> FilterStep(s, S, F, i)]
<1> DEFINE Ok(n) == \E F \in [0..n -> Seq(X)] :
                       \A i \in 0..n : F[i] = FilterStep(s, S, F, i)
           T == {n \in 0..Len(s) : Ok(n)}
<1>0. Len(s) \in Nat BY ONLY LenLemma
<1>1. Ok(0)
  <2> DEFINE F == [i \in 0..0 |-> << >>]
  <2>1. F \in [0..0 -> Seq(X)] BY ONLY EmptySeqLemma
  <2>2. \A i \in 0..0 : F[i] = FilterStep(s, S, F, i) BY DEF FilterStep
  <2> QED BY ONLY <2>1, <2>2
<1>2. ASSUME NEW n \in 0..(Len(s) - 1), Ok(n) PROVE Ok(n + 1)
  <2>1. PICK F \in [0..n -> Seq(X)] :
             \A i \in 0..n : F[i] = FilterStep(s, S, F, i)
    BY Zenon, <1>2
  <2> DEFINE G == [i \in 0..(n + 1) |->
                     IF i <= n THEN F[i]
                     ELSE IF s[n + 1] \in S THEN F[n]
                     ELSE Append(F[n], s[n + 1])]
  <2>2. G \in [0..(n + 1) -> Seq(X)] OBVIOUS
  <2>3. ASSUME NEW i \in 0..(n + 1) PROVE G[i] = FilterStep(s, S, G, i)
    <3>1. CASE i = 0 BY ONLY <3>1, <2>1 DEF FilterStep
    <3>2. CASE i \in 1..n
      <4>1. G[i] = F[i] /\ G[i - 1] = F[i - 1] BY ONLY <3>2
      <4>2. F[i] = FilterStep(s, S, F, i) BY ONLY <3>2, <2>1
      <4> QED BY ONLY <3>2, <4>1, <4>2 DEF FilterStep
    <3>3. CASE i = n + 1 BY ONLY <3>3 DEF FilterStep
    <3> QED BY ONLY <3>1, <3>2, <3>3
  <2> QED BY ONLY <2>2, <2>3
<1>3. \A n \in 0..Len(s) : n \in T
  <2>1. 0 \in T BY ONLY <1>0, <1>1
  <2>2. \A i \in 0..(Len(s) - 1) : i \in T => i + 1 \in T
    <3> HIDE DEF Ok
    <3> QED BY ONLY <1>0, <1>2
  <2> HIDE DEF T
  <2> QED BY <1>0, <2>1, <2>2, IntervalInductionLemma, Zenon
<1>4. Ok(Len(s))
  <2> HIDE DEF Ok
  <2> QED BY ONLY <1>0, <1>3
<1>5. PICK F \in [0..Len(s) -> Seq(X)] :
           \A i \in 0..Len(s) : F[i] = FilterStep(s, S, F, i)
  BY ONLY <1>4
<1>6. F = [i \in 0..Len(s) |-> FilterStep(s, S, F, i)] BY ONLY <1>5
<1> QED BY ONLY <1>6

\* Without(s, S) is a sequence of exactly the elements of s outside S, and it
\* repeats none that s does not repeat.
LEMMA WithoutLemma ==
  ASSUME NEW X, NEW s \in Seq(X), NEW S
  PROVE  /\ Without(s, S) \in Seq(X)
         /\ Range(Without(s, S)) = Range(s) \ S
         /\ DistinctOutside(s, S) => IsInjective(Without(s, S))
         /\ IsInjective(s) => IsInjective(Without(s, S))
<1> DEFINE F == CHOOSE G : G = [i \in 0..Len(s) |-> FilterStep(s, S, G, i)]
           Good(i) == /\ F[i] \in Seq(X)
                      /\ Range(F[i]) = {s[j] : j \in 1..i} \ S
                      /\ DistinctOutside(s, S) => IsInjective(F[i])
           T == {i \in 0..Len(s) : Good(i)}
<1>0. Len(s) \in Nat /\ DOMAIN s = 1..Len(s) BY ONLY LenLemma
<1>1. F = [i \in 0..Len(s) |-> FilterStep(s, S, F, i)]
  BY ONLY FilterExists
<1>2. Without(s, S) = F[Len(s)]
  BY DEF Without, FilterStep
<1> HIDE DEF F
<1>3. \A i \in 0..Len(s) : F[i] = FilterStep(s, S, F, i)
  BY ONLY <1>1
<1>4. Good(0)
  <2>1. F[0] = << >> BY ONLY <1>0, <1>3 DEF FilterStep
  <2>2. {s[j] : j \in 1..0} = {} OBVIOUS
  <2> QED BY ONLY <2>1, <2>2, EmptySeqLemma DEF Range, IsInjective
<1>5. ASSUME NEW n \in 0..(Len(s) - 1), Good(n) PROVE Good(n + 1)
  <2>0. n \in Nat /\ n + 1 \in 1..Len(s) BY ONLY <1>0
  <2>1. F[n + 1] = IF s[n + 1] \in S THEN F[n] ELSE Append(F[n], s[n + 1])
    BY ONLY <1>3, <2>0 DEF FilterStep
  <2>2. {s[j] : j \in 1..(n + 1)} = {s[j] : j \in 1..n} \union {s[n + 1]}
    BY ONLY <2>0
  <2>3. CASE s[n + 1] \in S
    BY ONLY <1>5, <2>1, <2>2, <2>3
  <2>4. CASE s[n + 1] \notin S
    <3> DEFINE e == s[n + 1]  G == F[n]
    <3>1. e \in X BY ONLY <2>0, ElementOfSeqLemma
    <3>2. G \in Seq(X) BY ONLY <1>5
    <3>3. F[n + 1] = Append(G, e) BY ONLY <2>1, <2>4
    <3> HIDE DEF e, G
    <3>4. /\ Append(G, e) \in Seq(X)
          /\ DOMAIN Append(G, e) = 1..(Len(G) + 1)
          /\ \A i \in 1..Len(G) : Append(G, e)[i] = G[i]
          /\ Append(G, e)[Len(G) + 1] = e
          /\ DOMAIN G = 1..Len(G) /\ Len(G) \in Nat
      BY ONLY <3>1, <3>2, AppendLemma, LenLemma
    <3>5. Range(Append(G, e)) = Range(G) \union {e}
      BY ONLY <3>4 DEF Range
    <3>6. Range(F[n + 1]) = {s[j] : j \in 1..(n + 1)} \ S
      BY ONLY <1>5, <2>2, <2>4, <3>3, <3>5 DEF e, G
    <3>7. ASSUME DistinctOutside(s, S) PROVE IsInjective(Append(G, e))
      <4>1. e \notin Range(G)
        <5>1. SUFFICES ASSUME NEW j \in 1..n, s[j] = s[n + 1] PROVE FALSE
          BY <1>5 DEF e, G
        <5> QED BY ONLY <1>0, <2>0, <2>4, <3>7, <5>1 DEF DistinctOutside
      <4>2. IsInjective(G) BY ONLY <1>5, <3>7 DEF G
      <4> QED BY ONLY <3>4, <4>1, <4>2 DEF IsInjective, Range
    <3> QED BY ONLY <3>3, <3>4, <3>6, <3>7
  <2> QED BY ONLY <2>3, <2>4
<1>6. \A i \in 0..Len(s) : i \in T
  <2>1. 0 \in T BY ONLY <1>0, <1>4
  <2>2. \A i \in 0..(Len(s) - 1) : i \in T => i + 1 \in T
    <3> HIDE DEF Good
    <3> QED BY ONLY <1>0, <1>5
  <2> HIDE DEF T
  <2> QED BY <1>0, <2>1, <2>2, IntervalInductionLemma, Zenon
<1>7. Good(Len(s))
  <2> HIDE DEF Good
  <2> QED BY ONLY <1>0, <1>6
<1>8. IsInjective(s) => DistinctOutside(s, S)
  BY DEF IsInjective, DistinctOutside
<1>9. Range(s) = {s[j] : j \in 1..Len(s)} BY ONLY <1>0 DEF Range
<1> QED BY ONLY <1>2, <1>7, <1>8, <1>9

\* Without(s, S) is shorter than s by the elements dropped.
LEMMA WithoutLengthLemma ==
  ASSUME NEW X, NEW s \in Seq(X), NEW S
  PROVE  Len(Without(s, S)) = Len(s) - Cardinality({j \in 1..Len(s) : s[j] \in S})
<1> DEFINE F == CHOOSE G : G = [i \in 0..Len(s) |-> FilterStep(s, S, G, i)]
           Drop(i) == {j \in 1..i : s[j] \in S}
           Good(i) == F[i] \in Seq(X) /\ Len(F[i]) = i - Cardinality(Drop(i))
           T == {i \in 0..Len(s) : Good(i)}
<1>0. Len(s) \in Nat BY ONLY LenLemma
<1>1. F = [i \in 0..Len(s) |-> FilterStep(s, S, F, i)]
  BY ONLY FilterExists
<1>2. Without(s, S) = F[Len(s)]
  BY DEF Without, FilterStep
<1> HIDE DEF F
<1>3. \A i \in 0..Len(s) : F[i] = FilterStep(s, S, F, i)
  BY ONLY <1>1
<1>4. Good(0)
  <2>1. F[0] = << >> BY ONLY <1>0, <1>3 DEF FilterStep
  <2>2. Drop(0) = {} OBVIOUS
  <2>3. Cardinality(Drop(0)) = 0 BY ONLY <2>2, FS_EmptySet
  <2> QED BY ONLY <2>1, <2>3, EmptySeqLemma
<1>5. ASSUME NEW n \in 0..(Len(s) - 1), Good(n) PROVE Good(n + 1)
  <2>0. n \in Nat /\ n + 1 \in 1..Len(s) BY ONLY <1>0
  <2>1. F[n + 1] = IF s[n + 1] \in S THEN F[n] ELSE Append(F[n], s[n + 1])
    BY ONLY <1>3, <2>0 DEF FilterStep
  <2>2. IsFiniteSet(Drop(n)) /\ Cardinality(Drop(n)) \in Nat
    <3>1. IsFiniteSet(1..n) /\ Drop(n) \subseteq 1..n BY ONLY <2>0, FS_Interval
    <3> QED BY ONLY <3>1, FS_Subset, FS_CardinalityType
  <2>3. CASE s[n + 1] \in S
    <3>1. Drop(n + 1) = Drop(n) \union {n + 1} /\ n + 1 \notin Drop(n)
      BY ONLY <2>0, <2>3
    <3>2. Cardinality(Drop(n + 1)) = Cardinality(Drop(n)) + 1
      BY <2>2, <3>1, FS_AddElement, Zenon
    <3>3. F[n + 1] = F[n] BY ONLY <2>1, <2>3
    <3> HIDE DEF Drop
    <3> QED BY ONLY <1>5, <2>0, <2>2, <3>2, <3>3
  <2>4. CASE s[n + 1] \notin S
    <3>1. Drop(n + 1) = Drop(n) BY ONLY <2>0, <2>4
    <3>2. s[n + 1] \in X BY ONLY <2>0, ElementOfSeqLemma
    <3>3. F[n + 1] = Append(F[n], s[n + 1]) BY ONLY <2>1, <2>4
    <3> HIDE DEF Drop
    <3>4. F[n + 1] \in Seq(X) /\ Len(F[n + 1]) = Len(F[n]) + 1
      BY ONLY <1>5, <3>2, <3>3, AppendLemma
    <3> QED BY ONLY <1>5, <2>0, <2>2, <3>1, <3>4
  <2> QED BY ONLY <2>3, <2>4
<1>6. \A i \in 0..Len(s) : i \in T
  <2>1. 0 \in T BY ONLY <1>0, <1>4
  <2>2. \A i \in 0..(Len(s) - 1) : i \in T => i + 1 \in T
    <3> HIDE DEF Good
    <3> QED BY ONLY <1>0, <1>5
  <2> HIDE DEF T
  <2> QED BY ONLY <1>0, <2>1, <2>2, IntervalInductionLemma
<1>7. Good(Len(s))
  <2> HIDE DEF Good
  <2> QED BY ONLY <1>0, <1>6
<1> QED BY ONLY <1>2, <1>7

\* Of a sequence without repetitions, what is behind the dropped element moves up
\* by one.
LEMMA DropOneLemma ==
  ASSUME NEW X, NEW q \in Seq(X), IsInjective(q), NEW k \in 1..Len(q)
  PROVE  LET r == Without(q, {q[k]})
         IN  /\ r \in Seq(X) /\ IsInjective(r) /\ Len(r) = Len(q) - 1
             /\ Range(r) = Range(q) \ {q[k]}
             /\ \A j \in 1..(Len(q) - 1) : r[j] = IF j < k THEN q[j] ELSE q[j + 1]
<1> DEFINE S == {q[k]}
           F == CHOOSE G : G = [i \in 0..Len(q) |-> FilterStep(q, S, G, i)]
           Skip(j) == IF j < k THEN q[j] ELSE q[j + 1]
           Good(i) == /\ F[i] \in Seq(X)
                      /\ Len(F[i]) = IF i < k THEN i ELSE i - 1
                      /\ \A j \in 1..Len(F[i]) : F[i][j] = Skip(j)
           T == {i \in 0..Len(q) : Good(i)}
<1>0. /\ Len(q) \in Nat /\ q \in Seq(X) /\ IsInjective(q)
      /\ \A i \in 1..Len(q) : q[i] \in X
      /\ \A i, j \in 1..Len(q) : q[i] = q[j] => i = j
  BY LenLemma, ElementOfSeqLemma DEF IsInjective
<1>1. F = [i \in 0..Len(q) |-> FilterStep(q, S, F, i)] BY Zenon, <1>0, FilterExists
<1>2. Without(q, S) = F[Len(q)] BY DEF Without, FilterStep
<1> HIDE DEF F
<1>3. \A i \in 0..Len(q) : F[i] = FilterStep(q, S, F, i) BY ONLY <1>1
<1>4. Good(0)
  <2>1. F[0] = << >> BY ONLY <1>0, <1>3 DEF FilterStep
  <2> QED BY ONLY <1>0, <2>1, EmptySeqLemma
<1>5. ASSUME NEW n \in 0..(Len(q) - 1), Good(n) PROVE Good(n + 1)
  <2>0. n \in Nat /\ n + 1 \in 1..Len(q) /\ n + 1 # 0 BY ONLY <1>0
  <2>1. F[n + 1] = IF q[n + 1] \in S THEN F[n] ELSE Append(F[n], q[n + 1])
    BY ONLY <1>3, <2>0 DEF FilterStep
  <2>2. q[n + 1] \in S <=> n + 1 = k BY ONLY <1>0, <2>0
  <2>3. CASE n + 1 = k
    <3>1. F[n + 1] = F[n] BY ONLY <2>1, <2>2, <2>3
    <3> HIDE DEF Skip
    <3> QED BY ONLY <1>5, <2>0, <2>3, <3>1
  <2>4. CASE n + 1 # k
    <3> DEFINE f == F[n]
               x == q[n + 1]
    <3>1. F[n + 1] = Append(f, x) BY ONLY <2>1, <2>2, <2>4
    <3>2. /\ f \in Seq(X) /\ x \in X /\ Len(f) = IF n < k THEN n ELSE n - 1
          /\ \A j \in 1..Len(f) : f[j] = Skip(j)
      BY ONLY <1>0, <1>5, <2>0
    <3>3. x = Skip(Len(f) + 1) BY ONLY <2>0, <2>4, <3>2
    <3> HIDE DEF f, x, Skip
    <3>4. /\ Append(f, x) \in Seq(X) /\ Len(Append(f, x)) = Len(f) + 1 /\ Len(f) \in Nat
          /\ \A j \in 1..Len(f) : Append(f, x)[j] = f[j]
          /\ Append(f, x)[Len(f) + 1] = x
      BY ONLY <3>2, AppendLemma
    <3>5. Len(f) + 1 = IF n + 1 < k THEN n + 1 ELSE (n + 1) - 1 BY ONLY <2>0, <2>4, <3>2
    <3>6. \A j \in 1..(Len(f) + 1) : Append(f, x)[j] = Skip(j) BY ONLY <3>2, <3>3, <3>4
    <3> QED BY ONLY <3>1, <3>4, <3>5, <3>6
  <2> QED BY ONLY <2>3, <2>4
<1>6. \A i \in 0..Len(q) : i \in T
  <2>1. 0 \in T BY ONLY <1>0, <1>4
  <2>2. \A i \in 0..(Len(q) - 1) : i \in T => i + 1 \in T
    <3> HIDE DEF Good
    <3> QED BY ONLY <1>0, <1>5
  <2> HIDE DEF T
  <2> QED BY Zenon, <1>0, <2>1, <2>2, IntervalInductionLemma
<1>7. Good(Len(q))
  <2> HIDE DEF Good
  <2> QED BY ONLY <1>0, <1>6
<1>8. Len(F[Len(q)]) = Len(q) - 1 BY ONLY <1>0, <1>7
<1>9. IsInjective(Without(q, S)) /\ Range(Without(q, S)) = Range(q) \ S
  BY ONLY <1>0, WithoutLemma
<1> QED BY Zenon, <1>2, <1>7, <1>8, <1>9

\* A queue without repetitions cut after its n-th element.
LEMMA SplitLemma ==
  ASSUME NEW X, NEW s \in Seq(X), IsInjective(s), NEW n \in 0..Len(s)
  PROVE  LET head == SubSeq(s, 1, n)
             rest == SubSeq(s, n + 1, Len(s))
         IN  /\ head \in Seq(X) /\ Len(head) = n
             /\ rest \in Seq(X) /\ Len(rest) = Len(s) - n
             /\ IsInjective(head) /\ IsInjective(rest)
             /\ Range(head) \subseteq Range(s)
             /\ Range(rest) = Range(s) \ Range(head)
             /\ \A i \in 1..n : head[i] = s[i]
             /\ \A i \in 1..(Len(s) - n) : rest[i] = s[n + i]
<1> DEFINE head == SubSeq(s, 1, n)
           rest == SubSeq(s, n + 1, Len(s))
<1>0. Len(s) \in Nat /\ DOMAIN s = 1..Len(s) /\ \A i \in 1..Len(s) : s[i] \in X
  BY ONLY LenLemma, ElementOfSeqLemma
<1>1. /\ head \in Seq(X) /\ Len(head) = n
      /\ \A i \in 1..n : head[i] = s[i]
  BY ONLY <1>0, SubSeqLemma
<1>2. /\ rest \in Seq(X) /\ Len(rest) = Len(s) - n
      /\ \A i \in 1..(Len(s) - n) : rest[i] = s[n + i]
  <2>1. \A i \in (n + 1)..Len(s) : s[i] \in X BY ONLY <1>0
  <2>2. /\ rest \in Seq(X)
        /\ Len(rest) = IF n + 1 <= Len(s) THEN Len(s) - (n + 1) + 1 ELSE 0
        /\ \A i \in 1..(Len(s) - (n + 1) + 1) : rest[i] = s[(n + 1) + i - 1]
    BY ONLY <1>0, <2>1, SubSeqLemma
  <2> HIDE DEF rest
  <2>3. Len(rest) = Len(s) - n
    <3>1. CASE n + 1 <= Len(s)
      <4>1. Len(rest) = Len(s) - (n + 1) + 1 BY ONLY <2>2, <3>1
      <4> QED BY ONLY <1>0, <4>1
    <3>2. CASE ~ (n + 1 <= Len(s))
      <4>1. Len(rest) = 0 BY ONLY <2>2, <3>2
      <4>2. n = Len(s)
        <5>1. Len(s) \in Nat /\ n \in Nat /\ n <= Len(s) BY ONLY <1>0
        <5> QED BY ONLY <3>2, <5>1
      <4> QED BY ONLY <1>0, <4>1, <4>2
    <3> QED BY ONLY <3>1, <3>2
  <2>4. ASSUME NEW i \in 1..(Len(s) - n) PROVE rest[i] = s[n + i]
    <3>1. i \in 1..(Len(s) - (n + 1) + 1) /\ (n + 1) + i - 1 = n + i BY ONLY <1>0
    <3> QED BY ONLY <2>2, <3>1
  <2> QED BY ONLY <2>2, <2>3, <2>4
<1>3. DOMAIN head = 1..n /\ DOMAIN rest = 1..(Len(s) - n)
  BY ONLY <1>1, <1>2, LenLemma
<1> HIDE DEF head, rest
<1>4. IsInjective(head) BY <1>0, <1>1, <1>3 DEF IsInjective
<1>5. IsInjective(rest)
  <2> SUFFICES ASSUME NEW i \in 1..(Len(s) - n), NEW j \in 1..(Len(s) - n),
                      rest[i] = rest[j]
               PROVE  i = j
    BY <1>3 DEF IsInjective
  <2>1. s[n + i] = s[n + j] BY <1>2
  <2>2. n + i \in DOMAIN s /\ n + j \in DOMAIN s BY ONLY <1>0
  <2>3. n + i = n + j BY <2>1, <2>2 DEF IsInjective
  <2> QED BY ONLY <2>3
<1>6. Range(head) \subseteq Range(s) BY ONLY <1>0, <1>1, <1>3 DEF Range
<1>7. Range(rest) = Range(s) \ Range(head)
  <2>1. ASSUME NEW x \in Range(rest) PROVE x \in Range(s) \ Range(head)
    <3>1. PICK i \in 1..(Len(s) - n) : x = s[n + i] BY ONLY <1>2, <1>3 DEF Range
    <3>2. n + i \in 1..Len(s) BY ONLY <1>0
    <3>3. ASSUME NEW j \in 1..n, head[j] = x PROVE FALSE
      <4>1. s[j] = s[n + i] /\ j \in 1..Len(s) BY ONLY <1>0, <1>1, <3>1, <3>3
      <4>2. j = n + i BY <1>0, <3>2, <4>1 DEF IsInjective
      <4> QED BY ONLY <4>2
    <3> QED BY ONLY <1>0, <1>3, <3>1, <3>2, <3>3 DEF Range
  <2>2. ASSUME NEW x \in Range(s), x \notin Range(head) PROVE x \in Range(rest)
    <3>1. PICK i \in 1..Len(s) : x = s[i] BY ONLY <1>0 DEF Range
    <3>2. i > n BY ONLY <1>1, <1>3, <2>2, <3>1 DEF Range
    <3>3. i - n \in 1..(Len(s) - n) /\ rest[i - n] = s[n + (i - n)]
      BY ONLY <1>0, <1>2, <3>2
    <3> QED BY ONLY <1>0, <1>3, <3>1, <3>3 DEF Range
  <2> QED BY ONLY <2>1, <2>2
<1> QED BY ONLY <1>1, <1>2, <1>4, <1>5, <1>6, <1>7 DEF head, rest

\* s \o t is the concatenation of s and t in this sense.
LEMMA ConcatEntriesLemma ==
  ASSUME NEW X, NEW s \in Seq(X), NEW t \in Seq(X)
  PROVE  s \o t \in Seq(X) /\ IsConcat(s \o t, s, t)
<1>1. s \o t \in Seq(X) /\ Len(s) \in Nat /\ Len(t) \in Nat
  BY ONLY ConcatLemma, LenLemma
<1>2. Len(s \o t) = Len(s) + Len(t) BY ONLY ConcatLemma
<1>3. DOMAIN (s \o t) = 1..(Len(s) + Len(t)) BY ONLY <1>1, <1>2, LenLemma
<1>4. \A i \in 1..Len(s) + Len(t) :
         (s \o t)[i] = IF i <= Len(s) THEN s[i] ELSE t[i - Len(s)]
  BY ONLY ConcatLemma
<1>5. \A i \in 1..Len(s) : (s \o t)[i] = s[i] BY ONLY <1>1, <1>4
<1>6. ASSUME NEW i \in 1..Len(t) PROVE (s \o t)[Len(s) + i] = t[i]
  <2>1. /\ Len(s) + i \in 1..Len(s) + Len(t) /\ ~ (Len(s) + i <= Len(s))
        /\ Len(s) + i - Len(s) = i
    BY ONLY <1>1
  <2> QED BY ONLY <1>4, <2>1
<1>7. ASSUME NEW i \in 1..(Len(s) + Len(t)), i \notin 1..Len(s)
      PROVE  \E j \in 1..Len(t) : i = Len(s) + j
  <2>1. i - Len(s) \in 1..Len(t) /\ i = Len(s) + (i - Len(s)) BY ONLY <1>1, <1>7
  <2> QED BY <2>1, Zenon
<1>8. Range(s \o t) = Range(s) \union Range(t)
  <2>1. DOMAIN s = 1..Len(s) /\ DOMAIN t = 1..Len(t) BY ONLY LenLemma
  <2>2. ASSUME NEW x \in Range(s \o t) PROVE x \in Range(s) \union Range(t)
    <3>1. PICK i \in 1..(Len(s) + Len(t)) : x = (s \o t)[i] BY ONLY <1>3 DEF Range
    <3>2. CASE i \in 1..Len(s) BY ONLY <1>5, <2>1, <3>1, <3>2 DEF Range
    <3>3. CASE i \notin 1..Len(s)
      <4>1. PICK j \in 1..Len(t) : i = Len(s) + j BY ONLY <1>7, <3>3
      <4> QED BY ONLY <1>6, <2>1, <3>1, <4>1 DEF Range
    <3> QED BY ONLY <3>2, <3>3
  <2>3. ASSUME NEW x \in Range(s) PROVE x \in Range(s \o t)
    <3>1. PICK i \in 1..Len(s) : x = s[i] BY ONLY <2>1 DEF Range
    <3>2. i \in 1..(Len(s) + Len(t)) BY ONLY <1>1
    <3> QED BY ONLY <1>3, <1>5, <3>1, <3>2 DEF Range
  <2>4. ASSUME NEW x \in Range(t) PROVE x \in Range(s \o t)
    <3>1. PICK i \in 1..Len(t) : x = t[i] BY ONLY <2>1 DEF Range
    <3>2. Len(s) + i \in 1..(Len(s) + Len(t)) BY ONLY <1>1
    <3> QED BY <1>3, <1>6, <3>1, <3>2, Zenon DEF Range
  <2> QED BY ONLY <2>2, <2>3, <2>4
<1> QED BY ONLY <1>1, <1>2, <1>3, <1>5, <1>6, <1>7, <1>8 DEF IsConcat

\* All the facts of SeqFacts.
LEMMA FactsHold == Facts
<1>1. LenProperties /\ ElementOfSeq /\ EmptySeq /\ AppendProperties /\ ConcatProperties
  BY ONLY LenLemma, ElementOfSeqLemma, EmptySeqLemma, AppendLemma, ConcatLemma
  DEF LenProperties, ElementOfSeq, EmptySeq, AppendProperties, ConcatProperties
<1>2. SubSeqProperties BY ONLY SubSeqLemma DEF SubSeqProperties
<1>3. Least BY ONLY LeastLemma DEF Least
<1>4. IntervalInduction BY ONLY IntervalInductionLemma DEF IntervalInduction
<1>5. WithoutProperties BY ONLY WithoutLemma DEF WithoutProperties
<1>6. WithoutLength BY Zenon, WithoutLengthLemma DEF WithoutLength
<1>7. DropOne BY Zenon, DropOneLemma DEF DropOne
<1>8. SplitProperties BY Zenon, SplitLemma DEF SplitProperties
<1>9. ConcatEntries BY ONLY ConcatEntriesLemma DEF ConcatEntries
<1>10. FiniteCardinality BY ONLY FS_CardinalityType DEF FiniteCardinality
<1>11. FiniteEmpty BY ONLY FS_EmptySet DEF FiniteEmpty
<1>12. FiniteSingleton BY Zenon, FS_Singleton DEF FiniteSingleton
<1>13. FiniteAdd BY ONLY FS_AddElement DEF FiniteAdd
<1>14. FiniteSubset BY ONLY FS_Subset DEF FiniteSubset
<1>15. FiniteInterval BY ONLY FS_Interval DEF FiniteInterval
<1>16. FiniteUnion BY ONLY FS_Union DEF FiniteUnion
<1>17. FiniteUNION BY ONLY FS_UNION DEF FiniteUNION
<1>18. FiniteProduct BY ONLY FS_Product DEF FiniteProduct
<1>19. FiniteImage BY ONLY FS_Surjection DEF FiniteImage
<1>20. FiniteBijection BY ONLY FS_Bijection DEF FiniteBijection
<1>21. FiniteInjection BY ONLY FS_Injection DEF FiniteInjection
<1>22. FiniteWhole BY FS_Subset, Zenon DEF FiniteWhole
<1> QED
  BY ONLY <1>1, <1>2, <1>3, <1>4, <1>5, <1>6, <1>7, <1>8, <1>9, <1>10, <1>11, <1>12, <1>13,
     <1>14, <1>15, <1>16, <1>17, <1>18, <1>19, <1>20, <1>21, <1>22
  DEF Facts

=============================================================================
