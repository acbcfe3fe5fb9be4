------------------------------ MODULE SeqFacts ------------------------------
(***************************************************************************)
(* What the proofs need to know of sequences and of finite sets, each fact *)
(* a formula with a name.  SeqFilterProofs proves all of them (FactsHold)  *)
(* from the libraries.  The proofs about the components assume Facts, name *)
(* the ones a step uses, and cite FactsHold at the end.                    *)
(***************************************************************************)
EXTENDS SeqFilter, FiniteSets

(* Sequences *)

LenProperties ==
    \A X : \A s \in Seq(X) :
        Len(s) \in Nat /\ DOMAIN s = 1..Len(s) /\ s \in [1..Len(s) -> X]

ElementOfSeq == \A X : \A s \in Seq(X) : \A i \in 1..Len(s) : s[i] \in X

EmptySeq ==
    \A X : << >> \in Seq(X) /\ Len(<< >>) = 0 /\ \A s \in Seq(X) : Len(s) = 0 => s = << >>

AppendProperties ==
    \A X : \A s \in Seq(X) : \A x \in X :
        /\ Append(s, x) \in Seq(X) /\ Len(Append(s, x)) = Len(s) + 1
        /\ \A i \in 1..Len(s) : Append(s, x)[i] = s[i]
        /\ Append(s, x)[Len(s) + 1] = x

ConcatProperties ==
    \A X : \A s, t \in Seq(X) :
        /\ s \o t \in Seq(X) /\ Len(s \o t) = Len(s) + Len(t)
        /\ \A i \in 1..(Len(s) + Len(t)) :
             (s \o t)[i] = IF i <= Len(s) THEN s[i] ELSE t[i - Len(s)]

SubSeqProperties ==
    \A X, s : \A m, n \in Int :
        (\A i \in m..n : s[i] \in X) =>
        /\ SubSeq(s, m, n) \in Seq(X)
        /\ Len(SubSeq(s, m, n)) = IF m <= n THEN n - m + 1 ELSE 0
        /\ \A i \in 1..(n - m + 1) : SubSeq(s, m, n)[i] = s[m + i - 1]

(* Induction *)

\* A non-empty set of naturals has a least element.
Least == \A T \in SUBSET Nat : T # {} => \E n \in T : \A m \in T : n <= m

\* Induction over an interval, with the induction hypothesis a set.
IntervalInduction ==
    \A n \in Nat : \A T :
        0 \in T /\ (\A i \in 0..(n - 1) : i \in T => i + 1 \in T) => \A i \in 0..n : i \in T

(* What Without computes *)

\* s repeats no element outside S.
DistinctOutside(s, S) ==
    \A i, j \in DOMAIN s : s[i] = s[j] /\ s[i] \notin S => i = j

\* Without(s, S) is a sequence of exactly the elements of s outside S, and it
\* repeats none that s does not repeat.
WithoutProperties ==
    \A X : \A s \in Seq(X) : \A S :
        /\ Without(s, S) \in Seq(X)
        /\ Range(Without(s, S)) = Range(s) \ S
        /\ DistinctOutside(s, S) => IsInjective(Without(s, S))
        /\ IsInjective(s) => IsInjective(Without(s, S))

\* Without(s, S) is shorter than s by the elements dropped.
WithoutLength ==
    \A X : \A s \in Seq(X) : \A S :
        Len(Without(s, S)) = Len(s) - Cardinality({j \in 1..Len(s) : s[j] \in S})

\* Of a sequence without repetitions, what is behind the dropped element moves up
\* by one.
DropOne ==
    \A X : \A q \in Seq(X) : IsInjective(q) => \A k \in 1..Len(q) :
        LET r == Without(q, {q[k]})
        IN  /\ r \in Seq(X) /\ IsInjective(r) /\ Len(r) = Len(q) - 1
            /\ Range(r) = Range(q) \ {q[k]}
            /\ \A j \in 1..(Len(q) - 1) : r[j] = IF j < k THEN q[j] ELSE q[j + 1]

(* Parts of sequences *)

\* A queue without repetitions cut after its n-th element.
SplitProperties ==
    \A X : \A s \in Seq(X) : IsInjective(s) => \A n \in 0..Len(s) :
        LET head == SubSeq(s, 1, n)
            rest == SubSeq(s, n + 1, Len(s))
        IN  /\ head \in Seq(X) /\ Len(head) = n
            /\ rest \in Seq(X) /\ Len(rest) = Len(s) - n
            /\ IsInjective(head) /\ IsInjective(rest)
            /\ Range(head) \subseteq Range(s)
            /\ Range(rest) = Range(s) \ Range(head)
            /\ \A i \in 1..n : head[i] = s[i]
            /\ \A i \in 1..(Len(s) - n) : rest[i] = s[n + i]

\* Which element of a concatenation is where.
IsConcat(c, s, t) ==
    /\ Len(s) \in Nat /\ Len(t) \in Nat
    /\ Len(c) = Len(s) + Len(t)
    /\ DOMAIN c = 1..(Len(s) + Len(t))
    /\ \A i \in 1..Len(s) : c[i] = s[i]
    /\ \A i \in 1..Len(t) : c[Len(s) + i] = t[i]
    /\ \A i \in 1..(Len(s) + Len(t)) :
          i \in 1..Len(s) \/ \E j \in 1..Len(t) : i = Len(s) + j
    /\ Range(c) = Range(s) \union Range(t)

ConcatEntries ==
    \A X : \A s, t \in Seq(X) : s \o t \in Seq(X) /\ IsConcat(s \o t, s, t)

(* Finite sets *)

FiniteCardinality == \A S : IsFiniteSet(S) => Cardinality(S) \in Nat

FiniteEmpty ==
    /\ IsFiniteSet({}) /\ Cardinality({}) = 0
    /\ \A S : IsFiniteSet(S) => (Cardinality(S) = 0 <=> S = {})

FiniteSingleton == \A x : IsFiniteSet({x}) /\ Cardinality({x}) = 1

FiniteAdd ==
    \A S, x : IsFiniteSet(S) =>
        /\ IsFiniteSet(S \union {x})
        /\ Cardinality(S \union {x}) = IF x \in S THEN Cardinality(S) ELSE Cardinality(S) + 1

FiniteSubset ==
    \A S : IsFiniteSet(S) => \A T \in SUBSET S :
        IsFiniteSet(T) /\ Cardinality(T) <= Cardinality(S)

\* A part of a finite set that is as large as the set is all of it.
FiniteWhole ==
    \A S : IsFiniteSet(S) => \A T \in SUBSET S : Cardinality(T) = Cardinality(S) => T = S

FiniteInterval ==
    \A a, b \in Int :
        IsFiniteSet(a..b) /\ Cardinality(a..b) = IF a > b THEN 0 ELSE b - a + 1

FiniteUnion ==
    \A S, T : IsFiniteSet(S) /\ IsFiniteSet(T) =>
        /\ IsFiniteSet(S \union T)
        /\ Cardinality(S \union T) = Cardinality(S) + Cardinality(T) - Cardinality(S \cap T)

FiniteUNION == \A S : IsFiniteSet(S) /\ (\A T \in S : IsFiniteSet(T)) => IsFiniteSet(UNION S)

FiniteProduct ==
    \A S, T : IsFiniteSet(S) /\ IsFiniteSet(T) =>
        IsFiniteSet(S \X T) /\ Cardinality(S \X T) = Cardinality(S) * Cardinality(T)

\* A set is no larger than one that is mapped onto it.
FiniteImage ==
    \A S, T : \A f \in Surjection(S, T) : IsFiniteSet(S) =>
        IsFiniteSet(T) /\ Cardinality(T) <= Cardinality(S)

FiniteBijection ==
    \A S, T : IsFiniteSet(S) /\ ExistsBijection(S, T) =>
        IsFiniteSet(T) /\ Cardinality(T) = Cardinality(S)

\* A set that is mapped one to one into another is no larger.
FiniteInjection ==
    \A S, T : \A f \in Injection(S, T) : IsFiniteSet(T) =>
        IsFiniteSet(S) /\ Cardinality(S) <= Cardinality(T)

Facts ==
    /\ LenProperties /\ ElementOfSeq /\ EmptySeq /\ AppendProperties /\ ConcatProperties
    /\ SubSeqProperties /\ Least /\ IntervalInduction
    /\ WithoutProperties /\ WithoutLength /\ DropOne /\ SplitProperties /\ ConcatEntries
    /\ FiniteCardinality /\ FiniteEmpty /\ FiniteSingleton /\ FiniteAdd /\ FiniteSubset
    /\ FiniteWhole /\ FiniteInterval /\ FiniteUnion /\ FiniteUNION /\ FiniteProduct
    /\ FiniteImage /\ FiniteBijection /\ FiniteInjection

=============================================================================
