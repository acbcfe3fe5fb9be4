----------------------------- MODULE SeqFilter -----------------------------
(***************************************************************************)
(* The one sequence operator the block pool needs and the standard modules *)
(* give no provable form of: a sequence with the members of a set dropped, *)
(* in order.  It is SelectSeq(s, LAMBDA x : x \notin S), written as a      *)
(* recursive function so that SeqFilterProofs can reason about it.         *)
(***************************************************************************)
EXTENDS Integers, Sequences, Functions

\* The elements of s that are not in S, in the order they have in s.
Without(s, S) ==
    LET kept[i \in 0..Len(s)] ==
            IF i = 0 THEN << >>
            ELSE IF s[i] \in S THEN kept[i - 1]
            ELSE Append(kept[i - 1], s[i])
    IN  kept[Len(s)]

=============================================================================
