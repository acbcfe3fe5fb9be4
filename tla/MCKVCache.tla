----------------------------- MODULE MCKVCache -----------------------------
(***************************************************************************)
(* Small instances of KVCache: requests that share a prefix and diverge    *)
(* within and between blocks, and a pool too small to hold them all.       *)
(***************************************************************************)
EXTENDS KVCache, TLC

CONSTANTS r1, r2, r3

\* Two blocks in common, then one request goes its own way in the second.
MCStream == (r1 :> <<1, 1, 1, 1, 1>>) @@ (r2 :> <<1, 1, 1, 1, 2>>)
              @@ (r3 :> <<1, 1, 2, 2>>)
MCPrompt == [r \in Req |-> IF r = r2 THEN 5 ELSE 3]
MCHash == {SubSeq(MCStream[r], 1, 2 * i) : r \in {r1, r2, r3}, i \in 1..2}

CONSTANTS b0, b1, b2, b3, b4
BlockSymmetry == Permutations(Block \ {NullBlock})

=============================================================================
