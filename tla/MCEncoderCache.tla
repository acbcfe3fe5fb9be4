--------------------------- MODULE MCEncoderCache ---------------------------
(* Small instances of EncoderCache. *)
EXTENDS EncoderCache, TLC

CONSTANTS a, b, c, r1, r2, r3

Embeddings == (a :> 2) @@ (b :> 1) @@ (c :> 2)

Image(h, offset) ==
    [hash |-> h, offset |-> offset, length |-> Embeddings[h],
     embeds |-> 0..(Embeddings[h] - 1)]

\* An image between two special tokens, as many models place it.
Framed(h, offset) ==
    [hash |-> h, offset |-> offset, length |-> Embeddings[h] + 2,
     embeds |-> 1..Embeddings[h]]

\* The same image in two requests and twice in one, and two images of one request
\* that do not fit in the cache together.
Prompts == (r1 :> <<Image(b, 1), Image(b, 3)>>)
        @@ (r2 :> <<Framed(b, 0), Image(a, 4)>>)
        @@ (r3 :> <<Image(c, 0), Image(a, 3)>>)
Lengths == (r1 :> 5) @@ (r2 :> 6) @@ (r3 :> 5)
Ranks == (r1 :> 2) @@ (r2 :> 1) @@ (r3 :> 3)

Base == [policy |-> "fcfs", chunked |-> TRUE, shift |-> 0, depth |-> 2]
Plain == {[Base EXCEPT !.chunked = c0, !.depth = d] : c0 \in BOOLEAN, d \in {1, 2}}
Eagle == {[Base EXCEPT !.shift = 1, !.depth = 1]}

=============================================================================
