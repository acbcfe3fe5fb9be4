----------------------------- MODULE FreeQueue -----------------------------
(***************************************************************************)
(* What BlockPool expects of its free_block_queue: a queue of blocks from  *)
(* which blocks are taken at the front or out of the middle and put back   *)
(* at the end.  FreeBlockQueue implements it with a linked list.           *)
(***************************************************************************)
EXTENDS SeqFilter, FiniteSets

CONSTANTS
    Block,      \* the blocks of the pool
    NoBlocks    \* popleft() raised "No free blocks available"

VARIABLES
    queue,      \* the free blocks in eviction order
    ret         \* what the last call returned, << >> for None

\* Lists of distinct blocks.
Lists == UNION {Injection(1..n, Block) : n \in 0..Cardinality(Block)}

Init ==
    /\ queue \in {q \in Lists : Range(q) = Block}
    /\ ret = << >>

\* popleft
Popleft ==
    IF queue = << >> THEN ret' = NoBlocks /\ UNCHANGED queue
    ELSE ret' = <<Head(queue)>> /\ queue' = Tail(queue)

\* popleft_n(n); the caller has compared n with num_free_blocks.
PopleftN(n) ==
    /\ n <= Len(queue)
    /\ ret' = SubSeq(queue, 1, n)
    /\ queue' = SubSeq(queue, n + 1, Len(queue))

\* remove(block) of a block that is in the queue
Remove(b) ==
    /\ b \in Range(queue)
    /\ queue' = Without(queue, {b})
    /\ ret' = << >>

\* append and append_n of blocks that are not in the queue
AppendN(blocks) ==
    /\ Range(blocks) \cap Range(queue) = {}
    /\ queue' = queue \o blocks
    /\ ret' = << >>

Next ==
    \/ Popleft
    \/ \E n \in 0..Cardinality(Block) : PopleftN(n)
    \/ \E b \in Block : Remove(b)
    \/ \E blocks \in Lists : AppendN(blocks)

Spec == Init /\ [][Next]_<<queue, ret>>

=============================================================================
