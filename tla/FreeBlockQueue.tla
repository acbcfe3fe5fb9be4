--------------------------- MODULE FreeBlockQueue ---------------------------
(***************************************************************************)
(* FreeKVCacheBlockQueue (vllm/v1/core/kv_cache_utils.py): the free blocks *)
(* as a doubly linked list between a fake head and a fake tail, threaded   *)
(* through the blocks themselves.  Every method is one action.  The caller *)
(* is BlockPool, which removes a block when its ref_cnt is 0 and appends   *)
(* blocks when their ref_cnt becomes 0.                                    *)
(***************************************************************************)
EXTENDS SeqFilter, FiniteSetsExt

CONSTANTS
    Block,      \* the blocks of the pool
    FakeHead,   \* fake_free_list_head
    FakeTail,   \* fake_free_list_tail
    None,       \* a link that is None
    NoBlocks    \* popleft() raised "No free blocks available"

ASSUME QueueAssumption ==
    /\ IsFiniteSet(Block)
    /\ FakeHead \notin Block /\ FakeTail \notin Block /\ FakeHead # FakeTail
    /\ None \notin Block \union {FakeHead, FakeTail}

VARIABLES
    prev,               \* prev_free_block of every block and fake block
    next,               \* next_free_block
    num_free_blocks,    \* num_free_blocks
    ret,                \* what the last call returned, << >> for None
    failed,             \* an assert or a RuntimeError was reached
    idle                \* the caller's blocks with ref_cnt 0

vars == <<prev, next, num_free_blocks, ret, failed, idle>>

Node == Block \union {FakeHead, FakeTail}

\* Lists of distinct blocks.
Lists == UNION {Injection(1..n, Block) : n \in 0..Cardinality(Block)}

\* The i-th node of a list with the fake ends at 0 and Len(q) + 1.
At(q, i) == IF i = 0 THEN FakeHead ELSE IF i <= Len(q) THEN q[i] ELSE FakeTail

\* __init__: the blocks are linked in the order of the list q.
Init ==
    /\ \E q \in {l \in Lists : Range(l) = Block} :
         /\ next = [x \in Node |-> IF x = FakeTail THEN None
                      ELSE At(q, 1 + CHOOSE i \in 0..Len(q) : At(q, i) = x)]
         /\ prev = [x \in Node |-> IF x = FakeHead THEN None
                      ELSE At(q, (CHOOSE i \in 1..(Len(q) + 1) : At(q, i) = x) - 1)]
         /\ num_free_blocks = Len(q)
    /\ ret = << >>
    /\ failed = FALSE
    /\ idle = Block

\* A call that stops at an assert or a raise before it changed anything.
Fail == failed' = TRUE /\ UNCHANGED <<prev, next, num_free_blocks, ret, idle>>

\* popleft
Popleft ==
    LET first == next[FakeHead]
    IN  IF first \in {FakeTail, None}
        THEN /\ ret' = NoBlocks
             /\ failed' = (failed \/ num_free_blocks # 0)
             /\ UNCHANGED <<prev, next, num_free_blocks, idle>>
        ELSE IF next[first] = None THEN Fail
        ELSE /\ next' = [next EXCEPT ![FakeHead] = next[first], ![first] = None]
             /\ prev' = [prev EXCEPT ![next[first]] = FakeHead, ![first] = None]
             /\ num_free_blocks' = num_free_blocks - 1
             /\ ret' = <<first>>
             /\ idle' = idle \ {first}
             /\ UNCHANGED failed

\* curr_block of the loops: the node i links behind the fake head.
NextOf(x) == IF x = None THEN None ELSE next[x]

Walk(n) ==
    LET curr[i \in 0..n] == IF i = 0 THEN FakeHead ELSE NextOf(curr[i - 1])
    IN  curr

\* Mutant of PopleftN: the new first block is not linked back to the head.
PopleftNForgetsBackLink(n) ==
    LET curr   == Walk(n + 1)
        popped == [i \in 1..n |-> curr[i]]
        rest   == curr[n + 1]
    IN  /\ n <= num_free_blocks /\ n > 0
        /\ next' = [x \in Node |-> IF x \in Range(popped) THEN None
                      ELSE IF x = FakeHead THEN rest ELSE next[x]]
        /\ prev' = [x \in Node |-> IF x \in Range(popped) THEN None ELSE prev[x]]
        /\ num_free_blocks' = num_free_blocks - n
        /\ ret' = popped
        /\ idle' = idle \ Range(popped)
        /\ UNCHANGED failed

\* popleft_n(n); get_new_blocks has compared n with num_free_blocks.
PopleftN(n) ==
    LET curr   == Walk(n + 1)
        popped == [i \in 1..n |-> curr[i]]
        rest   == curr[n + 1]
    IN  /\ n <= num_free_blocks
        /\ IF n = 0
           THEN ret' = << >> /\ UNCHANGED <<prev, next, num_free_blocks, failed, idle>>
           ELSE IF None \in Range(popped) THEN Fail
           ELSE /\ next' = [x \in Node |-> IF x \in Range(popped) THEN None
                              ELSE IF x = FakeHead /\ rest # None THEN rest
                              ELSE next[x]]
                /\ prev' = [x \in Node |-> IF x \in Range(popped) THEN None
                              ELSE IF x = rest THEN FakeHead ELSE prev[x]]
                /\ num_free_blocks' = num_free_blocks - n
                /\ ret' = popped
                /\ idle' = idle \ Range(popped)
                /\ UNCHANGED failed

\* remove(block), from touch: of a block with ref_cnt 0
Remove(b) ==
    /\ b \in idle
    /\ IF prev[b] = None \/ next[b] = None THEN Fail
       ELSE /\ next' = [next EXCEPT ![prev[b]] = next[b], ![b] = None]
            /\ prev' = [prev EXCEPT ![next[b]] = prev[b], ![b] = None]
            /\ num_free_blocks' = num_free_blocks - 1
            /\ ret' = << >>
            /\ idle' = idle \ {b}
            /\ UNCHANGED failed

\* Mutant of AppendN: the fake tail is not linked to the last block.
AppendNForgetsBackLink(blocks) ==
    LET last == prev[FakeTail]
        n    == Len(blocks)
        Index(b) == CHOOSE i \in 1..n : blocks[i] = b
    IN  /\ blocks # << >> /\ Range(blocks) \cap idle = {}
        /\ next' = [x \in Node |->
             IF x = last THEN blocks[1]
             ELSE IF x \notin Range(blocks) THEN next[x]
             ELSE IF Index(x) = n THEN FakeTail ELSE blocks[Index(x) + 1]]
        /\ prev' = [x \in Node |->
             IF x \notin Range(blocks) THEN prev[x]
             ELSE IF Index(x) = 1 THEN last ELSE blocks[Index(x) - 1]]
        /\ num_free_blocks' = num_free_blocks + n
        /\ ret' = << >>
        /\ idle' = idle \union Range(blocks)
        /\ UNCHANGED failed

\* append_n(blocks), from free_blocks: of distinct blocks whose ref_cnt was
\* positive.  append(block) is the case of one block.
AppendN(blocks) ==
    LET last == prev[FakeTail]
        n    == Len(blocks)
        Index(b) == CHOOSE i \in 1..n : blocks[i] = b
    IN  /\ Range(blocks) \cap idle = {}
        /\ IF n = 0
           THEN ret' = << >> /\ UNCHANGED <<prev, next, num_free_blocks, failed, idle>>
           ELSE IF last = None THEN Fail
           ELSE /\ next' = [x \in Node |->
                     IF x = last THEN blocks[1]
                     ELSE IF x \notin Range(blocks) THEN next[x]
                     ELSE IF Index(x) = n THEN FakeTail ELSE blocks[Index(x) + 1]]
                /\ prev' = [x \in Node |->
                     IF x = FakeTail THEN blocks[n]
                     ELSE IF x \notin Range(blocks) THEN prev[x]
                     ELSE IF Index(x) = 1 THEN last ELSE blocks[Index(x) - 1]]
                /\ num_free_blocks' = num_free_blocks + n
                /\ ret' = << >>
                /\ idle' = idle \union Range(blocks)
                /\ UNCHANGED failed

Next ==
    \/ Popleft
    \/ \E n \in 0..Cardinality(Block) : PopleftN(n)
    \/ \E b \in Block : Remove(b)
    \/ \E blocks \in Lists : AppendN(blocks)

Spec == Init /\ [][Next]_vars

-----------------------------------------------------------------------------
(* Properties *)

\* get_all_free_blocks: the nodes behind the head that have a next link.
GetAllFreeBlocks ==
    LET curr == Walk(Cardinality(Block) + 1)
        live == {i \in 0..(Cardinality(Block) + 1) :
                   \A j \in 1..i : curr[j] # None /\ next[curr[j]] # None}
    IN  [i \in 1..Max(live) |-> curr[i]]

\* q is the list: the links lead through it in both directions, and blocks
\* outside it have none.
Linked(q) ==
    /\ \A i \in 0..Len(q) : /\ next[At(q, i)] = At(q, i + 1)
                            /\ prev[At(q, i + 1)] = At(q, i)
    /\ prev[FakeHead] = None /\ next[FakeTail] = None
    /\ \A b \in Block \ Range(q) : prev[b] = None /\ next[b] = None

\* Every variable has its type; in particular a call never returns a fake
\* block.
TypeOK ==
    /\ prev \in [Node -> Node \union {None}]
    /\ next \in [Node -> Node \union {None}]
    /\ num_free_blocks \in 0..Cardinality(Block)
    /\ ret \in Lists \union {NoBlocks}
    /\ failed \in BOOLEAN
    /\ idle \in SUBSET Block

\* After every call the list is intact in both directions, holds exactly the
\* blocks with ref_cnt 0, each once, and num_free_blocks counts them; and no
\* call meets a broken link: the RuntimeErrors of popleft, remove and append
\* and the asserts of popleft, popleft_n and append_n are unreachable.
ListIntact ==
    LET q == GetAllFreeBlocks
    IN  /\ TypeOK /\ ~ failed
        /\ q \in Lists /\ Linked(q)
        /\ Range(q) = idle
        /\ num_free_blocks = Len(q)

\* The linked list behaves as the queue that BlockPool takes it for: the same
\* blocks in the same order, and the same blocks returned.
Queue == INSTANCE FreeQueue WITH queue <- GetAllFreeBlocks
ImplementsQueue == Queue!Spec

=============================================================================
