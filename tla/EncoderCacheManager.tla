------------------------ MODULE EncoderCacheManager ------------------------
(***************************************************************************)
(* EncoderCacheManager of vllm/v1/core/encoder_cache_manager.py: which     *)
(* encoder outputs of images and other inputs the workers keep.  An output *)
(* is known by the hash of its input and shared between requests.  It is   *)
(* evicted only when another one needs the room, oldest first, and never   *)
(* while a request refers to it.                                           *)
(***************************************************************************)
EXTENDS SeqFilter, FiniteSetsExt

CONSTANTS
    Hash,           \* mm_hash of the inputs
    NumEmbeds,      \* get_num_encoder_embeds of each of them
    CacheSize       \* cache_size

ASSUME CacheAssumption ==
    /\ IsFiniteSet(Hash)
    /\ NumEmbeds \in [Hash -> Nat \ {0}]
    /\ CacheSize \in Nat /\ \A h \in Hash : NumEmbeds[h] <= CacheSize

\* __init__ and reset
EmptyCache ==
    [cached |-> << >>,              \* from hashes to the requests that refer to them
     freeable |-> << >>,            \* hashes nobody refers to, oldest first
     freed |-> {},                  \* evicted since the last step
     num_free_slots |-> CacheSize,
     num_freeable_slots |-> CacheSize,
     err |-> FALSE]                 \* an assert failed, or popitem on an empty dict

\* The embeddings of the inputs, and how many slots they take.
Slots(hashes) == UNION {{h} \X (1..NumEmbeds[h]) : h \in hashes}
Sizes(hashes) == Cardinality(Slots(hashes))

\* check_and_update_cache of a hash that is cached
IsCached(c, h) == h \in DOMAIN c.cached

UpdateCache(c, r, h) ==
    LET idle == c.cached[h] = {}
    IN  [c EXCEPT !.cached[h] = @ \union {r},
                  !.freeable = IF idle THEN Without(@, {h}) ELSE @,
                  !.num_freeable_slots = IF idle THEN @ - NumEmbeds[h] ELSE @]

\* Mutant of CanAllocate: what this step has already promised is not counted.
CanAllocateEach(c, h, budget, scheduled) ==
    /\ NumEmbeds[h] <= budget
    /\ NumEmbeds[h] <= c.num_free_slots \/ NumEmbeds[h] <= c.num_freeable_slots

\* can_allocate: scheduled embeddings will be allocated with this one.
CanAllocate(c, h, budget, scheduled) ==
    LET need == NumEmbeds[h] + scheduled
    IN  /\ NumEmbeds[h] <= budget
        /\ need <= c.num_free_slots \/ need <= c.num_freeable_slots

\* can_allocate evicts the oldest outputs until n slots are free.
MakeRoom(c, n) ==
    LET enough == {k \in 0..Len(c.freeable) :
                     c.num_free_slots + Sizes(Range(SubSeq(c.freeable, 1, k))) >= n}
        k == Min(enough)
        evicted == Range(SubSeq(c.freeable, 1, k))
    IN  IF enough = {} THEN [c EXCEPT !.err = TRUE]
        ELSE [c EXCEPT !.cached = Restrict(@, DOMAIN @ \ evicted),
                       !.freeable = SubSeq(@, k + 1, Len(@)),
                       !.freed = @ \union evicted,
                       !.num_free_slots = @ + Sizes(evicted)]

\* allocate, of each of the hashes
Allocate(c, r, hashes) ==
    LET users(h) == IF IsCached(c, h) THEN c.cached[h] ELSE {}
    IN  [c EXCEPT !.cached = [h \in DOMAIN @ \union hashes |->
                                users(h) \union IF h \in hashes THEN {r} ELSE {}],
                  !.num_free_slots = @ - Sizes(hashes),
                  !.num_freeable_slots = @ - Sizes(hashes),
                  !.err = @ \/ c.num_free_slots < Sizes(hashes)
                            \/ c.num_freeable_slots < Sizes(hashes)]

\* Mutant of LastUser: the last one out does not ask for the others.
LastUserHasty(c, r, h) == IsCached(c, h) /\ r \in c.cached[h]

LastUser(c, r, h) == IsCached(c, h) /\ c.cached[h] = {r}

\* free_encoder_input
FreeInput(c, r, h) ==
    IF ~ IsCached(c, h) THEN c
    ELSE [c EXCEPT !.cached[h] = @ \ {r},
                   !.freeable = IF LastUser(c, r, h) THEN Append(@, h) ELSE @,
                   !.num_freeable_slots = IF LastUser(c, r, h) THEN @ + NumEmbeds[h]
                                          ELSE @]

\* The member of a singleton.
The(S) == CHOOSE x \in S : TRUE

\* free_encoder_input of the inputs ids of a request, one after the other; of all
\* of them it is free.
FreeInputs(c, r, hashes, ids) ==
    LET free[i \in 0..Len(hashes)] ==
            IF i = 0 THEN c
            ELSE The({IF i \in ids THEN FreeInput(d, r, hashes[i]) ELSE d :
                        d \in {free[i - 1]}})
    IN  free[Len(hashes)]

\* get_freed_mm_hashes
TakeFreed(c) == [c EXCEPT !.freed = {}]

-----------------------------------------------------------------------------
(* What the fields mean to each other *)

SlotsExact(c) ==
    /\ c.num_free_slots = CacheSize - Sizes(DOMAIN c.cached)
    /\ c.num_freeable_slots = c.num_free_slots + Sizes(Range(c.freeable))
    /\ c.num_free_slots >= 0

FreeableExact(c) ==
    /\ Range(c.freeable) = {h \in DOMAIN c.cached : c.cached[h] = {}}
    /\ IsInjective(c.freeable)

=============================================================================
