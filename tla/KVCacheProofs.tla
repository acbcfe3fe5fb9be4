--------------------------- MODULE KVCacheProofs ---------------------------
(***************************************************************************)
(* The driver keeps the manager sound and never makes it fail, for every   *)
(* number of blocks, requests and tokens, with and without caching,        *)
(* sliding window, EAGLE and connector.                                    *)
(***************************************************************************)
EXTENDS KVCache, KVManagerProofs

\* What a caller knows of request r: it holds no blocks before it is admitted
\* (unless its only token was loaded, which counts as not computed); while it
\* loads it has been given its prefix; what it has computed has slots.
ReqOK(k, nt, nc, st, r) ==
    /\ (st[r] = "waiting" /\ nc[r] = 0) =>
          \/ k.req_to_blocks[r] = << >> /\ k.num_cached_block[r] = -1
          \/ nt[r] = 1 /\ k.num_cached_block[r] # -1
    /\ st[r] = "loading" =>
          k.num_cached_block[r] # -1 /\ nc[r] >= 1 /\ nc[r] <= nt[r]
    /\ (st[r] \in {"running", "loading"} \/ (st[r] = "waiting" /\ nc[r] > 0)) =>
          nc[r] <= Len(k.req_to_blocks[r]) * BlockSize

IInv ==
    /\ TypeOK
    /\ Good(kv)
    /\ \A r \in Req : ReqOK(kv, num_tokens, num_computed, status, r)

\* A step for r that leaves the others alone has to establish only r's part.
LEMMA Frame ==
  ASSUME NEW k, NEW nt, NEW nc, NEW st, NEW m, NEW nt2, NEW nc2, NEW st2,
         NEW r \in Req, SameOthers(k, m, r),
         \A q \in Req : ReqOK(k, nt, nc, st, q),
         \A q \in Req \ {r} : nt2[q] = nt[q] /\ nc2[q] = nc[q] /\ st2[q] = st[q],
         ReqOK(m, nt2, nc2, st2, r)
  PROVE  \A q \in Req : ReqOK(m, nt2, nc2, st2, q)
<1> SUFFICES ASSUME NEW q \in Req PROVE ReqOK(m, nt2, nc2, st2, q) BY Zenon
<1>1. CASE q = r BY Zenon, <1>1
<1>2. CASE q # r
  <2>1. /\ m.req_to_blocks[q] = k.req_to_blocks[q]
        /\ m.num_cached_block[q] = k.num_cached_block[q]
        /\ nt2[q] = nt[q] /\ nc2[q] = nc[q] /\ st2[q] = st[q]
    BY Zenon, <1>2 DEF SameOthers
  <2>2. ReqOK(k, nt, nc, st, q) BY Zenon
  <2> QED BY Zenon, <2>1, <2>2 DEF ReqOK
<1> QED BY Zenon, <1>1, <1>2

\* The types of what the driver reads for request r.
LEMMA DriverTypes ==
  ASSUME Facts, IInv, NEW r \in Req
  PROVE  /\ kv \in KVState /\ Sound(kv)
         /\ num_tokens[r] \in Nat /\ num_tokens[r] >= 1
         /\ num_tokens[r] \in 1..Len(TokenStream[r])
         /\ num_tokens[r] <= Len(TokenStream[r])
         /\ Len(TokenStream[r]) \in Nat /\ Len(TokenStream[r]) <= MaxModelLen
         /\ MaxModelLen \in Nat /\ BlockSize \in Nat \ {0}
         /\ num_computed[r] \in Nat /\ num_computed[r] <= MaxModelLen
         /\ Len(kv.req_to_blocks[r]) \in Nat
         /\ kv.num_cached_block[r] \in Nat \union {-1}
         /\ num_tokens[r] <= MaxModelLen
         /\ Len(kv.req_to_blocks[r]) * BlockSize \in Nat
<1>1. Len(TokenStream[r]) \in Nat BY Zenon, ManagerAssumption DEF Facts, LenProperties
<1>2. kv \in KVState /\ Sound(kv) /\ kv.num_cached_block[r] \in Nat \union {-1}
  BY Zenon DEF IInv, Good, Sound
<1>3. Len(kv.req_to_blocks[r]) \in Nat BY Zenon, <1>2, TableEntry
<1>4. /\ num_tokens[r] \in 1..Len(TokenStream[r])
      /\ num_computed[r] \in 0..MaxModelLen
  BY Zenon DEF IInv, TypeOK
<1>5. /\ Len(TokenStream[r]) <= MaxModelLen /\ MaxModelLen \in Nat
      /\ BlockSize \in Nat \ {0}
  BY ManagerAssumption, Zenon
<1>6. /\ num_tokens[r] \in Nat /\ num_tokens[r] >= 1
      /\ num_tokens[r] <= Len(TokenStream[r])
      /\ num_computed[r] \in Nat /\ num_computed[r] <= MaxModelLen
  BY ONLY <1>1, <1>4, <1>5
<1>7. Len(kv.req_to_blocks[r]) * BlockSize \in Nat BY ONLY <1>3, <1>5
<1>8. num_tokens[r] <= MaxModelLen BY ONLY <1>1, <1>5, <1>6
<1> QED BY Zenon, <1>1, <1>2, <1>3, <1>4, <1>5, <1>6, <1>7, <1>8

\* The call that admits a request is one of those allocate_slots is made for.
LEMMA AdmitCall ==
  ASSUME Facts, IInv, NEW r \in Req, status[r] = "waiting", num_computed[r] = 0,
         NEW new \in Nat, NEW external \in Nat, NEW delay \in BOOLEAN,
         new # 0 \/ external # 0,
         Len(Hits(r)) * BlockSize + external + new <= num_tokens[r]
  PROVE  LET a == AdmitArgs(r, new, external, delay)
             done == Len(Hits(r)) * BlockSize + external
         IN  /\ CallOK(kv, r, a) /\ done \in Nat
             /\ NumNeedSlot(a) = done + new /\ TotalComputed(a) = done
<1> DEFINE a == AdmitArgs(r, new, external, delay)
           hits == Hits(r)
           l == Len(hits) * BlockSize
<1>0. /\ Sound(kv) /\ num_tokens[r] \in Nat
      /\ num_tokens[r] \in 1..Len(TokenStream[r])
      /\ num_tokens[r] <= MaxModelLen /\ MaxModelLen \in Nat /\ BlockSize \in Nat \ {0}
      /\ num_tokens[r] <= Len(TokenStream[r])
  BY Zenon, DriverTypes
<1>1. HitsOK(kv, r, hits) BY Zenon, <1>0, ComputedBlocksOK DEF Hits
<1>13. NullHits(hits, NumSkippedTokens(Len(hits) * BlockSize))
  BY Zenon, <1>0, ComputedBlocksNull DEF Hits
<1>2. hits \in Seq(Block) BY Zenon, <1>1 DEF HitsOK
<1>3. EnableCaching \/ hits = << >> BY Zenon DEF Hits, GetComputedBlocks
<1>4. /\ a.num_computed = 0 /\ a.num_tokens = num_tokens[r] /\ a.new = new
      /\ a.hits = hits /\ a.lookahead = 0 /\ a.external = external /\ a.delay = delay
  BY Zenon DEF AdmitArgs
<1>5. a \in AllocArgs BY Zenon, <1>0, <1>2 DEF AdmitArgs, AllocArgs
<1>6. l \in Nat
  <2>1. Len(hits) \in Nat BY Zenon, <1>2 DEF Facts, LenProperties
  <2> HIDE DEF hits
  <2> QED BY ONLY <1>0, <2>1
<1>7. l + external + new <= num_tokens[r] /\ external \in Nat /\ new \in Nat BY Zenon
<1>8. NumLocalComputed(a) = l
  <2>1. NumLocalComputed(a) = 0 + l BY Zenon, <1>4 DEF NumLocalComputed
  <2> HIDE DEF l, a
  <2> QED BY ONLY <1>6, <2>1
<1> HIDE DEF hits, l, a
<1>9. NumLocalComputed(a) + a.external <= MaxModelLen
  <2>1. l + external <= MaxModelLen BY ONLY <1>0, <1>6, <1>7
  <2> QED BY Zenon, <1>4, <1>8, <2>1
<1>10. NumNeedSlot(a) = l + external + new /\ TotalComputed(a) = l + external
  <2> DEFINE x == l + external
  <2>1. x \in Nat /\ x + new <= MaxModelLen /\ x <= MaxModelLen
    BY ONLY <1>0, <1>6, <1>7
  <2>2. TotalComputed(a) = Lesser(x, MaxModelLen) BY Zenon, <1>4, <1>8 DEF TotalComputed
  <2> HIDE DEF x
  <2>3. TotalComputed(a) = x BY ONLY <1>0, <2>1, <2>2 DEF Lesser
  <2>4. NumNeedSlot(a) = Lesser(x + new + 0, MaxModelLen)
    BY Zenon, <1>4, <2>3 DEF NumNeedSlot
  <2>5. NumNeedSlot(a) = x + new BY ONLY <1>0, <1>7, <2>1, <2>4 DEF Lesser
  <2> QED BY Zenon, <2>3, <2>5 DEF x
<1>14. NullHits(a.hits, NumSkippedTokens(NumLocalComputed(a) + a.external))
  <2>1. NullHits(hits, NumSkippedTokens(l)) BY Zenon, <1>13 DEF l
  <2>2. l + external \in Nat /\ l <= l + external BY ONLY <1>6
  <2>3. NullHits(hits, NumSkippedTokens(l + external))
    BY Zenon, <1>2, <1>6, <2>1, <2>2, NullHitsMore
  <2> QED BY Zenon, <1>4, <1>8, <2>3
<1>11. \/ /\ a.num_computed = 0 /\ kv.num_cached_block[r] = -1
          /\ kv.req_to_blocks[r] = << >>
       \/ a.hits = << >> /\ kv.num_cached_block[r] # -1
  <2>1. \/ kv.req_to_blocks[r] = << >> /\ kv.num_cached_block[r] = -1
        \/ num_tokens[r] = 1 /\ kv.num_cached_block[r] # -1
    BY Zenon DEF IInv, ReqOK
  <2>2. ASSUME num_tokens[r] = 1 PROVE hits = << >>
    <3>1. (external + new) + Len(hits) * BlockSize <= 1 /\ external + new >= 1
          /\ external + new \in Nat
      BY <1>6, <1>7, <2>2 DEF l
    <3> QED BY Zenon, <1>2, <3>1, NoHits
  <2> QED BY Zenon, <1>4, <2>1, <2>2
<1>12. CallOK(kv, r, a)
  BY Zenon, <1>0, <1>1, <1>3, <1>4, <1>5, <1>9, <1>11, <1>14 DEF CallOK
<1> QED BY ONLY <1>6, <1>10, <1>12 DEF a, l, hits

-----------------------------------------------------------------------------
(* Every action preserves the invariant *)

\* What a step does to the table of q: it is released, or it evolves with the
\* tokens that are computed and known, and these only grow, except when a load
\* ends.
Advances(q) ==
    /\ \/ kv'.req_to_blocks[q] = << >>
       \/ /\ Evolves(kv, kv', q,
                NumSkippedTokens(Lesser(num_computed'[q], num_tokens'[q])))
          /\ \/ status[q] = "loading"
             \/ Lesser(num_computed[q], num_tokens[q])
                  <= Lesser(num_computed'[q], num_tokens'[q])
    /\ status'[q] = "loading" => status[q] = "loading" \/ UseConnector

\* A request that a step leaves alone.
LEMMA AdvancesAlone ==
  ASSUME Facts, IInv, NEW q \in Req, kv'.req_to_blocks[q] = kv.req_to_blocks[q],
         num_tokens'[q] = num_tokens[q], num_computed'[q] = num_computed[q],
         status'[q] = status[q]
  PROVE  Advances(q)
<1>1. num_tokens[q] \in Nat /\ num_computed[q] \in Nat BY Zenon, DriverTypes
<1>2. Lesser(num_computed[q], num_tokens[q]) <= Lesser(num_computed[q], num_tokens[q])
  BY ONLY <1>1 DEF Lesser
<1>3. \A z : Evolves(kv, kv', q, z) BY Zenon, EvolvesSame
<1> QED BY Zenon, <1>2, <1>3 DEF Advances

\* A request whose table evolves with n tokens, none fewer than before.
LEMMA AdvancesBy ==
  ASSUME Facts, IInv, Good(kv'), NEW r \in Req, NEW n \in Nat, NEW c \in Nat, NEW t \in Nat,
         num_computed'[r] = c, num_tokens'[r] = t, n <= c, n <= t,
         Lesser(num_computed[r], num_tokens[r]) <= n,
         Evolves(kv, kv', r, NumSkippedTokens(n)),
         status'[r] = "loading" => status[r] = "loading" \/ UseConnector
  PROVE  Advances(r)
<1> DEFINE l == Lesser(c, t)
           x == NumSkippedTokens(n)
           y == NumSkippedTokens(l)
<1>1. l \in Nat /\ n <= l BY Zenon DEF Lesser
<1> HIDE DEF l
<1>2. x \in Nat /\ y \in Nat /\ x <= y BY Zenon, <1>1, SkippedMore
<1>3. Lesser(num_computed[r], num_tokens[r]) <= l
  <2>1. num_tokens[r] \in Nat /\ num_computed[r] \in Nat BY Zenon, DriverTypes
  <2>2. Lesser(num_computed[r], num_tokens[r]) \in Nat BY Zenon, <2>1 DEF Lesser
  <2> QED BY <1>1, <2>2
<1> HIDE DEF x, y
<1>4. Evolves(kv, kv', r, y)
  <2>1. Evolves(kv, kv', r, x) BY Zenon DEF x
  <2>2. ASSUME NEW i \in DOMAIN kv'.req_to_blocks[r], i * BlockSize <= x, i \in Nat
        PROVE  i * BlockSize <= y
    <3> DEFINE z == i * BlockSize
    <3>1. z \in Nat /\ z <= x BY ONLY <2>2, ManagerAssumption
    <3> HIDE DEF z
    <3>2. z <= y BY ONLY <1>2, <3>1
    <3> QED BY Zenon, <3>2 DEF z
  <2>3. \A i \in DOMAIN kv'.req_to_blocks[r] : i \in Nat
    BY TableEntry DEF Good, Sound
  <2> QED BY Zenon, <2>1, <2>2, <2>3 DEF Evolves
<1> QED BY Zenon, <1>3, <1>4 DEF Advances, y, l

\* What is left to show of a step for r once the manager is known to be good.
LEMMA StepInv ==
  ASSUME Facts, IInv, NEW r \in Req, Good(kv'), SameOthers(kv, kv', r),
         NEW t \in Nat, t >= 1, t <= Len(TokenStream[r]),
         NEW c \in Nat, c <= MaxModelLen, NEW s \in Status,
         num_tokens' = [num_tokens EXCEPT ![r] = t],
         num_computed' = [num_computed EXCEPT ![r] = c],
         status' = [status EXCEPT ![r] = s],
         ReqOK(kv', num_tokens', num_computed', status', r), Advances(r)
  PROVE  IInv' /\ \A q \in Req : Advances(q)
<1>1. /\ num_tokens \in [Req -> Nat] /\ num_computed \in [Req -> 0..MaxModelLen]
      /\ status \in [Req -> Status]
      /\ \A q \in Req : num_tokens[q] \in 1..Len(TokenStream[q])
      /\ \A q \in Req : ReqOK(kv, num_tokens, num_computed, status, q)
  BY Zenon DEF IInv, TypeOK
<1>2. Len(TokenStream[r]) \in Nat /\ MaxModelLen \in Nat BY Zenon, DriverTypes
<1>3. t \in 1..Len(TokenStream[r]) /\ c \in 0..MaxModelLen BY <1>2
<1>4. /\ num_tokens' \in [Req -> Nat] /\ num_computed' \in [Req -> 0..MaxModelLen]
      /\ status' \in [Req -> Status]
      /\ \A q \in Req : num_tokens'[q] \in 1..Len(TokenStream[q])
  BY Zenon, <1>1, <1>3
<1>5. \A q \in Req \ {r} : /\ num_tokens'[q] = num_tokens[q]
                           /\ num_computed'[q] = num_computed[q]
                           /\ status'[q] = status[q]
  BY Zenon, <1>1
<1>6. kv' \in KVState BY Zenon DEF Good, Sound
<1>7. \A q \in Req : ReqOK(kv', num_tokens', num_computed', status', q)
  BY <1>1, <1>5, Frame, Zenon
<1>8. ASSUME NEW q \in Req PROVE Advances(q)
  <2>1. CASE q = r BY Zenon, <2>1
  <2>2. CASE q # r
    <3>1. kv'.req_to_blocks[q] = kv.req_to_blocks[q] BY Zenon, <2>2 DEF SameOthers
    <3> QED BY Zenon, <1>5, <2>2, <3>1, AdvancesAlone
  <2> QED BY Zenon, <2>1, <2>2
<1>9. IInv' BY <1>4, <1>6, <1>7, Zenon DEF IInv, TypeOK
<1> QED BY Zenon, <1>8, <1>9

\* An unchanged function is one updated with its own value.
LEMMA SameValue ==
  ASSUME NEW X, NEW S, NEW f \in [X -> S], NEW x \in X
  PROVE  f = [f EXCEPT ![x] = f[x]]
BY Zenon

\* The values of the updated functions at r.
LEMMA StepValues ==
  ASSUME IInv, NEW r \in Req, NEW t, NEW c, NEW s,
         num_tokens' = [num_tokens EXCEPT ![r] = t],
         num_computed' = [num_computed EXCEPT ![r] = c],
         status' = [status EXCEPT ![r] = s]
  PROVE  num_tokens'[r] = t /\ num_computed'[r] = c /\ status'[r] = s
BY Zenon DEF IInv, TypeOK

\* The functions themselves, for the actions that leave them unchanged.
LEMMA Unchanged ==
  ASSUME IInv, NEW r \in Req
  PROVE  /\ num_tokens = [num_tokens EXCEPT ![r] = num_tokens[r]]
         /\ num_computed = [num_computed EXCEPT ![r] = num_computed[r]]
         /\ status = [status EXCEPT ![r] = status[r]]
         /\ status[r] \in Status
BY Zenon, SameValue DEF IInv, TypeOK

\* Admission with cache hits and a first chunk keeps the invariant.
LEMMA AdmitInv ==
  ASSUME Facts, IInv, NEW r \in Req, Admit(r)
  PROVE  IInv' /\ \A q \in Req : Advances(q)
<1>0. /\ status[r] = "waiting" /\ num_computed[r] = 0 /\ num_tokens' = num_tokens
  BY Zenon DEF Admit
<1>1. PICK external \in External(r, num_tokens[r] - 1) :
        LET done == Len(Hits(r)) * BlockSize + external
        IN  \E new \in 1..(num_tokens[r] - done) :
              LET a == AdmitArgs(r, new, external, FALSE)
              IN  /\ kv' = AllocateSlots(kv, r, a)
                  /\ IF CanAllocate(kv, r, a)
                     THEN /\ status' = [status EXCEPT ![r] = "running"]
                          /\ num_computed' = [num_computed EXCEPT ![r] = done + new]
                     ELSE UNCHANGED <<status, num_computed>>
  BY Zenon DEF Admit
<1> DEFINE done == Len(Hits(r)) * BlockSize + external
<1>2. PICK new \in 1..(num_tokens[r] - done) :
        LET a == AdmitArgs(r, new, external, FALSE)
        IN  /\ kv' = AllocateSlots(kv, r, a)
            /\ IF CanAllocate(kv, r, a)
               THEN /\ status' = [status EXCEPT ![r] = "running"]
                    /\ num_computed' = [num_computed EXCEPT ![r] = done + new]
               ELSE UNCHANGED <<status, num_computed>>
  BY <1>1, Zenon
<1> DEFINE a == AdmitArgs(r, new, external, FALSE)
<1>3. /\ num_tokens[r] \in Nat /\ num_tokens[r] >= 1
      /\ num_tokens[r] <= Len(TokenStream[r]) /\ num_tokens[r] <= MaxModelLen
      /\ BlockSize \in Nat \ {0} /\ Len(kv.req_to_blocks[r]) \in Nat
  BY Zenon, DriverTypes
<1>4. Len(Hits(r)) \in Nat /\ Len(Hits(r)) * BlockSize \in Nat
  <2>1. HitsOK(kv, r, Hits(r)) BY Zenon, DriverTypes, ComputedBlocksOK DEF Hits
  <2>2. Len(Hits(r)) \in Nat BY Zenon, <2>1 DEF HitsOK, Facts, LenProperties
  <2> QED BY ONLY <1>3, <2>2
<1>5. external \in Nat
  <2> DEFINE l == Len(Hits(r)) * BlockSize
  <2>1. external \in IF UseConnector THEN 0..((num_tokens[r] - 1) - l) ELSE {0}
    BY Zenon DEF External
  <2> HIDE DEF l
  <2> QED BY ONLY <2>1
<1>6. new \in Nat /\ new >= 1 /\ done + new <= num_tokens[r] /\ done \in Nat
  <2>1. done \in Nat BY ONLY <1>4, <1>5
  <2> HIDE DEF done
  <2> QED BY ONLY <1>3, <2>1
<1>7. CallOK(kv, r, a) /\ NumNeedSlot(a) = done + new /\ TotalComputed(a) = done
  <2>1. new # 0 \/ external # 0 BY ONLY <1>6
  <2>2. Len(Hits(r)) * BlockSize + external + new <= num_tokens[r] BY Zenon, <1>6
  <2> QED BY <1>0, <1>5, <1>6, <2>1, <2>2, AdmitCall, Zenon
<1>8. Good(kv) BY Zenon DEF IInv
<1>9. kv' = AllocateSlots(kv, r, a) BY Zenon, <1>2
<1>10. /\ Good(kv') /\ SameOthers(kv, kv', r)
       /\ kv'.num_cached_block[r] = -1 => kv.num_cached_block[r] = -1
       /\ CanAllocate(kv, r, a) =>
            /\ NumNeedSlot(a) <= Len(kv'.req_to_blocks[r]) * BlockSize
            /\ kv'.num_cached_block[r] = -1 => a.external = 0
       /\ ~ CanAllocate(kv, r, a) =>
            /\ kv'.num_cached_block = kv.num_cached_block
            /\ Len(kv'.req_to_blocks[r]) = Len(kv.req_to_blocks[r])
       /\ Evolves(kv, kv', r, NumSkippedTokens(TotalComputed(a)))
  <2> HIDE DEF a
  <2>1. SlotsResult(kv, kv', r, a) BY <1>7, <1>8, <1>9, AllocateSlotsGood, Zenon
  <2> QED BY <2>1, Zenon DEF SlotsResult
<1>11. num_tokens' = [num_tokens EXCEPT ![r] = num_tokens[r]] BY Zenon, <1>0, Unchanged
<1>14. Lesser(num_computed[r], num_tokens[r]) = 0 BY ONLY <1>0, <1>3 DEF Lesser
<1>15. Evolves(kv, kv', r, NumSkippedTokens(done)) BY Zenon, <1>7, <1>10
<1>12. CASE CanAllocate(kv, r, a)
  <2>1. /\ status' = [status EXCEPT ![r] = "running"]
        /\ num_computed' = [num_computed EXCEPT ![r] = done + new]
    BY Zenon, <1>2, <1>12
  <2>2. done + new \in Nat /\ done + new <= MaxModelLen
        /\ done + new <= Len(kv'.req_to_blocks[r]) * BlockSize
    <3>1. MaxModelLen \in Nat BY Zenon, DriverTypes
    <3> HIDE DEF done, a
    <3>2. NumNeedSlot(a) <= Len(kv'.req_to_blocks[r]) * BlockSize BY <1>10, <1>12, Zenon
    <3>3. done + new <= Len(kv'.req_to_blocks[r]) * BlockSize BY <1>7, <3>2, Zenon
    <3>4. done + new \in Nat /\ done + new <= MaxModelLen BY ONLY <1>3, <1>6, <3>1
    <3> QED BY <3>3, <3>4, Zenon
  <2> HIDE DEF done, a
  <2>3. /\ num_computed'[r] = done + new /\ status'[r] = "running"
        /\ num_tokens'[r] = num_tokens[r]
    BY <1>11, <2>1, StepValues, Zenon
  <2>5. Advances(r)
    <3>1. /\ done \in Nat /\ done <= done + new /\ done <= num_tokens[r]
          /\ Lesser(num_computed[r], num_tokens[r]) <= done
      BY ONLY <1>3, <1>6, <1>14
    <3>2. status'[r] = "loading" => status[r] = "loading" \/ UseConnector BY Zenon, <2>3
    <3> QED BY Zenon, <1>3, <1>10, <1>15, <2>2, <2>3, <3>1, <3>2, AdvancesBy
  <2>4. ReqOK(kv', num_tokens', num_computed', status', r)
    BY Zenon, <2>2, <2>3 DEF ReqOK
  <2> QED BY <1>3, <1>10, <1>11, <2>1, <2>2, <2>4, <2>5, StepInv, Zenon DEF Status
<1>13. CASE ~ CanAllocate(kv, r, a)
  <2>1. status' = status /\ num_computed' = num_computed BY Zenon, <1>2, <1>13
  <2>2. kv.req_to_blocks[r] = << >> => kv'.req_to_blocks[r] = << >>
    <3>1. kv'.req_to_blocks[r] \in Seq(Block) BY Zenon, <1>10, TableEntry DEF Good, Sound
    <3> QED BY Zenon, <1>10, <1>13, <3>1 DEF Facts, EmptySeq
  <2>3. ReqOK(kv, num_tokens, num_computed, status, r) BY Zenon DEF IInv
  <2>4. ReqOK(kv', num_tokens', num_computed', status', r)
    BY Zenon, <1>0, <1>10, <1>13, <2>1, <2>2, <2>3 DEF ReqOK
  <2>5. 0 \in Nat /\ 0 <= MaxModelLen BY DriverTypes, SMTT(30)
  <2>6. /\ num_computed' = [num_computed EXCEPT ![r] = 0]
        /\ status' = [status EXCEPT ![r] = "waiting"]
    BY Zenon, <1>0, <2>1, Unchanged
  <2>7. num_computed'[r] = 0 /\ num_tokens'[r] = num_tokens[r] /\ status'[r] = "waiting"
    BY Zenon, <1>0, <2>1
  <2>8. Advances(r)
    <3>1. CASE kv'.req_to_blocks[r] = << >> BY Zenon, <2>7, <3>1 DEF Advances
    <3>2. CASE kv'.req_to_blocks[r] # << >>
      <4>1. num_tokens[r] = 1 BY Zenon, <1>0, <2>2, <2>3, <3>2 DEF ReqOK
      <4>2. done = 0
        <5> HIDE DEF done
        <5> QED BY ONLY <1>6, <4>1
      <4>3. Evolves(kv, kv', r, NumSkippedTokens(0)) BY Zenon, <1>15, <4>2
      <4>4. 0 \in Nat /\ 0 <= 0 /\ 0 <= num_tokens[r] BY ONLY <1>3
      <4> QED BY Zenon, <1>3, <1>10, <1>14, <2>7, <4>3, <4>4, AdvancesBy
    <3> QED BY Zenon, <3>1, <3>2
  <2> QED BY <1>3, <1>10, <1>11, <2>4, <2>5, <2>6, <2>8, StepInv, Zenon DEF Status
<1> QED BY <1>12, <1>13, Zenon


\* Starting an asynchronous load keeps the invariant.
LEMMA StartLoadInv ==
  ASSUME Facts, IInv, NEW r \in Req, StartLoad(r)
  PROVE  IInv' /\ \A q \in Req : Advances(q)
<1>0. /\ status[r] = "waiting" /\ num_computed[r] = 0 /\ num_tokens' = num_tokens
      /\ status' = [status EXCEPT ![r] = "loading"]
  BY Zenon DEF StartLoad
<1>1. PICK external \in External(r, num_tokens[r]) \ {0} :
        LET a == AdmitArgs(r, 0, external, TRUE)
        IN  /\ CanAllocate(kv, r, a)
            /\ kv' = AllocateSlots(kv, r, a)
            /\ num_computed' = [num_computed EXCEPT
                 ![r] = Len(Hits(r)) * BlockSize + external]
  BY Zenon DEF StartLoad
<1> DEFINE done == Len(Hits(r)) * BlockSize + external
           a == AdmitArgs(r, 0, external, TRUE)
<1>3. /\ num_tokens[r] \in Nat /\ num_tokens[r] >= 1
      /\ num_tokens[r] <= Len(TokenStream[r]) /\ num_tokens[r] <= MaxModelLen
      /\ BlockSize \in Nat \ {0} /\ MaxModelLen \in Nat
  BY Zenon, DriverTypes
<1>4. Len(Hits(r)) \in Nat /\ Len(Hits(r)) * BlockSize \in Nat
  <2>1. HitsOK(kv, r, Hits(r)) BY Zenon, DriverTypes, ComputedBlocksOK DEF Hits
  <2>2. Len(Hits(r)) \in Nat BY Zenon, <2>1 DEF HitsOK, Facts, LenProperties
  <2> QED BY ONLY <1>3, <2>2
<1>5. external \in Nat /\ external # 0 /\ done <= num_tokens[r] /\ UseConnector
  <2> DEFINE l == Len(Hits(r)) * BlockSize
  <2>1. external \in IF UseConnector THEN 0..(num_tokens[r] - l) ELSE {0}
    BY Zenon DEF External
  <2>2. l \in Nat BY Zenon, <1>4
  <2> HIDE DEF l
  <2>3. /\ external \in Nat /\ external # 0 /\ l + external <= num_tokens[r]
        /\ UseConnector
    BY ONLY <1>3, <2>1, <2>2
  <2> QED BY Zenon, <2>3 DEF l
<1>6. done \in Nat /\ done >= 1 BY ONLY <1>4, <1>5
<1>7. CallOK(kv, r, a) /\ NumNeedSlot(a) = done + 0 /\ TotalComputed(a) = done
  <2> DEFINE new == 0
             delay == TRUE
  <2>1. /\ Len(Hits(r)) * BlockSize + external + new <= num_tokens[r]
        /\ new \in Nat /\ delay \in BOOLEAN
    BY ONLY <1>3, <1>5, <1>6
  <2> HIDE DEF new, delay
  <2>2. /\ CallOK(kv, r, AdmitArgs(r, new, external, delay)) /\ done \in Nat
        /\ NumNeedSlot(AdmitArgs(r, new, external, delay)) = done + new
        /\ TotalComputed(AdmitArgs(r, new, external, delay)) = done
    BY <1>0, <1>5, <2>1, AdmitCall
  <2> QED BY <2>2, Zenon DEF new, delay
<1>8. Good(kv) BY Zenon DEF IInv
<1>9. kv' = AllocateSlots(kv, r, a) /\ CanAllocate(kv, r, a) BY <1>1, Zenon
<1>10. a.external # 0 BY Zenon, <1>5 DEF AdmitArgs
<1>11. /\ Good(kv') /\ SameOthers(kv, kv', r)
       /\ kv'.num_cached_block[r] = -1 => kv.num_cached_block[r] = -1
       /\ CanAllocate(kv, r, a) =>
            /\ NumNeedSlot(a) <= Len(kv'.req_to_blocks[r]) * BlockSize
            /\ kv'.num_cached_block[r] = -1 => a.external = 0
       /\ ~ CanAllocate(kv, r, a) =>
            /\ kv'.num_cached_block = kv.num_cached_block
            /\ Len(kv'.req_to_blocks[r]) = Len(kv.req_to_blocks[r])
       /\ Evolves(kv, kv', r, NumSkippedTokens(TotalComputed(a)))
  <2> HIDE DEF a
  <2>1. SlotsResult(kv, kv', r, a) BY <1>7, <1>8, <1>9, AllocateSlotsGood, Zenon
  <2> QED BY <2>1, Zenon DEF SlotsResult
<1> HIDE DEF a
<1>12. /\ num_tokens' = [num_tokens EXCEPT ![r] = num_tokens[r]]
       /\ num_computed' = [num_computed EXCEPT ![r] = done]
  BY Zenon, <1>0, <1>1, Unchanged
<1> HIDE DEF done
<1>13. num_tokens'[r] = num_tokens[r] /\ num_computed'[r] = done /\ status'[r] = "loading"
  BY <1>0, <1>12, StepValues, Zenon
<1>14. done <= Len(kv'.req_to_blocks[r]) * BlockSize /\ kv'.num_cached_block[r] # -1
  BY ONLY <1>6, <1>7, <1>9, <1>10, <1>11
<1>15. ReqOK(kv', num_tokens', num_computed', status', r)
  BY Zenon, <1>5, <1>6, <1>13, <1>14 DEF ReqOK
<1>16. done <= MaxModelLen BY ONLY <1>3, <1>5, <1>6
<1>17. Advances(r)
  <2>1. Lesser(num_computed[r], num_tokens[r]) = 0 BY ONLY <1>0, <1>3 DEF Lesser
  <2>2. done <= done /\ 0 <= done BY ONLY <1>6
  <2>3. Evolves(kv, kv', r, NumSkippedTokens(done)) BY Zenon, <1>7, <1>11
  <2> QED BY Zenon, <1>3, <1>5, <1>6, <1>11, <1>13, <2>1, <2>2, <2>3, AdvancesBy
<1> QED BY <1>0, <1>3, <1>6, <1>11, <1>12, <1>15, <1>16, <1>17, StepInv, Zenon DEF Status

\* A load that finished without failures keeps the invariant.
LEMMA FinishLoadInv ==
  ASSUME Facts, IInv, NEW r \in Req, FinishLoad(r)
  PROVE  IInv' /\ \A q \in Req : Advances(q)
<1> DEFINE t == num_tokens[r]
           c == num_computed[r]
           c2 == Lesser(c, t - 1)
<1>0. /\ status[r] = "loading" /\ num_tokens' = num_tokens
      /\ kv' = CacheBlocks(kv, r, c, t)
      /\ num_computed' = [num_computed EXCEPT ![r] = c2]
      /\ status' = [status EXCEPT ![r] = "waiting"]
  BY Zenon DEF FinishLoad
<1>1. /\ t \in Nat /\ t >= 1 /\ t <= Len(TokenStream[r]) /\ t <= MaxModelLen
      /\ c \in Nat /\ Len(TokenStream[r]) \in Nat /\ MaxModelLen \in Nat
      /\ kv.num_cached_block[r] \in Nat \union {-1}
      /\ Len(kv.req_to_blocks[r]) * BlockSize \in Nat
  BY Zenon, DriverTypes
<1>2. /\ kv.num_cached_block[r] # -1 /\ c >= 1 /\ c <= t
      /\ c <= Len(kv.req_to_blocks[r]) * BlockSize
  BY Zenon, <1>0 DEF IInv, ReqOK
<1>3. Good(kv) BY Zenon DEF IInv
<1>4. /\ Good(kv') /\ SameOthers(kv, kv', r)
      /\ kv'.req_to_blocks = kv.req_to_blocks
      /\ kv'.num_cached_block[r] \in Nat \union {kv.num_cached_block[r]}
  <2>1. t \in 0..Len(TokenStream[r]) /\ c \in 0..t BY ONLY <1>1, <1>2
  <2> HIDE DEF t, c
  <2> QED BY Zenon, <1>0, <1>3, <2>1, CacheBlocksGood
<1>5. num_tokens' = [num_tokens EXCEPT ![r] = t] BY Zenon, <1>0, Unchanged
<1> HIDE DEF t, c
<1>6. c2 \in Nat /\ c2 <= c /\ c2 <= MaxModelLen /\ (c2 = 0 => t = 1)
  BY ONLY <1>1, <1>2 DEF Lesser
<1> HIDE DEF c2
<1>7. num_tokens'[r] = t /\ num_computed'[r] = c2 /\ status'[r] = "waiting"
  BY <1>0, <1>5, StepValues, ZenonT(90)
<1>8. kv'.num_cached_block[r] # -1 BY <1>1, <1>2, <1>4, SMTT(30)
<1>9. c2 <= Len(kv'.req_to_blocks[r]) * BlockSize BY ONLY <1>1, <1>2, <1>4, <1>6
<1>10. ReqOK(kv', num_tokens', num_computed', status', r)
  BY Zenon, <1>6, <1>7, <1>8, <1>9 DEF ReqOK
<1>11. Advances(r)
  <2>1. \A z : Evolves(kv, kv', r, z) BY Zenon, <1>4, EvolvesSame
  <2> QED BY Zenon, <1>0, <2>1 DEF Advances
<1> QED BY <1>0, <1>1, <1>4, <1>5, <1>6, <1>10, <1>11, StepInv, Zenon DEF Status

\* A load that fails at a later block leaves fewer tokens than it was to load.
LEMMA FailedBlock ==
  ASSUME NEW c \in Nat, NEW i \in Nat, i <= CDiv(c, BlockSize) - 1
  PROVE  i * BlockSize \in Nat /\ i * BlockSize <= c
<1>0. BlockSize \in Nat \ {0} BY Zenon, ManagerAssumption
<1> DEFINE d == c + BlockSize - 1
           q == d \div BlockSize
<1>1. d \in Nat BY ONLY <1>0
<1>2. i <= q - 1 BY Zenon DEF CDiv
<1> HIDE DEF d
<1>3. q \in Nat /\ q * BlockSize <= d BY Zenon, <1>0, <1>1, DivBounds
<1> HIDE DEF q
<1>4. (i + 1) * BlockSize <= q * BlockSize BY ONLY <1>0, <1>2, <1>3
<1>5. (i + 1) * BlockSize = i * BlockSize + BlockSize BY ONLY <1>0
<1> DEFINE x == i * BlockSize
           y == q * BlockSize
<1>6. x \in Nat /\ y \in Nat /\ x + BlockSize <= y /\ y <= d
  BY ONLY <1>0, <1>3, <1>4, <1>5
<1> HIDE DEF x, y
<1>7. x <= c BY ONLY <1>0, <1>6 DEF d
<1> QED BY Zenon, <1>6, <1>7 DEF x

\* A load with a failed block keeps the invariant.
LEMMA FailLoadInv ==
  ASSUME Facts, IInv, NEW r \in Req, FailLoad(r)
  PROVE  IInv' /\ \A q \in Req : Advances(q)
<1> DEFINE t == num_tokens[r]
           c == num_computed[r]
<1>0. /\ status[r] = "loading" /\ num_tokens' = num_tokens
      /\ status' = [status EXCEPT ![r] = "waiting"]
  BY Zenon DEF FailLoad
<1>2. /\ t \in Nat /\ t >= 1 /\ t <= Len(TokenStream[r]) /\ t <= MaxModelLen
      /\ c \in Nat /\ Len(TokenStream[r]) \in Nat /\ MaxModelLen \in Nat
      /\ kv.num_cached_block[r] \in Nat \union {-1} /\ BlockSize \in Nat \ {0}
      /\ Len(kv.req_to_blocks[r]) * BlockSize \in Nat
  BY Zenon, DriverTypes
<1>1. PICK i \in kv.num_cached_block[r]..(CDiv(c, BlockSize) - 1) :
        /\ num_computed' = [num_computed EXCEPT ![r] = i * BlockSize]
        /\ kv' = IF i = 0 THEN Free(kv, r) ELSE CacheBlocks(kv, r, i * BlockSize, t)
  BY Zenon DEF FailLoad
<1>3. /\ kv.num_cached_block[r] # -1 /\ c >= 1 /\ c <= t
      /\ c <= Len(kv.req_to_blocks[r]) * BlockSize
  BY Zenon, <1>0 DEF IInv, ReqOK
<1>4. Good(kv) BY Zenon DEF IInv
<1>5. num_tokens' = [num_tokens EXCEPT ![r] = t] BY Zenon, <1>0, Unchanged
<1> HIDE DEF t, c
<1>6. i \in Nat /\ i <= CDiv(c, BlockSize) - 1
  <2>1. CDiv(c, BlockSize) \in Nat BY Zenon, <1>2, CDivType
  <2> QED BY ONLY <1>2, <1>3, <2>1
<1> DEFINE x == i * BlockSize
<1>7. x \in Nat /\ x <= c BY Zenon, <1>2, <1>6, FailedBlock
<1>8. i # 0 => x > 0 BY ONLY <1>2, <1>6
<1>9. i = 0 => x = 0 BY ONLY <1>2
<1> HIDE DEF x
<1>10. num_computed' = [num_computed EXCEPT ![r] = x] BY Zenon, <1>1 DEF x
<1>11. num_tokens'[r] = t /\ num_computed'[r] = x /\ status'[r] = "waiting"
  BY <1>0, <1>5, <1>10, StepValues, ZenonT(90)
<1>12. x <= MaxModelLen BY ONLY <1>2, <1>3, <1>7
<1>13. CASE i = 0
  <2>1. kv' = Free(kv, r) BY Zenon, <1>1, <1>13
  <2>2. /\ Good(kv') /\ SameOthers(kv, kv', r)
        /\ kv'.req_to_blocks[r] = << >> /\ kv'.num_cached_block[r] = -1
    BY Zenon, <1>4, <2>1, FreeGood
  <2>3. ReqOK(kv', num_tokens', num_computed', status', r)
    BY ONLY <1>9, <1>11, <1>13, <2>2 DEF ReqOK
  <2>4. Advances(r) BY Zenon, <1>0, <2>2 DEF Advances
  <2> QED BY <1>0, <1>2, <1>5, <1>7, <1>10, <1>12, <2>2, <2>3, <2>4, StepInv, Zenon DEF Status
<1>14. CASE i # 0
  <2>1. kv' = CacheBlocks(kv, r, x, t) BY Zenon, <1>1, <1>14 DEF x
  <2>2. t \in 0..Len(TokenStream[r]) /\ x \in 0..t BY <1>2, <1>3, <1>7, SMTT(30)
  <2>3. /\ Good(kv') /\ SameOthers(kv, kv', r)
        /\ kv'.req_to_blocks = kv.req_to_blocks
        /\ kv'.num_cached_block[r] \in Nat \union {kv.num_cached_block[r]}
    BY Zenon, <1>4, <2>1, <2>2, CacheBlocksGood
  <2>4. x <= Len(kv'.req_to_blocks[r]) * BlockSize BY ONLY <1>2, <1>3, <1>7, <2>3
  <2>5. ReqOK(kv', num_tokens', num_computed', status', r)
    BY ONLY <1>7, <1>8, <1>11, <1>14, <2>4 DEF ReqOK
  <2>6. Advances(r)
    <3>1. \A z : Evolves(kv, kv', r, z) BY Zenon, <2>3, EvolvesSame
    <3> QED BY Zenon, <1>0, <3>1 DEF Advances
  <2> QED BY <1>0, <1>2, <1>5, <1>7, <1>10, <1>12, <2>3, <2>5, <2>6, StepInv, Zenon DEF Status
<1> QED BY Zenon, <1>13, <1>14


\* A further chunk or a decoding step keeps the invariant.
LEMMA ExtendInv ==
  ASSUME Facts, IInv, NEW r \in Req, Extend(r)
  PROVE  IInv' /\ \A q \in Req : Advances(q)
<1> DEFINE c == num_computed[r]
           rest == num_tokens[r] - c
           drafts == IF status[r] = "running" THEN MaxDraft ELSE 0
           most == Lesser(rest + drafts, MaxModelLen - 1 - c)
<1>0. /\ status[r] = "running" \/ (status[r] = "waiting" /\ c > 0)
      /\ num_tokens' = num_tokens /\ c < num_tokens[r]
  BY Zenon DEF Extend
<1>1. /\ num_tokens[r] \in Nat /\ num_tokens[r] >= 1
      /\ num_tokens[r] <= Len(TokenStream[r])
      /\ c \in Nat /\ c <= MaxModelLen /\ MaxModelLen \in Nat
      /\ BlockSize \in Nat \ {0} /\ Len(kv.req_to_blocks[r]) \in Nat
  BY Zenon, DriverTypes
<1>2. c <= Len(kv.req_to_blocks[r]) * BlockSize BY Zenon, <1>0 DEF IInv, ReqOK
<1>3. most \in Int /\ most <= MaxModelLen - 1 - c
  <2>1. rest \in Int /\ drafts \in Int BY ONLY <1>1, DriverAssumption
  <2> HIDE DEF rest, drafts, c
  <2> QED BY ONLY <1>1, <2>1 DEF Lesser
<1>4. PICK new \in 1..most :
        LET a == StepArgs(r, new)
        IN  /\ kv' = AllocateSlots(kv, r, a)
            /\ IF CanAllocate(kv, r, a)
               THEN /\ num_computed' = [num_computed EXCEPT ![r] = @ + new]
                    /\ status' = [status EXCEPT ![r] = "running"]
               ELSE UNCHANGED <<num_computed, status>>
  BY Zenon DEF Extend
<1> DEFINE a == StepArgs(r, new)
<1> HIDE DEF most
<1>5. new \in Nat /\ new >= 1 /\ c + new <= MaxModelLen /\ c + new \in Nat
  <2> HIDE DEF c
  <2> QED BY ONLY <1>1, <1>3
<1>6. /\ a.num_computed = c /\ a.num_tokens = num_tokens[r] /\ a.new = new
      /\ a.hits = << >> /\ a.lookahead = Lookahead /\ a.external = 0
  BY Zenon DEF StepArgs
<1>7. a \in AllocArgs
  BY Zenon, <1>1, <1>5, DriverAssumption DEF StepArgs, AllocArgs, Facts, EmptySeq
<1> HIDE DEF a, c
<1>8. NumLocalComputed(a) = c /\ TotalComputed(a) = c
  <2>1. Len(a.hits) = 0 BY Zenon, <1>6 DEF Facts, EmptySeq
  <2>2. NumLocalComputed(a) = c BY <1>1, <1>6, <2>1, SMTT(30) DEF NumLocalComputed
  <2> QED BY ONLY <1>1, <1>6, <2>2 DEF TotalComputed, Lesser
<1>9. NumNeedSlot(a) >= c + new /\ NumNeedSlot(a) \in Nat
  <2>1. NumNeedSlot(a) = Lesser(c + new + Lookahead, MaxModelLen)
    BY Zenon, <1>6, <1>8 DEF NumNeedSlot
  <2>2. Lookahead \in Nat BY Zenon, DriverAssumption
  <2> QED BY ONLY <1>1, <1>5, <2>1, <2>2 DEF Lesser
<1>10. CallOK(kv, r, a)
  <2>1. HitsOK(kv, r, a.hits) BY ONLY <1>6 DEF HitsOK, Facts, EmptySeq
  <2>2. NumLocalComputed(a) + a.external <= MaxModelLen BY ONLY <1>1, <1>6, <1>8
  <2>3. a.new # 0 BY ONLY <1>5, <1>6
  <2>4. \A n : NullHits(a.hits, n) BY ONLY <1>6 DEF NullHits
  <2> QED BY Zenon, <1>1, <1>2, <1>6, <1>7, <2>1, <2>2, <2>3, <2>4 DEF CallOK
<1>11. Good(kv) BY Zenon DEF IInv
<1>12. /\ kv' = AllocateSlots(kv, r, a)
       /\ IF CanAllocate(kv, r, a)
          THEN /\ num_computed' = [num_computed EXCEPT ![r] = c + new]
               /\ status' = [status EXCEPT ![r] = "running"]
          ELSE num_computed' = num_computed /\ status' = status
  BY Zenon, <1>4 DEF a, c
<1>13. /\ Good(kv') /\ SameOthers(kv, kv', r)
       /\ kv'.num_cached_block[r] = -1 => kv.num_cached_block[r] = -1
       /\ CanAllocate(kv, r, a) =>
            /\ NumNeedSlot(a) <= Len(kv'.req_to_blocks[r]) * BlockSize
            /\ kv'.num_cached_block[r] = -1 => a.external = 0
       /\ ~ CanAllocate(kv, r, a) =>
            /\ kv'.num_cached_block = kv.num_cached_block
            /\ Len(kv'.req_to_blocks[r]) = Len(kv.req_to_blocks[r])
       /\ Evolves(kv, kv', r, NumSkippedTokens(TotalComputed(a)))
  <2>1. SlotsResult(kv, kv', r, a) BY <1>10, <1>11, <1>12, AllocateSlotsGood, Zenon
  <2> QED BY <2>1, Zenon DEF SlotsResult
<1>14. num_tokens' = [num_tokens EXCEPT ![r] = num_tokens[r]] BY Zenon, <1>0, Unchanged
<1>17. /\ Evolves(kv, kv', r, NumSkippedTokens(c))
       /\ Lesser(num_computed[r], num_tokens[r]) <= c /\ c <= num_tokens[r]
  <2>1. Lesser(c, num_tokens[r]) <= c /\ c <= num_tokens[r] BY ONLY <1>0, <1>1 DEF Lesser
  <2> QED BY Zenon, <1>8, <1>13, <2>1 DEF c
<1>15. CASE CanAllocate(kv, r, a)
  <2>1. /\ num_computed' = [num_computed EXCEPT ![r] = c + new]
        /\ status' = [status EXCEPT ![r] = "running"]
    BY Zenon, <1>12, <1>15
  <2>2. /\ num_computed'[r] = c + new /\ status'[r] = "running"
        /\ num_tokens'[r] = num_tokens[r]
    BY <1>14, <2>1, StepValues, Zenon
  <2>5. Advances(r)
    <3>1. c <= c + new BY ONLY <1>1, <1>5
    <3> QED BY Zenon, <1>1, <1>5, <1>13, <1>17, <2>2, <3>1, AdvancesBy
  <2>3. c + new <= Len(kv'.req_to_blocks[r]) * BlockSize
    <3> DEFINE l == Len(kv'.req_to_blocks[r])
    <3>1. l \in Nat BY Zenon, <1>13, TableEntry DEF Good, Sound
    <3> HIDE DEF l
    <3>2. l * BlockSize \in Nat BY ONLY <1>1, <3>1
    <3>3. NumNeedSlot(a) <= l * BlockSize BY Zenon, <1>13, <1>15 DEF l
    <3>4. c + new <= l * BlockSize BY ONLY <1>5, <1>9, <3>2, <3>3
    <3> QED BY Zenon, <3>4 DEF l
  <2>4. ReqOK(kv', num_tokens', num_computed', status', r) BY Zenon, <2>2, <2>3 DEF ReqOK
  <2> QED BY <1>1, <1>5, <1>13, <1>14, <2>1, <2>4, <2>5, StepInv, Zenon DEF Status
<1>16. CASE ~ CanAllocate(kv, r, a)
  <2>1. num_computed' = num_computed /\ status' = status BY Zenon, <1>12, <1>16
  <2>2. num_computed'[r] = c /\ status'[r] = status[r] BY Zenon, <2>1 DEF c
  <2>3. ReqOK(kv', num_tokens', num_computed', status', r)
    <3>1. status[r] # "loading" /\ ~ (status[r] = "waiting" /\ c = 0) BY ONLY <1>0, <1>1
    <3>2. c <= Len(kv'.req_to_blocks[r]) * BlockSize BY Zenon, <1>2, <1>13, <1>16
    <3> QED BY Zenon, <2>2, <3>1, <3>2 DEF ReqOK
  <2>4. /\ num_computed' = [num_computed EXCEPT ![r] = c]
        /\ status' = [status EXCEPT ![r] = status[r]] /\ status[r] \in Status
    BY Zenon, <2>1, Unchanged DEF c
  <2>5. Advances(r)
    <3>1. num_computed'[r] = c /\ num_tokens'[r] = num_tokens[r] /\ status'[r] = status[r]
      BY Zenon, <1>0, <2>1 DEF c
    <3>2. c <= c BY ONLY <1>1
    <3> QED BY Zenon, <1>1, <1>13, <1>17, <3>1, <3>2, AdvancesBy
  <2> QED BY <1>1, <1>13, <1>14, <2>3, <2>4, <2>5, StepInv, Zenon
<1> QED BY Zenon, <1>15, <1>16

\* Appending sampled tokens keeps the invariant.
LEMMA SampleInv ==
  ASSUME Facts, IInv, NEW r \in Req, Sample(r)
  PROVE  IInv' /\ \A q \in Req : Advances(q)
<1> DEFINE t == num_tokens[r]
           c == num_computed[r]
<1>1. /\ t \in Nat /\ t >= 1 /\ Len(TokenStream[r]) \in Nat
      /\ c \in Nat /\ c <= MaxModelLen /\ MaxModelLen \in Nat
      /\ Len(kv.req_to_blocks[r]) * BlockSize \in Nat
  BY Zenon, DriverTypes
<1>2. PICK accepted \in 0..(c - t) :
        /\ t + accepted + 1 <= Len(TokenStream[r])
        /\ num_tokens' = [num_tokens EXCEPT ![r] = @ + accepted + 1]
        /\ num_computed' = [num_computed EXCEPT ![r] = t + accepted]
  BY Zenon DEF Sample
<1>3. status[r] = "running" /\ kv' = kv /\ status' = status BY Zenon DEF Sample
<1>4. c <= Len(kv.req_to_blocks[r]) * BlockSize BY Zenon, <1>3 DEF IInv, ReqOK
<1>5. Good(kv) BY Zenon DEF IInv
<1>6. /\ num_tokens' = [num_tokens EXCEPT ![r] = t + accepted + 1]
      /\ status' = [status EXCEPT ![r] = "running"]
  BY Zenon, <1>2, <1>3, Unchanged
<1>7. num_computed' = [num_computed EXCEPT ![r] = t + accepted] BY Zenon, <1>2
<1> HIDE DEF t, c
<1>8. /\ accepted \in Nat /\ t + accepted \in Nat /\ t + accepted <= c
      /\ t + accepted + 1 \in Nat /\ t + accepted + 1 >= 1
      /\ t + accepted <= MaxModelLen
      /\ t + accepted <= Len(kv.req_to_blocks[r]) * BlockSize
  BY ONLY <1>1, <1>4
<1>9. /\ num_computed'[r] = t + accepted /\ status'[r] = "running"
      /\ num_tokens'[r] = t + accepted + 1
  BY <1>6, <1>7, StepValues, ZenonT(90)
<1>10. ReqOK(kv', num_tokens', num_computed', status', r)
  BY Zenon, <1>3, <1>8, <1>9 DEF ReqOK
<1>11. SameOthers(kv, kv', r) /\ Good(kv') BY Zenon, <1>3, <1>5 DEF SameOthers
<1>12. t + accepted + 1 <= Len(TokenStream[r]) BY Zenon, <1>2
<1>13. Advances(r)
  <2>1. /\ t <= t + accepted /\ t <= t + accepted + 1
        /\ Lesser(num_computed[r], num_tokens[r]) <= t
    <3>1. Lesser(c, t) <= t BY ONLY <1>1 DEF Lesser
    <3>2. t <= t + accepted /\ t <= t + accepted + 1 BY ONLY <1>1, <1>8
    <3> QED BY Zenon, <3>1, <3>2 DEF c, t
  <2>2. Evolves(kv, kv', r, NumSkippedTokens(t)) BY Zenon, <1>3, EvolvesSame
  <2> QED BY Zenon, <1>1, <1>8, <1>9, <1>11, <2>1, <2>2, AdvancesBy
<1> QED BY <1>6, <1>7, <1>8, <1>10, <1>11, <1>12, <1>13, StepInv, Zenon DEF Status

\* Preempting, finishing and failing a request keep the invariant.
LEMMA ReleaseInv ==
  ASSUME Facts, IInv, NEW r \in Req, Preempt(r) \/ Finish(r) \/ FailRunning(r)
  PROVE  IInv' /\ \A q \in Req : Advances(q)
<1>1. /\ num_tokens[r] \in Nat /\ num_tokens[r] >= 1
      /\ num_tokens[r] <= Len(TokenStream[r])
      /\ num_computed[r] \in Nat /\ num_computed[r] <= MaxModelLen
      /\ MaxModelLen \in Nat
  BY Zenon, DriverTypes
<1>2. num_tokens' = [num_tokens EXCEPT ![r] = num_tokens[r]]
  BY Zenon, Unchanged DEF Preempt, Finish, FailRunning
<1>3. \E k : Good(k) /\ SameOthers(kv, k, r) /\ kv' = Free(k, r)
  <2>1. CASE Preempt(r) \/ Finish(r)
    <3>1. kv' = Free(kv, r) /\ Good(kv) BY Zenon, <2>1 DEF IInv, Preempt, Finish
    <3> QED BY Zenon, <3>1 DEF SameOthers
  <2>2. CASE FailRunning(r)
    <3> DEFINE T == kv.req_to_blocks[r]
    <3>1. PICK i \in 1..Len(T) :
            kv' = Free(EvictBlocks(kv, Range(SubSeq(T, i, Len(T)))), r)
      BY Zenon, <2>2 DEF FailRunning
    <3> DEFINE B == Range(SubSeq(T, i, Len(T)))
    <3>2. T \in Seq(Block) /\ Len(T) \in Nat BY Zenon, DriverTypes, TableEntry
    <3>3. B \in SUBSET Block
      <4>1. \A j \in i..Len(T) : T[j] \in Block BY ONLY <3>2 DEF Facts, ElementOfSeq
      <4> DEFINE s == SubSeq(T, i, Len(T))
      <4>2. s \in Seq(Block) BY ONLY <3>2, <4>1 DEF Facts, SubSeqProperties
      <4> HIDE DEF s
      <4>3. \A j \in DOMAIN s : s[j] \in Block BY Zenon, <4>2 DEF Facts, LenProperties
      <4>4. Range(s) \in SUBSET Block BY Zenon, <4>3 DEF Range
      <4> QED BY Zenon, <4>4 DEF s
    <3>4. Good(kv) BY Zenon DEF IInv
    <3> DEFINE k == EvictBlocks(kv, B)
    <3> HIDE DEF B
    <3>5. /\ Good(k) /\ k.req_to_blocks = kv.req_to_blocks
          /\ k.num_cached_block = kv.num_cached_block
      BY Zenon, <3>3, <3>4, EvictBlocksGood
    <3>6. kv' = Free(k, r) BY Zenon, <3>1 DEF B
    <3> HIDE DEF k
    <3>7. SameOthers(kv, k, r) BY Zenon, <3>5 DEF SameOthers
    <3> QED BY Zenon, <3>5, <3>6, <3>7
  <2> QED BY Zenon, <2>1, <2>2
<1>4. PICK k : Good(k) /\ SameOthers(kv, k, r) /\ kv' = Free(k, r) BY Zenon, <1>3
<1>5. /\ Good(kv') /\ SameOthers(k, kv', r)
      /\ kv'.req_to_blocks[r] = << >> /\ kv'.num_cached_block[r] = -1
  BY Zenon, <1>4, FreeGood
<1>6. SameOthers(kv, kv', r) BY Zenon, <1>4, <1>5 DEF SameOthers
<1>7. CASE Preempt(r)
  <2>1. /\ num_computed' = [num_computed EXCEPT ![r] = 0]
        /\ status' = [status EXCEPT ![r] = "waiting"]
    BY Zenon, <1>7 DEF Preempt
  <2>2. num_computed'[r] = 0 /\ status'[r] = "waiting" BY <1>2, <2>1, StepValues, ZenonT(90)
  <2>3. ReqOK(kv', num_tokens', num_computed', status', r)
    BY ONLY <1>5, <2>2 DEF ReqOK
  <2>4. 0 \in Nat /\ 0 <= MaxModelLen BY ONLY <1>1
  <2>5. Advances(r) BY Zenon, <1>5, <2>2 DEF Advances
  <2> QED BY <1>1, <1>2, <1>5, <1>6, <2>1, <2>3, <2>4, <2>5, StepInv, Zenon DEF Status
<1>8. CASE Finish(r) \/ FailRunning(r)
  <2>1. /\ num_computed' = [num_computed EXCEPT ![r] = num_computed[r]]
        /\ status' = [status EXCEPT ![r] = "finished"]
    BY Zenon, <1>8, Unchanged DEF Finish, FailRunning
  <2>2. status'[r] = "finished" BY <1>2, <2>1, StepValues, Zenon
  <2>3. ReqOK(kv', num_tokens', num_computed', status', r) BY Zenon, <2>2 DEF ReqOK
  <2>4. Advances(r) BY Zenon, <1>5, <2>2 DEF Advances
  <2> QED BY <1>1, <1>2, <1>5, <1>6, <2>1, <2>3, <2>4, StepInv, Zenon DEF Status
<1> QED BY Zenon, <1>7, <1>8


\* A new pool is sound: everything is free, nothing is cached.
LEMMA InitInv ==
  ASSUME Facts, Init
  PROVE  IInv
<1>1. PICK queue \in InitialQueues : kv = InitKV(queue) BY Zenon DEF Init
<1> DEFINE n == NumBlocks - 1
<1>2. n \in Nat
  <2>1. NumBlocks \in Nat BY Zenon, PoolAssumption DEF NumBlocks, Facts, FiniteCardinality
  <2>2. NumBlocks # 0 BY Zenon, PoolAssumption DEF NumBlocks, Facts, FiniteEmpty
  <2> QED BY ONLY <2>1, <2>2
<1>3. /\ queue \in [1..n -> Block \ {NullBlock}]
      /\ \A i, j \in 1..n : queue[i] = queue[j] => i = j
      /\ \A b \in Block \ {NullBlock} : \E i \in 1..n : queue[i] = b
  <2>1. queue \in Bijection(1..n, Block \ {NullBlock}) BY Zenon DEF InitialQueues
  <2> HIDE DEF n
  <2> QED BY Zenon, <2>1 DEF Bijection, Injection, Surjection, IsInjective
<1> HIDE DEF n
<1>4. /\ queue \in Seq(Block) /\ IsInjective(queue) /\ Range(queue) = Block \ {NullBlock}
  BY ONLY <1>2, <1>3 DEF IsInjective, Range
<1>5. /\ kv.ref_cnt = [b \in Block |-> 0] /\ kv.block_hash = [b \in Block |-> NoHash]
      /\ kv.free = queue /\ kv.cached = [h \in Hash |-> << >>] /\ kv.err = FALSE
      /\ kv.req_to_blocks = [r \in Req |-> << >>]
      /\ kv.num_cached_block = [r \in Req |-> -1]
  BY Zenon, <1>1 DEF InitKV, InitPool
<1>6. kv \in KVState BY <1>1, <1>4, SMTT(90) DEF InitKV, InitPool, KVState, Facts, EmptySeq
<1>7. \A r \in Req : DOMAIN kv.req_to_blocks[r] = {} /\ Range(kv.req_to_blocks[r]) = {}
  BY ONLY <1>5 DEF Range
<1>8. RefCountsExact(kv)
  <2>1. \A b \in Block : Users(kv, b) = {} BY Zenon, <1>7 DEF Users
  <2>2. \A b \in Block : Cardinality(Users(kv, b)) = 0 BY Zenon, <2>1 DEF Facts, FiniteEmpty
  <2> QED BY Zenon, <1>5, <1>7, <2>2 DEF RefCountsExact
<1>9. FreeQueueExact(kv) BY Zenon, <1>4, <1>5 DEF FreeQueueExact
<1>10. CacheMapExact(kv)
  <2> SUFFICES ASSUME NEW h \in Hash
               PROVE  /\ IsInjective(kv.cached[h])
                      /\ Range(kv.cached[h])
                           = {b \in Block \ {NullBlock} : kv.block_hash[b] = h}
    BY Zenon DEF CacheMapExact
  <2>1. kv.cached[h] = << >> BY Zenon, <1>5
  <2>2. IsInjective(<< >>) /\ Range(<< >>) = {} BY DEF IsInjective, Range
  <2>3. \A b \in Block : kv.block_hash[b] # h BY Zenon, <1>5, PoolAssumption
  <2> QED BY Zenon, <2>1, <2>2, <2>3
<1>11. TablesOwnHash(kv) /\ SharedBlocksAgree(kv) /\ FreshTail(kv)
  BY Zenon, <1>7 DEF TablesOwnHash, SharedBlocksAgree, FreshTail
<1>12. Good(kv)
  BY Zenon, <1>5, <1>6, <1>8, <1>9, <1>10, <1>11 DEF Good, Sound
<1>13. /\ num_tokens = NumPrompt /\ num_computed = [r \in Req |-> 0]
       /\ status = [r \in Req |-> "waiting"]
  BY Zenon DEF Init
<1>14. TypeOK BY ONLY <1>6, <1>13, DriverAssumption, ManagerAssumption DEF TypeOK, Status
<1>15. \A r \in Req : ReqOK(kv, num_tokens, num_computed, status, r)
  BY ONLY <1>5, <1>13 DEF ReqOK
<1> QED BY Zenon, <1>12, <1>14, <1>15 DEF IInv

\* Every step of the driver preserves the invariant.
LEMMA NextInv ==
  ASSUME Facts, IInv, [Next]_vars
  PROVE  IInv' /\ \A q \in Req : Advances(q)
<1>1. CASE UNCHANGED vars
  <2>1. /\ kv' = kv /\ num_tokens' = num_tokens /\ num_computed' = num_computed
        /\ status' = status
    BY Zenon, <1>1 DEF vars
  <2>2. IInv' BY Zenon, <2>1 DEF IInv, TypeOK
  <2>3. \A q \in Req : Advances(q) BY Zenon, <2>1, AdvancesAlone
  <2> QED BY Zenon, <2>2, <2>3
<1>2. CASE Reset
  <2>1. /\ kv' = ResetPrefixCache(kv) /\ num_tokens' = num_tokens
        /\ num_computed' = num_computed /\ status' = status
    BY Zenon, <1>2 DEF Reset
  <2>2. Good(kv) BY Zenon DEF IInv
  <2>3. /\ Good(kv') /\ kv'.req_to_blocks = kv.req_to_blocks
        /\ kv'.num_cached_block = kv.num_cached_block
    BY Zenon, <2>1, <2>2, ResetGood
  <2>4. kv' \in KVState BY Zenon, <2>3 DEF Good, Sound
  <2>5. TypeOK' BY Zenon, <2>1, <2>4 DEF IInv, TypeOK
  <2>6. \A r \in Req : ReqOK(kv', num_tokens', num_computed', status', r)
    BY Zenon, <2>1, <2>3 DEF IInv, ReqOK
  <2>7. \A q \in Req : Advances(q) BY Zenon, <2>1, <2>3, AdvancesAlone
  <2>8. IInv' BY Zenon, <2>3, <2>5, <2>6 DEF IInv
  <2> QED BY Zenon, <2>7, <2>8
<1>3. ASSUME NEW r \in Req,
             \/ Admit(r) \/ StartLoad(r) \/ FinishLoad(r) \/ FailLoad(r) \/ Extend(r)
             \/ Sample(r) \/ Preempt(r) \/ Finish(r) \/ FailRunning(r)
      PROVE  IInv' /\ \A q \in Req : Advances(q)
  BY Zenon, <1>3, AdmitInv, StartLoadInv, FinishLoadInv, FailLoadInv, ExtendInv, SampleInv,
     ReleaseInv
<1> QED BY Zenon, <1>1, <1>2, <1>3 DEF Next

-----------------------------------------------------------------------------
(* Block tables: the window, and the prefix that all requests share *)

\* Null blocks of r lie before the window of the first token of r that is not
\* both computed and known.
NullsOutside(r) ==
    \A i \in DOMAIN kv.req_to_blocks[r] :
        kv.req_to_blocks[r][i] = NullBlock =>
        i * BlockSize <= NumSkippedTokens(Lesser(num_computed[r], num_tokens[r]))

WInv ==
    /\ IInv
    /\ \A r \in Req : NullsOutside(r) /\ (status[r] = "loading" => UseConnector)

\* Without a window or without a connector, which may take computed tokens
\* back, every step preserves this.
LEMMA NextWindow ==
  ASSUME Facts, SlidingWindow = 0 \/ ~ UseConnector, WInv, [Next]_vars
  PROVE  WInv'
<1>1. IInv' /\ \A q \in Req : Advances(q) BY Zenon, NextInv DEF WInv
<1>2. ASSUME NEW r \in Req PROVE NullsOutside(r)'
  <2> DEFINE l == Lesser(num_computed[r], num_tokens[r])
             l2 == Lesser(num_computed'[r], num_tokens'[r])
             x == NumSkippedTokens(l)
             y == NumSkippedTokens(l2)
  <2>1. l \in Nat /\ l2 \in Nat
    <3>1. num_tokens[r] \in Nat /\ num_computed[r] \in Nat BY Zenon, DriverTypes DEF WInv
    <3>2. num_tokens' \in [Req -> Nat] /\ num_computed' \in [Req -> Nat]
      BY ONLY <1>1 DEF IInv, TypeOK
    <3> QED BY Zenon, <3>1, <3>2 DEF Lesser
  <2>2. DOMAIN kv'.req_to_blocks[r] \subseteq Nat
    BY <1>1, TableEntry DEF IInv, Good, Sound
  <2>3. CASE kv'.req_to_blocks[r] = << >> BY ONLY <2>3 DEF NullsOutside
  <2>4. CASE Evolves(kv, kv', r, y) /\ (status[r] = "loading" \/ l <= l2)
    <3>1. x \in Nat /\ y \in Nat /\ x <= y
      <4>1. CASE SlidingWindow = 0 BY ONLY <4>1 DEF NumSkippedTokens
      <4>2. CASE SlidingWindow # 0
        <5>1. l <= l2 BY Zenon, <2>4, <4>2 DEF WInv
        <5> HIDE DEF l, l2
        <5> QED BY Zenon, <2>1, <5>1, SkippedMore
      <4> QED BY Zenon, <4>1, <4>2
    <3> HIDE DEF x, y
    <3>2. ASSUME NEW i \in DOMAIN kv'.req_to_blocks[r],
                 kv'.req_to_blocks[r][i] = NullBlock
          PROVE  i * BlockSize <= y
      <4> DEFINE z == i * BlockSize
      <4>1. z <= y \/ z <= x
        <5>1. \/ i \in DOMAIN kv.req_to_blocks[r] /\ kv.req_to_blocks[r][i] = NullBlock
              \/ z <= y
          BY Zenon, <2>4, <3>2 DEF Evolves
        <5> QED BY Zenon, <5>1 DEF WInv, NullsOutside, x
      <4>2. z \in Nat BY ONLY <2>2, <3>2, ManagerAssumption
      <4> HIDE DEF z
      <4>3. z <= y BY ONLY <3>1, <4>1, <4>2
      <4> QED BY Zenon, <4>3 DEF z
    <3> QED BY Zenon, <3>2 DEF NullsOutside, y
  <2> QED BY Zenon, <1>1, <2>3, <2>4 DEF Advances
<1>3. ASSUME NEW r \in Req PROVE status'[r] = "loading" => UseConnector
  BY Zenon, <1>1 DEF WInv, Advances
<1> QED BY Zenon, <1>1, <1>2, <1>3 DEF WInv

\* Initially there are no tables.
LEMMA InitWindow ==
  ASSUME Facts, Init
  PROVE  WInv
<1>1. IInv BY Zenon, InitInv
<1>2. PICK queue \in InitialQueues : kv = InitKV(queue) BY Zenon DEF Init
<1>3. \A r \in Req : kv.req_to_blocks[r] = << >> /\ status[r] # "loading"
  BY Zenon, <1>2 DEF InitKV, Init
<1> QED BY ONLY <1>1, <1>3 DEF WInv, NullsOutside

\* A place i holds the tokens above (i - 1) * BlockSize up to i * BlockSize.
LEMMA PlaceOfToken ==
  ASSUME NEW p \in Nat, p >= 1, NEW l \in Nat, p <= l * BlockSize
  PROVE  /\ CDiv(p, BlockSize) \in 1..l
         /\ p <= CDiv(p, BlockSize) * BlockSize
<1>0. BlockSize \in Nat \ {0} BY Zenon, ManagerAssumption
<1> DEFINE i == CDiv(p, BlockSize)
           d == p + BlockSize - 1
<1>1. i \in Nat /\ p <= i * BlockSize BY ONLY CDivType, CDivFacts
<1>2. i * BlockSize <= d
  <2>1. d \in Nat BY ONLY <1>0
  <2> HIDE DEF d
  <2>2. (d \div BlockSize) * BlockSize <= d BY Zenon, <1>0, <2>1, DivBounds
  <2> QED BY Zenon, <2>2 DEF d, CDiv
<1> HIDE DEF i
<1>3. i >= 1
  <2>1. CASE i = 0
    <3>1. i * BlockSize = 0 BY ONLY <1>0, <2>1
    <3> QED BY <1>1, <3>1
  <2>2. CASE i # 0 BY ONLY <1>1, <2>2
  <2> QED BY Zenon, <2>1, <2>2
<1>4. ASSUME i > l PROVE FALSE
  <2>1. i >= l + 1 BY ONLY <1>1, <1>4
  <2>2. (l + 1) * BlockSize <= i * BlockSize BY ONLY <1>0, <1>1, <2>1
  <2>3. (l + 1) * BlockSize = l * BlockSize + BlockSize BY ONLY <1>0
  <2> DEFINE x == l * BlockSize
             y == i * BlockSize
  <2>4. x \in Nat /\ y \in Nat /\ x + BlockSize <= y /\ y <= d /\ p <= x
    BY <1>0, <1>1, <1>2, <2>2, <2>3
  <2> HIDE DEF x, y
  <2> QED BY ONLY <1>0, <2>4 DEF d
<1> QED BY ONLY <1>1, <1>3, <1>4 DEF i

\* Every token that the next one attends to is in a real block.
LEMMA CoveredByInv ==
  ASSUME Facts, WInv
  PROVE  WindowCovered
<1> SUFFICES ASSUME NEW r \in Req,
                    status[r] = "running" \/ (status[r] = "waiting" /\ num_computed[r] > 0),
                    NEW p \in 1..num_computed[r],
                    SlidingWindow = 0 \/ p > num_computed[r] - (SlidingWindow - 1)
             PROVE  /\ CDiv(p, BlockSize) \in DOMAIN kv.req_to_blocks[r]
                    /\ kv.req_to_blocks[r][CDiv(p, BlockSize)] # NullBlock
  BY Zenon DEF WindowCovered
<1> DEFINE T == kv.req_to_blocks[r]
           i == CDiv(p, BlockSize)
           c == num_computed[r]
           n == NumSkippedTokens(Lesser(c, num_tokens[r]))
<1>1. IInv BY Zenon DEF WInv
<1>2. c \in Nat /\ num_tokens[r] \in Nat /\ Len(T) \in Nat /\ Len(T) * BlockSize \in Nat
  BY Zenon, <1>1, DriverTypes
<1>3. c <= Len(T) * BlockSize BY Zenon, <1>1 DEF IInv, ReqOK
<1>4. p \in Nat /\ p >= 1 /\ p <= c /\ p <= Len(T) * BlockSize
  <2> HIDE DEF c
  <2>1. p \in 1..c BY Zenon DEF c
  <2> QED BY ONLY <1>2, <1>3, <2>1
<1>5. i \in 1..Len(T) /\ p <= i * BlockSize BY Zenon, <1>2, <1>4, PlaceOfToken
<1>6. DOMAIN T = 1..Len(T) BY Zenon, <1>1, TableEntry DEF IInv, Good, Sound
<1>7. n \in Nat /\ n < p
  <2>1. SlidingWindow = 0 \/ p > c - (SlidingWindow - 1) BY Zenon
  <2> HIDE DEF c
  <2> QED BY <1>2, <1>4, <2>1, ManagerAssumption DEF NumSkippedTokens, Greater, Lesser
<1>8. ASSUME T[i] = NullBlock PROVE FALSE
  <2>1. i * BlockSize <= n BY Zenon, <1>5, <1>6, <1>8 DEF WInv, NullsOutside
  <2> DEFINE z == i * BlockSize
  <2>2. i \in Nat BY ONLY <1>5
  <2> HIDE DEF i, n
  <2>3. z \in Nat /\ z <= n /\ p <= z BY ONLY <1>5, <2>1, <2>2, ManagerAssumption
  <2> HIDE DEF z
  <2> QED BY ONLY <1>4, <1>7, <2>3
<1> QED BY Zenon, <1>5, <1>6, <1>8


\* With a sliding window the managers report no common prefix.
LEMMA NoPrefix ==
  ASSUME SlidingWindow # 0
  PROVE  CommonPrefixShared
BY DEF CommonPrefixShared, NumCommonPrefixBlocks

\* A leading block of r that counts as many references as there are tables is
\* in all of them, and since requests share a block only at one place, at the
\* same place.
LEMMA PrefixByInv ==
  ASSUME Facts, SlidingWindow = 0, WInv
  PROVE  CommonPrefixShared
<1> SUFFICES ASSUME NEW r \in Holders(kv), NEW q \in Holders(kv),
                    NEW i \in 1..NumCommonPrefixBlocks(kv, r)
             PROVE  /\ i <= Len(kv.req_to_blocks[q])
                    /\ kv.req_to_blocks[q][i] = kv.req_to_blocks[r][i]
  BY Zenon DEF CommonPrefixShared
<1> DEFINE T == kv.req_to_blocks[r]
           H == Cardinality(Holders(kv))
           S == {k \in 0..Len(T) : \A j \in 1..k : kv.ref_cnt[T[j]] = H}
<1>0. r \in Req /\ q \in Req BY Zenon DEF Holders
<1>1. IInv /\ kv \in KVState /\ Sound(kv) BY Zenon DEF WInv, IInv, Good, Sound
<1>2. /\ Len(T) \in Nat /\ DOMAIN T = 1..Len(T) /\ \A j \in DOMAIN T : T[j] \in Block
      /\ \A j \in DOMAIN T : T[j] \in Range(T)
  BY Zenon, <1>0, <1>1, TableEntry
<1>3. i \in 1..Len(T) /\ i <= Len(T) /\ kv.ref_cnt[T[i]] = H
  <2>1. S \in SUBSET (0..Len(T)) /\ 0 \in S BY ONLY <1>2
  <2>2. NumCommonPrefixBlocks(kv, r) = Max(S) BY Zenon DEF NumCommonPrefixBlocks
  <2> HIDE DEF S
  <2>3. Max(S) \in S BY <1>2, <2>1, MaxProperties, Zenon
  <2>4. i \in 1..Max(S) BY Zenon, <2>2
  <2>5. Max(S) \in 0..Len(T) /\ \A j \in 1..Max(S) : kv.ref_cnt[T[j]] = H
    BY Zenon, <2>3 DEF S
  <2> QED BY ONLY <1>2, <2>4, <2>5
<1> DEFINE b == T[i]
<1>4. b \in Block \ {NullBlock}
  <2>1. ASSUME b = NullBlock PROVE FALSE
    <3>1. i * BlockSize <= 0
      BY Zenon, <1>0, <1>2, <1>3, <2>1 DEF WInv, NullsOutside, NumSkippedTokens
    <3>2. i \in Nat \ {0} /\ BlockSize \in Nat \ {0} BY ONLY <1>3, ManagerAssumption
    <3>3. i * BlockSize \in Nat \ {0} BY ONLY <3>2
    <3> QED BY ONLY <3>1, <3>3
  <2> QED BY Zenon, <1>2, <1>3, <2>1
<1>5. Users(kv, b) = Holders(kv)
  <2>1. Cardinality(Users(kv, b)) = H BY Zenon, <1>1, <1>3, <1>4 DEF Sound, RefCountsExact
  <2>2. Users(kv, b) \subseteq Holders(kv) BY DEF Users, Holders, Range
  <2>3. IsFiniteSet(Holders(kv))
    <3>1. Holders(kv) \subseteq Req BY Zenon DEF Holders
    <3> QED BY Zenon, <3>1, ManagerAssumption DEF Facts, FiniteSubset
  <2>4. FiniteWhole BY Zenon DEF Facts
  <2>5. Cardinality(Users(kv, b)) = Cardinality(Holders(kv)) BY Zenon, <2>1
  <2>6. \A T2 \in SUBSET Holders(kv) :
          Cardinality(T2) = Cardinality(Holders(kv)) => T2 = Holders(kv)
    BY ONLY Zenon, <2>3, <2>4 DEF FiniteWhole
  <2> QED BY ONLY SMT, <2>2, <2>5, <2>6
<1> HIDE DEF S, H
<1>6. PICK j \in DOMAIN kv.req_to_blocks[q] : kv.req_to_blocks[q][j] = b
  BY Zenon, <1>5 DEF Users, Range
<1>7. DOMAIN kv.req_to_blocks[q] = 1..Len(kv.req_to_blocks[q])
  BY Zenon, <1>0, <1>1, TableEntry
<1>8. CASE q = r BY <1>3, <1>8, Zenon
<1>9. CASE q # r
  <2>1. SharedBlocksAgree(kv) BY Zenon, <1>1 DEF Sound
  <2>2. /\ i \in DOMAIN kv.req_to_blocks[r]
        /\ j \in DOMAIN kv.req_to_blocks[q]
        /\ kv.req_to_blocks[r][i] = kv.req_to_blocks[q][j]
        /\ kv.req_to_blocks[r][i] # NullBlock
    BY Zenon, <1>2, <1>3, <1>4, <1>6
  <2>3. \A x \in DOMAIN kv.req_to_blocks[r], y \in DOMAIN kv.req_to_blocks[q] :
          /\ r # q
          /\ kv.req_to_blocks[r][x] = kv.req_to_blocks[q][y]
          /\ kv.req_to_blocks[r][x] # NullBlock
          => x = y
    BY ONLY <1>0, <2>1 DEF SharedBlocksAgree
  <2>4. i = j BY ONLY Zenon, <1>9, <2>2, <2>3
  <2> QED BY ONLY <1>6, <1>7, <2>4
<1> QED BY Zenon, <1>8, <1>9

-----------------------------------------------------------------------------

\* The facts that the lemmas assume, proved from the libraries.
INSTANCE SeqFilterProofs

\* The invariant holds in every reachable state.
THEOREM InvariantHolds == Spec => []IInv
<1> USE FactsHold
<1>1. Init => IInv BY Zenon, InitInv
<1>2. IInv /\ [Next]_vars => IInv' BY Zenon, NextInv
<1> QED BY <1>1, <1>2, PTL DEF Spec

\* Every field keeps its type; num_computed_tokens stays within max_model_len.
THEOREM TypeCorrect == Spec => []TypeOK
<1>1. IInv => TypeOK BY Zenon DEF IInv
<1> QED BY <1>1, InvariantHolds, PTL

\* However requests are admitted, loaded, extended, preempted, failed and
\* finished, no assert of the block pool or the managers fires and
\* get_new_blocks never runs short.
THEOREM NeverFails == Spec => []NoFailure
<1>1. IInv => NoFailure BY Zenon DEF IInv, Good, NoFailure
<1> QED BY <1>1, InvariantHolds, PTL

\* ref_cnt is the number of tables that hold a block, and the free queue lists
\* the unused blocks once each: no block leaks or is freed twice.
THEOREM NothingLeaks == Spec => []BlocksAccountedFor
<1>1. IInv => BlocksAccountedFor BY Zenon DEF IInv, Good, Sound, BlocksAccountedFor
<1> QED BY <1>1, InvariantHolds, PTL

\* The prefix-cache map lists exactly the blocks that carry a hash.
THEOREM CacheConsistent == Spec => []HashMapConsistent
<1>1. IInv => HashMapConsistent BY Zenon DEF IInv, Good, Sound, HashMapConsistent
<1> QED BY <1>1, InvariantHolds, PTL

\* Requests share a block only at the same place and with equal tokens up to
\* its end.
THEOREM SharingIsSound == Spec => []SharingSound
<1>1. IInv => SharingSound BY Zenon DEF IInv, Good, Sound, SharingSound
<1> QED BY <1>1, InvariantHolds, PTL

\* "block tables are append-only": a table only grows, or loses blocks that
\* left the window to the null block, until all of it is released.
THEOREM TablesAppendOnly == Spec => AppendOnlyTables
<1> USE FactsHold
<1>1. ASSUME IInv, [Next]_vars
      PROVE  [\A r \in Req :
                \/ kv'.req_to_blocks[r] = << >>
                \/ \A i \in DOMAIN kv.req_to_blocks[r] :
                     /\ i \in DOMAIN kv'.req_to_blocks[r]
                     /\ kv'.req_to_blocks[r][i] \in {kv.req_to_blocks[r][i], NullBlock}]_vars
  <2>1. \A q \in Req : Advances(q) BY Zenon, <1>1, NextInv
  <2> QED BY Zenon, <2>1 DEF Advances, Evolves
<1> QED BY <1>1, InvariantHolds, PTL DEF AppendOnlyTables, Spec

\* With full attention, or with a sliding window and no connector, every token
\* that the next one attends to is in a real block: no block is released
\* before it left the window.
THEOREM WindowIsCovered ==
  ASSUME SlidingWindow = 0 \/ ~ UseConnector
  PROVE  Spec => []WindowCovered
<1> USE FactsHold
<1>1. Init => WInv BY Zenon, InitWindow
<1>2. WInv /\ [Next]_vars => WInv' BY Zenon, NextWindow
<1>3. WInv => WindowCovered BY Zenon, CoveredByInv
<1> QED BY <1>1, <1>2, <1>3, PTL DEF Spec

\* The common prefix that cascade attention reads once for the whole batch is
\* at the head of every table.
THEOREM CommonPrefixIsShared == Spec => []CommonPrefixShared
<1> USE FactsHold
<1>1. CASE SlidingWindow = 0
  <2>1. Init => WInv BY Zenon, InitWindow
  <2>2. WInv /\ [Next]_vars => WInv' BY Zenon, <1>1, NextWindow
  <2>3. WInv => CommonPrefixShared BY Zenon, <1>1, PrefixByInv
  <2> QED BY <2>1, <2>2, <2>3, PTL DEF Spec
<1>2. CASE SlidingWindow # 0
  <2>1. CommonPrefixShared BY Zenon, <1>2, NoPrefix
  <2> QED BY <2>1, PTL
<1> QED BY Zenon, <1>1, <1>2

=============================================================================
