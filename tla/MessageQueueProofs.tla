------------------------- MODULE MessageQueueProofs -------------------------
(***************************************************************************)
(* Proofs about MessageQueue, for any readers, any number of chunks and    *)
(* any messages: the variables have their types, the writer and a reader   *)
(* are never in the same chunk, all readers get the messages as they were  *)
(* sent, and the queue implements BroadcastQueue.                          *)
(*                                                                         *)
(* Message k + 1 goes to chunk k % MaxChunks.  The invariant of the ring   *)
(* says what the flags mean: to a reader, a chunk that is written and not  *)
(* read holds one of the messages taken + 1 to sent, and no other chunk    *)
(* does.  On top of it, the invariant of the messages says what is in the  *)
(* chunks and on the sockets: a chunk that a reader has yet to take holds  *)
(* its message, the local socket lists the large messages that the reader  *)
(* has yet to get, and what a remote reader got and what is on its socket  *)
(* are together the messages sent so far.                                  *)
(***************************************************************************)
EXTENDS MessageQueue, TLAPS

\* The chunk of message k + 1.
Slot(k) == k % MaxChunks

\* The messages that reader r has not taken, each by the number before it.
Pending(r) == {k \in 0..MaxMsgs : taken[r] <= k /\ k < sent}

\* The writer is at the ring only if there are local readers, and has a message.
WriterOK ==
    /\ ~ WriterAt("idle") /\ ~ WriterAt("remote") => Local # {}
    /\ WriterAt("acquire") \/ WriterAt("write") \/ WriterAt("reset") => sent < MaxMsgs
    /\ WriterAt("remote") /\ Local = {} => sent < MaxMsgs
    /\ WriterAt("payload") => sent \in Large
    /\ Local # {} => writer.idx = Slot(sent)
    /\ (WriterAt("notify") \/ WriterAt("remote")) /\ Local # {} => sent > 0

\* The flags of the chunk that the writer is at.
ChunkOK ==
    /\ WriterAt("write") \/ WriterAt("reset") => ~ written[Slot(sent)]
    /\ WriterAt("reset") => \A r \in Local \ writer.reset : ~ read[Slot(sent)][r]

\* What the flags mean to reader r.
FlagsOK(r) ==
    /\ \A k \in Pending(r) : written[Slot(k)] /\ ~ read[Slot(k)][r]
    /\ \A i \in Chunk : written[i] /\ ~ read[i][r] => \E k \in Pending(r) : i = Slot(k)

\* Where reader r is.
PlaceOK(r) ==
    /\ reader[r].idx = Slot(taken[r])
    /\ taken[r] <= sent /\ sent <= taken[r] + MaxChunks
    /\ At(r, "written flag") /\ taken[r] = sent => ~ written[Slot(sent)]
    /\ At(r, "copy") \/ At(r, "mark") => taken[r] < sent

RingInv == WriterOK /\ ChunkOK /\ \A r \in Local : FlagsOK(r) /\ PlaceOK(r)

-----------------------------------------------------------------------------
(* Arithmetic *)

\* Quotient and remainder.
LEMMA Quotient ==
  ASSUME NEW M \in Nat \ {0}, NEW a \in Nat
  PROVE  /\ a \div M \in Nat /\ a % M \in 0..(M - 1)
         /\ a = M * (a \div M) + (a % M)
BY SMTT(30)

\* The remainder of a number of turns and a rest.
LEMMA Remainder ==
  ASSUME NEW M \in Nat \ {0}, NEW q \in Nat, NEW r \in 0..(M - 1)
  PROVE  (M * q + r) % M = r
BY SMTT(30)

\* A whole turn changes no remainder.
LEMMA Turn ==
  ASSUME NEW M \in Nat \ {0}, NEW a \in Nat
  PROVE  (a + M) % M = a % M
<1> DEFINE q == a \div M
           r == a % M
<1>1. q \in Nat /\ r \in 0..(M - 1) /\ a = M * q + r BY Zenon, Quotient
<1> HIDE DEF q, r
<1>2. a + M = M * (q + 1) + r BY ONLY <1>1
<1>3. q + 1 \in Nat BY ONLY <1>1
<1>4. (M * (q + 1) + r) % M = r BY Zenon, <1>1, <1>3, Remainder
<1> QED BY Zenon, <1>2, <1>4 DEF r

\* The remainder of the next number.
LEMMA Successor ==
  ASSUME NEW M \in Nat \ {0}, NEW a \in Nat
  PROVE  (a + 1) % M = ((a % M) + 1) % M
<1> DEFINE q == a \div M
           r == a % M
<1>1. q \in Nat /\ r \in 0..(M - 1) /\ a = M * q + r BY Zenon, Quotient
<1> HIDE DEF q, r
<1>2. CASE r + 1 < M
  <2>1. r + 1 \in 0..(M - 1) BY ONLY <1>1, <1>2
  <2>2. (M * q + (r + 1)) % M = r + 1 BY Zenon, <1>1, <2>1, Remainder
  <2>3. a + 1 = M * q + (r + 1) BY ONLY <1>1
  <2>4. (M * 0 + (r + 1)) % M = r + 1 BY Zenon, <1>1, <2>1, Remainder
  <2>5. M * 0 + (r + 1) = r + 1 BY ONLY <1>1
  <2> QED BY Zenon, <2>2, <2>3, <2>4, <2>5 DEF r
<1>3. CASE r + 1 = M
  <2>1. 0 \in 0..(M - 1) /\ q + 1 \in Nat BY ONLY <1>1
  <2>2. (M * (q + 1) + 0) % M = 0 BY Zenon, <2>1, Remainder
  <2>3. a + 1 = M * (q + 1) + 0 BY ONLY <1>1, <1>3
  <2>4. (M * 1 + 0) % M = 0 BY Zenon, <2>1, Remainder
  <2>5. r + 1 = M * 1 + 0 BY ONLY <1>1, <1>3
  <2>6. (a + 1) % M = 0 BY Zenon, <2>2, <2>3
  <2>7. (r + 1) % M = 0 BY Zenon, <2>4, <2>5
  <2> QED BY Zenon, <2>6, <2>7 DEF r
<1> QED BY ONLY <1>1, <1>2, <1>3

\* Numbers less than a turn apart have different remainders.
LEMMA Distinct ==
  ASSUME NEW M \in Nat \ {0}, NEW a \in Nat, NEW b \in Nat, a < b, b - a < M
  PROVE  a % M # b % M
<1> DEFINE p == a \div M
           q == b \div M
           r == a % M
           s == b % M
<1>1. p \in Nat /\ r \in 0..(M - 1) /\ a = M * p + r BY Zenon, Quotient
<1>2. q \in Nat /\ s \in 0..(M - 1) /\ b = M * q + s BY Zenon, Quotient
<1> HIDE DEF p, q, r, s
<1>3. ASSUME r = s PROVE FALSE
  <2>1. b - a = M * (q - p) BY ONLY <1>1, <1>2, <1>3
  <2>2. CASE q <= p
    <3>1. M * q <= M * p BY ONLY <1>1, <1>2, <2>2
    <3> QED BY <1>1, <1>2, <1>3, <3>1
  <2>3. CASE q >= p + 1
    <3>1. M * q >= M * (p + 1) BY ONLY <1>1, <1>2, <2>3
    <3>2. M * (p + 1) = M * p + M BY ONLY <1>1
    <3>3. M * p \in Nat /\ M * q \in Nat BY ONLY <1>1, <1>2
    <3> HIDE DEF p
    <3> QED BY <1>1, <1>2, <1>3, <3>1, <3>2, <3>3
  <2> QED BY ONLY <1>1, <1>2, <2>2, <2>3
<1> QED BY Zenon, <1>3 DEF r, s

\* The constants are what they should be.
LEMMA ChunkNumber == MaxChunks \in Nat \ {0} /\ MaxMsgs \in Nat
BY Zenon, QueueAssumption

\* Chunks follow one another around the ring.
LEMMA SlotFacts ==
    ASSUME NEW k \in Nat
    PROVE  /\ Slot(k) \in Chunk
           /\ Advance(Slot(k)) = Slot(k + 1)
           /\ Slot(k + MaxChunks) = Slot(k)
<1>1. k % MaxChunks \in 0..(MaxChunks - 1) BY Zenon, ChunkNumber, Quotient
<1>2. ((k % MaxChunks) + 1) % MaxChunks = (k + 1) % MaxChunks BY Zenon, ChunkNumber, Successor
<1>3. (k + MaxChunks) % MaxChunks = k % MaxChunks BY Zenon, ChunkNumber, Turn
<1>. QED BY Zenon, <1>1, <1>2, <1>3 DEF Slot, Chunk, Advance

\* Fewer messages than chunks are in different chunks.
LEMMA SlotsDiffer ==
    ASSUME NEW j \in Nat, NEW k \in Nat, j < k, k < j + MaxChunks
    PROVE  Slot(j) # Slot(k)
<1>1. k - j < MaxChunks BY ChunkNumber
<1>. QED BY Zenon, <1>1, ChunkNumber, Distinct DEF Slot

-----------------------------------------------------------------------------
(* The ring *)

\* The types of the counters
LEMMA CountTypes ==
    ASSUME TypeOK
    PROVE  /\ sent \in Nat /\ sent <= MaxMsgs
           /\ \A r \in Local : taken[r] \in Nat /\ taken[r] <= MaxMsgs
<1>1. sent \in 0..MaxMsgs /\ \A r \in Local : taken[r] \in 0..MaxMsgs BY Zenon DEF TypeOK
<1>. QED BY ONLY <1>1, ChunkNumber

\* Nothing changes that matters to a reader.
LEMMA ReaderFrame ==
    ASSUME NEW r, FlagsOK(r), PlaceOK(r), UNCHANGED <<written, read, reader[r], sent, taken>>
    PROVE  FlagsOK(r)' /\ PlaceOK(r)'
<1>1. Pending(r)' = Pending(r) BY DEF Pending
<1>. QED BY Zenon, <1>1 DEF FlagsOK, PlaceOK, At, Slot

\* The writer's chunk holds no message that a reader has yet to take.
LEMMA WriterChunk ==
    ASSUME TypeOK, RingInv, WriterAt("write") \/ WriterAt("reset"), NEW r \in Local
    PROVE  /\ \A k \in Pending(r) : Slot(k) # Slot(sent)
           /\ sent < taken[r] + MaxChunks
<1>1. ~ written[Slot(sent)] BY Zenon DEF RingInv, ChunkOK
<1>2. \A k \in Pending(r) : written[Slot(k)] BY Zenon DEF RingInv, FlagsOK
<1>3. \A k \in Pending(r) : Slot(k) # Slot(sent) BY Zenon, <1>1, <1>2
<1>4. /\ taken[r] \in Nat /\ taken[r] <= MaxMsgs /\ sent \in Nat
      /\ MaxChunks \in Nat \ {0} /\ MaxMsgs \in Nat
  BY Zenon, ChunkNumber, CountTypes
<1>5. taken[r] <= sent /\ sent <= taken[r] + MaxChunks BY Zenon DEF RingInv, PlaceOK
<1>6. ASSUME sent = taken[r] + MaxChunks PROVE FALSE
  <2>1. taken[r] \in Pending(r) BY ONLY <1>4, <1>6 DEF Pending
  <2>2. Slot(sent) = Slot(taken[r]) BY Zenon, <1>4, <1>6, SlotFacts
  <2>. QED BY Zenon, <1>3, <2>1, <2>2
<1>. QED BY ONLY <1>3, <1>4, <1>5, <1>6

\* A chunk is acquired that no reader has yet to read.
LEMMA AcquireWriteRing ==
    ASSUME TypeOK, RingInv, AcquireWrite
    PROVE  RingInv'
<1>1. /\ writer.pc = "acquire" /\ writer' = [writer EXCEPT !.pc = "write"]
      /\ written' = [written EXCEPT ![writer.idx] = FALSE]
      /\ UNCHANGED <<read, data, reader, sockets, wakeups, ghosts>>
  BY Zenon DEF AcquireWrite, WriterAt, WriterTo
<1>2. Local # {} /\ sent < MaxMsgs /\ writer.idx = Slot(sent)
  BY Zenon, <1>1 DEF RingInv, WriterOK, WriterAt
<1>3. writer'.pc = "write" /\ writer'.idx = writer.idx /\ writer'.reset = writer.reset
  BY Zenon, <1>1 DEF TypeOK
<1>4. sent \in Nat /\ Slot(sent) \in Chunk BY Zenon, CountTypes, SlotFacts
<1>5. ~ written'[Slot(sent)] /\ \A i \in Chunk : i # Slot(sent) => written'[i] = written[i]
  BY Zenon, <1>1, <1>2, <1>4 DEF TypeOK
<1>6. UNCHANGED <<read, reader, sent, taken>> BY Zenon, <1>1 DEF ghosts
<1>7. WriterOK' BY Zenon, <1>2, <1>3, <1>6 DEF WriterOK, WriterAt, Slot
<1>8. ChunkOK' BY Zenon, <1>3, <1>5, <1>6 DEF ChunkOK, WriterAt, Slot
<1>9. ASSUME NEW r \in Local PROVE FlagsOK(r)' /\ PlaceOK(r)'
  <2>1. FlagsOK(r) /\ PlaceOK(r) BY Zenon DEF RingInv
  <2>2. Pending(r)' = Pending(r) BY Zenon, <1>6 DEF Pending
  <2>3. ASSUME NEW k \in Pending(r) PROVE Slot(k) \in Chunk /\ Slot(k) # Slot(sent)
    <3>1. written[Slot(k)] /\ ~ read[Slot(k)][r] BY Zenon, <2>1 DEF FlagsOK
    <3>2. k \in Nat BY ONLY ChunkNumber DEF Pending
    <3>. QED BY Zenon, <1>2, <3>1, <3>2, SlotFacts DEF AcquireWrite, CanWrite
  <2>4. FlagsOK(r)'
    <3>1. \A k \in Pending(r) : written'[Slot(k)] /\ ~ read'[Slot(k)][r]
      BY Zenon, <1>5, <1>6, <2>1, <2>3 DEF FlagsOK
    <3>2. \A i \in Chunk : written'[i] /\ ~ read'[i][r] => \E k \in Pending(r) : i = Slot(k)
      BY Zenon, <1>5, <1>6, <2>1 DEF FlagsOK
    <3>. QED BY Zenon, <2>2, <3>1, <3>2 DEF FlagsOK, Slot
  <2>5. PlaceOK(r)' BY Zenon, <1>4, <1>5, <1>6, <2>1 DEF PlaceOK, At, Slot
  <2>. QED BY Zenon, <2>4, <2>5
<1>. QED BY Zenon, <1>7, <1>8, <1>9 DEF RingInv

\* The writer fills the chunk.
LEMMA WriteRing ==
    ASSUME TypeOK, RingInv, BeginWrite \/ FinishWrite
    PROVE  RingInv'
<1>1. UNCHANGED <<written, read, reader, sent, taken>> BY Zenon DEF BeginWrite, FinishWrite, ghosts
<1>2. /\ writer.pc = "write" /\ writer'.idx = writer.idx
      /\ \/ writer'.pc = "write" /\ writer'.reset = writer.reset
         \/ writer'.pc = "reset" /\ writer'.reset = Local
  BY Zenon DEF BeginWrite, FinishWrite, WriterAt, TypeOK
<1>3. WriterOK' BY Zenon, <1>1, <1>2 DEF RingInv, WriterOK, WriterAt, Slot
<1>4. ChunkOK' BY Zenon, <1>1, <1>2 DEF RingInv, ChunkOK, WriterAt, Slot
<1>5. \A r \in Local : FlagsOK(r)' /\ PlaceOK(r)' BY Zenon, <1>1, ReaderFrame DEF RingInv
<1>. QED BY Zenon, <1>3, <1>4, <1>5 DEF RingInv

\* A read flag of the writer's chunk is reset.
LEMMA ResetFlagRing ==
    ASSUME TypeOK, RingInv, ResetFlag
    PROVE  RingInv'
<1>1. PICK x \in writer.reset :
        /\ read' = [read EXCEPT ![writer.idx][x] = FALSE]
        /\ writer' = [writer EXCEPT !.reset = @ \ {x}]
  BY Zenon DEF ResetFlag
<1>2. writer.pc = "reset" /\ UNCHANGED <<written, reader, sent, taken>>
  BY Zenon DEF ResetFlag, WriterAt, ghosts
<1>3. writer.reset \subseteq Local /\ x \in Local BY Zenon, <1>1 DEF TypeOK
<1>4. /\ writer'.pc = "reset" /\ writer'.idx = writer.idx
      /\ writer'.reset = writer.reset \ {x}
  BY Zenon, <1>1, <1>2 DEF TypeOK
<1>5. sent \in Nat /\ Slot(sent) \in Chunk BY Zenon, CountTypes, SlotFacts
<1>6. writer.idx = Slot(sent) BY Zenon, <1>2, <1>3 DEF RingInv, WriterOK, WriterAt
<1>7. \A i \in Chunk, r \in Local : i # Slot(sent) \/ r # x => read'[i][r] = read[i][r]
  BY Zenon, <1>1, <1>3, <1>5, <1>6 DEF TypeOK
<1>8. ~ read'[Slot(sent)][x] BY Zenon, <1>1, <1>3, <1>5, <1>6 DEF TypeOK
<1>9. ~ written[Slot(sent)] BY Zenon, <1>2 DEF RingInv, ChunkOK, WriterAt
<1>10. WriterOK' BY Zenon, <1>2, <1>4 DEF RingInv, WriterOK, WriterAt, Slot
<1>11. ChunkOK'
  <2>1. \A r \in Local \ writer.reset : ~ read[Slot(sent)][r]
    BY Zenon, <1>2 DEF RingInv, ChunkOK, WriterAt
  <2>2. \A r \in Local \ writer'.reset : ~ read'[Slot(sent)][r]
    BY Zenon, <1>4, <1>5, <1>7, <1>8, <2>1
  <2>. QED BY Zenon, <1>2, <1>9, <2>2 DEF ChunkOK, Slot
<1>12. ASSUME NEW r \in Local PROVE FlagsOK(r)' /\ PlaceOK(r)'
  <2>1. FlagsOK(r) /\ PlaceOK(r) BY Zenon DEF RingInv
  <2>2. Pending(r)' = Pending(r) BY Zenon, <1>2 DEF Pending
  <2>3. \A k \in Pending(r) : Slot(k) \in Chunk /\ Slot(k) # Slot(sent)
    <3>1. \A k \in Pending(r) : k \in Nat BY ONLY ChunkNumber DEF Pending
    <3>2. WriterAt("reset") BY Zenon, <1>2 DEF WriterAt
    <3>. QED BY Zenon, <3>1, <3>2, SlotFacts, WriterChunk
  <2>4. \A k \in Pending(r) : written'[Slot(k)] /\ ~ read'[Slot(k)][r]
    BY Zenon, <1>2, <1>7, <2>1, <2>3 DEF FlagsOK
  <2>5. \A i \in Chunk : written'[i] /\ ~ read'[i][r] => \E k \in Pending(r) : i = Slot(k)
    BY Zenon, <1>2, <1>7, <1>9, <2>1 DEF FlagsOK
  <2>6. FlagsOK(r)' BY Zenon, <2>2, <2>4, <2>5 DEF FlagsOK, Slot
  <2>7. PlaceOK(r)' BY Zenon, <1>2, <2>1 DEF PlaceOK, At, Slot
  <2>. QED BY Zenon, <2>6, <2>7
<1>. QED BY Zenon, <1>10, <1>11, <1>12 DEF RingInv

\* The chunk is handed to the readers.
LEMMA PublishRing ==
    ASSUME TypeOK, RingInv, PublishChunk
    PROVE  RingInv'
<1>1. /\ writer.pc = "reset" /\ writer.reset = {}
      /\ written' = [written EXCEPT ![writer.idx] = TRUE]
      /\ writer'.pc = IF sent + 1 \in Large THEN "payload" ELSE "notify"
      /\ writer'.idx = Advance(writer.idx)
      /\ sent' = sent + 1
      /\ UNCHANGED <<read, reader, taken>>
  BY Zenon DEF PublishChunk, WriterAt, NewMsg
<1>2. sent \in Nat /\ Slot(sent) \in Chunk BY Zenon, CountTypes, SlotFacts
<1>3. Local # {} /\ sent < MaxMsgs /\ writer.idx = Slot(sent)
  BY Zenon, <1>1 DEF RingInv, WriterOK, WriterAt
<1>4. written'[Slot(sent)] /\ \A i \in Chunk : i # Slot(sent) => written'[i] = written[i]
  BY Zenon, <1>1, <1>2, <1>3 DEF TypeOK
<1>5. \A r \in Local : ~ read[Slot(sent)][r] BY Zenon, <1>1 DEF RingInv, ChunkOK, WriterAt
<1>6. WriterOK'
  <2>1. writer'.idx = Slot(sent + 1) BY Zenon, <1>1, <1>2, <1>3, SlotFacts
  <2>. QED BY ONLY <1>1, <1>2, <1>3, <2>1 DEF WriterOK, WriterAt, Slot
<1>7. ChunkOK' BY Zenon, <1>1 DEF ChunkOK, WriterAt
<1>8. ASSUME NEW r \in Local PROVE FlagsOK(r)' /\ PlaceOK(r)'
  <2>1. FlagsOK(r) /\ PlaceOK(r) BY Zenon DEF RingInv
  <2>2. taken[r] \in Nat /\ taken[r] <= sent /\ MaxMsgs \in Nat /\ MaxChunks \in Nat
    BY Zenon, <2>1, ChunkNumber, CountTypes DEF PlaceOK
  <2>3. Pending(r)' = Pending(r) \union {sent} BY ONLY <1>1, <1>2, <1>3, <2>2 DEF Pending
  <2>4. \A k \in Pending(r) : Slot(k) \in Chunk
    <3>1. \A k \in Pending(r) : k \in Nat BY ONLY ChunkNumber DEF Pending
    <3>. QED BY Zenon, <3>1, SlotFacts
  <2>5. \A k \in Pending(r) \union {sent} : written'[Slot(k)] /\ ~ read'[Slot(k)][r]
    BY Zenon, <1>1, <1>4, <1>5, <2>1, <2>4 DEF FlagsOK
  <2>6. \A i \in Chunk : written'[i] /\ ~ read'[i][r] =>
                           \E k \in Pending(r) \union {sent} : i = Slot(k)
    BY Zenon, <1>1, <1>4, <2>1 DEF FlagsOK
  <2>7. FlagsOK(r)' BY Zenon, <2>3, <2>5, <2>6 DEF FlagsOK, Slot
  <2>8. sent < taken[r] + MaxChunks BY Zenon, <1>1, WriterChunk DEF WriterAt
  <2>9. PlaceOK(r)'
    <3>1. reader'[r].idx = Slot(taken'[r]) BY Zenon, <1>1, <2>1 DEF PlaceOK
    <3>2. /\ taken'[r] <= sent' /\ sent' <= taken'[r] + MaxChunks
          /\ taken'[r] < sent'
      BY ONLY <1>1, <1>2, <2>2, <2>8
    <3>3. taken'[r] # sent' BY ONLY <1>1, <1>2, <2>2
    <3>. QED BY ONLY Zenon, <3>1, <3>2, <3>3 DEF PlaceOK, Slot
  <2>. QED BY Zenon, <2>7, <2>9
<1>. QED BY Zenon, <1>6, <1>7, <1>8 DEF RingInv

\* The writer is not at the ring.
LEMMA WriterMoves ==
    ASSUME TypeOK, RingInv,
           Enqueue \/ EnqueueTimeout \/ SendPayload \/ Notify \/ SendRemote
    PROVE  RingInv'
<1>1. CASE SendRemote /\ Local = {}
  <2>1. writer'.pc = "idle" BY Zenon, <1>1 DEF SendRemote, WriterTo, TypeOK
  <2>. QED BY Zenon, <1>1, <2>1 DEF RingInv, WriterOK, ChunkOK, WriterAt
<1>2. CASE ~ (SendRemote /\ Local = {})
  <2>1. UNCHANGED <<written, read, reader, sent, taken>>
    BY Zenon, <1>2 DEF Enqueue, EnqueueTimeout, SendPayload, Notify, SendRemote, ghosts, ring
  <2>2. /\ writer'.idx = writer.idx
        /\ \/ /\ writer.pc = "idle" /\ sent < MaxMsgs
              /\ writer'.pc = IF Local = {} THEN "remote" ELSE "acquire"
           \/ writer.pc = "acquire" /\ writer'.pc = "idle"
           \/ writer.pc = "payload" /\ writer'.pc = "notify"
           \/ writer.pc = "notify" /\ writer'.pc = "remote"
           \/ writer.pc = "remote" /\ writer'.pc = "idle"
    BY Zenon DEF Enqueue, EnqueueTimeout, SendPayload, Notify, SendRemote, WriterAt, WriterTo,
           TypeOK
  <2>3. WriterOK'
    <3>1. sent \in Large => sent > 0 BY ONLY QueueAssumption
    <3>. QED BY Zenon, <2>1, <2>2, <3>1 DEF RingInv, WriterOK, WriterAt, Slot
  <2>4. ChunkOK' BY Zenon, <2>2 DEF ChunkOK, WriterAt
  <2>5. \A r \in Local : FlagsOK(r)' /\ PlaceOK(r)' BY Zenon, <2>1, ReaderFrame DEF RingInv
  <2>. QED BY Zenon, <2>3, <2>4, <2>5 DEF RingInv
<1>. QED BY Zenon, <1>1, <1>2

\* Reader r goes to another place, with the flags as they are.
LEMMA ReaderMoves ==
    ASSUME RingInv, NEW r \in Local, NEW p,
           UNCHANGED <<written, read, writer, sent, taken>>,
           \A q \in Local : q # r => reader'[q] = reader[q],
           reader'[r].pc = p, reader'[r].idx = reader[r].idx,
           p = "written flag" /\ taken[r] = sent => ~ written[Slot(sent)],
           p = "copy" \/ p = "mark" => taken[r] < sent
    PROVE  RingInv'
<1>1. WriterOK' /\ ChunkOK' BY Zenon DEF RingInv, WriterOK, ChunkOK, WriterAt, Slot
<1>2. ASSUME NEW q \in Local, q # r PROVE FlagsOK(q)' /\ PlaceOK(q)'
  BY Zenon, <1>2, ReaderFrame DEF RingInv
<1>3. FlagsOK(r)'
  <2>1. Pending(r)' = Pending(r) BY Zenon DEF Pending
  <2>. QED BY <2>1, ZenonT(60) DEF RingInv, FlagsOK, Slot
<1>4. PlaceOK(r)' BY Zenon DEF RingInv, PlaceOK, At, Slot
<1>. QED BY Zenon, <1>1, <1>2, <1>3, <1>4 DEF RingInv

\* What To does.
LEMMA ToFacts ==
    ASSUME TypeOK, NEW r \in Local, NEW p, To(r, p)
    PROVE  /\ \A q \in Local : q # r => reader'[q] = reader[q]
           /\ reader'[r].pc = p /\ reader'[r].idx = reader[r].idx
           /\ reader'[r].got = reader[r].got
<1> DEFINE old == reader[r]
           new == [old EXCEPT !.pc = p]
<1>1. reader' = [reader EXCEPT ![r] = new] BY Zenon DEF To
<1>2. DOMAIN reader = Local /\ DOMAIN old = {"pc", "idx", "got"} BY Zenon DEF TypeOK
<1>3. new.pc = p /\ new.idx = old.idx /\ new.got = old.got BY Zenon, <1>2
<1> HIDE DEF new
<1>. QED BY Zenon, <1>1, <1>2, <1>3

\* What Copy does.
LEMMA CopyFacts ==
    ASSUME TypeOK, NEW r \in Local, Copy(r)
    PROVE  /\ \A q \in Local : q # r => reader'[q] = reader[q]
           /\ reader'[r].pc = "mark" /\ reader'[r].idx = reader[r].idx
           /\ reader'[r].got = data[reader[r].idx]
<1> DEFINE old == reader[r]
           new == [old EXCEPT !.pc = "mark", !.got = data[old.idx]]
<1>1. reader' = [reader EXCEPT ![r] = new] BY Zenon DEF Copy
<1>2. DOMAIN reader = Local /\ DOMAIN old = {"pc", "idx", "got"} BY Zenon DEF TypeOK
<1>3. new.pc = "mark" /\ new.idx = old.idx /\ new.got = data[old.idx] BY Zenon, <1>2
<1> HIDE DEF new
<1>. QED BY Zenon, <1>1, <1>2, <1>3

\* A reader that finds a chunk unread and written has a message there: the two
\* flags are loaded one after the other, and the chunk may change in between.
LEMMA LoadFlagRing ==
    ASSUME TypeOK, RingInv, NEW r \in Local, LoadReadFlag(r) \/ LoadWrittenFlag(r)
    PROVE  RingInv'
<1>1. FlagsOK(r) /\ PlaceOK(r) BY Zenon DEF RingInv
<1>2. sent \in Nat /\ taken[r] \in Nat /\ Slot(sent) \in Chunk BY Zenon, CountTypes, SlotFacts
<1>3. CASE LoadReadFlag(r)
  <2>1. CASE read[reader[r].idx][r]
    <3>1. To(r, "wait") BY Zenon, <1>3, <2>1 DEF LoadReadFlag
    <3>2. UNCHANGED <<written, read, writer, sent, taken>>
      BY Zenon, <1>3 DEF LoadReadFlag, ring, ghosts
    <3>. QED BY Zenon, <3>1, <3>2, ToFacts, ReaderMoves
  <2>2. CASE ~ read[reader[r].idx][r]
    <3>1. To(r, "written flag") BY Zenon, <1>3, <2>2 DEF LoadReadFlag
    <3>2. ASSUME taken[r] = sent PROVE ~ written[Slot(sent)]
      <4>1. Pending(r) = {} BY ONLY <1>2, <3>2, ChunkNumber DEF Pending
      <4>2. ~ read[Slot(sent)][r] BY Zenon, <1>1, <2>2, <3>2 DEF PlaceOK
      <4>. QED BY Zenon, <1>1, <1>2, <4>1, <4>2 DEF FlagsOK
    <3>3. UNCHANGED <<written, read, writer, sent, taken>>
      BY Zenon, <1>3 DEF LoadReadFlag, ring, ghosts
    <3>4. /\ \A q \in Local : q # r => reader'[q] = reader[q]
          /\ reader'[r].pc = "written flag" /\ reader'[r].idx = reader[r].idx
      BY Zenon, <3>1, ToFacts
    <3>5. "written flag" = "written flag" /\ taken[r] = sent => ~ written[Slot(sent)]
      BY ONLY <3>2
    <3>. QED BY Zenon, <3>3, <3>4, <3>5, ReaderMoves
  <2>. QED BY Zenon, <2>1, <2>2
<1>4. CASE LoadWrittenFlag(r)
  <2>1. CASE written[reader[r].idx]
    <3>1. To(r, "copy") /\ At(r, "written flag") BY Zenon, <1>4, <2>1 DEF LoadWrittenFlag
    <3>2. taken[r] # sent BY Zenon, <1>1, <2>1, <3>1 DEF PlaceOK
    <3>3. taken[r] <= sent BY Zenon, <1>1 DEF PlaceOK
    <3>4. taken[r] < sent BY ONLY <1>2, <3>2, <3>3
    <3>5. UNCHANGED <<written, read, writer, sent, taken>>
      BY Zenon, <1>4 DEF LoadWrittenFlag, ring, ghosts
    <3>. QED BY Zenon, <3>1, <3>4, <3>5, ToFacts, ReaderMoves
  <2>2. CASE ~ written[reader[r].idx]
    <3>1. To(r, "wait") BY Zenon, <1>4, <2>2 DEF LoadWrittenFlag
    <3>2. UNCHANGED <<written, read, writer, sent, taken>>
      BY Zenon, <1>4 DEF LoadWrittenFlag, ring, ghosts
    <3>. QED BY Zenon, <3>1, <3>2, ToFacts, ReaderMoves
  <2>. QED BY Zenon, <2>1, <2>2
<1>. QED BY Zenon, <1>3, <1>4

\* A reader copies what it was told it can read.
LEMMA CopyRing ==
    ASSUME TypeOK, RingInv, NEW r \in Local, Copy(r)
    PROVE  RingInv'
<1>1. /\ \A q \in Local : q # r => reader'[q] = reader[q]
      /\ reader'[r].pc = "mark" /\ reader'[r].idx = reader[r].idx
  BY Zenon, CopyFacts
<1>2. taken[r] < sent BY Zenon DEF Copy, RingInv, PlaceOK
<1>. QED BY Zenon, <1>1, <1>2, ReaderMoves DEF Copy, ring, ghosts

\* The steps of a reader that have nothing to do with the flags
LEMMA OtherMoves ==
    ASSUME TypeOK, RingInv, NEW r \in Local,
           \/ Spin(r) \/ Sleep(r) \/ Wake(r) \/ ReadTimeout(r) \/ PollTimeout(r)
           \/ GiveUpPayload(r) \/ RecvPayload(r)
    PROVE  RingInv'
<1>1. UNCHANGED <<written, read, writer, sent, taken>>
  BY Zenon DEF Spin, Sleep, Wake, ReadTimeout, PollTimeout, GiveUpPayload, RecvPayload, ring,
         ghosts
<1>2. PICK p \in {"stopped", "again", "poll", "idle"} : To(r, p)
  BY DEF Spin, Sleep, Wake, ReadTimeout, PollTimeout, GiveUpPayload, RecvPayload, Again
<1>. QED BY Zenon, <1>1, <1>2, ToFacts, ReaderMoves

\* A reader is done with a chunk.
LEMMA MarkRing ==
    ASSUME TypeOK, RingInv, NEW r \in Local, Mark(r)
    PROVE  RingInv'
<1>1. FlagsOK(r) /\ PlaceOK(r) BY Zenon DEF RingInv
<1>2. /\ At(r, "mark") /\ read' = [read EXCEPT ![reader[r].idx][r] = TRUE]
      /\ taken' = [taken EXCEPT ![r] = @ + 1]
      /\ UNCHANGED <<written, writer, sent>>
  BY Zenon DEF Mark
<1>3. /\ \A q \in Local : q # r => reader'[q] = reader[q]
      /\ reader'[r].pc \in {"payload", "idle"} /\ reader'[r].idx = Advance(reader[r].idx)
  BY Zenon DEF Mark, TypeOK
<1>4. /\ sent \in Nat /\ sent <= MaxMsgs /\ taken[r] \in Nat /\ taken[r] < sent
      /\ sent <= taken[r] + MaxChunks /\ reader[r].idx = Slot(taken[r])
      /\ MaxMsgs \in Nat /\ MaxChunks \in Nat \ {0}
  BY Zenon, <1>1, <1>2, CountTypes, ChunkNumber DEF PlaceOK
<1>5. taken'[r] = taken[r] + 1 /\ \A q \in Local : q # r => taken'[q] = taken[q]
  BY Zenon, <1>2 DEF TypeOK
<1>6. Slot(sent) \in Chunk /\ Slot(taken[r]) \in Chunk BY Zenon, <1>4, SlotFacts
<1>7. /\ read'[Slot(taken[r])][r]
      /\ \A i \in Chunk, q \in Local : i # Slot(taken[r]) \/ q # r => read'[i][q] = read[i][q]
  BY Zenon, <1>2, <1>4, <1>6 DEF TypeOK
<1>8. taken[r] \in Pending(r) BY ONLY <1>4 DEF Pending
<1>9. WriterOK' BY Zenon, <1>2 DEF RingInv, WriterOK, WriterAt, Slot
<1>10. ChunkOK'
  <2>1. ASSUME WriterAt("write") \/ WriterAt("reset") PROVE Slot(taken[r]) # Slot(sent)
    BY Zenon, <1>8, <2>1, WriterChunk
  <2>2. WriterAt("write") \/ WriterAt("reset") => ~ written'[Slot(sent)]
    BY Zenon, <1>2 DEF RingInv, ChunkOK
  <2>3. WriterAt("reset") => \A q \in Local \ writer.reset : ~ read'[Slot(sent)][q]
    BY Zenon, <1>6, <1>7, <2>1 DEF RingInv, ChunkOK
  <2>. QED BY Zenon, <1>2, <2>2, <2>3 DEF ChunkOK, WriterAt, Slot
<1>11. Pending(r)' = Pending(r) \ {taken[r]} BY ONLY <1>2, <1>4, <1>5 DEF Pending
<1>12. \A k \in Pending(r) : k \in Nat /\ Slot(k) \in Chunk
  <2>1. \A k \in Pending(r) : k \in Nat BY ONLY <1>4 DEF Pending
  <2>. QED BY Zenon, <2>1, SlotFacts
<1>13. FlagsOK(r)'
  <2>1. ASSUME NEW k \in Pending(r), k # taken[r] PROVE Slot(k) # Slot(taken[r])
    <3>1. k \in Nat /\ taken[r] < k /\ k < taken[r] + MaxChunks
      BY ONLY <1>4, <2>1 DEF Pending
    <3>. QED BY Zenon, <1>4, <3>1, SlotsDiffer
  <2>2. \A k \in Pending(r) \ {taken[r]} : written'[Slot(k)] /\ ~ read'[Slot(k)][r]
    BY Zenon, <1>1, <1>2, <1>7, <1>12, <2>1 DEF FlagsOK
  <2>3. \A i \in Chunk : written'[i] /\ ~ read'[i][r] =>
                           \E k \in Pending(r) \ {taken[r]} : i = Slot(k)
    BY <1>1, <1>2, <1>7, SMTT(60) DEF FlagsOK
  <2>. QED BY Zenon, <1>11, <2>2, <2>3 DEF FlagsOK, Slot
<1>14. PlaceOK(r)'
  <2>1. reader'[r].idx = Slot(taken'[r]) BY Zenon, <1>3, <1>4, <1>5, SlotFacts
  <2>2. taken'[r] <= sent' /\ sent' <= taken'[r] + MaxChunks BY ONLY <1>2, <1>4, <1>5
  <2>. QED BY ONLY Zenon, <1>3, <2>1, <2>2 DEF PlaceOK, At, Slot
<1>15. ASSUME NEW q \in Local, q # r PROVE FlagsOK(q)' /\ PlaceOK(q)'
  <2>1. FlagsOK(q) /\ PlaceOK(q) BY Zenon DEF RingInv
  <2>2. Pending(q)' = Pending(q) BY Zenon, <1>2, <1>5, <1>15 DEF Pending
  <2>3. \A k \in Pending(q) : Slot(k) \in Chunk
    <3>1. \A k \in Pending(q) : k \in Nat BY ONLY <1>4 DEF Pending
    <3>. QED BY Zenon, <3>1, SlotFacts
  <2>4. \A k \in Pending(q) : written'[Slot(k)] /\ ~ read'[Slot(k)][q]
    BY Zenon, <1>2, <1>7, <1>15, <2>1, <2>3 DEF FlagsOK
  <2>5. \A i \in Chunk : written'[i] /\ ~ read'[i][q] => \E k \in Pending(q) : i = Slot(k)
    BY ONLY <1>2, <1>7, <1>15, <2>1 DEF FlagsOK
  <2>6. FlagsOK(q)' BY Zenon, <2>2, <2>4, <2>5 DEF FlagsOK, Slot
  <2>7. PlaceOK(q)' BY Zenon, <1>2, <1>3, <1>5, <1>15, <2>1 DEF PlaceOK, At, Slot
  <2>. QED BY Zenon, <2>6, <2>7
<1>. QED BY Zenon, <1>9, <1>10, <1>13, <1>14, <1>15 DEF RingInv

\* What happens on the sockets and at a shutdown does not touch the ring.
LEMMA ElsewhereRing ==
    ASSUME RingInv, UNCHANGED <<written, read, writer, reader, sent, taken>>
    PROVE  RingInv'
<1>1. WriterOK' /\ ChunkOK' BY Zenon DEF RingInv, WriterOK, ChunkOK, WriterAt, Slot
<1>2. \A r \in Local : FlagsOK(r)' /\ PlaceOK(r)' BY Zenon, ReaderFrame DEF RingInv
<1>. QED BY Zenon, <1>1, <1>2 DEF RingInv

\* Every step keeps what the flags mean.
LEMMA RingStep ==
    ASSUME TypeOK, RingInv, [Next]_vars
    PROVE  RingInv'
<1>1. CASE Enqueue \/ EnqueueTimeout \/ SendPayload \/ Notify \/ SendRemote
  BY Zenon, <1>1, WriterMoves
<1>2. CASE AcquireWrite BY Zenon, <1>2, AcquireWriteRing
<1>3. CASE BeginWrite \/ FinishWrite BY Zenon, <1>3, WriteRing
<1>4. CASE ResetFlag BY Zenon, <1>4, ResetFlagRing
<1>5. CASE PublishChunk BY Zenon, <1>5, PublishRing
<1>6. ASSUME NEW r \in Local,
             Reads(r) \/ ReadTimeout(r) \/ PollTimeout(r) \/ GiveUpPayload(r)
      PROVE  RingInv'
  BY Zenon, <1>6, LoadFlagRing, CopyRing, MarkRing, OtherMoves DEF Reads
<1>7. ASSUME NEW r \in Local, Shutdown(r) \/ Cancel(r) PROVE RingInv'
  BY Zenon, <1>7, ElsewhereRing DEF Shutdown, Cancel, ring, ghosts
<1>8. ASSUME NEW r \in Remote, RecvRemote(r) PROVE RingInv'
  BY Zenon, <1>8, ElsewhereRing DEF RecvRemote, ring
<1>9. CASE UNCHANGED vars BY Zenon, <1>9, ElsewhereRing DEF vars, ring, ghosts
<1>. QED BY Zenon, <1>1, <1>2, <1>3, <1>4, <1>5, <1>6, <1>7, <1>8, <1>9 DEF Next, Writes

-----------------------------------------------------------------------------
(* Types *)

\* What TypeOK says of a reader.
ReaderState == [pc : {"idle", "again", "written flag", "wait", "poll", "copy", "mark",
                      "payload", "stopped"},
                idx : Chunk, got : 0..(MaxMsgs + 1)]

\* A function after an update.
LEMMA Update ==
    ASSUME NEW S, NEW T, NEW f \in [S -> T], NEW x \in S, NEW v \in T
    PROVE  [f EXCEPT ![x] = v] \in [S -> T]
BY Zenon

\* A sequence after an element is appended.
LEMMA UpdateAppend ==
    ASSUME NEW S, NEW T, NEW f \in [S -> Seq(T)], NEW x \in S, NEW v \in T
    PROVE  [f EXCEPT ![x] = Append(@, v)] \in [S -> Seq(T)]
OBVIOUS

\* All sequences after an element is appended.
LEMMA AllAppend ==
    ASSUME NEW S, NEW T, NEW f \in [S -> Seq(T)], NEW v \in T
    PROVE  [x \in S |-> Append(f[x], v)] \in [S -> Seq(T)]
OBVIOUS

\* What a chunk may hold.
LEMMA DataTypes ==
    ASSUME TypeOK
    PROVE  /\ Torn \in 0..(MaxMsgs + 1) /\ Overflow \in 0..(MaxMsgs + 1)
           /\ \A n \in Nat : n <= MaxMsgs => n \in 0..(MaxMsgs + 1)
           /\ \A n \in 0..(MaxMsgs + 1) : n # Overflow => n \in 0..MaxMsgs
           /\ writer.idx \in Chunk /\ data \in [Chunk -> 0..(MaxMsgs + 1)]
<1>1. writer.idx \in Chunk /\ data \in [Chunk -> 0..(MaxMsgs + 1)] BY Zenon DEF TypeOK
<1>2. /\ Torn \in 0..(MaxMsgs + 1) /\ Overflow \in 0..(MaxMsgs + 1)
      /\ \A n \in Nat : n <= MaxMsgs => n \in 0..(MaxMsgs + 1)
      /\ \A n \in 0..(MaxMsgs + 1) : n # Overflow => n \in 0..MaxMsgs
  BY ONLY ChunkNumber DEF Torn, Overflow
<1>. QED BY Zenon, <1>1, <1>2

\* A reader goes to another place.
LEMMA ToType ==
    ASSUME TypeOK, NEW r \in Local, To(r, "idle") \/ To(r, "again") \/ To(r, "written flag")
             \/ To(r, "wait") \/ To(r, "poll") \/ To(r, "copy") \/ To(r, "stopped")
    PROVE  reader' \in [Local -> ReaderState]
<1>1. reader \in [Local -> ReaderState] BY Zenon DEF TypeOK, ReaderState
<1>2. PICK p \in {"idle", "again", "written flag", "wait", "poll", "copy", "stopped"} :
        To(r, p)
  BY Zenon
<1> DEFINE new == [reader[r] EXCEPT !.pc = p]
<1>3. reader' = [reader EXCEPT ![r] = new] BY Zenon, <1>2 DEF To
<1>4. new \in ReaderState BY Zenon, <1>1 DEF ReaderState
<1> HIDE DEF new
<1>. QED BY Zenon, <1>1, <1>3, <1>4

\* The places of the writer
LEMMA WriterType ==
    ASSUME TypeOK, NEW p \in {"idle", "acquire", "write", "notify", "remote"}, WriterTo(p)
    PROVE  writer' \in [pc : {"idle", "acquire", "write", "reset", "payload", "notify",
                              "remote"},
                        idx : Chunk, reset : SUBSET Local]
BY Zenon DEF TypeOK, WriterTo

\* Every step keeps the types.
LEMMA TypeStep ==
    ASSUME TypeOK, RingInv, [Next]_vars
    PROVE  TypeOK'
<1> USE ChunkNumber
<1>1. CASE Enqueue \/ EnqueueTimeout
  <2>1. WriterTo("remote") \/ WriterTo("acquire") \/ WriterTo("idle")
    BY ONLY <1>1 DEF Enqueue, EnqueueTimeout
  <2>. QED
    BY Zenon, <1>1, <2>1, WriterType DEF Enqueue, EnqueueTimeout, TypeOK, ring, sockets, wakeups, ghosts
<1>2. CASE AcquireWrite
  <2>1. WriterTo("write") BY Zenon, <1>2 DEF AcquireWrite
  <2>2. written' \in [Chunk -> BOOLEAN] BY Zenon, <1>2 DEF AcquireWrite, TypeOK
  <2>. QED BY Zenon, <1>2, <2>1, <2>2, WriterType DEF AcquireWrite, TypeOK, sockets, wakeups, ghosts
<1>3. CASE BeginWrite
  <2>1. data' \in [Chunk -> 0..(MaxMsgs + 1)] BY <1>3, DataTypes, Update DEF BeginWrite
  <2>. QED BY Zenon, <1>3, <2>1 DEF BeginWrite, TypeOK, sockets, wakeups, ghosts
<1>4. CASE FinishWrite
  <2>1. sent \in Nat /\ sent < MaxMsgs
    BY Zenon, <1>4, CountTypes DEF FinishWrite, RingInv, WriterOK
  <2>2. data' \in [Chunk -> 0..(MaxMsgs + 1)]
    <3> DEFINE new == IF NewMsg \in Large THEN Overflow ELSE NewMsg
    <3>1. NewMsg \in Nat /\ NewMsg <= MaxMsgs BY <2>1 DEF NewMsg
    <3>2. new \in 0..(MaxMsgs + 1) BY Zenon, <3>1, DataTypes
    <3>3. data' = [data EXCEPT ![writer.idx] = new] BY Zenon, <1>4 DEF FinishWrite
    <3> HIDE DEF new
    <3>. QED BY Zenon, <3>2, <3>3, DataTypes, Update
  <2>3. writer' \in [pc : {"idle", "acquire", "write", "reset", "payload", "notify",
                           "remote"},
                     idx : Chunk, reset : SUBSET Local]
    BY Zenon, <1>4 DEF FinishWrite, TypeOK
  <2>. QED BY Zenon, <1>4, <2>2, <2>3 DEF FinishWrite, TypeOK, sockets, wakeups, ghosts
<1>5. CASE ResetFlag
  <2>1. PICK x \in writer.reset :
          /\ read' = [read EXCEPT ![writer.idx][x] = FALSE]
          /\ writer' = [writer EXCEPT !.reset = @ \ {x}]
    BY Zenon, <1>5 DEF ResetFlag
  <2>2. read' \in [Chunk -> [Local -> BOOLEAN]] BY Zenon, <2>1 DEF TypeOK
  <2>3. writer' \in [pc : {"idle", "acquire", "write", "reset", "payload", "notify",
                           "remote"},
                     idx : Chunk, reset : SUBSET Local]
    BY Zenon, <2>1 DEF TypeOK
  <2>. QED BY Zenon, <1>5, <2>2, <2>3 DEF ResetFlag, TypeOK, sockets, wakeups, ghosts
<1>6. CASE PublishChunk
  <2>1. sent \in Nat /\ sent < MaxMsgs /\ writer.idx = Slot(sent)
    BY Zenon, <1>6, CountTypes DEF PublishChunk, RingInv, WriterOK, WriterAt
  <2>2. Advance(writer.idx) \in Chunk
    <3>1. Advance(Slot(sent)) = Slot(sent + 1) /\ sent + 1 \in Nat BY ONLY <2>1, SlotFacts
    <3>2. Slot(sent + 1) \in Chunk BY Zenon, <3>1, SlotFacts
    <3>. QED BY Zenon, <2>1, <3>1, <3>2
  <2>3. writer' \in [pc : {"idle", "acquire", "write", "reset", "payload", "notify",
                           "remote"},
                     idx : Chunk, reset : SUBSET Local]
    BY Zenon, <1>6, <2>2 DEF PublishChunk
  <2>4. sent' \in 0..MaxMsgs BY <1>6, <2>1 DEF PublishChunk, NewMsg
  <2>5. written' \in [Chunk -> BOOLEAN] BY Zenon, <1>6 DEF PublishChunk, TypeOK
  <2>. QED BY Zenon, <1>6, <2>3, <2>4, <2>5 DEF PublishChunk, TypeOK, sockets, wakeups
<1>7. CASE SendPayload
  <2>1. sent \in Msg
    BY Zenon, <1>7, QueueAssumption DEF SendPayload, RingInv, WriterOK, Msg
  <2>2. local_socket' \in [Local -> Seq(Msg)] 
    <3>1. local_socket \in [Local -> Seq(Msg)] BY Zenon DEF TypeOK
    <3>2. local_socket' = [x \in Local |-> Append(local_socket[x], sent)]
      BY Zenon, <1>7 DEF SendPayload
    <3>. QED BY ONLY <2>1, <3>1, <3>2, AllAppend
  <2>3. WriterTo("notify") BY ONLY <1>7 DEF SendPayload
  <2>. QED BY Zenon, <1>7, <2>2, <2>3, WriterType DEF SendPayload, TypeOK, ring, wakeups, ghosts
<1>8. CASE Notify
  <2>1. ping' \in [Local -> BOOLEAN] BY Zenon, <1>8 DEF Notify
  <2>2. WriterTo("remote") BY ONLY <1>8 DEF Notify
  <2>. QED BY Zenon, <1>8, <2>1, <2>2, WriterType DEF Notify, TypeOK, ring, sockets, ghosts
<1>9. CASE SendRemote
  <2>1. sent' \in Msg
    <3>1. sent \in Nat /\ sent <= MaxMsgs BY Zenon, CountTypes
    <3>2. CASE Local = {}
      BY <1>9, <3>1, <3>2 DEF SendRemote, NewMsg, RingInv, WriterOK, Msg
    <3>3. CASE Local # {}
      BY <1>9, <3>1, <3>3 DEF SendRemote, RingInv, WriterOK, Msg
    <3>. QED BY Zenon, <3>2, <3>3
  <2>2. remote_socket' \in [Remote -> Seq(Msg)] 
    <3>1. remote_socket \in [Remote -> Seq(Msg)] BY Zenon DEF TypeOK
    <3>2. remote_socket' = [x \in Remote |-> Append(remote_socket[x], sent')]
      BY Zenon, <1>9 DEF SendRemote
    <3>. QED BY ONLY <2>1, <3>1, <3>2, AllAppend
  <2>3. WriterTo("idle") BY Zenon, <1>9 DEF SendRemote
  <2>4. sent' \in 0..MaxMsgs BY ONLY <2>1 DEF Msg
  <2>. QED BY Zenon, <1>9, <2>2, <2>3, <2>4, WriterType DEF SendRemote, TypeOK, ring, wakeups
<1>10. ASSUME NEW r \in Local,
              LoadReadFlag(r) \/ LoadWrittenFlag(r) \/ Spin(r) \/ Sleep(r) \/ ReadTimeout(r)
                \/ PollTimeout(r)
       PROVE TypeOK'
  <2>1. reader' \in [Local -> ReaderState]
    BY Zenon, <1>10, ToType DEF LoadReadFlag, LoadWrittenFlag, Spin, Sleep, ReadTimeout, PollTimeout,
                         Again
  <2>2. UNCHANGED <<ring, writer, sockets, wakeups, ghosts>>
    BY Zenon, <1>10 DEF LoadReadFlag, LoadWrittenFlag, Spin, Sleep, ReadTimeout, PollTimeout
  <2>. QED BY Zenon, <2>1, <2>2 DEF TypeOK, ReaderState, ring, sockets, wakeups, ghosts
<1>11. ASSUME NEW r \in Local, Wake(r) PROVE TypeOK'
  <2>1. reader' \in [Local -> ReaderState] BY Zenon, <1>11, ToType DEF Wake, Again
  <2>2. ping' \in [Local -> BOOLEAN] BY Zenon, <1>11 DEF Wake, TypeOK
  <2>. QED BY Zenon, <1>11, <2>1, <2>2 DEF Wake, TypeOK, ReaderState, ring, sockets, ghosts
<1>12. ASSUME NEW r \in Local, Copy(r) PROVE TypeOK'
  <2> DEFINE new == [reader[r] EXCEPT !.pc = "mark", !.got = data[reader[r].idx]]
  <2>1. reader' = [reader EXCEPT ![r] = new] BY Zenon, <1>12 DEF Copy
  <2>2. /\ reader[r] \in ReaderState
        /\ data[reader[r].idx] \in 0..(MaxMsgs + 1)
    BY Zenon DEF TypeOK, ReaderState
  <2>4. new \in ReaderState BY Zenon, <2>2 DEF ReaderState
  <2> HIDE DEF new
  <2>3. reader' \in [Local -> ReaderState] BY Zenon, <2>1, <2>4 DEF TypeOK, ReaderState
  <2>. QED BY Zenon, <1>12, <2>3 DEF Copy, TypeOK, ReaderState, ring, sockets, wakeups, ghosts
<1>13. ASSUME NEW r \in Local, Mark(r) PROVE TypeOK'
  <2>1. /\ taken[r] \in Nat /\ sent \in Nat /\ taken[r] < sent /\ sent <= MaxMsgs
        /\ reader[r].idx = Slot(taken[r])
    BY Zenon, <1>13, CountTypes DEF Mark, RingInv, PlaceOK
  <2>2. Advance(reader[r].idx) \in Chunk
    <3>1. Advance(Slot(taken[r])) = Slot(taken[r] + 1) /\ taken[r] + 1 \in Nat
      BY ONLY <2>1, SlotFacts
    <3>2. Slot(taken[r] + 1) \in Chunk BY Zenon, <3>1, SlotFacts
    <3>. QED BY Zenon, <2>1, <3>1, <3>2
  <2>3. reader' \in [Local -> ReaderState]
    <3> DEFINE new == [pc |-> IF reader[r].got = Overflow THEN "payload" ELSE "idle",
                       idx |-> Advance(reader[r].idx), got |-> Torn]
    <3>1. new \in ReaderState BY Zenon, <2>2, DataTypes DEF ReaderState
    <3>2. reader' = [reader EXCEPT ![r] = new] BY Zenon, <1>13 DEF Mark
    <3> HIDE DEF new
    <3>. QED BY Zenon, <3>1, <3>2 DEF TypeOK, ReaderState
  <2>4. read' \in [Chunk -> [Local -> BOOLEAN]] BY Zenon, <1>13 DEF Mark, TypeOK
  <2>5. taken' \in [Local -> 0..MaxMsgs] 
    <3>1. taken[r] + 1 \in 0..MaxMsgs BY ONLY <2>1, ChunkNumber
    <3>. QED BY Zenon, <1>13, <3>1 DEF Mark, TypeOK
  <2>6. received' \in [Reader -> Seq(0..MaxMsgs)]
    <3>1. CASE reader[r].got = Overflow BY Zenon, <1>13, <3>1 DEF Mark, TypeOK
    <3>2. CASE reader[r].got # Overflow
      <4>1. reader[r].got \in 0..MaxMsgs 
        <5>1. reader[r].got \in 0..(MaxMsgs + 1) BY Zenon DEF TypeOK
        <5>. QED BY Zenon, <3>2, <5>1, DataTypes
      <4>2. received' = [received EXCEPT ![r] = Append(@, reader[r].got)]
        BY Zenon, <1>13, <3>2 DEF Mark
      <4>3. r \in Reader BY Zenon DEF Reader
      <4>4. received \in [Reader -> Seq(0..MaxMsgs)] BY Zenon DEF TypeOK
      <4>. QED BY ONLY <4>1, <4>2, <4>3, <4>4, UpdateAppend
    <3>. QED BY ONLY <3>1, <3>2
  <2>. QED BY Zenon, <1>13, <2>3, <2>4, <2>5, <2>6 DEF Mark, TypeOK, ReaderState, sockets, wakeups
<1>14. ASSUME NEW r \in Local, GiveUpPayload(r) PROVE TypeOK'
  <2>1. reader' \in [Local -> ReaderState] BY Zenon, <1>14, ToType DEF GiveUpPayload
  <2>. QED BY Zenon, <1>14, <2>1 DEF GiveUpPayload, TypeOK, ReaderState, ring, sockets, wakeups
<1>15. ASSUME NEW r \in Local, RecvPayload(r) PROVE TypeOK'
  <2>1. reader' \in [Local -> ReaderState] BY Zenon, <1>15, ToType DEF RecvPayload
  <2>2. local_socket[r] \in Seq(Msg) /\ local_socket[r] # << >> /\ r \in Reader
    BY Zenon, <1>15 DEF RecvPayload, TypeOK, Reader
  <2>3. Head(local_socket[r]) \in Msg /\ Tail(local_socket[r]) \in Seq(Msg) BY ONLY <2>2
  <2>4. Head(local_socket[r]) \in 0..MaxMsgs BY ONLY <2>3 DEF Msg
  <2>5. received' \in [Reader -> Seq(0..MaxMsgs)] 
    <3>1. received \in [Reader -> Seq(0..MaxMsgs)] BY Zenon DEF TypeOK
    <3>2. received' = [received EXCEPT ![r] = Append(@, Head(local_socket[r]))]
      BY Zenon, <1>15 DEF RecvPayload
    <3>. QED BY ONLY Zenon, <2>2, <2>4, <3>1, <3>2, UpdateAppend
  <2>6. local_socket' \in [Local -> Seq(Msg)] BY Zenon, <1>15, <2>3 DEF RecvPayload, TypeOK
  <2>. QED BY Zenon, <1>15, <2>1, <2>5, <2>6 DEF RecvPayload, TypeOK, ReaderState, ring, wakeups
<1>16. ASSUME NEW r \in Remote, RecvRemote(r) PROVE TypeOK'
  <2>2. remote_socket[r] \in Seq(Msg) /\ remote_socket[r] # << >> /\ r \in Reader
    BY Zenon, <1>16 DEF RecvRemote, TypeOK, Reader
  <2>3. Head(remote_socket[r]) \in Msg /\ Tail(remote_socket[r]) \in Seq(Msg) BY ONLY <2>2
  <2>4. Head(remote_socket[r]) \in 0..MaxMsgs BY ONLY <2>3 DEF Msg
  <2>5. received' \in [Reader -> Seq(0..MaxMsgs)] 
    <3>1. received \in [Reader -> Seq(0..MaxMsgs)] BY Zenon DEF TypeOK
    <3>2. received' = [received EXCEPT ![r] = Append(@, Head(remote_socket[r]))]
      BY Zenon, <1>16 DEF RecvRemote
    <3>. QED BY ONLY Zenon, <2>2, <2>4, <3>1, <3>2, UpdateAppend
  <2>6. remote_socket' \in [Remote -> Seq(Msg)] BY Zenon, <1>16, <2>3 DEF RecvRemote, TypeOK
  <2>. QED BY Zenon, <1>16, <2>5, <2>6 DEF RecvRemote, TypeOK, ring, wakeups
<1>17. ASSUME NEW r \in Local, Shutdown(r) \/ Cancel(r) PROVE TypeOK'
  <2>1. shutting_down' \in [Local -> BOOLEAN] /\ cancelled' \in [Local -> BOOLEAN]
    BY Zenon, <1>17 DEF Shutdown, Cancel, TypeOK
  <2>2. ping' \in [Local -> BOOLEAN]
    BY Zenon, <1>17 DEF Shutdown, Cancel, TypeOK
  <2>. QED BY Zenon, <1>17, <2>1, <2>2 DEF Shutdown, Cancel, TypeOK, ring, sockets, ghosts
<1>18. CASE UNCHANGED vars BY Zenon, <1>18 DEF vars, TypeOK, ring, sockets, wakeups, ghosts
<1>. QED BY Zenon, <1>1, <1>2, <1>3, <1>4, <1>5, <1>6, <1>7, <1>8, <1>9, <1>10, <1>11, <1>12,
            <1>13, <1>14, <1>15, <1>16, <1>17, <1>18 DEF Next, Writes, Reads

-----------------------------------------------------------------------------
(* Theorems *)

\* The queue is empty, and message 1 goes to chunk 0.
LEMMA InitRing == Init => TypeOK /\ RingInv
<1> SUFFICES ASSUME Init PROVE TypeOK /\ RingInv BY Zenon
<1>1. TypeOK
  <2>1. 0 \in Chunk /\ Torn \in 0..(MaxMsgs + 1) /\ 0 \in 0..MaxMsgs
    BY ONLY ChunkNumber DEF Chunk, Torn
  <2>2. << >> \in Seq(Msg) /\ << >> \in Seq(0..MaxMsgs) OBVIOUS
  <2>3. reader \in [Local -> ReaderState] BY Zenon, <2>1 DEF Init, ReaderState
  <2>. QED BY Zenon, <2>1, <2>2, <2>3 DEF Init, TypeOK, ReaderState
<1>2. Slot(0) = 0
  <2>1. 0 % MaxChunks = 0 BY ONLY ChunkNumber, Remainder, SMT
  <2>. QED BY Zenon, <2>1 DEF Slot
<1>3. \A r \in Local : Pending(r) = {} BY ChunkNumber, SMTT(60) DEF Init, Pending
<1>4. WriterOK /\ ChunkOK BY Zenon, <1>2 DEF Init, WriterOK, ChunkOK, WriterAt
<1>5. ASSUME NEW r \in Local PROVE FlagsOK(r) /\ PlaceOK(r)
  <2>1. FlagsOK(r) BY Zenon, <1>3 DEF Init, FlagsOK
  <2>2. reader[r].pc = "idle" /\ reader[r].idx = 0 /\ taken[r] = 0 /\ sent = 0
    BY Zenon DEF Init
  <2>3. 0 <= 0 + MaxChunks BY ONLY ChunkNumber
  <2>4. PlaceOK(r) BY ONLY <1>2, <2>2, <2>3 DEF PlaceOK, At
  <2>. QED BY Zenon, <2>1, <2>4
<1>. QED BY Zenon, <1>1, <1>4, <1>5 DEF RingInv

\* Every step keeps the types and what the flags mean.
LEMMA RingInvStep == TypeOK /\ RingInv /\ [Next]_vars => (TypeOK /\ RingInv)'
BY Zenon, TypeStep, RingStep

\* The variables keep their types.
THEOREM TypeCorrect == Spec => []TypeOK
BY InitRing, RingInvStep, PTL DEF Spec

\* acquire_write never hands the writer a chunk that a reader is in: for any
\* number of readers and chunks, the two never overlap.
THEOREM NoOverlapHolds == Spec => []NoOverlap
<1>1. TypeOK /\ RingInv => NoOverlap
  <2> SUFFICES ASSUME TypeOK, RingInv, NEW r \in Local, At(r, "copy") \/ At(r, "mark"),
                      WriterAt("write"), reader[r].idx = writer.idx
               PROVE  FALSE
    BY Zenon DEF NoOverlap
  <2>1. taken[r] < sent /\ reader[r].idx = Slot(taken[r]) /\ writer.idx = Slot(sent)
    BY Zenon DEF RingInv, WriterOK, PlaceOK
  <2>2. taken[r] \in Nat /\ sent \in Nat /\ taken[r] <= MaxMsgs BY Zenon, CountTypes
  <2>3. taken[r] \in Pending(r) BY ONLY <2>1, <2>2, ChunkNumber DEF Pending
  <2>4. Slot(taken[r]) # Slot(sent) BY <2>3, WriterChunk
  <2>. QED BY Zenon, <2>1, <2>4
<1>. QED BY InitRing, RingInvStep, <1>1, PTL DEF Spec

-----------------------------------------------------------------------------
(* The messages *)

\* What a chunk holds of message m.
Content(m) == IF m \in Large THEN Overflow ELSE m

\* What is in the chunks.
DataOK ==
    /\ WriterAt("reset") => data[Slot(sent)] = Content(sent + 1)
    /\ \A r \in Local :
         /\ \A k \in Pending(r) : data[Slot(k)] = Content(k + 1)
         /\ At(r, "mark") => reader[r].got = Content(taken[r] + 1)

\* The last message whose payload is on the local socket, if it is large.
Shipped == IF WriterAt("payload") THEN sent - 1 ELSE sent

\* s lists the large messages from a to b in order.
Lists(s, a, b) ==
    /\ \A i \in 1..Len(s) : s[i] \in Large /\ a <= s[i] /\ s[i] <= b
    /\ \A i, j \in 1..Len(s) : i < j => s[i] < s[j]
    /\ \A m \in Large : a <= m /\ m <= b => \E i \in 1..Len(s) : s[i] = m

\* The first n messages in order
Counts(s, n) == Len(s) = n /\ \A i \in 1..n : s[i] = i

\* What a local reader got, and what waits for it on its socket.
LocalOK(r) ==
    IF At(r, "payload")
    THEN /\ taken[r] \in Large
         /\ Counts(received[r], taken[r] - 1)
         /\ Lists(local_socket[r], taken[r], Shipped)
    ELSE /\ taken[r] <= Shipped
         /\ Counts(received[r], taken[r])
         /\ Lists(local_socket[r], taken[r] + 1, Shipped)

\* The messages that were sent to the remote readers.
Broadcast ==
    IF Local # {} /\ (WriterAt("payload") \/ WriterAt("notify") \/ WriterAt("remote"))
    THEN sent - 1 ELSE sent

\* got and then queue are the first n messages in order.
Continues(got, queue, n) ==
    /\ Counts(got, Len(got))
    /\ Len(got) + Len(queue) = n
    /\ \A i \in 1..Len(queue) : queue[i] = Len(got) + i

OrderInv ==
    /\ DataOK
    /\ \A r \in Local \ lost : LocalOK(r)
    /\ \A r \in Remote : Continues(received[r], remote_socket[r], Broadcast)

Inv == TypeOK /\ RingInv /\ OrderInv

-----------------------------------------------------------------------------
(* Messages in order *)

\* One more message
LEMMA CountsAppend ==
    ASSUME NEW S, NEW s \in Seq(S), NEW n \in Nat, Counts(s, n), n + 1 \in S
    PROVE  Counts(Append(s, n + 1), n + 1)
<1>1. Len(Append(s, n + 1)) = n + 1 BY DEF Counts
<1>2. ASSUME NEW i \in 1..(n + 1) PROVE Append(s, n + 1)[i] = i
  BY DEF Counts
<1>. QED BY Zenon, <1>1, <1>2 DEF Counts

\* A message joins the queue.
LEMMA ContinuesAppend ==
    ASSUME NEW S, NEW T, NEW got \in Seq(S), NEW queue \in Seq(T), NEW n \in Nat,
           Continues(got, queue, n), n + 1 \in T
    PROVE  Continues(got, Append(queue, n + 1), n + 1)
<1> DEFINE q == Append(queue, n + 1)
<1>1. Len(q) = Len(queue) + 1 /\ Len(queue) \in Nat /\ Len(got) \in Nat OBVIOUS
<1>2. ASSUME NEW i \in 1..Len(q) PROVE q[i] = Len(got) + i
  <2>1. CASE i \in 1..Len(queue)
    <3>1. q[i] = queue[i] BY ONLY <2>1
    <3>. QED BY Zenon, <2>1, <3>1 DEF Continues
  <2>2. CASE i = Len(queue) + 1
    <3>1. q[i] = n + 1 BY ONLY <2>2
    <3>. QED BY <1>1, <2>2, <3>1 DEF Continues
  <2>. QED BY ONLY <1>1, <2>1, <2>2
<1>3. Len(got) + Len(q) = n + 1 BY <1>1 DEF Continues
<1> HIDE DEF q
<1>4. Continues(got, q, n + 1) BY Zenon, <1>2, <1>3 DEF Continues
<1>. QED BY Zenon, <1>4 DEF q

\* A message is read.
LEMMA ContinuesTail ==
    ASSUME NEW S, NEW T, NEW got \in Seq(S), NEW queue \in Seq(T), NEW n \in Nat,
           Continues(got, queue, n), queue # << >>, T \subseteq S
    PROVE  Continues(Append(got, Head(queue)), Tail(queue), n) /\ Len(got) < n
<1> DEFINE g == Append(got, Head(queue))
           q == Tail(queue)
<1>1. /\ Len(queue) \in Nat \ {0} /\ Len(got) \in Nat
      /\ Len(q) = Len(queue) - 1 /\ Len(g) = Len(got) + 1
  OBVIOUS
<1>2. Head(queue) = Len(got) + 1
  <2>1. Head(queue) = queue[1] /\ 1 \in 1..Len(queue) BY ONLY <1>1
  <2>. QED BY Zenon, <2>1 DEF Continues
<1>3. Len(got) + 1 \in S
  <2>1. Head(queue) \in T OBVIOUS
  <2>. QED BY Zenon, <1>2, <2>1
<1>4. Counts(g, Len(g))
  <2>1. Counts(Append(got, Len(got) + 1), Len(got) + 1)
    BY Zenon, <1>1, <1>3, CountsAppend DEF Continues
  <2>. QED BY Zenon, <1>1, <1>2, <2>1
<1>5. ASSUME NEW i \in 1..Len(q) PROVE q[i] = Len(g) + i
  <2>1. q[i] = queue[i + 1] /\ i + 1 \in 1..Len(queue) BY ONLY <1>1
  <2>2. queue[i + 1] = Len(got) + (i + 1) BY Zenon, <2>1 DEF Continues
  <2>. QED BY ONLY <1>1, <2>1, <2>2
<1>6. Len(got) + Len(queue) = n BY Zenon DEF Continues
<1>7. Len(g) + Len(q) = n /\ Len(got) < n BY ONLY <1>1, <1>6
<1> HIDE DEF g, q
<1>8. Continues(g, q, n) BY Zenon, <1>4, <1>5, <1>7 DEF Continues
<1>. QED BY Zenon, <1>7, <1>8 DEF g, q

\* A message that is not large is not in the list,
LEMMA ListsSkip ==
    ASSUME NEW s \in Seq(Msg), NEW a \in Nat, NEW b \in Nat, Lists(s, a, b)
    PROVE  /\ b + 1 \notin Large => Lists(s, a, b + 1)
           /\ a \notin Large => Lists(s, a + 1, b)
<1>1. \A m \in Large : m \in Nat BY ONLY QueueAssumption
<1>2. \A i \in 1..Len(s) : s[i] \in Large /\ s[i] \in Nat BY Zenon, <1>1 DEF Lists
<1>3. ASSUME b + 1 \notin Large PROVE Lists(s, a, b + 1)
  <2>1. \A i \in 1..Len(s) : s[i] \in Large /\ a <= s[i] /\ s[i] <= b + 1
    BY <1>2 DEF Lists
  <2>2. \A m \in Large : a <= m /\ m <= b + 1 => \E i \in 1..Len(s) : s[i] = m
    BY <1>1, <1>3 DEF Lists
  <2>. QED BY Zenon, <2>1, <2>2 DEF Lists
<1>4. ASSUME a \notin Large PROVE Lists(s, a + 1, b)
  <2>1. \A i \in 1..Len(s) : s[i] \in Large /\ a + 1 <= s[i] /\ s[i] <= b
    BY <1>2, <1>4 DEF Lists
  <2>2. \A m \in Large : a + 1 <= m /\ m <= b => \E i \in 1..Len(s) : s[i] = m
    BY <1>1 DEF Lists
  <2>. QED BY Zenon, <2>1, <2>2 DEF Lists
<1>. QED BY Zenon, <1>3, <1>4

\* a large one is put behind the others,
LEMMA ListsAppend ==
    ASSUME NEW s \in Seq(Msg), NEW a \in Nat, NEW b \in Nat, Lists(s, a, b),
           b + 1 \in Large, a <= b + 1
    PROVE  Lists(Append(s, b + 1), a, b + 1)
<1> DEFINE t == Append(s, b + 1)
<1>1. \A m \in Large : m \in Nat BY ONLY QueueAssumption
<1>2. Len(s) \in Nat /\ Len(t) = Len(s) + 1 OBVIOUS
<1>3. t[Len(s) + 1] = b + 1 /\ \A i \in 1..Len(s) : t[i] = s[i] OBVIOUS
<1> HIDE DEF t
<1>4. \A i \in 1..Len(s) : s[i] \in Large /\ s[i] \in Nat /\ a <= s[i] /\ s[i] <= b
  BY Zenon, <1>1 DEF Lists
<1>5. ASSUME NEW i \in 1..Len(t) PROVE t[i] \in Large /\ a <= t[i] /\ t[i] <= b + 1
  <2>1. CASE i \in 1..Len(s)
    <3>1. t[i] = s[i] BY Zenon, <1>3, <2>1
    <3>. QED BY ONLY <1>4, <2>1, <3>1
  <2>2. CASE i = Len(s) + 1 BY <1>3, <2>2
  <2>. QED BY ONLY <1>2, <2>1, <2>2
<1>6. ASSUME NEW i \in 1..Len(t), NEW j \in 1..Len(t), i < j PROVE t[i] < t[j]
  <2>1. i \in 1..Len(s) /\ t[i] = s[i] BY ONLY <1>2, <1>3, <1>6
  <2>2. CASE j \in 1..Len(s)
    <3>1. t[j] = s[j] BY Zenon, <1>3, <2>2
    <3>. QED BY Zenon, <1>6, <2>1, <2>2, <3>1 DEF Lists
  <2>3. CASE j = Len(s) + 1
    <3>1. t[j] = b + 1 BY Zenon, <1>3, <2>3
    <3>2. s[i] \in Nat /\ s[i] <= b BY Zenon, <1>4, <2>1
    <3>. QED BY ONLY <2>1, <3>1, <3>2
  <2>. QED BY ONLY <1>2, <2>2, <2>3
<1>7. ASSUME NEW m \in Large, a <= m, m <= b + 1 PROVE \E i \in 1..Len(t) : t[i] = m
  <2>1. CASE m <= b
    <3>1. PICK i \in 1..Len(s) : s[i] = m BY Zenon, <1>7, <2>1 DEF Lists
    <3>2. i \in 1..Len(t) /\ t[i] = m BY ONLY <1>2, <1>3, <3>1
    <3>. QED BY Zenon, <3>2
  <2>2. CASE m = b + 1
    <3>1. Len(s) + 1 \in 1..Len(t) /\ t[Len(s) + 1] = m BY ONLY <1>2, <1>3, <2>2
    <3>. QED BY Zenon, <3>1
  <2>. QED BY ONLY <1>1, <1>7, <2>1, <2>2
<1>8. Lists(t, a, b + 1) BY Zenon, <1>5, <1>6, <1>7 DEF Lists
<1>. QED BY Zenon, <1>8 DEF t

\* and the first large one is read first.
LEMMA ListsTail ==
    ASSUME NEW s \in Seq(Msg), NEW a \in Nat, NEW b \in Nat, Lists(s, a, b),
           a \in Large, s # << >>
    PROVE  Head(s) = a /\ a <= b /\ Lists(Tail(s), a + 1, b)
<1> DEFINE t == Tail(s)
<1>1. \A m \in Large : m \in Nat BY ONLY QueueAssumption
<1>2. Len(s) \in Nat \ {0} /\ Len(t) = Len(s) - 1 /\ Head(s) = s[1] OBVIOUS
<1>3. \A i \in 1..Len(t) : t[i] = s[i + 1] OBVIOUS
<1> HIDE DEF t
<1>4. \A i \in 1..Len(s) : s[i] \in Large /\ s[i] \in Nat /\ a <= s[i] /\ s[i] <= b
  BY Zenon, <1>1 DEF Lists
<1>5. \A i, j \in 1..Len(s) : i < j => s[i] < s[j] BY Zenon DEF Lists
<1>6. 1 \in 1..Len(s) BY ONLY <1>2
<1>7. a <= b
  <2>1. s[1] \in Nat /\ a <= s[1] /\ s[1] <= b BY Zenon, <1>4, <1>6
  <2>. QED BY ONLY <2>1
<1>8. s[1] = a
  <2>1. PICK i \in 1..Len(s) : s[i] = a BY <1>7, <1>1 DEF Lists
  <2>2. s[1] \in Nat /\ a <= s[1] BY Zenon, <1>4, <1>6
  <2>3. CASE i = 1 BY Zenon, <2>1, <2>3
  <2>4. CASE 1 < i
    <3>1. s[1] < s[i] BY Zenon, <1>5, <1>6, <2>4
    <3>. QED BY ONLY <2>1, <2>2, <3>1
  <2>. QED BY ONLY <2>1, <2>3, <2>4
<1>9. ASSUME NEW i \in 1..Len(t) PROVE t[i] \in Large /\ a + 1 <= t[i] /\ t[i] <= b
  <2>1. i + 1 \in 1..Len(s) /\ 1 < i + 1 /\ t[i] = s[i + 1] BY ONLY <1>2, <1>3
  <2>2. s[1] < s[i + 1] BY Zenon, <1>5, <1>6, <2>1
  <2>3. s[i + 1] \in Large /\ s[i + 1] \in Nat /\ s[i + 1] <= b BY Zenon, <1>4, <2>1
  <2>. QED BY ONLY <1>8, <2>1, <2>2, <2>3
<1>10. ASSUME NEW i \in 1..Len(t), NEW j \in 1..Len(t), i < j PROVE t[i] < t[j]
  <2>1. i + 1 \in 1..Len(s) /\ j + 1 \in 1..Len(s) /\ i + 1 < j + 1 BY ONLY <1>2, <1>10
  <2>2. s[i + 1] < s[j + 1] BY Zenon, <1>5, <2>1
  <2>. QED BY Zenon, <1>3, <2>2
<1>11. ASSUME NEW m \in Large, a + 1 <= m, m <= b PROVE \E i \in 1..Len(t) : t[i] = m
  <2>1. m \in Nat /\ a <= m BY ONLY <1>1, <1>11
  <2>2. PICK i \in 1..Len(s) : s[i] = m BY Zenon, <1>11, <2>1 DEF Lists
  <2>3. i # 1 BY ONLY <1>8, <1>11, <2>1, <2>2
  <2>4. i - 1 \in 1..Len(t) /\ (i - 1) + 1 = i BY ONLY <1>2, <2>3
  <2>5. t[i - 1] = m BY Zenon, <1>3, <2>2, <2>4
  <2>. QED BY Zenon, <2>4, <2>5
<1>12. Lists(t, a + 1, b) BY Zenon, <1>9, <1>10, <1>11 DEF Lists
<1>. QED BY Zenon, <1>2, <1>7, <1>8, <1>12 DEF t

-----------------------------------------------------------------------------
(* The order of the messages *)

\* What is in the chunks stays as it is when neither the chunks nor the counters
\* change, and no reader or writer comes to where it depends on them.
LEMMA DataFrame ==
    ASSUME DataOK, UNCHANGED <<data, sent, taken>>,
           writer'.pc = "reset" => writer.pc = "reset",
           \A r \in Local : reader'[r].pc = "mark" =>
                              reader[r].pc = "mark" /\ reader'[r].got = reader[r].got
    PROVE  DataOK'
<1>1. \A r : Pending(r)' = Pending(r) BY Zenon DEF Pending
<1>2. WriterAt("reset")' => data'[Slot(sent')] = Content(sent' + 1)
  BY Zenon DEF DataOK, WriterAt
<1>3. ASSUME NEW r \in Local
      PROVE  /\ \A k \in Pending(r) : data'[Slot(k)] = Content(k + 1)
             /\ At(r, "mark")' => reader'[r].got = Content(taken'[r] + 1)
  BY Zenon DEF DataOK, At
<1>. QED BY Zenon, <1>1, <1>2, <1>3 DEF DataOK, Slot, Content

\* What a local reader got stays as it is.
LEMMA LocalFrame ==
    ASSUME NEW r \in Local, LocalOK(r),
           UNCHANGED <<sent, taken, received[r], local_socket[r]>>,
           reader'[r].pc = "payload" <=> reader[r].pc = "payload",
           writer'.pc = "payload" <=> writer.pc = "payload"
    PROVE  LocalOK(r)'
<1>1. Shipped' = Shipped BY Zenon DEF Shipped, WriterAt
<1>. QED BY Zenon, <1>1 DEF LocalOK, At, Lists, Counts

\* LocalOK in the next state
LEMMA LocalNext ==
    ASSUME NEW r, NEW n, NEW b, NEW got, NEW sock,
           taken'[r] = n, Shipped' = b, received'[r] = got, local_socket'[r] = sock,
           IF reader'[r].pc = "payload"
           THEN n \in Large /\ Counts(got, n - 1) /\ Lists(sock, n, b)
           ELSE n <= b /\ Counts(got, n) /\ Lists(sock, n + 1, b)
    PROVE  LocalOK(r)'
BY Zenon DEF LocalOK, At, Lists, Counts

\* What a remote reader got stays as it is.
LEMMA RemoteFrame ==
    ASSUME OrderInv, UNCHANGED <<received, remote_socket>>, Broadcast' = Broadcast
    PROVE  \A r \in Remote : Continues(received[r], remote_socket[r], Broadcast)'
BY Zenon DEF OrderInv, Continues, Counts

\* The counters as numbers
LEMMA ShippedTypes ==
    ASSUME TypeOK, RingInv
    PROVE  /\ Shipped \in Nat /\ Shipped <= sent /\ Broadcast \in Nat
           /\ \A m \in Large : m \in Nat /\ m > 0 /\ m <= MaxMsgs
           /\ WriterAt("payload") => sent \in Large /\ Shipped = sent - 1
           /\ ~ WriterAt("payload") => Shipped = sent
<1>1. \A m \in Large : m \in Nat /\ m > 0 /\ m <= MaxMsgs BY ONLY QueueAssumption
<1>2. sent \in Nat BY Zenon, CountTypes
<1>3. WriterAt("payload") => sent \in Large BY Zenon DEF RingInv, WriterOK
<1>4. Local # {} /\ (WriterAt("notify") \/ WriterAt("remote")) => sent > 0
  BY Zenon DEF RingInv, WriterOK
<1>. QED BY ONLY <1>1, <1>2, <1>3, <1>4 DEF Shipped, Broadcast

\* Sequences that the ring and the sockets hold
LEMMA SequenceTypes ==
    ASSUME TypeOK
    PROVE  /\ \A r \in Local : local_socket[r] \in Seq(Msg) /\ received[r] \in Seq(0..MaxMsgs)
           /\ \A r \in Remote :
                remote_socket[r] \in Seq(Msg) /\ received[r] \in Seq(0..MaxMsgs)
BY Zenon DEF TypeOK, Reader

-----------------------------------------------------------------------------
(* The writer *)

\* The writer goes on, and neither a chunk's data nor a message is involved.
LEMMA WriterQuiet ==
    ASSUME Inv, Enqueue \/ EnqueueTimeout \/ AcquireWrite \/ ResetFlag \/ Notify
    PROVE  OrderInv'
<1>1. UNCHANGED <<data, reader, sent, taken, received, lost, local_socket, remote_socket>>
  BY Zenon DEF Enqueue, EnqueueTimeout, AcquireWrite, ResetFlag, Notify, ring, sockets, ghosts
<1>2. /\ writer'.pc = "reset" => writer.pc = "reset"
      /\ writer'.pc # "payload" /\ writer.pc # "payload"
      /\ \/ writer.pc = "idle" /\ writer'.pc = IF Local = {} THEN "remote" ELSE "acquire"
         \/ writer.pc = "acquire" /\ (writer'.pc = "write" \/ writer'.pc = "idle")
         \/ writer.pc = "reset" /\ writer'.pc = "reset"
         \/ writer.pc = "notify" /\ writer'.pc = "remote"
  BY Zenon DEF Enqueue, EnqueueTimeout, AcquireWrite, ResetFlag, Notify, WriterAt, WriterTo, Inv,
         TypeOK
<1>3. Broadcast' = Broadcast BY Zenon, <1>1, <1>2 DEF Broadcast, WriterAt
<1>4. DataOK' BY Zenon, <1>1, <1>2, DataFrame DEF Inv, OrderInv
<1>5. \A r \in Local \ lost' : LocalOK(r)'
  BY Zenon, <1>1, <1>2, LocalFrame DEF Inv, OrderInv
<1>6. \A r \in Remote : Continues(received[r], remote_socket[r], Broadcast)'
  BY Zenon, <1>1, <1>3, RemoteFrame DEF Inv
<1>. QED BY Zenon, <1>4, <1>5, <1>6 DEF OrderInv

\* The writer writes where no reader has anything left to read.
LEMMA WriteOrder ==
    ASSUME Inv, BeginWrite \/ FinishWrite
    PROVE  OrderInv'
<1>1. UNCHANGED <<reader, sent, taken, received, lost, local_socket, remote_socket>>
  BY Zenon DEF BeginWrite, FinishWrite, sockets, ghosts
<1>2. writer.pc = "write" /\ (writer'.pc = "write" \/ writer'.pc = "reset")
  BY Zenon DEF BeginWrite, FinishWrite, WriterAt, Inv, TypeOK
<1>3. Broadcast' = Broadcast BY Zenon, <1>1, <1>2 DEF Broadcast, WriterAt
<1>4. /\ Local # {} /\ writer.idx = Slot(sent) /\ Slot(sent) \in Chunk
      /\ \A r \in Local : \A k \in Pending(r) : Slot(k) \in Chunk /\ Slot(k) # Slot(sent)
  <2>1. Local # {} /\ writer.idx = Slot(sent) /\ WriterAt("write")
    BY Zenon, <1>2 DEF Inv, RingInv, WriterOK, WriterAt
  <2>2. \A r \in Local : \A k \in Pending(r) : Slot(k) # Slot(sent)
    BY Zenon, <2>1, WriterChunk DEF Inv
  <2>3. sent \in Nat BY Zenon, CountTypes DEF Inv
  <2>4. \A r \in Local : \A k \in Pending(r) : k \in Nat BY ONLY ChunkNumber DEF Pending
  <2>. QED BY Zenon, <2>1, <2>2, <2>3, <2>4, SlotFacts
<1>5. DataOK'
  <2>1. \A i \in Chunk : i # Slot(sent) => data'[i] = data[i]
    BY Zenon, <1>4 DEF BeginWrite, FinishWrite, Inv, TypeOK
  <2>2. writer'.pc = "reset" => data'[Slot(sent)] = Content(sent + 1)
    <3>1. CASE BeginWrite BY Zenon, <1>2, <3>1 DEF BeginWrite
    <3>2. CASE FinishWrite
      BY Zenon, <1>4, <3>2 DEF FinishWrite, Content, NewMsg, Inv, TypeOK
    <3>. QED BY Zenon, <3>1, <3>2
  <2>3. \A r \in Local : \A k \in Pending(r) : data'[Slot(k)] = Content(k + 1)
    BY Zenon, <1>4, <2>1 DEF Inv, OrderInv, DataOK
  <2>4. \A r \in Local : At(r, "mark") => reader[r].got = Content(taken[r] + 1)
    BY Zenon DEF Inv, OrderInv, DataOK
  <2>5. \A r : Pending(r)' = Pending(r) BY Zenon, <1>1 DEF Pending
  <2>. QED BY Zenon, <1>1, <2>2, <2>3, <2>4, <2>5 DEF DataOK, WriterAt, At, Slot, Content
<1>6. \A r \in Local \ lost' : LocalOK(r)'
  BY Zenon, <1>1, <1>2, LocalFrame DEF Inv, OrderInv
<1>7. \A r \in Remote : Continues(received[r], remote_socket[r], Broadcast)'
  BY Zenon, <1>1, <1>3, RemoteFrame DEF Inv
<1>. QED BY Zenon, <1>5, <1>6, <1>7 DEF OrderInv

\* The message becomes one that every reader has to take.
LEMMA PublishOrder ==
    ASSUME Inv, PublishChunk
    PROVE  OrderInv'
<1>1. /\ UNCHANGED <<data, reader, taken, received, lost, local_socket, remote_socket>>
      /\ sent' = sent + 1 /\ writer.pc = "reset"
      /\ writer'.pc = IF sent + 1 \in Large THEN "payload" ELSE "notify"
  BY Zenon DEF PublishChunk, sockets, WriterAt, NewMsg
<1>2. /\ sent \in Nat /\ Local # {} /\ sent < MaxMsgs
      /\ \A r \in Local : taken[r] \in Nat /\ taken[r] <= sent
  BY Zenon, <1>1, CountTypes DEF Inv, RingInv, WriterOK, PlaceOK, WriterAt
<1>3. Broadcast' = Broadcast BY ONLY <1>1, <1>2 DEF Broadcast, WriterAt
<1>4. DataOK'
  <2>1. \A r \in Local : Pending(r)' = Pending(r) \union {sent}
    <3>1. \A k \in 0..MaxMsgs : k \in Nat BY ONLY ChunkNumber
    <3>2. sent \in 0..MaxMsgs BY ONLY <1>2, ChunkNumber
    <3>3. \A k \in Nat : k < sent + 1 <=> k < sent \/ k = sent BY ONLY <1>2
    <3>4. ASSUME NEW r \in Local
          PROVE  {k \in 0..MaxMsgs : taken[r] <= k /\ k < sent + 1} =
                 {k \in 0..MaxMsgs : taken[r] <= k /\ k < sent} \union {sent}
      BY Zenon, <1>2, <3>1, <3>2, <3>3
    <3>. QED BY Zenon, <1>1, <3>4 DEF Pending
  <2>2. data[Slot(sent)] = Content(sent + 1) BY Zenon, <1>1 DEF Inv, OrderInv, DataOK, WriterAt
  <2>3. \A r \in Local : \A k \in Pending(r) \union {sent} : data[Slot(k)] = Content(k + 1)
    BY Zenon, <2>2 DEF Inv, OrderInv, DataOK
  <2>4. \A r \in Local : At(r, "mark") => reader[r].got = Content(taken[r] + 1)
    BY Zenon DEF Inv, OrderInv, DataOK
  <2>5. writer'.pc # "reset" BY Zenon, <1>1
  <2>. QED BY Zenon, <1>1, <2>1, <2>3, <2>4, <2>5 DEF DataOK, WriterAt, At, Slot, Content
<1>5. ASSUME NEW r \in Local \ lost' PROVE LocalOK(r)'
  <2>1. LocalOK(r) /\ r \in Local BY Zenon, <1>1 DEF Inv, OrderInv
  <2>2. Shipped = sent BY Zenon, <1>1 DEF Shipped, WriterAt
  <2>3. local_socket[r] \in Seq(Msg) /\ taken[r] \in Nat BY Zenon, <1>2, SequenceTypes DEF Inv
  <2>4. CASE sent + 1 \in Large
    <3>1. Shipped' = Shipped BY ONLY <1>1, <1>2, <2>2, <2>4 DEF Shipped, WriterAt
    <3>. QED BY Zenon, <1>1, <2>1, <3>1 DEF LocalOK, At, Lists, Counts
  <2>5. CASE sent + 1 \notin Large
    <3>1. Shipped' = sent + 1 BY Zenon, <1>1, <2>5 DEF Shipped, WriterAt
    <3>2. \A a \in Nat : Lists(local_socket[r], a, sent) => Lists(local_socket[r], a, sent + 1)
      BY Zenon, <1>2, <2>3, <2>5, ListsSkip
    <3>3. CASE At(r, "payload")
      <4>1. Lists(local_socket[r], taken[r], sent + 1)
        BY Zenon, <2>1, <2>2, <2>3, <3>2, <3>3 DEF LocalOK
      <4>2. taken[r] \in Large /\ Counts(received[r], taken[r] - 1)
        BY Zenon, <2>1, <3>3 DEF LocalOK
      <4>. QED BY Zenon, <1>1, <3>1, <3>3, <4>1, <4>2 DEF LocalOK, At, Lists, Counts
    <3>4. CASE ~ At(r, "payload")
      <4>1. Lists(local_socket[r], taken[r] + 1, sent) BY Zenon, <2>1, <2>2, <3>4 DEF LocalOK
      <4>2. taken[r] + 1 \in Nat BY ONLY <2>3
      <4>3. Lists(local_socket[r], taken[r] + 1, sent + 1) BY ONLY Zenon, <3>2, <4>1, <4>2
      <4>4. taken[r] <= sent + 1 /\ Counts(received[r], taken[r])
        BY ONLY <1>2, <2>1, <2>2, <2>3, <3>4 DEF LocalOK
      <4>. QED BY Zenon, <1>1, <3>1, <3>4, <4>3, <4>4 DEF LocalOK, At, Lists, Counts
    <3>. QED BY Zenon, <3>3, <3>4
  <2>. QED BY Zenon, <2>4, <2>5
<1>6. \A r \in Remote : Continues(received[r], remote_socket[r], Broadcast)'
  BY Zenon, <1>1, <1>3, RemoteFrame DEF Inv
<1>. QED BY Zenon, <1>4, <1>5, <1>6 DEF OrderInv

\* The payload of the message that was published last goes to all local readers.
LEMMA SendPayloadOrder ==
    ASSUME Inv, SendPayload
    PROVE  OrderInv'
<1>1. /\ UNCHANGED <<data, reader, sent, taken, received, lost, remote_socket>>
      /\ writer.pc = "payload" /\ writer'.pc = "notify"
      /\ local_socket' = [r \in Local |-> Append(local_socket[r], sent)]
  BY Zenon DEF SendPayload, ring, ghosts, WriterAt, WriterTo, Inv, TypeOK
<1>2. /\ sent \in Large /\ sent \in Nat /\ sent > 0 /\ Shipped = sent - 1 /\ Shipped' = sent
      /\ Local # {} /\ \A r \in Local : taken[r] \in Nat /\ taken[r] <= sent
  <2>1. sent \in Large /\ Local # {} /\ \A r \in Local : taken[r] <= sent
    BY Zenon, <1>1 DEF Inv, RingInv, WriterOK, PlaceOK, WriterAt
  <2>2. sent \in Nat /\ sent > 0 /\ \A r \in Local : taken[r] \in Nat
    BY Zenon, <2>1, ShippedTypes, CountTypes DEF Inv
  <2>3. Shipped = sent - 1 /\ Shipped' = sent BY Zenon, <1>1 DEF Shipped, WriterAt
  <2>. QED BY Zenon, <2>1, <2>2, <2>3
<1>3. Broadcast' = Broadcast BY Zenon, <1>1, <1>2 DEF Broadcast, WriterAt
<1>4. DataOK' BY Zenon, <1>1, DataFrame DEF Inv, OrderInv
<1>5. ASSUME NEW r \in Local \ lost' PROVE LocalOK(r)'
  <2>1. LocalOK(r) /\ r \in Local BY Zenon, <1>1 DEF Inv, OrderInv
  <2>2. local_socket[r] \in Seq(Msg) BY Zenon, SequenceTypes DEF Inv
  <2> DEFINE sock == Append(local_socket[r], sent)
  <2>3. local_socket'[r] = sock BY Zenon, <1>1
  <2>4. ASSUME NEW a \in Nat, a <= sent, Lists(local_socket[r], a, sent - 1)
        PROVE  Lists(sock, a, sent)
    <3>1. sent - 1 \in Nat /\ (sent - 1) + 1 = sent BY ONLY <1>2
    <3>2. \A b \in Nat : /\ Lists(local_socket[r], a, b)
                         /\ b + 1 \in Large /\ a <= b + 1
                         => Lists(Append(local_socket[r], b + 1), a, b + 1)
      BY Zenon, <2>2, ListsAppend
    <3>3. /\ Lists(local_socket[r], a, sent - 1)
          /\ (sent - 1) + 1 \in Large /\ a <= (sent - 1) + 1
          => Lists(Append(local_socket[r], (sent - 1) + 1), a, (sent - 1) + 1)
      BY ONLY Zenon, <3>1, <3>2
    <3>. QED BY Zenon, <1>2, <2>4, <3>1, <3>3
  <2>5. CASE At(r, "payload")
    <3>1. /\ taken[r] \in Large /\ Counts(received[r], taken[r] - 1)
          /\ Lists(local_socket[r], taken[r], sent - 1)
      BY Zenon, <1>2, <2>1, <2>5 DEF LocalOK
    <3>2. Lists(sock, taken[r], sent) BY Zenon, <1>2, <2>1, <2>4, <3>1
    <3> HIDE DEF sock
    <3>3. taken'[r] = taken[r] /\ Shipped' = sent /\ received'[r] = received[r]
      BY Zenon, <1>1, <1>2
    <3>4. reader'[r].pc = "payload" BY ONLY <1>1, <2>5 DEF At
    <3>. QED BY ONLY Zenon, <2>3, <3>1, <3>2, <3>3, <3>4, LocalNext
  <2>6. CASE ~ At(r, "payload")
    <3>1. /\ taken[r] <= sent - 1 /\ Counts(received[r], taken[r])
          /\ Lists(local_socket[r], taken[r] + 1, sent - 1)
      BY Zenon, <1>2, <2>1, <2>6 DEF LocalOK
    <3>2. taken[r] \in Nat BY Zenon, <1>2, <2>1
    <3>3. taken[r] + 1 \in Nat /\ taken[r] + 1 <= sent BY ONLY <1>2, <3>1, <3>2
    <3>4. Lists(sock, taken[r] + 1, sent) BY Zenon, <2>4, <3>1, <3>3
    <3> HIDE DEF sock
    <3>5. taken'[r] = taken[r] /\ Shipped' = sent /\ received'[r] = received[r]
      BY Zenon, <1>1, <1>2
    <3>6. reader'[r].pc # "payload" /\ taken[r] <= sent BY Zenon, <1>1, <1>2, <2>6 DEF At
    <3>. QED BY ONLY Zenon, <2>3, <3>1, <3>4, <3>5, <3>6, LocalNext
  <2>. QED BY Zenon, <2>5, <2>6
<1>6. \A r \in Remote : Continues(received[r], remote_socket[r], Broadcast)'
  BY Zenon, <1>1, <1>3, RemoteFrame DEF Inv
<1>. QED BY Zenon, <1>4, <1>5, <1>6 DEF OrderInv

\* The message goes to the remote readers; without local ones it is sent only here.
LEMMA SendRemoteOrder ==
    ASSUME Inv, SendRemote
    PROVE  OrderInv'
<1>1. /\ UNCHANGED <<data, reader, taken, received, lost, local_socket>>
      /\ writer.pc = "remote" /\ writer'.pc = "idle"
      /\ sent' = IF Local = {} THEN sent + 1 ELSE sent
      /\ remote_socket' = [r \in Remote |-> Append(remote_socket[r], sent')]
  BY Zenon DEF SendRemote, ring, WriterAt, WriterTo, NewMsg, Inv, TypeOK
<1>2. sent \in Nat /\ sent <= MaxMsgs BY Zenon, CountTypes DEF Inv
<1>3. Broadcast \in Nat /\ Broadcast' = sent' /\ sent' = Broadcast + 1 /\ sent' \in Msg
  <2>1. CASE Local = {}
    <3>1. sent < MaxMsgs BY Zenon, <1>1, <2>1 DEF Inv, RingInv, WriterOK, WriterAt
    <3>2. Broadcast = sent /\ Broadcast' = sent' /\ sent' = sent + 1
      BY Zenon, <1>1, <2>1 DEF Broadcast
    <3>. QED BY ONLY <1>2, <3>1, <3>2, ChunkNumber DEF Msg
  <2>2. CASE Local # {}
    <3>1. sent > 0 BY Zenon, <1>1, <2>2 DEF Inv, RingInv, WriterOK, WriterAt
    <3>. QED BY ONLY <1>1, <1>2, <2>2, <3>1 DEF Broadcast, Msg, WriterAt
  <2>. QED BY Zenon, <2>1, <2>2
<1>4. ASSUME NEW r \in Remote
      PROVE  Continues(received[r], remote_socket[r], Broadcast)'
  <2>1. Continues(received[r], remote_socket[r], Broadcast) BY Zenon DEF Inv, OrderInv
  <2>2. remote_socket[r] \in Seq(Msg) /\ received[r] \in Seq(0..MaxMsgs)
    BY Zenon, SequenceTypes DEF Inv
  <2> DEFINE sock == Append(remote_socket[r], Broadcast + 1)
  <2>3. Continues(received[r], sock, Broadcast + 1)
    BY Zenon, <1>3, <2>1, <2>2, ContinuesAppend
  <2>4. /\ remote_socket'[r] = sock /\ received'[r] = received[r]
        /\ Broadcast' = Broadcast + 1
    BY Zenon, <1>1, <1>3
  <2> HIDE DEF sock
  <2>. QED BY Zenon, <2>3, <2>4 DEF Continues, Counts
<1>5. DataOK' /\ \A r \in Local \ lost' : LocalOK(r)'
  <2>1. CASE Local = {} BY Zenon, <1>1, <2>1 DEF DataOK, WriterAt
  <2>2. CASE Local # {}
    <3>1. sent' = sent BY Zenon, <1>1, <2>2
    <3>2. DataOK' BY Zenon, <1>1, <3>1, DataFrame DEF Inv, OrderInv
    <3>3. \A r \in Local \ lost' : LocalOK(r)'
      BY Zenon, <1>1, <3>1, LocalFrame DEF Inv, OrderInv
    <3>. QED BY Zenon, <3>2, <3>3
  <2>. QED BY Zenon, <2>1, <2>2
<1>. QED BY Zenon, <1>4, <1>5 DEF OrderInv

-----------------------------------------------------------------------------
(* The readers *)

\* A reader looks at flags, waits or wakes up.
LEMMA ReaderQuiet ==
    ASSUME Inv, NEW r \in Local,
           LoadReadFlag(r) \/ LoadWrittenFlag(r) \/ Spin(r) \/ Sleep(r) \/ Wake(r)
             \/ ReadTimeout(r) \/ PollTimeout(r)
    PROVE  OrderInv'
<1>1. /\ UNCHANGED <<data, writer, sent, taken, received, lost, local_socket, remote_socket>>
      /\ reader[r].pc # "payload"
  BY Zenon DEF LoadReadFlag, LoadWrittenFlag, Spin, Sleep, Wake, ReadTimeout, PollTimeout, ring, sockets,
         ghosts, At
<1>2. PICK p \in {"idle", "again", "written flag", "wait", "poll", "copy", "stopped"} :
        To(r, p)
  BY Zenon DEF LoadReadFlag, LoadWrittenFlag, Spin, Sleep, Wake, ReadTimeout, PollTimeout, Again
<1>3. /\ \A q \in Local : q # r => reader'[q] = reader[q]
      /\ reader'[r].pc # "mark" /\ reader'[r].pc # "payload"
  BY Zenon, <1>2, ToFacts DEF Inv
<1>4. Broadcast' = Broadcast BY Zenon, <1>1 DEF Broadcast, WriterAt
<1>5. DataOK' BY Zenon, <1>1, <1>3, DataFrame DEF Inv, OrderInv
<1>6. \A q \in Local \ lost' : LocalOK(q)'
  BY Zenon, <1>1, <1>3, LocalFrame DEF Inv, OrderInv
<1>7. \A q \in Remote : Continues(received[q], remote_socket[q], Broadcast)'
  BY Zenon, <1>1, <1>4, RemoteFrame DEF Inv
<1>. QED BY Zenon, <1>5, <1>6, <1>7 DEF OrderInv

\* A reader finds the message after the last it took.
LEMMA CopyOrder ==
    ASSUME Inv, NEW r \in Local, Copy(r)
    PROVE  OrderInv'
<1>1. /\ UNCHANGED <<data, writer, sent, taken, received, lost, local_socket, remote_socket>>
      /\ reader[r].pc = "copy"
  BY Zenon DEF Copy, ring, sockets, ghosts, At
<1>2. /\ \A q \in Local : q # r => reader'[q] = reader[q]
      /\ reader'[r].pc = "mark" /\ reader'[r].got = data[reader[r].idx]
  BY Zenon, CopyFacts DEF Inv
<1>3. reader'[r].got = Content(taken[r] + 1)
  <2>1. taken[r] < sent /\ reader[r].idx = Slot(taken[r])
    BY Zenon, <1>1 DEF Inv, RingInv, PlaceOK, At
  <2>2. taken[r] \in Nat /\ taken[r] <= MaxMsgs /\ sent \in Nat BY Zenon, CountTypes DEF Inv
  <2>3. taken[r] \in 0..MaxMsgs BY ONLY <2>2, ChunkNumber
  <2>4. taken[r] \in Pending(r) BY ONLY <2>1, <2>2, <2>3 DEF Pending
  <2>. QED BY Zenon, <1>2, <2>1, <2>4 DEF Inv, OrderInv, DataOK
<1>4. DataOK'
  <2>1. \A q : Pending(q)' = Pending(q) BY Zenon, <1>1 DEF Pending
  <2>2. WriterAt("reset") => data[Slot(sent)] = Content(sent + 1)
    BY Zenon DEF Inv, OrderInv, DataOK
  <2>3. \A q \in Local : \A k \in Pending(q) : data[Slot(k)] = Content(k + 1)
    BY Zenon DEF Inv, OrderInv, DataOK
  <2>4. \A q \in Local : reader'[q].pc = "mark" => reader'[q].got = Content(taken[q] + 1)
    BY Zenon, <1>2, <1>3 DEF Inv, OrderInv, DataOK, At
  <2>. QED BY Zenon, <1>1, <2>1, <2>2, <2>3, <2>4 DEF DataOK, WriterAt, At, Slot, Content
<1>5. Broadcast' = Broadcast BY Zenon, <1>1 DEF Broadcast, WriterAt
<1>6. \A q \in Local \ lost' : LocalOK(q)'
  BY Zenon, <1>1, <1>2, LocalFrame DEF Inv, OrderInv
<1>7. \A q \in Remote : Continues(received[q], remote_socket[q], Broadcast)'
  BY Zenon, <1>1, <1>5, RemoteFrame DEF Inv
<1>. QED BY Zenon, <1>4, <1>6, <1>7 DEF OrderInv

\* A reader is done with the chunk: it has the next message, or waits for its payload.
LEMMA MarkOrder ==
    ASSUME Inv, NEW r \in Local, Mark(r)
    PROVE  OrderInv'
<1> DEFINE m == taken[r] + 1
<1>1. /\ UNCHANGED <<data, writer, sent, lost, local_socket, remote_socket>>
      /\ reader[r].pc = "mark"
      /\ received' = IF reader[r].got = Overflow THEN received
                     ELSE [received EXCEPT ![r] = Append(@, reader[r].got)]
  BY Zenon DEF Mark, sockets, At
<1>2. /\ \A q \in Local : q # r => reader'[q] = reader[q] /\ taken'[q] = taken[q]
      /\ reader'[r].pc = IF reader[r].got = Overflow THEN "payload" ELSE "idle"
      /\ taken'[r] = m
  BY Zenon DEF Mark, Inv, TypeOK
<1>3. /\ taken[r] \in Nat /\ taken[r] < sent /\ sent \in Nat /\ sent <= MaxMsgs
      /\ \A q \in Local : taken[q] \in Nat
  BY Zenon, <1>1, CountTypes DEF Inv, RingInv, PlaceOK, At
<1>4. reader[r].got = Content(m) BY Zenon, <1>1 DEF Inv, OrderInv, DataOK, At
<1>5. m \in Nat /\ m <= sent /\ m # Overflow /\ m \in 0..MaxMsgs
  BY ONLY <1>3, ChunkNumber DEF Overflow
<1>6. \/ m \in Large /\ reader[r].got = Overflow
      \/ m \notin Large /\ reader[r].got = m /\ reader[r].got # Overflow
  BY Zenon, <1>4, <1>5 DEF Content
<1>7. DataOK'
  <2>1. \A q \in Local : Pending(q)' \subseteq Pending(q)
    <3>1. ASSUME NEW q \in Local, q # r PROVE Pending(q)' \subseteq Pending(q)
      BY Zenon, <1>1, <1>2, <3>1 DEF Pending
    <3>2. Pending(r)' \subseteq Pending(r)
      <4>1. \A k \in 0..MaxMsgs : taken[r] + 1 <= k => taken[r] <= k BY ONLY <1>3, ChunkNumber
      <4>. QED BY Zenon, <1>1, <1>2, <4>1 DEF Pending
    <3>. QED BY Zenon, <3>1, <3>2
  <2>2. WriterAt("reset") => data[Slot(sent)] = Content(sent + 1)
    BY Zenon DEF Inv, OrderInv, DataOK
  <2>3. \A q \in Local : \A k \in Pending(q)' : data[Slot(k)] = Content(k + 1)
    BY Zenon, <2>1 DEF Inv, OrderInv, DataOK
  <2>4. \A q \in Local : reader'[q].pc = "mark" => reader'[q].got = Content(taken'[q] + 1)
    BY Zenon, <1>2 DEF Inv, OrderInv, DataOK, At
  <2>. QED BY Zenon, <1>1, <2>2, <2>3, <2>4 DEF DataOK, WriterAt, At, Slot, Content
<1>8. r \in Reader /\ received \in [Reader -> Seq(0..MaxMsgs)] BY Zenon DEF Inv, TypeOK, Reader
<1>9. \A q \in Reader : q # r => received'[q] = received[q] BY Zenon, <1>1, <1>8
<1>10. Shipped' = Shipped BY Zenon, <1>1 DEF Shipped, WriterAt
<1>11. ASSUME r \notin lost PROVE LocalOK(r)'
  <2>1. /\ Counts(received[r], taken[r]) /\ Lists(local_socket[r], m, Shipped)
    BY Zenon, <1>1, <1>11 DEF Inv, OrderInv, LocalOK, At
  <2>2. local_socket[r] \in Seq(Msg) /\ received[r] \in Seq(0..MaxMsgs)
    BY Zenon, SequenceTypes DEF Inv
  <2>3. CASE m \in Large /\ reader[r].got = Overflow
    <3>1. received'[r] = received[r] /\ local_socket'[r] = local_socket[r]
      BY Zenon, <1>1, <2>3
    <3>2. m - 1 = taken[r] BY ONLY <1>3
    <3>3. reader'[r].pc = "payload" BY Zenon, <1>2, <2>3
    <3> HIDE DEF m
    <3>. QED BY ONLY Zenon, <1>2, <1>10, <2>1, <2>3, <3>1, <3>2, <3>3, LocalNext
  <2>4. CASE m \notin Large /\ reader[r].got = m /\ reader[r].got # Overflow
    <3>1. received'[r] = Append(received[r], m) /\ local_socket'[r] = local_socket[r]
      BY Zenon, <1>1, <1>8, <2>4
    <3>2. Counts(Append(received[r], m), m)
      BY Zenon, <1>3, <1>5, <2>1, <2>2, CountsAppend
    <3>3. Shipped \in Nat /\ m <= Shipped
      BY <1>3, <1>5, <2>4, ShippedTypes DEF Inv
    <3>4. Lists(local_socket[r], m + 1, Shipped)
      BY Zenon, <1>5, <2>1, <2>2, <2>4, <3>3, ListsSkip
    <3>5. reader'[r].pc # "payload" BY Zenon, <1>2, <2>4
    <3> HIDE DEF m
    <3>. QED BY ONLY Zenon, <1>2, <1>10, <3>1, <3>2, <3>3, <3>4, <3>5, LocalNext
  <2>. QED BY Zenon, <1>6, <2>3, <2>4
<1>12. ASSUME NEW q \in Local, q # r, q \notin lost PROVE LocalOK(q)'
  <2>1. LocalOK(q) BY Zenon, <1>12 DEF Inv, OrderInv
  <2>2. received'[q] = received[q] BY ONLY <1>9, <1>12 DEF Reader
  <2>. QED BY Zenon, <1>1, <1>2, <1>10, <1>12, <2>1, <2>2 DEF LocalOK, At, Lists, Counts
<1>13. ASSUME NEW q \in Remote PROVE Continues(received[q], remote_socket[q], Broadcast)'
  <2>1. Continues(received[q], remote_socket[q], Broadcast) BY Zenon DEF Inv, OrderInv
  <2>2. q # r /\ q \in Reader BY Zenon, QueueAssumption DEF Reader
  <2>3. received'[q] = received[q] BY Zenon, <1>9, <2>2
  <2>4. Broadcast' = Broadcast BY ONLY <1>1 DEF Broadcast, WriterAt
  <2>. QED BY Zenon, <1>1, <2>1, <2>3, <2>4 DEF Continues, Counts
<1>. QED BY Zenon, <1>1, <1>7, <1>11, <1>12, <1>13 DEF OrderInv

\* A reader gives up on a payload: nothing is said of it any more.
LEMMA GiveUpOrder ==
    ASSUME Inv, NEW r \in Local, GiveUpPayload(r)
    PROVE  OrderInv'
<1>1. /\ UNCHANGED <<data, writer, sent, taken, received, local_socket, remote_socket>>
      /\ lost' = lost \union {r} /\ To(r, "idle")
  BY Zenon DEF GiveUpPayload, ring, sockets
<1>2. /\ \A q \in Local : q # r => reader'[q] = reader[q]
      /\ reader'[r].pc = "idle"
  BY Zenon, <1>1, ToFacts DEF Inv
<1>3. Broadcast' = Broadcast BY Zenon, <1>1 DEF Broadcast, WriterAt
<1>4. DataOK' BY Zenon, <1>1, <1>2, DataFrame DEF Inv, OrderInv
<1>5. \A q \in Local \ lost' : LocalOK(q)'
  BY Zenon, <1>1, <1>2, LocalFrame DEF Inv, OrderInv
<1>6. \A q \in Remote : Continues(received[q], remote_socket[q], Broadcast)'
  BY Zenon, <1>1, <1>3, RemoteFrame DEF Inv
<1>. QED BY Zenon, <1>4, <1>5, <1>6 DEF OrderInv

\* The first payload on the socket is the one the reader waits for.
LEMMA RecvPayloadOrder ==
    ASSUME Inv, NEW r \in Local, RecvPayload(r)
    PROVE  OrderInv'
<1>1. /\ UNCHANGED <<data, writer, sent, taken, lost, remote_socket>>
      /\ reader[r].pc = "payload" /\ local_socket[r] # << >> /\ To(r, "idle")
      /\ received' = [received EXCEPT ![r] = Append(@, Head(local_socket[r]))]
      /\ local_socket' = [local_socket EXCEPT ![r] = Tail(@)]
  BY Zenon DEF RecvPayload, ring, At
<1>2. /\ \A q \in Local : q # r => reader'[q] = reader[q]
      /\ reader'[r].pc = "idle"
  BY Zenon, <1>1, ToFacts DEF Inv
<1>3. DataOK' BY Zenon, <1>1, <1>2, DataFrame DEF Inv, OrderInv
<1>4. /\ r \in Reader /\ received \in [Reader -> Seq(0..MaxMsgs)]
      /\ local_socket \in [Local -> Seq(Msg)]
  BY Zenon DEF Inv, TypeOK, Reader
<1>5. /\ \A q \in Reader : q # r => received'[q] = received[q]
      /\ \A q \in Local : q # r => local_socket'[q] = local_socket[q]
      /\ received'[r] = Append(received[r], Head(local_socket[r]))
      /\ local_socket'[r] = Tail(local_socket[r])
  BY Zenon, <1>1, <1>4
<1>6. ASSUME r \notin lost PROVE LocalOK(r)'
  <2> DEFINE n == taken[r]
             k == n - 1
  <2>1. n \in Large /\ Counts(received[r], k) /\ Lists(local_socket[r], n, Shipped)
    BY Zenon, <1>1, <1>6 DEF Inv, OrderInv, LocalOK, At
  <2>2. n \in Nat /\ n > 0 /\ n <= MaxMsgs /\ Shipped \in Nat
    BY Zenon, <2>1, ShippedTypes DEF Inv
  <2>3. k \in Nat /\ k + 1 = n /\ n \in 0..MaxMsgs BY ONLY <2>2, ChunkNumber
  <2>4. received[r] \in Seq(0..MaxMsgs) /\ local_socket[r] \in Seq(Msg) BY Zenon, <1>4
  <2> HIDE DEF k, n
  <2>5. Head(local_socket[r]) = n /\ n <= Shipped /\ Lists(Tail(local_socket[r]), n + 1, Shipped)
    BY ONLY Zenon, <1>1, <2>1, <2>2, <2>4, ListsTail
  <2>6. Counts(Append(received[r], k + 1), k + 1)
    BY ONLY Zenon, <2>1, <2>3, <2>4, CountsAppend
  <2>7. taken'[r] = n /\ Shipped' = Shipped BY ONLY <1>1 DEF n, Shipped, WriterAt
  <2>. QED BY ONLY Zenon, <1>2, <1>5, <2>3, <2>5, <2>6, <2>7, LocalNext
<1>7. ASSUME NEW q \in Local, q # r, q \notin lost PROVE LocalOK(q)'
  <2>1. LocalOK(q) BY Zenon, <1>7 DEF Inv, OrderInv
  <2>2. received'[q] = received[q] /\ local_socket'[q] = local_socket[q]
    BY ONLY <1>5, <1>7 DEF Reader
  <2>. QED BY Zenon, <1>1, <1>2, <1>7, <2>1, <2>2, LocalFrame
<1>8. ASSUME NEW q \in Remote PROVE Continues(received[q], remote_socket[q], Broadcast)'
  <2>1. Continues(received[q], remote_socket[q], Broadcast) BY Zenon DEF Inv, OrderInv
  <2>2. q # r /\ q \in Reader BY Zenon, QueueAssumption DEF Reader
  <2>3. received'[q] = received[q] BY Zenon, <1>5, <2>2
  <2>4. Broadcast' = Broadcast BY ONLY <1>1 DEF Broadcast, WriterAt
  <2>. QED BY Zenon, <1>1, <2>1, <2>3, <2>4 DEF Continues, Counts
<1>. QED BY Zenon, <1>1, <1>3, <1>6, <1>7, <1>8 DEF OrderInv

\* A remote reader gets the next message.
LEMMA RecvRemoteOrder ==
    ASSUME Inv, NEW r \in Remote, RecvRemote(r)
    PROVE  OrderInv' /\ Len(received[r]) < sent /\ Len(received'[r]) = Len(received[r]) + 1
<1>1. /\ UNCHANGED <<data, writer, reader, sent, taken, lost, local_socket>>
      /\ remote_socket[r] # << >>
      /\ received' = [received EXCEPT ![r] = Append(@, Head(remote_socket[r]))]
      /\ remote_socket' = [remote_socket EXCEPT ![r] = Tail(@)]
  BY Zenon DEF RecvRemote, ring
<1>2. DataOK' BY Zenon, <1>1, DataFrame DEF Inv, OrderInv
<1>3. /\ r \in Reader /\ received \in [Reader -> Seq(0..MaxMsgs)]
      /\ remote_socket \in [Remote -> Seq(Msg)]
  BY Zenon DEF Inv, TypeOK, Reader
<1>4. /\ \A q \in Reader : q # r => received'[q] = received[q]
      /\ \A q \in Remote : q # r => remote_socket'[q] = remote_socket[q]
      /\ received'[r] = Append(received[r], Head(remote_socket[r]))
      /\ remote_socket'[r] = Tail(remote_socket[r])
  BY Zenon, <1>1, <1>3
<1>5. Broadcast' = Broadcast BY Zenon, <1>1 DEF Broadcast, WriterAt
<1>6. ASSUME NEW q \in Local \ lost' PROVE LocalOK(q)'
  <2>1. LocalOK(q) BY Zenon, <1>1 DEF Inv, OrderInv
  <2>2. q # r /\ q \in Reader BY Zenon, QueueAssumption DEF Reader
  <2>3. received'[q] = received[q] BY Zenon, <1>4, <2>2
  <2>. QED BY Zenon, <1>1, <2>1, <2>3, LocalFrame
<1>7. Broadcast \in Nat /\ Broadcast <= sent
  BY ShippedTypes, CountTypes DEF Inv, Broadcast
<1>8. /\ Continues(Append(received[r], Head(remote_socket[r])), Tail(remote_socket[r]), Broadcast)
      /\ Len(received[r]) < Broadcast
  <2>1. Continues(received[r], remote_socket[r], Broadcast) BY Zenon DEF Inv, OrderInv
  <2>2. received[r] \in Seq(0..MaxMsgs) /\ remote_socket[r] \in Seq(Msg) BY Zenon, <1>3
  <2>3. Msg \subseteq 0..MaxMsgs BY ONLY ChunkNumber DEF Msg
  <2>. QED BY ONLY Zenon, <1>1, <1>7, <2>1, <2>2, <2>3, ContinuesTail
<1>9. ASSUME NEW q \in Remote PROVE Continues(received[q], remote_socket[q], Broadcast)'
  <2>1. CASE q = r
    <3> DEFINE got == Append(received[r], Head(remote_socket[r]))
               rest == Tail(remote_socket[r])
    <3>1. Continues(got, rest, Broadcast) BY Zenon, <1>8
    <3>2. received'[q] = got /\ remote_socket'[q] = rest BY Zenon, <1>4, <2>1
    <3> HIDE DEF got, rest
    <3>. QED BY Zenon, <1>5, <3>1, <3>2 DEF Continues, Counts
  <2>2. CASE q # r
    <3>1. Continues(received[q], remote_socket[q], Broadcast) BY Zenon DEF Inv, OrderInv
    <3>2. received'[q] = received[q] /\ remote_socket'[q] = remote_socket[q]
      BY ONLY <1>4, <2>2 DEF Reader
    <3>. QED BY Zenon, <1>5, <3>1, <3>2 DEF Continues, Counts
  <2>. QED BY Zenon, <2>1, <2>2
<1>10. Len(received[r]) < sent /\ Len(received'[r]) = Len(received[r]) + 1
  <2>1. /\ received[r] \in Seq(0..MaxMsgs) /\ Len(received[r]) \in Nat /\ sent \in Nat
        /\ Head(remote_socket[r]) \in Msg
    BY <1>1, <1>3, CountTypes DEF Inv
  <2>2. Head(remote_socket[r]) \in 0..MaxMsgs BY ONLY <2>1, ChunkNumber DEF Msg
  <2>. QED BY ONLY <1>4, <1>7, <1>8, <2>1, <2>2
<1>. QED BY Zenon, <1>2, <1>6, <1>9, <1>10 DEF OrderInv

\* A step that changes nothing the order depends on.
LEMMA ElsewhereOrder ==
    ASSUME Inv, UNCHANGED <<data, writer, reader, sent, taken, received, lost, local_socket,
                            remote_socket>>
    PROVE  OrderInv'
<1>1. DataOK' BY Zenon, DataFrame DEF Inv, OrderInv
<1>2. \A q \in Local \ lost' : LocalOK(q)' BY Zenon, LocalFrame DEF Inv, OrderInv
<1>3. Broadcast' = Broadcast BY Zenon DEF Broadcast, WriterAt
<1>4. \A q \in Remote : Continues(received[q], remote_socket[q], Broadcast)'
  BY Zenon, <1>3, RemoteFrame DEF Inv
<1>. QED BY Zenon, <1>1, <1>2, <1>4 DEF OrderInv

\* Every step keeps the order.
LEMMA OrderStep ==
    ASSUME Inv, [Next]_vars
    PROVE  OrderInv'
<1>1. CASE Enqueue \/ EnqueueTimeout \/ AcquireWrite \/ ResetFlag \/ Notify
  BY Zenon, <1>1, WriterQuiet
<1>2. CASE BeginWrite \/ FinishWrite BY Zenon, <1>2, WriteOrder
<1>3. CASE PublishChunk BY Zenon, <1>3, PublishOrder
<1>4. CASE SendPayload BY Zenon, <1>4, SendPayloadOrder
<1>5. CASE SendRemote BY Zenon, <1>5, SendRemoteOrder
<1>6. ASSUME NEW r \in Local,
             Reads(r) \/ ReadTimeout(r) \/ PollTimeout(r) \/ GiveUpPayload(r)
      PROVE  OrderInv'
  BY Zenon, <1>6, ReaderQuiet, CopyOrder, MarkOrder, RecvPayloadOrder, GiveUpOrder DEF Reads
<1>7. ASSUME NEW r \in Local, Shutdown(r) \/ Cancel(r) PROVE OrderInv'
  BY Zenon, <1>7, ElsewhereOrder DEF Shutdown, Cancel, ring, sockets, ghosts
<1>8. ASSUME NEW r \in Remote, RecvRemote(r) PROVE OrderInv' BY Zenon, <1>8, RecvRemoteOrder
<1>9. CASE UNCHANGED vars
  BY Zenon, <1>9, ElsewhereOrder DEF vars, ring, sockets, ghosts
<1>. QED BY Zenon, <1>1, <1>2, <1>3, <1>4, <1>5, <1>6, <1>7, <1>8, <1>9 DEF Next, Writes

-----------------------------------------------------------------------------
(* Theorems *)

\* The queue is empty, and message 1 goes to chunk 0.
LEMMA InitInv == Init => Inv
<1> SUFFICES ASSUME Init PROVE Inv BY Zenon
<1>1. TypeOK /\ RingInv BY Zenon, InitRing
<1>3. \A r \in Local : Pending(r) = {} BY ChunkNumber DEF Init, Pending
<1>6. DataOK BY Zenon, <1>3 DEF Init, DataOK, WriterAt, At
<1>7. ASSUME NEW r \in Local PROVE LocalOK(r)
  <2>1. /\ reader[r].pc # "payload" /\ taken[r] = 0 /\ Shipped = 0
        /\ received[r] = << >> /\ local_socket[r] = << >>
    BY Zenon DEF Init, Reader, Shipped, WriterAt
  <2>2. Counts(<< >>, 0) BY DEF Counts
  <2>3. Lists(<< >>, 1, 0)
    <3>1. \A m \in Large : m \in Nat BY ONLY QueueAssumption
    <3>. QED BY ONLY <3>1 DEF Lists
  <2>4. taken[r] + 1 = 1 /\ taken[r] <= Shipped BY ONLY <2>1
  <2>5. Counts(received[r], taken[r]) BY ONLY <2>1, <2>2, Zenon
  <2>6. Lists(local_socket[r], taken[r] + 1, Shipped) BY ONLY <2>1, <2>3, <2>4, Zenon
  <2>. QED BY ONLY <2>1, <2>4, <2>5, <2>6, Zenon DEF LocalOK, At
<1>8. ASSUME NEW r \in Remote PROVE Continues(received[r], remote_socket[r], Broadcast)
  <2>1. received[r] = << >> /\ remote_socket[r] = << >> /\ Broadcast = 0
    BY Zenon DEF Init, Reader, Broadcast, WriterAt
  <2>. QED BY ONLY <2>1 DEF Continues, Counts
<1>. QED BY Zenon, <1>1, <1>6, <1>7, <1>8 DEF Inv, OrderInv

\* Every step keeps the invariant.
LEMMA InvStep == Inv /\ [Next]_vars => Inv'
BY Zenon, TypeStep, RingStep, OrderStep DEF Inv

\* Every reader that never gave up on a payload gets messages 1, 2, 3 and so on:
\* none is lost, repeated or torn, through the chunks and both sockets.
THEOREM InOrderHolds == Spec => []InOrder
<1>1. Inv => InOrder
  <2> SUFFICES ASSUME Inv, NEW r \in Reader \ lost
               PROVE  received[r] = [i \in 1..Len(received[r]) |-> i]
    BY Zenon DEF InOrder
  <2>1. received[r] \in Seq(0..MaxMsgs) BY Zenon DEF Inv, TypeOK
  <2>2. PICK n : Counts(received[r], n)
    <3>1. CASE r \in Local BY Zenon, <3>1 DEF Inv, OrderInv, LocalOK
    <3>2. CASE r \in Remote BY Zenon, <3>2 DEF Inv, OrderInv, Continues
    <3>. QED BY Zenon, <3>1, <3>2 DEF Reader
  <2>3. Len(received[r]) = n /\ \A i \in 1..n : received[r][i] = i BY Zenon, <2>2 DEF Counts
  <2>4. received[r] = [i \in 1..Len(received[r]) |-> received[r][i]] BY <2>1, SMTT(60)
  <2>. QED BY ONLY <2>3, <2>4
<1>. QED BY InitInv, InvStep, <1>1, PTL DEF Spec

-----------------------------------------------------------------------------
(* Refinement *)

\* What the abstract queue sees of the readers.
Taken == [r \in Reader |-> IF r \in Local THEN taken[r] ELSE Len(received[r])]

\* Nothing the abstract queue sees has changed.
LEMMA TakenFrame ==
    ASSUME UNCHANGED taken,
           \A r \in Remote : received'[r] = received[r]
    PROVE  Taken' = Taken
BY Zenon DEF Taken, Reader

\* A step of the ring or of a socket is an enqueue, a dequeue or invisible.
LEMMA BroadcastStep ==
    ASSUME Inv, [Next]_vars
    PROVE  [Abstract!Next]_<<sent, Taken>>
<1>1. CASE Enqueue \/ EnqueueTimeout \/ AcquireWrite \/ BeginWrite \/ FinishWrite
             \/ ResetFlag \/ SendPayload \/ Notify
  BY Zenon, <1>1, TakenFrame DEF Enqueue, EnqueueTimeout, AcquireWrite, BeginWrite, FinishWrite, ResetFlag,
                          SendPayload, Notify, ghosts
<1>2. CASE PublishChunk
  <2>1. UNCHANGED <<taken, received>> /\ sent' = sent + 1 /\ writer.pc = "reset"
    BY Zenon, <1>2 DEF PublishChunk, NewMsg, WriterAt
  <2>2. Taken' = Taken BY Zenon, <2>1, TakenFrame
  <2>3. sent < MaxMsgs BY Zenon, <2>1 DEF Inv, RingInv, WriterOK, WriterAt
  <2>4. ASSUME NEW r \in Local PROVE sent - Taken[r] < MaxChunks
    <3>1. sent < taken[r] + MaxChunks BY Zenon, <2>1, WriterChunk DEF Inv, WriterAt
    <3>2. sent \in Nat /\ taken[r] \in Nat BY Zenon, CountTypes DEF Inv
    <3>3. Taken[r] = taken[r] BY Zenon DEF Taken, Reader
    <3>. QED BY ONLY <3>1, <3>2, <3>3, ChunkNumber
  <2>. QED BY Zenon, <2>1, <2>2, <2>3, <2>4 DEF Taken, Abstract!Next, Abstract!Enqueue
<1>3. CASE SendRemote
  <2>1. /\ UNCHANGED <<taken, received>> /\ writer.pc = "remote"
        /\ sent' = IF Local = {} THEN sent + 1 ELSE sent
    BY Zenon, <1>3 DEF SendRemote, NewMsg, WriterAt
  <2>2. Taken' = Taken BY Zenon, <2>1, TakenFrame
  <2>3. CASE Local = {}
    <3>1. sent < MaxMsgs BY Zenon, <2>1, <2>3 DEF Inv, RingInv, WriterOK, WriterAt
    <3>. QED BY Zenon, <2>1, <2>2, <2>3, <3>1 DEF Taken, Abstract!Next, Abstract!Enqueue
  <2>. QED BY Zenon, <2>1, <2>2, <2>3
<1>4. ASSUME NEW r \in Local,
             \/ LoadReadFlag(r) \/ LoadWrittenFlag(r) \/ Spin(r) \/ Sleep(r) \/ Wake(r)
             \/ Copy(r) \/ ReadTimeout(r) \/ PollTimeout(r) \/ GiveUpPayload(r) \/ Shutdown(r) \/ Cancel(r)
      PROVE  [Abstract!Next]_<<sent, Taken>>
  BY Zenon, <1>4, TakenFrame DEF LoadReadFlag, LoadWrittenFlag, Spin, Sleep, Wake, Copy, ReadTimeout,
                          PollTimeout,
                          GiveUpPayload, Shutdown, Cancel, ghosts
<1>5. ASSUME NEW r \in Local, Mark(r) PROVE [Abstract!Next]_<<sent, Taken>>
  <2>1. /\ sent' = sent /\ taken' = [taken EXCEPT ![r] = @ + 1]
        /\ \A q \in Remote : received'[q] = received[q]
    <3>1. \A q \in Remote : q # r BY ONLY QueueAssumption
    <3>. QED BY Zenon, <1>5, <3>1 DEF Mark, Inv, TypeOK, Reader
  <2>2. taken[r] < sent /\ r \in Reader BY Zenon, <1>5 DEF Mark, Inv, RingInv, PlaceOK, Reader
  <2>3. Taken' = [Taken EXCEPT ![r] = @ + 1]
    <3>1. DOMAIN taken = Local BY Zenon DEF Inv, TypeOK
    <3>2. \A q \in Reader : Taken'[q] = IF q = r THEN Taken[q] + 1 ELSE Taken[q]
      BY Zenon, <2>1, <3>1 DEF Taken, Reader
    <3>3. Taken' = [q \in Reader |-> Taken'[q]] /\ DOMAIN Taken = Reader BY Zenon DEF Taken
    <3>. QED BY Zenon, <3>2, <3>3
  <2>4. Taken[r] < sent BY ONLY <2>2 DEF Taken
  <2>. QED BY Zenon, <2>1, <2>2, <2>3, <2>4 DEF Taken, Abstract!Next, Abstract!Dequeue
<1>6. ASSUME NEW r \in Local, RecvPayload(r) PROVE [Abstract!Next]_<<sent, Taken>>
  <2>1. UNCHANGED <<sent, taken>> BY Zenon, <1>6 DEF RecvPayload
  <2>2. \A q \in Remote : received'[q] = received[q]
    <3>1. \A q \in Remote : q # r BY ONLY QueueAssumption
    <3>. QED BY Zenon, <1>6, <3>1 DEF RecvPayload, Inv, TypeOK, Reader
  <2>. QED BY Zenon, <2>1, <2>2, TakenFrame
<1>7. ASSUME NEW r \in Remote, RecvRemote(r) PROVE [Abstract!Next]_<<sent, Taken>>
  <2>1. /\ UNCHANGED <<sent, taken>>
        /\ received' = [received EXCEPT ![r] = Append(@, Head(remote_socket[r]))]
    BY Zenon, <1>7 DEF RecvRemote
  <2>2. Len(received[r]) < sent /\ Len(received'[r]) = Len(received[r]) + 1
    BY Zenon, <1>7, RecvRemoteOrder
  <2>3. r \in Reader /\ r \notin Local /\ DOMAIN received = Reader
    BY Zenon, QueueAssumption DEF Inv, TypeOK, Reader
  <2>4. Taken' = [Taken EXCEPT ![r] = @ + 1]
    <3>1. \A q \in Reader : q # r => received'[q] = received[q] BY Zenon, <2>1, <2>3
    <3>2. \A q \in Reader : Taken'[q] = IF q = r THEN Taken[q] + 1 ELSE Taken[q]
      BY Zenon, <2>1, <2>2, <2>3, <3>1 DEF Taken
    <3>3. Taken' = [q \in Reader |-> Taken'[q]] /\ DOMAIN Taken = Reader BY Zenon DEF Taken
    <3>. QED BY Zenon, <3>2, <3>3
  <2>5. Taken[r] < sent BY ONLY <2>2, <2>3 DEF Taken
  <2>. QED BY Zenon, <2>1, <2>3, <2>4, <2>5 DEF Taken, Abstract!Next, Abstract!Dequeue
<1>8. CASE UNCHANGED vars BY Zenon, <1>8, TakenFrame DEF vars, ghosts
<1>. QED BY Zenon, <1>1, <1>2, <1>3, <1>4, <1>5, <1>6, <1>7, <1>8 DEF Next, Writes, Reads

\* The ring, the sockets and the flags implement the broadcast queue: one dequeue
\* per reader and message, and a writer at most MaxChunks messages ahead of any
\* local reader, for any number of chunks and readers.
THEOREM Refinement == Spec => ImplementsBroadcast
<1>1. Init => Abstract!Init
  BY DEF Init, Abstract!Init, Reader
<1>2. Inv /\ [Next]_vars => [Abstract!Next]_<<sent, Taken>> BY ONLY BroadcastStep
<1>. QED BY InitInv, InvStep, <1>1, <1>2, PTL DEF Spec, ImplementsBroadcast, Abstract!Spec, Taken

=============================================================================
