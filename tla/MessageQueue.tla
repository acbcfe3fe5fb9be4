---------------------------- MODULE MessageQueue ----------------------------
(***************************************************************************)
(* MessageQueue, ShmRingBuffer and SpinCondition of                        *)
(* vllm/distributed/device_communicators/shm_broadcast.py: one writer      *)
(* broadcasts to readers on its node through a ring of chunks in shared    *)
(* memory, and to readers elsewhere through a socket.  A chunk has a flag  *)
(* "written" and one flag "read" per reader, and no lock.  Messages that   *)
(* do not fit a chunk follow on a socket.  Readers spin for a while and    *)
(* then sleep until the writer pings them.                                 *)
(*                                                                         *)
(* Messages are numbered in the order in which they are enqueued.  Every   *)
(* access to a flag is a step of its own; the memory fences make the steps *)
(* take effect in program order.                                           *)
(***************************************************************************)
EXTENDS Naturals, FiniteSets, Sequences

CONSTANTS
    Local,          \* readers that use the ring
    Remote,         \* readers on other nodes
    MaxChunks,      \* max_chunks
    MaxMsgs,        \* bound: messages
    Large,          \* the messages that do not fit a chunk
    Timed,          \* readers that dequeue with a timeout
    Stoppable       \* readers that another thread may shut down

ASSUME QueueAssumption ==
    /\ Local \cap Remote = {} /\ IsFiniteSet(Local)
    /\ MaxChunks \in Nat \ {0} /\ MaxMsgs \in Nat
    /\ Large \subseteq 1..MaxMsgs
    /\ Timed \subseteq Local \union Remote /\ Stoppable \subseteq Local

VARIABLES
    written,        \* the chunks' written flags
    read,           \* the chunks' read flags
    data,           \* what the chunks hold
    writer,         \* position, index and reader flags still to reset
    reader,         \* position, index, what was loaded
    local_socket,   \* payloads of large messages under way
    remote_socket,  \* messages under way to remote readers
    ping,           \* a notification waits for the reader
    cancelled,      \* a cancellation waits for the reader
    shutting_down,
    sent,           \* ghost: messages 1 to sent were enqueued
    taken,          \* ghost: messages whose chunk each reader is done with
    received,       \* ghost: what each reader got, in order
    lost            \* ghost: readers that gave up on a payload

ring == <<written, read, data>>
sockets == <<local_socket, remote_socket>>
ghosts == <<sent, taken, received, lost>>
wakeups == <<ping, cancelled, shutting_down>>
vars == <<ring, writer, reader, sockets, wakeups, ghosts>>

Reader == Local \union Remote
Chunk == 0..(MaxChunks - 1)
Msg == 1..MaxMsgs

\* Contents of a chunk that are no message: a write is under way or has never
\* happened, or the payload is on the socket.
Torn == 0
Overflow == MaxMsgs + 1

Init ==
    /\ written = [i \in Chunk |-> FALSE]
    /\ read = [i \in Chunk |-> [r \in Local |-> FALSE]]
    /\ data = [i \in Chunk |-> Torn]
    /\ writer = [pc |-> "idle", idx |-> 0, reset |-> {}]
    /\ reader = [r \in Local |-> [pc |-> "idle", idx |-> 0, got |-> Torn]]
    /\ local_socket = [r \in Local |-> << >>]
    /\ remote_socket = [r \in Remote |-> << >>]
    /\ ping = [r \in Local |-> FALSE]
    /\ cancelled = [r \in Local |-> FALSE]
    /\ shutting_down = [r \in Local |-> FALSE]
    /\ sent = 0
    /\ taken = [r \in Local |-> 0]
    /\ received = [r \in Reader |-> << >>]
    /\ lost = {}

Advance(i) == (i + 1) % MaxChunks

-----------------------------------------------------------------------------
(* The writer: enqueue and acquire_write *)

WriterAt(pc) == writer.pc = pc
WriterTo(pc) == writer' = [writer EXCEPT !.pc = pc]
NewMsg == sent + 1

Enqueue ==
    /\ WriterAt("idle") /\ sent < MaxMsgs
    /\ WriterTo(IF Local = {} THEN "remote" ELSE "acquire")
    /\ UNCHANGED <<ring, reader, sockets, wakeups, ghosts>>

\* Mutant of CanWrite: one reader is enough.
CanWriteEarly(i) == ~ written[i] \/ \E r \in Local : read[i][r]

\* The chunk is not written, or read by all readers.
CanWrite(i) == ~ written[i] \/ \A r \in Local : read[i][r]

\* The flags are loaded and written is cleared in one step: until then only readers
\* change the flags of the chunk, and they only set their own.
AcquireWrite ==
    /\ WriterAt("acquire") /\ CanWrite(writer.idx)
    /\ written' = [written EXCEPT ![writer.idx] = FALSE]
    /\ WriterTo("write")
    /\ UNCHANGED <<read, data, reader, sockets, wakeups, ghosts>>

\* The deadline of enqueue passes on a full ring: the message is not sent.
EnqueueTimeout ==
    /\ WriterAt("acquire") /\ ~ CanWrite(writer.idx)
    /\ WriterTo("idle")
    /\ UNCHANGED <<ring, reader, sockets, wakeups, ghosts>>

\* The caller writes into the buffer.
BeginWrite ==
    /\ WriterAt("write") /\ data[writer.idx] # Torn
    /\ data' = [data EXCEPT ![writer.idx] = Torn]
    /\ UNCHANGED <<written, read, writer, reader, sockets, wakeups, ghosts>>

FinishWrite ==
    /\ WriterAt("write") /\ data[writer.idx] = Torn
    /\ data' = [data EXCEPT ![writer.idx] =
                  IF NewMsg \in Large THEN Overflow ELSE NewMsg]
    /\ writer' = [writer EXCEPT !.pc = "reset", !.reset = Local]
    /\ UNCHANGED <<written, read, reader, sockets, wakeups, ghosts>>

\* "first set the read flags to 0, then set the written flag to 1"
ResetFlag ==
    /\ WriterAt("reset") /\ writer.reset # {}
    /\ LET r == CHOOSE x \in writer.reset : TRUE
       IN  /\ read' = [read EXCEPT ![writer.idx][r] = FALSE]
           /\ writer' = [writer EXCEPT !.reset = @ \ {r}]
    /\ UNCHANGED <<written, data, reader, sockets, wakeups, ghosts>>

\* The flag is set and the writer moves on; a large payload is yet to be sent.
PublishChunk ==
    /\ WriterAt("reset") /\ writer.reset = {}
    /\ written' = [written EXCEPT ![writer.idx] = TRUE]
    /\ writer' = [pc |-> IF NewMsg \in Large THEN "payload" ELSE "notify",
                  idx |-> Advance(writer.idx), reset |-> {}]
    /\ sent' = NewMsg
    /\ UNCHANGED <<read, data, reader, sockets, wakeups, taken, received, lost>>

SendPayload ==
    /\ WriterAt("payload")
    /\ local_socket' = [r \in Local |-> Append(local_socket[r], sent)]
    /\ WriterTo("notify")
    /\ UNCHANGED <<ring, reader, remote_socket, wakeups, ghosts>>

\* Mutant of Notify: only readers that sleep already are notified.
NotifySleeping ==
    /\ WriterAt("notify")
    /\ ping' = [r \in Local |-> ping[r] \/ reader[r].pc = "poll"]
    /\ WriterTo("remote")
    /\ UNCHANGED <<ring, reader, sockets, cancelled, shutting_down, ghosts>>

\* SpinCondition.notify; one ping is kept at most.
Notify ==
    /\ WriterAt("notify")
    /\ ping' = [r \in Local |-> TRUE]
    /\ WriterTo("remote")
    /\ UNCHANGED <<ring, reader, sockets, cancelled, shutting_down, ghosts>>

SendRemote ==
    /\ WriterAt("remote")
    /\ sent' = IF Local = {} THEN NewMsg ELSE sent
    /\ remote_socket' = [r \in Remote |-> Append(remote_socket[r], sent')]
    /\ WriterTo("idle")
    /\ UNCHANGED <<ring, reader, local_socket, wakeups, taken, received, lost>>

-----------------------------------------------------------------------------
(* The readers: dequeue, acquire_read and SpinCondition.wait *)

At(r, pc) == reader[r].pc = pc
To(r, pc) == reader' = [reader EXCEPT ![r].pc = pc]

\* A dequeue begins, or a wait is over: the flags are looked at.
LoadReadFlag(r) ==
    /\ At(r, "idle") \/ At(r, "again")
    /\ To(r, IF read[reader[r].idx][r] THEN "wait" ELSE "written flag")
    /\ UNCHANGED <<ring, writer, sockets, wakeups, ghosts>>

LoadWrittenFlag(r) ==
    /\ At(r, "written flag")
    /\ To(r, IF written[reader[r].idx] THEN "copy" ELSE "wait")
    /\ UNCHANGED <<ring, writer, sockets, wakeups, ghosts>>

\* After a wait: cancelled, or the flags are looked at again.
Again(r) == To(r, IF shutting_down[r] THEN "stopped" ELSE "again")

\* The last read is not long ago: no sleep.
Spin(r) ==
    /\ At(r, "wait") /\ Again(r)
    /\ UNCHANGED <<ring, writer, sockets, wakeups, ghosts>>

Sleep(r) ==
    /\ At(r, "wait") /\ To(r, "poll")
    /\ UNCHANGED <<ring, writer, sockets, wakeups, ghosts>>

\* Mutant of Wake: only a ping wakes the reader.
WakeByPing(r) ==
    /\ At(r, "poll") /\ ping[r]
    /\ ping' = [ping EXCEPT ![r] = FALSE]
    /\ Again(r)
    /\ UNCHANGED <<ring, writer, sockets, cancelled, shutting_down, ghosts>>

\* A cancellation is looked for first and stays where it is.
Wake(r) ==
    /\ At(r, "poll") /\ (ping[r] \/ cancelled[r])
    /\ ping' = IF cancelled[r] THEN ping ELSE [ping EXCEPT ![r] = FALSE]
    /\ Again(r)
    /\ UNCHANGED <<ring, writer, sockets, cancelled, shutting_down, ghosts>>

\* The deadline of dequeue has passed before a wait.
ReadTimeout(r) ==
    /\ r \in Timed /\ At(r, "wait") /\ To(r, "idle")
    /\ UNCHANGED <<ring, writer, sockets, wakeups, ghosts>>

\* The poll returns without an event: time to log a warning, or the deadline.
PollTimeout(r) ==
    /\ r \in Timed /\ At(r, "poll") /\ ~ ping[r] /\ ~ cancelled[r]
    /\ Again(r)
    /\ UNCHANGED <<ring, writer, sockets, wakeups, ghosts>>

Copy(r) ==
    /\ At(r, "copy")
    /\ reader' = [reader EXCEPT ![r].pc = "mark", ![r].got = data[reader[r].idx]]
    /\ UNCHANGED <<ring, writer, sockets, wakeups, ghosts>>

\* The caller is done with the chunk.
Mark(r) ==
    /\ At(r, "mark")
    /\ read' = [read EXCEPT ![reader[r].idx][r] = TRUE]
    /\ LET overflow == reader[r].got = Overflow
       IN  /\ reader' = [reader EXCEPT ![r] =
                  [pc |-> IF overflow THEN "payload" ELSE "idle",
                   idx |-> Advance(reader[r].idx), got |-> Torn]]
           /\ received' = IF overflow THEN received
                          ELSE [received EXCEPT ![r] = Append(@, reader[r].got)]
    /\ taken' = [taken EXCEPT ![r] = @ + 1]
    /\ UNCHANGED <<written, data, writer, sockets, wakeups, sent, lost>>

\* MessageQueue.recv on the local socket times out: the payload is left to the
\* next large message.
GiveUpPayload(r) ==
    /\ r \in Timed /\ At(r, "payload")
    /\ lost' = lost \union {r}
    /\ To(r, "idle")
    /\ UNCHANGED <<ring, writer, sockets, wakeups, sent, taken, received>>

\* Mutant of RecvPayload: the payload stays on the socket.
PeekPayload(r) ==
    /\ At(r, "payload") /\ local_socket[r] # << >>
    /\ received' = [received EXCEPT ![r] = Append(@, Head(local_socket[r]))]
    /\ To(r, "idle")
    /\ UNCHANGED <<ring, writer, sockets, wakeups, sent, taken, lost>>

RecvPayload(r) ==
    /\ At(r, "payload") /\ local_socket[r] # << >>
    /\ received' = [received EXCEPT ![r] = Append(@, Head(local_socket[r]))]
    /\ local_socket' = [local_socket EXCEPT ![r] = Tail(@)]
    /\ To(r, "idle")
    /\ UNCHANGED <<ring, writer, remote_socket, wakeups, sent, taken, lost>>

\* MessageQueue.recv of a remote reader; a timeout there changes nothing.
RecvRemote(r) ==
    /\ remote_socket[r] # << >>
    /\ received' = [received EXCEPT ![r] = Append(@, Head(remote_socket[r]))]
    /\ remote_socket' = [remote_socket EXCEPT ![r] = Tail(@)]
    /\ UNCHANGED <<ring, writer, reader, local_socket, wakeups, sent, taken, lost>>

\* shutdown, called by another thread of the reader's process.
Shutdown(r) ==
    /\ r \in Stoppable /\ ~ shutting_down[r]
    /\ shutting_down' = [shutting_down EXCEPT ![r] = TRUE]
    /\ UNCHANGED <<ring, writer, reader, sockets, ping, cancelled, ghosts>>

Cancel(r) ==
    /\ shutting_down[r] /\ ~ cancelled[r]
    /\ cancelled' = [cancelled EXCEPT ![r] = TRUE]
    /\ UNCHANGED <<ring, writer, reader, sockets, ping, shutting_down, ghosts>>

-----------------------------------------------------------------------------

Writes ==
    \/ AcquireWrite \/ BeginWrite \/ FinishWrite \/ ResetFlag \/ PublishChunk
    \/ SendPayload \/ Notify \/ SendRemote
Reads(r) ==
    \/ LoadReadFlag(r) \/ LoadWrittenFlag(r) \/ Spin(r) \/ Sleep(r) \/ Wake(r)
    \/ Copy(r) \/ Mark(r) \/ RecvPayload(r)

Next ==
    \/ Enqueue \/ EnqueueTimeout \/ Writes
    \/ \E r \in Local : \/ Reads(r) \/ ReadTimeout(r) \/ PollTimeout(r)
                        \/ GiveUpPayload(r) \/ Shutdown(r) \/ Cancel(r)
    \/ \E r \in Remote : RecvRemote(r)

Spec == Init /\ [][Next]_vars

\* The writer finishes what it has begun; readers keep dequeuing, as the busy
\* loop of a worker does, and a shutdown gets to its second line.
Fairness ==
    /\ WF_vars(Writes)
    /\ \A r \in Local : WF_vars(Reads(r)) /\ WF_vars(Cancel(r))
    /\ \A r \in Remote : WF_vars(RecvRemote(r))

LiveSpec == Spec /\ Fairness

-----------------------------------------------------------------------------
(* Properties *)

\* Every variable has its type, and no socket holds more than was sent.
TypeOK ==
    /\ written \in [Chunk -> BOOLEAN]
    /\ read \in [Chunk -> [Local -> BOOLEAN]]
    /\ data \in [Chunk -> 0..(MaxMsgs + 1)]
    /\ writer \in [pc : {"idle", "acquire", "write", "reset", "payload", "notify",
                         "remote"},
                   idx : Chunk, reset : SUBSET Local]
    /\ reader \in [Local -> [pc : {"idle", "again", "written flag", "wait",
                                   "poll", "copy", "mark", "payload", "stopped"},
                             idx : Chunk, got : 0..(MaxMsgs + 1)]]
    /\ local_socket \in [Local -> Seq(Msg)]
    /\ remote_socket \in [Remote -> Seq(Msg)]
    /\ {ping, cancelled, shutting_down} \subseteq [Local -> BOOLEAN]
    /\ sent \in 0..MaxMsgs
    /\ taken \in [Local -> 0..MaxMsgs]
    /\ received \in [Reader -> Seq(0..MaxMsgs)]
    /\ lost \subseteq Timed

\* "we don't need to synchronize the access to the buffer": the writer never
\* writes into a chunk that a reader has been told it can read.
NoOverlap ==
    \A r \in Local :
        At(r, "copy") \/ At(r, "mark") =>
        ~ (WriterAt("write") /\ reader[r].idx = writer.idx)

\* Every reader gets the messages as they were sent: none is lost, none comes
\* twice, none is torn, and large and small ones stay in order.
InOrder ==
    \A r \in Reader \ lost :
        received[r] = [i \in 1..Len(received[r]) |-> i]

\* The ring and the sockets implement a broadcast queue.
Abstract == INSTANCE BroadcastQueue WITH
    Capacity <- MaxChunks,
    taken <- [r \in Reader |-> IF r \in Local THEN taken[r] ELSE Len(received[r])]
ImplementsBroadcast == Abstract!Spec

Behind == \E r \in Reader \ lost : Len(received[r]) < sent

\* An enqueued message reaches every reader, and the writer is not stuck on a
\* full ring, as long as no reader stops: no notification is lost between a
\* look at the flags and the sleep that follows it.
MessagesArrive ==
    Behind ~> ~ Behind \/ \E q \in Local : shutting_down[q]

\* "If this is an idle reader, wakes it up so it can clean up and shut down".
ShutdownStops ==
    \A r \in Stoppable : shutting_down[r] ~> At(r, "stopped") \/ r \in lost

=============================================================================
