------------------------------ MODULE MeshLink ------------------------------
(***************************************************************************)
(* One direction of one mesh connection: MeshConnection::addMessage and    *)
(* writeNext over a SentBuffer at the sender, the TCP stream, and          *)
(* meshRecvCb, ReceiveBuffer and readBufferTask at the receiver.           *)
(*                                                                         *)
(* A message is a string of Size[m] characters; on the wire a NUL follows  *)
(* it.  Which characters they are does not matter, so a byte is the        *)
(* message it comes from and its position, the NUL being the one at        *)
(* Size[m] + 1.  A string still in the SentBuffer is a message and the     *)
(* number of characters String::remove has already taken from it.          *)
(*                                                                         *)
(* writeNext calls itself until the buffer is empty, the socket is full or *)
(* tcp_write fails.  It is a sequence of steps here, ReadFront, Write and  *)
(* FreeRead, with a program counter for each thread of execution, because  *)
(* where TCP callbacks run in a thread of their own (the ESP32's TCP       *)
(* service task, painlessTCP.cpp:94-105) these are the points at which the *)
(* other thread can come between.  Where they run between two passes of    *)
(* the main loop (ESP8266) CallbackTask is "loop" and nothing comes        *)
(* between.                                                                *)
(***************************************************************************)
EXTENDS Integers, Sequences

CONSTANTS
  AppMsgs,        \* messages queued without priority (SINGLE, BROADCAST)
  CtlMsgs,        \* messages queued with priority (NODE_SYNC, TIME_SYNC)
  Tick,           \* the NODE_SYNC_REQUEST that nodeSyncTask sends for ever
  Size,           \* length of a message in characters
  MSS,            \* TCP_MSS, the length of the shared buffer
  SndBuf,         \* bytes the socket takes before they are acknowledged
  MaxQueue,       \* MAX_MESSAGE_QUEUE
  MaxFail,        \* bound: how many writes fail in a behaviour
  CallbackTask,   \* thread that runs the TCP callbacks, "loop" or "tcp"
  TracksClean,    \* FALSE: the v0.6.3 SentBuffer, which has no clean flag
  OutputMayFail   \* whether tcp_output may fail after tcp_write succeeded

Msgs == AppMsgs \cup CtlMsgs \cup {Tick}
Priority == CtlMsgs \cup {Tick}

ASSUME SizeAssumption == Size \in [Msgs -> Nat \ {0}]
ASSUME BufferAssumption == MSS \in Nat \ {0, 1} /\ SndBuf \in Nat \ {0}
ASSUME BoundAssumption == MaxQueue \in Nat \ {0} /\ MaxFail \in Nat
ASSUME TaskAssumption ==
  CallbackTask \in {"loop", "tcp"} /\ TracksClean \in BOOLEAN /\ OutputMayFail \in BOOLEAN
ASSUME MsgsAssumption ==
  AppMsgs \cap CtlMsgs = {} /\ Tick \notin AppMsgs \cup CtlMsgs

Task == {"loop", CallbackTask}

Byte == [msg : Msgs, pos : Nat]
IsNul(b) == b.pos = Size[b.msg] + 1

\* What is left of a queued string, its NUL included, and all of a message
\* without its NUL.
Rest(e) == [i \in 1..(Size[e.msg] - e.off + 1) |-> [msg |-> e.msg, pos |-> e.off + i]]
Body(m) == [i \in 1..Size[m] |-> [msg |-> m, pos |-> i]]

\* A byte of no message: what a buffer holds that somebody else has used.
Junk == [msg |-> Tick, pos |-> 0]

Least(a, b) == IF a <= b THEN a ELSE b

VARIABLES
  sentq,          \* SentBuffer::jsonStrings of the sender
  clean,          \* SentBuffer::clean
  last_read_size, \* SentBuffer::last_read_size
  shared_buffer,  \* the static temp_buffer_t of the sending node
  pc,             \* where each thread is in writeNext
  len,            \* the local len of writeNext, for each thread
  fails,          \* writes that have failed so far
  wire,           \* bytes the socket took that the receiver has not seen
  ackable,        \* bytes the receiver has seen whose ack is on its way
  buffer,         \* ReceiveBuffer::buffer: the string so far
  recvq,          \* ReceiveBuffer::jsonStrings
  sconn,          \* MeshConnection::connected at the sender
  rconn,          \* and at the receiver
  accepted,       \* history: messages addMessage answered true for
  handled         \* history: strings given to handleMessage

sendVars == <<sentq, clean, last_read_size, shared_buffer, pc, len, fails>>
recvVars == <<buffer, recvq, handled>>
connVars == <<sconn, rconn>>
vars == <<sendVars, wire, ackable, recvVars, connVars, accepted>>

Elements(s) == {s[i] : i \in DOMAIN s}

Init ==
  /\ sentq = <<>> /\ clean = TRUE /\ last_read_size = 0
  /\ shared_buffer = [i \in 1..MSS |-> Junk]
  /\ pc = [t \in Task |-> "idle"] /\ len = [t \in Task |-> 0] /\ fails = 0
  /\ wire = <<>> /\ ackable = 0
  /\ buffer = <<>> /\ recvq = <<>>
  /\ sconn = TRUE /\ rconn = TRUE
  /\ accepted = <<>> /\ handled = <<>>

-----------------------------------------------------------------------------
(* The sender.                                                             *)

Space == SndBuf - Len(wire) - ackable
CanSend == sconn /\ Space > 0

\* Mutant of RequestLength: no room is left for the NUL of toCharArray.
RequestLengthWithoutNul == Least(MSS, Size[Head(sentq).msg] - Head(sentq).off + 1)

\* SentBuffer::requestLength: at most what the shared buffer takes with the
\* NUL that toCharArray puts behind it.
RequestLength == Least(MSS - 1, Size[Head(sentq).msg] - Head(sentq).off + 1)

\* Mutants of Push: every message goes to the front; a priority message goes
\* behind a front that has not left either.
PushToFront(m) ==
  LET e == [msg |-> m, off |-> 0] IN
  IF clean THEN <<e>> \o sentq ELSE <<Head(sentq), e>> \o Tail(sentq)
PushBehindFront(m) ==
  LET e == [msg |-> m, off |-> 0] IN
  IF m \notin Priority \/ sentq = <<>> THEN Append(sentq, e)
  ELSE <<Head(sentq), e>> \o Tail(sentq)

\* SentBuffer::push.  A priority message goes to the front, but behind a
\* front that has partly left.
Push(m) ==
  LET e == [msg |-> m, off |-> 0] IN
  IF m \notin Priority THEN Append(sentq, e)
  ELSE IF clean THEN <<e>> \o sentq
  ELSE <<Head(sentq), e>> \o Tail(sentq)

\* After queueing or discarding, addMessage calls writeNext if the socket
\* takes anything.
WriteIfCanSend(t) == pc' = [pc EXCEPT ![t] = IF CanSend THEN "writeNext" ELSE "idle"]

\* addMessage answers true: the heap is large enough and the queue short
\* enough; a priority message is not held back by the length of the queue.
AcceptMessage(m) ==
  /\ m \in Priority \/ Len(sentq) < MaxQueue
  /\ sentq' = Push(m)
  /\ accepted' = IF m = Tick THEN accepted ELSE Append(accepted, m)

\* addMessage answers false and the message is forgotten.  The heap can be
\* short whatever the length of the queue.
DiscardMessage(m) == UNCHANGED <<sentq, accepted>>

\* MeshConnection::addMessage, called by the library's tasks in the loop.
\* That a message is sent once is only to tell messages apart.
AddMessage(m) ==
  /\ sconn
  /\ pc["loop"] = "idle"
  /\ m \notin Elements(accepted)
  /\ AcceptMessage(m) \/ DiscardMessage(m)
  /\ WriteIfCanSend("loop")
  /\ UNCHANGED <<clean, last_read_size, shared_buffer, len, fails, wire, ackable, recvVars, connVars>>

\* Nothing moves on its own any more: every message in flight has arrived
\* and been acknowledged, and no thread is inside writeNext.
Quiescent ==
  /\ \A t \in Task : pc[t] = "idle"
  /\ wire = <<>> /\ ackable = 0 /\ recvq = <<>>

\* nodeSyncTask: every few seconds, against milliseconds for everything
\* else, so it fires when the link is quiescent; what a priority message
\* queued in the middle of a transfer does is shown by CtlMsgs.
NodeSyncTask == Quiescent /\ AddMessage(Tick)

\* writeNext up to the call of write: the front of the queue is copied to
\* the shared buffer.
ReadFront(t) ==
  /\ pc[t] = "writeNext"
  /\ sentq # <<>> /\ Space > 0
  /\ LET n == Least(RequestLength, Space) IN
       /\ shared_buffer' = [i \in 1..MSS |-> IF i <= n THEN Rest(Head(sentq))[i] ELSE Junk]
       /\ last_read_size' = n
       /\ len' = [len EXCEPT ![t] = n]
  /\ pc' = [pc EXCEPT ![t] = "write"]
  /\ UNCHANGED <<sentq, clean, fails, wire, ackable, recvVars, connVars, accepted>>

\* writeNext returns at once: nothing to send or no room.
WriteReturns(t) ==
  /\ pc[t] = "writeNext"
  /\ sentq = <<>> \/ Space <= 0
  /\ pc' = [pc EXCEPT ![t] = "idle"]
  /\ UNCHANGED <<sentq, clean, last_read_size, shared_buffer, len, fails, wire, ackable,
                 recvVars, connVars, accepted>>

\* Mutant of AfterWrite: the answer of write is not looked at.
AfterAnyWrite(written, n) == "freeRead"

\* writeNext goes on to freeRead only if write answers that it took
\* everything.
AfterWrite(written, n) == IF written = n THEN "freeRead" ELSE "idle"

\* AsyncClient::write takes what is in the shared buffer by now, as far as
\* the socket has room by now.
WriteTaken(t) ==
  LET n == Least(len[t], Space) IN
  /\ pc[t] = "write"
  /\ wire' = wire \o SubSeq(shared_buffer, 1, n)
  /\ pc' = [pc EXCEPT ![t] = AfterWrite(n, len[t])]
  /\ UNCHANGED <<sentq, clean, last_read_size, shared_buffer, len, fails, ackable,
                 recvVars, connVars, accepted>>

\* AsyncClient::write returns 0: tcp_write had no memory, or tcp_write took
\* the bytes and tcp_output failed.
WriteFails(t) ==
  /\ pc[t] = "write"
  /\ fails < MaxFail
  /\ fails' = fails + 1
  /\ \E n \in {0} \cup (IF OutputMayFail THEN {Least(len[t], Space)} ELSE {}) :
       wire' = wire \o SubSeq(shared_buffer, 1, n)
  /\ pc' = [pc EXCEPT ![t] = AfterWrite(0, len[t])]
  /\ UNCHANGED <<sentq, clean, last_read_size, shared_buffer, len, ackable, recvVars,
                 connVars, accepted>>

\* Mutants of CleanAfter: a front that has partly left is forgotten; the flag
\* is not set again when the front has left.
CleanAfterAny(whole) == TRUE
CleanAfterNone(whole) == whole /\ clean

\* Whether the front is a message of which nothing has left.  The SentBuffer
\* of v0.6.3 always believes so.
CleanAfter(whole) == whole \/ ~TracksClean

\* SentBuffer::freeRead: the front leaves the queue, or loses the characters
\* that were written.  Then writeNext calls itself.
FreeRead(t) ==
  /\ pc[t] = "freeRead"
  /\ sentq # <<>>
  /\ LET e == Head(sentq)
         whole == last_read_size = Size[e.msg] - e.off + 1
         shorter == [e EXCEPT !.off = Least(e.off + last_read_size, Size[e.msg])]
     IN  /\ sentq' = IF whole THEN Tail(sentq) ELSE <<shorter>> \o Tail(sentq)
         /\ clean' = CleanAfter(whole)
  /\ last_read_size' = 0
  /\ pc' = [pc EXCEPT ![t] = "writeNext"]
  /\ UNCHANGED <<shared_buffer, len, fails, wire, ackable, recvVars, connVars, accepted>>

\* tcpSentCb: the peer has acknowledged n bytes.
TcpSentCb(n) ==
  /\ sconn
  /\ pc[CallbackTask] = "idle"
  /\ ackable' = ackable - n
  /\ pc' = [pc EXCEPT ![CallbackTask] = "writeNext"]
  /\ UNCHANGED <<sentq, clean, last_read_size, shared_buffer, len, fails, wire, recvVars,
                 connVars, accepted>>

\* The shared buffer is one for all connections and both directions of a
\* node: another connection's writeNext, or ReceiveBuffer::push in
\* meshRecvCb, leaves its own bytes in it.
ReuseSharedBuffer(t) ==
  /\ pc[t] = "idle"
  /\ shared_buffer' = [i \in 1..MSS |-> Junk]
  /\ UNCHANGED <<sentq, clean, last_read_size, pc, len, fails, wire, ackable, recvVars,
                 connVars, accepted>>

\* MeshConnection::close at the sender.  The queue is dropped; clean and
\* last_read_size stay as they are.  The socket still delivers what it took.
CloseSender(t) ==
  /\ sconn
  /\ pc[t] = "idle"
  /\ sconn' = FALSE
  /\ sentq' = <<>>
  /\ UNCHANGED <<clean, last_read_size, shared_buffer, pc, len, fails, wire, ackable,
                 recvVars, rconn, accepted>>

-----------------------------------------------------------------------------
(* The receiver.                                                           *)

\* meshRecvCb with the next n bytes of the stream.  ReceiveBuffer::push cuts
\* at every NUL and skips empty strings; bytes behind a NUL are handled like
\* bytes that arrive later, so a step ends with the first NUL.
MeshRecvCb(n) ==
  LET data == SubSeq(wire, 1, n)
      cut == IsNul(data[n])
      text == buffer \o (IF cut THEN SubSeq(data, 1, n - 1) ELSE data)
  IN
  /\ rconn
  /\ \A i \in 1..(n - 1) : ~IsNul(data[i])
  /\ buffer' = IF cut THEN <<>> ELSE text
  /\ recvq' = IF cut /\ text # <<>> THEN Append(recvq, text) ELSE recvq
  /\ wire' = SubSeq(wire, n + 1, Len(wire))
  /\ ackable' = ackable + n
  /\ UNCHANGED <<sendVars, handled, connVars, accepted>>

\* readBufferTask takes the oldest string and gives it to handleMessage.
ReadBufferTask ==
  /\ rconn
  /\ recvq # <<>>
  /\ recvq' = Tail(recvq)
  /\ handled' = IF Head(recvq) = Body(Tick) THEN handled ELSE Append(handled, Head(recvq))
  /\ UNCHANGED <<sendVars, wire, ackable, buffer, connVars, accepted>>

\* MeshConnection::close at the receiver, or the loss of the radio link:
\* nothing is delivered, or acknowledged to the sender, from now on.
CloseReceiver ==
  /\ rconn
  /\ rconn' = FALSE
  /\ buffer' = <<>>
  /\ recvq' = <<>>
  /\ UNCHANGED <<sendVars, wire, ackable, handled, sconn, accepted>>

-----------------------------------------------------------------------------
WriteNext(t) ==
  \/ ReadFront(t) \/ WriteReturns(t) \/ WriteTaken(t) \/ WriteFails(t) \/ FreeRead(t)

Chunk == 1..Least(MSS, Len(wire))

Next ==
  \/ \E m \in AppMsgs \cup CtlMsgs : AddMessage(m)
  \/ NodeSyncTask
  \/ \E t \in Task : WriteNext(t)
  \/ \E t \in Task : ReuseSharedBuffer(t) \/ CloseSender(t)
  \/ \E n \in 1..ackable : TcpSentCb(n)
  \/ \E n \in Chunk : MeshRecvCb(n)
  \/ ReadBufferTask
  \/ CloseReceiver

Spec == Init /\ [][Next]_vars
=============================================================================
