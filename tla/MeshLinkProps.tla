--------------------------- MODULE MeshLinkProps ----------------------------
(* The properties of one direction of a mesh connection, over MeshLink.    *)
EXTENDS MeshLink, SequencesExt, SeqFilter

\* Type correctness.  The bytes copied out of the queue and the NUL behind
\* them fit the shared buffer (SentBuffer::requestLength, toCharArray), and
\* what is left of a queued string is never less than its NUL
\* (SentBuffer::freeRead).
TypeOK ==
  /\ sentq \in Seq([msg : Msgs, off : Nat])
  /\ \A i \in DOMAIN sentq : sentq[i].off <= Size[sentq[i].msg]
  /\ clean \in BOOLEAN
  /\ last_read_size \in 0..(MSS - 1)
  /\ shared_buffer \in [1..MSS -> Byte]
  /\ pc \in [Task -> {"idle", "writeNext", "write", "freeRead"}]
  /\ len \in [Task -> 0..(MSS - 1)]
  /\ fails \in 0..MaxFail
  /\ wire \in Seq(Byte) /\ ackable \in Nat
  /\ buffer \in Seq(Byte)
  /\ recvq \in Seq(Seq(Byte)) /\ handled \in Seq(Seq(Byte))
  /\ sconn \in BOOLEAN /\ rconn \in BOOLEAN
  /\ accepted \in Seq(AppMsgs \cup CtlMsgs)

\* Every string that reaches readBufferTask, and every string handleMessage
\* gets, is one of the messages sent, whole and with nothing else in it:
\* no fragment, no two messages run together, no message with another one
\* pushed into it (SentBuffer::push, freeRead, ReceiveBuffer::push).
Whole(s) == \E m \in Msgs : s = Body(m)
WholeMessages ==
  /\ \A i \in DOMAIN recvq : Whole(recvq[i])
  /\ \A i \in DOMAIN handled : Whole(handled[i])

HandledMsgs == [i \in DOMAIN handled |-> handled[i][1].msg]

\* Messages without priority are handled in the order in which addMessage
\* accepted them and none is skipped, however the priority messages pushed
\* in between, the failed writes and the fragments interleave.
OrderKept == IsPrefix(Only(HandledMsgs, AppMsgs), Only(accepted, AppMsgs))

\* While both ends are connected an accepted message is in one place only:
\* queued, on its way, or handled.  It is never lost to a failed write and
\* never sent twice.
Started(m) == \E i \in DOMAIN (buffer \o wire) : (buffer \o wire)[i] = [msg |-> m, pos |-> 1]
NotStarted(m) ==
  \E i \in DOMAIN sentq :
    sentq[i] = [msg |-> m, off |-> 0] /\ ~(i = 1 /\ \E t \in Task : pc[t] = "freeRead")
Count(b) == IF b THEN 1 ELSE 0
ExactlyOnce ==
  sconn /\ rconn =>
    \A m \in Elements(accepted) :
      Count(NotStarted(m)) + Count(Started(m))
        + Cardinality({i \in DOMAIN recvq : recvq[i][1].msg = m})
        + Cardinality({i \in DOMAIN handled : handled[i][1].msg = m}) = 1

\* The list operations of SentBuffer are only applied where they are
\* defined: push inserts behind a front, and freeRead takes from a front,
\* that exists.
ListOpsDefined ==
  /\ sconn /\ ~clean => sentq # <<>>
  /\ \A t \in Task : pc[t] \in {"write", "freeRead"} => sentq # <<>>

-----------------------------------------------------------------------------
(* Why the strings are whole: the inductive invariant.  It holds where one *)
(* thread writes, SentBuffer knows whether its front has partly left, and  *)
(* a failed write takes nothing.                                           *)

Sound == CallbackTask = "loop" /\ TracksClean /\ ~OutputMayFail

\* The bytes of strings the receiver has not completed.
Stream == buffer \o wire

\* Bytes with no NUL between them belong to one message and follow each
\* other; the first byte, and the byte behind a NUL, starts a message.
Contiguous(s) ==
  \A i, j \in DOMAIN s :
    i <= j /\ (\A k \in i..(j - 1) : ~IsNul(s[k]))
      => s[j] = [msg |-> s[i].msg, pos |-> s[i].pos + (j - i)]
FreshStarts(s) ==
  \A i \in DOMAIN s : i = 1 \/ IsNul(s[i - 1]) => s[i].pos = 1

\* Only the front of the queue can have partly left, and clean says whether
\* it has.
QueueInv ==
  /\ \A i \in 2..Len(sentq) : sentq[i].off = 0
  /\ sconn /\ clean /\ sentq # <<>> => sentq[1].off = 0
  /\ sconn /\ ~clean => sentq # <<>> /\ sentq[1].off > 0
  /\ ~sconn => pc["loop"] = "idle" /\ sentq = <<>>

\* Between its steps writeNext still means the front it has read.
WriterInv ==
  /\ pc["loop"] \in {"write", "freeRead"} =>
       /\ sentq # <<>>
       /\ last_read_size = len["loop"]
       /\ last_read_size \in 1..(Size[sentq[1].msg] - sentq[1].off + 1)
  /\ pc["loop"] = "write" =>
       /\ len["loop"] <= Space
       /\ \A i \in 1..len["loop"] :
            shared_buffer[i] = [msg |-> sentq[1].msg, pos |-> sentq[1].off + i]

\* The stream ends where the queue goes on.
EndsWith(b) == Stream # <<>> /\ Stream[Len(Stream)] = b
Boundary ==
  LET sent == IF pc["loop"] = "freeRead" THEN last_read_size ELSE 0
      last == [msg |-> sentq[1].msg, pos |-> sentq[1].off + sent]
  IN  IF clean /\ pc["loop"] # "freeRead"
      THEN Stream # <<>> => IsNul(Stream[Len(Stream)])
      ELSE EndsWith(last) \/ (Stream = <<>> /\ IsNul(last))

StreamInv ==
  rconn =>
    /\ Contiguous(Stream) /\ FreshStarts(Stream)
    /\ \A i \in DOMAIN buffer : ~IsNul(buffer[i])
    /\ sconn => Boundary

\* The strings at the receiver are whole because the stream between them and
\* the queue is never broken (SentBuffer::push, read, freeRead, writeNext,
\* ReceiveBuffer::push).
IInv == TypeOK /\ QueueInv /\ WriterInv /\ StreamInv /\ WholeMessages

-----------------------------------------------------------------------------
(* The promise to the layer above: MessageChannel.                         *)

QueuedMsgs == [i \in DOMAIN sentq |-> sentq[i].msg]
FrontStarted == ~clean \/ \E t \in Task : pc[t] = "freeRead"
FirstByte == [msg : Msgs, pos : {1}]
FirstBytes == Only(buffer \o wire, FirstByte)

Channel == INSTANCE MessageChannel WITH
  Message <- Msgs,
  Urgent <- Priority,
  Recurring <- {Tick},
  pending <- IF FrontStarted /\ sentq # <<>> THEN Tail(QueuedMsgs) ELSE QueuedMsgs,
  transit <- IF rconn THEN [i \in DOMAIN recvq |-> recvq[i][1].msg]
                           \o [i \in DOMAIN FirstBytes |-> FirstBytes[i].msg]
             ELSE <<>>,
  received <- HandledMsgs,
  open <- [send |-> sconn, recv |-> rconn]

\* A connection keeps the promise of MessageChannel: a priority message
\* overtakes every message of which no byte has left, and no other; nothing
\* overtakes a message that has started (addMessage, writeNext, freeRead).
ChannelSpec == Channel!Spec

-----------------------------------------------------------------------------
(* Liveness.  The scheduler of the loop runs every task again and again,   *)
(* TCP delivers and acknowledges, writeNext goes on until it returns.      *)
Fairness ==
  /\ \A t \in Task : WF_vars(WriteNext(t))
  /\ WF_vars(\E n \in Chunk : MeshRecvCb(n))
  /\ WF_vars(\E n \in 1..ackable : TcpSentCb(n))
  /\ WF_vars(ReadBufferTask)
  /\ WF_vars(NodeSyncTask)

FairSpec == Spec /\ Fairness

\* A message that was accepted is handled in the end unless an end of the
\* connection closes: a write that fails while nothing is in flight, so that
\* no acknowledgement will ever call tcpSentCb, is made up for by the next
\* nodeSyncTask.
EventuallyHandled ==
  \A m \in AppMsgs \cup CtlMsgs :
    m \in Elements(accepted) ~>
      (m \in Elements(HandledMsgs) \/ ~sconn \/ ~rconn)
=============================================================================
