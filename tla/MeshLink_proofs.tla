-------------------------- MODULE MeshLink_proofs ---------------------------
(***************************************************************************)
(* Proofs about one direction of a mesh connection (MeshLink): its types,  *)
(* in every build; in a sound build that its strings arrive whole, that it *)
(* keeps the promise of MessageChannel, and what follows: messages without *)
(* priority are handled in the order they were accepted in, and an         *)
(* accepted message is in one place only.                                  *)
(*                                                                         *)
(* The invariant IInv of MeshLinkProps is inductive.  Under it every step  *)
(* of the code is a step of the channel or leaves it alone (ChannelStep).  *)
(* The order is then a matter of three sequences of messages, those still  *)
(* pending, those in transit and those received: each step moves one       *)
(* message over the boundary between two of them.                          *)
(***************************************************************************)
EXTENDS MeshLinkProps, SequenceTheorems, SeqFilter_proofs

-----------------------------------------------------------------------------
(* Type correctness.                                                       *)

\* The constants in the form the proofs use them.
LEMMA ConstantFacts ==
  /\ MSS \in Nat \ {0, 1} /\ SndBuf \in Nat \ {0} /\ MaxFail \in Nat
  /\ \A m \in Msgs : Size[m] \in Nat \ {0}
  /\ Tick \in Msgs /\ Junk \in Byte
  /\ "loop" \in Task /\ CallbackTask \in Task
BY SizeAssumption, BufferAssumption, BoundAssumption, TaskAssumption DEF Msgs, Task, Junk, Byte

\* A queued string has at least its NUL left, and its bytes are bytes.
LEMMA RestType ==
  ASSUME NEW e \in [msg : Msgs, off : Nat], e.off <= Size[e.msg]
  PROVE  /\ Size[e.msg] - e.off + 1 \in Nat \ {0}
         /\ Rest(e) \in Seq(Byte)
         /\ Len(Rest(e)) = Size[e.msg] - e.off + 1
         /\ \A i \in 1..(Size[e.msg] - e.off + 1) :
              Rest(e)[i] = [msg |-> e.msg, pos |-> e.off + i]
<1>1. Size[e.msg] - e.off + 1 \in Nat \ {0}
  BY ConstantFacts
<1>2. \A i \in 1..(Size[e.msg] - e.off + 1) : e.off + i \in Nat
  BY <1>1
<1>3. \A i \in 1..(Size[e.msg] - e.off + 1) : [msg |-> e.msg, pos |-> e.off + i] \in Byte
  BY <1>2 DEF Byte
<1>4. QED BY <1>1, <1>3 DEF Rest

\* Sequences of queued strings none of which is shorter than its NUL.
Entry == [msg : Msgs, off : Nat]
Sane(q) == q \in Seq(Entry) /\ \A i \in DOMAIN q : q[i].off <= Size[q[i].msg]

LEMMA SaneFront ==
  ASSUME NEW q, Sane(q), q # <<>>
  PROVE  /\ Head(q) = q[1] /\ q[1] \in Entry /\ q[1].off <= Size[q[1].msg]
         /\ Tail(q) \in Seq(Entry) /\ Sane(Tail(q))
<1>1. Len(q) \in Nat \ {0} /\ DOMAIN q = 1..Len(q)
  BY EmptySeq, LenProperties DEF Sane
<1>2. Head(q) = q[1] /\ q[1] \in Entry /\ q[1].off <= Size[q[1].msg]
  BY <1>1, ElementOfSeq DEF Sane
<1>3. /\ Tail(q) \in Seq(Entry) /\ Len(Tail(q)) = Len(q) - 1
      /\ \A i \in 1..Len(Tail(q)) : Tail(q)[i] = q[i + 1]
  BY HeadTailProperties DEF Sane
<1>4. Sane(Tail(q))
  BY <1>1, <1>3, LenProperties DEF Sane
<1>5. QED BY <1>2, <1>3, <1>4

LEMMA SaneEmpty == Sane(<<>>)
BY EmptySeq DEF Sane

LEMMA SaneAppend ==
  ASSUME NEW q, Sane(q), NEW e \in Entry, e.off <= Size[e.msg]
  PROVE  Sane(Append(q, e)) /\ Append(q, e) # <<>>
<1>1. /\ Append(q, e) \in Seq(Entry) /\ Len(Append(q, e)) = Len(q) + 1
      /\ \A i \in 1..Len(q) : Append(q, e)[i] = q[i]
      /\ Append(q, e)[Len(q) + 1] = e
  BY AppendProperties DEF Sane
<1>2. Len(q) \in Nat /\ DOMAIN q = 1..Len(q) /\ DOMAIN Append(q, e) = 1..(Len(q) + 1)
  BY <1>1, LenProperties DEF Sane
<1>3. QED BY <1>1, <1>2, EmptySeq DEF Sane

LEMMA SanePush ==
  ASSUME NEW q, Sane(q), NEW e \in Entry, e.off <= Size[e.msg]
  PROVE  Sane(<<e>> \o q) /\ <<e>> \o q # <<>>
<1>1. <<e>> \in Seq(Entry) /\ Len(<<e>>) = 1 /\ <<e>>[1] = e
  OBVIOUS
<1>2. /\ <<e>> \o q \in Seq(Entry) /\ Len(<<e>> \o q) = 1 + Len(q)
      /\ \A i \in 1..(1 + Len(q)) : (<<e>> \o q)[i] = IF i <= 1 THEN <<e>>[i] ELSE q[i - 1]
  BY <1>1, ConcatProperties DEF Sane
<1>3. Len(q) \in Nat /\ DOMAIN q = 1..Len(q) /\ DOMAIN (<<e>> \o q) = 1..(1 + Len(q))
  BY <1>2, LenProperties DEF Sane
<1>4. <<e>> \o q # <<>>
  BY <1>2, <1>3, EmptySeq
<1>5. Sane(<<e>> \o q)
  BY <1>1, <1>2, <1>3 DEF Sane
<1>6. QED BY <1>4, <1>5

LEMMA SaneSecond ==
  ASSUME NEW q, Sane(q), q # <<>>, NEW e \in Entry, e.off <= Size[e.msg]
  PROVE  Sane(<<Head(q), e>> \o Tail(q)) /\ <<Head(q), e>> \o Tail(q) # <<>>
<1>1. /\ Head(q) \in Entry /\ Head(q).off <= Size[Head(q).msg]
      /\ Tail(q) \in Seq(Entry) /\ Sane(Tail(q))
  BY SaneFront
<1>2. /\ <<Head(q), e>> \in Seq(Entry) /\ Len(<<Head(q), e>>) = 2
      /\ <<Head(q), e>>[1] = Head(q) /\ <<Head(q), e>>[2] = e
  BY <1>1
<1>3. /\ <<Head(q), e>> \o Tail(q) \in Seq(Entry)
      /\ Len(<<Head(q), e>> \o Tail(q)) = 2 + Len(Tail(q))
      /\ \A i \in 1..(2 + Len(Tail(q))) :
           (<<Head(q), e>> \o Tail(q))[i] = IF i <= 2 THEN <<Head(q), e>>[i] ELSE Tail(q)[i - 2]
  BY <1>1, <1>2, ConcatProperties
<1>4. /\ DOMAIN (<<Head(q), e>> \o Tail(q)) = 1..(2 + Len(Tail(q)))
      /\ DOMAIN Tail(q) = 1..Len(Tail(q)) /\ Len(Tail(q)) \in Nat
  BY <1>1, <1>3, LenProperties
<1>5. Sane(<<Head(q), e>> \o Tail(q))
  <2> SUFFICES ASSUME NEW i \in 1..(2 + Len(Tail(q)))
               PROVE (<<Head(q), e>> \o Tail(q))[i].off
                       <= Size[(<<Head(q), e>> \o Tail(q))[i].msg]
    BY <1>3, <1>4 DEF Sane
  <2>1. CASE i = 1 BY <2>1, <1>1, <1>2, <1>3, <1>4
  <2>2. CASE i = 2 BY <2>2, <1>2, <1>3, <1>4
  <2>3. CASE i > 2 BY <2>3, <1>1, <1>3, <1>4 DEF Sane
  <2>4. QED BY <2>1, <2>2, <2>3, <1>4
<1>6. QED BY <1>3, <1>4, <1>5, EmptySeq

\* push inserts behind the front only while there is a front: needed for the
\* queue to stay a queue of strings.
FrontKnown == sconn /\ ~clean => sentq # <<>>

LEMMA TypeStep == TypeOK /\ FrontKnown /\ [Next]_vars => TypeOK' /\ FrontKnown'
<1> SUFFICES ASSUME TypeOK, FrontKnown, [Next]_vars PROVE TypeOK' /\ FrontKnown'
  OBVIOUS
<1> USE DEF TypeOK, FrontKnown, sendVars, recvVars, connVars
<1>0. Sane(sentq)
  BY DEF Sane, Entry
<1>1. ASSUME NEW m \in Msgs, AddMessage(m) PROVE TypeOK' /\ FrontKnown'
  <2> DEFINE e == [msg |-> m, off |-> 0]
  <2>1. e \in Entry /\ e.off <= Size[e.msg]
    BY ConstantFacts DEF Entry
  <2>2. Sane(Push(m)) /\ Push(m) # <<>>
    <3>1. ~clean => sentq # <<>>
      BY <1>1 DEF AddMessage
    <3>2. Sane(Append(sentq, e)) /\ Append(sentq, e) # <<>>
      BY <1>0, <2>1, SaneAppend
    <3>3. Sane(<<e>> \o sentq) /\ <<e>> \o sentq # <<>>
      BY <1>0, <2>1, SanePush
    <3>4. sentq # <<>> => /\ Sane(<<Head(sentq), e>> \o Tail(sentq))
                          /\ <<Head(sentq), e>> \o Tail(sentq) # <<>>
      BY <1>0, <2>1, SaneSecond
    <3> HIDE DEF e
    <3>5. \/ Push(m) = Append(sentq, e)
          \/ Push(m) = <<e>> \o sentq
          \/ ~clean /\ Push(m) = <<Head(sentq), e>> \o Tail(sentq)
      BY DEF Push, e
    <3>6. QED BY <3>1, <3>2, <3>3, <3>4, <3>5
  <2>3. \/ sentq' = Push(m) /\ accepted' = (IF m = Tick THEN accepted ELSE Append(accepted, m))
        \/ sentq' = sentq /\ accepted' = accepted
    BY <1>1 DEF AddMessage, AcceptMessage, DiscardMessage
  <2>4. Sane(sentq') /\ FrontKnown'
    BY <1>0, <1>1, <2>2, <2>3 DEF AddMessage
  <2>5. accepted' \in Seq(AppMsgs \cup CtlMsgs)
    <3>1. m # Tick => m \in AppMsgs \cup CtlMsgs
      BY DEF Msgs
    <3>2. m # Tick => Append(accepted, m) \in Seq(AppMsgs \cup CtlMsgs)
      BY <3>1, AppendProperties
    <3>3. QED BY <2>3, <3>2
  <2>6. pc' \in [Task -> {"idle", "writeNext", "write", "freeRead"}]
    BY <1>1 DEF AddMessage, WriteIfCanSend
  <2>7. QED BY <1>1, <2>4, <2>5, <2>6 DEF AddMessage, Sane, Entry
<1>2. ASSUME NEW t \in Task, ReadFront(t) PROVE TypeOK' /\ FrontKnown'
  <2> DEFINE n == Least(RequestLength, Space)
             e == Head(sentq)
  <2>1. e \in [msg : Msgs, off : Nat] /\ e.off <= Size[e.msg]
    BY <1>0, <1>2, SaneFront DEF ReadFront, Entry
  <2>2. Size[e.msg] - e.off + 1 \in Nat \ {0}
    BY <2>1, RestType
  <2>3. Space \in Int /\ Space > 0
    BY <1>2, ConstantFacts, LenProperties DEF ReadFront, Space
  <2>4. n \in 1..(MSS - 1) /\ n <= Size[e.msg] - e.off + 1
    BY <2>2, <2>3, ConstantFacts, SMTT(60) DEF Least, RequestLength
  <2>5. shared_buffer' = [i \in 1..MSS |-> IF i <= n THEN Rest(e)[i] ELSE Junk]
    BY <1>2 DEF ReadFront
  <2>6. len' = [len EXCEPT ![t] = n] /\ last_read_size' = n
    BY <1>2 DEF ReadFront
  <2> HIDE DEF n, e
  <2>7. \A i \in 1..n : Rest(e)[i] \in Byte
    <3>1. \A i \in 1..(Size[e.msg] - e.off + 1) : Rest(e)[i] = [msg |-> e.msg, pos |-> e.off + i]
      BY <2>1, RestType
    <3>0. e.off \in Nat /\ n \in Nat /\ Size[e.msg] - e.off + 1 \in Nat
      BY <2>1, <2>2, <2>4, ConstantFacts
    <3>2. \A i \in 1..n : e.off + i \in Nat /\ i \in 1..(Size[e.msg] - e.off + 1)
      <4> DEFINE rest == Size[e.msg] - e.off + 1
      <4>1. rest \in Nat /\ n <= rest
        BY <3>0, <2>4
      <4> HIDE DEF rest
      <4>2. \A i \in 1..n : e.off + i \in Nat /\ i \in 1..rest
        BY <3>0, <4>1, SMTT(60)
      <4>3. QED BY <4>2 DEF rest
    <3>3. \A i \in 1..n : [msg |-> e.msg, pos |-> e.off + i] \in Byte
      BY <2>1, <3>2 DEF Byte
    <3>4. QED BY <3>1, <3>2, <3>3
  <2>8. shared_buffer' \in [1..MSS -> Byte]
    BY <2>4, <2>5, <2>7, ConstantFacts
  <2>9. QED BY <1>2, <2>4, <2>6, <2>8, ConstantFacts, SMTT(60) DEF ReadFront
<1>3. ASSUME NEW t \in Task, WriteReturns(t) PROVE TypeOK' /\ FrontKnown'
  BY <1>3 DEF WriteReturns
<1>4. ASSUME NEW n \in Int, n <= MSS
      PROVE wire \o SubSeq(shared_buffer, 1, n) \in Seq(Byte)
  <2>1. shared_buffer \in Seq(Byte) /\ Len(shared_buffer) = MSS
    BY ConstantFacts
  <2>2. SubSeq(shared_buffer, 1, n) \in Seq(Byte)
    BY <2>1, <1>4, SubSeqProperties, ElementOfSeq, ConstantFacts
  <2>3. QED BY <2>2, ConcatProperties
<1>5. \A t \in Task : Least(len[t], Space) \in Int /\ Least(len[t], Space) <= MSS
  BY ConstantFacts, LenProperties, SMTT(60) DEF Least, Space
<1>6. ASSUME NEW t \in Task, WriteTaken(t) PROVE TypeOK' /\ FrontKnown'
  BY <1>4, <1>5, <1>6 DEF WriteTaken, AfterWrite
<1>7. ASSUME NEW t \in Task, WriteFails(t) PROVE TypeOK' /\ FrontKnown'
  <2>1. wire' \in Seq(Byte)
    BY <1>4, <1>5, <1>7, ConstantFacts, SMTT(60) DEF WriteFails
  <2>2. fails' \in 0..MaxFail
    BY <1>7, ConstantFacts DEF WriteFails
  <2>3. QED BY <1>7, <2>1, <2>2 DEF WriteFails, AfterWrite
<1>8. ASSUME NEW t \in Task, FreeRead(t) PROVE TypeOK' /\ FrontKnown'
  <2> DEFINE e == Head(sentq)
             o == Least(e.off + last_read_size, Size[e.msg])
             shorter == [e EXCEPT !.off = o]
             whole == last_read_size = Size[e.msg] - e.off + 1
  <2>1. e \in Entry /\ Sane(Tail(sentq))
    BY <1>0, <1>8, SaneFront DEF FreeRead
  <2>2. o \in Nat /\ o <= Size[e.msg]
    BY <2>1, ConstantFacts, SMTT(60) DEF Least, Entry
  <2>3. shorter \in Entry /\ shorter.off <= Size[shorter.msg]
    BY <2>1, <2>2 DEF Entry
  <2>4. /\ sentq' = (IF whole THEN Tail(sentq) ELSE <<shorter>> \o Tail(sentq))
        /\ clean' = (whole \/ ~TracksClean)
    BY <1>8 DEF FreeRead, CleanAfter
  <2> HIDE DEF shorter
  <2>5. Sane(<<shorter>> \o Tail(sentq)) /\ <<shorter>> \o Tail(sentq) # <<>>
    BY <2>1, <2>3, SanePush
  <2>6. Sane(sentq') /\ (~clean' => sentq' # <<>>) /\ clean' \in BOOLEAN
    BY <2>1, <2>4, <2>5
  <2>7. /\ last_read_size' = 0 /\ pc' = [pc EXCEPT ![t] = "writeNext"]
        /\ UNCHANGED <<shared_buffer, len, fails, wire, ackable, recvVars, connVars, accepted>>
    BY <1>8 DEF FreeRead
  <2>8. last_read_size' \in 0..(MSS - 1)
    BY <2>7, ConstantFacts
  <2> HIDE DEF whole, o, e
  <2>9. QED BY <2>6, <2>7, <2>8 DEF Sane, Entry
<1>9. ASSUME NEW n \in 1..ackable, TcpSentCb(n) PROVE TypeOK' /\ FrontKnown'
  BY <1>9, ConstantFacts DEF TcpSentCb
<1>10. ASSUME NEW t \in Task, ReuseSharedBuffer(t) PROVE TypeOK' /\ FrontKnown'
  BY <1>10, ConstantFacts DEF ReuseSharedBuffer
<1>11. ASSUME NEW t \in Task, CloseSender(t) PROVE TypeOK' /\ FrontKnown'
  <2>1. sentq' = <<>> /\ ~sconn'
    BY <1>11 DEF CloseSender
  <2>2. Sane(sentq')
    BY <2>1, SaneEmpty
  <2>3. QED BY <1>11, <2>1, <2>2 DEF CloseSender, Sane, Entry
<1>12. ASSUME NEW n \in Chunk, MeshRecvCb(n) PROVE TypeOK' /\ FrontKnown'
  <2> DEFINE data == SubSeq(wire, 1, n)
             cut == IsNul(data[n])
             text == buffer \o (IF cut THEN SubSeq(data, 1, n - 1) ELSE data)
  <2>1. n \in 1..Len(wire)
    BY ConstantFacts, LenProperties DEF Chunk, Least
  <2>2. data \in Seq(Byte) /\ Len(data) = n
    BY <2>1, SubSeqProperties, ElementOfSeq, LenProperties
  <2>3. SubSeq(data, 1, n - 1) \in Seq(Byte) /\ SubSeq(wire, n + 1, Len(wire)) \in Seq(Byte)
    BY <2>1, <2>2, SubSeqProperties, ElementOfSeq, LenProperties
  <2>4. text \in Seq(Byte)
    BY <2>2, <2>3, ConcatProperties
  <2>5. /\ buffer' = (IF cut THEN <<>> ELSE text)
        /\ recvq' = (IF cut /\ text # <<>> THEN Append(recvq, text) ELSE recvq)
        /\ wire' = SubSeq(wire, n + 1, Len(wire)) /\ ackable' = ackable + n
    BY <1>12 DEF MeshRecvCb
  <2> HIDE DEF text, cut, data
  <2>6. buffer' \in Seq(Byte) /\ recvq' \in Seq(Seq(Byte))
    BY <2>4, <2>5, AppendProperties, EmptySeq
  <2>7. ackable' \in Nat /\ wire' \in Seq(Byte)
    BY <2>1, <2>3, <2>5, LenProperties
  <2>8. UNCHANGED <<sendVars, handled, connVars, accepted>>
    BY <1>12 DEF MeshRecvCb
  <2>9. QED BY <2>6, <2>7, <2>8
<1>13. ASSUME ReadBufferTask PROVE TypeOK' /\ FrontKnown'
  <2>1. Tail(recvq) \in Seq(Seq(Byte)) /\ Head(recvq) \in Seq(Byte)
    BY <1>13, HeadTailProperties DEF ReadBufferTask
  <2>2. QED BY <1>13, <2>1, AppendProperties DEF ReadBufferTask
<1>14. ASSUME CloseReceiver PROVE TypeOK' /\ FrontKnown'
  BY <1>14, EmptySeq DEF CloseReceiver
<1>15. CASE UNCHANGED vars
  BY <1>15 DEF vars
<1>16. QED
  BY <1>1, <1>2, <1>3, <1>6, <1>7, <1>8, <1>9, <1>10, <1>11, <1>12, <1>13, <1>14, <1>15,
     ConstantFacts DEF Next, NodeSyncTask, WriteNext, Msgs

\* Every variable keeps its type in every build: whichever thread runs the
\* callbacks, with or without the clean flag, and whatever tcp_output does.
THEOREM TypeCorrect == Spec => []TypeOK
<1>1. Init => TypeOK /\ FrontKnown
  BY ConstantFacts DEF Init, TypeOK, FrontKnown
<1>2. QED BY <1>1, TypeStep, PTL DEF Spec

-----------------------------------------------------------------------------
(* Streams of bytes, whatever the program does with them.                  *)

\* Two sequences of bytes joined, position by position.
LEMMA JoinedBytes ==
  ASSUME NEW s \in Seq(Byte), NEW t \in Seq(Byte)
  PROVE  /\ s \o t \in Seq(Byte) /\ Len(s) \in Nat
         /\ Len(s \o t) = Len(s) + Len(t)
         /\ \A i \in 1..Len(s) : (s \o t)[i] = s[i]
         /\ \A i \in 1..Len(t) : (s \o t)[Len(s) + i] = t[i]
<1>1. Len(s) \in Nat /\ Len(t) \in Nat
  BY LenProperties
<1>2. /\ s \o t \in Seq(Byte) /\ Len(s \o t) = Len(s) + Len(t)
      /\ \A i \in 1..(Len(s) + Len(t)) : (s \o t)[i] = IF i <= Len(s) THEN s[i] ELSE t[i - Len(s)]
  BY ConcatProperties
<1>3. \A i \in 1..Len(s) : i \in 1..(Len(s) + Len(t)) /\ i <= Len(s)
  BY <1>1
<1>4. \A i \in 1..Len(t) : Len(s) + i \in 1..(Len(s) + Len(t)) /\ ~(Len(s) + i <= Len(s))
                           /\ Len(s) + i - Len(s) = i
  BY <1>1
<1>5. QED BY <1>1, <1>2, <1>3, <1>4

\* The part of a sequence from one position to another.
LEMMA Cut ==
  ASSUME NEW S, NEW s \in Seq(S), NEW a \in 1..(Len(s) + 1), NEW b \in (a - 1)..Len(s)
  PROVE  /\ SubSeq(s, a, b) \in Seq(S)
         /\ Len(SubSeq(s, a, b)) = b - a + 1
         /\ \A i \in 1..(b - a + 1) : SubSeq(s, a, b)[i] = s[a + i - 1]
<1>1. Len(s) \in Nat /\ a \in Int /\ b \in Int
  BY LenProperties
<1>2. \A i \in a..b : s[i] \in S
  BY <1>1, ElementOfSeq
<1>3. QED BY <1>1, <1>2, SubSeqProperties

\* How Contiguous is used.
LEMMA Follows ==
  ASSUME NEW s \in Seq(Byte), Contiguous(s), NEW i \in 1..Len(s), NEW j \in 1..Len(s),
         i <= j, \A k \in i..(j - 1) : ~IsNul(s[k])
  PROVE  /\ s[j] = [msg |-> s[i].msg, pos |-> s[i].pos + (j - i)]
         /\ s[i].msg \in Msgs /\ s[i].pos \in Nat
<1>1. DOMAIN s = 1..Len(s)
  BY LenProperties
<1>2. s[j] = [msg |-> s[i].msg, pos |-> s[i].pos + (j - i)]
  BY <1>1 DEF Contiguous
<1>3. s[i] \in Byte
  BY ElementOfSeq
<1>4. QED BY <1>2, <1>3 DEF Byte

\* r is s and k bytes of message m behind its first off characters; s ends
\* where they go on.
Extends(r, s, m, off, k) ==
  /\ Len(r) = Len(s) + k
  /\ \A i \in 1..Len(s) : r[i] = s[i]
  /\ \A i \in 1..k : r[Len(s) + i] = [msg |-> m, pos |-> off + i]
GoesOn(s, m, off) ==
  \/ off = 0 /\ (s = <<>> \/ IsNul(s[Len(s)]))
  \/ s # <<>> /\ s[Len(s)] = [msg |-> m, pos |-> off]

\* What writeNext hands to write continues a stream that it goes on from.
LEMMA StreamGrows ==
  ASSUME NEW s \in Seq(Byte), Contiguous(s), FreshStarts(s),
         NEW m \in Msgs, NEW off \in Nat, off <= Size[m],
         NEW k \in Nat \ {0}, off + k <= Size[m] + 1,
         NEW r \in Seq(Byte), Extends(r, s, m, off, k), GoesOn(s, m, off)
  PROVE  /\ Contiguous(r) /\ FreshStarts(r)
         /\ r # <<>> /\ r[Len(r)] = [msg |-> m, pos |-> off + k]
<1> DEFINE L == Len(s)
<1> USE DEF Extends, GoesOn
<1>0. Size[m] \in Nat \ {0} /\ L \in Nat /\ (s = <<>> <=> L = 0)
  BY ConstantFacts, EmptySeq, LenProperties
<1>1. DOMAIN r = 1..(L + k) /\ DOMAIN s = 1..L
  BY <1>0, LenProperties
<1>2. \A i \in (L + 1)..(L + k) : /\ r[i] = [msg |-> m, pos |-> off + (i - L)]
                                   /\ r[i].msg = m /\ r[i].pos = off + (i - L)
  <2> TAKE i \in (L + 1)..(L + k)
  <2>1. i - L \in 1..k /\ L + (i - L) = i
    BY <1>0
  <2>2. r[L + (i - L)] = [msg |-> m, pos |-> off + (i - L)]
    BY <2>1
  <2>3. r[i] = [msg |-> m, pos |-> off + (i - L)]
    BY <2>1, <2>2
  <2>4. QED BY <2>3
<1>3. \A i \in (L + 1)..(L + k) : i < L + k => ~IsNul(r[i])
  <2> TAKE i \in (L + 1)..(L + k)
  <2> HAVE i < L + k
  <2>1. r[i].msg = m /\ r[i].pos = off + (i - L)
    BY <1>2
  <2>2. off + (i - L) # Size[m] + 1
    BY <1>0
  <2>3. QED BY <2>1, <2>2 DEF IsNul
<1>4. L # 0 /\ ~IsNul(s[L]) => s[L] = [msg |-> m, pos |-> off]
  BY <1>0
<1>5. L = 0 \/ IsNul(s[L]) => off = 0
  <2>1. CASE s # <<>> /\ s[L] = [msg |-> m, pos |-> off]
    BY <2>1, <1>0 DEF IsNul
  <2>2. QED BY <2>1, <1>0
<1>6. Contiguous(r)
  <2> SUFFICES ASSUME NEW i \in 1..(L + k), NEW j \in 1..(L + k), i <= j,
                      \A x \in i..(j - 1) : ~IsNul(r[x])
               PROVE r[j] = [msg |-> r[i].msg, pos |-> r[i].pos + (j - i)]
    BY <1>1 DEF Contiguous
  <2>1. CASE j <= L
    <3>1. \A x \in i..(j - 1) : ~IsNul(s[x])
      BY <2>1, <1>0, <1>1
    <3>2. i \in 1..L /\ j \in 1..L
      BY <2>1, <1>0
    <3>3. s[j] = [msg |-> s[i].msg, pos |-> s[i].pos + (j - i)]
      BY <3>1, <3>2, Follows
    <3>4. QED BY <3>2, <3>3, <1>1
  <2>2. CASE i > L
    <3>1. i \in (L + 1)..(L + k) /\ j \in (L + 1)..(L + k)
      BY <2>2, <1>0
    <3>2. r[i].msg = m /\ r[i].pos = off + (i - L) /\ r[j] = [msg |-> m, pos |-> off + (j - L)]
      BY <3>1, <1>2
    <3>3. off + (i - L) + (j - i) = off + (j - L)
      BY <1>0
    <3>4. QED BY <3>2, <3>3
  <2>3. CASE i <= L /\ L < j
    <3>1. L \in i..(j - 1) /\ L \in 1..L /\ i \in 1..L /\ j \in (L + 1)..(L + k)
      BY <2>3, <1>0
    <3>2. s[L] = [msg |-> m, pos |-> off]
      <4>1. L # 0 /\ r[L] = s[L] /\ ~IsNul(r[L])
        BY <3>1, <1>0, <1>1
      <4>2. QED BY <4>1, <1>4
    <3>3. \A x \in i..(L - 1) : ~IsNul(s[x])
      BY <3>1, <1>0, <1>1
    <3>4. s[L] = [msg |-> s[i].msg, pos |-> s[i].pos + (L - i)] /\ s[i].pos \in Nat
      BY <2>3, <3>1, <3>3, Follows
    <3>5. s[i].msg = m /\ s[i].pos + (L - i) = off
      <4>1. s[L].msg = m /\ s[L].pos = off
        BY <3>2
      <4>2. s[L].msg = s[i].msg /\ s[L].pos = s[i].pos + (L - i)
        BY <3>4
      <4>3. QED BY <4>1, <4>2
    <3>7. r[j] = [msg |-> m, pos |-> off + (j - L)] /\ r[i] = s[i]
      BY <3>1, <1>1, <1>2
    <3>8. off + (j - L) = s[i].pos + (j - i)
      <4>1. \A p \in Nat : p + (L - i) = off => off + (j - L) = p + (j - i)
        BY <1>0
      <4>2. QED BY <4>1, <3>4, <3>5
    <3>9. QED BY <3>5, <3>7, <3>8
  <2>4. QED BY <2>1, <2>2, <2>3, <1>0
<1>7. FreshStarts(r)
  <2> SUFFICES ASSUME NEW i \in 1..(L + k), i = 1 \/ IsNul(r[i - 1])
               PROVE r[i].pos = 1
    BY <1>1 DEF FreshStarts
  <2>1. CASE i <= L
    <3>1. i \in 1..L /\ (i # 1 => i - 1 \in 1..L)
      BY <2>1, <1>0
    <3>2. i = 1 \/ IsNul(s[i - 1])
      BY <3>1, <1>1
    <3>3. QED BY <3>1, <3>2, <1>1 DEF FreshStarts
  <2>2. CASE i = L + 1
    <3>1. L # 0 => r[L] = s[L] /\ i - 1 = L
      BY <2>2, <1>0, <1>1
    <3>2. off = 0
      BY <3>1, <2>2, <1>0, <1>5
    <3>3. r[i].pos = off + (i - L)
      <4>1. i \in (L + 1)..(L + k)
        BY <2>2, <1>0
      <4>2. QED BY <4>1, <1>2
    <3>4. QED BY <2>2, <3>2, <3>3, <1>0
  <2>3. CASE i > L + 1
    <3>1. i - 1 \in (L + 1)..(L + k) /\ i - 1 < L + k /\ i # 1
      BY <2>3, <1>0
    <3>2. QED BY <3>1, <1>3
  <2>4. i <= L \/ i = L + 1 \/ i > L + 1
    BY <1>0
  <2>5. QED BY <2>1, <2>2, <2>3, <2>4
<1>8. r # <<>> /\ r[Len(r)] = [msg |-> m, pos |-> off + k]
  <2>1. L + k \in (L + 1)..(L + k) /\ L + k - L = k /\ L + k # 0
    BY <1>0
  <2>2. QED BY <2>1, <1>1, <1>2, EmptySeq
<1>9. QED BY <1>6, <1>7, <1>8

\* Up to its first NUL a stream that starts afresh is one message.
LEMMA FirstMessage ==
  ASSUME NEW s \in Seq(Byte), Contiguous(s), FreshStarts(s),
         NEW p \in 1..Len(s), IsNul(s[p]), \A i \in 1..(p - 1) : ~IsNul(s[i])
  PROVE  \E m \in Msgs : p - 1 = Size[m] /\ \A i \in 1..(p - 1) : s[i] = [msg |-> m, pos |-> i]
<1>1. Len(s) \in Nat /\ DOMAIN s = 1..Len(s) /\ 1 \in 1..Len(s)
  BY LenProperties
<1>2. s[1] \in Byte /\ s[1].pos = 1
  BY <1>1, ElementOfSeq DEF FreshStarts
<1>3. \A j \in 1..p : s[j] = [msg |-> s[1].msg, pos |-> j]
  <2> TAKE j \in 1..p
  <2>1. s[j] = [msg |-> s[1].msg, pos |-> s[1].pos + (j - 1)]
    BY <1>1 DEF Contiguous
  <2>2. s[1].pos + (j - 1) = j
    BY <1>1, <1>2
  <2>3. QED BY <2>1, <2>2
<1>4. s[1].msg \in Msgs
  BY <1>2 DEF Byte
<1>5. p - 1 = Size[s[1].msg]
  <2>1. p \in 1..p /\ Size[s[1].msg] \in Nat
    BY <1>4, ConstantFacts
  <2>2. s[p] = [msg |-> s[1].msg, pos |-> p]
    BY <2>1, <1>3
  <2>3. p = Size[s[1].msg] + 1
    BY <2>2 DEF IsNul
  <2>4. QED BY <2>1, <2>3
<1>6. \A i \in 1..(p - 1) : i \in 1..p
  BY <1>1
<1>7. QED BY <1>3, <1>4, <1>5, <1>6

\* Behind a NUL a stream starts afresh.
LEMMA StreamBehindNul ==
  ASSUME NEW s \in Seq(Byte), Contiguous(s), FreshStarts(s),
         NEW p \in 1..Len(s), IsNul(s[p]),
         NEW r \in Seq(Byte), Len(r) = Len(s) - p, \A i \in 1..Len(r) : r[i] = s[p + i]
  PROVE  Contiguous(r) /\ FreshStarts(r)
<1>1. /\ Len(s) \in Nat /\ DOMAIN s = 1..Len(s) /\ DOMAIN r = 1..(Len(s) - p)
  BY LenProperties
<1>2. Contiguous(r)
  <2> SUFFICES ASSUME NEW i \in 1..Len(r), NEW j \in 1..Len(r), i <= j,
                      \A x \in i..(j - 1) : ~IsNul(r[x])
               PROVE r[j] = [msg |-> r[i].msg, pos |-> r[i].pos + (j - i)]
    BY <1>1 DEF Contiguous
  <2>1. p + i \in 1..Len(s) /\ p + j \in 1..Len(s) /\ p + i <= p + j /\ (p + j) - (p + i) = j - i
    BY <1>1
  <2>2. \A x \in (p + i)..((p + j) - 1) : ~IsNul(s[x])
    <3> TAKE x \in (p + i)..((p + j) - 1)
    <3>1. x - p \in i..(j - 1) /\ x - p \in 1..Len(r) /\ p + (x - p) = x
      BY <1>1
    <3>2. QED BY <3>1
  <2>3. s[p + j] = [msg |-> s[p + i].msg, pos |-> s[p + i].pos + (j - i)]
    BY <2>1, <2>2, Follows, ZenonT(60)
  <2>4. QED BY <2>3
<1>3. FreshStarts(r)
  <2> SUFFICES ASSUME NEW i \in 1..Len(r), i = 1 \/ IsNul(r[i - 1]) PROVE r[i].pos = 1
    BY <1>1 DEF FreshStarts
  <2>1. p + i \in 1..Len(s) /\ p + i # 1
    BY <1>1
  <2>2. IsNul(s[(p + i) - 1])
    <3>1. CASE i = 1
      <4>1. (p + i) - 1 = p BY <3>1
      <4>2. QED BY <4>1
    <3>2. CASE i # 1
      <4>1. i - 1 \in 1..Len(r) /\ p + (i - 1) = (p + i) - 1 BY <3>2, <1>1
      <4>2. QED BY <3>2, <4>1
    <3>3. QED BY <3>1, <3>2
  <2>3. s[p + i].pos = 1
    BY <2>1, <2>2, <1>1 DEF FreshStarts
  <2>4. QED BY <2>3
<1>4. QED BY <1>2, <1>3

-----------------------------------------------------------------------------
(* The queue and the writer.                                               *)

\* In a sound build there is one thread, and the queue knows its front.
LEMMA OneTask ==
  ASSUME Sound
  PROVE  Task = {"loop"} /\ CallbackTask = "loop" /\ TracksClean /\ ~OutputMayFail
BY DEF Sound, Task

\* The front of a queue as the proofs use it.
LEMMA FrontType ==
  ASSUME TypeOK, sentq # <<>>
  PROVE  /\ Head(sentq) = sentq[1] /\ sentq[1].msg \in Msgs /\ sentq[1].off \in Nat
         /\ sentq[1].off <= Size[sentq[1].msg] /\ Size[sentq[1].msg] \in Nat \ {0}
<1>1. Sane(sentq)
  BY DEF TypeOK, Sane, Entry
<1>2. Head(sentq) = sentq[1] /\ sentq[1] \in Entry /\ sentq[1].off <= Size[sentq[1].msg]
  BY <1>1, SaneFront
<1>3. sentq[1].msg \in Msgs /\ sentq[1].off \in Nat
  BY <1>2 DEF Entry
<1>4. QED BY <1>2, <1>3, ConstantFacts

\* A sender that is inside writeNext is connected.
LEMMA WritingConnected ==
  ASSUME QueueInv, pc["loop"] # "idle" PROVE sconn
BY DEF QueueInv

\* What freeRead leaves of the queue.
LEMMA FreeReadQueue ==
  ASSUME Sound, TypeOK, QueueInv, WriterInv, FreeRead("loop")
  PROVE  /\ last_read_size \in 1..(Size[sentq[1].msg] - sentq[1].off + 1)
         /\ clean' <=> last_read_size = Size[sentq[1].msg] - sentq[1].off + 1
         /\ \A i \in 2..Len(sentq') : sentq'[i].off = 0
         /\ clean' /\ sentq' # <<>> => sentq'[1].off = 0
         /\ ~clean' => /\ sentq' # <<>> /\ sentq'[1].msg = sentq[1].msg
                       /\ sentq'[1].off = sentq[1].off + last_read_size
<1> DEFINE e == Head(sentq)
           q == Tail(sentq)
           shorter == [e EXCEPT !.off = Least(e.off + last_read_size, Size[e.msg])]
           whole == last_read_size = Size[e.msg] - e.off + 1
<1>1. /\ sentq # <<>> /\ pc["loop"] = "freeRead"
      /\ sentq' = (IF whole THEN q ELSE <<shorter>> \o q)
      /\ clean' = (whole \/ ~TracksClean)
  BY DEF FreeRead, CleanAfter
<1>2. /\ e = sentq[1] /\ e.msg \in Msgs /\ e.off \in Nat /\ e.off <= Size[e.msg]
      /\ Size[e.msg] \in Nat
  BY <1>1, FrontType
<1>3. last_read_size \in 1..(Size[e.msg] - e.off + 1)
  BY <1>1, <1>2 DEF WriterInv
<1>4. clean' <=> whole
  BY <1>1, OneTask
<1>5. Sane(sentq) /\ e \in Entry /\ q \in Seq(Entry)
  <2>1. Sane(sentq)
    BY DEF TypeOK, Sane, Entry
  <2>2. QED BY <1>1, <2>1, SaneFront
<1>6. /\ Len(q) \in Nat /\ Len(q) = Len(sentq) - 1 /\ Len(sentq) \in Nat
      /\ \A i \in 1..Len(q) : q[i] = sentq[i + 1]
  BY <1>1, <1>5, HeadTailProperties, LenProperties DEF Sane
<1>7. \A i \in 1..Len(q) : q[i].off = 0
  BY <1>6 DEF QueueInv
<1>8. CASE whole
  <2>1. sentq' = q
    BY <1>1, <1>8
  <2>2. q # <<>> => 1 \in 1..Len(q)
    BY <1>5, <1>6, EmptySeq
  <2>3. \A i \in 2..Len(q) : i \in 1..Len(q)
    BY <1>6
  <2>4. QED BY <1>2, <1>3, <1>4, <1>7, <1>8, <2>1, <2>2, <2>3
<1>9. CASE ~whole
  <2>1. last_read_size \in Nat /\ e.off + last_read_size <= Size[e.msg]
    BY <1>2, <1>3, <1>9
  <2>2. Least(e.off + last_read_size, Size[e.msg]) = e.off + last_read_size
    BY <2>1 DEF Least
  <2>3. shorter \in Entry /\ shorter.msg = e.msg /\ shorter.off = e.off + last_read_size
    <3>1. e.off + last_read_size \in Nat
      BY <1>2, <2>1
    <3>2. QED BY <1>5, <2>2, <3>1 DEF Entry
  <2>4. sentq' = <<shorter>> \o q
    BY <1>1, <1>9
  <2> HIDE DEF shorter, e, q
  <2>5. <<shorter>> \in Seq(Entry) /\ Len(<<shorter>>) = 1 /\ <<shorter>>[1] = shorter
    BY <2>3
  <2>6. /\ Len(sentq') = 1 + Len(q) /\ sentq' \in Seq(Entry)
        /\ \A i \in 1..(1 + Len(q)) : sentq'[i] = IF i <= 1 THEN <<shorter>>[i] ELSE q[i - 1]
    BY <1>5, <2>4, <2>5, ConcatProperties
  <2>7. sentq'[1] = shorter /\ sentq' # <<>>
    BY <1>6, <2>5, <2>6, EmptySeq
  <2>8. \A i \in 2..Len(sentq') : sentq'[i].off = 0
    <3> TAKE i \in 2..Len(sentq')
    <3>1. i - 1 \in 1..Len(q) /\ i \in 1..(1 + Len(q)) /\ ~(i <= 1)
      BY <1>6, <2>6
    <3>2. sentq'[i] = q[i - 1]
      BY <2>6, <3>1
    <3>3. QED BY <1>7, <3>1, <3>2
  <2>9. QED BY <1>2, <1>3, <1>4, <1>9, <2>3, <2>7, <2>8
<1>10. QED BY <1>8, <1>9

\* What push leaves of the queue.
LEMMA PushQueue ==
  ASSUME TypeOK, QueueInv, sconn, NEW m \in Msgs
  PROVE  /\ Push(m) # <<>>
         /\ \A i \in 2..Len(Push(m)) : Push(m)[i].off = 0
         /\ clean => Push(m)[1].off = 0
         /\ ~clean => Push(m)[1] = sentq[1]
<1> DEFINE e == [msg |-> m, off |-> 0]
<1>1. e \in Entry /\ e.off = 0
  BY DEF Entry
<1> HIDE DEF e
<1>2. Sane(sentq) /\ sentq \in Seq(Entry)
  BY DEF TypeOK, Sane, Entry
<1>3. Len(sentq) \in Nat /\ (sentq = <<>> <=> Len(sentq) = 0)
  BY <1>2, LenProperties, EmptySeq
<1>4. clean => \A i \in 1..Len(sentq) : sentq[i].off = 0
  <2> HAVE clean
  <2> TAKE i \in 1..Len(sentq)
  <2>1. i = 1 \/ i \in 2..Len(sentq)
    BY <1>3
  <2>2. sentq # <<>>
    BY <1>3
  <2>3. QED BY <2>1, <2>2 DEF QueueInv
<1>5. \/ Push(m) = Append(sentq, e)
      \/ clean /\ Push(m) = <<e>> \o sentq
      \/ ~clean /\ Push(m) = <<Head(sentq), e>> \o Tail(sentq)
  BY DEF Push, e, TypeOK
<1>6. CASE Push(m) = Append(sentq, e)
  <2>1. /\ Len(Push(m)) = Len(sentq) + 1 /\ Push(m) \in Seq(Entry)
        /\ \A i \in 1..Len(sentq) : Push(m)[i] = sentq[i]
        /\ Push(m)[Len(sentq) + 1] = e
    BY <1>1, <1>2, <1>6, AppendProperties
  <2>2. \A i \in 2..Len(Push(m)) : Push(m)[i].off = 0
    <3> TAKE i \in 2..Len(Push(m))
    <3>1. (i = Len(sentq) + 1) \/ (i \in 1..Len(sentq) /\ i \in 2..Len(sentq))
      BY <1>3, <2>1
    <3>2. QED BY <3>1, <1>1, <2>1 DEF QueueInv
  <2>3. clean => Push(m)[1].off = 0
    <3>1. 1 \in 1..Len(sentq) \/ Len(sentq) + 1 = 1
      BY <1>3
    <3>2. QED BY <3>1, <1>1, <1>4, <2>1
  <2>4. ~clean => Push(m)[1] = sentq[1]
    <3> HAVE ~clean
    <3>1. 1 \in 1..Len(sentq)
      BY <1>3 DEF QueueInv
    <3>2. QED BY <3>1, <2>1
  <2>5. Push(m) # <<>>
    BY <1>3, <2>1, EmptySeq
  <2>6. QED BY <2>2, <2>3, <2>4, <2>5
<1>7. CASE clean /\ Push(m) = <<e>> \o sentq
  <2>1. <<e>> \in Seq(Entry) /\ Len(<<e>>) = 1 /\ <<e>>[1] = e
    BY <1>1
  <2>2. /\ Push(m) \in Seq(Entry) /\ Len(Push(m)) = 1 + Len(sentq)
        /\ \A i \in 1..(1 + Len(sentq)) :
             Push(m)[i] = IF i <= 1 THEN <<e>>[i] ELSE sentq[i - 1]
    BY <1>2, <1>7, <2>1, ConcatProperties
  <2>3. Push(m)[1] = e /\ Push(m) # <<>>
    BY <1>3, <2>1, <2>2, EmptySeq
  <2>4. \A i \in 2..Len(Push(m)) : Push(m)[i].off = 0
    <3> TAKE i \in 2..Len(Push(m))
    <3>1. i - 1 \in 1..Len(sentq) /\ i \in 1..(1 + Len(sentq)) /\ ~(i <= 1)
      BY <1>3, <2>2
    <3>2. Push(m)[i] = sentq[i - 1]
      BY <3>1, <2>2
    <3>3. QED BY <3>1, <3>2, <1>4, <1>7
  <2>5. QED BY <1>1, <1>7, <2>3, <2>4
<1>8. CASE ~clean /\ Push(m) = <<Head(sentq), e>> \o Tail(sentq)
  <2>1. sentq # <<>>
    BY <1>8 DEF QueueInv
  <2>2. Head(sentq) = sentq[1] /\ sentq[1] \in Entry /\ Tail(sentq) \in Seq(Entry)
    BY <1>2, <2>1, SaneFront
  <2>3. /\ Len(Tail(sentq)) = Len(sentq) - 1
        /\ \A i \in 1..Len(Tail(sentq)) : Tail(sentq)[i] = sentq[i + 1]
    BY <1>2, <2>1, HeadTailProperties
  <2>4. /\ <<Head(sentq), e>> \in Seq(Entry) /\ Len(<<Head(sentq), e>>) = 2
        /\ <<Head(sentq), e>>[1] = sentq[1] /\ <<Head(sentq), e>>[2] = e
    BY <1>1, <2>2
  <2>5. /\ Push(m) \in Seq(Entry) /\ Len(Push(m)) = 2 + Len(Tail(sentq))
        /\ \A i \in 1..(2 + Len(Tail(sentq))) :
             Push(m)[i] = IF i <= 2 THEN <<Head(sentq), e>>[i] ELSE Tail(sentq)[i - 2]
    BY <1>8, <2>2, <2>4, ConcatProperties
  <2>6. Push(m)[1] = sentq[1] /\ Push(m)[2] = e /\ Push(m) # <<>>
    <3>1. 1 \in 1..(2 + Len(Tail(sentq))) /\ 2 \in 1..(2 + Len(Tail(sentq)))
      BY <1>3, <2>1, <2>3
    <3>2. Len(Push(m)) # 0
      BY <1>3, <2>1, <2>3, <2>5
    <3>3. QED BY <3>1, <3>2, <2>4, <2>5, EmptySeq
  <2>7. \A i \in 2..Len(Push(m)) : Push(m)[i].off = 0
    <3> TAKE i \in 2..Len(Push(m))
    <3>1. CASE i = 2
      BY <3>1, <2>6, <1>1
    <3>2. CASE i # 2
      <4>1. /\ i - 2 \in 1..Len(Tail(sentq)) /\ ~(i <= 2) /\ i \in 1..(2 + Len(Tail(sentq)))
            /\ (i - 2) + 1 \in 2..Len(sentq)
        BY <3>2, <1>3, <2>1, <2>3, <2>5
      <4>2. Push(m)[i] = sentq[(i - 2) + 1]
        BY <4>1, <2>3, <2>5
      <4>3. QED BY <4>1, <4>2 DEF QueueInv
    <3>3. QED BY <3>1, <3>2
  <2>8. QED BY <1>8, <2>6, <2>7
<1>9. QED BY <1>5, <1>6, <1>7, <1>8

\* QueueInv is preserved by every step.
LEMMA QueueStep ==
  ASSUME Sound, TypeOK, QueueInv, WriterInv, [Next]_vars PROVE QueueInv'
<1> USE DEF sendVars, recvVars, connVars
<1>0. Task = {"loop"} /\ CallbackTask = "loop"
  BY OneTask
<1>1. ASSUME NEW m \in Msgs, AddMessage(m) PROVE QueueInv'
  <2>1. sconn /\ sconn' /\ clean' = clean /\ (sentq' = Push(m) \/ sentq' = sentq)
    BY <1>1 DEF AddMessage, AcceptMessage, DiscardMessage
  <2>2. CASE sentq' = Push(m)
    <3>1. /\ sentq' # <<>> /\ \A i \in 2..Len(sentq') : sentq'[i].off = 0
          /\ clean => sentq'[1].off = 0
          /\ ~clean => sentq'[1] = sentq[1]
      BY <2>1, <2>2, PushQueue
    <3>2. ~clean => sentq[1].off > 0
      BY <2>1 DEF QueueInv
    <3>3. QED BY <2>1, <3>1, <3>2 DEF QueueInv
  <2>3. CASE sentq' = sentq
    BY <2>1, <2>3 DEF QueueInv
  <2>4. QED BY <2>1, <2>2, <2>3
<1>2. ASSUME NEW t \in Task, ReadFront(t) \/ WriteReturns(t) \/ WriteTaken(t) \/ WriteFails(t)
      PROVE QueueInv'
  <2>1. pc["loop"] # "idle" /\ UNCHANGED <<sentq, clean, sconn>>
    BY <1>0, <1>2 DEF ReadFront, WriteReturns, WriteTaken, WriteFails
  <2>2. sconn
    BY <2>1, WritingConnected
  <2>3. QED BY <2>1, <2>2 DEF QueueInv
<1>3. ASSUME NEW t \in Task, FreeRead(t) PROVE QueueInv'
  <2>1. t = "loop" /\ pc["loop"] = "freeRead" /\ sconn' = sconn
    BY <1>0, <1>3 DEF FreeRead
  <2>2. sconn
    BY <2>1, WritingConnected
  <2>3. /\ last_read_size \in 1..(Size[sentq[1].msg] - sentq[1].off + 1)
        /\ \A i \in 2..Len(sentq') : sentq'[i].off = 0
        /\ clean' /\ sentq' # <<>> => sentq'[1].off = 0
        /\ ~clean' => sentq' # <<>> /\ sentq'[1].off = sentq[1].off + last_read_size
    BY <1>3, <2>1, FreeReadQueue
  <2>4. sentq # <<>>
    BY <1>3 DEF FreeRead
  <2>5. sentq[1].off + last_read_size > 0
    BY <2>3, <2>4, FrontType
  <2>6. QED BY <2>1, <2>2, <2>3, <2>5 DEF QueueInv
<1>4. ASSUME NEW n \in 1..ackable, TcpSentCb(n) PROVE QueueInv'
  BY <1>4 DEF TcpSentCb, QueueInv
<1>5. ASSUME NEW t \in Task, CloseSender(t) PROVE QueueInv'
  <2>1. sentq' = <<>> /\ ~sconn' /\ pc'["loop"] = "idle"
    BY <1>0, <1>5 DEF CloseSender
  <2>2. \A i \in 2..Len(sentq') : FALSE
    BY <2>1, EmptySeq
  <2>3. QED BY <2>1, <2>2 DEF QueueInv
<1>6. ASSUME UNCHANGED <<sentq, clean, sconn, pc>> PROVE QueueInv'
  BY <1>6 DEF QueueInv
<1>7. ASSUME NEW t \in Task, ReuseSharedBuffer(t) PROVE QueueInv'
  BY <1>6, <1>7 DEF ReuseSharedBuffer
<1>8. ASSUME NEW n \in Chunk, MeshRecvCb(n) PROVE QueueInv'
  BY <1>6, <1>8 DEF MeshRecvCb
<1>9. ASSUME ReadBufferTask \/ CloseReceiver PROVE QueueInv'
  BY <1>6, <1>9 DEF ReadBufferTask, CloseReceiver
<1>10. CASE UNCHANGED vars
  BY <1>6, <1>10 DEF vars
<1>11. QED
  BY <1>1, <1>2, <1>3, <1>4, <1>5, <1>7, <1>8, <1>9, <1>10, ConstantFacts
     DEF Next, NodeSyncTask, WriteNext, Msgs

\* A write that fails sends writeNext back to its caller.
LEMMA FailedWrite ==
  ASSUME TypeOK, WriterInv, Task = {"loop"}, WriteFails("loop")
  PROVE  pc'["loop"] = "idle"
<1>1. pc["loop"] = "write" /\ pc' = [pc EXCEPT !["loop"] = AfterWrite(0, len["loop"])]
  BY DEF WriteFails
<1>2. sentq # <<>> /\ len["loop"] \in 1..(Size[sentq[1].msg] - sentq[1].off + 1)
  BY <1>1 DEF WriterInv
<1>3. 0 # len["loop"]
  BY <1>2, FrontType
<1>4. QED BY <1>1, <1>3 DEF AfterWrite, TypeOK

\* WriterInv is preserved by every step.
LEMMA WriterStep ==
  ASSUME Sound, TypeOK, QueueInv, WriterInv, [Next]_vars PROVE WriterInv'
<1> USE DEF sendVars, recvVars, connVars
<1>0. Task = {"loop"} /\ CallbackTask = "loop" /\ ~OutputMayFail
  BY OneTask
<1>1. ASSUME pc'["loop"] \notin {"write", "freeRead"} PROVE WriterInv'
  BY <1>1 DEF WriterInv
<1>2. pc \in [Task -> {"idle", "writeNext", "write", "freeRead"}] /\ "loop" \in Task
  BY ConstantFacts DEF TypeOK
<1>3. ASSUME NEW m \in Msgs, AddMessage(m) PROVE WriterInv'
  <2>1. pc'["loop"] = "writeNext" \/ pc'["loop"] = "idle"
    BY <1>2, <1>3 DEF AddMessage, WriteIfCanSend
  <2>2. QED BY <1>1, <2>1
<1>4. ASSUME NEW t \in Task, ReadFront(t) PROVE WriterInv'
  <2> DEFINE n == Least(RequestLength, Space)
             e == Head(sentq)
  <2>1. /\ t = "loop" /\ sentq # <<>> /\ Space > 0
        /\ shared_buffer' = [i \in 1..MSS |-> IF i <= n THEN Rest(e)[i] ELSE Junk]
        /\ last_read_size' = n /\ len' = [len EXCEPT !["loop"] = n]
        /\ pc' = [pc EXCEPT !["loop"] = "write"]
        /\ UNCHANGED <<sentq, wire, ackable>>
    BY <1>0, <1>4 DEF ReadFront
  <2>2. /\ e = sentq[1] /\ e.msg \in Msgs /\ e.off \in Nat /\ e.off <= Size[e.msg]
        /\ Size[e.msg] \in Nat \ {0}
    BY <2>1, FrontType
  <2>3. Space \in Int
    BY ConstantFacts, LenProperties DEF Space, TypeOK
  <2>4. n \in 1..(Size[e.msg] - e.off + 1) /\ n <= MSS - 1 /\ n <= Space
    BY <2>1, <2>2, <2>3, ConstantFacts DEF Least, RequestLength
  <2> HIDE DEF n, e
  <2>5. len'["loop"] = n /\ pc'["loop"] = "write" /\ Space' = Space
    BY <1>2, <2>1 DEF TypeOK, Space
  <2>6. \A i \in 1..n : shared_buffer'[i] = [msg |-> e.msg, pos |-> e.off + i]
    <3> TAKE i \in 1..n
    <3>1. i \in 1..MSS /\ i <= n /\ i \in 1..(Size[e.msg] - e.off + 1)
      BY <2>2, <2>4, ConstantFacts
    <3>2. shared_buffer'[i] = Rest(e)[i]
      BY <2>1, <3>1
    <3>3. QED BY <3>1, <3>2 DEF Rest
  <2>7. QED BY <2>1, <2>2, <2>4, <2>5, <2>6 DEF WriterInv
<1>5. ASSUME NEW t \in Task, WriteReturns(t) PROVE WriterInv'
  <2>1. pc'["loop"] = "idle"
    BY <1>0, <1>2, <1>5 DEF WriteReturns
  <2>2. QED BY <1>1, <2>1
<1>5b. ASSUME NEW t \in Task, WriteFails(t) PROVE WriterInv'
  <2>1. pc'["loop"] = "idle"
    BY <1>0, <1>2, <1>5b, FailedWrite
  <2>2. QED BY <1>1, <2>1
<1>6. ASSUME NEW t \in Task, WriteTaken(t) PROVE WriterInv'
  <2>1. /\ pc["loop"] = "write" /\ UNCHANGED <<sentq, last_read_size, len>>
        /\ pc' = [pc EXCEPT !["loop"] = IF Least(len["loop"], Space) = len["loop"]
                                        THEN "freeRead" ELSE "idle"]
    BY <1>0, <1>6 DEF WriteTaken, AfterWrite
  <2>2. pc'["loop"] = "freeRead" \/ pc'["loop"] = "idle"
    BY <1>2, <2>1
  <2>3. QED BY <2>1, <2>2 DEF WriterInv
<1>7. ASSUME NEW t \in Task, FreeRead(t) PROVE WriterInv'
  <2>1. pc'["loop"] = "writeNext"
    BY <1>0, <1>2, <1>7 DEF FreeRead
  <2>2. QED BY <1>1, <2>1
<1>8. ASSUME NEW n \in 1..ackable, TcpSentCb(n) PROVE WriterInv'
  <2>1. pc'["loop"] = "writeNext"
    BY <1>0, <1>2, <1>8 DEF TcpSentCb
  <2>2. QED BY <1>1, <2>1
<1>9. ASSUME NEW t \in Task, ReuseSharedBuffer(t) \/ CloseSender(t) PROVE WriterInv'
  <2>1. pc'["loop"] = "idle"
    BY <1>0, <1>9 DEF ReuseSharedBuffer, CloseSender
  <2>2. QED BY <1>1, <2>1
<1>10. ASSUME UNCHANGED <<sendVars>>, Space' = Space PROVE WriterInv'
  BY <1>10 DEF WriterInv
<1>11. ASSUME NEW n \in Chunk, MeshRecvCb(n) PROVE WriterInv'
  <2>1. /\ UNCHANGED sendVars
        /\ wire' = SubSeq(wire, n + 1, Len(wire)) /\ ackable' = ackable + n
    BY <1>11 DEF MeshRecvCb
  <2>2. Len(wire) \in Nat /\ n \in 1..Len(wire) /\ wire \in Seq(Byte) /\ ackable \in Nat
    BY ConstantFacts, LenProperties DEF TypeOK, Chunk, Least
  <2>3. n + 1 \in 1..(Len(wire) + 1) /\ Len(wire) \in ((n + 1) - 1)..Len(wire)
    BY <2>2
  <2>4. Len(wire') = Len(wire) - (n + 1) + 1
    BY <2>1, <2>2, <2>3, Cut
  <2>5. Space' = Space
    <3>1. Space' = SndBuf - Len(wire') - ackable' /\ Space = SndBuf - Len(wire) - ackable
      BY DEF Space
    <3>2. Len(wire') = Len(wire) - n /\ ackable' = ackable + n
      BY <2>1, <2>2, <2>4
    <3>3. QED BY <2>2, <3>1, <3>2, ConstantFacts
  <2>6. QED BY <1>10, <2>1, <2>5
<1>12. ASSUME ReadBufferTask \/ CloseReceiver \/ UNCHANGED vars PROVE WriterInv'
  <2>1. UNCHANGED <<sendVars>> /\ Space' = Space
    BY <1>12 DEF ReadBufferTask, CloseReceiver, vars, Space
  <2>2. QED BY <1>10, <2>1
<1>13. QED
  BY <1>3, <1>4, <1>5, <1>5b, <1>6, <1>7, <1>8, <1>9, <1>11, <1>12, ConstantFacts
     DEF Next, NodeSyncTask, WriteNext, Msgs

-----------------------------------------------------------------------------
(* The stream between the queue and the strings at the receiver.           *)

\* A step that leaves the bytes alone keeps StreamInv if it keeps Boundary.
LEMMA SameStream ==
  ASSUME StreamInv, UNCHANGED <<buffer, wire, rconn>>,
         rconn /\ sconn' => sconn /\ (Boundary => Boundary')
  PROVE  StreamInv'
<1>1. Stream' = Stream
  BY DEF Stream
<1>2. rconn => /\ (Contiguous(Stream))' /\ (FreshStarts(Stream))'
               /\ (\A i \in DOMAIN buffer : ~IsNul(buffer[i]))'
  BY <1>1 DEF StreamInv, Contiguous, FreshStarts, IsNul
<1>3. QED BY <1>2 DEF StreamInv

\* write appends the bytes the queue goes on with.
LEMMA WriteStream ==
  ASSUME Sound, TypeOK, TypeOK', QueueInv, WriterInv, StreamInv, WriteTaken("loop")
  PROVE  /\ StreamInv'
         /\ pc["loop"] = "write" /\ pc'["loop"] = "freeRead" /\ sentq # <<>>
         /\ Stream \in Seq(Byte)
         /\ \E seg \in Seq(Byte) :
              /\ Stream' = Stream \o seg /\ Len(seg) \in Nat \ {0}
              /\ \A i \in 1..Len(seg) :
                   seg[i] = [msg |-> sentq[1].msg, pos |-> sentq[1].off + i]
<1> DEFINE m == sentq[1].msg
           o == sentq[1].off
           k == len["loop"]
           seg == SubSeq(shared_buffer, 1, k)
<1>1. pc["loop"] = "write" /\ UNCHANGED <<sentq, clean, last_read_size, len, buffer, rconn, sconn>>
  BY DEF WriteTaken, recvVars, connVars
<1>2. /\ sentq # <<>> /\ last_read_size = k /\ k \in 1..(Size[m] - o + 1) /\ k <= Space
      /\ \A i \in 1..k : shared_buffer[i] = [msg |-> m, pos |-> o + i]
  BY <1>1 DEF WriterInv
<1>3. m \in Msgs /\ o \in Nat /\ o <= Size[m] /\ Size[m] \in Nat \ {0}
  BY <1>2, FrontType
<1>4. sconn
  BY <1>1, WritingConnected
<1>5. k \in Nat \ {0} /\ o + k <= Size[m] + 1 /\ k <= MSS - 1
  <2>1. k \in 0..(MSS - 1)
    BY ConstantFacts DEF TypeOK
  <2> HIDE DEF k, m, o
  <2>2. QED BY <1>2, <1>3, <2>1, ConstantFacts
<1>6. Space \in Int
  BY ConstantFacts, LenProperties DEF Space, TypeOK
<1>7. Least(k, Space) = k
  BY <1>2, <1>5, <1>6 DEF Least
<1>8. wire' = wire \o seg /\ pc' = [pc EXCEPT !["loop"] = "freeRead"]
  BY <1>7 DEF WriteTaken, AfterWrite
<1>9. pc'["loop"] = "freeRead"
  BY <1>8, ConstantFacts DEF TypeOK
<1>10. seg \in Seq(Byte) /\ Len(seg) = k /\ \A i \in 1..k : seg[i] = [msg |-> m, pos |-> o + i]
  <2>1. shared_buffer \in Seq(Byte) /\ Len(shared_buffer) = MSS
    BY ConstantFacts, SMTT(60) DEF TypeOK
  <2>2. 1 \in 1..(Len(shared_buffer) + 1) /\ k \in (1 - 1)..Len(shared_buffer)
    BY <1>5, <2>1, ConstantFacts
  <2>3. seg \in Seq(Byte) /\ Len(seg) = k - 1 + 1
        /\ \A i \in 1..(k - 1 + 1) : seg[i] = shared_buffer[1 + i - 1]
    BY <2>1, <2>2, Cut
  <2>4. k - 1 + 1 = k /\ \A i \in 1..k : 1 + i - 1 = i
    BY <1>5
  <2>5. QED BY <1>2, <2>3, <2>4
<1>11. buffer \in Seq(Byte) /\ wire \in Seq(Byte)
  BY DEF TypeOK
<1> HIDE DEF seg, k, m, o
<1>12. /\ Stream \in Seq(Byte) /\ Stream' = Stream \o seg
  <2>1. Stream' = buffer \o (wire \o seg)
    BY <1>1, <1>8 DEF Stream
  <2>2. buffer \o (wire \o seg) = (buffer \o wire) \o seg
    BY <1>10, <1>11, ConcatAssociative, SMTT(60)
  <2>3. buffer \o wire \in Seq(Byte)
    BY <1>11, ConcatProperties
  <2>4. QED BY <2>1, <2>2, <2>3 DEF Stream
<1>13. Stream' \in Seq(Byte) /\ Extends(Stream', Stream, m, o, k)
  <2>1. /\ Stream \o seg \in Seq(Byte) /\ Len(Stream) \in Nat
        /\ Len(Stream \o seg) = Len(Stream) + Len(seg)
        /\ \A i \in 1..Len(Stream) : (Stream \o seg)[i] = Stream[i]
        /\ \A i \in 1..Len(seg) : (Stream \o seg)[Len(Stream) + i] = seg[i]
    BY <1>10, <1>12, JoinedBytes
  <2>2. QED BY <1>10, <1>12, <2>1 DEF Extends
<1>14. ASSUME rconn PROVE StreamInv'
  <2>1. Contiguous(Stream) /\ FreshStarts(Stream) /\ Boundary
        /\ \A i \in DOMAIN buffer : ~IsNul(buffer[i])
    BY <1>4, <1>14 DEF StreamInv
  <2>2. GoesOn(Stream, m, o)
    <3>1. CASE clean
      <4>1. o = 0
        BY <3>1, <1>2, <1>4 DEF QueueInv, o
      <4>2. Stream # <<>> => IsNul(Stream[Len(Stream)])
        BY <1>1, <2>1, <3>1 DEF Boundary
      <4>3. QED BY <4>1, <4>2 DEF GoesOn
    <3>2. CASE ~clean
      <4>1. \/ EndsWith([msg |-> m, pos |-> o + 0])
            \/ IsNul([msg |-> m, pos |-> o + 0])
        BY <1>1, <2>1, <3>2 DEF Boundary, m, o
      <4>2. o + 0 = o /\ ~IsNul([msg |-> m, pos |-> o])
        BY <1>3 DEF IsNul
      <4>3. QED BY <4>1, <4>2 DEF EndsWith, GoesOn
    <3>3. QED BY <3>1, <3>2
  <2>3. /\ Contiguous(Stream') /\ FreshStarts(Stream')
        /\ Stream' # <<>> /\ Stream'[Len(Stream')] = [msg |-> m, pos |-> o + k]
    BY <1>3, <1>5, <1>12, <1>13, <2>1, <2>2, StreamGrows
  <2>4. Boundary'
    <3>1. last_read_size' = k /\ sentq'[1].msg = m /\ sentq'[1].off = o
      BY <1>1, <1>2 DEF m, o
    <3>2. EndsWith([msg |-> sentq[1].msg, pos |-> sentq[1].off + last_read_size])' => Boundary'
      BY <1>9 DEF Boundary, EndsWith
    <3>3. QED BY <2>3, <3>1, <3>2 DEF EndsWith
  <2>5. (\A i \in DOMAIN buffer : ~IsNul(buffer[i]))'
    BY <1>1, <2>1 DEF IsNul
  <2>6. (Contiguous(Stream))' /\ (FreshStarts(Stream))'
    BY <2>3 DEF Contiguous, FreshStarts, IsNul
  <2>7. QED BY <2>4, <2>5, <2>6 DEF StreamInv
<1>15. ASSUME ~rconn PROVE StreamInv'
  BY <1>1, <1>15 DEF StreamInv
<1>16. /\ Stream' = Stream \o seg /\ Len(seg) \in Nat \ {0}
       /\ \A i \in 1..Len(seg) : seg[i] = [msg |-> sentq[1].msg, pos |-> sentq[1].off + i]
  BY <1>5, <1>10, <1>12 DEF m, o
<1>17. QED BY <1>1, <1>2, <1>9, <1>10, <1>12, <1>14, <1>15, <1>16

\* freeRead counts the bytes that were written as taken from the queue.
LEMMA FreeReadStream ==
  ASSUME Sound, TypeOK, QueueInv, WriterInv, StreamInv, FreeRead("loop")
  PROVE  StreamInv'
<1> DEFINE last == [msg |-> sentq[1].msg, pos |-> sentq[1].off + last_read_size]
<1>1. /\ pc["loop"] = "freeRead" /\ pc' = [pc EXCEPT !["loop"] = "writeNext"]
      /\ UNCHANGED <<buffer, wire, rconn, sconn>>
  BY DEF FreeRead, recvVars, connVars
<1>2. pc'["loop"] = "writeNext" /\ sconn
  BY <1>1, WritingConnected, ConstantFacts DEF TypeOK
<1>3. /\ last_read_size \in 1..(Size[sentq[1].msg] - sentq[1].off + 1)
      /\ clean' <=> last_read_size = Size[sentq[1].msg] - sentq[1].off + 1
      /\ ~clean' => /\ sentq' # <<>> /\ sentq'[1].msg = sentq[1].msg
                    /\ sentq'[1].off = sentq[1].off + last_read_size
  BY FreeReadQueue
<1>4. sentq[1].off \in Nat /\ Size[sentq[1].msg] \in Nat
  BY FrontType DEF FreeRead
<1>5. Stream' = Stream
  BY <1>1 DEF Stream
<1>6. Boundary => EndsWith(last) \/ (Stream = <<>> /\ IsNul(last))
  BY <1>1 DEF Boundary
<1>7. CASE clean'
  <2>1. IsNul(last)
    BY <1>3, <1>4, <1>7 DEF IsNul
  <2>2. Boundary => (Stream # <<>> => IsNul(Stream[Len(Stream)]))
    BY <1>6, <2>1 DEF EndsWith
  <2>3. Boundary => (Stream' # <<>> => IsNul(Stream'[Len(Stream')]))
    BY <1>5, <2>2
  <2>4. Boundary => Boundary'
    BY <1>2, <1>7, <2>3 DEF Boundary, IsNul
  <2>5. QED BY <1>1, <1>2, <2>4, SameStream
<1>8. CASE ~clean'
  <2>1. sentq'[1].off + 0 = sentq[1].off + last_read_size
    BY <1>3, <1>4, <1>8
  <2>2. [msg |-> sentq'[1].msg, pos |-> sentq'[1].off + 0] = last
    BY <1>3, <1>8, <2>1
  <2> HIDE DEF last
  <2>3. EndsWith(last) \/ (Stream = <<>> /\ IsNul(last)) => Boundary'
    BY <1>2, <1>5, <1>8, <2>2 DEF Boundary, EndsWith, IsNul
  <2>4. QED BY <1>1, <1>2, <1>6, <2>3, SameStream
<1>9. QED BY <1>7, <1>8

\* push never puts anything before what has partly left.
LEMMA AddStream ==
  ASSUME Sound, TypeOK, QueueInv, StreamInv, NEW m \in Msgs, AddMessage(m)
  PROVE  StreamInv'
<1>1. /\ sconn /\ pc["loop"] = "idle" /\ UNCHANGED <<buffer, wire, rconn, sconn, clean>>
      /\ sentq' = Push(m) \/ sentq' = sentq
  BY DEF AddMessage, AcceptMessage, DiscardMessage, recvVars, connVars
<1>2. pc'["loop"] # "freeRead"
  BY ConstantFacts DEF AddMessage, WriteIfCanSend, TypeOK
<1>3. ~clean => sentq'[1] = sentq[1]
  BY <1>1, PushQueue
<1>4. Stream' = Stream
  BY <1>1 DEF Stream
<1>5. Boundary => Boundary'
  <2>1. CASE clean
    BY <1>1, <1>2, <1>4, <2>1 DEF Boundary, IsNul
  <2>2. CASE ~clean
    BY <1>1, <1>2, <1>3, <1>4, <2>2 DEF Boundary, EndsWith, IsNul
  <2>3. QED BY <2>1, <2>2
<1>6. QED BY <1>1, <1>5, SameStream

\* What meshRecvCb sees: the bytes up to the one it looks at last.
LEMMA Received ==
  ASSUME TypeOK, StreamInv, NEW n \in Chunk, MeshRecvCb(n)
  PROVE  /\ buffer \in Seq(Byte) /\ wire \in Seq(Byte) /\ Stream \in Seq(Byte)
         /\ Len(buffer) \in Nat /\ Len(wire) \in Nat /\ n \in 1..Len(wire)
         /\ Len(Stream) = Len(buffer) + Len(wire)
         /\ \A i \in 1..Len(buffer) : Stream[i] = buffer[i]
         /\ \A i \in 1..Len(wire) : Stream[Len(buffer) + i] = wire[i]
         /\ \A i \in 1..(Len(buffer) + n - 1) : ~IsNul(Stream[i])
         /\ SubSeq(wire, 1, n) \in Seq(Byte) /\ Len(SubSeq(wire, 1, n)) = n
         /\ \A i \in 1..n : SubSeq(wire, 1, n)[i] = wire[i]
<1>1. /\ buffer \in Seq(Byte) /\ wire \in Seq(Byte) /\ Len(buffer) \in Nat /\ Len(wire) \in Nat
      /\ DOMAIN buffer = 1..Len(buffer)
  BY LenProperties DEF TypeOK
<1>2. n \in 1..Len(wire)
  BY <1>1, ConstantFacts DEF Chunk, Least
<1>3. /\ Stream \in Seq(Byte) /\ Len(Stream) = Len(buffer) + Len(wire)
      /\ \A i \in 1..Len(buffer) : Stream[i] = buffer[i]
      /\ \A i \in 1..Len(wire) : Stream[Len(buffer) + i] = wire[i]
  BY <1>1, JoinedBytes DEF Stream
<1>4. /\ SubSeq(wire, 1, n) \in Seq(Byte) /\ Len(SubSeq(wire, 1, n)) = n
      /\ \A i \in 1..n : SubSeq(wire, 1, n)[i] = wire[i]
  <2>1. 1 \in 1..(Len(wire) + 1) /\ n \in (1 - 1)..Len(wire)
    BY <1>1, <1>2
  <2>2. /\ SubSeq(wire, 1, n) \in Seq(Byte) /\ Len(SubSeq(wire, 1, n)) = n - 1 + 1
        /\ \A i \in 1..(n - 1 + 1) : SubSeq(wire, 1, n)[i] = wire[1 + i - 1]
    BY <1>1, <2>1, Cut
  <2>3. n - 1 + 1 = n /\ \A i \in 1..n : 1 + i - 1 = i
    BY <1>2
  <2>4. QED BY <2>2, <2>3
<1>5. \A i \in 1..(Len(buffer) + n - 1) : ~IsNul(Stream[i])
  <2> TAKE i \in 1..(Len(buffer) + n - 1)
  <2>1. CASE i <= Len(buffer)
    <3>1. i \in 1..Len(buffer)
      BY <2>1, <1>1
    <3>2. ~IsNul(buffer[i])
      BY <1>1, <3>1 DEF StreamInv, MeshRecvCb
    <3>3. QED BY <1>3, <3>1, <3>2
  <2>2. CASE i > Len(buffer)
    <3>1. /\ i - Len(buffer) \in 1..(n - 1) /\ i - Len(buffer) \in 1..n
          /\ i - Len(buffer) \in 1..Len(wire) /\ Len(buffer) + (i - Len(buffer)) = i
      BY <2>2, <1>1, <1>2
    <3>2. ~IsNul(SubSeq(wire, 1, n)[i - Len(buffer)])
      BY <3>1 DEF MeshRecvCb
    <3>3. SubSeq(wire, 1, n)[i - Len(buffer)] = Stream[i]
      BY <3>1, <1>3, <1>4
    <3>4. QED BY <3>2, <3>3
  <2>3. QED BY <2>1, <2>2, <1>1
<1>6. QED BY <1>1, <1>2, <1>3, <1>4, <1>5

\* Bytes without a NUL only move from the wire to the buffer.
LEMMA RecvUncut ==
  ASSUME TypeOK, StreamInv, NEW n \in Chunk, MeshRecvCb(n), ~IsNul(wire[n])
  PROVE  StreamInv' /\ recvq' = recvq /\ Stream' = Stream
<1> DEFINE data == SubSeq(wire, 1, n)
           rest == SubSeq(wire, n + 1, Len(wire))
<1>1. /\ buffer \in Seq(Byte) /\ wire \in Seq(Byte) /\ Stream \in Seq(Byte)
      /\ Len(buffer) \in Nat /\ Len(wire) \in Nat /\ n \in 1..Len(wire)
      /\ \A i \in 1..(Len(buffer) + n - 1) : ~IsNul(Stream[i])
      /\ data \in Seq(Byte) /\ Len(data) = n /\ \A i \in 1..n : data[i] = wire[i]
  BY Received
<1>2. /\ \A i \in 1..Len(buffer) : Stream[i] = buffer[i]
      /\ \A i \in 1..Len(wire) : Stream[Len(buffer) + i] = wire[i]
  BY Received
<1>3. n \in 1..n /\ ~IsNul(data[n])
  <2>1. n \in 1..n /\ data[n] = wire[n]
    BY <1>1
  <2>2. QED BY <2>1
<1>4. /\ buffer' = buffer \o data /\ recvq' = recvq /\ wire' = rest
      /\ rconn /\ rconn' = rconn /\ sconn' = sconn
      /\ UNCHANGED <<sentq, clean, last_read_size, pc>>
  BY <1>3 DEF MeshRecvCb, sendVars, connVars
<1>5. rest \in Seq(Byte)
  <2>1. n + 1 \in 1..(Len(wire) + 1) /\ Len(wire) \in ((n + 1) - 1)..Len(wire)
    BY <1>1
  <2>2. QED BY <1>1, <2>1, Cut
<1>6. data \o rest = wire
  <2>1. 1 \in 1..(Len(wire) + 1) /\ n \in (1 - 1)..Len(wire) /\ Len(wire) \in n..Len(wire)
    BY <1>1
  <2>2. data \o rest = SubSeq(wire, 1, Len(wire))
    BY <1>1, <2>1, ConcatAdjacentSubSeq
  <2>3. QED BY <1>1, <2>2, SubSeqFull
<1> HIDE DEF data, rest
<1>7. Stream' = Stream
  <2>1. buffer \in Seq(Byte) /\ data \in Seq(Byte) /\ rest \in Seq(Byte)
    BY <1>1, <1>5
  <2>2. (buffer \o data) \o rest = buffer \o (data \o rest)
    BY <2>1, ConcatAssociative, SMTT(20)
  <2>3. QED BY <1>4, <1>6, <2>2 DEF Stream
<1>8. \A i \in DOMAIN buffer' : ~IsNul(buffer'[i])
  <2>1. /\ buffer' \in Seq(Byte) /\ Len(buffer') = Len(buffer) + n
        /\ \A i \in 1..Len(buffer) : buffer'[i] = buffer[i]
        /\ \A i \in 1..n : buffer'[Len(buffer) + i] = data[i]
    BY <1>1, <1>4, JoinedBytes, ZenonT(60)
  <2>2. \A i \in 1..(Len(buffer) + n) : ~IsNul(buffer'[i])
    <3> TAKE i \in 1..(Len(buffer) + n)
    <3>0. Len(buffer) \in Nat /\ Len(wire) \in Nat /\ n \in 1..Len(wire)
      BY <1>1
    <3>1. CASE i \in 1..Len(buffer)
      <4>0. i \in 1..(Len(buffer) + n - 1)
        BY <3>0, <3>1
      <4>1. buffer'[i] = Stream[i]
        BY <3>1, <1>2, <2>1
      <4>2. QED BY <4>0, <4>1, <1>1
    <3>2. CASE i = Len(buffer) + n
      <4>1. buffer'[i] = data[n]
        BY <3>2, <1>3, <2>1
      <4>2. QED BY <4>1, <1>3
    <3>3. CASE i > Len(buffer) /\ i < Len(buffer) + n
      <4>1. /\ i - Len(buffer) \in 1..n /\ i - Len(buffer) \in 1..Len(wire)
            /\ Len(buffer) + (i - Len(buffer)) = i /\ i \in 1..(Len(buffer) + n - 1)
        BY <3>0, <3>3
      <4>2. buffer'[i] = Stream[i]
        BY <4>1, <1>1, <1>2, <2>1, ZenonT(60)
      <4>3. QED BY <4>1, <4>2, <1>1
    <3>4. QED BY <3>0, <3>1, <3>2, <3>3
  <2>3. QED BY <2>1, <2>2, LenProperties
<1>9. Boundary => Boundary'
  BY <1>4, <1>7 DEF Boundary, EndsWith, IsNul
<1>10. (Contiguous(Stream))' /\ (FreshStarts(Stream))'
  BY <1>4, <1>7 DEF StreamInv, Contiguous, FreshStarts, IsNul
<1>11. (\A i \in DOMAIN buffer : ~IsNul(buffer[i]))'
  BY <1>8 DEF IsNul
<1>12. QED BY <1>4, <1>7, <1>9, <1>10, <1>11 DEF StreamInv

\* A NUL completes a string, which is a message, and the stream starts afresh
\* behind it.
LEMMA RecvCut ==
  ASSUME TypeOK, StreamInv, NEW n \in Chunk, MeshRecvCb(n), IsNul(wire[n])
  PROVE  /\ StreamInv'
         /\ \E m \in Msgs :
              /\ recvq' = Append(recvq, Body(m))
              /\ Size[m] + 1 \in 1..Len(Stream) /\ IsNul(Stream[Size[m] + 1])
              /\ \A i \in 1..Size[m] : Stream[i] = [msg |-> m, pos |-> i]
              /\ Stream' \in Seq(Byte) /\ Len(Stream') = Len(Stream) - (Size[m] + 1)
              /\ \A i \in 1..Len(Stream') : Stream'[i] = Stream[Size[m] + 1 + i]
<1> DEFINE data == SubSeq(wire, 1, n)
           rest == SubSeq(wire, n + 1, Len(wire))
           head == SubSeq(data, 1, n - 1)
           text == buffer \o head
           p == Len(buffer) + n
<1>1. /\ buffer \in Seq(Byte) /\ wire \in Seq(Byte) /\ Stream \in Seq(Byte)
      /\ Len(buffer) \in Nat /\ Len(wire) \in Nat /\ n \in 1..Len(wire)
      /\ Len(Stream) = Len(buffer) + Len(wire)
      /\ \A i \in 1..(Len(buffer) + n - 1) : ~IsNul(Stream[i])
      /\ data \in Seq(Byte) /\ Len(data) = n /\ \A i \in 1..n : data[i] = wire[i]
  BY Received
<1>2. /\ \A i \in 1..Len(buffer) : Stream[i] = buffer[i]
      /\ \A i \in 1..Len(wire) : Stream[Len(buffer) + i] = wire[i]
  BY Received
<1>3. n \in 1..n /\ IsNul(data[n])
  <2>1. n \in 1..n /\ data[n] = wire[n]
    BY <1>1
  <2>2. QED BY <2>1
<1>4. /\ buffer' = <<>> /\ wire' = rest
      /\ recvq' = IF text # <<>> THEN Append(recvq, text) ELSE recvq
      /\ rconn /\ rconn' = rconn /\ sconn' = sconn
      /\ UNCHANGED <<sentq, clean, last_read_size, pc>>
  BY <1>3 DEF MeshRecvCb, sendVars, connVars
<1>5. Contiguous(Stream) /\ FreshStarts(Stream)
  BY <1>4 DEF StreamInv
<1>6. p \in 1..Len(Stream) /\ IsNul(Stream[p]) /\ \A i \in 1..(p - 1) : ~IsNul(Stream[i])
  <2>1. /\ Len(buffer) \in Nat /\ Len(wire) \in Nat /\ n \in 1..Len(wire)
        /\ Len(Stream) = Len(buffer) + Len(wire)
    BY <1>1
  <2>2. p \in 1..Len(Stream) /\ p - 1 = Len(buffer) + n - 1
    BY <2>1
  <2>3. Stream[p] = wire[n]
    BY <1>2, <2>1
  <2>4. QED BY <1>1, <2>2, <2>3
<1>7. rest \in Seq(Byte) /\ Len(rest) = Len(wire) - n /\ \A i \in 1..Len(rest) : rest[i] = wire[n + i]
  <2>1. n + 1 \in 1..(Len(wire) + 1) /\ Len(wire) \in ((n + 1) - 1)..Len(wire)
    BY <1>1
  <2>2. /\ rest \in Seq(Byte) /\ Len(rest) = Len(wire) - (n + 1) + 1
        /\ \A i \in 1..(Len(wire) - (n + 1) + 1) : rest[i] = wire[(n + 1) + i - 1]
    BY <1>1, <2>1, Cut
  <2>3. /\ Len(wire) - (n + 1) + 1 = Len(wire) - n
        /\ \A i \in 1..(Len(wire) - n) : (n + 1) + i - 1 = n + i
    BY <1>1
  <2>4. QED BY <2>2, <2>3
<1>8. head \in Seq(Byte) /\ Len(head) = n - 1 /\ \A i \in 1..(n - 1) : head[i] = wire[i]
  <2>1. 1 \in 1..(Len(data) + 1) /\ n - 1 \in (1 - 1)..Len(data)
    BY <1>1
  <2>2. /\ head \in Seq(Byte) /\ Len(head) = (n - 1) - 1 + 1
        /\ \A i \in 1..((n - 1) - 1 + 1) : head[i] = data[1 + i - 1]
    BY <1>1, <2>1, Cut
  <2>3. (n - 1) - 1 + 1 = n - 1 /\ \A i \in 1..(n - 1) : 1 + i - 1 = i /\ i \in 1..n
    BY <1>1
  <2>4. QED BY <1>1, <2>2, <2>3
<1> HIDE DEF data, rest, head, p
<1>9. /\ text \in Seq(Byte) /\ Len(text) = Len(buffer) + (n - 1)
      /\ \A i \in 1..Len(buffer) : text[i] = buffer[i]
      /\ \A i \in 1..(n - 1) : text[Len(buffer) + i] = head[i]
  <2>1. buffer \in Seq(Byte) /\ head \in Seq(Byte) /\ Len(head) = n - 1
    BY <1>1, <1>8
  <2>2. /\ buffer \o head \in Seq(Byte) /\ Len(buffer \o head) = Len(buffer) + Len(head)
        /\ \A i \in 1..Len(buffer) : (buffer \o head)[i] = buffer[i]
        /\ \A i \in 1..Len(head) : (buffer \o head)[Len(buffer) + i] = head[i]
    BY <2>1, JoinedBytes
  <2>3. QED BY <2>1, <2>2
<1> HIDE DEF text
<1>10. Len(text) = p - 1 /\ \A i \in 1..(p - 1) : text[i] = Stream[i]
  <2>1. Len(text) = p - 1
    BY <1>1, <1>9 DEF p
  <2>2. \A i \in 1..(p - 1) : text[i] = Stream[i]
    <3> TAKE i \in 1..(p - 1)
    <3>1. CASE i \in 1..Len(buffer)
      BY <3>1, <1>2, <1>9
    <3>2. CASE i \notin 1..Len(buffer)
      <4>1. /\ i - Len(buffer) \in 1..(n - 1) /\ i - Len(buffer) \in 1..Len(wire)
            /\ Len(buffer) + (i - Len(buffer)) = i
        BY <3>2, <1>1 DEF p
      <4>2. QED BY <4>1, <1>2, <1>8, <1>9, ZenonT(60)
    <3>3. QED BY <3>1, <3>2
  <2>3. QED BY <2>1, <2>2
<1>11. PICK m \in Msgs : p - 1 = Size[m] /\ \A i \in 1..(p - 1) : Stream[i] = [msg |-> m, pos |-> i]
  BY <1>1, <1>5, <1>6, FirstMessage
<1>12. text = Body(m) /\ text # <<>>
  <2>1. Len(text) = Size[m] /\ \A i \in 1..Size[m] : text[i] = [msg |-> m, pos |-> i]
    BY <1>10, <1>11
  <2>2. DOMAIN text = 1..Size[m] /\ text = [i \in 1..Size[m] |-> text[i]]
    BY <1>9, <2>1, LenProperties
  <2>3. text = Body(m)
    BY <2>1, <2>2 DEF Body
  <2>4. Size[m] # 0
    BY ConstantFacts
  <2>5. QED BY <1>9, <2>1, <2>3, <2>4, EmptySeq
<1>13. recvq' = Append(recvq, Body(m))
  BY <1>4, <1>12
<1>14. Stream' = rest
  BY <1>4, <1>7, ConcatEmptySeq DEF Stream
<1>15. Len(rest) = Len(Stream) - p /\ \A i \in 1..Len(rest) : rest[i] = Stream[p + i]
  <2>1. Len(rest) = Len(Stream) - p
    BY <1>1, <1>7 DEF p
  <2>2. \A i \in 1..Len(rest) : n + i \in 1..Len(wire) /\ p + i = Len(buffer) + (n + i)
    BY <1>1, <1>7 DEF p
  <2>3. QED BY <1>2, <1>7, <2>1, <2>2
<1>16. Contiguous(rest) /\ FreshStarts(rest)
  BY <1>1, <1>5, <1>6, <1>7, <1>15, StreamBehindNul
<1>17. (Contiguous(Stream))' /\ (FreshStarts(Stream))'
  BY <1>14, <1>16 DEF Contiguous, FreshStarts, IsNul
<1>18. (\A i \in DOMAIN buffer : ~IsNul(buffer[i]))'
  BY <1>4, EmptySeq DEF IsNul
<1>19. Stream' # <<>> => Stream'[Len(Stream')] = Stream[Len(Stream)]
  <2>1. Stream' # <<>> => Len(rest) \in 1..Len(rest) /\ p + Len(rest) = Len(Stream)
    <3>1. Len(rest) \in Nat /\ (Stream' # <<>> => Len(rest) # 0)
      BY <1>7, <1>14, EmptySeq, LenProperties
    <3>2. p \in Int /\ Len(Stream) \in Int /\ Len(rest) = Len(Stream) - p
      BY <1>1, <1>6, <1>15
    <3>3. QED BY <3>1, <3>2
  <2>2. QED BY <1>14, <1>15, <2>1
<1>20. Stream' = <<>> => IsNul(Stream[Len(Stream)])
  <2>1. Stream' = <<>> => Len(Stream) = p
    BY <1>1, <1>6, <1>14, <1>15, EmptySeq
  <2>2. QED BY <1>6, <2>1
<1>21. Stream # <<>>
  BY <1>1, <1>6, EmptySeq
<1>22. Boundary => Boundary'
  <2>1. CASE clean /\ pc["loop"] # "freeRead"
    BY <1>4, <1>19, <1>21, <2>1 DEF Boundary, IsNul
  <2>2. CASE ~(clean /\ pc["loop"] # "freeRead")
    BY <1>4, <1>19, <1>20, <1>21, <2>2 DEF Boundary, EndsWith, IsNul
  <2>3. QED BY <2>1, <2>2
<1>23. StreamInv'
  BY <1>4, <1>17, <1>18, <1>22 DEF StreamInv
<1>24. p = Size[m] + 1 /\ p - 1 = Size[m]
  <2>1. p \in Int /\ Size[m] \in Int
    BY <1>1, <1>6, ConstantFacts
  <2>2. QED BY <1>11, <2>1
<1>25. /\ Size[m] + 1 \in 1..Len(Stream) /\ IsNul(Stream[Size[m] + 1])
       /\ \A i \in 1..Size[m] : Stream[i] = [msg |-> m, pos |-> i]
  BY <1>6, <1>11, <1>24
<1>26. /\ Stream' \in Seq(Byte) /\ Len(Stream') = Len(Stream) - (Size[m] + 1)
       /\ \A i \in 1..Len(Stream') : Stream'[i] = Stream[Size[m] + 1 + i]
  BY <1>7, <1>14, <1>15, <1>24
<1>27. QED BY <1>13, <1>23, <1>25, <1>26

\* StreamInv is preserved by every step.
LEMMA StreamStep ==
  ASSUME Sound, TypeOK, TypeOK', QueueInv, WriterInv, StreamInv, [Next]_vars PROVE StreamInv'
<1> USE DEF sendVars, recvVars, connVars
<1>0. Task = {"loop"} /\ CallbackTask = "loop" /\ ~OutputMayFail
  BY OneTask
<1>1. ASSUME NEW m \in Msgs, AddMessage(m) PROVE StreamInv'
  BY <1>1, AddStream
<1>2. ASSUME UNCHANGED <<buffer, wire, rconn, sconn, sentq, clean>>,
             pc["loop"] # "freeRead", pc'["loop"] # "freeRead"
      PROVE  StreamInv'
  <2>1. Stream' = Stream
    BY <1>2 DEF Stream
  <2>2. Boundary => Boundary'
    BY <1>2, <2>1 DEF Boundary, EndsWith, IsNul
  <2>3. QED BY <1>2, <2>2, SameStream
<1>3. "loop" \in Task /\ pc \in [Task -> {"idle", "writeNext", "write", "freeRead"}]
  BY <1>0 DEF TypeOK
<1>4. ASSUME NEW t \in Task, ReadFront(t) \/ WriteReturns(t) PROVE StreamInv'
  <2>1. /\ UNCHANGED <<buffer, wire, rconn, sconn, sentq, clean>>
        /\ pc["loop"] # "freeRead" /\ pc'["loop"] # "freeRead"
    BY <1>0, <1>3, <1>4 DEF ReadFront, WriteReturns
  <2>2. QED BY <1>2, <2>1
<1>5. ASSUME NEW t \in Task, WriteTaken(t) PROVE StreamInv'
  BY <1>0, <1>5, WriteStream
<1>6. ASSUME NEW t \in Task, WriteFails(t) PROVE StreamInv'
  <2>1. /\ UNCHANGED <<buffer, rconn, sconn, sentq, clean>>
        /\ pc["loop"] # "freeRead" /\ pc'["loop"] # "freeRead"
    BY <1>0, <1>6, FailedWrite DEF WriteFails
  <2>2. wire' = wire \o SubSeq(shared_buffer, 1, 0)
    BY <1>0, <1>6 DEF WriteFails
  <2>3. wire' = wire
    <3>1. SubSeq(shared_buffer, 1, 0) = <<>>
      BY SubSeqEmpty
    <3>2. QED BY <2>2, <3>1, ConcatEmptySeq DEF TypeOK
  <2>4. QED BY <1>2, <2>1, <2>3
<1>7. ASSUME NEW t \in Task, FreeRead(t) PROVE StreamInv'
  BY <1>0, <1>7, FreeReadStream
<1>8. ASSUME NEW n \in 1..ackable, TcpSentCb(n) PROVE StreamInv'
  <2>1. /\ UNCHANGED <<buffer, wire, rconn, sconn, sentq, clean>>
        /\ pc["loop"] # "freeRead" /\ pc'["loop"] # "freeRead"
    BY <1>0, <1>3, <1>8 DEF TcpSentCb
  <2>2. QED BY <1>2, <2>1
<1>9. ASSUME NEW t \in Task, ReuseSharedBuffer(t) PROVE StreamInv'
  <2>1. /\ UNCHANGED <<buffer, wire, rconn, sconn, sentq, clean>>
        /\ pc["loop"] # "freeRead" /\ pc'["loop"] # "freeRead"
    BY <1>0, <1>3, <1>9 DEF ReuseSharedBuffer
  <2>2. QED BY <1>2, <2>1
<1>10. ASSUME NEW t \in Task, CloseSender(t) PROVE StreamInv'
  <2>1. UNCHANGED <<buffer, wire, rconn>> /\ ~sconn'
    BY <1>10 DEF CloseSender
  <2>2. QED BY <2>1, SameStream
<1>11. ASSUME NEW n \in Chunk, MeshRecvCb(n) PROVE StreamInv'
  BY <1>11, RecvCut, RecvUncut
<1>12. ASSUME UNCHANGED <<buffer, wire, rconn, sconn, sentq, clean, last_read_size, pc>>
       PROVE  StreamInv'
  <2>1. Stream' = Stream
    BY <1>12 DEF Stream
  <2>2. Boundary => Boundary'
    BY <1>12, <2>1 DEF Boundary, EndsWith, IsNul
  <2>3. QED BY <1>12, <2>2, SameStream
<1>13. ASSUME ReadBufferTask \/ UNCHANGED vars PROVE StreamInv'
  BY <1>12, <1>13 DEF ReadBufferTask, vars
<1>14. ASSUME CloseReceiver PROVE StreamInv'
  BY <1>14 DEF CloseReceiver, StreamInv
<1>15. QED
  BY <1>1, <1>4, <1>5, <1>6, <1>7, <1>8, <1>9, <1>10, <1>11, <1>13, <1>14, ConstantFacts
     DEF Next, NodeSyncTask, WriteNext, Msgs

-----------------------------------------------------------------------------
(* The strings at the receiver.                                            *)

\* Appending a message to, and taking the oldest string from, a sequence of
\* messages leaves a sequence of messages.
LEMMA WholeAppend ==
  ASSUME NEW q \in Seq(Seq(Byte)), \A i \in DOMAIN q : Whole(q[i]),
         NEW x \in Seq(Byte), Whole(x)
  PROVE  \A i \in DOMAIN Append(q, x) : Whole(Append(q, x)[i])
<1>1. /\ Len(Append(q, x)) = Len(q) + 1 /\ Append(q, x) \in Seq(Seq(Byte))
      /\ \A i \in 1..Len(q) : Append(q, x)[i] = q[i]
      /\ Append(q, x)[Len(q) + 1] = x
  BY AppendProperties
<1>2. Len(q) \in Nat /\ DOMAIN q = 1..Len(q) /\ DOMAIN Append(q, x) = 1..(Len(q) + 1)
  BY <1>1, LenProperties
<1>3. SUFFICES ASSUME NEW i \in 1..(Len(q) + 1) PROVE Whole(Append(q, x)[i])
  BY <1>2
<1>4. CASE i = Len(q) + 1
  BY <1>1, <1>4
<1>5. CASE i # Len(q) + 1
  <2>1. i \in 1..Len(q)
    BY <1>2, <1>5
  <2>2. QED BY <1>1, <1>2, <2>1
<1>6. QED BY <1>4, <1>5

LEMMA WholeTail ==
  ASSUME NEW q \in Seq(Seq(Byte)), q # <<>>, \A i \in DOMAIN q : Whole(q[i])
  PROVE  /\ Head(q) \in Seq(Byte) /\ Whole(Head(q))
         /\ \A i \in DOMAIN Tail(q) : Whole(Tail(q)[i])
<1>1. Len(q) \in Nat \ {0} /\ DOMAIN q = 1..Len(q)
  BY LenProperties, EmptySeq
<1>2. Head(q) = q[1] /\ q[1] \in Seq(Byte)
  BY <1>1, ElementOfSeq
<1>3. /\ Tail(q) \in Seq(Seq(Byte)) /\ Len(Tail(q)) = Len(q) - 1
      /\ \A i \in 1..Len(Tail(q)) : Tail(q)[i] = q[i + 1]
  BY HeadTailProperties
<1>4. DOMAIN Tail(q) = 1..Len(Tail(q)) /\ \A i \in 1..Len(Tail(q)) : i + 1 \in 1..Len(q)
  BY <1>1, <1>3, LenProperties
<1>5. 1 \in 1..Len(q)
  BY <1>1
<1>6. QED BY <1>1, <1>2, <1>3, <1>4, <1>5

\* WholeMessages is preserved by every step.
LEMMA WholeStep ==
  ASSUME TypeOK, StreamInv, WholeMessages, [Next]_vars PROVE WholeMessages'
<1> USE DEF sendVars, recvVars, connVars
<1>1. ASSUME UNCHANGED <<recvq, handled>> PROVE WholeMessages'
  BY <1>1 DEF WholeMessages, Whole, Body
<1>2. ASSUME NEW n \in Chunk, MeshRecvCb(n) PROVE WholeMessages'
  <2>1. handled' = handled
    BY <1>2 DEF MeshRecvCb
  <2>2. CASE recvq' = recvq
    BY <1>1, <2>1, <2>2
  <2>3. CASE \E m \in Msgs : recvq' = Append(recvq, Body(m))
    <3>1. PICK m \in Msgs : recvq' = Append(recvq, Body(m))
      BY <2>3
    <3>2. Body(m) \in Seq(Byte)
      <4>1. \A i \in 1..Size[m] : [msg |-> m, pos |-> i] \in Byte
        BY ConstantFacts DEF Byte
      <4>2. QED BY <4>1, ConstantFacts DEF Body
    <3>3. Whole(Body(m))
      BY DEF Whole
    <3>4. \A i \in DOMAIN recvq' : Whole(recvq'[i])
      BY <3>1, <3>2, <3>3, WholeAppend DEF TypeOK, WholeMessages
    <3>5. QED BY <2>1, <3>4 DEF WholeMessages, Whole, Body
  <2>4. QED BY <1>2, <2>2, <2>3, RecvCut, RecvUncut
<1>3. ASSUME ReadBufferTask PROVE WholeMessages'
  <2>1. /\ recvq # <<>> /\ recvq' = Tail(recvq)
        /\ handled' = handled \/ handled' = Append(handled, Head(recvq))
    BY <1>3 DEF ReadBufferTask
  <2>2. /\ Head(recvq) \in Seq(Byte) /\ Whole(Head(recvq))
        /\ \A i \in DOMAIN recvq' : Whole(recvq'[i])
    BY <2>1, WholeTail DEF TypeOK, WholeMessages
  <2>3. \A i \in DOMAIN handled' : Whole(handled'[i])
    BY <2>1, <2>2, WholeAppend DEF TypeOK, WholeMessages
  <2>4. QED BY <2>2, <2>3 DEF WholeMessages, Whole, Body
<1>4. ASSUME CloseReceiver PROVE WholeMessages'
  <2>1. recvq' = <<>> /\ handled' = handled
    BY <1>4 DEF CloseReceiver
  <2>2. QED BY <2>1, EmptySeq DEF WholeMessages, Whole, Body
<1>5. ASSUME NEW m \in Msgs, AddMessage(m) PROVE WholeMessages'
  BY <1>1, <1>5 DEF AddMessage
<1>6. ASSUME NEW t \in Task, WriteNext(t) PROVE WholeMessages'
  BY <1>1, <1>6 DEF WriteNext, ReadFront, WriteReturns, WriteTaken, WriteFails, FreeRead
<1>7. ASSUME NEW t \in Task, ReuseSharedBuffer(t) \/ CloseSender(t) PROVE WholeMessages'
  BY <1>1, <1>7 DEF ReuseSharedBuffer, CloseSender
<1>8. ASSUME NEW n \in 1..ackable, TcpSentCb(n) PROVE WholeMessages'
  BY <1>1, <1>8 DEF TcpSentCb
<1>9. CASE UNCHANGED vars
  BY <1>1, <1>9 DEF vars
<1>10. QED
  BY <1>2, <1>3, <1>4, <1>5, <1>6, <1>7, <1>8, <1>9, ConstantFacts DEF Next, NodeSyncTask, Msgs

-----------------------------------------------------------------------------
(* The theorems.                                                           *)

\* In a build with one thread, the clean flag and a write that fails whole,
\* the inductive invariant holds for any messages, sizes and buffers
\* (SentBuffer, writeNext, ReceiveBuffer).
THEOREM StreamCorrect == ASSUME Sound PROVE Spec => []IInv
<1>1. Init => IInv
  <2> SUFFICES ASSUME Init PROVE IInv
    OBVIOUS
  <2>1. TypeOK
    BY ConstantFacts DEF Init, TypeOK
  <2>2. pc["loop"] = "idle"
    BY ConstantFacts DEF Init
  <2>3. QueueInv /\ WriterInv
    BY <2>2, EmptySeq DEF Init, QueueInv, WriterInv
  <2>4. Stream = <<>>
    BY ConcatEmptySeq DEF Init, Stream, TypeOK
  <2>5. Contiguous(Stream) /\ FreshStarts(Stream) /\ Boundary
    BY <2>2, <2>4, EmptySeq DEF Init, Contiguous, FreshStarts, Boundary
  <2>6. StreamInv
    BY <2>5, EmptySeq DEF Init, StreamInv
  <2>7. WholeMessages
    BY EmptySeq DEF Init, WholeMessages
  <2>8. QED BY <2>1, <2>3, <2>6, <2>7 DEF IInv
<1>2. IInv /\ [Next]_vars => IInv'
  <2> SUFFICES ASSUME IInv, [Next]_vars PROVE IInv'
    OBVIOUS
  <2>1. TypeOK /\ QueueInv /\ WriterInv /\ StreamInv /\ WholeMessages
    BY DEF IInv
  <2>2. FrontKnown
    BY <2>1 DEF QueueInv, FrontKnown
  <2>3. TypeOK'
    BY <2>1, <2>2, TypeStep
  <2>4. QueueInv' /\ WriterInv'
    BY <2>1, QueueStep, WriterStep
  <2>5. StreamInv' /\ WholeMessages'
    BY <2>1, <2>3, StreamStep, WholeStep
  <2>6. QED BY <2>3, <2>4, <2>5 DEF IInv
<1>3. QED BY <1>1, <1>2, PTL DEF Spec

\* Every string handed to handleMessage is a message that was sent, whole.
THEOREM MessagesWhole == ASSUME Sound PROVE Spec => []WholeMessages
<1>1. IInv => WholeMessages
  BY DEF IInv
<1>2. QED BY <1>1, StreamCorrect, PTL

\* push and freeRead never touch the front of an empty list.
THEOREM ListOpsSafe == ASSUME Sound PROVE Spec => []ListOpsDefined
<1>1. IInv => ListOpsDefined
  BY OneTask DEF IInv, ListOpsDefined, QueueInv, WriterInv
<1>2. QED BY <1>1, StreamCorrect, PTL

-----------------------------------------------------------------------------
(* A function applied to each element of a sequence.                       *)

Each(f, q) == [i \in DOMAIN q |-> f[q[i]]]
Maps(f, E, M) == \A x \in E : f[x] \in M

LEMMA EachType ==
  ASSUME NEW E, NEW M, NEW f, Maps(f, E, M), NEW q \in Seq(E)
  PROVE  /\ Each(f, q) \in Seq(M) /\ Len(Each(f, q)) = Len(q)
         /\ \A i \in 1..Len(q) : Each(f, q)[i] = f[q[i]]
<1>1. Len(q) \in Nat /\ DOMAIN q = 1..Len(q) /\ \A i \in 1..Len(q) : f[q[i]] \in M
  BY LenProperties, ElementOfSeq DEF Maps
<1>2. Each(f, q) = [i \in 1..Len(q) |-> f[q[i]]]
  BY <1>1 DEF Each
<1>3. QED BY <1>1, <1>2

LEMMA EachEmpty == ASSUME NEW f PROVE Each(f, <<>>) = <<>>
<1>1. DOMAIN <<>> = 1..0 /\ Len(<<>>) = 0
  OBVIOUS
<1>2. QED BY <1>1 DEF Each

LEMMA EachConcat ==
  ASSUME NEW E, NEW M, NEW f, Maps(f, E, M), NEW p \in Seq(E), NEW q \in Seq(E)
  PROVE  Each(f, p \o q) = Each(f, p) \o Each(f, q)
<1>1. /\ p \o q \in Seq(E) /\ Len(p \o q) = Len(p) + Len(q)
      /\ \A i \in 1..(Len(p) + Len(q)) : (p \o q)[i] = IF i <= Len(p) THEN p[i] ELSE q[i - Len(p)]
      /\ Len(p) \in Nat /\ Len(q) \in Nat
  BY ConcatProperties, LenProperties
<1>2. ASSUME NEW u \in Seq(E), Len(u) = Len(p) + Len(q),
             \A i \in 1..(Len(p) + Len(q)) : u[i] = IF i <= Len(p) THEN p[i] ELSE q[i - Len(p)]
      PROVE  Each(f, u) = Each(f, p) \o Each(f, q)
  <2>1. \A v \in Seq(E) : /\ Each(f, v) \in Seq(M) /\ Len(Each(f, v)) = Len(v)
                          /\ \A i \in 1..Len(v) : Each(f, v)[i] = f[v[i]]
    BY EachType
  <2> DEFINE U == Each(f, u)
             P == Each(f, p)
             Q == Each(f, q)
  <2>2. /\ U \in Seq(M) /\ Len(U) = Len(p) + Len(q)
        /\ \A i \in 1..(Len(p) + Len(q)) : U[i] = f[u[i]]
    BY <1>2, <2>1
  <2>3. /\ P \in Seq(M) /\ Len(P) = Len(p) /\ \A i \in 1..Len(p) : P[i] = f[p[i]]
    BY <2>1
  <2>4. /\ Q \in Seq(M) /\ Len(Q) = Len(q) /\ \A i \in 1..Len(q) : Q[i] = f[q[i]]
    BY <2>1
  <2> HIDE DEF U, P, Q
  <2>5. /\ P \o Q \in Seq(M) /\ Len(P \o Q) = Len(p) + Len(q)
        /\ \A i \in 1..(Len(p) + Len(q)) : (P \o Q)[i] = IF i <= Len(p) THEN P[i] ELSE Q[i - Len(p)]
    <3>1. /\ P \o Q \in Seq(M) /\ Len(P \o Q) = Len(P) + Len(Q)
          /\ \A i \in 1..(Len(P) + Len(Q)) : (P \o Q)[i] = IF i <= Len(P) THEN P[i] ELSE Q[i - Len(P)]
      <4>1. PICK s \in Seq(M), t \in Seq(M) : s = P /\ t = Q
        BY <2>3, <2>4
      <4>2. QED BY <4>1, ConcatProperties, SMTT(20)
    <3>2. QED BY <2>3, <2>4, <3>1
  <2>6. ASSUME NEW i \in 1..(Len(p) + Len(q)) PROVE U[i] = (P \o Q)[i]
    <3>1. CASE i <= Len(p)
      <4>1. i \in 1..Len(p)
        BY <1>1, <3>1
      <4>2. QED BY <1>2, <2>2, <2>3, <2>5, <3>1, <4>1
    <3>2. CASE ~(i <= Len(p))
      <4>1. i - Len(p) \in 1..Len(q)
        BY <1>1, <3>2
      <4>2. QED BY <1>2, <2>2, <2>4, <2>5, <3>2, <4>1
    <3>3. QED BY <3>1, <3>2
  <2>7. U = P \o Q
    BY <2>2, <2>5, <2>6, SeqEqual
  <2>8. QED BY <2>7 DEF U, P, Q
<1>3. QED BY <1>1, <1>2

LEMMA EachOne ==
  ASSUME NEW E, NEW M, NEW f, Maps(f, E, M), NEW x \in E
  PROVE  Each(f, <<x>>) = <<f[x]>>
<1>1. <<x>> \in Seq(E) /\ Len(<<x>>) = 1 /\ <<x>>[1] = x
  OBVIOUS
<1>2. ASSUME NEW y \in M PROVE <<y>> \in Seq(M) /\ Len(<<y>>) = 1 /\ <<y>>[1] = y
  OBVIOUS
<1>3. ASSUME NEW u \in Seq(E), Len(u) = 1, u[1] = x,
             NEW y \in M, y = f[x], NEW r \in Seq(M), Len(r) = 1, r[1] = y
      PROVE  Each(f, u) = r
  <2>1. /\ Each(f, u) \in Seq(M) /\ Len(Each(f, u)) = Len(u)
        /\ \A i \in 1..Len(u) : Each(f, u)[i] = f[u[i]]
    BY EachType
  <2> DEFINE U == Each(f, u)
  <2>2. U \in Seq(M) /\ Len(U) = 1 /\ U[1] = r[1]
    BY <1>3, <2>1
  <2> HIDE DEF U
  <2>3. U = r
    BY <1>3, <2>2, SeqEqual
  <2>4. QED BY <2>3 DEF U
<1>4. f[x] \in M
  BY DEF Maps
<1>5. PICK y \in M : y = f[x]
  BY <1>4
<1>6. Each(f, <<x>>) = <<y>>
  BY <1>1, <1>2, <1>3, <1>5
<1>7. QED BY <1>5, <1>6

LEMMA EachAppend ==
  ASSUME NEW E, NEW M, NEW f, Maps(f, E, M), NEW q \in Seq(E), NEW x \in E
  PROVE  Each(f, Append(q, x)) = Append(Each(f, q), f[x])
<1>1. <<x>> \in Seq(E) /\ Append(q, x) = q \o <<x>>
  BY AppendIsConcat
<1>2. PICK u \in Seq(E) : u = <<x>>
  BY <1>1
<1>3. Each(f, q \o u) = Each(f, q) \o Each(f, u)
  BY EachConcat
<1>4. Each(f, <<x>>) = <<f[x]>>
  BY EachOne
<1>5. Each(f, q) \in Seq(M) /\ f[x] \in M
  BY EachType DEF Maps
<1>6. Append(Each(f, q), f[x]) = Each(f, q) \o <<f[x]>>
  BY <1>5, AppendIsConcat
<1>7. QED BY <1>1, <1>2, <1>3, <1>4, <1>6, Zenon

LEMMA EachFront ==
  ASSUME NEW E, NEW M, NEW f, Maps(f, E, M), NEW q \in Seq(E), NEW x \in E
  PROVE  Each(f, <<x>> \o q) = <<f[x]>> \o Each(f, q)
<1>1. <<x>> \in Seq(E)
  OBVIOUS
<1>2. PICK u \in Seq(E) : u = <<x>>
  BY <1>1
<1>3. Each(f, u \o q) = Each(f, u) \o Each(f, q)
  BY EachConcat
<1>4. Each(f, <<x>>) = <<f[x]>>
  BY EachOne
<1>5. QED BY <1>2, <1>3, <1>4, Zenon

\* A sequence is its front and the rest.
LEMMA FrontAndRest ==
  ASSUME NEW E, NEW q \in Seq(E), q # <<>>
  PROVE  /\ Head(q) = q[1] /\ q[1] \in E /\ Tail(q) \in Seq(E)
         /\ q = <<q[1]>> \o Tail(q)
<1>1. /\ Head(q) \in E /\ Tail(q) \in Seq(E) /\ <<Head(q)>> \in Seq(E) /\ Head(q) = q[1]
      /\ Len(q) \in Nat \ {0} /\ Len(Tail(q)) = Len(q) - 1
      /\ \A i \in 1..Len(Tail(q)) : Tail(q)[i] = q[i + 1]
  BY HeadTailProperties, EmptySeq
<1>2. q = <<Head(q)>> \o Tail(q)
  <2>1. /\ Len(<<Head(q)>> \o Tail(q)) = 1 + Len(Tail(q))
        /\ \A i \in 1..(1 + Len(Tail(q))) : (<<Head(q)>> \o Tail(q))[i] =
              IF i <= 1 THEN <<Head(q)>>[i] ELSE Tail(q)[i - 1]
        /\ <<Head(q)>> \o Tail(q) \in Seq(E)
    BY <1>1, ConcatProperties
  <2>2. QED BY <1>1, <2>1, SeqEqual
<1>3. QED BY <1>1, <1>2

LEMMA FrontAndRestUnique ==
  ASSUME NEW E, NEW q \in Seq(E), NEW x \in E
  PROVE  /\ <<x>> \o q \in Seq(E) /\ <<x>> \o q # <<>>
         /\ Head(<<x>> \o q) = x /\ Tail(<<x>> \o q) = q
<1>1. /\ <<x>> \o q \in Seq(E) /\ Len(<<x>> \o q) = 1 + Len(q) /\ Len(q) \in Nat
      /\ \A i \in 1..(1 + Len(q)) : (<<x>> \o q)[i] = IF i <= 1 THEN x ELSE q[i - 1]
  <2>1. <<x>> \in Seq(E) /\ Len(<<x>>) = 1 /\ <<x>>[1] = x
    OBVIOUS
  <2>2. QED BY <2>1, ConcatProperties, LenProperties
<1>2. <<x>> \o q # <<>>
  BY <1>1, EmptySeq
<1>3. /\ Head(<<x>> \o q) = x /\ Tail(<<x>> \o q) \in Seq(E) /\ Len(Tail(<<x>> \o q)) = Len(q)
      /\ \A i \in 1..Len(q) : Tail(<<x>> \o q)[i] = q[i]
  <2> DEFINE s == <<x>> \o q
  <2>1. s \in Seq(E) /\ s # <<>> /\ s[1] = x /\ Len(s) = 1 + Len(q) /\ Len(q) \in Nat
        /\ \A i \in 1..Len(q) : s[i + 1] = q[i]
    BY <1>1, <1>2
  <2> HIDE DEF s
  <2>2. Head(s) = s[1] /\ Tail(s) \in Seq(E) /\ Len(Tail(s)) = Len(s) - 1
        /\ \A i \in 1..Len(Tail(s)) : Tail(s)[i] = s[i + 1]
    BY <2>1, HeadTailProperties
  <2>3. QED BY <2>1, <2>2 DEF s
<1>4. QED BY <1>1, <1>2, <1>3, SeqEqual

\* The rest of a sequence, each element mapped.
LEMMA EachTail ==
  ASSUME NEW E, NEW M, NEW f, Maps(f, E, M), NEW q \in Seq(E), q # <<>>
  PROVE  /\ Each(f, q) # <<>> /\ Head(Each(f, q)) = f[q[1]]
         /\ Tail(Each(f, q)) = Each(f, Tail(q))
<1>1. q[1] \in E /\ Tail(q) \in Seq(E) /\ q = <<q[1]>> \o Tail(q)
  BY FrontAndRest
<1>2. PICK x \in E, r \in Seq(E) : x = q[1] /\ r = Tail(q)
  BY <1>1
<1>3. Each(f, <<x>> \o r) = <<f[x]>> \o Each(f, r)
  BY EachFront, SMTT(20)
<1>4. Each(f, r) \in Seq(M) /\ f[x] \in M
  BY EachType DEF Maps
<1>5. PICK y \in M, s \in Seq(M) : y = f[x] /\ s = Each(f, r)
  BY <1>4
<1>6. <<y>> \o s # <<>> /\ Head(<<y>> \o s) = y /\ Tail(<<y>> \o s) = s
  BY FrontAndRestUnique
<1>7. Each(f, q) = <<y>> \o s
  BY <1>1, <1>2, <1>3, <1>5, Zenon
<1>8. QED BY <1>2, <1>5, <1>6, <1>7, Zenon

-----------------------------------------------------------------------------
(* The messages behind queued strings, bytes and received strings.         *)

Tagged == Entry \cup Byte
Text == {Body(m) : m \in Msgs}
MsgOf == [e \in Tagged |-> e.msg]
MsgIn == [s \in Text |-> s[1].msg]

\* What MeshLinkProps writes for them.
Tags(q) == [i \in DOMAIN q |-> q[i].msg]
Firsts(q) == [i \in DOMAIN q |-> q[i][1].msg]

LEMMA TagsEach ==
  ASSUME NEW q \in Seq(Tagged)
  PROVE  Tags(q) = Each(MsgOf, q) /\ Maps(MsgOf, Tagged, Msgs)
<1>1. \A e \in Tagged : MsgOf[e] = e.msg /\ e.msg \in Msgs
  BY DEF MsgOf, Tagged, Entry, Byte
<1>2. DOMAIN q = 1..Len(q) /\ \A i \in DOMAIN q : q[i] \in Tagged
  BY LenProperties, ElementOfSeq
<1>3. \A i \in DOMAIN q : MsgOf[q[i]] = q[i].msg
  BY <1>1, <1>2
<1>4. Tags(q) = Each(MsgOf, q)
  BY <1>3 DEF Tags, Each
<1>5. QED BY <1>1, <1>4 DEF Maps

LEMMA BodyFirst ==
  ASSUME NEW m \in Msgs PROVE Body(m)[1].msg = m /\ Body(m) # <<>> /\ Body(m) \in Seq(Byte)
<1>1. Size[m] \in Nat \ {0} /\ 1 \in 1..Size[m]
  BY SizeAssumption
<1>2. Body(m)[1] = [msg |-> m, pos |-> 1]
  BY <1>1 DEF Body
<1>3. Body(m) \in Seq(Byte) /\ Len(Body(m)) = Size[m]
  <2>1. PICK n \in Nat \ {0} : n = Size[m]
    BY <1>1
  <2>2. \A i \in 1..n : [msg |-> m, pos |-> i] \in Byte
    BY DEF Byte
  <2>3. Body(m) = [i \in 1..n |-> [msg |-> m, pos |-> i]]
    BY <2>1 DEF Body
  <2>4. QED BY <2>1, <2>2, <2>3
<1>4. QED BY <1>1, <1>2, <1>3, EmptySeq

LEMMA FirstsEach ==
  ASSUME NEW q \in Seq(Text)
  PROVE  Firsts(q) = Each(MsgIn, q) /\ Maps(MsgIn, Text, Msgs)
<1>1. \A s \in Text : MsgIn[s] = s[1].msg /\ s[1].msg \in Msgs
  BY BodyFirst DEF MsgIn, Text
<1>2. DOMAIN q = 1..Len(q) /\ \A i \in DOMAIN q : q[i] \in Text
  BY LenProperties, ElementOfSeq
<1>3. \A i \in DOMAIN q : MsgIn[q[i]] = q[i][1].msg
  BY <1>1, <1>2
<1>4. Firsts(q) = Each(MsgIn, q)
  BY <1>3 DEF Firsts, Each
<1>5. QED BY <1>1, <1>4 DEF Maps

\* What is known of a queue of strings when one is added or taken.
LEMMA TagsOf ==
  ASSUME NEW q \in Seq(Tagged)
  PROVE  /\ Tags(q) \in Seq(Msgs) /\ Len(Tags(q)) = Len(q)
         /\ \A i \in 1..Len(q) : Tags(q)[i] = q[i].msg
         /\ q # <<>> => /\ Tags(q) # <<>> /\ Head(Tags(q)) = q[1].msg
                        /\ Tail(Tags(q)) = Tags(Tail(q))
         /\ \A e \in Tagged : /\ Tags(Append(q, e)) = Append(Tags(q), e.msg)
                              /\ Tags(<<e>> \o q) = <<e.msg>> \o Tags(q)
<1>1. Tags(q) = Each(MsgOf, q) /\ Maps(MsgOf, Tagged, Msgs)
  BY TagsEach
<1>2. \A e \in Tagged : MsgOf[e] = e.msg
  BY DEF MsgOf
<1>3. Tags(q) \in Seq(Msgs) /\ Len(Tags(q)) = Len(q)
  BY <1>1, EachType
<1>4. \A i \in 1..Len(q) : Tags(q)[i] = q[i].msg
  <2>1. \A i \in 1..Len(q) : Tags(q)[i] = MsgOf[q[i]] /\ q[i] \in Tagged
    BY <1>1, EachType, ElementOfSeq
  <2>2. QED BY <1>2, <2>1
<1>5. ASSUME q # <<>>
      PROVE  Tags(q) # <<>> /\ Head(Tags(q)) = q[1].msg /\ Tail(Tags(q)) = Tags(Tail(q))
  <2>1. /\ Each(MsgOf, q) # <<>> /\ Head(Each(MsgOf, q)) = MsgOf[q[1]]
        /\ Tail(Each(MsgOf, q)) = Each(MsgOf, Tail(q))
    BY <1>1, <1>5, EachTail
  <2>2. q[1] \in Tagged /\ Tail(q) \in Seq(Tagged)
    BY <1>5, FrontAndRest
  <2>3. Tags(Tail(q)) = Each(MsgOf, Tail(q))
    BY <2>2, TagsEach
  <2>4. QED BY <1>1, <1>2, <2>1, <2>2, <2>3
<1>6. ASSUME NEW e \in Tagged
      PROVE  /\ Tags(Append(q, e)) = Append(Tags(q), e.msg)
             /\ Tags(<<e>> \o q) = <<e.msg>> \o Tags(q)
  <2>1. Append(q, e) \in Seq(Tagged) /\ <<e>> \o q \in Seq(Tagged)
    BY FrontAndRestUnique
  <2>2. Tags(Append(q, e)) = Each(MsgOf, Append(q, e)) /\ Tags(<<e>> \o q) = Each(MsgOf, <<e>> \o q)
    BY <2>1, TagsEach
  <2>3. /\ Each(MsgOf, Append(q, e)) = Append(Each(MsgOf, q), MsgOf[e])
        /\ Each(MsgOf, <<e>> \o q) = <<MsgOf[e]>> \o Each(MsgOf, q)
    BY <1>1, EachAppend, EachFront, SMTT(20)
  <2>4. MsgOf[e] = e.msg
    BY <1>2
  <2>5. QED BY <1>1, <2>2, <2>3, <2>4
<1>7. QED BY <1>3, <1>4, <1>5, <1>6

\* And of a queue of received strings.
LEMMA FirstsOf ==
  ASSUME NEW q \in Seq(Text)
  PROVE  /\ Firsts(q) \in Seq(Msgs) /\ Len(Firsts(q)) = Len(q)
         /\ q # <<>> => \E m \in Msgs :
              /\ Head(q) = Body(m) /\ Firsts(q) # <<>> /\ Head(Firsts(q)) = m
              /\ Tail(q) \in Seq(Text) /\ Tail(Firsts(q)) = Firsts(Tail(q))
         /\ \A m \in Msgs : /\ Append(q, Body(m)) \in Seq(Text)
                            /\ Firsts(Append(q, Body(m))) = Append(Firsts(q), m)
<1>1. Firsts(q) = Each(MsgIn, q) /\ Maps(MsgIn, Text, Msgs)
  BY FirstsEach
<1>2. \A m \in Msgs : Body(m) \in Text /\ MsgIn[Body(m)] = m
  BY BodyFirst DEF MsgIn, Text
<1>3. Firsts(q) \in Seq(Msgs) /\ Len(Firsts(q)) = Len(q)
  BY <1>1, EachType
<1>4. ASSUME q # <<>>
      PROVE  \E m \in Msgs :
              /\ Head(q) = Body(m) /\ Firsts(q) # <<>> /\ Head(Firsts(q)) = m
              /\ Tail(q) \in Seq(Text) /\ Tail(Firsts(q)) = Firsts(Tail(q))
  <2>1. /\ Each(MsgIn, q) # <<>> /\ Head(Each(MsgIn, q)) = MsgIn[q[1]]
        /\ Tail(Each(MsgIn, q)) = Each(MsgIn, Tail(q))
    BY <1>1, <1>4, EachTail
  <2>2. q[1] \in Text /\ Tail(q) \in Seq(Text) /\ Head(q) = q[1]
    BY <1>4, FrontAndRest
  <2>3. PICK m \in Msgs : q[1] = Body(m)
    BY <2>2 DEF Text
  <2>4. Firsts(Tail(q)) = Each(MsgIn, Tail(q))
    BY <2>2, FirstsEach
  <2>5. MsgIn[q[1]] = m
    BY <1>2, <2>3
  <2>6. QED BY <1>1, <2>1, <2>2, <2>3, <2>4, <2>5
<1>5. ASSUME NEW m \in Msgs
      PROVE  Append(q, Body(m)) \in Seq(Text) /\ Firsts(Append(q, Body(m))) = Append(Firsts(q), m)
  <2>1. PICK s \in Text : s = Body(m) /\ MsgIn[s] = m
    BY <1>2
  <2>2. Append(q, s) \in Seq(Text)
    OBVIOUS
  <2>3. Firsts(Append(q, s)) = Each(MsgIn, Append(q, s))
    BY <2>2, FirstsEach
  <2>4. Each(MsgIn, Append(q, s)) = Append(Each(MsgIn, q), MsgIn[s])
    BY <1>1, EachAppend
  <2>5. QED BY <1>1, <2>1, <2>2, <2>3, <2>4
<1>6. QED BY <1>3, <1>4, <1>5

-----------------------------------------------------------------------------
(* The state of the channel.                                               *)

Begun == ~clean \/ pc["loop"] = "freeRead"
Pend(q, begun) == IF begun /\ q # <<>> THEN Tail(Tags(q)) ELSE Tags(q)

Pending == IF FrontStarted /\ sentq # <<>> THEN Tail(QueuedMsgs) ELSE QueuedMsgs
Transit ==
  IF rconn THEN [i \in DOMAIN recvq |-> recvq[i][1].msg]
                \o [i \in DOMAIN FirstBytes |-> FirstBytes[i].msg]
  ELSE <<>>
Arrived == HandledMsgs

LEMMA ChannelState ==
  ASSUME Sound
  PROVE  /\ Pending = Pend(sentq, Begun) /\ Pending' = Pend(sentq', Begun')
         /\ Transit = IF rconn THEN Firsts(recvq) \o Tags(Only(Stream, FirstByte)) ELSE <<>>
         /\ Transit' = IF rconn' THEN Firsts(recvq') \o Tags(Only(Stream', FirstByte)) ELSE <<>>
         /\ Arrived = Firsts(handled) /\ Arrived' = Firsts(handled')
<1>1. Task = {"loop"}
  BY OneTask
<1>2. FrontStarted <=> Begun
  BY <1>1 DEF FrontStarted, Begun
<1>3. FrontStarted' <=> Begun'
  BY <1>1 DEF FrontStarted, Begun
<1>4. Pending = Pend(sentq, Begun) /\ Pending' = Pend(sentq', Begun')
  BY <1>2, <1>3 DEF Pending, Pend, QueuedMsgs, Tags
<1>5. Transit = IF rconn THEN Firsts(recvq) \o Tags(Only(Stream, FirstByte)) ELSE <<>>
  BY Zenon DEF Transit, FirstBytes, Stream, Firsts, Tags
<1>6. Transit' = IF rconn' THEN Firsts(recvq') \o Tags(Only(Stream', FirstByte)) ELSE <<>>
  <2>1. FirstByte' = FirstByte
    BY DEF FirstByte
  <2>2. QED BY <2>1, Zenon DEF Transit, FirstBytes, Stream, Firsts, Tags
<1>7. Arrived = Firsts(handled) /\ Arrived' = Firsts(handled')
  BY DEF Arrived, HandledMsgs, Firsts
<1>8. QED BY <1>4, <1>5, <1>6, <1>7

LEMMA LargerSet ==
  ASSUME NEW S, NEW T, S \subseteq T, NEW q \in Seq(S) PROVE q \in Seq(T)
<1>1. Len(q) \in Nat /\ DOMAIN q = 1..Len(q) /\ q \in [1..Len(q) -> S]
  BY LenProperties
<1>2. q \in [1..Len(q) -> T]
  BY <1>1
<1>3. QED BY <1>1, <1>2

\* A sequence and what goes before it and behind it.
LEMMA TailAppend ==
  ASSUME NEW E, NEW q \in Seq(E), q # <<>>, NEW x \in E
  PROVE  Tail(Append(q, x)) = Append(Tail(q), x)
<1>1. /\ Head(q) \in E /\ Tail(q) \in Seq(E) /\ Len(q) \in Nat \ {0} /\ Len(Tail(q)) = Len(q) - 1
      /\ \A i \in 1..Len(Tail(q)) : Tail(q)[i] = q[i + 1]
  BY HeadTailProperties, EmptySeq
<1>2. /\ Append(q, x) \in Seq(E) /\ Len(Append(q, x)) = Len(q) + 1
      /\ \A i \in 1..Len(q) : Append(q, x)[i] = q[i]
      /\ Append(q, x)[Len(q) + 1] = x
  BY AppendProperties
<1>3. Append(q, x) # <<>>
  BY <1>1, <1>2, EmptySeq
<1>4. PICK a \in Seq(E) : a = Append(q, x)
  BY <1>2
<1>5. PICK r \in Seq(E) : r = Tail(q)
  BY <1>1
<1>6. /\ Tail(a) \in Seq(E) /\ Len(Tail(a)) = Len(a) - 1
      /\ \A i \in 1..Len(Tail(a)) : Tail(a)[i] = a[i + 1]
  BY <1>3, <1>4, HeadTailProperties
<1>7. /\ Append(r, x) \in Seq(E) /\ Len(Append(r, x)) = Len(r) + 1
      /\ \A i \in 1..Len(r) : Append(r, x)[i] = r[i]
      /\ Append(r, x)[Len(r) + 1] = x
  BY AppendProperties
<1> DEFINE s == Tail(a)
           u == Append(r, x)
<1>8. /\ s \in Seq(E) /\ u \in Seq(E) /\ Len(s) = Len(q) /\ Len(u) = Len(q)
      /\ \A i \in 1..Len(q) : s[i] = a[i + 1]
      /\ \A i \in 1..(Len(q) - 1) : u[i] = q[i + 1] /\ a[i + 1] = q[i + 1]
      /\ u[Len(q)] = x /\ a[Len(q) + 1] = x
  BY <1>1, <1>2, <1>4, <1>5, <1>6, <1>7
<1> HIDE DEF s, u
<1>9. \A i \in 1..Len(q) : s[i] = u[i]
  BY <1>1, <1>8, SMTT(20)
<1>10. s = u
  BY <1>8, <1>9, SeqEqual
<1>11. QED BY <1>4, <1>5, <1>10 DEF s, u

LEMMA PairFront ==
  ASSUME NEW E, NEW q \in Seq(E), NEW x \in E, NEW y \in E
  PROVE  <<x, y>> \o q = <<x>> \o (<<y>> \o q)
<1>1. <<x>> \in Seq(E) /\ <<y>> \in Seq(E) /\ <<x, y>> = <<x>> \o <<y>>
  <2>1. <<x>> \in Seq(E) /\ <<y>> \in Seq(E)
    OBVIOUS
  <2>2. Append(<<x>>, y) = <<x>> \o <<y>>
    BY <2>1, AppendIsConcat
  <2>3. Append(<<x>>, y) = <<x, y>>
    <3>1. PICK a \in Seq(E) : a = <<x>> /\ Len(a) = 1 /\ a[1] = x
      BY <2>1
    <3>2. /\ Append(a, y) \in Seq(E) /\ Len(Append(a, y)) = 2
          /\ Append(a, y)[1] = x /\ Append(a, y)[2] = y
      BY <3>1, AppendProperties
    <3>3. PICK b \in Seq(E) : b = <<x, y>> /\ Len(b) = 2 /\ b[1] = x /\ b[2] = y
      <4>1. <<x, y>> \in Seq(E)
        OBVIOUS
      <4>2. Len(<<x, y>>) = 2
        OBVIOUS
      <4>3. <<x, y>>[1] = x /\ <<x, y>>[2] = y
        OBVIOUS
      <4>4. QED BY <4>1, <4>2, <4>3
    <3>4. PICK c \in Seq(E) : c = Append(a, y)
      BY <3>2
    <3>5. \A i \in 1..Len(b) : b[i] = c[i]
      BY <3>2, <3>3, <3>4
    <3>6. b = c
      BY <3>2, <3>3, <3>4, <3>5, SeqEqual
    <3>7. QED BY <3>1, <3>3, <3>4, <3>6
  <2>4. QED BY <2>1, <2>2, <2>3
<1>2. PICK a \in Seq(E), b \in Seq(E) : a = <<x>> /\ b = <<y>>
  BY <1>1
<1>3. (a \o b) \o q = a \o (b \o q)
  BY ConcatAssociative, SMTT(20)
<1>4. QED BY <1>1, <1>2, <1>3

\* A message that is accepted goes behind those that wait, or before them
\* all when it has priority.
LEMMA PushPending ==
  ASSUME TypeOK, QueueInv, sconn, NEW m \in Msgs, pc["loop"] # "freeRead"
  PROVE  Pend(Push(m), ~clean) = IF m \in Priority THEN <<m>> \o Pend(sentq, ~clean)
                                 ELSE Append(Pend(sentq, ~clean), m)
<1> DEFINE e == [msg |-> m, off |-> 0]
<1>1. sentq \in Seq(Tagged) /\ e \in Tagged /\ e.msg = m
  <2>1. sentq \in Seq(Entry)
    BY DEF TypeOK, Entry
  <2>2. Entry \subseteq Tagged
    BY DEF Tagged
  <2>3. sentq \in Seq(Tagged)
    BY <2>1, <2>2, LargerSet
  <2>4. e \in Entry
    BY DEF Entry
  <2>5. QED BY <2>2, <2>3, <2>4
<1>2. ~clean => sentq # <<>>
  BY DEF QueueInv
<1>3. Tags(sentq) \in Seq(Msgs)
  BY <1>1, TagsOf
<1>4. CASE m \notin Priority
  <2>1. Push(m) = Append(sentq, e)
    BY <1>4 DEF Push
  <2>2. Tags(Append(sentq, e)) = Append(Tags(sentq), m)
    BY <1>1, TagsOf
  <2>3. Append(sentq, e) # <<>>
    BY <1>1, AppendProperties, EmptySeq
  <2>4. CASE clean
    BY <1>4, <2>1, <2>2, <2>4 DEF Pend
  <2>5. CASE ~clean
    <3>1. Tags(sentq) # <<>>
      BY <1>1, <1>2, <2>5, TagsOf
    <3>2. Tail(Append(Tags(sentq), m)) = Append(Tail(Tags(sentq)), m)
      BY <1>3, <3>1, TailAppend
    <3>3. QED BY <1>2, <1>4, <2>1, <2>2, <2>3, <2>5, <3>2 DEF Pend
  <2>6. QED BY <2>4, <2>5
<1>5. CASE m \in Priority /\ clean
  <2>1. Push(m) = <<e>> \o sentq
    BY <1>5 DEF Push
  <2>2. Tags(<<e>> \o sentq) = <<m>> \o Tags(sentq)
    BY <1>1, TagsOf
  <2>3. QED BY <1>5, <2>1, <2>2 DEF Pend
<1>6. CASE m \in Priority /\ ~clean
  <2>1. Push(m) = <<Head(sentq), e>> \o Tail(sentq)
    BY <1>6 DEF Push
  <2>2. PICK h \in Tagged, r \in Seq(Tagged) : h = Head(sentq) /\ r = Tail(sentq)
    <3>1. Head(sentq) = sentq[1] /\ sentq[1] \in Tagged /\ Tail(sentq) \in Seq(Tagged)
      BY <1>1, <1>2, <1>6, FrontAndRest
    <3>2. QED BY <3>1, Zenon
  <2>3. Push(m) = <<h>> \o (<<e>> \o r)
    <3>1. <<h, e>> \o r = <<h>> \o (<<e>> \o r)
      BY <1>1, PairFront
    <3>2. QED BY <2>1, <2>2, <3>1
  <2>4. PICK s \in Seq(Tagged) : s = <<e>> \o r
    BY <1>1, FrontAndRestUnique
  <2>5. Tags(s) = <<m>> \o Tags(r)
    BY <1>1, <2>4, TagsOf
  <2>6. Tags(<<h>> \o s) = <<h.msg>> \o Tags(s) /\ Tags(s) \in Seq(Msgs)
    BY TagsOf
  <2>7. h.msg \in Msgs
    BY DEF Tagged, Entry, Byte
  <2>8. Tail(<<h.msg>> \o Tags(s)) = Tags(s)
    BY <2>6, <2>7, FrontAndRestUnique
  <2>9. <<h>> \o s # <<>>
    BY FrontAndRestUnique
  <2>10. Pend(Push(m), ~clean) = Tags(s)
    BY <1>6, <2>3, <2>4, <2>6, <2>8, <2>9 DEF Pend
  <2>11. Tail(Tags(sentq)) = Tags(r)
    BY <1>1, <1>2, <1>6, <2>2, TagsOf
  <2>12. Pend(sentq, ~clean) = Tags(r)
    BY <1>2, <1>6, <2>11 DEF Pend
  <2>13. QED BY <1>6, <2>5, <2>10, <2>12, Zenon
<1>7. QED BY <1>4, <1>5, <1>6

\* What freeRead does is not seen by the channel: the front had begun.
LEMMA FreeReadPending ==
  ASSUME Sound, TypeOK, QueueInv, WriterInv, FreeRead("loop")
  PROVE  Pend(sentq', Begun') = Pend(sentq, Begun)
<1> DEFINE e == Head(sentq)
           q == Tail(sentq)
           shorter == [e EXCEPT !.off = Least(e.off + last_read_size, Size[e.msg])]
           whole == last_read_size = Size[e.msg] - e.off + 1
<1>1. /\ pc["loop"] = "freeRead" /\ sentq # <<>>
      /\ sentq' = (IF whole THEN q ELSE <<shorter>> \o q)
      /\ clean' = (whole \/ ~TracksClean)
      /\ pc' = [pc EXCEPT !["loop"] = "writeNext"]
  BY DEF FreeRead, CleanAfter
<1>2. TracksClean /\ "loop" \in DOMAIN pc
  BY OneTask DEF TypeOK
<1>3. pc'["loop"] = "writeNext"
  BY <1>1, <1>2
<1>4. sentq \in Seq(Entry) /\ Entry \subseteq Tagged
  BY DEF TypeOK, Entry, Tagged
<1>5. sentq \in Seq(Tagged)
  BY <1>4, LargerSet
<1>6. Pend(sentq, Begun) = Tags(q)
  <2>1. Tail(Tags(sentq)) = Tags(q)
    BY <1>1, <1>5, TagsOf
  <2>2. QED BY <1>1, <2>1 DEF Pend, Begun
<1>7. CASE whole
  <2>1. ~Begun'
    BY <1>1, <1>3, <1>7 DEF Begun
  <2>2. sentq' = q
    BY <1>1, <1>7
  <2>3. QED BY <1>6, <2>1, <2>2 DEF Pend
<1>8. CASE ~whole
  <2>1. Begun' /\ sentq' = <<shorter>> \o q
    BY <1>1, <1>2, <1>8 DEF Begun
  <2>2. q \in Seq(Tagged) /\ e \in Entry
    <3>1. e \in Entry
      BY <1>1, <1>4, HeadTailProperties
    <3>2. q \in Seq(Tagged)
      BY <1>1, <1>5, HeadTailProperties
    <3>3. QED BY <3>1, <3>2
  <2>3. shorter \in Tagged
    <3>1. Size[e.msg] \in Nat /\ e.off \in Nat /\ last_read_size \in Nat
      BY <2>2, SizeAssumption DEF Entry, TypeOK
    <3>2. Least(e.off + last_read_size, Size[e.msg]) \in Nat
      BY <3>1 DEF Least
    <3>3. shorter \in Entry
      BY <2>2, <3>2 DEF Entry
    <3>4. QED BY <1>4, <3>3
  <2> HIDE DEF shorter, q
  <2>4. Tags(<<shorter>> \o q) = <<shorter.msg>> \o Tags(q) /\ Tags(q) \in Seq(Msgs)
    BY <2>2, <2>3, TagsOf
  <2>5. shorter.msg \in Msgs
    BY <2>3 DEF Tagged, Entry, Byte
  <2>6. Tail(<<shorter.msg>> \o Tags(q)) = Tags(q) /\ <<shorter>> \o q # <<>>
    BY <2>2, <2>3, <2>4, <2>5, FrontAndRestUnique
  <2>7. QED BY <1>6, <2>1, <2>4, <2>6 DEF Pend
<1>9. QED BY <1>7, <1>8

\* Of consecutive bytes of a message, its NUL included, only the one in
\* front can be the first byte.
LEMMA FirstsOfPart ==
  ASSUME NEW s \in Seq(Byte), s # <<>>, \A i \in 2..Len(s) : s[i].pos # 1
  PROVE  Only(s, FirstByte) = IF s[1].pos = 1 THEN <<s[1]>> ELSE <<>>
<1>1. /\ Head(s) = s[1] /\ s[1] \in Byte /\ Tail(s) \in Seq(Byte)
  BY FrontAndRest
<1>2. /\ Len(Tail(s)) = Len(s) - 1 /\ Len(s) \in Nat \ {0}
      /\ \A i \in 1..Len(Tail(s)) : Tail(s)[i] = s[i + 1]
  BY HeadTailProperties, EmptySeq
<1>3. \A b \in Byte : b \in FirstByte <=> b.pos = 1
  BY DEF Byte, FirstByte
<1>4. \A i \in 1..Len(Tail(s)) : Tail(s)[i] \notin FirstByte
  <2> TAKE i \in 1..Len(Tail(s))
  <2>1. Tail(s)[i] = s[i + 1] /\ i + 1 \in 2..Len(s)
    BY <1>2
  <2>2. s[i + 1] \in Byte
    BY <2>1, <1>2, ElementOfSeq
  <2>3. s[i + 1].pos # 1
    BY <2>1
  <2>4. QED BY <1>3, <2>1, <2>2, <2>3
<1>5. Only(Tail(s), FirstByte) = <<>>
  BY <1>1, <1>4, OnlyNone
<1>6. Only(s, FirstByte) = IF s[1] \in FirstByte THEN <<s[1]>> \o <<>> ELSE <<>>
  BY <1>1, <1>5, OnlyTail
<1>7. <<s[1]>> \o <<>> = <<s[1]>>
  <2>1. <<s[1]>> \in Seq(Byte)
    BY <1>1
  <2>2. QED BY <2>1, ConcatEmptySeq
<1>8. QED BY <1>1, <1>3, <1>6, <1>7

\* write: the front of the queue leaves with its first byte.
LEMMA WriteFirsts ==
  ASSUME Sound, TypeOK, TypeOK', QueueInv, WriterInv, StreamInv, WriteTaken("loop")
  PROVE  /\ sentq # <<>> /\ sconn /\ pc["loop"] = "write" /\ pc'["loop"] = "freeRead"
         /\ Stream \in Seq(Byte)
         /\ clean => Tags(Only(Stream', FirstByte)) =
                       Append(Tags(Only(Stream, FirstByte)), sentq[1].msg)
         /\ ~clean => Only(Stream', FirstByte) = Only(Stream, FirstByte)
<1>1. pc["loop"] = "write" /\ pc'["loop"] = "freeRead" /\ sentq # <<>> /\ Stream \in Seq(Byte)
  BY WriteStream
<1>2. PICK seg \in Seq(Byte) :
        /\ Stream' = Stream \o seg /\ Len(seg) \in Nat \ {0}
        /\ \A i \in 1..Len(seg) : seg[i] = [msg |-> sentq[1].msg, pos |-> sentq[1].off + i]
  BY WriteStream
<1>3. sconn
  BY <1>1, WritingConnected
<1>4. sentq[1].msg \in Msgs /\ sentq[1].off \in Nat
  BY <1>1, FrontType
<1>5. seg # <<>> /\ 1 \in 1..Len(seg)
  BY <1>2, EmptySeq
<1>6. \A i \in 1..Len(seg) : seg[i].pos = sentq[1].off + i /\ seg[i].msg = sentq[1].msg
  <2> TAKE i \in 1..Len(seg)
  <2>1. seg[i] = [msg |-> sentq[1].msg, pos |-> sentq[1].off + i]
    BY <1>2
  <2>2. QED BY <2>1
<1>7. \A i \in 2..Len(seg) : seg[i].pos # 1
  BY <1>2, <1>4, <1>6
<1>8. Only(seg, FirstByte) = IF seg[1].pos = 1 THEN <<seg[1]>> ELSE <<>>
  BY <1>5, <1>7, FirstsOfPart
<1>9. Only(Stream', FirstByte) = Only(Stream, FirstByte) \o Only(seg, FirstByte)
  BY <1>1, <1>2, OnlyConcat, SMTT(20)
<1>10. Only(Stream, FirstByte) \in Seq(Byte)
  BY <1>1, OnlyType
<1>11. CASE clean
  <2>1. sentq[1].off = 0
    BY <1>1, <1>3, <1>11 DEF QueueInv
  <2>2. seg[1].pos = 1 /\ seg[1].msg = sentq[1].msg /\ seg[1] \in Byte
    BY <1>4, <1>5, <1>6, <2>1, ElementOfSeq
  <2>3. Only(Stream', FirstByte) = Append(Only(Stream, FirstByte), seg[1])
    BY <1>8, <1>9, <1>10, <2>2, AppendIsConcat
  <2>4. PICK o \in Seq(Tagged), b \in Tagged : o = Only(Stream, FirstByte) /\ b = seg[1]
    <3>1. Byte \subseteq Tagged
      BY DEF Tagged
    <3>2. Only(Stream, FirstByte) \in Seq(Tagged)
      BY <1>10, <3>1, LargerSet
    <3>3. QED BY <2>2, <3>1, <3>2
  <2>5. Tags(Append(o, b)) = Append(Tags(o), b.msg)
    BY TagsOf
  <2>6. QED BY <1>1, <1>3, <1>11, <2>2, <2>3, <2>4, <2>5
<1>12. CASE ~clean
  <2>1. sentq[1].off > 0
    BY <1>3, <1>12 DEF QueueInv
  <2>2. seg[1].pos # 1
    BY <1>4, <1>5, <1>6, <2>1
  <2>3. Only(Stream, FirstByte) \o <<>> = Only(Stream, FirstByte)
    BY <1>10, ConcatEmptySeq
  <2>4. QED BY <1>1, <1>3, <1>8, <1>9, <1>12, <2>2, <2>3
<1>13. QED BY <1>11, <1>12

\* meshRecvCb: a string that is complete takes its first byte with it.
LEMMA RecvFirsts ==
  ASSUME TypeOK, StreamInv, NEW n \in Chunk, MeshRecvCb(n), IsNul(wire[n])
  PROVE  \E m \in Msgs :
           /\ recvq' = Append(recvq, Body(m))
           /\ Tags(Only(Stream', FirstByte)) \in Seq(Msgs)
           /\ Tags(Only(Stream, FirstByte)) = <<m>> \o Tags(Only(Stream', FirstByte))
<1>1. PICK m \in Msgs :
        /\ recvq' = Append(recvq, Body(m))
        /\ Size[m] + 1 \in 1..Len(Stream) /\ IsNul(Stream[Size[m] + 1])
        /\ \A i \in 1..Size[m] : Stream[i] = [msg |-> m, pos |-> i]
        /\ Stream' \in Seq(Byte) /\ Len(Stream') = Len(Stream) - (Size[m] + 1)
        /\ \A i \in 1..Len(Stream') : Stream'[i] = Stream[Size[m] + 1 + i]
  BY RecvCut
<1>2. Stream \in Seq(Byte) /\ Len(Stream) \in Nat /\ Size[m] \in Nat \ {0}
  BY Received, LenProperties, SizeAssumption
<1> DEFINE k == Size[m] + 1
           h == SubSeq(Stream, 1, k)
<1>3. h \in Seq(Byte) /\ Len(h) = k /\ \A i \in 1..k : h[i] = Stream[i]
  <2>1. 1 \in 1..(Len(Stream) + 1) /\ k \in (1 - 1)..Len(Stream) /\ k - 1 + 1 = k
    BY <1>1, <1>2
  <2>2. /\ h \in Seq(Byte) /\ Len(h) = k - 1 + 1
        /\ \A i \in 1..(k - 1 + 1) : h[i] = Stream[1 + i - 1]
    BY <1>2, <2>1, Cut
  <2>3. \A i \in 1..k : 1 + i - 1 = i
    BY <1>2
  <2>4. QED BY <2>1, <2>2, <2>3
<1> HIDE DEF h
<1>4. Stream = h \o Stream'
  <2>1. PICK r \in Seq(Byte) : r = Stream'
    BY <1>1
  <2>2. h \o r \in Seq(Byte) /\ Len(h \o r) = Len(Stream)
    BY <1>1, <1>2, <1>3, <2>1, ConcatProperties
  <2>3. \A i \in 1..(Len(h) + Len(r)) : (h \o r)[i] = IF i <= Len(h) THEN h[i] ELSE r[i - Len(h)]
    BY <1>3, ConcatProperties
  <2>4. ASSUME NEW i \in 1..Len(Stream) PROVE Stream[i] = (h \o r)[i]
    <3>1. i \in Int /\ i \in 1..(Len(h) + Len(r))
      BY <1>1, <1>2, <1>3, <2>1
    <3>2. CASE i <= k
      <4>1. i \in 1..k
        BY <3>1, <3>2
      <4>2. QED BY <1>3, <2>3, <3>1, <3>2, <4>1
    <3>3. CASE ~(i <= k)
      <4>1. i - k \in 1..Len(r) /\ k + (i - k) = i
        <5>1. Len(r) = Len(Stream) - k /\ k \in Nat /\ i \in 1..Len(Stream) /\ Len(Stream) \in Nat
          BY <1>1, <1>2, <2>1
        <5> HIDE DEF k
        <5>2. QED BY <3>3, <5>1
      <4>2. r[i - k] = Stream[k + (i - k)]
        BY <1>1, <2>1, <4>1
      <4>3. QED BY <1>3, <2>3, <3>1, <3>3, <4>1, <4>2
    <3>4. QED BY <3>2, <3>3
  <2>5. Stream = h \o r
    BY <1>2, <2>2, <2>4, SeqEqual
  <2>6. QED BY <2>1, <2>5
<1>5. Only(h, FirstByte) = <<h[1]>> /\ h[1] \in Byte /\ h[1].msg = m
  <2>1. h # <<>> /\ 1 \in 1..Len(h)
    BY <1>2, <1>3, EmptySeq
  <2>2. h[1].pos = 1 /\ h[1].msg = m
    <3>1. 1 \in 1..Size[m] /\ 1 \in 1..k
      BY <1>2
    <3>2. h[1] = Stream[1] /\ Stream[1] = [msg |-> m, pos |-> 1]
      BY <1>1, <1>3, <3>1
    <3>3. QED BY <3>2
  <2>3. ASSUME NEW i \in 2..Len(h) PROVE h[i].pos # 1
    <3>1. CASE i <= Size[m]
      <4>1. h[i] = [msg |-> m, pos |-> i] /\ i # 1
        <5>1. i \in 1..Size[m] /\ i \in 1..k /\ i # 1
          BY <1>2, <1>3, <3>1
        <5>2. h[i] = Stream[i] /\ Stream[i] = [msg |-> m, pos |-> i]
          BY <1>1, <1>3, <5>1
        <5>3. QED BY <5>1, <5>2
      <4>2. QED BY <4>1
    <3>2. CASE ~(i <= Size[m])
      <4>1. i = k /\ k \in 1..Len(Stream)
        BY <1>1, <1>2, <1>3, <3>2
      <4>2. IsNul(h[i]) /\ h[i] \in Byte
        BY <1>1, <1>2, <1>3, <4>1, ElementOfSeq, SMTT(20)
      <4>3. Size[h[i].msg] \in Nat \ {0}
        BY <4>2, SizeAssumption DEF Byte
      <4>4. QED BY <4>2, <4>3 DEF IsNul
    <3>3. QED BY <3>1, <3>2
  <2>4. Only(h, FirstByte) = IF h[1].pos = 1 THEN <<h[1]>> ELSE <<>>
    BY <1>3, <2>1, <2>3, FirstsOfPart
  <2>5. QED BY <1>3, <2>1, <2>2, <2>4, ElementOfSeq
<1>6. Only(Stream, FirstByte) = <<h[1]>> \o Only(Stream', FirstByte)
  <2>1. PICK r \in Seq(Byte) : r = Stream'
    BY <1>1
  <2>2. Only(h \o r, FirstByte) = Only(h, FirstByte) \o Only(r, FirstByte)
    BY <1>3, OnlyConcat, SMTT(20)
  <2>3. QED BY <1>4, <1>5, <2>1, <2>2
<1>7. PICK o \in Seq(Tagged), b \in Tagged : o = Only(Stream', FirstByte) /\ b = h[1]
  <2>1. Byte \subseteq Tagged
    BY DEF Tagged
  <2>2. Only(Stream', FirstByte) \in Seq(Byte)
    BY <1>1, OnlyType
  <2>3. Only(Stream', FirstByte) \in Seq(Tagged)
    BY <2>1, <2>2, LargerSet
  <2>4. QED BY <1>5, <2>1, <2>3
<1>8. Tags(<<b>> \o o) = <<b.msg>> \o Tags(o) /\ Tags(o) \in Seq(Msgs)
  BY TagsOf
<1>9. QED BY <1>1, <1>5, <1>6, <1>7, <1>8

LEMMA RecvqText ==
  ASSUME TypeOK, WholeMessages PROVE recvq \in Seq(Text) /\ handled \in Seq(Text)
<1>1. /\ recvq \in Seq(Seq(Byte)) /\ handled \in Seq(Seq(Byte))
      /\ \A i \in DOMAIN recvq : recvq[i] \in Text
      /\ \A i \in DOMAIN handled : handled[i] \in Text
  BY DEF TypeOK, WholeMessages, Whole, Text
<1>2. ASSUME NEW q \in Seq(Seq(Byte)), \A i \in DOMAIN q : q[i] \in Text PROVE q \in Seq(Text)
  <2>1. Len(q) \in Nat /\ DOMAIN q = 1..Len(q) /\ q \in [1..Len(q) -> Seq(Byte)]
    BY LenProperties
  <2>2. q \in [1..Len(q) -> Text]
    BY <1>2, <2>1
  <2>3. QED BY <2>1, <2>2, SMTT(20)
<1>3. QED BY <1>1, <1>2

LEMMA FirstTagsType ==
  ASSUME NEW s \in Seq(Byte) PROVE Tags(Only(s, FirstByte)) \in Seq(Msgs)
<1>1. Only(s, FirstByte) \in Seq(Byte) /\ Byte \subseteq Tagged
  BY OnlyType DEF Tagged
<1>2. Only(s, FirstByte) \in Seq(Tagged)
  BY <1>1, LargerSet
<1>3. QED BY <1>2, TagsOf

LEMMA ConcatAppend ==
  ASSUME NEW E, NEW a \in Seq(E), NEW b \in Seq(E), NEW x \in E
  PROVE  a \o Append(b, x) = Append(a \o b, x) /\ a \o Append(b, x) \in Seq(E)
<1>0. <<x>> \in Seq(E)
  OBVIOUS
<1>1. PICK u \in Seq(E) : u = <<x>>
  BY <1>0
<1>2. Append(b, x) = b \o u /\ b \o u \in Seq(E) /\ a \o b \in Seq(E)
  BY <1>1, AppendIsConcat, ConcatProperties
<1>3. PICK c \in Seq(E) : c = a \o b
  BY <1>2
<1>4. Append(c, x) = c \o u
  BY <1>1, AppendIsConcat
<1>5. (a \o b) \o u = a \o (b \o u)
  BY ConcatAssociative, SMTT(20)
<1>6. c \o u \in Seq(E)
  BY ConcatProperties
<1>7. QED BY <1>2, <1>3, <1>4, <1>5, <1>6

-----------------------------------------------------------------------------
(* Every step of the code is one of the channel, or is not seen by it.     *)

Ch == INSTANCE MessageChannel WITH
  Message <- Msgs, Urgent <- Priority, Recurring <- {Tick},
  pending <- Pending, transit <- Transit, received <- Arrived,
  open <- [send |-> sconn, recv |-> rconn]

ChannelDone ==
  \/ \E m \in Msgs :
       /\ Ch!Accept(m) /\ m \notin Elements(accepted)
       /\ accepted' = IF m = Tick THEN accepted ELSE Append(accepted, m)
  \/ /\ Ch!Start \/ Ch!Hand \/ Ch!CloseSend \/ Ch!CloseRecv \/ UNCHANGED Ch!vars
     /\ accepted' = accepted

\* A step that leaves these alone is not seen by the channel.
LEMMA ChannelStutters ==
  ASSUME UNCHANGED <<Pending, Transit, Arrived, sconn, rconn, accepted>> PROVE ChannelDone
BY DEF ChannelDone, Ch!vars

LEMMA Quiet ==
  ASSUME Sound, UNCHANGED <<buffer, wire, recvq, handled, sconn, rconn, accepted>>,
         Pend(sentq', Begun') = Pend(sentq, Begun)
  PROVE  ChannelDone
<1>1. Stream' = Stream
  BY DEF Stream
<1>2. UNCHANGED <<Pending, Transit, Arrived>>
  BY <1>1, ChannelState
<1>3. QED BY <1>2, ChannelStutters

LEMMA AddChannel ==
  ASSUME Sound, TypeOK, QueueInv, NEW m \in Msgs, AddMessage(m) PROVE ChannelDone
<1> USE DEF sendVars, recvVars, connVars
<1>1. /\ sconn /\ pc["loop"] = "idle" /\ m \notin Elements(accepted)
      /\ UNCHANGED <<clean, wire, buffer, recvq, handled, sconn, rconn>>
  BY DEF AddMessage
<1>2. pc'["loop"] # "freeRead"
  <2>1. pc' = [pc EXCEPT !["loop"] = IF CanSend THEN "writeNext" ELSE "idle"]
        /\ "loop" \in DOMAIN pc
    BY OneTask DEF AddMessage, WriteIfCanSend, TypeOK
  <2>2. pc'["loop"] \in {"writeNext", "idle"}
    BY <2>1
  <2>3. QED BY <2>2
<1>3. Begun = ~clean /\ Begun' = ~clean
  BY <1>1, <1>2, Zenon DEF Begun
<1>4. CASE DiscardMessage(m)
  BY <1>1, <1>3, <1>4, Quiet DEF DiscardMessage
<1>5. CASE AcceptMessage(m)
  <2>1. sentq' = Push(m) /\ accepted' = IF m = Tick THEN accepted ELSE Append(accepted, m)
    BY <1>5 DEF AcceptMessage
  <2>2. Pend(Push(m), ~clean) = IF m \in Priority THEN <<m>> \o Pend(sentq, ~clean)
                                ELSE Append(Pend(sentq, ~clean), m)
    BY <1>1, PushPending
  <2>3. Pending' = IF m \in Priority THEN <<m>> \o Pending ELSE Append(Pending, m)
    BY <1>3, <2>1, <2>2, ChannelState, Zenon
  <2>4. UNCHANGED <<Transit, Arrived>>
    <3>1. Stream' = Stream
      BY <1>1 DEF Stream
    <3>2. QED BY <1>1, <3>1, ChannelState
  <2>5. Ch!Accept(m)
    BY <1>1, <2>3, <2>4 DEF Ch!Accept
  <2>6. QED BY <1>1, <2>1, <2>5 DEF ChannelDone
<1>6. QED BY <1>4, <1>5 DEF AddMessage

LEMMA WriteChannel ==
  ASSUME Sound, TypeOK, TypeOK', QueueInv, WriterInv, StreamInv, WholeMessages,
         WriteTaken("loop")
  PROVE  ChannelDone
<1> USE DEF sendVars, recvVars, connVars
<1>1. /\ sentq # <<>> /\ sconn /\ pc["loop"] = "write" /\ pc'["loop"] = "freeRead"
      /\ Stream \in Seq(Byte)
      /\ clean => Tags(Only(Stream', FirstByte)) =
                    Append(Tags(Only(Stream, FirstByte)), sentq[1].msg)
      /\ ~clean => Only(Stream', FirstByte) = Only(Stream, FirstByte)
  BY WriteFirsts
<1>2. UNCHANGED <<sentq, clean, buffer, recvq, handled, sconn, rconn, accepted>>
  BY DEF WriteTaken
<1>3. Begun' /\ (Begun <=> ~clean)
  BY <1>1, <1>2 DEF Begun
<1>4. sentq \in Seq(Tagged)
  <2>1. sentq \in Seq(Entry) /\ Entry \subseteq Tagged
    BY DEF TypeOK, Entry, Tagged
  <2>2. QED BY <2>1, LargerSet
<1>5. Tags(sentq) \in Seq(Msgs) /\ Tags(sentq) # <<>> /\ Head(Tags(sentq)) = sentq[1].msg
  BY <1>1, <1>4, TagsOf
<1>6. Arrived' = Arrived
  BY <1>2, ChannelState
<1>7. CASE clean
  <2>1. Pending = Tags(sentq) /\ Pending' = Tail(Tags(sentq))
    BY <1>1, <1>2, <1>3, <1>7, ChannelState DEF Pend
  <2>2. Transit' = IF rconn THEN Append(Transit, Head(Pending)) ELSE Transit
    <3>1. CASE rconn
      <4>1. /\ Transit = Firsts(recvq) \o Tags(Only(Stream, FirstByte))
            /\ Transit' = Firsts(recvq) \o Append(Tags(Only(Stream, FirstByte)), sentq[1].msg)
        BY <1>1, <1>2, <1>7, <3>1, ChannelState
      <4>2. PICK a \in Seq(Msgs), b \in Seq(Msgs), x \in Msgs :
              a = Firsts(recvq) /\ b = Tags(Only(Stream, FirstByte)) /\ x = sentq[1].msg
        <5>1. Firsts(recvq) \in Seq(Msgs)
          BY RecvqText, FirstsOf
        <5>2. Tags(Only(Stream, FirstByte)) \in Seq(Msgs)
          BY <1>1, FirstTagsType
        <5>3. sentq[1].msg \in Msgs
          BY <1>1, FrontType
        <5>4. QED BY <5>1, <5>2, <5>3
      <4>3. a \o Append(b, x) = Append(a \o b, x)
        BY ConcatAppend, SMTT(20)
      <4>4. QED BY <1>5, <2>1, <3>1, <4>1, <4>2, <4>3
    <3>2. CASE ~rconn
      BY <1>2, <3>2, ChannelState
    <3>3. QED BY <3>1, <3>2
  <2>3. Ch!Start
    BY <1>2, <1>5, <1>6, <2>1, <2>2 DEF Ch!Start
  <2>4. QED BY <1>2, <2>3 DEF ChannelDone
<1>8. CASE ~clean
  <2>1. Pending' = Pending
    BY <1>2, <1>3, <1>8, ChannelState DEF Pend
  <2>2. Transit' = Transit
    BY <1>1, <1>2, <1>8, ChannelState
  <2>3. QED BY <1>2, <1>6, <2>1, <2>2, ChannelStutters
<1>9. QED BY <1>7, <1>8

LEMMA RecvChannel ==
  ASSUME Sound, TypeOK, StreamInv, WholeMessages, NEW n \in Chunk, MeshRecvCb(n)
  PROVE  ChannelDone
<1> USE DEF sendVars, recvVars, connVars
<1>1. /\ rconn
      /\ UNCHANGED <<sentq, clean, pc, handled, sconn, rconn, accepted>>
  BY DEF MeshRecvCb
<1>2. Pend(sentq', Begun') = Pend(sentq, Begun)
  BY <1>1 DEF Begun
<1>3. Pending' = Pending /\ Arrived' = Arrived
  BY <1>1, <1>2, ChannelState
<1>4. CASE ~IsNul(wire[n])
  <2>1. recvq' = recvq /\ Stream' = Stream
    BY <1>4, RecvUncut
  <2>2. Transit' = Transit
    BY <1>1, <2>1, ChannelState
  <2>3. QED BY <1>1, <1>3, <2>2, ChannelStutters
<1>5. CASE IsNul(wire[n])
  <2>1. PICK m \in Msgs :
          /\ recvq' = Append(recvq, Body(m))
          /\ Tags(Only(Stream', FirstByte)) \in Seq(Msgs)
          /\ Tags(Only(Stream, FirstByte)) = <<m>> \o Tags(Only(Stream', FirstByte))
    BY <1>5, RecvFirsts
  <2>2. recvq \in Seq(Text)
    BY RecvqText
  <2>3. Firsts(recvq') = Append(Firsts(recvq), m) /\ Firsts(recvq) \in Seq(Msgs)
    BY <2>1, <2>2, FirstsOf
  <2>4. PICK a \in Seq(Msgs), b \in Seq(Msgs) :
          a = Firsts(recvq) /\ b = Tags(Only(Stream', FirstByte))
    BY <2>1, <2>3
  <2>5. Append(a, m) \o b = a \o (<<m>> \o b)
    <3>1. <<m>> \in Seq(Msgs)
      OBVIOUS
    <3>2. PICK u \in Seq(Msgs) : u = <<m>>
      BY <3>1
    <3>3. Append(a, m) = a \o u
      BY <3>2, AppendIsConcat
    <3>4. (a \o u) \o b = a \o (u \o b)
      BY ConcatAssociative, SMTT(20)
    <3>5. QED BY <3>2, <3>3, <3>4
  <2>6. Transit = a \o (<<m>> \o b)
    BY <1>1, <2>1, <2>4, ChannelState
  <2>7. Transit' = Append(a, m) \o b
    BY <1>1, <2>3, <2>4, ChannelState
  <2>8. QED BY <1>1, <1>3, <2>5, <2>6, <2>7, ChannelStutters
<1>6. QED BY <1>4, <1>5

LEMMA ReadChannel ==
  ASSUME Sound, TypeOK, WholeMessages, ReadBufferTask PROVE ChannelDone
<1> USE DEF sendVars, recvVars, connVars
<1>1. /\ rconn /\ recvq # <<>> /\ recvq' = Tail(recvq)
      /\ handled' = IF Head(recvq) = Body(Tick) THEN handled ELSE Append(handled, Head(recvq))
      /\ UNCHANGED <<sentq, clean, pc, wire, buffer, sconn, rconn, accepted>>
  BY DEF ReadBufferTask
<1>2. Pending' = Pending
  BY <1>1, ChannelState DEF Begun
<1>3. Stream' = Stream
  BY <1>1 DEF Stream
<1>4. recvq \in Seq(Text) /\ handled \in Seq(Text)
  BY RecvqText
<1>5. PICK m \in Msgs : /\ Head(recvq) = Body(m) /\ Firsts(recvq) # <<>> /\ Head(Firsts(recvq)) = m
                        /\ Tail(recvq) \in Seq(Text) /\ Tail(Firsts(recvq)) = Firsts(Tail(recvq))
  BY <1>1, <1>4, FirstsOf
<1>6. Firsts(recvq) \in Seq(Msgs)
  BY <1>4, FirstsOf
<1>7. Stream \in Seq(Byte)
  <2>1. buffer \in Seq(Byte) /\ wire \in Seq(Byte)
    BY DEF TypeOK
  <2>2. QED BY <2>1, ConcatProperties DEF Stream
<1>8. PICK a \in Seq(Msgs), b \in Seq(Msgs) :
        a = Firsts(recvq) /\ b = Tags(Only(Stream, FirstByte))
  BY <1>6, <1>7, FirstTagsType
<1>9. a # <<>> /\ Head(a) = m /\ Tail(a) = Firsts(recvq')
  BY <1>1, <1>5, <1>8
<1>10. a \o b # <<>> /\ Head(a \o b) = m /\ Tail(a \o b) = Tail(a) \o b
  <2>1. a = <<m>> \o Tail(a) /\ Tail(a) \in Seq(Msgs)
    BY <1>9, FrontAndRest
  <2>2. <<m>> \in Seq(Msgs)
    OBVIOUS
  <2>3. PICK u \in Seq(Msgs), r \in Seq(Msgs) : u = <<m>> /\ r = Tail(a)
    BY <2>1, <2>2
  <2>4. a \o b = u \o (r \o b)
    BY <2>1, <2>3, ConcatAssociative, SMTT(20)
  <2>5. PICK c \in Seq(Msgs) : c = r \o b
    BY ConcatProperties
  <2>6. <<m>> \o c # <<>> /\ Head(<<m>> \o c) = m /\ Tail(<<m>> \o c) = c
    BY FrontAndRestUnique
  <2>7. QED BY <2>3, <2>4, <2>5, <2>6
<1>11. Transit = a \o b /\ Transit' = Tail(a) \o b
  BY <1>1, <1>3, <1>8, <1>9, ChannelState
<1>12. Arrived' = IF m = Tick THEN Arrived ELSE Append(Arrived, m)
  <2>1. Body(m) = Body(Tick) <=> m = Tick
    BY BodyFirst DEF Msgs
  <2>2. CASE m = Tick
    BY <1>1, <1>5, <2>1, <2>2, ChannelState
  <2>3. CASE m # Tick
    <3>1. handled' = Append(handled, Body(m))
      BY <1>1, <1>5, <2>1, <2>3
    <3>2. Firsts(handled') = Append(Firsts(handled), m)
      BY <1>4, <3>1, FirstsOf
    <3>3. QED BY <2>3, <3>2, ChannelState
  <2>4. QED BY <2>2, <2>3
<1>13. Ch!Hand
  BY <1>1, <1>2, <1>10, <1>11, <1>12 DEF Ch!Hand
<1>14. QED BY <1>1, <1>13 DEF ChannelDone

LEMMA OpenEnds ==
  ASSUME NEW a, NEW b
  PROVE  /\ [[send |-> a, recv |-> b] EXCEPT !.send = FALSE] = [send |-> FALSE, recv |-> b]
         /\ [[send |-> a, recv |-> b] EXCEPT !.recv = FALSE] = [send |-> a, recv |-> FALSE]
<1> DEFINE o == [send |-> a, recv |-> b]
           s == [send |-> FALSE, recv |-> b]
           r == [send |-> a, recv |-> FALSE]
<1>1. DOMAIN o = {"send", "recv"} /\ DOMAIN s = {"send", "recv"} /\ DOMAIN r = {"send", "recv"}
  OBVIOUS
<1>2. o["send"] = a /\ o["recv"] = b /\ s["send"] = FALSE /\ s["recv"] = b
      /\ r["send"] = a /\ r["recv"] = FALSE
  BY Zenon
<1>3. s = [i \in {"send", "recv"} |-> s[i]] /\ r = [i \in {"send", "recv"} |-> r[i]]
  OBVIOUS
<1>4. [o EXCEPT !.send = FALSE] = [i \in {"send", "recv"} |-> IF i = "send" THEN FALSE ELSE o[i]]
  BY <1>1, Zenon
<1>5. [o EXCEPT !.recv = FALSE] = [i \in {"send", "recv"} |-> IF i = "recv" THEN FALSE ELSE o[i]]
  BY <1>1, Zenon
<1> HIDE DEF o, s, r
<1>6. [o EXCEPT !.send = FALSE] = s
  BY <1>2, <1>3, <1>4, Zenon
<1>7. [o EXCEPT !.recv = FALSE] = r
  BY <1>2, <1>3, <1>5, Zenon
<1>8. QED BY <1>6, <1>7 DEF o, s, r

LEMMA CloseChannel ==
  ASSUME Sound, TypeOK, CloseSender("loop") \/ CloseReceiver PROVE ChannelDone
<1> USE DEF sendVars, recvVars, connVars
<1>1. CASE CloseSender("loop")
  <2>1. /\ sconn /\ ~sconn' /\ sentq' = <<>>
        /\ UNCHANGED <<clean, pc, wire, buffer, recvq, handled, rconn, accepted>>
    BY <1>1 DEF CloseSender
  <2>2. Pending' = <<>>
    <3>1. Tags(<<>>) = <<>>
      <4>1. Tags(<<>>) \in Seq(Msgs) /\ Len(Tags(<<>>)) = 0
        <5>1. <<>> \in Seq(Tagged) /\ Len(<<>>) = 0
          OBVIOUS
        <5>2. PICK q \in Seq(Tagged) : q = <<>> /\ Len(q) = 0
          BY <5>1
        <5>3. QED BY <5>2, TagsOf
      <4>2. QED BY <4>1, EmptySeq
    <3>2. QED BY <2>1, <3>1, ChannelState DEF Pend
  <2>3. Transit' = Transit /\ Arrived' = Arrived
    <3>1. Stream' = Stream
      BY <2>1 DEF Stream
    <3>2. QED BY <2>1, <3>1, ChannelState
  <2>4. Ch!CloseSend
    <3>1. sconn' = FALSE
      BY <2>1, <1>1 DEF CloseSender
    <3>2. [send |-> sconn, recv |-> rconn]' = [[send |-> sconn, recv |-> rconn] EXCEPT !.send = FALSE]
      BY <2>1, <3>1, OpenEnds
    <3>3. QED BY <2>1, <2>2, <2>3, <3>2 DEF Ch!CloseSend
  <2>5. QED BY <2>1, <2>4 DEF ChannelDone
<1>2. CASE CloseReceiver
  <2>1. /\ rconn /\ rconn' = FALSE
        /\ UNCHANGED <<sentq, clean, pc, handled, sconn, accepted>>
    BY <1>2 DEF CloseReceiver
  <2>2. Pending' = Pending /\ Arrived' = Arrived
    BY <2>1, ChannelState DEF Begun
  <2>3. Transit' = <<>>
    BY <2>1, ChannelState
  <2>4. Ch!CloseRecv
    <3>1. [send |-> sconn, recv |-> rconn]' = [[send |-> sconn, recv |-> rconn] EXCEPT !.recv = FALSE]
      BY <2>1, OpenEnds
    <3>2. QED BY <2>1, <2>2, <2>3, <3>1 DEF Ch!CloseRecv
  <2>5. QED BY <2>1, <2>4 DEF ChannelDone
<1>3. QED BY <1>1, <1>2

LEMMA ChannelStep ==
  ASSUME Sound, IInv, TypeOK', [Next]_vars PROVE ChannelDone
<1> USE DEF sendVars, recvVars, connVars
<1>0. /\ Task = {"loop"} /\ CallbackTask = "loop" /\ ~OutputMayFail
      /\ TypeOK /\ QueueInv /\ WriterInv /\ StreamInv /\ WholeMessages
  BY OneTask DEF IInv
<1>1. ASSUME NEW m \in Msgs, AddMessage(m) PROVE ChannelDone
  BY <1>0, <1>1, AddChannel
<1>2. ASSUME UNCHANGED <<sentq, clean, wire, buffer, recvq, handled, sconn, rconn, accepted>>,
             pc["loop"] # "freeRead", pc'["loop"] # "freeRead"
      PROVE ChannelDone
  <2>1. Begun' <=> Begun
    BY <1>2 DEF Begun
  <2>2. Pend(sentq', Begun') = Pend(sentq, Begun)
    BY <1>2, <2>1 DEF Pend
  <2>3. QED BY <1>2, <2>2, Quiet
<1>3. "loop" \in DOMAIN pc
  BY <1>0 DEF TypeOK
<1>4. CASE ReadFront("loop")
  <2>1. pc["loop"] = "writeNext" /\ pc'["loop"] = "write"
    BY <1>3, <1>4 DEF ReadFront
  <2>2. QED BY <1>2, <1>4, <2>1 DEF ReadFront
<1>5. CASE WriteReturns("loop")
  <2>1. pc["loop"] = "writeNext" /\ pc'["loop"] = "idle"
    BY <1>3, <1>5 DEF WriteReturns
  <2>2. QED BY <1>2, <1>5, <2>1 DEF WriteReturns
<1>6. CASE WriteTaken("loop")
  BY <1>0, <1>6, WriteChannel
<1>7. CASE WriteFails("loop")
  <2>1. pc["loop"] = "write" /\ pc'["loop"] = "idle"
    BY <1>0, <1>7, FailedWrite DEF WriteFails
  <2>2. wire' = wire \o SubSeq(shared_buffer, 1, 0)
    BY <1>0, <1>7 DEF WriteFails
  <2>3. wire' = wire
    <3>1. wire \in Seq(Byte) /\ shared_buffer \in Seq(Byte)
      <4>1. MSS \in Nat
        BY BufferAssumption
      <4>2. wire \in Seq(Byte) /\ shared_buffer \in [1..MSS -> Byte]
        BY <1>0 DEF TypeOK
      <4>3. QED BY <4>1, <4>2
    <3>2. SubSeq(shared_buffer, 1, 0) = <<>>
      <4>1. SubSeq(shared_buffer, 1, 0) \in Seq(Byte) /\ Len(SubSeq(shared_buffer, 1, 0)) = 0
        <5>1. Len(shared_buffer) \in Nat
          BY <3>1
        <5>2. 1 \in 1..(Len(shared_buffer) + 1) /\ 0 \in (1 - 1)..Len(shared_buffer)
          BY <5>1
        <5>3. QED BY <3>1, <5>2, Cut
      <4>2. QED BY <4>1, EmptySeq
    <3>3. wire \o <<>> = wire
      BY <3>1, ConcatEmptySeq
    <3>4. QED BY <2>2, <3>2, <3>3
  <2>4. QED BY <1>2, <1>7, <2>1, <2>3 DEF WriteFails
<1>8. CASE FreeRead("loop")
  <2>1. Pend(sentq', Begun') = Pend(sentq, Begun)
    BY <1>0, <1>8, FreeReadPending
  <2>2. QED BY <1>8, <2>1, Quiet DEF FreeRead
<1>9. ASSUME NEW n \in 1..ackable, TcpSentCb(n) PROVE ChannelDone
  <2>1. pc["loop"] = "idle" /\ pc'["loop"] = "writeNext"
    BY <1>0, <1>3, <1>9 DEF TcpSentCb
  <2>2. QED BY <1>2, <1>9, <2>1 DEF TcpSentCb
<1>10. CASE ReuseSharedBuffer("loop")
  <2>1. pc["loop"] = "idle" /\ pc' = pc
    BY <1>10 DEF ReuseSharedBuffer
  <2>2. QED BY <1>2, <1>10, <2>1 DEF ReuseSharedBuffer
<1>11. ASSUME NEW n \in Chunk, MeshRecvCb(n) PROVE ChannelDone
  BY <1>0, <1>11, RecvChannel
<1>12. CASE ReadBufferTask
  BY <1>0, <1>12, ReadChannel
<1>13. CASE CloseSender("loop") \/ CloseReceiver
  BY <1>0, <1>13, CloseChannel
<1>14. CASE UNCHANGED vars
  <2>1. Begun' <=> Begun
    BY <1>14 DEF vars, Begun
  <2>2. Pend(sentq', Begun') = Pend(sentq, Begun)
    BY <1>14, <2>1 DEF vars, Pend
  <2>3. QED BY <1>14, <2>2, Quiet DEF vars
<1>15. ASSUME NEW t \in Task, WriteNext(t) PROVE ChannelDone
  BY <1>0, <1>4, <1>5, <1>6, <1>7, <1>8, <1>15 DEF WriteNext
<1>16. ASSUME NEW t \in Task, ReuseSharedBuffer(t) \/ CloseSender(t) PROVE ChannelDone
  BY <1>0, <1>10, <1>13, <1>16
<1>17. QED
  BY <1>1, <1>9, <1>11, <1>12, <1>13, <1>14, <1>15, <1>16, ConstantFacts
     DEF Next, NodeSyncTask, Msgs

LEMMA NothingYet ==
  ASSUME Sound, Init
  PROVE  Pending = <<>> /\ Transit = <<>> /\ Arrived = <<>> /\ accepted = <<>>
<1>1. /\ sentq = <<>> /\ recvq = <<>> /\ handled = <<>> /\ buffer = <<>> /\ wire = <<>>
      /\ accepted = <<>> /\ rconn
  BY DEF Init
<1>2. PICK q \in Seq(Tagged), r \in Seq(Text), b \in Seq(Byte) :
        q = <<>> /\ r = <<>> /\ b = <<>> /\ Len(q) = 0 /\ Len(r) = 0
  <2>1. <<>> \in Seq(Tagged) /\ <<>> \in Seq(Text) /\ <<>> \in Seq(Byte) /\ Len(<<>>) = 0
    OBVIOUS
  <2>2. QED BY <2>1
<1>3. Tags(q) = <<>> /\ Firsts(r) = <<>>
  <2>1. Tags(q) \in Seq(Msgs) /\ Len(Tags(q)) = 0 /\ Firsts(r) \in Seq(Msgs) /\ Len(Firsts(r)) = 0
    BY <1>2, TagsOf, FirstsOf
  <2>2. QED BY <2>1, EmptySeq
<1>4. b \o b = <<>> /\ Only(<<>>, FirstByte) = <<>>
  BY <1>2, ConcatEmptySeq, OnlyEmpty
<1>5. Tags(<<>>) = <<>> /\ Firsts(<<>>) = <<>> /\ Stream = <<>> /\ <<>> \o <<>> = <<>>
  BY <1>1, <1>2, <1>3, <1>4 DEF Stream
<1>6. QED BY <1>1, <1>4, <1>5, ChannelState DEF Pend

-----------------------------------------------------------------------------
\* addMessage, writeNext, freeRead, meshRecvCb and readBufferTask keep the
\* promise of MessageChannel, step by step and for every number and size of
\* messages: a priority message overtakes what has not started and nothing
\* else, and what has started arrives once and in order.
THEOREM KeepsPromise == ASSUME Sound PROVE Spec => ChannelSpec
<1>1. Spec => []IInv
  BY StreamCorrect
<1>2. IInv /\ IInv' /\ [Next]_vars => [Channel!Next]_Channel!vars
  <2> SUFFICES ASSUME IInv, IInv', [Next]_vars PROVE [Channel!Next]_Channel!vars
    OBVIOUS
  <2>1. ChannelDone
    BY ChannelStep DEF IInv
  <2>2. [Ch!Next]_Ch!vars
    BY <2>1 DEF ChannelDone, Ch!Next
  <2>3. QED BY <2>2
     DEF Ch!Next, Ch!vars, Ch!Accept, Ch!Start, Ch!Hand, Ch!CloseSend, Ch!CloseRecv,
         Channel!Next, Channel!vars, Channel!Accept, Channel!Start, Channel!Hand,
         Channel!CloseSend, Channel!CloseRecv, Pending, Transit, Arrived
<1>3. Init => Channel!Init
  <2> SUFFICES ASSUME Init PROVE Channel!Init
    OBVIOUS
  <2>1. Pending = <<>> /\ Transit = <<>> /\ Arrived = <<>>
    BY NothingYet
  <2>2. sconn = TRUE /\ rconn = TRUE
    BY DEF Init
  <2>3. QED BY <2>1, <2>2 DEF Channel!Init, Pending, Transit, Arrived
<1>4. QED BY <1>1, <1>2, <1>3, PTL DEF Spec, ChannelSpec, Channel!Spec

-----------------------------------------------------------------------------
(* What the channel's steps keep.  Of the messages of a set S, those       *)
(* received and those in transit are, in this order, the beginning of      *)
(* those accepted, and while both ends are open those pending are the      *)
(* rest.  S may hold a message with priority, which overtakes others, only *)
(* if it holds no other message.                                           *)

Kept(S) ==
  \E rest \in Seq(Msgs) :
    /\ Only(accepted, S) = (Only(Arrived, S) \o Only(Transit, S)) \o rest
    /\ sconn /\ rconn => rest = Only(Pending, S)

ChannelTypes ==
  /\ Pending \in Seq(Msgs) /\ Transit \in Seq(Msgs) /\ Arrived \in Seq(Msgs)
  /\ accepted \in Seq(Msgs)
  /\ ~sconn => Pending = <<>>

LEMMA ChannelTyped ==
  ASSUME Sound, TypeOK, QueueInv, WholeMessages PROVE ChannelTypes
<1>1. sentq \in Seq(Tagged) /\ recvq \in Seq(Text) /\ handled \in Seq(Text) /\ Stream \in Seq(Byte)
  <2>1. sentq \in Seq(Entry) /\ Entry \subseteq Tagged /\ buffer \in Seq(Byte) /\ wire \in Seq(Byte)
    BY DEF TypeOK, Entry, Tagged
  <2>2. sentq \in Seq(Tagged) /\ Stream \in Seq(Byte)
    BY <2>1, LargerSet, ConcatProperties DEF Stream
  <2>3. QED BY <2>2, RecvqText
<1>2. Tags(sentq) \in Seq(Msgs) /\ Len(Tags(sentq)) = Len(sentq)
      /\ (sentq # <<>> => Tags(sentq) # <<>>)
  BY <1>1, TagsOf
<1>3. Pending \in Seq(Msgs)
  <2>1. CASE Begun /\ sentq # <<>>
    <3>1. Tail(Tags(sentq)) \in Seq(Msgs)
      BY <1>2, <2>1, FrontAndRest
    <3>2. QED BY <2>1, <3>1, ChannelState DEF Pend
  <2>2. CASE ~(Begun /\ sentq # <<>>)
    BY <1>2, <2>2, ChannelState DEF Pend
  <2>3. QED BY <2>1, <2>2
<1>4. Transit \in Seq(Msgs) /\ Arrived \in Seq(Msgs)
  <2>1. Firsts(recvq) \in Seq(Msgs) /\ Firsts(handled) \in Seq(Msgs)
        /\ Tags(Only(Stream, FirstByte)) \in Seq(Msgs)
    BY <1>1, FirstsOf, FirstTagsType
  <2>2. Firsts(recvq) \o Tags(Only(Stream, FirstByte)) \in Seq(Msgs) /\ <<>> \in Seq(Msgs)
    BY <2>1, ConcatProperties
  <2>3. QED BY <2>1, <2>2, ChannelState
<1>5. accepted \in Seq(Msgs)
  <2>1. accepted \in Seq(AppMsgs \cup CtlMsgs) /\ AppMsgs \cup CtlMsgs \subseteq Msgs
    BY DEF TypeOK, Msgs
  <2>2. QED BY <2>1, LargerSet
<1>6. ~sconn => Pending = <<>>
  <2>1. ASSUME ~sconn PROVE Tags(sentq) = <<>> /\ sentq = <<>>
    <3>1. sentq = <<>>
      BY <2>1 DEF QueueInv
    <3>2. Len(Tags(sentq)) = 0
      BY <1>2, <3>1
    <3>3. QED BY <1>2, <3>1, <3>2, EmptySeq
  <2>2. QED BY <2>1, ChannelState DEF Pend
<1>7. QED BY <1>3, <1>4, <1>5, <1>6 DEF ChannelTypes

\* A message that moves from the sequence behind to the one before it.
LEMMA MoveOver ==
  ASSUME NEW E, NEW a \in Seq(E), NEW b \in Seq(E), NEW x \in E
  PROVE  a \o (<<x>> \o b) = Append(a, x) \o b
<1>0. <<x>> \in Seq(E)
  OBVIOUS
<1>1. PICK u \in Seq(E) : u = <<x>>
  BY <1>0
<1>2. Append(a, x) = a \o u
  BY <1>1, AppendIsConcat
<1>3. (a \o u) \o b = a \o (u \o b)
  BY ConcatAssociative, SMTT(20)
<1>4. QED BY <1>1, <1>2, <1>3

LEMMA NothingBehind ==
  ASSUME NEW E, NEW a \in Seq(E), NEW b \in Seq(E), a \o b = <<>>
  PROVE  a = <<>> /\ b = <<>>
<1>1. Len(a \o b) = Len(a) + Len(b) /\ Len(a) \in Nat /\ Len(b) \in Nat
  BY ConcatProperties, LenProperties
<1>2. Len(<<>>) = 0
  OBVIOUS
<1>3. Len(a) = 0 /\ Len(b) = 0
  BY <1>1, <1>2
<1>4. QED BY <1>3, EmptySeq

\* What is left of a sequence when its front is taken.
LEMMA OnlyFront ==
  ASSUME NEW E, NEW q \in Seq(E), NEW x \in E, NEW S
  PROVE  Only(<<x>> \o q, S) = IF x \in S THEN <<x>> \o Only(q, S) ELSE Only(q, S)
<1>1. PICK r \in Seq(E) : r = <<x>> \o q
  BY FrontAndRestUnique
<1>2. r # <<>> /\ Head(r) = x /\ Tail(r) = q
  BY <1>1, FrontAndRestUnique
<1>3. Only(r, S) = IF Head(r) \in S THEN <<Head(r)>> \o Only(Tail(r), S) ELSE Only(Tail(r), S)
  BY <1>2, OnlyTail
<1>4. QED BY <1>1, <1>2, <1>3

LEMMA SameEnds ==
  ASSUME [send |-> sconn, recv |-> rconn]' = [send |-> sconn, recv |-> rconn]
  PROVE  sconn' = sconn /\ rconn' = rconn
<1>1. [send |-> sconn', recv |-> rconn'] = [send |-> sconn, recv |-> rconn]
  OBVIOUS
<1>2. \A a, b, c, d : [send |-> a, recv |-> b] = [send |-> c, recv |-> d] => a = c /\ b = d
  OBVIOUS
<1>3. QED BY <1>1, <1>2, Zenon

LEMMA KeptStep ==
  ASSUME NEW S, Tick \notin S, \A m \in S \cap Priority : S = {m},
         ChannelTypes, Kept(S), ChannelDone
  PROVE  Kept(S)'
<1> DEFINE A == Only(accepted, S)
           H == Only(Arrived, S)
           T == Only(Transit, S)
           P == Only(Pending, S)
<1>1. A \in Seq(Msgs) /\ H \in Seq(Msgs) /\ T \in Seq(Msgs) /\ P \in Seq(Msgs)
  BY OnlyType DEF ChannelTypes
<1>2. PICK rest \in Seq(Msgs) : A = (H \o T) \o rest /\ (sconn /\ rconn => rest = P)
  BY DEF Kept
<1>3. H \o T \in Seq(Msgs)
  BY <1>1, ConcatProperties
\* It is enough to name what is left.
<1>4. ASSUME NEW r \in Seq(Msgs), A' = (H' \o T') \o r, sconn' /\ rconn' => r = P'
      PROVE  Kept(S)'
  BY <1>4 DEF Kept
<1>5. ASSUME NEW m \in Msgs, Ch!Accept(m), m \notin Elements(accepted),
             accepted' = IF m = Tick THEN accepted ELSE Append(accepted, m)
      PROVE  Kept(S)'
  <2>1. /\ sconn /\ Transit' = Transit /\ Arrived' = Arrived
        /\ Pending' = IF m \in Priority THEN <<m>> \o Pending ELSE Append(Pending, m)
        /\ [send |-> sconn, recv |-> rconn]' = [send |-> sconn, recv |-> rconn]
    BY <1>5 DEF Ch!Accept
  <2>2. sconn' = sconn /\ rconn' = rconn
    BY <2>1, SameEnds
  <2>3. T' = T /\ H' = H
    BY <2>1
  <2>4. P' = IF m \notin S THEN P ELSE IF m \in Priority THEN <<m>> \o P ELSE Append(P, m)
    <3>1. Only(<<m>> \o Pending, S) = IF m \in S THEN <<m>> \o P ELSE P
      BY OnlyFront DEF ChannelTypes
    <3>2. Only(Append(Pending, m), S) = IF m \in S THEN Append(P, m) ELSE P
      BY OnlyAppend DEF ChannelTypes
    <3>3. QED BY <2>1, <3>1, <3>2
  <2>5. CASE m \notin S
    <3>1. A' = A
      <4>1. Only(Append(accepted, m), S) = A
        BY <2>5, OnlyAppend DEF ChannelTypes
      <4>2. QED BY <1>5, <4>1
    <3>2. P' = P
      BY <2>4, <2>5
    <3> HIDE DEF A, H, T, P
    <3>3. QED BY <1>2, <1>4, <2>2, <2>3, <3>1, <3>2
  <2>6. CASE m \in S
    <3>1. A' = Append(A, m)
      <4>1. Only(Append(accepted, m), S) = Append(A, m)
        BY <2>6, OnlyAppend DEF ChannelTypes
      <4>2. QED BY <1>5, <2>6, <4>1
    <3>2. P = rest => P' = Append(rest, m)
      <4>1. CASE m \notin Priority
        BY <2>4, <2>6, <4>1
      <4>2. CASE m \in Priority
        <5>1. S = {m}
          BY <2>6, <4>2
        <5>2. \A i \in 1..Len(accepted) : accepted[i] \notin S
          BY <1>5, <5>1, LenProperties DEF Elements, ChannelTypes
        <5>3. A = <<>>
          BY <5>2, OnlyNone DEF ChannelTypes
        <5>4. rest = <<>>
          BY <1>2, <1>3, <5>3, NothingBehind
        <5>5. <<m>> \o rest = Append(rest, m)
          <6>1. <<m>> \in Seq(Msgs)
            OBVIOUS
          <6>2. <<m>> \o <<>> = <<m>> /\ Append(<<>>, m) = <<m>>
            BY <6>1, ConcatEmptySeq
          <6>3. QED BY <5>4, <6>2
        <5>6. QED BY <2>4, <2>6, <4>2, <5>5
      <4>3. QED BY <4>1, <4>2
    <3>3. Append(rest, m) \in Seq(Msgs)
      BY AppendProperties
    <3>4. (H \o T) \o Append(rest, m) = Append((H \o T) \o rest, m)
      BY <1>3, ConcatAppend, SMTT(20)
    <3>5. A' = (H' \o T') \o Append(rest, m)
      BY <1>2, <2>3, <3>1, <3>4
    <3>6. sconn' /\ rconn' => Append(rest, m) = P'
      BY <1>2, <2>2, <3>2
    <3> HIDE DEF A, H, T, P
    <3>7. QED BY <1>4, <3>3, <3>5, <3>6
  <2>7. QED BY <2>5, <2>6
<1>6. ASSUME Ch!Start, accepted' = accepted PROVE Kept(S)'
  <2>1. /\ Pending # <<>> /\ Pending' = Tail(Pending) /\ Arrived' = Arrived
        /\ Transit' = IF rconn THEN Append(Transit, Head(Pending)) ELSE Transit
        /\ [send |-> sconn, recv |-> rconn]' = [send |-> sconn, recv |-> rconn]
    BY <1>6 DEF Ch!Start
  <2>2. sconn' = sconn /\ rconn' = rconn /\ sconn
    BY <2>1, SameEnds DEF ChannelTypes
  <2>3. A' = A /\ H' = H
    BY <1>6, <2>1
  <2>4. PICK x \in Msgs : x = Head(Pending)
    BY <2>1, FrontAndRest DEF ChannelTypes
  <2>5. P = IF x \in S THEN <<x>> \o P' ELSE P'
    BY <2>1, <2>4, OnlyTail DEF ChannelTypes
  <2>6. P' \in Seq(Msgs)
    <3>1. Tail(Pending) \in Seq(Msgs)
      BY <2>1, FrontAndRest DEF ChannelTypes
    <3>2. QED BY <2>1, <3>1, OnlyType
  <2>7. CASE rconn
    <3>1. T' = IF x \in S THEN Append(T, x) ELSE T
      BY <2>1, <2>4, <2>7, OnlyAppend, SMTT(20) DEF ChannelTypes
    <3>2. A = (H \o T) \o P
      BY <1>2, <2>2, <2>7
    <3> HIDE DEF A, H, T, P
    <3>3. (H \o T') \o P' = (H \o T) \o P
      <4>1. CASE x \notin S
        BY <2>5, <3>1, <4>1
      <4>2. CASE x \in S
        <5>1. PICK p \in Seq(Msgs) : p = P'
          BY <2>6
        <5>2. PICK c \in Seq(Msgs) : c = H \o T
          BY <1>3
        <5>3. c \o (<<x>> \o p) = Append(c, x) \o p
          BY MoveOver, SMTT(20)
        <5>4. H \o Append(T, x) = Append(H \o T, x)
          BY <1>1, ConcatAppend, SMTT(20)
        <5>5. T' = Append(T, x) /\ P = <<x>> \o p
          BY <2>5, <3>1, <4>2, <5>1
        <5>6. QED BY <5>1, <5>2, <5>3, <5>4, <5>5, Zenon
      <4>3. QED BY <4>1, <4>2
    <3>4. A' = (H' \o T') \o P'
      BY <2>3, <3>2, <3>3
    <3>5. QED BY <1>4, <2>6, <3>4
  <2>8. CASE ~rconn
    <3>1. T' = T /\ ~rconn'
      BY <2>1, <2>2, <2>8
    <3>2. A' = (H' \o T') \o rest
      BY <1>2, <2>3, <3>1
    <3> HIDE DEF A, H, T, P
    <3>3. QED BY <1>4, <3>1, <3>2
  <2>9. QED BY <2>7, <2>8
<1>7. ASSUME Ch!Hand, accepted' = accepted PROVE Kept(S)'
  <2>1. /\ Transit # <<>> /\ Transit' = Tail(Transit) /\ Pending' = Pending
        /\ Arrived' = IF Head(Transit) \in {Tick} THEN Arrived ELSE Append(Arrived, Head(Transit))
        /\ [send |-> sconn, recv |-> rconn]' = [send |-> sconn, recv |-> rconn]
    BY <1>7 DEF Ch!Hand
  <2>2. sconn' = sconn /\ rconn' = rconn
    BY <2>1, SameEnds
  <2>3. A' = A /\ P' = P
    BY <1>7, <2>1
  <2>4. PICK x \in Msgs : x = Head(Transit)
    BY <2>1, FrontAndRest DEF ChannelTypes
  <2>5. T = IF x \in S THEN <<x>> \o T' ELSE T'
    BY <2>1, <2>4, OnlyTail DEF ChannelTypes
  <2>6. T' \in Seq(Msgs)
    <3>1. Tail(Transit) \in Seq(Msgs)
      BY <2>1, FrontAndRest DEF ChannelTypes
    <3>2. QED BY <2>1, <3>1, OnlyType
  <2>7. H' = IF x \in S THEN Append(H, x) ELSE H
    <3>1. Only(Append(Arrived, x), S) = IF x \in S THEN Append(H, x) ELSE H
      BY OnlyAppend DEF ChannelTypes
    <3>2. CASE x = Tick
      BY <2>1, <2>4, <3>2
    <3>3. CASE x # Tick
      BY <2>1, <2>4, <3>1, <3>3
    <3>4. QED BY <3>2, <3>3
  <2> HIDE DEF A, H, T, P
  <2>8. H' \o T' = H \o T
    <3>1. CASE x \notin S
      BY <2>5, <2>7, <3>1
    <3>2. CASE x \in S
      <4>1. PICK u \in Seq(Msgs), h \in Seq(Msgs) : u = T' /\ h = H
        BY <1>1, <2>6
      <4>2. h \o (<<x>> \o u) = Append(h, x) \o u
        BY MoveOver, SMTT(20)
      <4>3. T = <<x>> \o u /\ H' = Append(h, x)
        BY <2>5, <2>7, <3>2, <4>1
      <4>4. QED BY <4>1, <4>2, <4>3
    <3>3. QED BY <3>1, <3>2
  <2>9. A' = (H' \o T') \o rest
    BY <1>2, <2>3, <2>8
  <2>10. sconn' /\ rconn' => rest = P'
    BY <1>2, <2>2, <2>3
  <2>11. QED BY <1>4, <2>9, <2>10
<1>8. ASSUME Ch!CloseSend, accepted' = accepted PROVE Kept(S)'
  <2>1. /\ UNCHANGED <<Transit, Arrived>>
        /\ [send |-> sconn, recv |-> rconn]' = [[send |-> sconn, recv |-> rconn] EXCEPT !.send = FALSE]
    BY <1>8 DEF Ch!CloseSend
  <2>2. ~sconn'
    <3>1. [send |-> sconn', recv |-> rconn'] = [send |-> FALSE, recv |-> rconn]
      BY <2>1, OpenEnds
    <3>2. QED BY <3>1
  <2>3. A' = A /\ H' = H /\ T' = T
    BY <1>8, <2>1
  <2> HIDE DEF A, H, T, P
  <2>4. QED BY <1>2, <1>4, <2>2, <2>3
<1>9. ASSUME Ch!CloseRecv, accepted' = accepted PROVE Kept(S)'
  <2>1. /\ UNCHANGED <<Pending, Arrived>> /\ Transit' = <<>>
        /\ [send |-> sconn, recv |-> rconn]' = [[send |-> sconn, recv |-> rconn] EXCEPT !.recv = FALSE]
    BY <1>9 DEF Ch!CloseRecv
  <2>2. ~rconn'
    <3>1. [send |-> sconn', recv |-> rconn'] = [send |-> sconn, recv |-> FALSE]
      BY <2>1, OpenEnds
    <3>2. QED BY <3>1
  <2>3. A' = A /\ H' = H
    BY <1>9, <2>1
  <2>4. T' = <<>>
    BY <2>1, OnlyEmpty
  <2> HIDE DEF A, H, T, P
  <2>5. H \o <<>> = H /\ T \o rest \in Seq(Msgs)
    BY <1>1, ConcatEmptySeq, ConcatProperties
  <2>6. (H \o T) \o rest = H \o (T \o rest)
    <3>1. PICK h \in Seq(Msgs), u \in Seq(Msgs) : h = H /\ u = T
      BY <1>1
    <3>2. (h \o u) \o rest = h \o (u \o rest)
      BY ConcatAssociative, SMTT(20)
    <3>3. QED BY <3>1, <3>2
  <2>7. A' = (H' \o T') \o (T \o rest)
    BY <1>2, <2>3, <2>4, <2>5, <2>6
  <2>8. QED BY <1>4, <2>2, <2>5, <2>7
<1>10. ASSUME UNCHANGED Ch!vars, accepted' = accepted PROVE Kept(S)'
  <2>1. /\ UNCHANGED <<Pending, Transit, Arrived>>
        /\ [send |-> sconn, recv |-> rconn]' = [send |-> sconn, recv |-> rconn]
    BY <1>10 DEF Ch!vars
  <2>2. sconn' = sconn /\ rconn' = rconn
    BY <2>1, SameEnds
  <2>3. QED BY <1>10, <2>1, <2>2 DEF Kept
<1>11. QED BY <1>5, <1>6, <1>7, <1>8, <1>9, <1>10 DEF ChannelDone

LEMMA KeptInit ==
  ASSUME Sound, Init, NEW S PROVE Kept(S)
<1>1. Pending = <<>> /\ Transit = <<>> /\ Arrived = <<>> /\ accepted = <<>>
  BY NothingYet
<1>2. Only(<<>>, S) = <<>>
  BY OnlyEmpty
<1>3. <<>> \in Seq(Msgs) /\ <<>> \o <<>> = <<>>
  <2>1. <<>> \in Seq(Msgs)
    OBVIOUS
  <2>2. QED BY <2>1, ConcatEmptySeq
<1>4. Only(accepted, S) = (Only(Arrived, S) \o Only(Transit, S)) \o <<>> /\ <<>> = Only(Pending, S)
  BY <1>1, <1>2, <1>3
<1>5. QED BY <1>3, <1>4 DEF Kept

LEMMA KeptNext ==
  ASSUME Sound, IInv, TypeOK', [Next]_vars,
         NEW S, Tick \notin S, \A m \in S \cap Priority : S = {m}, Kept(S)
  PROVE  Kept(S)'
BY ChannelStep, ChannelTyped, KeptStep DEF IInv

-----------------------------------------------------------------------------
\* Messages without priority are handled in the order addMessage accepted
\* them in and none of them is skipped, whatever priority messages, failed
\* writes, fragments and closings come between.
THEOREM OrderIsKept == ASSUME Sound PROVE Spec => []OrderKept
<1>1. Spec => []IInv
  BY StreamCorrect
<1>2. Tick \notin AppMsgs /\ \A m \in AppMsgs \cap Priority : AppMsgs = {m}
  BY MsgsAssumption DEF Priority
<1>3. Init => Kept(AppMsgs)
  BY KeptInit
<1>4. IInv /\ IInv' /\ Kept(AppMsgs) /\ [Next]_vars => Kept(AppMsgs)'
  BY <1>2, KeptNext DEF IInv
<1>5. IInv /\ Kept(AppMsgs) => OrderKept
  <2> SUFFICES ASSUME IInv, Kept(AppMsgs) PROVE OrderKept
    OBVIOUS
  <2> DEFINE A == Only(accepted, AppMsgs)
             H == Only(Arrived, AppMsgs)
             T == Only(Transit, AppMsgs)
  <2>1. A \in Seq(Msgs) /\ H \in Seq(Msgs) /\ T \in Seq(Msgs)
    BY ChannelTyped, OnlyType DEF ChannelTypes, IInv
  <2>2. PICK rest \in Seq(Msgs) : A = (H \o T) \o rest
    BY DEF Kept
  <2> HIDE DEF A, H, T
  <2>3. PICK h \in Seq(Msgs), u \in Seq(Msgs) : h = H /\ u = T \o rest
    BY <2>1, ConcatProperties
  <2>4. A = h \o u
    <3>1. PICK a \in Seq(Msgs) : a = T
      BY <2>1
    <3>2. (h \o a) \o rest = h \o (a \o rest)
      BY ConcatAssociative, SMTT(20)
    <3>3. QED BY <2>2, <2>3, <3>1, <3>2
  <2>5. /\ Len(A) = Len(h) + Len(u) /\ Len(h) \in Nat /\ Len(u) \in Nat
        /\ \A i \in 1..(Len(h) + Len(u)) : A[i] = IF i <= Len(h) THEN h[i] ELSE u[i - Len(h)]
    BY <2>4, ConcatProperties, LenProperties
  <2>6. SubSeq(h, 1, Len(h)) = SubSeq(A, 1, Len(h))
    <3> DEFINE n == Len(h)
               x == SubSeq(h, 1, n)
               y == SubSeq(A, 1, n)
    <3>1. n \in Nat /\ n <= Len(A) /\ Len(A) \in Nat
      BY <2>5
    <3>2. 1 \in 1..(n + 1) /\ n \in (1 - 1)..n /\ 1 \in 1..(Len(A) + 1)
          /\ n \in (1 - 1)..Len(A) /\ n - 1 + 1 = n
      <4> HIDE DEF n
      <4>1. QED BY <3>1
    <3>3. x \in Seq(Msgs) /\ Len(x) = n - 1 + 1 /\ \A i \in 1..(n - 1 + 1) : x[i] = h[1 + i - 1]
      BY <3>2, Cut
    <3>4. y \in Seq(Msgs) /\ Len(y) = n - 1 + 1 /\ \A i \in 1..(n - 1 + 1) : y[i] = A[1 + i - 1]
      BY <2>1, <3>2, Cut
    <3>5. \A i \in 1..n : A[i] = h[i]
      BY <2>5
    <3> HIDE DEF n, x, y
    <3>6. \A i \in 1..n : 1 + i - 1 = i
      BY <3>1
    <3>7. \A i \in 1..n : x[i] = y[i]
      BY <3>2, <3>3, <3>4, <3>5, <3>6
    <3>8. x = y
      BY <3>2, <3>3, <3>4, <3>7, SeqEqual
    <3>9. QED BY <3>8 DEF x, y, n
  <2>7. IsPrefix(H, A)
    BY <2>3, <2>5, <2>6 DEF IsPrefix
  <2>8. QED BY <2>7 DEF OrderKept, Arrived, A, H
<1>6. QED BY <1>1, <1>3, <1>4, <1>5, PTL DEF Spec

-----------------------------------------------------------------------------
(* Every message is sent once, so that the order of one message only, for  *)
(* which the beginning and the rest hold a single element, says where it   *)
(* is.                                                                     *)

Once ==
  \A m \in AppMsgs \cup CtlMsgs : Kept({m}) /\ Len(Only(accepted, {m})) <= 1

LEMMA OnceNext ==
  ASSUME Sound, IInv, TypeOK', [Next]_vars, Once PROVE Once'
<1>1. ChannelDone /\ ChannelTypes
  BY ChannelStep, ChannelTyped DEF IInv
<1>2. ASSUME NEW m \in AppMsgs \cup CtlMsgs PROVE (Kept({m}) /\ Len(Only(accepted, {m})) <= 1)'
  <2>1. Kept({m}) /\ Len(Only(accepted, {m})) <= 1 /\ m # Tick
    BY MsgsAssumption DEF Once
  <2>2. Kept({m})'
    <3>1. PICK S : S = {m}
      OBVIOUS
    <3>2. Tick \notin S /\ Kept(S) /\ \A k \in S \cap Priority : S = {k}
      BY <2>1, <3>1
    <3>3. Kept(S)'
      BY <3>2, KeptNext
    <3>4. QED BY <3>1, <3>3
  <2>3. Len(Only(accepted', {m})) <= 1
    <3>1. CASE accepted' = accepted
      BY <2>1, <3>1
    <3>2. ASSUME NEW k \in Msgs, k \notin Elements(accepted), accepted' = Append(accepted, k)
          PROVE  Len(Only(accepted', {m})) <= 1
      <4>1. Only(accepted', {m}) = IF k = m THEN Append(Only(accepted, {m}), k)
                                   ELSE Only(accepted, {m})
        BY <1>1, <3>2, OnlyAppend DEF ChannelTypes
      <4>2. CASE k # m
        BY <2>1, <4>1, <4>2
      <4>3. CASE k = m
        <5>1. \A i \in 1..Len(accepted) : accepted[i] \notin {m}
          BY <1>1, <3>2, <4>3, LenProperties DEF ChannelTypes, Elements
        <5>2. Only(accepted, {m}) = <<>>
          BY <1>1, <5>1, OnlyNone DEF ChannelTypes
        <5>3. PICK o \in Seq(Msgs) : o = Only(accepted, {m}) /\ Len(o) = 0
          <6>1. <<>> \in Seq(Msgs) /\ Len(<<>>) = 0
            OBVIOUS
          <6>2. QED BY <5>2, <6>1
        <5>4. Len(Append(o, k)) = 1
          BY <5>3, AppendProperties
        <5>5. QED BY <4>1, <4>3, <5>3, <5>4
      <4>4. QED BY <4>2, <4>3
    <3>3. QED BY <1>1, <3>1, <3>2 DEF ChannelDone
  <2>4. QED BY <2>2, <2>3
<1>3. QED BY <1>2 DEF Once

\* A message that waits in the channel is a string of the queue of which
\* nothing has left.
LEMMA PendingIs ==
  ASSUME Sound, TypeOK, QueueInv, WriterInv, sconn, NEW m \in Msgs
  PROVE  (\E i \in 1..Len(Pending) : Pending[i] = m) <=> NotStarted(m)
<1>1. sentq \in Seq(Entry) /\ Entry \subseteq Tagged
  BY DEF TypeOK, Entry, Tagged
<1>2. sentq \in Seq(Tagged) /\ Len(sentq) \in Nat /\ DOMAIN sentq = 1..Len(sentq)
  BY <1>1, LargerSet, LenProperties
<1>3. Tags(sentq) \in Seq(Msgs) /\ Len(Tags(sentq)) = Len(sentq)
      /\ \A i \in 1..Len(sentq) : Tags(sentq)[i] = sentq[i].msg
  BY <1>2, TagsOf
<1>4. \A i \in 1..Len(sentq) : sentq[i] = [msg |-> m, off |-> 0] <=> sentq[i].msg = m /\ sentq[i].off = 0
  <2> TAKE i \in 1..Len(sentq)
  <2>1. sentq[i] \in Entry
    BY <1>1, ElementOfSeq
  <2>2. QED BY <2>1 DEF Entry
<1>5. NotStarted(m) <=>
        \E i \in 1..Len(sentq) : /\ sentq[i].msg = m /\ sentq[i].off = 0
                                 /\ ~(i = 1 /\ pc["loop"] = "freeRead")
  BY <1>2, <1>4, OneTask DEF NotStarted
<1>6. \A i \in 2..Len(sentq) : sentq[i].off = 0
  BY DEF QueueInv
<1>7. CASE ~Begun
  <2>1. Pending = Tags(sentq) /\ clean /\ pc["loop"] # "freeRead"
    BY <1>7, ChannelState DEF Pend, Begun
  <2>2. \A i \in 1..Len(sentq) : sentq[i].off = 0
    <3> TAKE i \in 1..Len(sentq)
    <3>1. CASE i = 1
      <4>1. sentq # <<>>
        BY <1>1, <1>2, <3>1, EmptySeq
      <4>2. QED BY <2>1, <3>1, <4>1 DEF QueueInv
    <3>2. CASE i # 1
      BY <1>2, <1>6, <3>2
    <3>3. QED BY <3>1, <3>2
  <2>3. QED BY <1>3, <1>5, <2>1, <2>2
<1>8. CASE Begun
  <2>1. sentq # <<>>
    BY <1>8 DEF Begun, QueueInv, WriterInv
  <2>2. Pending = Tail(Tags(sentq)) /\ Len(sentq) # 0 /\ Tags(sentq) # <<>>
    BY <1>2, <1>8, <2>1, TagsOf, ChannelState, EmptySeq DEF Pend
  <2>3. Len(Pending) = Len(sentq) - 1 /\ \A i \in 1..Len(Pending) : Pending[i] = Tags(sentq)[i + 1]
    BY <1>3, <2>2, HeadTailProperties
  <2>4. \A i \in 1..Len(Pending) : Pending[i] = sentq[i + 1].msg
    BY <1>2, <1>3, <2>3
  <2>5. sentq[1].off = 0 => pc["loop"] = "freeRead"
    <3>1. ~clean => sentq[1].off > 0
      BY DEF QueueInv
    <3>2. QED BY <1>8, <3>1 DEF Begun
  <2>6. ASSUME NEW i \in 1..Len(Pending), Pending[i] = m PROVE NotStarted(m)
    <3>1. i + 1 \in 2..Len(sentq) /\ i + 1 \in 1..Len(sentq) /\ i + 1 # 1
      BY <1>2, <2>3
    <3>2. sentq[i + 1].msg = m /\ sentq[i + 1].off = 0
      BY <1>6, <2>4, <2>6, <3>1
    <3>3. QED BY <1>5, <3>1, <3>2
  <2>7. ASSUME NotStarted(m) PROVE \E i \in 1..Len(Pending) : Pending[i] = m
    <3>1. PICK i \in 1..Len(sentq) : /\ sentq[i].msg = m /\ sentq[i].off = 0
                                     /\ ~(i = 1 /\ pc["loop"] = "freeRead")
      BY <1>5, <2>7
    <3>2. i # 1
      BY <2>5, <3>1
    <3>3. i - 1 \in 1..Len(Pending) /\ (i - 1) + 1 = i
      BY <1>2, <2>3, <3>2
    <3>4. Pending[i - 1] = m
      BY <2>4, <3>1, <3>3
    <3>5. QED BY <3>3, <3>4
  <2>8. QED BY <2>6, <2>7
<1>9. QED BY <1>7, <1>8

\* A message whose first byte is on its way.
LEMMA StartedIs ==
  ASSUME TypeOK, NEW m \in Msgs
  PROVE  LET F == Tags(Only(Stream, FirstByte)) IN (\E i \in 1..Len(F) : F[i] = m) <=> Started(m)
<1> DEFINE O == Only(Stream, FirstByte)
           F == Tags(O)
<1>1. Stream \in Seq(Byte)
  <2>1. buffer \in Seq(Byte) /\ wire \in Seq(Byte)
    BY DEF TypeOK
  <2>2. QED BY <2>1, ConcatProperties DEF Stream
<1>2. O \in Seq(Byte \cap FirstByte)
  BY <1>1, OnlyType
<1>3. O \in Seq(Tagged)
  <2>1. Byte \cap FirstByte \subseteq Tagged
    BY DEF Tagged
  <2>2. QED BY <1>2, <2>1, LargerSet
<1>4. Len(F) = Len(O) /\ \A i \in 1..Len(O) : F[i] = O[i].msg
  BY <1>3, TagsOf
<1>5. [msg |-> m, pos |-> 1] \in FirstByte
  BY DEF FirstByte
<1>6. (\E k \in 1..Len(O) : O[k] = [msg |-> m, pos |-> 1])
        <=> \E i \in 1..Len(Stream) : Stream[i] = [msg |-> m, pos |-> 1]
  BY <1>1, <1>5, OnlyHas
<1>7. \A k \in 1..Len(O) : O[k] = [msg |-> m, pos |-> 1] <=> O[k].msg = m
  <2> TAKE k \in 1..Len(O)
  <2> HIDE DEF O
  <2>1. O[k] \in FirstByte
    BY <1>2, ElementOfSeq
  <2>2. QED BY <2>1 DEF FirstByte
<1>8. Started(m) <=> \E i \in 1..Len(Stream) : Stream[i] = [msg |-> m, pos |-> 1]
  BY <1>1, LenProperties DEF Started, Stream
<1> HIDE DEF O, F
<1>9. (\E i \in 1..Len(F) : F[i] = m) <=> Started(m)
  BY <1>4, <1>6, <1>7, <1>8
<1>10. QED BY <1>9 DEF F, O

\* While both ends are connected an accepted message is in one place only:
\* in the queue, on its way, received or handled.  None is lost to a write
\* that failed, none is sent twice (addMessage, writeNext, freeRead,
\* meshRecvCb, readBufferTask).
THEOREM EachOnce == ASSUME Sound PROVE Spec => []ExactlyOnce
<1>1. Spec => []IInv
  BY StreamCorrect
<1>2. Init => Once
  <2> SUFFICES ASSUME Init, NEW m \in AppMsgs \cup CtlMsgs
               PROVE  Kept({m}) /\ Len(Only(accepted, {m})) <= 1
    BY DEF Once
  <2>1. Kept({m})
    BY KeptInit
  <2>2. Only(accepted, {m}) = <<>> /\ Len(<<>>) = 0
    BY NothingYet, OnlyEmpty
  <2>3. QED BY <2>1, <2>2
<1>3. IInv /\ IInv' /\ Once /\ [Next]_vars => Once'
  BY OnceNext DEF IInv
<1>4. IInv /\ Once => ExactlyOnce
  <2> SUFFICES ASSUME IInv, Once, sconn, rconn, NEW m \in Elements(accepted)
               PROVE  Count(NotStarted(m)) + Count(Started(m))
                        + Cardinality({i \in DOMAIN recvq : recvq[i][1].msg = m})
                        + Cardinality({i \in DOMAIN handled : handled[i][1].msg = m}) = 1
    BY DEF ExactlyOnce
  <2>1. ChannelTypes /\ TypeOK /\ QueueInv /\ WriterInv /\ WholeMessages
    BY ChannelTyped DEF IInv
  <2>2. PICK k \in 1..Len(accepted) : accepted[k] = m
    BY <2>1, LenProperties DEF Elements, ChannelTypes
  <2>3. m \in AppMsgs \cup CtlMsgs /\ m \in Msgs
    BY <2>1, <2>2, ElementOfSeq DEF TypeOK, Msgs
  <2> DEFINE A == Only(accepted, {m})
             H == Only(Arrived, {m})
             T == Only(Transit, {m})
             P == Only(Pending, {m})
             F == Tags(Only(Stream, FirstByte))
             R == Only(Firsts(recvq), {m})
             B == Only(F, {m})
  <2>4. A \in Seq(Msgs) /\ H \in Seq(Msgs) /\ T \in Seq(Msgs) /\ P \in Seq(Msgs)
    BY <2>1, OnlyType DEF ChannelTypes
  <2>5. A = (H \o T) \o P
    BY <2>3 DEF Once, Kept
  <2>6. Len(A) = 1
    <3>1. Len(A) \in Nat /\ Len(A) > 0
      BY <2>1, <2>2, OnlyCount DEF ChannelTypes
    <3>2. Len(A) <= 1
      BY <2>3 DEF Once
    <3> HIDE DEF A
    <3>3. QED BY <3>1, <3>2
  <2>7. recvq \in Seq(Text) /\ handled \in Seq(Text) /\ Stream \in Seq(Byte)
    <3>1. buffer \in Seq(Byte) /\ wire \in Seq(Byte)
      BY <2>1 DEF TypeOK
    <3>2. QED BY <2>1, <3>1, RecvqText, ConcatProperties DEF Stream
  <2>8. Firsts(recvq) \in Seq(Msgs) /\ F \in Seq(Msgs) /\ Firsts(handled) \in Seq(Msgs)
    BY <2>7, FirstsOf, FirstTagsType
  <2>9. T = R \o B /\ R \in Seq(Msgs) /\ B \in Seq(Msgs)
    <3>1. Transit = Firsts(recvq) \o F
      BY ChannelState
    <3>2. Only(Firsts(recvq) \o F, {m}) = R \o B
      <4>1. PICK s \in Seq(Msgs), t \in Seq(Msgs) : s = Firsts(recvq) /\ t = F
        BY <2>8
      <4>2. Only(s \o t, {m}) = Only(s, {m}) \o Only(t, {m})
        BY OnlyConcat, SMTT(20)
      <4>3. QED BY <4>1, <4>2
    <3> HIDE DEF F
    <3>3. R \in Seq(Msgs) /\ B \in Seq(Msgs)
      BY <2>8, OnlyType
    <3>4. QED BY <3>1, <3>2, <3>3
  <2>10. Len(H) = Cardinality({i \in DOMAIN handled : handled[i][1].msg = m})
    <3>1. Len(H) = Cardinality({i \in DOMAIN Firsts(handled) : Firsts(handled)[i] = m})
      BY <2>8, ChannelState, OnlyCount
    <3>2. {i \in DOMAIN Firsts(handled) : Firsts(handled)[i] = m} =
            {i \in DOMAIN handled : handled[i][1].msg = m}
      BY DEF Firsts
    <3>3. QED BY <3>1, <3>2
  <2>11. Len(R) = Cardinality({i \in DOMAIN recvq : recvq[i][1].msg = m})
    <3>1. Len(R) = Cardinality({i \in DOMAIN Firsts(recvq) : Firsts(recvq)[i] = m})
      BY <2>8, OnlyCount
    <3>2. {i \in DOMAIN Firsts(recvq) : Firsts(recvq)[i] = m} =
            {i \in DOMAIN recvq : recvq[i][1].msg = m}
      BY DEF Firsts
    <3>3. QED BY <3>1, <3>2
  <2>12. Len(P) > 0 <=> NotStarted(m)
    <3>1. Len(P) > 0 <=> \E i \in 1..Len(Pending) : Pending[i] = m
      BY <2>1, OnlyCount DEF ChannelTypes
    <3>2. QED BY <2>1, <2>3, <3>1, PendingIs
  <2>13. Len(B) > 0 <=> Started(m)
    <3>1. Len(B) > 0 <=> \E i \in 1..Len(F) : F[i] = m
      BY <2>8, OnlyCount
    <3>2. QED BY <2>1, <2>3, <3>1, StartedIs
  <2> HIDE DEF A, H, T, P, F, R, B
  <2>14. Len(H) + (Len(R) + Len(B)) + Len(P) = 1
    <3>1. H \o T \in Seq(Msgs) /\ Len(H \o T) = Len(H) + Len(T)
      BY <2>4, ConcatProperties
    <3>2. PICK c \in Seq(Msgs) : c = H \o T
      BY <3>1
    <3>3. Len(c \o P) = Len(c) + Len(P)
      BY <2>4, ConcatProperties
    <3>4. Len(R \o B) = Len(R) + Len(B)
      BY <2>9, ConcatProperties
    <3>5. QED BY <2>5, <2>6, <2>9, <3>1, <3>2, <3>3, <3>4
  <2>15. Len(H) \in Nat /\ Len(R) \in Nat /\ Len(B) \in Nat /\ Len(P) \in Nat
    BY <2>4, <2>9, LenProperties
  <2>16. PICK h \in Nat, r \in Nat, b \in Nat, q \in Nat :
           h = Len(H) /\ r = Len(R) /\ b = Len(B) /\ q = Len(P)
    BY <2>15
  <2>17. h + (r + b) + q = 1
    BY <2>14, <2>16
  <2>18. q \in {0, 1} /\ b \in {0, 1} /\ q + b + r + h = 1
    BY <2>17
  <2>19. q = Count(NotStarted(m))
    BY <2>12, <2>16, <2>18 DEF Count
  <2>20. b = Count(Started(m))
    BY <2>13, <2>16, <2>18 DEF Count
  <2>21. QED BY <2>10, <2>11, <2>16, <2>18, <2>19, <2>20
<1>5. QED BY <1>1, <1>2, <1>3, <1>4, PTL DEF Spec
=============================================================================
