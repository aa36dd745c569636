-------------------------- MODULE TcpClient_proofs --------------------------
(***************************************************************************)
(* Proofs about the TCP client: its types, the order of the data, the      *)
(* receive window, and that the application is told once of the end.       *)
(*                                                                         *)
(* The invariant has two halves.  While the program runs (Live) it says    *)
(* where the threads can be, that a thread which closes has taken the      *)
(* callbacks away before lwIP ends the connection, and what is on its way  *)
(* to the client: the queue and the event the lwIP thread holds, taken as  *)
(* one sequence, so that waiting for room changes nothing.  After an       *)
(* access that has no defined result (Dead) nothing moves.                 *)
(***************************************************************************)
EXTENDS TcpClientProps, SequenceTheorems, FiniteSetTheorems, TLAPS

Events == [type : {"RECV", "FIN", "SENT", "POLL", "ERROR"}, n : Nat, client : BOOLEAN]

\* Where a thread may be while the program runs, and where it goes when its
\* call has been served or the subtraction done.
Plain == [at : {"idle", "send", "close", "unhook", "unhooked", "abort", "discard", "request"}]
Owed == Api("recved", 1, Idle)
Counting == [at : {"acked", "store"}, n : 0..SizeMax - 1, then : {Idle, Owed}]
Calls == {"connect", "recved", "write", "output", "close", "abort"}
Calling == [at : {"api"}, call : Calls, n : 0..SizeMax, then : Plain \cup Counting]
Place == Plain \cup Counting \cup Calling
At(p, call) == p.at = "api" /\ p.call = call

\* What a thread goes on with: the service task with the acknowledgement of the
\* segment it has taken, unless the application acknowledges it later.
Resumes(t, p) ==
  /\ At(p, "recved") =>
       IF t = "svc" THEN \/ p.n = 1 /\ p.then = Idle
                         \/ p.then.at = "acked" /\ p.then.then = Owed
       ELSE \/ p.then.at \in {"request", "close"}
            \/ p.then.at = "acked" /\ p.then.then = Idle
  /\ p.at = "acked" => p.then = IF t = "svc" THEN Owed ELSE Idle
  /\ p.at = "store" => IF t = "svc" THEN p.then = Owed \/ "later" \in ops ELSE p.then = Idle
  /\ p.at = "request" \/ At(p, "connect") => t = "loop"
Placing == pc \in [Thread -> Place] /\ \A t \in Thread : Resumes(t, pc[t])

\* The type of every variable while the program runs.
Writing(p) == IF At(p, "write") THEN 1 ELSE 0
Members ==
  /\ ops \in OpSets
  /\ pcb \in {"none", "syn", "up", "fin", "closing", "gone"}
  /\ hooks \in {"none", "err", "all", "noarg"}
  /\ arrived \in 0..Segments /\ credit \in 0..arrived /\ unsent \in Nat
  /\ has \in BOOLEAN /\ close_pcb \in BOOLEAN /\ silent \in BOOLEAN /\ late \in BOOLEAN
  /\ met \in BOOLEAN
  /\ rx_ack_len \in 0..SizeMax - 1 /\ pcb_busy \in {"no", "yes", "overdue"}
  /\ writes \in 0..MaxWrites /\ fails \in 0..MaxFail
  /\ delivered \in Seq(1..Segments) /\ discards \in Nat
Posting == queue \in Seq(Events) /\ Len(queue) <= QueueLen /\ lwip \in Events \cup {Run}
Types ==
  /\ Members /\ Posting /\ Placing
  /\ unsent + Writing(pc["svc"]) + Writing(pc["loop"]) <= writes
  /\ fault = "none"

\* Nothing has happened before the connection is made, and only then is it
\* asked for.
NotYet == pcb \in {"none", "syn"} =>
  /\ queue = <<>> /\ lwip = Run
  /\ hooks \in {"none", "err"} /\ ~has
  /\ pc["svc"] = Idle /\ (pc["loop"] = Idle \/ At(pc["loop"], "connect"))
  /\ arrived = 0 /\ credit = 0 /\ delivered = <<>> /\ discards = 0
  /\ pcb = "none" => hooks = "none"
Asked == At(pc["loop"], "connect") => pcb = "none" /\ "connect" \in ops
\* A thread in _close has taken the callbacks away for good when it calls
\* tcp_close; LetGo when that call has been served.
LetGo(t) == pc[t].at \in {"abort", "discard"} \/ At(pc[t], "abort")
Unhooking == \A t \in Thread :
  /\ pc[t].at = "unhooked" => hooks \in {"none", "noarg"}
  /\ At(pc[t], "close") \/ LetGo(t) => hooks = "none"
Control == NotYet /\ Asked /\ Unhooking

\* The events on their way to the client.
Waiting == IF lwip = Run THEN queue ELSE Append(queue, lwip)
IsData(e) == e.type = "RECV" /\ e.client
IsEnd(e) == e.type = "ERROR" /\ e.client

\* An error is on its way at most once, for a connection that lwIP has freed
\* and whose end nobody has told; a thread that has been let go need not fear
\* one.
EndComing == \E i \in DOMAIN Waiting : IsEnd(Waiting[i])
OneEnd ==
  /\ EndComing => discards = 0 /\ pcb = "gone" /\ \A t \in Thread : ~LetGo(t)
  /\ \A i, j \in DOMAIN Waiting : IsEnd(Waiting[i]) /\ IsEnd(Waiting[j]) => i = j
  /\ has \/ (hooks \in {"err", "all"} /\ pcb # "gone") => discards = 0

\* As long as the threads were not in _close together, the one that is still
\* has the connection, unless an error came in between.
Alone ==
  /\ \A t, u \in Thread : InClose(t) /\ InClose(u) => t = u
  /\ \A t \in Thread : InClose(t) => has \/ pcb = "gone"
  /\ \A t \in Thread : LetGo(t) => has
Told == OneEnd /\ (~met => Alone) /\ ToldOnce

\* The segments on their way follow those delivered, up to the last one that
\* arrived as long as they are all passed on.
UpTo(last) ==
  /\ \A i \in DOMAIN Waiting : IsData(Waiting[i]) => Waiting[i].n \in (Len(delivered) + 1)..last
  /\ \A m \in (Len(delivered) + 1)..last :
       \E i \in DOMAIN Waiting : IsData(Waiting[i]) /\ Waiting[i].n = m
InLine ==
  /\ \E last \in Len(delivered)..arrived : UpTo(last) /\ (hooks = "all" => last = arrived)
  /\ \A i, j \in DOMAIN Waiting :
       IsData(Waiting[i]) /\ IsData(Waiting[j]) /\ i < j => Waiting[i].n < Waiting[j].n

\* Every segment that has not been acknowledged is on its way or in the hands of
\* the service task.
SegmentsIn(s) == {i \in DOMAIN s : Segment(s[i])}
Hands(p) == IF Taking(p) THEN 1 ELSE 0
Balance == "later" \notin ops => credit + Cardinality(SegmentsIn(Waiting)) + Hands(pc["svc"]) >= arrived

Line == InLine /\ DataInOrder
Live == Types /\ Control /\ Told /\ Line /\ Balance
Dead ==
  /\ TypeOK /\ fault # "none" /\ lwip = Halted /\ pc = [t \in Thread |-> [at |-> "halted"]]
  /\ DataInOrder /\ ToldOnce
IInv == Live \/ Dead
-----------------------------------------------------------------------------
(* Types.                                                                  *)

\* A place has what TypeOK asks for.
LEMMA PlaceTyped ==
  ASSUME NEW p \in Place
  PROVE  /\ p.at \in {"idle", "api", "send", "close", "unhook", "unhooked", "abort", "discard",
                      "acked", "store", "request"}
         /\ p.at \in {"api", "acked", "store"} => p.n \in 0..SizeMax
         /\ p.at = "api" => p \in Calling
         /\ p.at \in {"acked", "store"} => p \in Counting
<1>1. SizeMax \in Nat \ {0}
  BY ChoiceAssumption
<1>2. QED BY <1>1 DEF Place, Plain, Counting, Calling

\* The types are those of TypeOK.
LEMMA TypesOK ==
  ASSUME Types
  PROVE  TypeOK
<1>1. unsent \in 0..MaxWrites
  <2>1. Writing(pc["svc"]) \in {0, 1} /\ Writing(pc["loop"]) \in {0, 1}
    BY DEF Writing
  <2>2. unsent \in Nat /\ writes \in 0..MaxWrites
    BY DEF Types, Members
  <2>3. unsent + Writing(pc["svc"]) + Writing(pc["loop"]) <= writes
    BY DEF Types
  <2>4. QED BY <2>1, <2>2, <2>3, BoundAssumption
<1>2. \A t \in Thread : pc[t] \in Place
  BY DEF Types, Placing
<1>3. QED BY <1>1, <1>2, PlaceTyped DEF TypeOK, Types, Members, Posting

\* An event is none of the records that say what the lwIP thread does.
LEMMA EventRecord ==
  ASSUME NEW e \in Events
  PROVE  e # Run /\ e # Halted
BY DEF Events, Run, Halted

\* Posting an event puts it behind the others, whether there is room or not.
LEMMA Posted ==
  ASSUME Posting, lwip = Run, NEW e \in Events, Post(e)
  PROVE  Waiting' = Append(Waiting, e) /\ Posting'
<1>1. e # Run /\ e # Halted
  BY EventRecord
<1>2. /\ Len(queue) \in Nat /\ Append(queue, e) \in Seq(Events)
      /\ Len(Append(queue, e)) = Len(queue) + 1
  BY LenProperties, AppendProperties DEF Posting
<1>3. QED BY <1>1, <1>2, SizeAssumption DEF Post, Waiting, Posting

\* Where the threads go is a place.
LEMMA Places ==
  /\ Idle \in Plain /\ Owed \in Place
  /\ \A at \in {"idle", "send", "close", "unhook", "unhooked", "abort", "discard", "request"} :
       [at |-> at] \in Plain
  /\ \A at \in {"acked", "store"}, n \in 0..SizeMax - 1, then \in {Idle, Owed} :
       [at |-> at, n |-> n, then |-> then] \in Counting
  /\ \A call \in Calls, n \in 0..SizeMax, then \in Plain \cup Counting : Api(call, n, then) \in Calling
<1>1. Idle \in Plain
  BY DEF Idle, Plain
<1>2. \A at \in {"idle", "send", "close", "unhook", "unhooked", "abort", "discard", "request"} :
       [at |-> at] \in Plain
  BY DEF Plain
<1>3. \A at \in {"acked", "store"}, n \in 0..SizeMax - 1, then \in {Idle, Owed} :
       [at |-> at, n |-> n, then |-> then] \in Counting
  BY DEF Counting
<1>4. \A call \in Calls, n \in 0..SizeMax, then \in Plain \cup Counting : Api(call, n, then) \in Calling
  BY DEF Calling, Api
<1>5. Owed \in Place
  <2>1. 1 \in 0..SizeMax
    BY ChoiceAssumption
  <2>2. QED BY <1>1, <1>4, <2>1 DEF Owed, Place, Calls
<1>6. QED BY <1>1, <1>2, <1>3, <1>4, <1>5

\* One of two counts is exchanged.
LEMMA Budget ==
  ASSUME NEW x \in Nat, NEW y \in Nat, NEW w \in Nat, NEW v \in Nat,
         NEW a \in Nat, NEW b \in Nat, NEW c \in Nat,
         x + a + b <= w, y + c + w <= x + a + v
  PROVE  y + c + b <= v /\ y + b + c <= v
OBVIOUS

\* A thread that moves on keeps the types, if it starts a write only with a
\* count of it.
LEMMA Goes ==
  ASSUME Types, Members', Posting', UNCHANGED <<ops, fault>>,
         NEW t \in Thread, NEW step \in Place, Goto(t, step), Resumes(t, step),
         unsent' + Writing(step) + writes <= unsent + Writing(pc[t]) + writes'
  PROVE  Types' /\ pc'[t] = step /\ \A u \in Thread \ {t} : pc'[u] = pc[u]
<1>1. /\ pc' \in [Thread -> Place] /\ pc'[t] = step /\ \A u \in Thread \ {t} : pc'[u] = pc[u]
  BY DEF Goto, Types, Placing
<1>2. \A u \in Thread : Resumes(u, pc[u])'
  BY <1>1 DEF Resumes, Types, Placing
<1>3. (unsent + Writing(pc["svc"]) + Writing(pc["loop"]) <= writes)'
  <2>1. /\ unsent \in Nat /\ unsent' \in Nat /\ writes \in Nat /\ writes' \in Nat
    BY BoundAssumption DEF Types, Members
  <2>2. \A p : Writing(p) \in {0, 1}
    BY DEF Writing
  <2>3. unsent + Writing(pc["svc"]) + Writing(pc["loop"]) <= writes
    BY DEF Types
  <2>4. CASE t = "svc"
    <3>1. pc'["svc"] = step /\ pc'["loop"] = pc["loop"]
      BY <1>1, <2>4 DEF Thread
    <3> DEFINE a == Writing(pc["svc"])  b == Writing(pc["loop"])  c == Writing(step)
    <3>2. a \in Nat /\ b \in Nat /\ c \in Nat
      BY <2>2
    <3>3. unsent + a + b <= writes /\ unsent' + c + writes <= unsent + a + writes'
      BY <2>3, <2>4
    <3> HIDE DEF a, b, c
    <3>4. unsent' + c + b <= writes'
      BY <2>1, <3>2, <3>3, Budget
    <3>5. QED BY <3>1, <3>4 DEF b, c, Writing, At
  <2>5. CASE t = "loop"
    <3>1. pc'["loop"] = step /\ pc'["svc"] = pc["svc"]
      BY <1>1, <2>5 DEF Thread
    <3> DEFINE a == Writing(pc["svc"])  b == Writing(pc["loop"])  c == Writing(step)
    <3>2. a \in Nat /\ b \in Nat /\ c \in Nat
      BY <2>2
    <3>3. unsent + a + b <= writes /\ unsent' + c + writes <= unsent + b + writes'
      BY <2>3, <2>5
    <3> HIDE DEF a, b, c
    <3>4. unsent' + a + c <= writes'
      <4>1. unsent + b + a <= writes
        BY <2>1, <3>2, <3>3
      <4>2. QED BY <2>1, <3>2, <3>3, <4>1, Budget
    <3>5. QED BY <3>1, <3>4 DEF a, c, Writing, At
  <2>6. QED BY <2>4, <2>5 DEF Thread
<1>4. QED BY <1>1, <1>2, <1>3 DEF Types, Placing

\* No thread moves.
LEMMA Stays ==
  ASSUME Types, Members', Posting', UNCHANGED <<ops, fault, pc, unsent>>, writes <= writes'
  PROVE  Types'
<1>1. Placing'
  BY DEF Types, Placing, Resumes
<1>2. (unsent + Writing(pc["svc"]) + Writing(pc["loop"]) <= writes)'
  <2>1. unsent \in Nat /\ writes \in Nat /\ writes' \in Nat
    BY BoundAssumption DEF Types, Members
  <2>2. Writing(pc["svc"]) \in {0, 1} /\ Writing(pc["loop"]) \in {0, 1}
    BY DEF Writing
  <2>3. unsent + Writing(pc["svc"]) + Writing(pc["loop"]) <= writes
    BY DEF Types
  <2> DEFINE w == Writing(pc["svc"])  v == Writing(pc["loop"])
  <2>4. w' = w /\ v' = v
    BY DEF Writing, At
  <2> HIDE DEF w, v
  <2>5. w \in Nat /\ v \in Nat /\ unsent + w + v <= writes
    BY <2>2, <2>3 DEF w, v
  <2>6. unsent + w + v <= writes'
    BY <2>1, <2>5
  <2>7. QED BY <2>4, <2>6 DEF w, v
<1>3. QED BY <1>1, <1>2 DEF Types

\* The lwIP thread keeps the types.
LEMMA TypesLwip ==
  ASSUME Types, Lwip
  PROVE  Types'
<1> USE SizeAssumption, BoundAssumption DEF memberVars, countVars, histVars
<1>1. Posting /\ Members
  BY DEF Types
<1>2. ASSUME NEW type \in {"RECV", "FIN", "SENT", "POLL", "ERROR"}, NEW n \in Nat,
             lwip = Run, Post(Event(type, n))
      PROVE  Posting'
  <2>1. Event(type, n) \in Events
    BY DEF Event, Events
  <2>2. QED BY <1>1, <1>2, <2>1, Posted
<1>3. UNCHANGED <<ops, fault, pc, writes>>
  BY DEF Lwip, Unblock, Accept, Connected, Receive, Fin, Sent, Poll, Reset, Free
<1>4. writes <= writes'
  BY <1>1, <1>3 DEF Members
<1>5. CASE Unblock
  <2>1. Posting'
    <3>1. lwip \in Events
      BY <1>1, <1>5 DEF Unblock, Posting
    <3>2. Append(queue, lwip) \in Seq(Events) /\ Len(Append(queue, lwip)) = Len(queue) + 1 /\ Len(queue) \in Nat
      BY <1>1, <3>1, AppendProperties, LenProperties DEF Posting
    <3>3. QED BY <1>5, <3>2 DEF Unblock, Posting
  <2>2. Members' /\ UNCHANGED unsent
    BY <1>1, <1>5 DEF Unblock, Members
  <2>3. QED BY <1>3, <1>4, <2>1, <2>2, Stays
<1>6. CASE Accept \/ Connected
  <2>1. Posting' /\ Members' /\ UNCHANGED unsent
    BY <1>1, <1>6 DEF Accept, Connected, Members, Posting
  <2>2. QED BY <1>3, <1>4, <2>1, Stays
<1>7. CASE Receive
  <2>1. arrived' \in 1..Segments /\ credit' \in 0..arrived'
    BY <1>1, <1>7 DEF Receive, Members
  <2>2. Posting'
    BY <1>1, <1>2, <1>7, <2>1 DEF Receive, Posting
  <2>3. Members' /\ UNCHANGED unsent
    BY <1>1, <1>7, <2>1 DEF Receive, Members
  <2>4. QED BY <1>3, <1>4, <2>2, <2>3, Stays
<1>8. CASE Fin \/ Poll \/ Reset
  <2>1. Posting'
    BY <1>1, <1>2, <1>8 DEF Fin, Poll, Reset, Posting
  <2>2. Members' /\ UNCHANGED unsent
    BY <1>1, <1>8, SMTT(30) DEF Fin, Poll, Reset, Members
  <2>3. QED BY <1>3, <1>4, <2>1, <2>2, Stays
<1>9. CASE Sent
  <2>1. Posting'
    BY <1>1, <1>2, <1>9 DEF Sent, Posting
  <2>2. Members'
    BY <1>1, <1>9 DEF Sent, Members
  <2>3. Placing'
    BY <1>3 DEF Types, Placing, Resumes
  <2>4. (unsent + Writing(pc["svc"]) + Writing(pc["loop"]) <= writes)'
    <3>1. Writing(pc["svc"]) \in {0, 1} /\ Writing(pc["loop"]) \in {0, 1}
      BY DEF Writing
    <3>2. unsent \in Nat /\ unsent' = 0 /\ writes \in Nat
      BY <1>1, <1>9 DEF Sent, Members
    <3>3. unsent + Writing(pc["svc"]) + Writing(pc["loop"]) <= writes
      BY DEF Types
    <3> DEFINE w == Writing(pc["svc"])  v == Writing(pc["loop"])
    <3>4. w' = w /\ v' = v /\ w \in Nat /\ v \in Nat /\ unsent + w + v <= writes
      BY <1>3, <3>1, <3>3 DEF Writing, At
    <3> HIDE DEF w, v
    <3>5. unsent' + w' + v' <= writes
      BY <3>2, <3>4
    <3>6. QED BY <1>3, <3>5 DEF w, v
  <2>5. QED BY <1>3, <2>1, <2>2, <2>3, <2>4 DEF Types
<1>10. CASE Free
  <2>1. Posting' /\ Members' /\ UNCHANGED unsent
    BY <1>1, <1>10 DEF Free, Members, Posting
  <2>2. QED BY <1>3, <1>4, <2>1, Stays
<1>11. QED BY <1>5, <1>6, <1>7, <1>8, <1>9, <1>10, Zenon DEF Lwip

\* A thread moves on and writes nothing.
LEMMA GoesOn ==
  ASSUME Types, Members', Posting', UNCHANGED <<ops, fault, unsent, writes>>,
         NEW t \in Thread, NEW step \in Place, Goto(t, step), Resumes(t, step), ~At(step, "write")
  PROVE  Types' /\ pc'[t] = step /\ \A u \in Thread \ {t} : pc'[u] = pc[u]
<1>1. unsent \in Nat /\ writes \in Nat
  BY BoundAssumption DEF Types, Members
<1>2. Writing(step) = 0 /\ Writing(pc[t]) \in {0, 1}
  BY DEF Writing
<1>3. unsent' + Writing(step) + writes <= unsent + Writing(pc[t]) + writes'
  BY <1>1, <1>2
<1>4. QED BY <1>3, Goes

\* After an access without a defined result nothing moves.
LEMMA Halts ==
  ASSUME Types, Members', Len(queue') <= QueueLen, NEW what \in {"null", "freed"}, Halt(what),
         DataInOrder, ToldOnce, UNCHANGED <<unsent, delivered, discards, met>>
  PROVE  Dead'
<1>1. \A t \in Thread : pc'[t] = [at |-> "halted"]
  BY DEF Halt
<1>2. unsent' \in 0..MaxWrites
  BY TypesOK DEF TypeOK
<1>3. TypeOK'
  BY <1>1, <1>2 DEF TypeOK, Members, Halt
<1>4. DataInOrder' /\ ToldOnce'
  BY DEF DataInOrder, ToldOnce
<1>5. QED BY <1>3, <1>4 DEF Dead, Halt

\* So do _close, abort and the subtraction, unless they use NULL,
LEMMA TypesSteps ==
  ASSUME Types, DataInOrder, ToldOnce, NEW t \in Thread, Steps(t)
  PROVE  Types' \/ Dead'
<1> USE DEF lwipVars, memberVars, countVars, histVars
<1>1. Members /\ Posting /\ pc[t] \in Place /\ Resumes(t, pc[t])
  BY DEF Types, Placing
<1>2. CASE OnNull(t)
  <2>1. Members' /\ Len(queue') <= QueueLen /\ Halt("null") /\ UNCHANGED <<unsent, delivered, discards, met>>
    BY <1>1, <1>2 DEF OnNull, Members, Posting
  <2>2. QED BY <2>1, Halts
<1>3. ASSUME NEW step \in Place, Goto(t, step), Resumes(t, step), ~At(step, "write"), Members',
             UNCHANGED <<ops, fault, unsent, writes, queue, lwip>>
      PROVE  Types'
  <2>1. Posting'
    BY <1>1, <1>3 DEF Posting
  <2>2. QED BY <1>3, <2>1, GoesOn
<1>4. ASSUME NEW at \in {"idle", "send", "close", "unhook", "unhooked", "abort", "discard"}
      PROVE  /\ [at |-> at] \in Place /\ Resumes(t, [at |-> at]) /\ ~At([at |-> at], "write")
  BY Places DEF Place, Resumes, At
<1>5. ASSUME NEW call \in {"output", "close", "abort"}
      PROVE  /\ Api(call, 0, Idle) \in Place /\ Resumes(t, Api(call, 0, Idle))
             /\ ~At(Api(call, 0, Idle), "write")
  <2>1. 0 \in 0..SizeMax /\ call \in Calls
    BY ChoiceAssumption DEF Calls
  <2>2. Api(call, 0, Idle) \in Place
    BY <2>1, Places DEF Place
  <2>3. QED BY <2>2 DEF Resumes, At, Api
<1>6. CASE SendNow(t)
  <2>1. Members'
    BY <1>1, <1>6 DEF SendNow, Members
  <2>2. QED BY <1>3, <1>5, <1>6, <2>1 DEF SendNow
<1>7. CASE StartClose(t)
  <2>1. Members'
    <3>1. met' \in BOOLEAN
      BY <1>1, <1>7, Zenon DEF StartClose, Members
    <3>2. QED BY <1>1, <1>7, <3>1 DEF StartClose, Members
  <2>2. Goto(t, [at |-> "unhook"]) \/ Goto(t, [at |-> "idle"])
    BY <1>7 DEF StartClose, Idle
  <2>3. UNCHANGED <<ops, fault, unsent, writes, queue, lwip>>
    BY <1>7 DEF StartClose
  <2>4. QED BY <1>3, <1>4, <2>1, <2>2, <2>3
<1>8. CASE Unhook(t)
  <2>1. Members'
    BY <1>1, <1>8 DEF Unhook, Members
  <2>2. QED BY <1>3, <1>4, <1>8, <2>1 DEF Unhook
<1>9. CASE Unhooked(t)
  <2>1. Members'
    BY <1>1, <1>9 DEF Unhooked, Members
  <2>2. QED BY <1>3, <1>5, <1>9, <2>1 DEF Unhooked
<1>10. CASE Abort(t)
  <2>1. Members'
    BY <1>1, <1>10 DEF Abort, Members
  <2>2. Goto(t, Api("abort", 0, Idle)) \/ Goto(t, [at |-> "discard"])
    BY <1>10 DEF Abort
  <2>3. QED BY <1>3, <1>4, <1>5, <1>10, <2>1, <2>2 DEF Abort
<1>11. CASE Discard(t)
  <2>1. Members'
    <3>1. has' \in BOOLEAN /\ discards' \in Nat
      <4>1. has' \in BOOLEAN
        BY <1>11, Zenon DEF Discard
      <4>2. discards' \in Nat
        BY <1>1, <1>11 DEF Discard, Members
      <4>3. QED BY <4>1, <4>2
    <3>2. QED BY <1>1, <1>11, <3>1 DEF Discard, Members
  <2>2. Goto(t, [at |-> "idle"])
    BY <1>11 DEF Discard, Idle
  <2>3. QED BY <1>3, <1>4, <1>11, <2>1, <2>2 DEF Discard
<1>12. CASE Acked(t)
  <2> DEFINE step == [at |-> "store", n |-> Size(rx_ack_len - pc[t].n), then |-> pc[t].then]
  <2>1. Members' /\ UNCHANGED <<ops, fault, unsent, writes, queue, lwip>> /\ Goto(t, step)
    BY <1>1, <1>12 DEF Acked, Members
  <2>2. pc[t].at = "acked" /\ pc[t].n \in 0..SizeMax - 1 /\ pc[t].then \in {Idle, Owed}
    BY <1>1, <1>12, PlaceTyped DEF Acked, Counting
  <2>3. Size(rx_ack_len - pc[t].n) \in 0..SizeMax - 1
    <3>1. SizeMax \in Nat /\ SizeMax > 0 /\ rx_ack_len \in Int /\ pc[t].n \in Int
      BY <1>1, <2>2, ChoiceAssumption DEF Members
    <3> DEFINE d == rx_ack_len - pc[t].n
    <3>2. d \in Int
      BY <3>1
    <3> HIDE DEF d
    <3>3. d % SizeMax \in 0..SizeMax - 1
      BY <3>1, <3>2
    <3>4. QED BY <3>3 DEF d, Size
  <2>4. step \in Counting
    BY <2>2, <2>3, Places
  <2>5. step \in Place /\ Resumes(t, step) /\ ~At(step, "write")
    BY <1>1, <2>2, <2>4 DEF Place, Resumes, At
  <2> HIDE DEF step
  <2>6. QED BY <1>3, <2>1, <2>5
<1>13. CASE Store(t)
  <2>1. pc[t].at = "store" /\ pc[t].n \in 0..SizeMax - 1 /\ pc[t].then \in {Idle, Owed}
    BY <1>1, <1>13, PlaceTyped DEF Store, Counting
  <2>2. Members' /\ UNCHANGED <<ops, fault, unsent, writes, queue, lwip>> /\ Goto(t, pc[t].then)
    BY <1>1, <1>13, <2>1 DEF Store, Members
  <2>3. pc[t].then \in Place /\ ~At(pc[t].then, "write")
    BY <2>1, Places DEF Place, At, Idle, Owed, Api
  <2>4. Resumes(t, pc[t].then)
    BY <1>1, <2>1 DEF Resumes, At, Idle, Owed, Api
  <2>5. QED BY <1>3, <2>2, <2>3, <2>4
<1>14. QED BY <1>2, <1>6, <1>7, <1>8, <1>9, <1>10, <1>11, <1>12, <1>13, Zenon DEF Steps

\* What ack() does first is a place.
LEMMA Acking ==
  ASSUME Types, NEW len \in Nat, NEW then \in {Idle, Owed}
  PROVE  /\ Acks(len, then) \in Place /\ ~At(Acks(len, then), "write")
         /\ \/ Acks(len, then).at = "acked" /\ Acks(len, then).then = then
            \/ At(Acks(len, then), "recved") /\ Acks(len, then).then.at = "acked"
               /\ Acks(len, then).then.then = then
<1> DEFINE n == IF len > rx_ack_len THEN rx_ack_len ELSE len
           acked == [at |-> "acked", n |-> n, then |-> then]
<1>1. rx_ack_len \in 0..SizeMax - 1 /\ SizeMax \in Nat
  BY ChoiceAssumption DEF Types, Members
<1>2. n \in 0..SizeMax - 1 /\ n \in 0..SizeMax
  BY <1>1
<1>3. acked \in Counting /\ Api("recved", n, acked) \in Calling
  <2> HIDE DEF n
  <2>1. acked \in Counting
    BY <1>2, Places
  <2>2. "recved" \in Calls
    BY DEF Calls
  <2> HIDE DEF acked
  <2>3. QED BY <1>2, <2>1, <2>2, Places
<1>4. Acks(len, then) = IF n > 0 THEN Api("recved", n, acked) ELSE acked
  BY DEF Acks
<1>5. acked.at = "acked" /\ acked.then = then
  OBVIOUS
<1> HIDE DEF n, acked
<1>6. QED BY <1>3, <1>4, <1>5 DEF Place, At, Api

\* the application,
LEMMA TypesApp ==
  ASSUME Types, App
  PROVE  Types'
<1> USE DEF lwipVars, memberVars, countVars, histVars
<1>1. Members /\ Posting /\ pc["loop"] \in Place /\ "loop" \in Thread
  BY DEF Types, Placing, Thread
<1>2. ASSUME NEW step \in Place, Goto("loop", step), Resumes("loop", step), ~At(step, "write"), Members',
             UNCHANGED <<ops, fault, unsent, writes, queue, lwip>>
      PROVE  Types'
  <2>1. Posting'
    BY <1>1, <1>2 DEF Posting
  <2>2. QED BY <1>1, <1>2, <2>1, GoesOn
<1>3. 0 \in 0..SizeMax /\ rx_ack_len \in 0..SizeMax
  BY <1>1, ChoiceAssumption DEF Members
<1>4. CASE Connect
  <2>1. Api("connect", 0, Idle) \in Place
    BY <1>3, Places DEF Place, Calls
  <2>2. Resumes("loop", Api("connect", 0, Idle)) /\ ~At(Api("connect", 0, Idle), "write")
    BY DEF Resumes, At, Api
  <2>3. Members'
    BY <1>1, <1>4 DEF Connect, Members
  <2>4. QED BY <1>2, <1>4, <2>1, <2>2, <2>3 DEF Connect
<1>5. CASE Write
  <2>1. Api("write", 0, Idle) \in Place
    BY <1>3, Places DEF Place, Calls
  <2>2. Resumes("loop", Api("write", 0, Idle)) /\ Writing(Api("write", 0, Idle)) = 1
    BY DEF Resumes, At, Api, Writing
  <2>3. Members' /\ Posting'
    <3>1. writes' \in 0..MaxWrites
      BY <1>1, <1>5, BoundAssumption DEF Write, Members
    <3>2. UNCHANGED <<ops, lwipVars, memberVars, fails, histVars>>
      BY <1>5 DEF Write
    <3>3. QED BY <1>1, <3>1, <3>2 DEF Members, Posting
  <2>4. unsent' + 1 + writes <= unsent + Writing(pc["loop"]) + writes'
    <3>1. Writing(pc["loop"]) = 0
      BY <1>5 DEF Write, Usable, Writing, At, Idle
    <3>2. unsent \in Nat /\ writes \in Nat /\ writes' = writes + 1 /\ unsent' = unsent
      BY <1>1, <1>5 DEF Write, Members
    <3>3. QED BY <3>1, <3>2
  <2>5. QED BY <1>1, <1>5, <2>1, <2>2, <2>3, <2>4, Goes DEF Write
<1>6. CASE Close \/ CloseNow
  <2>1. PICK at \in {"request", "close"} : Goto("loop", Api("recved", rx_ack_len, [at |-> at]))
    BY <1>6 DEF Close, CloseNow
  <2>2. Api("recved", rx_ack_len, [at |-> at]) \in Place
    BY <1>3, Places DEF Place, Calls
  <2>3. Resumes("loop", Api("recved", rx_ack_len, [at |-> at])) /\ ~At(Api("recved", rx_ack_len, [at |-> at]), "write")
    BY DEF Resumes, At, Api
  <2>4. Members' /\ UNCHANGED <<ops, fault, unsent, writes, queue, lwip>>
    BY <1>1, <1>6 DEF Close, CloseNow, Members
  <2>5. QED BY <1>2, <2>1, <2>2, <2>3, <2>4
<1>7. CASE Request
  <2>1. Idle \in Place /\ Resumes("loop", Idle) /\ ~At(Idle, "write")
    BY Places DEF Place, Resumes, At, Idle
  <2>2. Members'
    BY <1>1, <1>7 DEF Request, Members
  <2>3. QED BY <1>2, <1>7, <2>1, <2>2 DEF Request
<1>8. CASE Ack
  <2>1. PICK len \in 1..Segments : Goto("loop", Acks(len, Idle))
    BY <1>8 DEF Ack
  <2>2. len \in Nat /\ Idle \in {Idle, Owed}
    BY SizeAssumption
  <2>3. Acks(len, Idle) \in Place /\ Resumes("loop", Acks(len, Idle)) /\ ~At(Acks(len, Idle), "write")
    BY <2>2, Acking DEF Resumes, At
  <2>4. Members' /\ UNCHANGED <<ops, fault, unsent, writes, queue, lwip>>
    BY <1>1, <1>8 DEF Ack, Members
  <2>5. QED BY <1>2, <2>1, <2>3, <2>4
<1>9. QED BY <1>4, <1>5, <1>6, <1>7, <1>8, Zenon DEF App

\* the time that passes,
LEMMA TypesTime ==
  ASSUME Types, Silence \/ AckOverdue
  PROVE  Types'
<1> USE DEF lwipVars, countVars, histVars
<1>1. Members' /\ Posting' /\ UNCHANGED <<ops, fault, pc, unsent, writes>>
  BY DEF Silence, AckOverdue, Types, Members, Posting
<1>2. writes <= writes'
  BY <1>1, BoundAssumption DEF Types, Members
<1>3. QED BY <1>1, <1>2, Stays

\* every call that lwIP serves, unless it uses a freed connection,
LEMMA TypesServe ==
  ASSUME Types, DataInOrder, ToldOnce, NEW t \in Thread, ServeApi(t)
  PROVE  Types' \/ Dead'
<1> USE BoundAssumption DEF lwipVars, memberVars, countVars, histVars
<1>1. Members /\ Posting /\ pc[t] \in Place /\ Resumes(t, pc[t])
  BY DEF Types, Placing
<1>2. CASE OnFreed(t)
  <2>1. Members' /\ Len(queue') <= QueueLen /\ Halt("freed") /\ UNCHANGED <<unsent, delivered, discards, met>>
    BY <1>1, <1>2 DEF OnFreed, Members, Posting
  <2>2. QED BY <2>1, Halts
<1>3. ASSUME NEW step \in Place, Goto(t, step), Resumes(t, step), ~At(step, "write"), Members', Posting',
             UNCHANGED <<ops, fault, unsent, writes>>
      PROVE  Types'
  BY <1>3, GoesOn
<1>4. ASSUME NEW at \in {"idle", "send", "abort", "discard"}
      PROVE  /\ [at |-> at] \in Place /\ Resumes(t, [at |-> at]) /\ ~At([at |-> at], "write")
  BY Places DEF Place, Resumes, At
<1>5. CASE ServeConnect(t)
  <2>1. Members' /\ Posting' /\ UNCHANGED <<ops, fault, unsent, writes>>
    BY <1>1, <1>5 DEF ServeConnect, Members, Posting
  <2>2. Goto(t, [at |-> "idle"])
    BY <1>5 DEF ServeConnect, Idle
  <2>3. QED BY <1>3, <1>4, <2>1, <2>2
<1>6. CASE ServeRecved(t)
  <2>1. At(pc[t], "recved") /\ pc[t].n \in Nat /\ pc[t].then \in Plain \cup Counting /\ Goto(t, pc[t].then)
    BY <1>1, <1>6, PlaceTyped, ChoiceAssumption DEF ServeRecved, Serve, Calling, At
  <2>2. credit' \in 0..arrived'
    BY <1>1, <1>6, <2>1, SizeAssumption DEF ServeRecved, Members
  <2>3. Members' /\ Posting' /\ UNCHANGED <<ops, fault, unsent, writes>>
    BY <1>1, <1>6, <2>2 DEF ServeRecved, Members, Posting
  <2>4. pc[t].then.at # "api"
    BY <2>1 DEF Plain, Counting
  <2>5. Resumes(t, pc[t].then)
    <3>1. CASE t = "svc"
      BY <1>1, <2>1, <3>1 DEF Resumes, At, Idle
    <3>2. CASE t = "loop"
      BY <1>1, <2>1, <2>4, <3>2 DEF Resumes, At
    <3>3. QED BY <3>1, <3>2 DEF Thread
  <2>6. QED BY <1>3, <2>1, <2>3, <2>4, <2>5 DEF At, Place
<1>7. CASE ServeWrite(t)
  <2>1. PICK step \in {[at |-> "send"], [at |-> "idle"]} :
          Goto(t, step) /\ (unsent' = unsent \/ unsent' = unsent + 1)
    BY <1>7 DEF ServeWrite, Idle
  <2>2. step \in Place /\ Resumes(t, step) /\ ~At(step, "write")
    BY <1>4
  <2>3. unsent' \in Nat
    BY <1>1, <2>1 DEF Members
  <2>4. Members' /\ Posting' /\ UNCHANGED <<ops, fault, writes>>
    BY <1>1, <1>7, <2>3 DEF ServeWrite, Members, Posting
  <2>5. unsent' + Writing(step) + writes <= unsent + Writing(pc[t]) + writes'
    <3>1. Writing(step) = 0 /\ Writing(pc[t]) = 1
      BY <1>7, <2>2 DEF Writing, ServeWrite, Serve, At
    <3>2. unsent \in Nat /\ writes \in Nat /\ writes' = writes
      BY <1>1, <2>4 DEF Members
    <3>3. QED BY <2>1, <3>1, <3>2
  <2>6. QED BY <2>1, <2>2, <2>4, <2>5, Goes
<1>8. CASE ServeOutput(t)
  <2>1. Members' /\ Posting' /\ UNCHANGED <<ops, fault, unsent, writes>>
    BY <1>1, <1>8 DEF ServeOutput, Members, Posting
  <2>2. Goto(t, [at |-> "idle"])
    BY <1>8 DEF ServeOutput, Idle
  <2>3. QED BY <1>3, <1>4, <2>1, <2>2
<1>9. CASE ServeClose(t)
  <2>1. Members' /\ Posting' /\ UNCHANGED <<ops, fault, unsent, writes>>
    BY <1>1, <1>9 DEF ServeClose, Members, Posting
  <2>2. Goto(t, [at |-> "discard"]) \/ Goto(t, [at |-> "abort"])
    BY <1>9 DEF ServeClose
  <2>3. QED BY <1>3, <1>4, <2>1, <2>2
<1>10. CASE ServeAbort(t)
  <2>1. Members' /\ UNCHANGED <<ops, fault, unsent, writes>>
    BY <1>1, <1>10 DEF ServeAbort, Members
  <2>2. Posting'
    <3>1. Event("ERROR", 0) \in Events
      BY DEF Event, Events
    <3>2. QED BY <1>1, <1>10, <3>1, Posted DEF ServeAbort, Serve, Posting
  <2>3. Goto(t, [at |-> "discard"])
    BY <1>10 DEF ServeAbort
  <2>4. QED BY <1>3, <1>4, <2>1, <2>2, <2>3
<1>11. QED BY <1>2, <1>5, <1>6, <1>7, <1>8, <1>9, <1>10, Zenon DEF ServeApi

\* Taking the first event leaves the others, in their order.
LEMMA Taken ==
  ASSUME Posting, queue # <<>>, queue' = Tail(queue)
  PROVE  /\ queue' \in Seq(Events) /\ Len(queue') <= QueueLen
         /\ Head(queue) \in Events /\ Waiting \in Seq(Events) /\ Waiting # <<>>
         /\ Head(queue) = Waiting[1]
         /\ lwip' = lwip => Waiting' = Tail(Waiting)
<1>1. /\ Head(queue) \in Events /\ Tail(queue) \in Seq(Events) /\ Len(queue) \in Nat \ {0}
      /\ Len(Tail(queue)) = Len(queue) - 1 /\ Head(queue) = queue[1]
      /\ \A i \in 1..(Len(queue) - 1) : Tail(queue)[i] = queue[i + 1]
  BY HeadTailProperties, LenProperties, EmptySeq, ElementOfSeq DEF Posting
<1>2. Len(queue') <= QueueLen
  BY <1>1, SizeAssumption DEF Posting
<1>3. CASE lwip = Run
  BY <1>1, <1>2, <1>3, SizeAssumption DEF Waiting, Posting
<1>4. CASE lwip \in Events /\ lwip # Run
  <2>1. /\ Append(queue, lwip) \in Seq(Events) /\ Append(queue, lwip) # <<>>
        /\ Len(Append(queue, lwip)) = Len(queue) + 1
        /\ \A i \in 1..Len(queue) : Append(queue, lwip)[i] = queue[i]
        /\ Append(queue, lwip)[Len(queue) + 1] = lwip
    BY <1>1, <1>4, AppendProperties DEF Posting
  <2>2. /\ Append(Tail(queue), lwip) \in Seq(Events)
        /\ Len(Append(Tail(queue), lwip)) = Len(queue)
        /\ \A i \in 1..(Len(queue) - 1) : Append(Tail(queue), lwip)[i] = Tail(queue)[i]
        /\ Append(Tail(queue), lwip)[Len(queue)] = lwip
    <3>1. /\ Append(Tail(queue), lwip) \in Seq(Events)
          /\ Len(Append(Tail(queue), lwip)) = Len(Tail(queue)) + 1
          /\ \A i \in 1..Len(Tail(queue)) : Append(Tail(queue), lwip)[i] = Tail(queue)[i]
          /\ Append(Tail(queue), lwip)[Len(Tail(queue)) + 1] = lwip
      BY <1>1, <1>4, AppendProperties DEF Posting
    <3>2. Len(Tail(queue)) + 1 = Len(queue)
      BY <1>1
    <3>3. QED BY <1>1, <3>1, <3>2
  <2>3. /\ Tail(Append(queue, lwip)) \in Seq(Events) /\ Len(Tail(Append(queue, lwip))) = Len(queue)
        /\ \A i \in 1..Len(queue) : Tail(Append(queue, lwip))[i] = Append(queue, lwip)[i + 1]
    BY <1>1, <2>1, HeadTailProperties
  <2>4. \A i \in 1..Len(queue) : Tail(Append(queue, lwip))[i] = Append(Tail(queue), lwip)[i]
    <3>1. SUFFICES ASSUME NEW i \in 1..Len(queue)
                   PROVE  Tail(Append(queue, lwip))[i] = Append(Tail(queue), lwip)[i]
      OBVIOUS
    <3>2. CASE i = Len(queue)
      BY <2>1, <2>2, <2>3, <3>2
    <3>3. CASE i # Len(queue)
      <4>1. i \in 1..(Len(queue) - 1) /\ i + 1 \in 1..Len(queue)
        <5>1. Len(queue) \in Nat
          BY <1>1
        <5>2. QED BY <3>3, <5>1
      <4>2. QED BY <1>1, <2>1, <2>2, <2>3, <4>1
    <3>4. QED BY <3>2, <3>3
  <2>5. Tail(Append(queue, lwip)) = Append(Tail(queue), lwip)
    BY <2>2, <2>3, <2>4, SeqEqual
  <2>6. 1 \in 1..Len(queue)
    BY <1>1
  <2>7. QED BY <1>1, <1>2, <1>4, <2>1, <2>5, <2>6 DEF Waiting
<1>5. QED BY <1>3, <1>4 DEF Posting

\* Where the service task goes with an event for the client.
LEMMA TaskGoes ==
  ASSUME Types, ServiceTask, ~Halt("null")
  PROVE  /\ Head(queue).client /\ UNCHANGED <<lwip, fault>>
         /\ \/ OnRecv(Head(queue)) \/ OnFin(Head(queue)) \/ OnSent(Head(queue))
            \/ OnPoll(Head(queue)) \/ OnError(Head(queue))
         /\ \E step \in Place :
              /\ Goto("svc", step) /\ Resumes("svc", step)
              /\ OnRecv(Head(queue)) /\ "later" \notin ops => Taking(step)
              /\ \/ ~At(step, "write") /\ writes' = writes
                 \/ At(step, "write") /\ writes' = writes + 1 /\ writes < MaxWrites
              /\ step.at \in {"idle", "close", "acked", "store"} \/ At(step, "recved") \/ At(step, "write")
<1> DEFINE e == Head(queue)
           Good(step) ==
             /\ step \in Place /\ Goto("svc", step) /\ Resumes("svc", step)
             /\ OnRecv(e) /\ "later" \notin ops => Taking(step)
             /\ \/ ~At(step, "write") /\ writes' = writes
                \/ At(step, "write") /\ writes' = writes + 1 /\ writes < MaxWrites
             /\ step.at \in {"idle", "close", "acked", "store"} \/ At(step, "recved") \/ At(step, "write")
<1>1. /\ e.client /\ UNCHANGED lwip /\ UNCHANGED fault
      /\ OnRecv(e) \/ OnFin(e) \/ OnSent(e) \/ OnPoll(e) \/ OnError(e)
  BY Zenon DEF ServiceTask
<1>2. pc["svc"] = Idle /\ pc \in [Thread -> Place] /\ Members
  BY DEF ServiceTask, Types, Placing
<1>3. ASSUME UNCHANGED pc
      PROVE  Goto("svc", Idle)
  BY <1>2, <1>3 DEF Goto, Thread
<1>4. /\ Idle \in Place /\ Resumes("svc", Idle) /\ ~At(Idle, "write") /\ Idle.at = "idle"
      /\ [at |-> "close"] \in Place /\ Resumes("svc", [at |-> "close"]) /\ ~At([at |-> "close"], "write")
  BY Places DEF Place, Resumes, At, Idle
<1>5. /\ Owed \in Place /\ Resumes("svc", Owed) /\ ~At(Owed, "write") /\ Taking(Owed) /\ At(Owed, "recved")
  BY Places DEF Resumes, At, Owed, Api, Taking
<1>6. CASE OnRecv(e)
  <2>1. UNCHANGED writes
    BY <1>6 DEF OnRecv
  <2>2. CASE Goto("svc", Owed)
    <3>1. Good(Owed)
      BY <1>5, <2>1, <2>2
    <3>2. QED BY <1>1, <3>1
  <2>3. CASE Goto("svc", Acks(1, Owed))
    <3>1. /\ Acks(1, Owed) \in Place /\ ~At(Acks(1, Owed), "write")
          /\ \/ Acks(1, Owed).at = "acked" /\ Acks(1, Owed).then = Owed
             \/ At(Acks(1, Owed), "recved") /\ Acks(1, Owed).then.at = "acked"
                /\ Acks(1, Owed).then.then = Owed
      BY Acking
    <3>2. Resumes("svc", Acks(1, Owed)) /\ Taking(Acks(1, Owed))
      BY <3>1 DEF Resumes, At, Taking
    <3>3. Good(Acks(1, Owed))
      BY <2>1, <2>3, <3>1, <3>2 DEF At
    <3>4. QED BY <1>1, <3>3
  <2>4. CASE "later" \in ops /\ Goto("svc", [at |-> "store", n |-> Size(rx_ack_len + 1), then |-> Idle])
    <3> DEFINE step == [at |-> "store", n |-> Size(rx_ack_len + 1), then |-> Idle]
    <3>1. Size(rx_ack_len + 1) \in 0..SizeMax - 1
      <4>1. rx_ack_len + 1 \in Int /\ SizeMax \in Nat /\ SizeMax > 0
        BY <1>2, ChoiceAssumption DEF Members
      <4> DEFINE d == rx_ack_len + 1
      <4> HIDE DEF d
      <4>2. d % SizeMax \in 0..SizeMax - 1
        BY <4>1 DEF d
      <4>3. QED BY <4>2 DEF d, Size
    <3>2. step \in Counting
      BY <3>1, Places
    <3>3. Resumes("svc", step) /\ ~At(step, "write") /\ step.at = "store"
      BY <2>4 DEF Resumes, At
    <3>4. Goto("svc", step)
      BY <2>4
    <3> HIDE DEF step
    <3>5. Good(step)
      BY <2>1, <2>4, <3>2, <3>3, <3>4 DEF Place
    <3>6. QED BY <1>1, <3>5
  <2>5. QED BY <1>6, <2>2, <2>3, <2>4 DEF OnRecv, Owed
<1>7. CASE ~OnRecv(e)
  <2>1. \/ UNCHANGED <<pc, writes>>
        \/ Goto("svc", [at |-> "close"]) /\ UNCHANGED writes
        \/ Goto("svc", Api("write", 0, Idle)) /\ writes' = writes + 1 /\ writes < MaxWrites
    BY <1>1, <1>7 DEF OnFin, OnSent, OnPoll, OnError
  <2>2. CASE UNCHANGED <<pc, writes>>
    <3>1. Good(Idle)
      BY <1>3, <1>4, <1>7, <2>2
    <3>2. QED BY <1>1, <3>1
  <2>3. CASE Goto("svc", [at |-> "close"]) /\ UNCHANGED writes
    <3>1. Good([at |-> "close"])
      BY <1>4, <1>7, <2>3
    <3>2. QED BY <1>1, <3>1
  <2>4. CASE Goto("svc", Api("write", 0, Idle)) /\ writes' = writes + 1 /\ writes < MaxWrites
    <3>1. Api("write", 0, Idle) \in Place
      <4>1. 0 \in 0..SizeMax
        BY ChoiceAssumption
      <4>2. QED BY <4>1, Places DEF Place, Calls
    <3>2. Resumes("svc", Api("write", 0, Idle)) /\ At(Api("write", 0, Idle), "write")
      BY DEF Resumes, At, Api
    <3>3. Good(Api("write", 0, Idle))
      BY <1>7, <2>4, <3>1, <3>2
    <3>4. QED BY <1>1, <3>3
  <2>5. QED BY <2>1, <2>2, <2>3, <2>4
<1>8. QED BY <1>6, <1>7

\* and the service task, unless it takes an event for NULL.
LEMMA TypesTask ==
  ASSUME Types, InLine, DataInOrder, ToldOnce, ServiceTask
  PROVE  Types' \/ Dead'
<1> USE BoundAssumption DEF memberVars, countVars, histVars
<1> DEFINE e == Head(queue)
<1>1. /\ Members /\ Posting /\ queue # <<>> /\ queue' = Tail(queue)
      /\ UNCHANGED <<ops, pcb, hooks, arrived, credit, unsent, fails, met>>
  BY DEF Types, ServiceTask
<1>2. /\ queue' \in Seq(Events) /\ Len(queue') <= QueueLen
      /\ e = Waiting[1] /\ 1 \in DOMAIN Waiting
  <2>1. Waiting \in Seq(Events) /\ Waiting # <<>> /\ e = Waiting[1]
    BY <1>1, Taken
  <2>2. QED BY <1>1, <2>1, Taken, LenProperties, EmptySeq
<1>3. e.type = "RECV" /\ e.client => e.n \in 1..Segments
  <2>1. PICK last \in Len(delivered)..arrived : UpTo(last)
    BY DEF InLine
  <2>2. Len(delivered) \in Nat /\ arrived \in 0..Segments
    BY <1>1, LenProperties DEF Members
  <2>3. QED BY <1>2, <2>1, <2>2, SizeAssumption DEF UpTo, IsData
<1>4. CASE Halt("null")
  <2>1. UNCHANGED <<memberVars, writes, delivered, discards, late>>
    <3>1. ~UNCHANGED fault
      BY <1>4 DEF Halt, Types
    <3>2. QED BY <3>1, Zenon DEF ServiceTask
  <2>2. Members'
    BY <1>1, <2>1 DEF Members
  <2>3. QED BY <1>1, <1>2, <1>4, <2>1, <2>2, Halts
<1>5. CASE ~Halt("null")
  <2>1. /\ e.client /\ UNCHANGED lwip /\ UNCHANGED fault
        /\ OnRecv(e) \/ OnFin(e) \/ OnSent(e) \/ OnPoll(e) \/ OnError(e)
    BY <1>5, TaskGoes
  <2>2. PICK step \in Place :
          /\ Goto("svc", step) /\ Resumes("svc", step)
          /\ \/ ~At(step, "write") /\ writes' = writes
             \/ At(step, "write") /\ writes' = writes + 1 /\ writes < MaxWrites
    BY <1>5, TaskGoes
  <2>3. late' \in BOOLEAN
    BY <1>1, <2>1, Zenon DEF OnRecv, OnFin, OnSent, OnPoll, OnError, Callback, Members
  <2>4. has' \in BOOLEAN
    BY <1>1, <2>1, Zenon DEF OnRecv, OnFin, OnSent, OnPoll, OnError, Members
  <2>5. close_pcb' \in BOOLEAN
    BY <1>1, <2>1, Zenon DEF OnRecv, OnFin, OnSent, OnPoll, OnError, Members
  <2>6. silent' \in BOOLEAN
    BY <1>1, <2>1, Zenon DEF OnRecv, OnFin, OnSent, OnPoll, OnError, Members
  <2>7. rx_ack_len' = rx_ack_len /\ pcb_busy' \in {"no", "yes", "overdue"} /\ discards' \in Nat
    BY <1>1, <2>1 DEF OnRecv, OnFin, OnSent, OnPoll, OnError, Members
  <2>8. delivered' \in Seq(1..Segments)
    <3>1. CASE OnRecv(e)
      <4>1. e.n \in 1..Segments /\ delivered' = Append(delivered, e.n) /\ delivered \in Seq(1..Segments)
        BY <1>1, <1>3, <2>1, <3>1 DEF OnRecv, Members
      <4>2. QED BY <4>1, AppendProperties
    <3>2. CASE ~OnRecv(e)
      BY <1>1, <2>1, <3>2 DEF OnFin, OnSent, OnPoll, OnError, Members
    <3>3. QED BY <3>1, <3>2
  <2>9. writes' \in 0..MaxWrites
    BY <1>1, <2>2 DEF Members
  <2>10. Members'
    BY <1>1, <2>3, <2>4, <2>5, <2>6, <2>7, <2>8, <2>9 DEF Members
  <2>11. Posting'
    BY <1>1, <1>2, <2>1 DEF Posting
  <2>12. unsent' + Writing(step) + writes <= unsent + Writing(pc["svc"]) + writes'
    <3>1. Writing(pc["svc"]) = 0 /\ unsent \in Nat /\ writes \in Nat /\ unsent' = unsent
      BY <1>1 DEF ServiceTask, Writing, At, Idle, Members
    <3>2. CASE ~At(step, "write") /\ writes' = writes
      BY <3>1, <3>2 DEF Writing
    <3>3. CASE At(step, "write") /\ writes' = writes + 1
      BY <3>1, <3>3 DEF Writing
    <3>4. QED BY <2>2, <3>2, <3>3
  <2>13. QED BY <1>1, <2>1, <2>2, <2>10, <2>11, <2>12, Goes DEF Thread
<1>6. QED BY <1>4, <1>5

-----------------------------------------------------------------------------
(* Control.                                                                *)

\* What the lwIP thread does keeps the control part: callbacks are registered
\* before a thread closes, never after.
LEMMA ControlLwip ==
  ASSUME Types, Types', Control, Lwip
  PROVE  Control'
<1> USE DEF Control, NotYet, Asked, Unhooking, LetGo, At, memberVars, countVars, histVars
<1>1. CASE Unblock
  BY <1>1 DEF Unblock
<1>2. CASE Accept
  BY <1>2 DEF Accept, Thread, Idle
<1>3. CASE Connected
  BY <1>3 DEF Connected, Thread, Idle
<1>4. CASE Receive
  BY <1>4 DEF Receive
<1>5. CASE Fin
  BY <1>5 DEF Fin
<1>6. CASE Sent
  BY <1>6 DEF Sent
<1>7. CASE Poll
  BY <1>7 DEF Poll
<1>8. CASE Reset
  BY <1>8 DEF Reset
<1>9. CASE Free
  BY <1>9 DEF Free
<1>10. QED BY <1>1, <1>2, <1>3, <1>4, <1>5, <1>6, <1>7, <1>8, <1>9, Zenon DEF Lwip

\* A thread of a connection that was made moves on and takes callbacks away at
\* most.
LEMMA ControlGoes ==
  ASSUME Types, Types', Control, NEW t \in Thread, NEW step \in Place, Goto(t, step), UNCHANGED ops,
         pcb \notin {"none", "syn"}, pcb' \notin {"none", "syn"},
         ~At(step, "connect"),
         hooks' = hooks \/ hooks' = "none" \/ (hooks' = "noarg" /\ hooks # "none"),
         step.at = "unhooked" => hooks' \in {"none", "noarg"},
         At(step, "close") \/ step.at \in {"abort", "discard"} \/ At(step, "abort") => hooks' = "none"
  PROVE  Control'
<1>1. pc'[t] = step /\ \A u \in Thread \ {t} : pc'[u] = pc[u]
  BY DEF Goto, Types, Placing
<1>2. NotYet'
  BY DEF NotYet
<1>3. ~At(pc["loop"], "connect")
  BY DEF Control, Asked
<1>4. Asked'
  BY <1>1, <1>3 DEF Asked, Thread, At
<1>5. Unhooking'
  <2>1. ASSUME NEW u \in Thread
        PROVE  /\ pc'[u].at = "unhooked" => hooks' \in {"none", "noarg"}
               /\ At(pc'[u], "close") \/ LetGo(u)' => hooks' = "none"
    <3>1. CASE u = t
      BY <1>1, <3>1 DEF LetGo, At
    <3>2. CASE u # t
      <4>1. pc'[u] = pc[u]
        BY <1>1, <3>2
      <4>2. /\ pc[u].at = "unhooked" => hooks \in {"none", "noarg"}
            /\ At(pc[u], "close") \/ LetGo(u) => hooks = "none"
        BY DEF Control, Unhooking
      <4>3. QED BY <4>1, <4>2 DEF LetGo, At
    <3>3. QED BY <3>1, <3>2
  <2>2. QED BY <2>1 DEF Unhooking, At
<1>6. QED BY <1>2, <1>4, <1>5 DEF Control

\* A thread that does anything but connect does it to a connection that was
\* made.
LEMMA Made ==
  ASSUME Types, Control, NEW t \in Thread, pc[t] # Idle, ~At(pc[t], "connect")
  PROVE  pcb \notin {"none", "syn"}
BY DEF Control, NotYet, Thread

\* The application uses a connected client.
LEMMA ControlApp ==
  ASSUME Types, Types', Control, App
  PROVE  Control'
<1> USE DEF Control, NotYet, Asked, Unhooking, LetGo, At, Goto, Thread,
            lwipVars, memberVars, countVars, histVars
<1>1. pc \in [Thread -> Place]
  BY DEF Types, Placing
<1>2. CASE Connect
  BY <1>1, <1>2 DEF Connect, Api, Idle
<1>3. CASE Write
  BY <1>1, <1>3 DEF Write, Usable, Api, Idle
<1>4. CASE Close
  BY <1>1, <1>4 DEF Close, Usable, Api, Idle
<1>5. CASE Request
  BY <1>1, <1>5 DEF Request, Idle
<1>6. CASE CloseNow
  BY <1>1, <1>6 DEF CloseNow, Usable, Api, Idle
<1>7. CASE Ack
  <2>1. PICK len \in 1..Segments : Goto("loop", Acks(len, Idle))
    BY <1>7 DEF Ack
  <2>2. len \in Nat
    BY SizeAssumption
  <2> DEFINE step == Acks(len, Idle)
  <2>3. step.at \in {"acked"} \/ (step.at = "api" /\ step.call = "recved")
    BY <2>2, Acking DEF At
  <2>4. Goto("loop", step)
    BY <2>1
  <2>5. pcb = "up" /\ UNCHANGED <<ops, lwipVars, memberVars, countVars, histVars>>
    BY <1>7 DEF Ack, Usable
  <2> HIDE DEF step
  <2>6. QED BY <1>1, <2>3, <2>4, <2>5
<1>8. QED BY <1>2, <1>3, <1>4, <1>5, <1>6, <1>7, Zenon DEF App

\* The timeouts only set flags.
LEMMA ControlTime ==
  ASSUME Types, Types', Control, Silence \/ AckOverdue
  PROVE  Control'
BY DEF Control, NotYet, Asked, Unhooking, LetGo, At, Silence, AckOverdue,
       lwipVars, memberVars, countVars, histVars

\* A closing thread has taken the callbacks away before it calls tcp_close.
LEMMA ControlSteps ==
  ASSUME Types, Types', Control, NEW t \in Thread, Steps(t)
  PROVE  Control'
<1> USE DEF lwipVars, memberVars, countVars, histVars
<1>1. pc \in [Thread -> Place] /\ pc[t] \in Place /\ Resumes(t, pc[t])
  BY DEF Types, Placing
<1>2. ~OnNull(t)
  BY DEF OnNull, Halt, Types
<1>3. pc[t].at \in {"send", "close", "unhook", "unhooked", "abort", "discard", "acked", "store"}
  BY <1>2 DEF Steps, SendNow, StartClose, Unhook, Unhooked, Abort, Discard, Acked, Store
<1>4. pcb \notin {"none", "syn"} /\ ~At(pc[t], "connect")
  BY <1>3, Made DEF At, Idle
<1>5. UNCHANGED <<ops, pcb>>
  BY <1>2 DEF Steps, SendNow, StartClose, Unhook, Unhooked, Abort, Discard, Acked, Store
<1>6. ASSUME NEW step \in Place, Goto(t, step), ~At(step, "connect"),
             hooks' = hooks \/ hooks' = "none" \/ (hooks' = "noarg" /\ hooks # "none"),
             step.at = "unhooked" => hooks' \in {"none", "noarg"},
             At(step, "close") \/ step.at \in {"abort", "discard"} \/ At(step, "abort") => hooks' = "none"
      PROVE  Control'
  BY <1>4, <1>5, <1>6, ControlGoes
<1>7. pc'[t] \in Place /\ \A step : Goto(t, step) => pc'[t] = step
  BY <1>1 DEF Goto, Types, Placing
<1>8. CASE SendNow(t) \/ StartClose(t) \/ Unhook(t)
  <2>1. PICK step \in {Api("output", 0, Idle), [at |-> "unhook"], Idle, [at |-> "unhooked"]} :
          /\ Goto(t, step)
          /\ step.at = "unhooked" => hooks' = (IF hooks = "none" THEN "none" ELSE "noarg")
          /\ step.at # "unhooked" => hooks' = hooks
    BY <1>8 DEF SendNow, StartClose, Unhook, Idle, Api
  <2>2. step \in Place
    BY <1>7, <2>1
  <2>3. ~At(step, "connect") /\ ~At(step, "close") /\ ~At(step, "abort") /\ step.at \notin {"abort", "discard"}
    BY DEF At, Api, Idle
  <2>4. QED BY <1>6, <2>1, <2>2, <2>3
<1>9. CASE Unhooked(t)
  <2>1. Goto(t, Api("close", 0, Idle)) /\ hooks' = "none"
    BY <1>9 DEF Unhooked
  <2>2. Api("close", 0, Idle) \in Place /\ ~At(Api("close", 0, Idle), "connect")
    BY <1>7, <2>1 DEF At, Api
  <2>3. QED BY <1>6, <2>1, <2>2
<1>10. CASE Abort(t)
  <2>1. PICK step \in {Api("abort", 0, Idle), [at |-> "discard"]} : Goto(t, step)
    BY <1>10 DEF Abort
  <2>2. step \in Place /\ ~At(step, "connect") /\ step.at # "unhooked"
    BY <1>7, <2>1 DEF At, Api
  <2>3. hooks = "none" /\ hooks' = hooks
    BY <1>10 DEF Abort, Control, Unhooking, LetGo
  <2>4. QED BY <1>6, <2>1, <2>2, <2>3
<1>11. CASE Discard(t) \/ Acked(t) \/ Store(t)
  <2>1. PICK step : Goto(t, step) /\ step.at \in {"idle", "store", "api"} /\ (step.at = "api" => step.call = "recved")
    <3>1. pc[t].at \in {"acked", "store"} => pc[t].then \in {Idle, Owed}
      BY <1>1, PlaceTyped DEF Counting
    <3>2. QED BY <1>11, <3>1 DEF Discard, Acked, Store, Idle, Owed, Api
  <2>2. step \in Place /\ UNCHANGED hooks
    BY <1>7, <1>11, <2>1 DEF Discard, Acked, Store
  <2>3. QED BY <1>6, <2>1, <2>2 DEF At
<1>12. QED BY <1>2, <1>8, <1>9, <1>10, <1>11, Zenon DEF Steps

\* tcp_connect is called for a new connection, tcp_close without callbacks.
LEMMA ControlServe ==
  ASSUME Types, Types', Control, NEW t \in Thread, ServeApi(t)
  PROVE  Control'
<1> USE DEF lwipVars, memberVars, countVars, histVars
<1>1. pc \in [Thread -> Place] /\ pc[t] \in Place /\ Resumes(t, pc[t]) /\ pc[t].at = "api"
  BY DEF Types, Placing, ServeApi, OnFreed, ServeConnect, ServeRecved, ServeWrite, ServeOutput, ServeClose,
         ServeAbort, Serve
<1>2. ~OnFreed(t)
  BY DEF OnFreed, Halt, Types
<1>3. CASE ServeConnect(t)
  <2>1. t = "loop" /\ At(pc["loop"], "connect") /\ Goto("loop", Idle)
    BY <1>1, <1>3 DEF ServeConnect, Resumes, At
  <2>2. pcb = "none" /\ "connect" \in ops
    BY <2>1 DEF Control, Asked
  <2>3. /\ pc["svc"] = Idle /\ pc'["loop"] = Idle /\ pc'["svc"] = Idle
    BY <1>1, <2>1, <2>2 DEF Control, NotYet, Goto, Thread
  <2>4. UNCHANGED <<ops, has, arrived, credit, delivered, discards, lwip, queue>>
        /\ ((pcb' = "syn" /\ hooks' = "err") \/ UNCHANGED <<pcb, hooks>>)
    BY <1>3 DEF ServeConnect
  <2>5. QED BY <2>2, <2>3, <2>4 DEF Control, NotYet, Asked, Unhooking, LetGo, At, Idle, Thread
<1>4. CASE ~ServeConnect(t)
  <2>1. ~At(pc[t], "connect") /\ UNCHANGED <<ops, hooks>> /\ pcb' \in {pcb, "closing", "gone"}
    BY <1>2, <1>4 DEF ServeApi, ServeRecved, ServeWrite, ServeOutput, ServeClose, ServeAbort, Serve, At
  <2>2. pcb \notin {"none", "syn"}
    BY <1>1, <2>1, Made DEF Idle
  <2>3. pc'[t] \in Place /\ \A step : Goto(t, step) => pc'[t] = step
    BY <1>1 DEF Goto, Types, Placing
  <2>4. ASSUME NEW step \in Place, Goto(t, step), ~At(step, "connect"), step.at # "unhooked",
               At(step, "close") \/ step.at \in {"abort", "discard"} \/ At(step, "abort") => hooks' = "none"
        PROVE  Control'
    BY <2>1, <2>2, <2>4, ControlGoes
  <2>5. CASE ServeClose(t) \/ ServeAbort(t)
    <3>1. hooks = "none"
      BY <1>1, <2>5 DEF ServeClose, ServeAbort, Serve, Control, Unhooking, LetGo, At
    <3>2. PICK step \in {[at |-> "discard"], [at |-> "abort"]} : Goto(t, step)
      BY <2>5 DEF ServeClose, ServeAbort
    <3>3. step \in Place /\ ~At(step, "connect") /\ step.at # "unhooked"
      BY <2>3, <3>2 DEF At
    <3>4. QED BY <2>1, <2>4, <3>1, <3>2, <3>3
  <2>6. CASE ServeWrite(t) \/ ServeOutput(t)
    <3>1. PICK step \in {[at |-> "send"], Idle} : Goto(t, step)
      BY <2>6 DEF ServeWrite, ServeOutput
    <3>2. step \in Place /\ ~At(step, "connect") /\ step.at \in {"send", "idle"}
      BY <2>3, <3>1 DEF At, Idle
    <3>3. QED BY <2>4, <3>1, <3>2 DEF At
  <2>7. CASE ServeRecved(t)
    <3>1. Goto(t, pc[t].then) /\ At(pc[t], "recved")
      BY <2>7 DEF ServeRecved, Serve, At
    <3>2. pc[t].then \in Place /\ pc[t].then.at \in {"idle", "acked", "request", "close"}
      BY <1>1, <2>3, <3>1 DEF Resumes, Idle, Thread
    <3>3. QED BY <2>4, <3>1, <3>2 DEF At
  <2>8. QED BY <1>2, <1>4, <2>5, <2>6, <2>7, Zenon DEF ServeApi
<1>5. QED BY <1>3, <1>4

\* The service task closes by way of unhooking.
LEMMA ControlTask ==
  ASSUME Types, Types', Control, ServiceTask
  PROVE  Control'
<1>1. ~Halt("null")
  BY DEF Halt, Types
<1>2. PICK step \in Place :
        /\ Goto("svc", step)
        /\ step.at \in {"idle", "close", "acked", "store"} \/ At(step, "recved") \/ At(step, "write")
  BY <1>1, TaskGoes
<1>3. queue # <<>> /\ UNCHANGED <<ops, pcb, hooks>>
  BY DEF ServiceTask
<1>4. pcb \notin {"none", "syn"}
  BY <1>3 DEF Control, NotYet
<1>5. QED BY <1>2, <1>3, <1>4, ControlGoes DEF At, Thread

-----------------------------------------------------------------------------
(* The events on their way, as a sequence of which the first is taken and  *)
(* to which one is added.                                                  *)

\* The events on their way, typed.
LEMMA WaitingType ==
  ASSUME Types
  PROVE  Waiting \in Seq(Events) /\ Len(Waiting) \in Nat /\ DOMAIN Waiting = 1..Len(Waiting)
<1>1. Waiting \in Seq(Events)
  BY AppendProperties DEF Types, Posting, Waiting
<1>2. QED BY <1>1, LenProperties

\* One more of them.
LEMMA AppendAt ==
  ASSUME Types, NEW e \in Events, Waiting' = Append(Waiting, e)
  PROVE  /\ DOMAIN Waiting = 1..Len(Waiting) /\ Len(Waiting) \in Nat
         /\ DOMAIN Waiting' = 1..(Len(Waiting) + 1)
         /\ \A i \in DOMAIN Waiting : i \in DOMAIN Waiting' /\ Waiting'[i] = Waiting[i]
         /\ Waiting'[Len(Waiting) + 1] = e
<1>1. Waiting \in Seq(Events) /\ Len(Waiting) \in Nat /\ DOMAIN Waiting = 1..Len(Waiting)
  BY WaitingType
<1>2. /\ Waiting' \in Seq(Events) /\ Len(Waiting') = Len(Waiting) + 1
      /\ \A i \in 1..Len(Waiting) : Waiting'[i] = Waiting[i]
      /\ Waiting'[Len(Waiting) + 1] = e
  BY <1>1, AppendProperties
<1>3. DOMAIN Waiting' = 1..(Len(Waiting) + 1)
  BY <1>2, LenProperties
<1>4. QED BY <1>1, <1>2, <1>3

\* One fewer.
LEMMA TailAt ==
  ASSUME Types, Waiting # <<>>, Waiting' = Tail(Waiting)
  PROVE  /\ DOMAIN Waiting = 1..Len(Waiting) /\ Len(Waiting) \in Nat \ {0}
         /\ DOMAIN Waiting' = 1..(Len(Waiting) - 1)
         /\ \A i \in DOMAIN Waiting' : i + 1 \in DOMAIN Waiting /\ Waiting'[i] = Waiting[i + 1]
<1>1. Waiting \in Seq(Events) /\ Len(Waiting) \in Nat /\ DOMAIN Waiting = 1..Len(Waiting)
  BY WaitingType
<1>2. Len(Waiting) # 0
  BY <1>1, EmptySeq
<1>3. /\ Waiting' \in Seq(Events) /\ Len(Waiting') = Len(Waiting) - 1
      /\ \A i \in 1..Len(Waiting') : Waiting'[i] = Waiting[i + 1]
  BY <1>1, HeadTailProperties
<1>4. DOMAIN Waiting' = 1..(Len(Waiting) - 1)
  BY <1>3, LenProperties
<1>5. \A i \in 1..(Len(Waiting) - 1) : i + 1 \in 1..Len(Waiting)
  BY <1>1
<1>6. QED BY <1>1, <1>2, <1>3, <1>4, <1>5

-----------------------------------------------------------------------------
(* Who is told of the end.                                                 *)

\* An event is sent; an error only of a connection that goes.
LEMMA EndPosted ==
  ASSUME Types, OneEnd, NEW e \in Events, Waiting' = Append(Waiting, e),
         UNCHANGED <<discards, pc, has, hooks>>, pcb = "gone" => pcb' = "gone",
         IsEnd(e) => discards = 0 /\ ~EndComing /\ pcb' = "gone" /\ \A t \in Thread : ~LetGo(t)
  PROVE  OneEnd'
<1>1. /\ DOMAIN Waiting = 1..Len(Waiting) /\ Len(Waiting) \in Nat
      /\ DOMAIN Waiting' = 1..(Len(Waiting) + 1)
      /\ \A i \in DOMAIN Waiting : i \in DOMAIN Waiting' /\ Waiting'[i] = Waiting[i]
      /\ Waiting'[Len(Waiting) + 1] = e
  BY AppendAt
<1>2. \A i \in DOMAIN Waiting' : i \in DOMAIN Waiting \/ i = Len(Waiting) + 1
  BY <1>1
<1>3. \A t \in Thread : LetGo(t)' = LetGo(t)
  BY DEF LetGo, At
<1>4. (has \/ (hooks \in {"err", "all"} /\ pcb # "gone"))' => discards' = 0
  BY DEF OneEnd
<1>5. CASE IsEnd(e)
  <2>1. \A i \in DOMAIN Waiting' : IsEnd(Waiting'[i]) => i = Len(Waiting) + 1
    BY <1>1, <1>2, <1>5 DEF EndComing
  <2>2. QED BY <1>3, <1>4, <1>5, <2>1 DEF OneEnd
<1>6. CASE ~IsEnd(e)
  <2>1. \A i \in DOMAIN Waiting' : IsEnd(Waiting'[i]) => i \in DOMAIN Waiting /\ IsEnd(Waiting[i])
    BY <1>1, <1>2, <1>6
  <2>2. EndComing' => EndComing
    BY <2>1 DEF EndComing
  <2>3. \A i, j \in DOMAIN Waiting' : IsEnd(Waiting'[i]) /\ IsEnd(Waiting'[j]) => i = j
    BY <2>1 DEF OneEnd
  <2>4. QED BY <1>3, <1>4, <2>2, <2>3 DEF OneEnd
<1>7. QED BY <1>5, <1>6

\* The first event is taken, and where it is an error the application told.
LEMMA EndTaken ==
  ASSUME Types, OneEnd, Waiting # <<>>, Waiting' = Tail(Waiting), UNCHANGED <<pcb, hooks>>,
         \A t \in Thread : LetGo(t)' => LetGo(t),
         IF IsEnd(Waiting[1]) THEN discards' = discards + 1 /\ has' = FALSE ELSE UNCHANGED <<discards, has>>
  PROVE  OneEnd' /\ (IsEnd(Waiting[1]) => discards = 0 /\ EndComing)
<1>1. /\ DOMAIN Waiting = 1..Len(Waiting) /\ Len(Waiting) \in Nat \ {0}
      /\ DOMAIN Waiting' = 1..(Len(Waiting) - 1)
      /\ \A i \in DOMAIN Waiting' : i + 1 \in DOMAIN Waiting /\ Waiting'[i] = Waiting[i + 1]
  BY TailAt
<1>2. EndComing' => EndComing
  BY <1>1 DEF EndComing
<1>3. \A i, j \in DOMAIN Waiting' : IsEnd(Waiting'[i]) /\ IsEnd(Waiting'[j]) => i = j
  <2>1. SUFFICES ASSUME NEW i \in DOMAIN Waiting', NEW j \in DOMAIN Waiting',
                        IsEnd(Waiting'[i]), IsEnd(Waiting'[j])
                 PROVE  i = j
    OBVIOUS
  <2>2. /\ i + 1 \in DOMAIN Waiting /\ j + 1 \in DOMAIN Waiting
        /\ IsEnd(Waiting[i + 1]) /\ IsEnd(Waiting[j + 1])
    BY <1>1, <2>1
  <2>3. i + 1 = j + 1 /\ i \in Int /\ j \in Int
    BY <1>1, <2>2 DEF OneEnd
  <2>4. QED BY <2>3
<1>4. CASE IsEnd(Waiting[1])
  <2>1. EndComing /\ 1 \in DOMAIN Waiting
    BY <1>1, <1>4 DEF EndComing
  <2>2. discards = 0 /\ pcb = "gone"
    BY <2>1 DEF OneEnd
  <2>3. ~EndComing'
    <3>1. SUFFICES ASSUME NEW i \in DOMAIN Waiting', IsEnd(Waiting'[i]) PROVE FALSE
      BY DEF EndComing
    <3>2. i + 1 \in DOMAIN Waiting /\ IsEnd(Waiting[i + 1])
      BY <1>1, <3>1
    <3>3. i + 1 = 1 /\ i \in 1..(Len(Waiting) - 1)
      BY <1>1, <1>4, <2>1, <3>2 DEF OneEnd
    <3>4. QED BY <3>3
  <2>4. ~has' /\ pcb' = "gone"
    BY <1>4, <2>2
  <2>5. QED BY <1>3, <2>1, <2>2, <2>3, <2>4 DEF OneEnd
<1>5. CASE ~IsEnd(Waiting[1])
  BY <1>2, <1>3, <1>5 DEF OneEnd
<1>6. QED BY <1>4, <1>5

\* A thread moves on and nothing is sent, taken or told.
LEMMA ToldGoes ==
  ASSUME Types, Told, NEW t \in Thread, NEW step, Goto(t, step),
         UNCHANGED <<queue, lwip, discards, has, met>>, pcb = "gone" => pcb' = "gone",
         hooks' = hooks \/ hooks' \notin {"err", "all"} \/ discards = 0,
         LetGo(t)' => LetGo(t) \/ (pcb # "gone" /\ InClose(t)),
         InClose(t)' => InClose(t)
  PROVE  Told'
<1>1. UNCHANGED Waiting /\ EndComing' = EndComing
  BY DEF Waiting, EndComing
<1>2. \A u \in Thread : (InClose(u)' => InClose(u)) /\ (u # t => LetGo(u)' = LetGo(u))
  BY DEF Goto, Types, Placing, InClose, LetGo, At
<1>3. OneEnd'
  <2>1. EndComing' => discards' = 0 /\ pcb' = "gone" /\ \A u \in Thread : ~LetGo(u)'
    <3>1. SUFFICES ASSUME EndComing, NEW u \in Thread
                   PROVE  discards' = 0 /\ pcb' = "gone" /\ ~LetGo(u)'
      BY <1>1
    <3>2. discards = 0 /\ pcb = "gone" /\ ~LetGo(u)
      BY <3>1 DEF Told, OneEnd
    <3>3. QED BY <1>2, <3>2
  <2>2. \A i, j \in DOMAIN Waiting' : IsEnd(Waiting'[i]) /\ IsEnd(Waiting'[j]) => i = j
    BY <1>1 DEF Told, OneEnd
  <2>3. (has \/ (hooks \in {"err", "all"} /\ pcb # "gone"))' => discards' = 0
    BY DEF Told, OneEnd
  <2>4. QED BY <2>1, <2>2, <2>3 DEF OneEnd
<1>4. ~met' => Alone'
  <2>1. SUFFICES ASSUME ~met PROVE Alone'
    OBVIOUS
  <2>2. Alone
    BY <2>1 DEF Told
  <2>3. \A u \in Thread : LetGo(u)' => has'
    <3>1. SUFFICES ASSUME NEW u \in Thread, LetGo(u)' PROVE has
      OBVIOUS
    <3>2. LetGo(u) \/ (u = t /\ pcb # "gone" /\ InClose(t))
      BY <1>2, <3>1
    <3>3. QED BY <2>2, <3>2 DEF Alone
  <2>4. QED BY <1>2, <2>2, <2>3 DEF Alone
<1>5. ToldOnce'
  BY DEF Told, ToldOnce
<1>6. QED BY <1>3, <1>4, <1>5 DEF Told

\* lwIP reports an error once, when it frees a connection.
LEMMA ToldLwip ==
  ASSUME Types, Types', Control, Told, Lwip
  PROVE  Told'
<1> USE DEF lwipVars, memberVars, countVars, histVars
<1>1. UNCHANGED <<pc, discards, met>> /\ (pcb = "gone" => pcb' = "gone")
  BY DEF Lwip, Unblock, Accept, Connected, Receive, Fin, Sent, Poll, Reset, Free
<1>2. Posting
  BY DEF Types
<1>3. ToldOnce'
  BY <1>1 DEF Told, ToldOnce
<1>4. \A t \in Thread : InClose(t)' = InClose(t) /\ LetGo(t)' = LetGo(t)
  BY <1>1 DEF InClose, LetGo, At
<1>5. CASE Accept \/ Connected
  <2>1. UNCHANGED <<queue, lwip>> /\ pcb \in {"none", "syn"}
    BY <1>5 DEF Accept, Connected
  <2>2. /\ Waiting' = <<>> /\ discards = 0
        /\ pc["svc"] = Idle /\ (pc["loop"] = Idle \/ At(pc["loop"], "connect"))
    BY <2>1 DEF Control, NotYet, Waiting
  <2>3. \A t \in Thread : ~InClose(t)' /\ ~LetGo(t)'
    <3>1. \A t \in Thread : ~InClose(t) /\ ~LetGo(t)
      BY <2>2 DEF InClose, LetGo, At, Idle, Thread
    <3>2. QED BY <1>4, <3>1
  <2>4. ~EndComing' /\ DOMAIN Waiting' = {}
    BY <2>2 DEF EndComing
  <2>5. QED BY <1>1, <1>3, <2>2, <2>3, <2>4 DEF Told, OneEnd, Alone
<1>6. CASE ~(Accept \/ Connected)
  <2>1. UNCHANGED <<has, hooks>>
    BY <1>6 DEF Lwip, Unblock, Receive, Fin, Sent, Poll, Reset, Free
  <2>2. ~met' => Alone'
    BY <1>1, <1>4, <2>1 DEF Told, Alone
  <2>3. ASSUME UNCHANGED Waiting
        PROVE  Told'
    <3>1. EndComing' = EndComing
      BY <2>3 DEF EndComing
    <3>2. \A i, j \in DOMAIN Waiting' : IsEnd(Waiting'[i]) /\ IsEnd(Waiting'[j]) => i = j
      BY <2>3 DEF Told, OneEnd
    <3>3. OneEnd'
      BY <1>1, <1>4, <2>1, <3>1, <3>2 DEF Told, OneEnd
    <3>4. QED BY <1>3, <2>2, <3>3 DEF Told
  <2>4. ASSUME NEW type \in {"RECV", "FIN", "SENT", "POLL", "ERROR"}, NEW n \in Nat,
               lwip = Run, Post(Event(type, n)),
               type = "ERROR" => pcb # "gone" /\ pcb' = "gone" /\ hooks # "none"
        PROVE  Told'
    <3> DEFINE e == Event(type, n)
    <3>1. e \in Events
      BY DEF Event, Events
    <3>2. Waiting' = Append(Waiting, e)
      BY <1>2, <2>4, <3>1, Posted
    <3>3. ASSUME IsEnd(e)
          PROVE  discards = 0 /\ ~EndComing /\ pcb' = "gone" /\ \A t \in Thread : ~LetGo(t)
      <4>1. type = "ERROR" /\ hooks # "noarg"
        BY <3>3 DEF IsEnd, Event
      <4>2. pcb # "gone" /\ pcb' = "gone" /\ hooks # "none"
        BY <2>4, <4>1
      <4>3. ~EndComing
        BY <4>2 DEF Told, OneEnd
      <4>4. hooks \in {"err", "all"}
        BY <4>1, <4>2 DEF Types, Members
      <4>5. discards = 0
        BY <4>2, <4>4 DEF Told, OneEnd
      <4>6. \A t \in Thread : ~LetGo(t)
        BY <4>4 DEF Control, Unhooking
      <4>7. QED BY <4>2, <4>3, <4>5, <4>6
    <3>4. OneEnd'
      BY <1>1, <2>1, <3>1, <3>2, <3>3, EndPosted DEF Told
    <3>5. QED BY <1>3, <2>2, <3>4 DEF Told
  <2>5. ASSUME UNCHANGED <<queue, lwip>>
        PROVE  Told'
    BY <2>3, <2>5 DEF Waiting
  <2>6. CASE Unblock
    <3>1. UNCHANGED Waiting
      <4>1. lwip \in Events
        BY <1>2, <2>6 DEF Unblock, Posting
      <4>2. QED BY <2>6, <4>1, EventRecord DEF Unblock, Waiting
    <3>2. QED BY <2>3, <3>1
  <2>7. CASE Receive
    <3>1. arrived' \in Nat
      BY SizeAssumption DEF Types, Members
    <3>2. QED BY <2>4, <2>5, <2>7, <3>1 DEF Receive
  <2>8. CASE Fin
    BY <2>4, <2>5, <2>8 DEF Fin
  <2>9. CASE Sent
    BY <2>4, <2>5, <2>9 DEF Sent
  <2>10. CASE Poll
    BY <2>4, <2>5, <2>10 DEF Poll
  <2>11. CASE Reset
    BY <2>4, <2>5, <2>11 DEF Reset
  <2>12. CASE Free
    BY <2>5, <2>12 DEF Free
  <2>13. QED BY <1>6, <2>6, <2>7, <2>8, <2>9, <2>10, <2>11, <2>12, Zenon DEF Lwip
<1>7. QED BY <1>5, <1>6

\* Nobody is in _close or let go of who was not, by an action of the application
\* or of the time.
LEMMA ToldApp ==
  ASSUME Types, Told, App \/ Silence \/ AckOverdue
  PROVE  Told'
<1> USE DEF lwipVars, memberVars, countVars, histVars
<1>1. UNCHANGED <<queue, lwip, discards, has, met, pcb, hooks>>
  BY DEF App, Connect, Write, Close, Request, CloseNow, Ack, Silence, AckOverdue
<1>2. pc \in [Thread -> Place] /\ "loop" \in Thread
  BY DEF Types, Placing, Thread
<1>3. ASSUME NEW step, Goto("loop", step), step.at \in {"idle", "acked", "api"},
             step.at = "api" => step.call \in {"connect", "write", "recved"}
      PROVE  Told'
  <2>1. pc'["loop"] = step
    BY <1>2, <1>3 DEF Goto
  <2>2. ~InClose("loop")' /\ ~LetGo("loop")'
    BY <1>3, <2>1 DEF InClose, LetGo, At
  <2>3. QED BY <1>1, <1>2, <1>3, <2>2, ToldGoes
<1>4. CASE App
  <2>1. CASE Ack
    <3>1. PICK len \in 1..Segments : Goto("loop", Acks(len, Idle))
      BY <2>1 DEF Ack
    <3>2. len \in Nat
      BY SizeAssumption
    <3>3. Acks(len, Idle).at = "acked" \/ At(Acks(len, Idle), "recved")
      BY <3>2, Acking
    <3>4. QED BY <1>3, <3>1, <3>3 DEF At
  <2>2. CASE ~Ack
    <3>1. PICK step \in {Api("connect", 0, Idle), Api("write", 0, Idle), Idle,
                         Api("recved", rx_ack_len, [at |-> "request"]),
                         Api("recved", rx_ack_len, [at |-> "close"])} : Goto("loop", step)
      BY <1>4, <2>2 DEF App, Connect, Write, Close, Request, CloseNow
    <3>2. step.at \in {"idle", "api"} /\ (step.at = "api" => step.call \in {"connect", "write", "recved"})
      BY <3>1 DEF Api, Idle
    <3>3. QED BY <1>3, <3>1, <3>2
  <2>3. QED BY <2>1, <2>2
<1>5. CASE Silence \/ AckOverdue
  <2>1. pc' = pc
    BY <1>5 DEF Silence, AckOverdue
  <2>2. Goto("loop", pc["loop"])
    BY <1>2, <2>1 DEF Goto
  <2>3. (LetGo("loop")' => LetGo("loop")) /\ (InClose("loop")' => InClose("loop"))
    BY <2>1 DEF InClose, LetGo, At
  <2>4. QED BY <1>1, <1>2, <2>2, <2>3, ToldGoes
<1>6. QED BY <1>4, <1>5

\* A thread enters _close alone, and tells what nobody has told.
LEMMA ToldSteps ==
  ASSUME Types, Types', Control, Told, NEW t \in Thread, Steps(t)
  PROVE  Told'
<1> USE DEF lwipVars, memberVars, countVars, histVars
<1>1. pc \in [Thread -> Place] /\ pc[t] \in Place /\ Resumes(t, pc[t])
  BY DEF Types, Placing
<1>2. ~OnNull(t)
  BY DEF OnNull, Halt, Types
<1>3. ASSUME NEW step, Goto(t, step), UNCHANGED <<queue, lwip, discards, has, met, pcb>>,
             hooks' = hooks \/ hooks' \notin {"err", "all"},
             step.at \in {"abort", "discard"} \/ At(step, "abort") => LetGo(t),
             step.at \in {"unhook", "unhooked"} \/ At(step, "close") => InClose(t)
      PROVE  Told'
  <2>1. pc'[t] = step
    BY <1>1, <1>3 DEF Goto
  <2>2. (LetGo(t)' => LetGo(t)) /\ (InClose(t)' => InClose(t))
    BY <1>3, <2>1 DEF InClose, LetGo, At
  <2>3. QED BY <1>3, <2>2, ToldGoes
<1>4. CASE SendNow(t)
  BY <1>3, <1>4 DEF SendNow, At, Api
<1>5. CASE StartClose(t)
  <2>1. UNCHANGED <<queue, lwip, discards, has, pcb, hooks>>
    BY <1>5 DEF StartClose
  <2>2. CASE ~has
    BY <1>3, <1>5, <2>1, <2>2 DEF StartClose, At, Idle
  <2>3. CASE has
    <3>1. /\ pc[t].at = "close" /\ Goto(t, [at |-> "unhook"])
          /\ met' = (met \/ \E u \in Thread : InClose(u))
      BY <1>5, <2>3 DEF StartClose
    <3>2. /\ pc'[t] = [at |-> "unhook"] /\ \A u \in Thread \ {t} : pc'[u] = pc[u]
      BY <1>1, <3>1 DEF Goto
    <3>3. ~LetGo(t)' /\ \A u \in Thread : LetGo(u)' => LetGo(u)
      BY <3>2 DEF LetGo, At
    <3>4. UNCHANGED Waiting /\ EndComing' = EndComing
      BY <2>1 DEF Waiting, EndComing
    <3>5. OneEnd'
      <4>1. \A i, j \in DOMAIN Waiting' : IsEnd(Waiting'[i]) /\ IsEnd(Waiting'[j]) => i = j
        BY <3>4 DEF Told, OneEnd
      <4>2. QED BY <2>1, <3>3, <3>4, <4>1 DEF Told, OneEnd
    <3>6. ~met' => Alone'
      <4>1. SUFFICES ASSUME ~met' PROVE Alone'
        OBVIOUS
      <4>2. ~met /\ \A u \in Thread : ~InClose(u)
        BY <3>1, <4>1
      <4>3. \A u \in Thread : InClose(u)' => u = t
        BY <3>2, <4>2 DEF InClose
      <4>4. has'
        BY <2>1, <2>3
      <4>5. QED BY <4>3, <4>4 DEF Alone
    <3>7. ToldOnce'
      <4>1. discards = 0
        BY <2>3 DEF Told, OneEnd
      <4>2. QED BY <2>1, <4>1 DEF ToldOnce
    <3>8. QED BY <3>5, <3>6, <3>7 DEF Told
  <2>4. QED BY <2>2, <2>3
<1>6. CASE Unhook(t)
  BY <1>3, <1>6 DEF Unhook, At, InClose
<1>7. CASE Unhooked(t)
  BY <1>3, <1>7 DEF Unhooked, At, Api, InClose
<1>8. CASE Abort(t)
  <2>1. LetGo(t) /\ InClose(t)
    BY <1>8 DEF Abort, LetGo, InClose
  <2>2. PICK step : Goto(t, step)
    BY <1>8 DEF Abort
  <2>3. QED BY <1>3, <1>8, <2>1, <2>2 DEF Abort
<1>9. CASE Acked(t) \/ Store(t)
  <2>1. PICK step : Goto(t, step) /\ step.at \in {"idle", "store", "api"} /\ (step.at = "api" => step.call = "recved")
    <3>1. pc[t].at \in {"acked", "store"} => pc[t].then \in {Idle, Owed}
      BY <1>1, PlaceTyped DEF Counting
    <3>2. QED BY <1>9, <3>1 DEF Acked, Store, Idle, Owed, Api
  <2>2. UNCHANGED <<queue, lwip, discards, has, met, pcb, hooks>>
    BY <1>9 DEF Acked, Store
  <2>3. QED BY <1>3, <2>1, <2>2 DEF At
<1>10. CASE Discard(t)
  <2>1. /\ UNCHANGED <<queue, lwip, pcb, hooks, met>> /\ ~has' /\ discards' = discards + 1
        /\ pc[t].at = "discard" /\ Goto(t, Idle)
    BY <1>10 DEF Discard
  <2>2. LetGo(t) /\ InClose(t) /\ hooks = "none"
    BY <2>1 DEF LetGo, InClose, Control, Unhooking
  <2>3. pc'[t] = Idle /\ \A u \in Thread \ {t} : pc'[u] = pc[u]
    BY <1>1, <2>1 DEF Goto
  <2>4. UNCHANGED Waiting /\ EndComing' = EndComing
    BY <2>1 DEF Waiting, EndComing
  <2>5. ~EndComing
    BY <2>2 DEF Told, OneEnd
  <2>6. \A i, j \in DOMAIN Waiting' : IsEnd(Waiting'[i]) /\ IsEnd(Waiting'[j]) => i = j
    BY <2>4 DEF Told, OneEnd
  <2>7. OneEnd'
    BY <2>1, <2>2, <2>4, <2>5, <2>6 DEF OneEnd
  <2>8. ~met' => Alone' /\ discards = 0
    <3>1. SUFFICES ASSUME ~met PROVE Alone' /\ discards = 0
      BY <2>1
    <3>2. Alone
      BY <3>1 DEF Told
    <3>3. \A u \in Thread : u # t => ~InClose(u)
      BY <2>2, <3>2 DEF Alone
    <3>4. \A u \in Thread : ~InClose(u)'
      BY <2>3, <3>3 DEF InClose, Idle
    <3>5. \A u \in Thread : LetGo(u)' => InClose(u)'
      BY DEF LetGo, InClose, At
    <3>6. discards = 0
      BY <2>2, <3>2 DEF Alone, Told, OneEnd
    <3>7. QED BY <3>4, <3>5, <3>6 DEF Alone
  <2>9. ToldOnce'
    BY <2>1, <2>8 DEF ToldOnce
  <2>10. QED BY <2>7, <2>8, <2>9 DEF Told
<1>11. QED BY <1>2, <1>4, <1>5, <1>6, <1>7, <1>8, <1>9, <1>10, Zenon DEF Steps

\* tcp_close and tcp_abort let go of the thread that called them, of a
\* connection without callbacks.
LEMMA ToldServe ==
  ASSUME Types, Types', Control, Told, NEW t \in Thread, ServeApi(t)
  PROVE  Told'
<1> USE DEF lwipVars, memberVars, countVars, histVars
<1>1. pc \in [Thread -> Place] /\ pc[t] \in Place /\ Resumes(t, pc[t])
  BY DEF Types, Placing
<1>2. ~OnFreed(t)
  BY DEF OnFreed, Halt, Types
<1>3. ASSUME NEW step, Goto(t, step), UNCHANGED <<queue, lwip, discards, has, met>>,
             pcb = "gone" => pcb' = "gone", hooks' = hooks \/ discards = 0,
             step.at \in {"abort", "discard"} => LetGo(t) \/ (pcb # "gone" /\ InClose(t)),
             step.at \in {"abort", "discard"} => InClose(t),
             step.at \notin {"unhook", "unhooked", "api"}
      PROVE  Told'
  <2>1. pc'[t] = step
    BY <1>1, <1>3 DEF Goto
  <2>2. (LetGo(t)' => LetGo(t) \/ (pcb # "gone" /\ InClose(t))) /\ (InClose(t)' => InClose(t))
    BY <1>3, <2>1 DEF InClose, LetGo, At
  <2>3. QED BY <1>3, <2>2, ToldGoes
<1>4. CASE ServeConnect(t)
  <2>1. At(pc["loop"], "connect")
    BY <1>1, <1>4 DEF ServeConnect, Resumes, At
  <2>2. pcb = "none" /\ discards = 0
    BY <2>1 DEF Control, Asked, NotYet
  <2>3. QED BY <1>3, <1>4, <2>2 DEF ServeConnect, Idle
<1>5. CASE ServeRecved(t)
  <2>1. At(pc[t], "recved") /\ pc[t].then.at \in {"idle", "acked", "request", "close"}
    BY <1>1, <1>5 DEF ServeRecved, Serve, At, Resumes, Idle, Thread
  <2>2. QED BY <1>3, <1>5, <2>1 DEF ServeRecved
<1>6. CASE ServeWrite(t) \/ ServeOutput(t)
  <2>1. PICK step \in {[at |-> "send"], Idle} : Goto(t, step)
    BY <1>6 DEF ServeWrite, ServeOutput
  <2>2. step.at \in {"send", "idle"}
    BY DEF Idle
  <2>3. UNCHANGED <<queue, lwip, discards, has, met, pcb, hooks>>
    BY <1>6 DEF ServeWrite, ServeOutput
  <2>4. QED BY <1>3, <2>1, <2>2, <2>3
<1>7. CASE ServeClose(t)
  <2>1. InClose(t) /\ pcb # "gone" /\ UNCHANGED <<queue, lwip, discards, has, met, hooks>>
    BY <1>7 DEF ServeClose, Serve, Held, InClose
  <2>2. PICK step \in {[at |-> "discard"], [at |-> "abort"]} : Goto(t, step)
    BY <1>7 DEF ServeClose
  <2>3. QED BY <1>3, <2>1, <2>2
<1>8. CASE ServeAbort(t)
  <2>1. LetGo(t) /\ InClose(t) /\ hooks = "none"
    BY <1>8 DEF ServeAbort, Serve, LetGo, InClose, At, Control, Unhooking
  <2>2. QED BY <1>3, <1>8, <2>1 DEF ServeAbort
<1>9. QED BY <1>2, <1>4, <1>5, <1>6, <1>7, <1>8, Zenon DEF ServeApi

\* The service task tells of an error.
LEMMA ToldTask ==
  ASSUME Types, Types', Told, ServiceTask
  PROVE  Told'
<1> USE DEF memberVars, countVars, histVars
<1> DEFINE e == Head(queue)
<1>1. ~Halt("null")
  BY DEF Halt, Types
<1>2. /\ e.client /\ UNCHANGED lwip
      /\ OnRecv(e) \/ OnFin(e) \/ OnSent(e) \/ OnPoll(e) \/ OnError(e)
  BY <1>1, TaskGoes
<1>3. /\ UNCHANGED <<pcb, hooks, met>> /\ queue # <<>> /\ queue' = Tail(queue)
      /\ Posting /\ pc \in [Thread -> Place]
  BY DEF ServiceTask, Types, Placing
<1>4. Waiting # <<>> /\ e = Waiting[1] /\ Waiting' = Tail(Waiting)
  BY <1>2, <1>3, Taken
<1>5. PICK step \in Place :
        /\ Goto("svc", step)
        /\ step.at \in {"idle", "close", "acked", "store"} \/ At(step, "recved") \/ At(step, "write")
  BY <1>1, TaskGoes
<1>6. \A t \in Thread : (LetGo(t)' => LetGo(t)) /\ (InClose(t)' => InClose(t))
  <2>1. pc'["svc"] = step /\ pc'["loop"] = pc["loop"]
    BY <1>3, <1>5 DEF Goto, Thread
  <2>2. ~LetGo("svc")' /\ ~InClose("svc")'
    BY <1>5, <2>1 DEF LetGo, InClose, At
  <2>3. LetGo("loop")' = LetGo("loop") /\ InClose("loop")' = InClose("loop")
    BY <2>1 DEF LetGo, InClose, At
  <2>4. QED BY <2>2, <2>3 DEF Thread
<1>7. IF IsEnd(Waiting[1]) THEN discards' = discards + 1 /\ has' = FALSE ELSE UNCHANGED <<discards, has>>
  BY <1>2, <1>4 DEF OnRecv, OnFin, OnSent, OnPoll, OnError, IsEnd
<1>8. OneEnd' /\ (IsEnd(Waiting[1]) => discards = 0 /\ EndComing)
  BY <1>3, <1>4, <1>6, <1>7, EndTaken, Zenon DEF Told
<1>9. ~met' => Alone'
  <2>1. SUFFICES ASSUME ~met PROVE Alone'
    BY <1>3
  <2>2. Alone
    BY <2>1 DEF Told
  <2>3. CASE IsEnd(Waiting[1])
    <3>1. pcb = "gone" /\ \A t \in Thread : ~LetGo(t)
      BY <1>8, <2>3 DEF Told, OneEnd
    <3>2. QED BY <1>3, <1>6, <2>2, <3>1 DEF Alone
  <2>4. CASE ~IsEnd(Waiting[1])
    BY <1>3, <1>6, <1>7, <2>2, <2>4 DEF Alone
  <2>5. QED BY <2>3, <2>4
<1>10. ToldOnce'
  BY <1>3, <1>7, <1>8 DEF Told, ToldOnce
<1>11. QED BY <1>8, <1>9, <1>10 DEF Told

-----------------------------------------------------------------------------
(* The data.                                                               *)

\* A step that neither sends nor takes data.
LEMMA LineKept ==
  ASSUME Types, Types', InLine, UNCHANGED Waiting, UNCHANGED delivered,
         arrived' >= arrived, hooks' = "all" => hooks = "all" /\ arrived' = arrived
  PROVE  InLine'
<1>1. PICK last \in Len(delivered)..arrived : UpTo(last) /\ (hooks = "all" => last = arrived)
  BY DEF InLine
<1>2. Len(delivered) \in Nat /\ arrived \in Nat /\ arrived' \in Nat
  BY LenProperties, SizeAssumption DEF Types, Members
<1>3. last \in (Len(delivered)..arrived)'
  BY <1>1, <1>2
<1>4. UpTo(last)'
  BY <1>1 DEF UpTo
<1>5. \A i, j \in DOMAIN Waiting' :
        IsData(Waiting'[i]) /\ IsData(Waiting'[j]) /\ i < j => Waiting'[i].n < Waiting'[j].n
  BY DEF InLine
<1>6. QED BY <1>1, <1>3, <1>4, <1>5 DEF InLine

\* Before the first segment.
LEMMA LineStarts ==
  ASSUME Waiting = <<>>, arrived = 0, delivered = <<>>
  PROVE  InLine
<1>1. DOMAIN Waiting = {} /\ Len(delivered) = 0
  OBVIOUS
<1>2. UpTo(0)
  BY <1>1 DEF UpTo
<1>3. QED BY <1>1, <1>2 DEF InLine

\* An event is sent; a segment only while all of them are.
LEMMA LinePosted ==
  ASSUME Types, Types', InLine, NEW e \in Events, Waiting' = Append(Waiting, e),
         UNCHANGED <<delivered, hooks>>,
         \/ ~IsData(e) /\ arrived' >= arrived /\ (hooks = "all" => arrived' = arrived)
         \/ IsData(e) /\ hooks = "all" /\ arrived' = arrived + 1 /\ e.n = arrived'
  PROVE  InLine'
<1>1. PICK last \in Len(delivered)..arrived : UpTo(last) /\ (hooks = "all" => last = arrived)
  BY DEF InLine
<1>2. Len(delivered) \in Nat /\ arrived \in Nat /\ arrived' \in Nat
  BY LenProperties, SizeAssumption DEF Types, Members
<1>3. /\ DOMAIN Waiting = 1..Len(Waiting) /\ Len(Waiting) \in Nat
      /\ DOMAIN Waiting' = 1..(Len(Waiting) + 1)
      /\ \A i \in DOMAIN Waiting : i \in DOMAIN Waiting' /\ Waiting'[i] = Waiting[i]
      /\ Waiting'[Len(Waiting) + 1] = e
  BY AppendAt
<1>4. \A i \in DOMAIN Waiting' : i \in DOMAIN Waiting \/ i = Len(Waiting) + 1
  BY <1>3
<1>5. CASE ~IsData(e) /\ arrived' >= arrived /\ (hooks = "all" => arrived' = arrived)
  <2>1. \A i \in DOMAIN Waiting' : IsData(Waiting'[i]) => i \in DOMAIN Waiting /\ IsData(Waiting[i])
    BY <1>3, <1>4, <1>5
  <2>2. UpTo(last)'
    BY <1>1, <1>3, <2>1 DEF UpTo
  <2>3. last \in (Len(delivered)..arrived)' /\ (hooks' = "all" => last = arrived')
    BY <1>1, <1>2, <1>5
  <2>4. \A i, j \in DOMAIN Waiting' :
          IsData(Waiting'[i]) /\ IsData(Waiting'[j]) /\ i < j => Waiting'[i].n < Waiting'[j].n
    BY <1>3, <2>1 DEF InLine
  <2>5. QED BY <2>2, <2>3, <2>4 DEF InLine
<1>6. CASE IsData(e) /\ hooks = "all" /\ arrived' = arrived + 1 /\ e.n = arrived'
  <2>1. last = arrived
    BY <1>1, <1>6
  <2>2. \A i \in DOMAIN Waiting : IsData(Waiting[i]) => Waiting[i].n \in (Len(delivered) + 1)..arrived
    BY <1>1, <2>1 DEF UpTo
  <2>3. \A i \in DOMAIN Waiting' :
          IsData(Waiting'[i]) => Waiting'[i].n \in (Len(delivered) + 1)..(arrived + 1)
    BY <1>1, <1>2, <1>3, <1>4, <1>6, <2>2
  <2>4. ASSUME NEW m \in (Len(delivered) + 1)..(arrived + 1)
        PROVE  \E i \in DOMAIN Waiting' : IsData(Waiting'[i]) /\ Waiting'[i].n = m
    <3>1. CASE m = arrived + 1
      <4>1. Len(Waiting) + 1 \in DOMAIN Waiting'
        BY <1>3
      <4>2. QED BY <1>3, <1>6, <3>1, <4>1
    <3>2. CASE m # arrived + 1
      <4>1. m \in (Len(delivered) + 1)..last
        BY <1>2, <2>1, <3>2
      <4>2. QED BY <1>1, <1>3, <4>1 DEF UpTo
    <3>3. QED BY <3>1, <3>2
  <2>5. UpTo(arrived)'
    BY <1>6, <2>3, <2>4 DEF UpTo
  <2>6. ASSUME NEW i \in DOMAIN Waiting', NEW j \in DOMAIN Waiting',
               IsData(Waiting'[i]), IsData(Waiting'[j]), i < j
        PROVE  Waiting'[i].n < Waiting'[j].n
    <3>1. i \in DOMAIN Waiting
      BY <1>3, <2>6
    <3>2. CASE j \in DOMAIN Waiting
      BY <1>3, <2>6, <3>1, <3>2 DEF InLine
    <3>3. CASE j = Len(Waiting) + 1
      BY <1>2, <1>3, <1>6, <2>2, <2>6, <3>1, <3>3
    <3>4. QED BY <1>4, <3>2, <3>3
  <2>7. arrived' \in (Len(delivered)..arrived)'
    BY <1>1, <1>2, <1>6
  <2>8. QED BY <2>5, <2>6, <2>7 DEF InLine
<1>7. QED BY <1>5, <1>6

\* The first event is taken, and a segment delivered: it is the next one.
LEMMA LineTaken ==
  ASSUME Types, Types', InLine, DataInOrder, Waiting # <<>>, Waiting' = Tail(Waiting),
         UNCHANGED <<arrived, hooks>>,
         delivered' = IF IsData(Waiting[1]) THEN Append(delivered, Waiting[1].n) ELSE delivered
  PROVE  InLine' /\ DataInOrder'
<1>1. PICK last \in Len(delivered)..arrived : UpTo(last) /\ (hooks = "all" => last = arrived)
  BY DEF InLine
<1>2. /\ Len(delivered) \in Nat /\ arrived \in 0..Segments /\ Segments \in Nat /\ delivered \in Seq(1..Segments)
      /\ DOMAIN delivered = 1..Len(delivered)
  BY LenProperties, SizeAssumption DEF Types, Members
<1>3. /\ DOMAIN Waiting = 1..Len(Waiting) /\ Len(Waiting) \in Nat \ {0}
      /\ DOMAIN Waiting' = 1..(Len(Waiting) - 1)
      /\ \A i \in DOMAIN Waiting' : i + 1 \in DOMAIN Waiting /\ Waiting'[i] = Waiting[i + 1]
  BY TailAt
<1>4. 1 \in DOMAIN Waiting /\ \A i \in DOMAIN Waiting : i = 1 \/ (i - 1 \in DOMAIN Waiting' /\ i - 1 + 1 = i)
  BY <1>3
<1>5. ASSUME NEW i \in DOMAIN Waiting', NEW j \in DOMAIN Waiting',
             IsData(Waiting'[i]), IsData(Waiting'[j]), i < j
      PROVE  Waiting'[i].n < Waiting'[j].n
  <2>1. i + 1 < j + 1 /\ i + 1 \in DOMAIN Waiting /\ j + 1 \in DOMAIN Waiting
    BY <1>3, <1>5
  <2>2. QED BY <1>3, <1>5, <2>1 DEF InLine
<1>6. CASE IsData(Waiting[1])
  <2>1. Waiting[1].n \in (Len(delivered) + 1)..last
    BY <1>1, <1>4, <1>6 DEF UpTo
  <2>2. Waiting[1].n = Len(delivered) + 1
    <3>1. SUFFICES ASSUME Waiting[1].n # Len(delivered) + 1 PROVE FALSE
      OBVIOUS
    <3>2. Len(delivered) + 1 \in (Len(delivered) + 1)..last
      BY <1>1, <1>2, <2>1
    <3>3. PICK i \in DOMAIN Waiting : IsData(Waiting[i]) /\ Waiting[i].n = Len(delivered) + 1
      BY <1>1, <3>2 DEF UpTo
    <3>4. 1 < i
      BY <1>3, <3>1, <3>3
    <3>5. Waiting[1].n < Waiting[i].n
      BY <1>4, <1>6, <3>3, <3>4 DEF InLine
    <3>6. QED BY <1>1, <1>2, <2>1, <3>3, <3>5
  <2>3. /\ Len(delivered') = Len(delivered) + 1
        /\ \A i \in 1..Len(delivered) : delivered'[i] = delivered[i]
        /\ delivered'[Len(delivered) + 1] = Len(delivered) + 1
        /\ DOMAIN delivered' = 1..(Len(delivered) + 1)
    <3>1. Waiting[1].n \in 1..Segments
      BY <1>1, <1>2, <2>1
    <3>2. delivered' = Append(delivered, Waiting[1].n)
      BY <1>6
    <3>3. /\ delivered' \in Seq(1..Segments) /\ Len(delivered') = Len(delivered) + 1
          /\ \A i \in 1..Len(delivered) : delivered'[i] = delivered[i]
          /\ delivered'[Len(delivered) + 1] = Waiting[1].n
      <4> DEFINE n == Waiting[1].n
      <4>1. n \in 1..Segments /\ delivered' = Append(delivered, n)
        BY <3>1, <3>2
      <4> HIDE DEF n
      <4>2. /\ delivered' \in Seq(1..Segments) /\ Len(delivered') = Len(delivered) + 1
            /\ \A i \in 1..Len(delivered) : delivered'[i] = delivered[i]
            /\ delivered'[Len(delivered) + 1] = n
        <5>1. /\ Append(delivered, n) \in Seq(1..Segments)
              /\ Len(Append(delivered, n)) = Len(delivered) + 1
              /\ \A i \in 1..Len(delivered) : Append(delivered, n)[i] = delivered[i]
              /\ Append(delivered, n)[Len(delivered) + 1] = n
          BY <1>2, <4>1, AppendProperties
        <5>2. QED BY <4>1, <5>1, Zenon
      <4>3. QED BY <4>2 DEF n
    <3>4. DOMAIN delivered' = 1..(Len(delivered) + 1)
      BY <3>3, LenProperties
    <3>5. QED BY <2>2, <3>3, <3>4
  <2>4. DataInOrder'
    <3>1. \A i \in DOMAIN delivered' : i \in DOMAIN delivered \/ i = Len(delivered) + 1
      BY <1>2, <2>3
    <3>2. QED BY <1>2, <2>3, <3>1 DEF DataInOrder
  <2>5. UpTo(last)'
    <3>1. ASSUME NEW i \in DOMAIN Waiting', IsData(Waiting'[i])
          PROVE  Waiting'[i].n \in (Len(delivered') + 1)..last
      <4>1. i + 1 \in DOMAIN Waiting /\ IsData(Waiting[i + 1]) /\ Waiting'[i] = Waiting[i + 1] /\ 1 < i + 1
        BY <1>3, <3>1
      <4>2. Waiting[1].n < Waiting[i + 1].n
        BY <1>4, <1>6, <4>1 DEF InLine
      <4>3. Waiting[i + 1].n \in (Len(delivered) + 1)..last
        BY <1>1, <4>1 DEF UpTo
      <4>4. QED BY <1>1, <1>2, <2>2, <2>3, <4>1, <4>2, <4>3
    <3>2. ASSUME NEW m \in (Len(delivered') + 1)..last
          PROVE  \E i \in DOMAIN Waiting' : IsData(Waiting'[i]) /\ Waiting'[i].n = m
      <4>1. m \in (Len(delivered) + 1)..last /\ m # Len(delivered) + 1
        BY <1>1, <1>2, <2>3
      <4>2. PICK i \in DOMAIN Waiting : IsData(Waiting[i]) /\ Waiting[i].n = m
        BY <1>1, <4>1 DEF UpTo
      <4>3. i - 1 \in DOMAIN Waiting' /\ i - 1 + 1 = i
        BY <1>4, <2>2, <4>1, <4>2
      <4>4. Waiting'[i - 1] = Waiting[i]
        BY <1>3, <4>3
      <4>5. QED BY <4>2, <4>3, <4>4
    <3>3. QED BY <3>1, <3>2 DEF UpTo
  <2>6. last \in (Len(delivered)..arrived)'
    BY <1>1, <1>2, <2>1, <2>3
  <2>7. InLine'
    BY <1>1, <1>5, <2>5, <2>6 DEF InLine
  <2>8. QED BY <2>4, <2>7
<1>7. CASE ~IsData(Waiting[1])
  <2>1. delivered' = delivered
    BY <1>7
  <2>2. \A i \in DOMAIN Waiting' : IsData(Waiting'[i]) => Waiting'[i].n \in (Len(delivered) + 1)..last
    BY <1>1, <1>3 DEF UpTo
  <2>3. ASSUME NEW m \in (Len(delivered) + 1)..last
        PROVE  \E i \in DOMAIN Waiting' : IsData(Waiting'[i]) /\ Waiting'[i].n = m
    <3>1. PICK i \in DOMAIN Waiting : IsData(Waiting[i]) /\ Waiting[i].n = m
      BY <1>1, <2>3 DEF UpTo
    <3>2. i - 1 \in DOMAIN Waiting' /\ i - 1 + 1 = i
      BY <1>4, <1>7, <3>1
    <3>3. Waiting'[i - 1] = Waiting[i]
      BY <1>3, <3>2
    <3>4. QED BY <3>1, <3>2, <3>3
  <2>4. UpTo(last)'
    BY <2>1, <2>2, <2>3 DEF UpTo
  <2>5. last \in (Len(delivered)..arrived)' /\ (hooks' = "all" => last = arrived')
    BY <1>1, <2>1
  <2>6. InLine'
    BY <1>5, <2>4, <2>5 DEF InLine
  <2>7. DataInOrder'
    BY <2>1 DEF DataInOrder
  <2>8. QED BY <2>6, <2>7
<1>8. QED BY <1>6, <1>7

\* The lwIP thread sends the segments in order.
LEMMA LineLwip ==
  ASSUME Types, Types', Control, Line, Lwip
  PROVE  Line'
<1> USE DEF lwipVars, memberVars, countVars, histVars
<1>1. Posting /\ arrived \in Nat
  BY SizeAssumption DEF Types, Members
<1>2. UNCHANGED delivered /\ arrived' >= arrived
  <2>1. UNCHANGED delivered
    BY DEF Lwip, Unblock, Accept, Connected, Receive, Fin, Sent, Poll, Reset, Free
  <2>2. arrived' >= arrived
    BY <1>1 DEF Lwip, Unblock, Accept, Connected, Receive, Fin, Sent, Poll, Reset, Free
  <2>3. QED BY <2>1, <2>2
<1>3. DataInOrder'
  BY <1>2 DEF Line, DataInOrder
<1>4. CASE Unblock
  <2>1. UNCHANGED Waiting
    <3>1. lwip \in Events
      BY <1>1, <1>4 DEF Unblock, Posting
    <3>2. QED BY <1>4, <3>1, EventRecord DEF Unblock, Waiting
  <2>2. UNCHANGED <<hooks, arrived>>
    BY <1>4 DEF Unblock
  <2>3. QED BY <1>2, <1>3, <2>1, <2>2, LineKept DEF Line
<1>5. CASE Accept \/ Connected
  <2>1. UNCHANGED <<queue, lwip>> /\ pcb \in {"none", "syn"} /\ UNCHANGED arrived
    BY <1>5 DEF Accept, Connected
  <2>2. UNCHANGED Waiting /\ Waiting = <<>> /\ arrived = 0 /\ delivered = <<>>
    BY <2>1 DEF Waiting, Control, NotYet
  <2>3. InLine'
    BY <1>2, <2>1, <2>2, LineStarts DEF InLine, UpTo, Waiting
  <2>4. QED BY <1>3, <2>3 DEF Line
<1>6. ASSUME UNCHANGED <<queue, lwip>>, UNCHANGED hooks, hooks = "all" => UNCHANGED arrived
      PROVE  Line'
  <2>1. UNCHANGED Waiting
    BY <1>6 DEF Waiting
  <2>2. QED BY <1>2, <1>3, <1>6, <2>1, LineKept DEF Line
<1>7. ASSUME NEW type \in {"RECV", "FIN", "SENT", "POLL", "ERROR"}, NEW n \in Nat,
             lwip = Run, Post(Event(type, n)), UNCHANGED hooks,
             IF type = "RECV" THEN n = arrived + 1 /\ arrived' = arrived + 1 /\ Called
                              ELSE UNCHANGED arrived
      PROVE  Line'
  <2> DEFINE e == Event(type, n)
  <2>1. e \in Events
    BY DEF Event, Events
  <2>2. Waiting' = Append(Waiting, e)
    BY <1>1, <1>7, <2>1, Posted
  <2>3. /\ IsData(e) => type = "RECV" /\ hooks # "noarg"
        /\ ~IsData(e) => type # "RECV" \/ hooks = "noarg"
        /\ e.n = n
    BY DEF IsData, Event
  <2>4. \/ ~IsData(e) /\ arrived' >= arrived /\ (hooks = "all" => arrived' = arrived)
        \/ IsData(e) /\ hooks = "all" /\ arrived' = arrived + 1 /\ e.n = arrived'
    BY <1>2, <1>7, <2>3 DEF Called
  <2>5. InLine'
    BY <1>2, <1>7, <2>1, <2>2, <2>4, LinePosted DEF Line
  <2>6. QED BY <1>3, <2>5 DEF Line
<1>8. CASE Receive
  BY <1>1, <1>6, <1>7, <1>8 DEF Receive, Called
<1>9. CASE Fin
  BY <1>6, <1>7, <1>9 DEF Fin
<1>10. CASE Sent
  BY <1>6, <1>7, <1>10 DEF Sent
<1>11. CASE Poll
  BY <1>6, <1>7, <1>11 DEF Poll
<1>12. CASE Reset
  BY <1>6, <1>7, <1>12 DEF Reset
<1>13. CASE Free
  BY <1>6, <1>13 DEF Free
<1>14. QED BY <1>4, <1>5, <1>8, <1>9, <1>10, <1>11, <1>12, <1>13, Zenon DEF Lwip

\* Steps that leave the events and the data alone.
LEMMA LineFrame ==
  ASSUME Types, Types', Line, UNCHANGED <<queue, lwip, delivered, arrived>>, hooks' = "all" => hooks = "all"
  PROVE  Line'
<1>1. UNCHANGED Waiting
  BY DEF Waiting
<1>2. arrived' >= arrived
  BY SizeAssumption DEF Types, Members
<1>3. InLine'
  BY <1>1, <1>2, LineKept DEF Line
<1>4. QED BY <1>3 DEF Line, DataInOrder

\* These are all steps but those of the lwIP thread and of the service task.
LEMMA LineThread ==
  ASSUME Types, Types', Control, Line, App \/ Silence \/ AckOverdue \/ \E t \in Thread : ServeApi(t) \/ Steps(t)
  PROVE  Line'
<1> USE DEF lwipVars, memberVars, countVars, histVars
<1>1. CASE App \/ Silence \/ AckOverdue
  BY <1>1, LineFrame DEF App, Connect, Write, Close, Request, CloseNow, Ack, Silence, AckOverdue
<1>2. ASSUME NEW t \in Thread, ServeApi(t)
      PROVE  Line'
  <2>1. ~OnFreed(t)
    BY DEF OnFreed, Halt, Types
  <2>2. CASE ServeAbort(t)
    <3>1. hooks = "none"
      BY <2>2 DEF ServeAbort, Serve, LetGo, At, Control, Unhooking
    <3>2. QED BY <2>2, <3>1, LineFrame DEF ServeAbort
  <2>3. CASE ~ServeAbort(t)
    <3>1. UNCHANGED <<queue, lwip, delivered, arrived>> /\ (hooks' = "all" => hooks = "all")
      BY <1>2, <2>1, <2>3 DEF ServeApi, ServeConnect, ServeRecved, ServeWrite, ServeOutput, ServeClose
    <3>2. QED BY <3>1, LineFrame
  <2>4. QED BY <2>2, <2>3
<1>3. ASSUME NEW t \in Thread, Steps(t)
      PROVE  Line'
  <2>1. ~OnNull(t)
    BY DEF OnNull, Halt, Types
  <2>2. UNCHANGED <<queue, lwip, delivered, arrived>> /\ (hooks' = "all" => hooks = "all")
    BY <1>3, <2>1 DEF Steps, SendNow, StartClose, Unhook, Unhooked, Abort, Discard, Acked, Store
  <2>3. QED BY <2>2, LineFrame
<1>4. QED BY <1>1, <1>2, <1>3

\* The service task delivers the first segment.
LEMMA LineTask ==
  ASSUME Types, Types', Line, ServiceTask
  PROVE  Line'
<1> USE DEF memberVars, countVars, histVars
<1> DEFINE e == Head(queue)
<1>1. ~Halt("null")
  BY DEF Halt, Types
<1>2. /\ e.client /\ UNCHANGED lwip
      /\ OnRecv(e) \/ OnFin(e) \/ OnSent(e) \/ OnPoll(e) \/ OnError(e)
  BY <1>1, TaskGoes
<1>3. UNCHANGED <<hooks, arrived>> /\ queue # <<>> /\ queue' = Tail(queue) /\ Posting
  BY DEF ServiceTask, Types
<1>4. Waiting # <<>> /\ e = Waiting[1] /\ Waiting' = Tail(Waiting)
  BY <1>2, <1>3, Taken
<1>5. delivered' = IF IsData(Waiting[1]) THEN Append(delivered, Waiting[1].n) ELSE delivered
  BY <1>2, <1>4 DEF OnRecv, OnFin, OnSent, OnPoll, OnError, IsData
<1>6. InLine' /\ DataInOrder'
  BY <1>3, <1>4, <1>5, LineTaken DEF Line
<1>7. QED BY <1>6 DEF Line

-----------------------------------------------------------------------------
(* The receive window.                                                     *)

\* The segments in a sequence of events are finitely many.
LEMMA Finite ==
  ASSUME NEW s \in Seq(Events)
  PROVE  IsFiniteSet(SegmentsIn(s)) /\ Cardinality(SegmentsIn(s)) \in Nat
<1>1. DOMAIN s = 1..Len(s) /\ Len(s) \in Nat
  BY LenProperties
<1>2. IsFiniteSet(DOMAIN s)
  BY <1>1, FS_Interval
<1>3. IsFiniteSet(SegmentsIn(s))
  BY <1>2, FS_Subset DEF SegmentsIn
<1>4. QED BY <1>3, FS_CardinalityType

\* One event more is a segment more, or none.
LEMMA OneMore ==
  ASSUME NEW s \in Seq(Events), NEW e \in Events
  PROVE  Cardinality(SegmentsIn(Append(s, e))) = Cardinality(SegmentsIn(s)) + (IF Segment(e) THEN 1 ELSE 0)
<1> DEFINE r == Append(s, e)
<1>1. /\ DOMAIN s = 1..Len(s) /\ Len(s) \in Nat
      /\ r \in Seq(Events) /\ DOMAIN r = 1..(Len(s) + 1) /\ r[Len(s) + 1] = e
      /\ \A i \in 1..Len(s) : r[i] = s[i]
  BY AppendProperties, LenProperties
<1>2. /\ \A i \in 1..(Len(s) + 1) : i \in 1..Len(s) \/ i = Len(s) + 1
      /\ \A i \in 1..Len(s) : i \in 1..(Len(s) + 1)
      /\ Len(s) + 1 \in 1..(Len(s) + 1) /\ Len(s) + 1 \notin 1..Len(s)
  BY <1>1
<1> HIDE DEF r
<1>3. IsFiniteSet(SegmentsIn(s)) /\ Cardinality(SegmentsIn(s)) \in Nat
  BY Finite
<1>4. CASE Segment(e)
  <2>1. SegmentsIn(r) = SegmentsIn(s) \cup {Len(s) + 1} /\ Len(s) + 1 \notin SegmentsIn(s)
    BY <1>1, <1>2, <1>4 DEF SegmentsIn
  <2>2. Cardinality(SegmentsIn(r)) = Cardinality(SegmentsIn(s)) + 1
    BY <1>3, <2>1, FS_AddElement
  <2>3. QED BY <1>4, <2>2 DEF r
<1>5. CASE ~Segment(e)
  <2>1. SegmentsIn(r) = SegmentsIn(s)
    BY <1>1, <1>2, <1>5 DEF SegmentsIn
  <2>2. QED BY <1>3, <1>5, <2>1 DEF r
<1>6. QED BY <1>4, <1>5

\* Without its first event a sequence has one segment less, or as many.
LEMMA OneLess ==
  ASSUME NEW s \in Seq(Events), s # <<>>
  PROVE  Cardinality(SegmentsIn(Tail(s))) + (IF Segment(s[1]) THEN 1 ELSE 0) >= Cardinality(SegmentsIn(s))
<1> DEFINE r == Tail(s)
           A == SegmentsIn(s) \ {1}
           f == [i \in A |-> i - 1]
<1>1. /\ DOMAIN s = 1..Len(s) /\ Len(s) \in Nat \ {0}
      /\ r \in Seq(Events) /\ DOMAIN r = 1..(Len(s) - 1)
      /\ \A i \in 1..(Len(s) - 1) : r[i] = s[i + 1]
  BY HeadTailProperties, LenProperties, EmptySeq
<1> HIDE DEF r
<1>2. /\ IsFiniteSet(SegmentsIn(s)) /\ Cardinality(SegmentsIn(s)) \in Nat
      /\ IsFiniteSet(SegmentsIn(r)) /\ Cardinality(SegmentsIn(r)) \in Nat
  BY <1>1, Finite
<1>3. ASSUME NEW i \in A
      PROVE  i \in Int /\ i - 1 \in 1..(Len(s) - 1) /\ i - 1 \in SegmentsIn(r)
  <2>1. i \in 1..Len(s) /\ i # 1 /\ Segment(s[i])
    BY <1>1 DEF SegmentsIn
  <2>2. i \in Int /\ i - 1 \in 1..(Len(s) - 1) /\ (i - 1) + 1 = i
    BY <1>1, <2>1
  <2>3. r[i - 1] = s[i]
    BY <1>1, <2>2
  <2>4. QED BY <1>1, <2>1, <2>2, <2>3 DEF SegmentsIn
<1>4. f \in Injection(A, SegmentsIn(r))
  <2>1. f \in [A -> SegmentsIn(r)]
    BY <1>3
  <2>2. \A i, j \in A : f[i] = f[j] => i = j
    BY <1>3
  <2>3. QED BY <2>1, <2>2 DEF Injection, IsInjective
<1>5. IsFiniteSet(A)
  BY <1>2, FS_Subset
<1>6. Cardinality(A) <= Cardinality(SegmentsIn(r)) /\ Cardinality(A) \in Nat
  BY <1>2, <1>4, <1>5, FS_Injection, FS_CardinalityType DEF ExistsInjection
<1>7. CASE Segment(s[1])
  <2>1. 1 \in SegmentsIn(s)
    BY <1>1, <1>7 DEF SegmentsIn
  <2>2. Cardinality(A) = Cardinality(SegmentsIn(s)) - 1
    BY <1>2, <2>1, FS_RemoveElement
  <2> HIDE DEF A
  <2>3. Cardinality(SegmentsIn(r)) + 1 >= Cardinality(SegmentsIn(s))
    BY <1>2, <1>6, <2>2
  <2>4. QED BY <1>7, <2>3 DEF r
<1>8. CASE ~Segment(s[1])
  <2>1. A = SegmentsIn(s)
    BY <1>8 DEF SegmentsIn
  <2> HIDE DEF A
  <2>2. Cardinality(SegmentsIn(r)) + 0 >= Cardinality(SegmentsIn(s))
    BY <1>2, <1>6, <2>1
  <2>3. QED BY <1>8, <2>2 DEF r
<1>9. QED BY <1>7, <1>8

\* Sums that a step does not make too small.
LEMMA SumsGrow ==
  ASSUME NEW c \in Nat, NEW h \in Nat, NEW c2 \in Nat, NEW h2 \in Nat, NEW a \in Nat,
         c2 >= c, h2 >= h
  PROVE  c2 + h2 + a >= c + h + a
OBVIOUS
LEMMA SumsLarge ==
  ASSUME NEW c \in Nat, NEW m \in Nat
  PROVE  c + m + 0 >= c
OBVIOUS
LEMMA SumsTaken ==
  ASSUME NEW c \in Nat, NEW m \in Nat, NEW h \in Nat, NEW a \in Nat,
         NEW m2 \in Nat, NEW h2 \in Nat, NEW one \in Nat,
         h = 0, h2 >= one, m2 + one >= m, c + m + h >= a
  PROVE  c + m2 + h2 >= a
OBVIOUS

\* The numbers of the balance.
LEMMA BalanceType ==
  ASSUME Types
  PROVE  /\ credit \in Nat /\ arrived \in Nat /\ credit <= arrived
         /\ Cardinality(SegmentsIn(Waiting)) \in Nat /\ Hands(pc["svc"]) \in {0, 1}
<1>1. Cardinality(SegmentsIn(Waiting)) \in Nat
  BY WaitingType, Finite
<1>2. credit \in Nat /\ arrived \in Nat /\ credit <= arrived
  BY SizeAssumption DEF Types, Members
<1>3. QED BY <1>1, <1>2 DEF Hands

\* Steps of any thread that leave the events alone.
LEMMA BalanceFrame ==
  ASSUME Types, Types', Balance, UNCHANGED <<queue, lwip, ops>>,
         credit' + Hands(pc["svc"])' + arrived >= credit + Hands(pc["svc"]) + arrived' \/ "later" \in ops
  PROVE  Balance'
<1>1. UNCHANGED Waiting
  BY DEF Waiting
<1> DEFINE c == credit  n == Cardinality(SegmentsIn(Waiting))  h == Hands(pc["svc"])  a == arrived
           c2 == credit'  n2 == Cardinality(SegmentsIn(Waiting))'  h2 == Hands(pc["svc"])'  a2 == arrived'
<1>2. c \in Nat /\ n \in Nat /\ h \in Nat /\ a \in Nat
  BY BalanceType
<1>3. c2 \in Nat /\ n2 = n /\ h2 \in Nat /\ a2 \in Nat
  <2>1. (credit \in Nat /\ arrived \in Nat /\ credit <= arrived
         /\ Cardinality(SegmentsIn(Waiting)) \in Nat /\ Hands(pc["svc"]) \in {0, 1})'
    BY BalanceType, PTL
  <2>2. QED BY <1>1, <2>1
<1>4. SUFFICES ASSUME "later" \notin ops PROVE c2 + n2 + h2 >= a2
  BY DEF Balance
<1>5. c + n + h >= a /\ c2 + h2 + a >= c + h + a2
  BY <1>4 DEF Balance
<1> HIDE DEF c, n, h, a, c2, n2, h2, a2
<1>6. c2 + n + h2 >= a2
  BY <1>2, <1>3, <1>5
<1>7. QED BY <1>3, <1>6

\* The lwIP thread hands a segment over, or acknowledges it itself.
LEMMA BalanceLwip ==
  ASSUME Types, Types', Balance, Lwip
  PROVE  Balance'
<1> USE DEF lwipVars, memberVars, countVars, histVars
<1>1. Posting /\ UNCHANGED <<ops, pc>> /\ Hands(pc["svc"])' = Hands(pc["svc"])
  BY DEF Types, Hands, Taking, Lwip, Unblock, Accept, Connected, Receive, Fin, Sent, Poll, Reset, Free
<1>2. /\ credit \in Nat /\ arrived \in Nat /\ credit <= arrived
      /\ Cardinality(SegmentsIn(Waiting)) \in Nat /\ Hands(pc["svc"]) \in {0, 1}
  BY BalanceType
<1>3. ASSUME UNCHANGED <<queue, lwip>>,
             UNCHANGED <<credit, arrived>> \/ (credit' = credit + 1 /\ arrived' = arrived + 1)
      PROVE  Balance'
  <2>1. credit' + Hands(pc["svc"])' + arrived >= credit + Hands(pc["svc"]) + arrived'
    BY <1>1, <1>2, <1>3
  <2>2. QED BY <1>1, <1>3, <2>1, BalanceFrame
<1>4. ASSUME NEW type \in {"RECV", "FIN", "SENT", "POLL", "ERROR"}, NEW n \in Nat,
             lwip = Run, Post(Event(type, n)), UNCHANGED credit,
             IF type = "RECV" THEN arrived' = arrived + 1 ELSE UNCHANGED arrived
      PROVE  Balance'
  <2> DEFINE e == Event(type, n)  one == IF Segment(e) THEN 1 ELSE 0
  <2>1. e \in Events /\ (Segment(e) <=> type = "RECV")
    BY DEF Event, Events, Segment
  <2>2. Waiting' = Append(Waiting, e)
    BY <1>1, <1>4, <2>1, Posted
  <2>3. Cardinality(SegmentsIn(Waiting')) = Cardinality(SegmentsIn(Waiting)) + one
    BY <2>1, <2>2, WaitingType, OneMore
  <2>4. arrived' = arrived + one /\ one \in {0, 1}
    BY <1>2, <1>4, <2>1
  <2>5. Cardinality(SegmentsIn(Waiting))' = Cardinality(SegmentsIn(Waiting'))
    BY DEF SegmentsIn
  <2> DEFINE c == credit  m == Cardinality(SegmentsIn(Waiting))  h == Hands(pc["svc"])  a == arrived
  <2>6. SUFFICES ASSUME "later" \notin ops PROVE c' + m' + h' >= a'
    BY <1>1 DEF Balance
  <2>7. c + m + h >= a
    BY <2>6 DEF Balance
  <2>8. c' = c /\ m' = m + one /\ h' = h /\ a' = a + one
    BY <1>1, <1>4, <2>3, <2>4, <2>5
  <2>9. c \in Nat /\ m \in Nat /\ h \in Nat /\ a \in Nat /\ one \in Nat
    BY <1>2, <2>4
  <2> HIDE DEF c, m, h, a, one
  <2>10. c + (m + one) + h >= a + one
    BY <2>7, <2>9
  <2>11. QED BY <2>8, <2>10
<1>5. CASE Unblock
  <2>1. UNCHANGED Waiting
    <3>1. lwip \in Events
      BY <1>1, <1>5 DEF Unblock, Posting
    <3>2. QED BY <1>5, <3>1, EventRecord DEF Unblock, Waiting
  <2>2. UNCHANGED <<credit, arrived>>
    BY <1>5 DEF Unblock
  <2>3. QED BY <1>1, <2>1, <2>2 DEF Balance
<1>6. CASE Accept \/ Connected \/ Free
  BY <1>3, <1>6 DEF Accept, Connected, Free
<1>7. CASE Receive
  <2>1. arrived' \in Nat
    BY <1>2, <1>7 DEF Receive
  <2>2. QED BY <1>3, <1>4, <1>7, <2>1 DEF Receive
<1>8. CASE Fin
  BY <1>3, <1>4, <1>8 DEF Fin
<1>9. CASE Sent
  BY <1>3, <1>4, <1>9 DEF Sent
<1>10. CASE Poll
  BY <1>3, <1>4, <1>10 DEF Poll
<1>11. CASE Reset
  BY <1>3, <1>4, <1>11 DEF Reset
<1>12. QED BY <1>5, <1>6, <1>7, <1>8, <1>9, <1>10, <1>11, Zenon DEF Lwip

\* What the service task has in hand stays there until it is acknowledged.
LEMMA BalanceThread ==
  ASSUME Types, Types', Control, Balance,
         App \/ Silence \/ AckOverdue \/ \E t \in Thread : ServeApi(t) \/ Steps(t)
  PROVE  Balance'
<1> USE DEF lwipVars, memberVars, countVars, histVars
<1>1. /\ pc \in [Thread -> Place] /\ \A t \in Thread : pc[t] \in Place /\ Resumes(t, pc[t])
  BY DEF Types, Placing
<1>2. /\ credit \in Nat /\ arrived \in Nat /\ credit <= arrived /\ Hands(pc["svc"]) \in {0, 1}
      /\ Hands(pc["svc"])' \in {0, 1}
  BY BalanceType DEF Hands
<1>3. ASSUME UNCHANGED <<queue, lwip, ops, arrived>>, credit' \in Nat, credit' >= credit,
             "later" \notin ops /\ Taking(pc["svc"]) => Taking(pc'["svc"])
      PROVE  Balance'
  <2>1. "later" \in ops \/ credit' + Hands(pc["svc"])' + arrived >= credit + Hands(pc["svc"]) + arrived'
    <3>1. SUFFICES ASSUME "later" \notin ops
                   PROVE  credit' + Hands(pc["svc"])' + arrived >= credit + Hands(pc["svc"]) + arrived
      BY <1>3
    <3>2. Hands(pc["svc"])' >= Hands(pc["svc"])
      BY <1>3, <3>1 DEF Hands, Taking
    <3> DEFINE h == Hands(pc["svc"])
    <3>3. h \in Nat /\ h' \in Nat /\ h' >= h
      BY <1>2, <3>2
    <3> HIDE DEF h
    <3>4. credit' + h' + arrived >= credit + h + arrived
      BY <1>2, <1>3, <3>3, SumsGrow
    <3>5. QED BY <3>4 DEF h
  <2>2. QED BY <1>3, <2>1, BalanceFrame
<1>4. ASSUME UNCHANGED pc["svc"], UNCHANGED <<queue, lwip, ops, arrived, credit>>
      PROVE  Balance'
  BY <1>2, <1>3, <1>4
<1>5. CASE App
  <2>1. UNCHANGED pc["svc"]
    BY <1>1, <1>5 DEF App, Connect, Write, Close, Request, CloseNow, Ack, Goto, Thread
  <2>2. UNCHANGED <<queue, lwip, ops, arrived, credit>>
    BY <1>5 DEF App, Connect, Write, Close, Request, CloseNow, Ack
  <2>3. QED BY <1>4, <2>1, <2>2
<1>6. CASE Silence \/ AckOverdue
  BY <1>4, <1>6 DEF Silence, AckOverdue
<1>7. ASSUME NEW t \in Thread, ServeApi(t)
      PROVE  Balance'
  <2>1. ~OnFreed(t)
    BY DEF OnFreed, Halt, Types
  <2>2. CASE ServeRecved(t)
    <3>1. /\ At(pc[t], "recved") /\ Goto(t, pc[t].then) /\ pc[t].n \in Nat
          /\ UNCHANGED <<queue, lwip, ops, arrived>>
          /\ credit' = IF credit + pc[t].n > arrived THEN arrived ELSE credit + pc[t].n
      BY <1>1, <2>2, PlaceTyped, ChoiceAssumption DEF ServeRecved, Serve, At
    <3>2. credit' \in Nat /\ credit' >= credit
      BY <1>2, <3>1
    <3>3. CASE t = "loop"
      <4>1. UNCHANGED pc["svc"]
        BY <1>1, <3>1, <3>3 DEF Goto, Thread
      <4>2. QED BY <1>3, <3>1, <3>2, <4>1
    <3>4. CASE t = "svc"
      <4>1. pc'["svc"] = pc["svc"].then
        BY <1>1, <3>1, <3>4 DEF Goto, Thread
      <4>2. CASE pc["svc"].then.at = "acked"
        BY <1>3, <3>1, <3>2, <4>1, <4>2 DEF Taking
      <4>3. CASE pc["svc"].n = 1 /\ pc["svc"].then = Idle
        <5>1. Hands(pc["svc"]) = 1 /\ Hands(pc["svc"])' = 0
          BY <3>1, <3>4, <4>1, <4>3 DEF Hands, Taking, At, Idle
        <5>2. CASE credit' = credit + 1
          <6>1. credit' + Hands(pc["svc"])' + arrived >= credit + Hands(pc["svc"]) + arrived'
            BY <1>2, <3>1, <5>1, <5>2
          <6>2. QED BY <3>1, <6>1, BalanceFrame
        <5>3. CASE credit' = arrived
          <6> DEFINE m == Cardinality(SegmentsIn(Waiting))
          <6>1. (Cardinality(SegmentsIn(Waiting)) \in Nat)'
            BY BalanceType, PTL
          <6>2. m' \in Nat /\ arrived' = arrived
            BY <3>1, <6>1
          <6> HIDE DEF m
          <6>3. arrived + m' + 0 >= arrived
            BY <1>2, <6>2, SumsLarge
          <6>4. QED BY <5>1, <5>3, <6>2, <6>3 DEF Balance, m
        <5>4. QED BY <3>1, <3>4, <4>3, <5>2, <5>3
      <4>4. QED BY <1>1, <3>1, <3>4, <4>2, <4>3 DEF Resumes
    <3>5. QED BY <3>3, <3>4 DEF Thread
  <2>3. CASE ~ServeRecved(t)
    <3>1. /\ ~At(pc[t], "recved") /\ pc[t].at = "api"
      BY <1>7, <2>1, <2>3
      DEF ServeApi, ServeConnect, ServeWrite, ServeOutput, ServeClose, ServeAbort, Serve, At
    <3>2. UNCHANGED <<ops, arrived, credit>> /\ \E step : Goto(t, step)
      BY <1>7, <2>1, <2>3 DEF ServeApi, ServeConnect, ServeWrite, ServeOutput, ServeClose, ServeAbort
    <3>3. UNCHANGED <<queue, lwip>>
      <4>1. CASE ServeAbort(t)
        <5>1. hooks = "none"
          BY <4>1 DEF ServeAbort, Serve, LetGo, At, Control, Unhooking
        <5>2. QED BY <4>1, <5>1 DEF ServeAbort
      <4>2. CASE ~ServeAbort(t)
        BY <1>7, <2>1, <2>3, <4>2 DEF ServeApi, ServeConnect, ServeWrite, ServeOutput, ServeClose
      <4>3. QED BY <4>1, <4>2
    <3>4. Taking(pc["svc"]) => UNCHANGED pc["svc"]
      BY <1>1, <3>1, <3>2 DEF Taking, At, Goto, Thread
    <3>5. QED BY <1>2, <1>3, <3>2, <3>3, <3>4
  <2>4. QED BY <2>2, <2>3
<1>8. ASSUME NEW t \in Thread, Steps(t)
      PROVE  Balance'
  <2>1. ~OnNull(t)
    BY DEF OnNull, Halt, Types
  <2>2. UNCHANGED <<queue, lwip, ops, arrived, credit>>
    BY <1>8, <2>1 DEF Steps, SendNow, StartClose, Unhook, Unhooked, Abort, Discard, Acked, Store
  <2>3. "later" \notin ops /\ Taking(pc["svc"]) => Taking(pc'["svc"])
    <3>1. SUFFICES ASSUME "later" \notin ops, Taking(pc["svc"]) PROVE Taking(pc'["svc"])
      OBVIOUS
    <3>2. CASE t = "loop"
      <4>1. UNCHANGED pc["svc"]
        BY <1>1, <1>8, <2>1, <3>2
        DEF Steps, SendNow, StartClose, Unhook, Unhooked, Abort, Discard, Acked, Store, Goto, Thread
      <4>2. QED BY <3>1, <4>1
    <3>3. CASE t = "svc" /\ Acked(t)
      <4>1. pc'["svc"].at = "store"
        BY <1>1, <3>3 DEF Acked, Goto, Thread
      <4>2. QED BY <4>1 DEF Taking
    <3>4. CASE t = "svc" /\ Store(t)
      <4>1. pc["svc"].at = "store" /\ pc'["svc"] = pc["svc"].then
        BY <1>1, <3>4 DEF Store, Goto, Thread
      <4>2. pc["svc"].then = Owed
        BY <1>1, <3>1, <4>1 DEF Resumes, Thread
      <4>3. QED BY <4>1, <4>2 DEF Taking, Owed, Api
    <3>5. CASE t = "svc" /\ ~Acked(t) /\ ~Store(t)
      BY <1>8, <2>1, <3>1, <3>5
      DEF Steps, SendNow, StartClose, Unhook, Unhooked, Abort, Discard, Taking
    <3>6. QED BY <3>2, <3>3, <3>4, <3>5 DEF Thread
  <2>4. QED BY <1>2, <1>3, <2>2, <2>3
<1>9. QED BY <1>5, <1>6, <1>7, <1>8

\* A segment that the service task takes is in its hands.
LEMMA BalanceTask ==
  ASSUME Types, Types', Balance, ServiceTask
  PROVE  Balance'
<1> DEFINE e == Head(queue)
<1>1. ~Halt("null")
  BY DEF Halt, Types
<1>2. UNCHANGED lwip /\ (OnRecv(e) \/ OnFin(e) \/ OnSent(e) \/ OnPoll(e) \/ OnError(e))
  BY <1>1, TaskGoes
<1>3. /\ UNCHANGED <<ops, credit, arrived>> /\ queue # <<>> /\ queue' = Tail(queue) /\ Posting
      /\ pc["svc"] = Idle /\ pc \in [Thread -> Place]
  BY DEF ServiceTask, Types, Placing
<1>4. Waiting \in Seq(Events) /\ Waiting # <<>> /\ e = Waiting[1] /\ Waiting' = Tail(Waiting)
  BY <1>2, <1>3, Taken
<1>5. PICK step \in Place : Goto("svc", step) /\ (OnRecv(e) /\ "later" \notin ops => Taking(step))
  BY <1>1, TaskGoes
<1>6. Segment(Waiting[1]) => OnRecv(e)
  BY <1>2, <1>4 DEF OnFin, OnSent, OnPoll, OnError, Segment
<1>7. SUFFICES ASSUME "later" \notin ops PROVE Balance'
  BY <1>3 DEF Balance
<1>8. pc'["svc"] = step
  BY <1>3, <1>5 DEF Goto, Thread
<1> DEFINE c == credit  m == Cardinality(SegmentsIn(Waiting))  h == Hands(pc["svc"])  a == arrived
           one == IF Segment(Waiting[1]) THEN 1 ELSE 0
<1>9. h = 0 /\ h' \in {0, 1} /\ h' >= one /\ one \in {0, 1}
  BY <1>3, <1>5, <1>6, <1>7, <1>8 DEF Hands, Taking, Idle
<1>10. m' + one >= m
  <2>1. Cardinality(SegmentsIn(Tail(Waiting))) + one >= Cardinality(SegmentsIn(Waiting))
    BY <1>4, OneLess
  <2>2. m' = Cardinality(SegmentsIn(Tail(Waiting)))
    BY <1>4 DEF SegmentsIn
  <2>3. QED BY <2>1, <2>2
<1>11. c + m + h >= a
  BY <1>7 DEF Balance
<1>12. c \in Nat /\ m \in Nat /\ a \in Nat /\ m' \in Nat
  <2>1. c \in Nat /\ m \in Nat /\ a \in Nat
    BY BalanceType
  <2>2. (Cardinality(SegmentsIn(Waiting)) \in Nat)'
    BY BalanceType, PTL
  <2>3. QED BY <2>1, <2>2
<1>13. c' = c /\ a' = a
  BY <1>3
<1>14. SUFFICES c' + m' + h' >= a'
  BY DEF Balance
<1> HIDE DEF c, m, h, a, one
<1>15. c + m' + h' >= a
  <2>1. h \in Nat /\ h' \in Nat /\ one \in Nat
    BY <1>9
  <2>2. QED BY <1>9, <1>10, <1>11, <1>12, <2>1, SumsTaken
<1>16. QED BY <1>13, <1>15

-----------------------------------------------------------------------------
(* The invariant.                                                          *)

\* What is on its way, counted as the property counts it.
LEMMA WindowAdds ==
  ASSUME Types, Balance
  PROVE  WindowKept
<1> DEFINE m == Cardinality(SegmentsIn(Waiting))  h == Hands(pc["svc"])
           q == Cardinality({i \in DOMAIN queue : Segment(queue[i])})
           one == IF Segment(lwip) THEN 1 ELSE 0
<1>1. queue \in Seq(Events) /\ lwip \in Events \cup {Run} /\ ~Segment(Run)
  BY DEF Types, Posting, Run, Segment
<1>2. q = Cardinality(SegmentsIn(queue))
  BY DEF SegmentsIn
<1>3. m = q + one /\ q \in Nat
  <2>1. q \in Nat
    BY <1>1, <1>2, Finite
  <2>2. CASE lwip = Run
    BY <1>1, <1>2, <2>1, <2>2 DEF Waiting
  <2>3. CASE lwip # Run
    <3>1. Waiting = Append(queue, lwip) /\ lwip \in Events
      BY <1>1, <2>3 DEF Waiting
    <3>2. m = Cardinality(SegmentsIn(queue)) + one
      BY <1>1, <3>1, OneMore
    <3>3. QED BY <1>2, <2>1, <3>2
  <2>4. QED BY <2>2, <2>3, <2>1
<1>4. h = IF Taking(pc["svc"]) THEN 1 ELSE 0
  BY DEF Hands
<1>5. SUFFICES ASSUME "later" \notin ops PROVE credit + Underway >= arrived
  BY DEF WindowKept
<1>6. Underway = q + one + h
  BY <1>4 DEF Underway
<1>7. credit + m + h >= arrived /\ credit \in Nat /\ arrived \in Nat
  BY <1>5, BalanceType DEF Balance
<1>8. one \in Nat /\ h \in Nat
  BY <1>4
<1> HIDE DEF m, h, q, one
<1>9. credit + (q + one + h) >= arrived
  BY <1>3, <1>7, <1>8
<1>10. QED BY <1>6, <1>9

LEMMA InitLive ==
  ASSUME Init
  PROVE  Live
<1> USE SizeAssumption, BoundAssumption, ChoiceAssumption DEF Init
<1>1. \A t \in Thread : pc[t] = Idle
  OBVIOUS
<1>2. <<>> \in Seq(Events) /\ Len(<<>>) = 0 /\ <<>> \in Seq(1..Segments)
  BY EmptySeq
<1>3. Types
  <2>1. has \in BOOLEAN /\ close_pcb \in BOOLEAN /\ silent \in BOOLEAN /\ late \in BOOLEAN
        /\ met \in BOOLEAN
    BY Zenon
  <2>2. Members
    BY <1>2, <2>1 DEF Members
  <2>3. Posting
    BY <1>2 DEF Posting
  <2>4. Placing
    <3>1. Idle \in Place
      BY DEF Idle, Place, Plain
    <3>2. \A t \in Thread : Resumes(t, pc[t])
      BY <1>1 DEF Resumes, At, Idle
    <3>3. QED BY <3>1, <3>2 DEF Placing
  <2>5. Writing(pc["svc"]) = 0 /\ Writing(pc["loop"]) = 0
    BY <1>1 DEF Writing, At, Idle, Thread
  <2>6. QED BY <2>2, <2>3, <2>4, <2>5 DEF Types
<1>4. Control
  BY <1>1 DEF Control, NotYet, Asked, Unhooking, LetGo, At, Idle, Thread
<1>5. Waiting = <<>> /\ DOMAIN Waiting = {}
  BY DEF Waiting
<1>6. Told
  <2>1. OneEnd
    BY <1>1, <1>5 DEF OneEnd, EndComing
  <2>2. Alone
    BY <1>1 DEF Alone, InClose, LetGo, At, Idle
  <2>3. ToldOnce
    BY DEF ToldOnce
  <2>4. QED BY <2>1, <2>2, <2>3 DEF Told
<1>7. Line
  BY <1>5, LineStarts DEF Line, DataInOrder
<1>8. Balance
  <2>1. Cardinality(SegmentsIn(Waiting)) \in Nat /\ Hands(pc["svc"]) \in {0, 1}
    BY <1>3, BalanceType
  <2>2. QED BY <2>1 DEF Balance
<1>9. QED BY <1>3, <1>4, <1>6, <1>7, <1>8 DEF Live

\* After an access without a defined result nothing moves any more.
LEMMA DeadStays ==
  ASSUME Dead, [Next]_vars
  PROVE  Dead'
<1> USE DEF vars, lwipVars, memberVars, countVars, histVars
<1>1. /\ lwip = Halted /\ fault # "none" /\ \A t \in Thread : pc[t] = [at |-> "halted"]
      /\ Run # Halted
  BY DEF Dead, Run, Halted
<1>2. ~Lwip
  BY <1>1 DEF Lwip, Unblock, Accept, Connected, Receive, Fin, Sent, Poll, Reset, Free
<1>3. \A t \in Thread : ~ServeApi(t)
  BY <1>1 DEF ServeApi, OnFreed, ServeConnect, ServeRecved, ServeWrite, ServeOutput, ServeClose,
              ServeAbort, Serve
<1>4. ~ServiceTask /\ ~App
  BY <1>1 DEF ServiceTask, App, Connect, Write, Close, Request, CloseNow, Ack, Usable, Idle, Thread
<1>5. \A t \in Thread : ~Steps(t)
  BY <1>1 DEF Steps, OnNull, SendNow, StartClose, Unhook, Unhooked, Abort, Discard, Acked, Store
<1>6. ~Silence /\ ~AckOverdue
  BY <1>1 DEF Silence, AckOverdue
<1>7. UNCHANGED vars
  BY <1>2, <1>3, <1>4, <1>5, <1>6, Zenon DEF Next
<1>8. QED BY <1>7 DEF Dead, TypeOK, DataInOrder, ToldOnce

\* Every step of a running program keeps it right or halts it.
LEMMA LiveStep ==
  ASSUME Live, [Next]_vars
  PROVE  Live' \/ Dead'
<1> USE DEF Live
<1> DataInOrder /\ ToldOnce /\ InLine
  BY DEF Line, Told
<1>1. CASE Lwip
  BY <1>1, TypesLwip, ControlLwip, ToldLwip, LineLwip, BalanceLwip
<1>2. CASE ServiceTask
  <2>1. Types' \/ Dead'
    BY <1>2, TypesTask
  <2>2. ASSUME Types' PROVE Control' /\ Told' /\ Line' /\ Balance'
    BY <1>2, <2>2, ControlTask, ToldTask, LineTask, BalanceTask
  <2>3. QED BY <2>1, <2>2
<1>3. CASE App
  BY <1>3, TypesApp, ControlApp, ToldApp, LineThread, BalanceThread
<1>4. CASE Silence \/ AckOverdue
  BY <1>4, TypesTime, ControlTime, ToldApp, LineThread, BalanceThread
<1>5. ASSUME NEW t \in Thread, ServeApi(t)
      PROVE  Live' \/ Dead'
  <2>1. Types' \/ Dead'
    BY <1>5, TypesServe
  <2>2. ASSUME Types' PROVE Control' /\ Told' /\ Line' /\ Balance'
    BY <1>5, <2>2, ControlServe, ToldServe, LineThread, BalanceThread
  <2>3. QED BY <2>1, <2>2
<1>6. ASSUME NEW t \in Thread, Steps(t)
      PROVE  Live' \/ Dead'
  <2>1. Types' \/ Dead'
    BY <1>6, TypesSteps
  <2>2. ASSUME Types' PROVE Control' /\ Told' /\ Line' /\ Balance'
    BY <1>6, <2>2, ControlSteps, ToldSteps, LineThread, BalanceThread
  <2>3. QED BY <2>1, <2>2
<1>7. CASE UNCHANGED vars
  <2> USE <1>7 DEF vars, lwipVars, memberVars, countVars, histVars
  <2>1. Types'
    BY DEF Types, Members, Posting, Placing, Resumes, Writing, At
  <2>2. Control'
    BY DEF Control, NotYet, Asked, Unhooking, LetGo, At
  <2>3. UNCHANGED Waiting
    BY DEF Waiting
  <2>4. Told'
    BY <2>3 DEF Told, OneEnd, EndComing, Alone, InClose, LetGo, At, ToldOnce
  <2>5. Line'
    BY <2>3 DEF Line, InLine, UpTo, DataInOrder
  <2>6. Balance'
    BY <2>3 DEF Balance, Hands, Taking
  <2>7. QED BY <2>1, <2>2, <2>4, <2>5, <2>6
<1>8. QED BY <1>1, <1>2, <1>3, <1>4, <1>5, <1>6, <1>7, Zenon DEF Next

\* The inductive invariant of the client: types, the order in which it is
\* connected, closed and unhooked, the events on their way, and who holds the
\* segments that are not acknowledged (painlessTCP.cpp).
THEOREM ClientCorrect == Spec => []IInv
<1>1. Init => IInv
  BY InitLive DEF IInv
<1>2. IInv /\ [Next]_vars => IInv'
  BY LiveStep, DeadStays DEF IInv
<1>3. QED BY <1>1, <1>2, PTL DEF Spec

\* The variables have their types, _tcp_queue never holds more than it has
\* room for, and a window is never opened further than what has arrived
\* (painlessTCP.cpp).
THEOREM ClientTypes == Spec => []TypeOK
<1>1. IInv => TypeOK
  BY TypesOK DEF IInv, Live, Dead
<1>2. QED BY <1>1, ClientCorrect, PTL

\* The application gets the segments in order and without a gap, for every
\* length of the queue and whichever thread waits for which (_tcp_recv,
\* _tcp_service_task, _recv).
THEOREM ClientInOrder == Spec => []DataInOrder
<1>1. IInv => DataInOrder
  BY DEF IInv, Live, Dead, Line
<1>2. QED BY <1>1, ClientCorrect, PTL

\* The application is told at most once that the connection is over, whatever
\* ends it and however lwIP's calls fail, as long as the two threads have not
\* been in _close at the same time (_close, _error, _poll).
THEOREM ClientToldOnce == Spec => []ToldOnce
<1>1. IInv => ToldOnce
  BY DEF IInv, Live, Dead, Told
<1>2. QED BY <1>1, ClientCorrect, PTL

\* No segment is forgotten by the receive window where nothing uses ackLater,
\* whatever _rx_ack_len holds at the start and however the two threads that
\* change it overlap, for every number of segments and length of the queue
\* (_tcp_recv, _recv, ack, close).
THEOREM ClientWindowKept == Spec => []WindowKept
<1>1. IInv => WindowKept
  BY WindowAdds DEF IInv, Live, Dead, WindowKept
<1>2. QED BY <1>1, ClientCorrect, PTL
=============================================================================
