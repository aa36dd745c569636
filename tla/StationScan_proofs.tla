------------------------- MODULE StationScan_proofs --------------------------
(***************************************************************************)
(* Proofs about the station of a node: its types, that it knows whether it *)
(* has an address, and that its one task is never left asleep.             *)
(*                                                                         *)
(* Whether the station has an address is known but for the events that     *)
(* wait, so the invariant says in which order those wait: behind a         *)
(* DISCONNECTED that is out of date a GOT_IP follows, and the reverse.     *)
(* Whether the task wakes up then follows from what it was told when the   *)
(* station last had an address, a scan or an event to wait for.            *)
(***************************************************************************)
EXTENDS StationScanProps, SeqFilter_proofs

Event == {"SCAN_DONE", "STA_START", "DISCONNECTED", "GOT_IP"}
Conn == [ap : AP, state : {"syn", "up", "member"}, live : BOOLEAN]
Radio == [state : States, ap : AP \cup {None}, config : AP \cup {None}]
Tasks == [callback : Callbacks, enabled : BOOLEAN, delay : Delays]

\* Among the events q there is an e; every e has an f behind it.
In(q, e) == \E i \in DOMAIN q : q[i] = e
Ahead(q, e, f) == \A i \in DOMAIN q : q[i] = e => \E j \in DOMAIN q : i < j /\ q[j] = f

\* The last event that waits agrees with the radio r; and the flag g agrees
\* with it but for the events that wait.
Ordered(r, q) ==
  /\ r.state = "ip" => Ahead(q, "DISCONNECTED", "GOT_IP")
  /\ r.state # "ip" => Ahead(q, "GOT_IP", "DISCONNECTED")
Noted(g, r, q) ==
  /\ g /\ r.state # "ip" => In(q, "DISCONNECTED")
  /\ ~g /\ r.state = "ip" => In(q, "GOT_IP")

\* A station that is associated knows with what.
Linked(r) == Ends(r) => r.ap \in AP

\* The task t sleeps only where something will wake it: it is taken off the
\* scheduler by a manual connection that stands, and told to wait long when
\* there is a scan or a link to hear of.
Woken(t, m, r, sc, q) ==
  /\ ~t.enabled => m /\ (r.state # "idle" \/ In(q, "DISCONNECTED"))
  /\ t.delay = "long" => \/ r.state # "idle" \/ sc # NoScan
                         \/ In(q, "DISCONNECTED") \/ In(q, "SCAN_DONE")

IInv ==
  /\ TypeOK /\ Linked(radio)
  /\ running => /\ radio.state # "off"
                /\ Ordered(radio, events) /\ Noted(gotIp, radio, events)
                /\ Woken(task, manual, radio, scan, events)

-----------------------------------------------------------------------------
(* Sequences of events and of connections.                                 *)

\* One event more at the end.
LEMMA Raised ==
  ASSUME NEW q \in Seq(Event), NEW x \in Event
  PROVE  /\ Append(q, x) \in Seq(Event)
         /\ \A e : In(Append(q, x), e) <=> In(q, e) \/ x = e
         /\ \A e, f : e # x /\ Ahead(q, e, f) => Ahead(Append(q, x), e, f)
         /\ \A e : e # x => Ahead(Append(q, x), e, x)
<1> DEFINE a == Append(q, x)
<1>1. /\ a \in Seq(Event) /\ Len(q) \in Nat /\ Len(a) = Len(q) + 1
      /\ \A i \in 1..Len(q) : a[i] = q[i]
      /\ a[Len(q) + 1] = x
  BY AppendProperties, LenProperties
<1>2. DOMAIN a = 1..(Len(q) + 1) /\ DOMAIN q = 1..Len(q)
  BY <1>1, LenProperties
<1> HIDE DEF a
<1>3. \A e : In(a, e) <=> In(q, e) \/ x = e
  BY <1>1, <1>2 DEF In
<1>4. \A i \in DOMAIN a : i \in DOMAIN q \/ i = Len(q) + 1
  BY <1>1, <1>2
<1>5. ASSUME NEW e, NEW f, e # x, Ahead(q, e, f) PROVE Ahead(a, e, f)
  <2>1. ASSUME NEW i \in DOMAIN a, a[i] = e PROVE \E j \in DOMAIN a : i < j /\ a[j] = f
    <3>1. i \in DOMAIN q /\ q[i] = e
      BY <1>1, <1>2, <1>4, <1>5, <2>1
    <3>2. PICK j \in DOMAIN q : i < j /\ q[j] = f
      BY <1>5, <3>1 DEF Ahead
    <3>3. j \in DOMAIN a /\ a[j] = f
      BY <1>1, <1>2, <3>2
    <3>4. QED BY <3>2, <3>3
  <2>2. QED BY <2>1 DEF Ahead
<1>6. ASSUME NEW e, e # x PROVE Ahead(a, e, x)
  <2>1. ASSUME NEW i \in DOMAIN a, a[i] = e PROVE \E j \in DOMAIN a : i < j /\ a[j] = x
    <3>1. i \in DOMAIN q
      BY <1>1, <1>4, <1>6, <2>1
    <3>2. i < Len(q) + 1 /\ Len(q) + 1 \in DOMAIN a
      BY <1>1, <1>2, <3>1
    <3>3. QED BY <1>1, <3>2
  <2>2. QED BY <2>1 DEF Ahead
<1>7. QED BY <1>1, <1>3, <1>5, <1>6 DEF a

\* One event less at the front.
LEMMA Handled ==
  ASSUME NEW q \in Seq(Event), q # <<>>
  PROVE  /\ Head(q) \in Event /\ Tail(q) \in Seq(Event)
         /\ \A e : e # Head(q) => (In(Tail(q), e) <=> In(q, e))
         /\ \A e, f : Ahead(q, e, f) => Ahead(Tail(q), e, f)
         /\ \A f : Ahead(q, Head(q), f) => In(Tail(q), f)
<1> DEFINE h == Head(q)
           t == Tail(q)
<1>1. /\ h \in Event /\ t \in Seq(Event) /\ Len(q) \in Nat \ {0} /\ Len(t) = Len(q) - 1
      /\ h = q[1] /\ \A i \in 1..Len(t) : t[i] = q[i + 1]
  BY HeadTailProperties, EmptySeq
<1>2. DOMAIN q = 1..Len(q) /\ DOMAIN t = 1..Len(t)
  BY <1>1, LenProperties
<1> HIDE DEF h, t
<1>3. \A i \in DOMAIN t : i \in Nat /\ i + 1 \in DOMAIN q /\ t[i] = q[i + 1]
  BY <1>1, <1>2
<1>4. ASSUME NEW i \in DOMAIN q, i # 1
      PROVE  i \in Nat /\ i - 1 \in DOMAIN t /\ t[i - 1] = q[i]
  <2>1. i \in Nat /\ i - 1 \in 1..Len(t) /\ (i - 1) + 1 = i
    BY <1>1, <1>2, <1>4
  <2>2. t[i - 1] = q[(i - 1) + 1]
    BY <1>1, <2>1
  <2>3. QED BY <1>2, <2>1, <2>2
<1>5. \A e : e # h => (In(t, e) <=> In(q, e))
  BY <1>1, <1>3, <1>4 DEF In
<1>6. ASSUME NEW e, NEW f, Ahead(q, e, f) PROVE Ahead(t, e, f)
  <2>1. ASSUME NEW i \in DOMAIN t, t[i] = e PROVE \E j \in DOMAIN t : i < j /\ t[j] = f
    <3>1. i \in Nat /\ i >= 1 /\ i + 1 \in DOMAIN q /\ q[i + 1] = e
      BY <1>1, <1>2, <1>3, <2>1
    <3>2. PICK j \in DOMAIN q : i + 1 < j /\ q[j] = f
      BY <1>6, <3>1 DEF Ahead
    <3>3. j # 1 /\ j \in Nat
      BY <1>2, <3>1, <3>2
    <3>4. j - 1 \in DOMAIN t /\ t[j - 1] = f
      BY <1>4, <3>2, <3>3
    <3>5. i < j - 1
      BY <3>1, <3>2, <3>3
    <3>6. QED BY <3>4, <3>5
  <2>2. QED BY <2>1 DEF Ahead
<1>7. ASSUME NEW f, Ahead(q, h, f) PROVE In(t, f)
  <2>1. 1 \in DOMAIN q /\ q[1] = h
    BY <1>1, <1>2
  <2>2. PICK j \in DOMAIN q : 1 < j /\ q[j] = f
    BY <1>7, <2>1 DEF Ahead
  <2>3. j # 1
    BY <2>2
  <2>4. QED BY <1>4, <2>2, <2>3 DEF In
<1>8. QED BY <1>1, <1>5, <1>6, <1>7 DEF h, t

\* A connection less, and connections cut.
LEMMA RemovedType ==
  ASSUME NEW cs \in Seq(Conn), NEW i \in DOMAIN cs
  PROVE  RemoveAt(cs, i) \in Seq(Conn)
<1>1. Len(cs) \in Nat /\ i \in 1..Len(cs) /\ \A j \in 1..Len(cs) : cs[j] \in Conn
  BY LenProperties, ElementOfSeq
<1>2. SubSeq(cs, 1, i - 1) \in Seq(Conn)
  BY <1>1, SubSeqProperties
<1>3. SubSeq(cs, i + 1, Len(cs)) \in Seq(Conn)
  BY <1>1, SubSeqProperties
<1>4. SubSeq(cs, 1, i - 1) \o SubSeq(cs, i + 1, Len(cs)) \in Seq(Conn)
  BY <1>2, <1>3, ConcatProperties
<1>5. QED BY <1>4 DEF RemoveAt

LEMMA CutType ==
  ASSUME NEW cs \in Seq(Conn), NEW r
  PROVE  Cut(r, cs) \in Seq(Conn) /\ DOMAIN Cut(r, cs) = DOMAIN cs
<1>1. Len(cs) \in Nat /\ DOMAIN cs = 1..Len(cs) /\ \A j \in 1..Len(cs) : cs[j] \in Conn
  BY LenProperties, ElementOfSeq
<1>2. \A j \in 1..Len(cs) : [cs[j] EXCEPT !.live = FALSE] \in Conn
  BY <1>1 DEF Conn
<1>3. [j \in DOMAIN cs |-> [cs[j] EXCEPT !.live = FALSE]] \in Seq(Conn)
  BY <1>1, <1>2
<1>4. QED BY <1>3 DEF Cut

-----------------------------------------------------------------------------
(* What the code asks of the driver.                                       *)

\* The types of the variables, with the names of this module.
LEMMA Types ==
  TypeOK <=> /\ chip \in Chips /\ running \in BOOLEAN /\ manual \in BOOLEAN /\ port \in Ports \cup {1}
             /\ task \in Tasks
             /\ aps \subseteq AP /\ found \subseteq AP /\ reach \subseteq MeshAP
             /\ gotIp \in BOOLEAN
             /\ conns \in Seq(Conn) /\ radio \in Radio
             /\ scan \subseteq AP \/ scan = NoScan
             /\ events \in Seq(Event)
             /\ faults \in 0..MaxFaults
BY DEF TypeOK, Tasks, Conn, Radio, Event

\* An association that is ended, or was none.
LEMMA Ended ==
  ASSUME NEW r \in Radio, NEW q \in Seq(Event)
  PROVE  /\ Idle(r) \in Radio /\ Raise(r, q) \in Seq(Event)
         /\ Linked(Idle(r)) /\ ~Ends(Idle(r))
         /\ r.state # "off" => Idle(r).state = "idle"
         /\ Ends(r) => In(Raise(r, q), "DISCONNECTED")
         /\ \A e : In(q, e) => In(Raise(r, q), e)
         /\ Ordered(r, q) => Ordered(Idle(r), Raise(r, q))
         /\ \A g : Noted(g, r, q) => Noted(g, Idle(r), Raise(r, q))
<1>1. /\ r.state \in States /\ "DISCONNECTED" \in Event
      /\ Ends(r) <=> r.state \notin {"idle", "off"}
  BY DEF Radio, States, Ends, Event
<1>2. CASE ~Ends(r)
  <2>1. Idle(r) = r /\ Raise(r, q) = q
    BY <1>2 DEF Idle, Raise
  <2>2. QED BY <1>1, <1>2, <2>1 DEF Linked
<1>3. CASE Ends(r)
  <2> DEFINE p == Append(q, "DISCONNECTED")
  <2>1. Idle(r) = [r EXCEPT !.state = "idle", !.ap = None] /\ Raise(r, q) = p
    BY <1>3 DEF Idle, Raise
  <2>2. Idle(r) \in Radio /\ Idle(r).state = "idle"
    BY <2>1 DEF Radio, States
  <2>3. ~Ends(Idle(r)) /\ Linked(Idle(r))
    BY <2>2 DEF Ends, Linked
  <2>4. p \in Seq(Event) /\ In(p, "DISCONNECTED") /\ \A e : In(q, e) => In(p, e)
    BY <1>1, Raised
  <2>5. Ahead(p, "GOT_IP", "DISCONNECTED")
    BY <1>1, Raised
  <2>6. Ordered(Idle(r), p) /\ \A g : Noted(g, Idle(r), p)
    BY <2>2, <2>4, <2>5 DEF Ordered, Noted
  <2>7. QED BY <2>1, <2>2, <2>3, <2>4, <2>6
<1>4. QED BY <1>2, <1>3

\* An association that is asked for.  The station hears of the old one only
\* where the driver ends it.
LEMMA Requested ==
  ASSUME NEW ap \in AP, NEW r \in Radio, NEW q \in Seq(Event), NEW cs \in Seq(Conn),
         Linked(r), RequestIP(ap, r, q, cs)
  PROVE  /\ radio' \in Radio /\ events' \in Seq(Event) /\ conns' \in Seq(Conn)
         /\ Linked(radio')
         /\ r.state # "off" /\ Ordered(r, q) /\ Noted(FALSE, r, q) =>
              /\ radio'.state \notin {"idle", "off"}
              /\ Ordered(radio', events') /\ Noted(FALSE, radio', events')
<1> DEFINE configured == [r EXCEPT !.config = ap]
           joins == [state |-> "joining", ap |-> ap, config |-> ap]
<1>1. /\ configured \in Radio /\ configured.state = r.state /\ configured.ap = r.ap
      /\ joins \in Radio /\ joins.state = "joining" /\ joins.ap = ap
      /\ r.state \in States
  BY DEF Radio, States
<1>2. Linked(joins) /\ Linked(configured)
  BY <1>1 DEF Linked, Ends
<1>3. \/ radio' = (IF r.state = "idle" THEN joins ELSE configured) /\ events' = q /\ conns' = cs
      \/ Ends(r) /\ radio' = joins /\ events' = Raise(r, q) /\ conns' = Cut(r, cs)
  BY DEF RequestIP
<1> HIDE DEF configured, joins
<1>4. CASE radio' = (IF r.state = "idle" THEN joins ELSE configured) /\ events' = q /\ conns' = cs
  <2>1. radio'.state = IF r.state = "idle" THEN "joining" ELSE r.state
    BY <1>1, <1>4
  <2>2. Ordered(r, q) => Ordered(radio', events')
    BY <1>4, <2>1 DEF Ordered
  <2>3. Noted(FALSE, r, q) => Noted(FALSE, radio', events')
    BY <1>4, <2>1 DEF Noted
  <2>4. QED BY <1>1, <1>2, <1>4, <2>1, <2>2, <2>3
<1>5. CASE Ends(r) /\ radio' = joins /\ events' = Raise(r, q) /\ conns' = Cut(r, cs)
  <2>1. events' \in Seq(Event) /\ (Ordered(r, q) => Ordered(Idle(r), events'))
    BY <1>5, Ended
  <2>2. Idle(r).state = "idle"
    BY <1>1, <1>5, Ended DEF Ends
  <2>3. Ordered(r, q) => Ordered(radio', events')
    BY <1>1, <1>5, <2>1, <2>2 DEF Ordered
  <2>4. Noted(FALSE, radio', events')
    BY <1>1, <1>5 DEF Noted
  <2>5. QED BY <1>1, <1>2, <1>5, <2>1, <2>3, <2>4, CutType
<1>6. QED BY <1>3, <1>4, <1>5

\* The part of connectToAP for a node without an address: it has asked for an
\* association, or it scans again soon.
LEMMA Connected ==
  ASSUME NEW r \in Radio, NEW q \in Seq(Event), NEW cs \in Seq(Conn),
         Linked(r), TypeOK, Connect(r, q, cs)
  PROVE  /\ radio' \in Radio /\ events' \in Seq(Event) /\ conns' \in Seq(Conn)
         /\ Linked(radio') /\ task' \in Tasks /\ aps' \subseteq AP
         /\ gotIp' = FALSE /\ faults' = faults
         /\ running /\ r.state # "off" /\ Ordered(r, q) /\ Noted(FALSE, r, q)
              /\ (~task.enabled => manual)
            => /\ radio'.state # "off"
               /\ Ordered(radio', events') /\ Noted(FALSE, radio', events')
               /\ Woken(task', manual, radio', scan, events')
<1>1. task \in Tasks /\ running \in BOOLEAN /\ manual \in BOOLEAN /\ aps \subseteq AP
  BY Types
<1>2. CASE NothingToJoin(r, q, cs) /\ UNCHANGED <<aps, faults>>
  <2>1. /\ task' = IF manual THEN EnableDelayed(Rescan(task), "interval")
                   ELSE Delay(Rescan(task), "interval")
        /\ radio' = r /\ events' = q /\ conns' = cs /\ gotIp' = FALSE
    BY <1>2 DEF NothingToJoin
  <2>2. task' \in Tasks /\ task'.delay = "interval" /\ task'.enabled = IF manual THEN running ELSE task.enabled
    BY <1>1, <2>1 DEF Tasks, Delays, Callbacks, EnableDelayed, Delay, Rescan
  <2>3. running /\ (~task.enabled => manual) => Woken(task', manual, radio', scan, events')
    BY <2>2, <1>1 DEF Woken
  <2>4. QED BY <1>1, <1>2, <2>1, <2>2, <2>3
<1>3. CASE \E ap \in aps : aps' = aps \ {ap} /\ Join(ap, r, q, cs) /\ UNCHANGED faults
  <2>0. PICK ap \in aps : aps' = aps \ {ap} /\ Join(ap, r, q, cs) /\ UNCHANGED faults
    BY <1>3
  <2>1. /\ RequestIP(ap, r, q, cs)
        /\ task' = Delay(Rescan(task), "4 intervals") /\ gotIp' = FALSE
    BY <2>0 DEF Join
  <2>2. task' \in Tasks /\ task'.delay = "4 intervals" /\ task'.enabled = task.enabled
    BY <1>1, <2>1 DEF Tasks, Delays, Callbacks, Delay, Rescan
  <2>3. /\ radio' \in Radio /\ events' \in Seq(Event) /\ conns' \in Seq(Conn) /\ Linked(radio')
        /\ r.state # "off" /\ Ordered(r, q) /\ Noted(FALSE, r, q) =>
             /\ radio'.state \notin {"idle", "off"}
             /\ Ordered(radio', events') /\ Noted(FALSE, radio', events')
    BY <1>1, <2>1, Requested
  <2>4. QED BY <1>1, <2>0, <2>1, <2>2, <2>3 DEF Woken
<1>4. QED BY <1>2, <1>3 DEF Connect

-----------------------------------------------------------------------------
(* The steps.                                                              *)

\* A connection is closed.
LEMMA Closed ==
  ASSUME TypeOK, NEW i \in DOMAIN conns,
         conns' = Cut(radio, RemoveAt(conns, i)),
         radio' = Idle(radio), events' = Raise(radio, events)
  PROVE  /\ conns' \in Seq(Conn) /\ radio' \in Radio /\ events' \in Seq(Event)
         /\ Linked(radio') /\ (radio.state # "off" => radio'.state = "idle")
         /\ Ends(radio) => In(events', "DISCONNECTED")
         /\ \A e : In(events, e) => In(events', e)
         /\ Ordered(radio, events) => Ordered(radio', events')
         /\ \A g : Noted(g, radio, events) => Noted(g, radio', events')
<1>1. radio \in Radio /\ events \in Seq(Event) /\ conns \in Seq(Conn)
  BY Types
<1>2. conns' \in Seq(Conn)
  BY <1>1, RemovedType, CutType
<1>3. QED BY <1>1, <1>2, Ended

\* The same in closeConnectionSTA, which may find nothing to close.
LEMMA ClosedSTA ==
  ASSUME TypeOK, Linked(radio), CloseConnectionSTA
  PROVE  /\ conns' \in Seq(Conn) /\ radio' \in Radio /\ events' \in Seq(Event)
         /\ Linked(radio') /\ gotIp' \in BOOLEAN
         /\ radio.state # "off" /\ Ordered(radio, events) /\ Noted(gotIp, radio, events) /\ gotIp =>
              /\ radio'.state # "off" /\ Ordered(radio', events') /\ Noted(gotIp', radio', events')
              /\ radio'.state = "idle" => In(events', "DISCONNECTED")
<1> DEFINE up == {i \in DOMAIN conns : conns[i].state # "syn"}
           i == CHOOSE i \in up : \A j \in up : i <= j
<1>1. radio \in Radio /\ events \in Seq(Event) /\ conns \in Seq(Conn) /\ gotIp \in BOOLEAN
  BY Types
<1>2. CASE up # {} /\ Close(i, radio, events, conns)
  <2>1. /\ conns' = Cut(radio, RemoveAt(conns, i))
        /\ radio' = Idle(radio) /\ events' = Raise(radio, events)
        /\ gotIp' = FALSE
    BY <1>2 DEF Close
  <2>2. i \in DOMAIN conns
    <3>1. up \subseteq 1..Len(conns) /\ Len(conns) \in Nat
      BY <1>1, LenProperties
    <3>2. \E m \in up : \A j \in up : m <= j
      BY <1>2, <3>1, LeastPlace
    <3>3. QED BY <3>2
  <2> HIDE DEF i
  <2>3. QED BY <1>1, <2>1, <2>2, Closed DEF Noted, Ends, Radio, States
<1>3. CASE up = {} /\ UNCHANGED <<conns, radio, events, gotIp>>
  BY <1>1, <1>3 DEF Noted
<1>4. QED BY <1>2, <1>3 DEF CloseConnectionSTA

\* Every step keeps the types, and the station linked to an access point.
LEMMA TypeStep == TypeOK /\ Linked(radio) /\ [Next]_vars => TypeOK' /\ Linked(radio')
<1> SUFFICES ASSUME TypeOK, Linked(radio), [Next]_vars PROVE TypeOK' /\ Linked(radio')
  OBVIOUS
<1> USE DEF codeVars
<1>1. /\ chip \in Chips /\ running \in BOOLEAN /\ manual \in BOOLEAN /\ port \in Ports \cup {1}
      /\ task \in Tasks /\ aps \subseteq AP /\ found \subseteq AP /\ reach \subseteq MeshAP
      /\ gotIp \in BOOLEAN /\ conns \in Seq(Conn) /\ radio \in Radio
      /\ scan \subseteq AP \/ scan = NoScan
      /\ events \in Seq(Event) /\ faults \in 0..MaxFaults
  BY Types
<1>2. TypeOK' <=> /\ chip' \in Chips /\ running' \in BOOLEAN /\ manual' \in BOOLEAN
                  /\ port' \in Ports \cup {1}
                  /\ task' \in Tasks
                  /\ aps' \subseteq AP /\ found' \subseteq AP /\ reach' \subseteq MeshAP
                  /\ gotIp' \in BOOLEAN
                  /\ conns' \in Seq(Conn) /\ radio' \in Radio
                  /\ scan' \subseteq AP \/ scan' = NoScan
                  /\ events' \in Seq(Event)
                  /\ faults' \in 0..MaxFaults
  BY DEF TypeOK, Tasks, Conn, Radio, Event
<1>3. MaxFaults \in Nat
  BY BoundAssumption
<1>4. Fault => faults' \in 0..MaxFaults
  BY <1>1, <1>3 DEF Fault
<1>5. Named \subseteq AP
  BY DEF Named, AP
<1>6. events # <<>> => Tail(events) \in Seq(Event)
  BY <1>1, Handled
<1>7. /\ \A d \in Delays : \A t \in Tasks : Delay(t, d) \in Tasks
      /\ \A d \in Delays : \A t \in Tasks : EnableDelayed(t, d) \in Tasks
      /\ \A c \in Callbacks : \A t \in Tasks : Yield(t, c) \in Tasks
      /\ \A t \in Tasks : Rescan(t) \in Tasks /\ [Rescan(t) EXCEPT !.enabled = FALSE] \in Tasks
  BY <1>1 DEF Tasks, Delays, Callbacks, Delay, EnableDelayed, Yield, Rescan
<1>8. /\ {"now", "interval", "4 intervals", "slow", "long"} \subseteq Delays
      /\ {"stationScan", "filterAPs", "sort", "connectToAP"} \subseteq Callbacks
  BY DEF Delays, Callbacks
<1>10. CASE StationScan
  BY <1>10, <1>1, <1>2, <1>4, <1>5, <1>7, <1>8 DEF StationScan
<1>11. CASE FilterAPs
  BY <1>11, <1>1, <1>2, <1>7, <1>8 DEF FilterAPs
<1>12. CASE Sort
  BY <1>12, <1>1, <1>2, <1>7, <1>8 DEF Sort
<1>13. CASE ConnectToAP
  <2>1. UNCHANGED <<chip, running, manual, port, reach, scan, found>>
    BY <1>13 DEF ConnectToAP
  <2>2. CASE manual /\ Manual /\ UNCHANGED aps
    <3>1. task' \in Tasks /\ UNCHANGED faults
      BY <2>2, <1>1, <1>7, <1>8 DEF Manual
    <3>2. CloseConnectionSTA \/ UNCHANGED <<radio, conns, gotIp, events>>
      BY <2>2 DEF Manual
    <3>3. conns' \in Seq(Conn) /\ radio' \in Radio /\ events' \in Seq(Event)
          /\ Linked(radio') /\ gotIp' \in BOOLEAN
      BY <3>2, <1>1, ClosedSTA
    <3>4. QED BY <1>1, <1>2, <2>1, <2>2, <3>1, <3>3
  <2>3. CASE Connect(radio, events, conns)
    <3>1. /\ radio' \in Radio /\ events' \in Seq(Event) /\ conns' \in Seq(Conn)
          /\ Linked(radio') /\ task' \in Tasks /\ aps' \subseteq AP
          /\ gotIp' = FALSE /\ faults' = faults
      BY <2>3, <1>1, Connected
    <3>2. gotIp' \in BOOLEAN
      BY <3>1, Zenon
    <3>3. QED BY <1>1, <1>2, <2>1, <3>1, <3>2
  <2>4. CASE (LeaveForBetter \/ Stay) /\ UNCHANGED <<aps, faults>>
    <3>1. task' \in Tasks
      BY <2>4, <1>1, <1>7, <1>8 DEF LeaveForBetter, Stay
    <3>2. CloseConnectionSTA \/ UNCHANGED <<radio, conns, gotIp, events>>
      BY <2>4 DEF LeaveForBetter, Stay
    <3>3. conns' \in Seq(Conn) /\ radio' \in Radio /\ events' \in Seq(Event)
          /\ Linked(radio') /\ gotIp' \in BOOLEAN
      BY <3>2, <1>1, ClosedSTA
    <3>4. QED BY <1>1, <1>2, <2>1, <2>4, <3>1, <3>3
  <2>5. QED BY <1>13, <2>2, <2>3, <2>4 DEF ConnectToAP
<1>14. CASE ScanComplete
  BY <1>14, <1>1, <1>2, <1>6, <1>7, <1>8 DEF ScanComplete, Handle
<1>15. CASE StaStart
  BY <1>15, <1>1, <1>2, <1>6, <1>7, <1>8 DEF StaStart, Handle
<1>16. CASE Disconnected
  <2> DEFINE r == IF chip = "ESP8266" THEN Idle(radio) ELSE radio
             q == IF chip = "ESP8266" THEN Raise(radio, Tail(events)) ELSE Tail(events)
             cs == IF chip = "ESP8266" THEN Cut(radio, conns) ELSE conns
  <2>1. /\ Connect(r, q, cs) /\ Tail(events) \in Seq(Event)
        /\ UNCHANGED <<chip, running, manual, port, reach, scan, found>>
    BY <1>16, <1>6 DEF Disconnected, Handle
  <2>2. r \in Radio /\ q \in Seq(Event) /\ cs \in Seq(Conn) /\ Linked(r)
    BY <1>1, <2>1, Ended, CutType
  <2> HIDE DEF r, q, cs
  <2>3. /\ radio' \in Radio /\ events' \in Seq(Event) /\ conns' \in Seq(Conn)
        /\ Linked(radio') /\ task' \in Tasks /\ aps' \subseteq AP
        /\ gotIp' = FALSE /\ faults' = faults
    BY <2>1, <2>2, Connected
  <2>4. gotIp' \in BOOLEAN
    BY <2>3, Zenon
  <2>5. QED BY <1>1, <1>2, <2>1, <2>3, <2>4
<1>17. CASE GotIp
  <2> DEFINE c == [ap |-> radio.ap, state |-> "syn", live |-> TRUE]
  <2>1. /\ gotIp' = TRUE /\ events' = Tail(events) /\ events # <<>>
        /\ UNCHANGED <<task, aps, radio, faults, chip, running, manual, port, reach, scan, found>>
        /\ conns' = conns \/ (radio.state = "ip" /\ conns' = Append(conns, c))
    BY <1>17 DEF GotIp, Handle
  <2>2. radio.state = "ip" => c \in Conn
    BY DEF Linked, Ends, Conn
  <2>3. conns' \in Seq(Conn)
    BY <1>1, <2>1, <2>2, AppendProperties, SMTT(20)
  <2>4. gotIp' \in BOOLEAN
    BY <2>1, Zenon
  <2>5. QED BY <1>1, <1>2, <1>6, <2>1, <2>3, <2>4
<1>18. ASSUME NEW i \in DOMAIN conns, OnConnect(i) \/ OnError(i) \/ OnDisconnect(i) \/ NodeSynced(i)
       PROVE TypeOK' /\ Linked(radio')
  <2>1. conns[i] \in Conn /\ i \in 1..Len(conns)
    BY <1>1, LenProperties, ElementOfSeq
  <2>2. ASSUME NEW s \in {"up", "member"}
        PROVE  [conns EXCEPT ![i].state = s] \in Seq(Conn)
    <3>1. [conns[i] EXCEPT !.state = s] \in Conn
      BY <2>1 DEF Conn
    <3>2. QED BY <1>1, <2>1, <3>1, ExceptSeq
  <2>3. CASE OnConnect(i)
    BY <2>3, <1>1, <1>2, <2>2 DEF OnConnect
  <2>4. Broken(i) => faults' \in 0..MaxFaults
    BY <1>1, <1>4 DEF Broken
  <2>5. CASE OnError(i)
    BY <2>5, <1>1, <1>2, <2>4, Closed DEF OnError
  <2>6. Close(i, radio, events, conns) =>
          /\ conns' \in Seq(Conn) /\ radio' \in Radio /\ events' \in Seq(Event)
          /\ Linked(radio') /\ gotIp' = FALSE
    BY Closed DEF Close
  <2>7. CASE OnDisconnect(i)
    <3>1. gotIp' \in BOOLEAN
      BY <2>6, <2>7, Zenon DEF OnDisconnect
    <3>2. QED BY <2>7, <1>1, <1>2, <2>4, <2>6, <3>1 DEF OnDisconnect
  <2>8. CASE NodeSynced(i)
    <3>1. UNCHANGED <<chip, running, manual, port, task, aps, reach, scan, found, faults>>
      BY <2>8 DEF NodeSynced
    <3>2. CASE Close(i, radio, events, conns)
      <4>1. gotIp' \in BOOLEAN
        BY <2>6, <3>2, Zenon
      <4>2. QED BY <1>1, <1>2, <2>6, <3>1, <3>2, <4>1
    <3>3. CASE conns' = [conns EXCEPT ![i].state = "member"] /\ UNCHANGED <<radio, events, gotIp>>
      BY <1>1, <1>2, <2>2, <3>1, <3>3
    <3>4. QED BY <2>8, <3>2, <3>3 DEF NodeSynced
  <2>9. QED BY <1>18, <2>3, <2>5, <2>7, <2>8
<1>19. {"SCAN_DONE", "GOT_IP"} \subseteq Event /\ \A x \in Event : Append(events, x) \in Seq(Event)
  BY <1>1, Raised DEF Event
<1>20. CASE ScanDone
  <2>1. /\ scan \subseteq AP /\ scan' = NoScan /\ events' = Append(events, "SCAN_DONE")
        /\ UNCHANGED <<conns, radio, chip, running, manual, port, task, aps, gotIp, reach>>
        /\ (found' = scan /\ UNCHANGED faults) \/ (Fault /\ found' \in SUBSET scan)
    BY <1>20, <1>1 DEF ScanDone, Driver
  <2>2. found' \subseteq AP /\ faults' \in 0..MaxFaults
    BY <2>1, <1>1, <1>4
  <2>3. QED BY <1>1, <1>2, <1>19, <2>1, <2>2
<1>21. CASE Associate
  <2>1. /\ radio.state = "joining" /\ radio' = [radio EXCEPT !.state = "joined"]
        /\ UNCHANGED <<chip, running, manual, port, task, aps, gotIp, reach, conns, scan, found, events, faults>>
    BY <1>21 DEF Associate, Driver
  <2>2. radio' \in Radio /\ radio'.ap = radio.ap /\ radio.ap \in AP
    BY <1>1, <2>1 DEF Radio, States, Linked, Ends
  <2>3. QED BY <1>1, <1>2, <2>1, <2>2 DEF Linked
<1>22. CASE Address
  <2>1. /\ radio.state = "joined" /\ radio' = [radio EXCEPT !.state = "ip"]
        /\ events' = Append(events, "GOT_IP")
        /\ UNCHANGED <<chip, running, manual, port, task, aps, gotIp, reach, conns, scan, found, faults>>
    BY <1>22 DEF Address, Driver
  <2>2. radio' \in Radio /\ radio'.ap = radio.ap /\ radio.ap \in AP
    BY <1>1, <2>1 DEF Radio, States, Linked, Ends
  <2>3. QED BY <1>1, <1>2, <1>19, <2>1, <2>2 DEF Linked
<1>23. CASE LinkLost
  BY <1>23, <1>1, <1>2, <1>4, Ended, CutType DEF LinkLost, Driver
<1>24. ASSUME NEW ap \in MeshAP, OthersChange(ap) PROVE TypeOK' /\ Linked(radio')
  BY <1>24, <1>1, <1>2, <1>4 DEF OthersChange
<1>25. ASSUME NEW p \in Ports, StationManual(p) PROVE TypeOK' /\ Linked(radio')
  <2>1. manual' \in BOOLEAN
    BY <1>25, Zenon DEF StationManual
  <2>2. QED BY <1>25, <1>1, <1>2, <1>7, <1>8, <2>1 DEF StationManual
<1>26. CASE Stop
  <2>1. running' \in BOOLEAN /\ gotIp' \in BOOLEAN
    BY <1>26, <1>1, Zenon DEF Stop
  <2>2. task' \in Tasks
    BY <1>26, <1>1 DEF Stop, Tasks, Callbacks
  <2>3. conns' \in Seq(Conn)
    <3>1. Cut(radio, conns) \in Seq(Conn) /\ conns' = Only(Cut(radio, conns), Unanswered)
      BY <1>26, <1>1, CutType DEF Stop
    <3>2. QED BY <3>1, OnlyType
  <2>4. /\ Idle(radio) \in Radio /\ Linked(Idle(radio)) /\ Raise(radio, events) \in Seq(Event)
        /\ ~Ends(Idle(radio))
    BY <1>1, Ended
  <2>5. /\ [Idle(radio) EXCEPT !.state = "off"] \in Radio
        /\ ~Ends([Idle(radio) EXCEPT !.state = "off"])
    BY <2>4 DEF Radio, States, Ends
  <2>6. radio' \in Radio /\ Linked(radio') /\ events' \in Seq(Event)
    BY <1>26, <2>4, <2>5 DEF Stop, Linked
  <2>7. QED BY <1>26, <1>1, <1>2, <2>1, <2>2, <2>3, <2>6 DEF Stop
<1>27. CASE UNCHANGED vars
  BY <1>27, <1>1, <1>2 DEF vars
<1>28. QED
  BY <1>10, <1>11, <1>12, <1>13, <1>14, <1>15, <1>16, <1>17, <1>18, <1>20, <1>21, <1>22, <1>23,
     <1>24, <1>25, <1>26, <1>27 DEF Next

\* Every step of a running node keeps the order of the events, the flag and
\* the task in agreement with the driver.
Stands == /\ radio.state # "off"
          /\ Ordered(radio, events) /\ Noted(gotIp, radio, events)
          /\ Woken(task, manual, radio, scan, events)
LEMMA StandsStep ==
  TypeOK /\ Linked(radio) /\ (running => Stands) /\ [Next]_vars => (running' => Stands')
<1> SUFFICES ASSUME TypeOK, Linked(radio), running => Stands, [Next]_vars, running'
             PROVE  Stands'
  OBVIOUS
<1> USE DEF codeVars
<1>1. /\ running \in BOOLEAN /\ manual \in BOOLEAN /\ task \in Tasks /\ gotIp \in BOOLEAN
      /\ conns \in Seq(Conn) /\ radio \in Radio /\ events \in Seq(Event)
      /\ scan \subseteq AP \/ scan = NoScan
  BY Types
<1>2. running
  <2>1. CASE Stop
    BY <2>1 DEF Stop
  <2>2. CASE UNCHANGED running
    BY <2>2
  <2>3. Stop \/ UNCHANGED running
    BY DEF Next, vars, StationScan, FilterAPs, Sort, ConnectToAP, ScanComplete, StaStart,
           Disconnected, GotIp, OnConnect, OnError, OnDisconnect, NodeSynced, ScanDone,
           Associate, Address, LinkLost, OthersChange, StationManual, Handle, Driver
  <2>4. QED BY <2>1, <2>2, <2>3
<1>3. /\ radio.state # "off" /\ Ordered(radio, events) /\ Noted(gotIp, radio, events)
      /\ Woken(task, manual, radio, scan, events)
      /\ ~task.enabled => manual
  BY <1>2 DEF Stands, Woken
<1>4. /\ \A d \in Delays : \A t \in Tasks :
           /\ Delay(t, d).delay = d /\ Delay(t, d).enabled = t.enabled
           /\ EnableDelayed(t, d).delay = d /\ EnableDelayed(t, d).enabled = TRUE
      /\ \A c \in Callbacks : \A t \in Tasks :
           Yield(t, c).delay = "now" /\ Yield(t, c).enabled = t.enabled
      /\ \A t \in Tasks : /\ Rescan(t) \in Tasks /\ Rescan(t).delay = t.delay
                          /\ Rescan(t).enabled = t.enabled
  BY <1>2 DEF Tasks, Delays, Callbacks, Delay, EnableDelayed, Yield, Rescan
<1>5. /\ {"now", "interval", "4 intervals", "slow", "long"} \subseteq Delays
      /\ {"stationScan", "filterAPs", "sort", "connectToAP"} \subseteq Callbacks
  BY DEF Delays, Callbacks
\* An event that is handled.
<1>6. ASSUME events # <<>>
      PROVE  /\ Ordered(radio, Tail(events))
             /\ Head(events) \notin {"DISCONNECTED", "GOT_IP"} =>
                  \A g : Noted(g, radio, events) => Noted(g, radio, Tail(events))
             /\ Head(events) = "DISCONNECTED" => Noted(FALSE, radio, Tail(events))
             /\ Head(events) = "GOT_IP" => Noted(TRUE, radio, Tail(events))
             /\ \A e : e # Head(events) /\ In(events, e) => In(Tail(events), e)
  BY <1>1, <1>3, <1>6, Handled DEF Ordered, Noted
<1>10. CASE StationScan
  <2>1. /\ task' = Delay(task, "long")
        /\ UNCHANGED <<manual, gotIp, radio, events>>
        /\ scan' = Named \/ radio.state = "joining"
    BY <1>3, <1>10 DEF StationScan
  <2>2. Named # NoScan
    BY APAssumption DEF Named, NoScan, AP
  <2>3. task'.enabled = task.enabled
    BY <1>1, <2>1 DEF Delay, Tasks
  <2>4. QED BY <1>3, <2>1, <2>2, <2>3 DEF Stands, Woken
<1>11. CASE FilterAPs \/ Sort
  <2>1. /\ task'.delay = "now" /\ task'.enabled = task.enabled
        /\ UNCHANGED <<manual, gotIp, radio, scan, events>>
    <3>1. /\ task' = Yield(task, "sort") \/ task' = Yield(task, "connectToAP")
          /\ UNCHANGED <<manual, gotIp, radio, scan, events>>
      BY <1>11 DEF FilterAPs, Sort
    <3>2. QED BY <1>1, <3>1 DEF Yield, Delay, Tasks
  <2>2. QED BY <1>3, <2>1 DEF Stands, Woken
<1>12. CASE ConnectToAP
  <2>1. UNCHANGED <<manual, scan, running>>
    BY <1>12 DEF ConnectToAP
  <2>2. CASE gotIp /\ UNCHANGED <<radio, gotIp, events>> /\ task'.delay # "long"
             /\ (task'.enabled = task.enabled \/ manual)
    BY <1>3, <2>1, <2>2 DEF Stands, Woken, Noted
  <2>3. CASE gotIp /\ CloseConnectionSTA /\ (task'.enabled = task.enabled \/ task'.enabled)
    <3>1. /\ radio'.state # "off" /\ Ordered(radio', events') /\ Noted(gotIp', radio', events')
          /\ radio'.state = "idle" => In(events', "DISCONNECTED")
      BY <1>3, <2>3, ClosedSTA
    <3>2. QED BY <1>3, <2>1, <2>3, <3>1 DEF Stands, Woken
  <2>4. CASE manual /\ Manual
    <3>1. CASE gotIp /\ task' = [Rescan(task) EXCEPT !.enabled = FALSE]
               /\ UNCHANGED <<radio, conns, gotIp, events, faults>>
      <4>1. gotIp /\ (radio.state # "idle" \/ In(events, "DISCONNECTED"))
        BY <1>3, <3>1 DEF Noted
      <4>2. task'.delay = task.delay
        BY <1>1, <3>1 DEF Rescan, Tasks
      <4>3. QED BY <1>3, <2>1, <2>4, <3>1, <4>1, <4>2 DEF Stands, Woken
    <3>2. CASE gotIp /\ CloseConnectionSTA /\ task' = EnableDelayed(Rescan(task), "long")
      BY <1>1, <1>4, <1>5, <2>3, <3>2
    <3>3. QED BY <2>4, <3>1, <3>2 DEF Manual
  <2>5. CASE ~gotIp /\ Connect(radio, events, conns)
    <3>1. Noted(FALSE, radio, events)
      BY <1>1, <1>3, <2>5
    <3>2. /\ radio'.state # "off" /\ gotIp' = FALSE
          /\ Ordered(radio', events') /\ Noted(FALSE, radio', events')
          /\ Woken(task', manual, radio', scan, events')
      BY <1>1, <1>2, <1>3, <2>5, <3>1, Connected
    <3>3. QED BY <2>1, <3>2 DEF Stands
  <2>6. CASE ~manual /\ gotIp /\ LeaveForBetter
    <3>1. task' = Delay(Rescan(task), "long") /\ CloseConnectionSTA
      BY <2>6 DEF LeaveForBetter
    <3>2. task'.enabled = task.enabled
      BY <1>1, <1>4, <1>5, <3>1
    <3>3. QED BY <2>3, <2>6, <3>1, <3>2
  <2>7. CASE ~manual /\ gotIp /\ Stay
    <3>1. task'.delay # "long" /\ task'.enabled = task.enabled
      <4>1. PICK r \in Tasks, d \in Delays :
              r = Rescan(task) /\ d = (IF aps = {} THEN "slow" ELSE "4 intervals")
        BY <1>1, <1>4, <1>5
      <4>2. task' = Delay(r, d) /\ d # "long"
        BY <2>7, <4>1 DEF Stay
      <4>3. r.enabled = task.enabled
        BY <1>1, <4>1 DEF Rescan, Tasks
      <4>4. QED BY <1>4, <4>2, <4>3
    <3>2. QED BY <2>2, <2>7, <3>1 DEF Stay
  <2>8. QED BY <1>12, <2>4, <2>5, <2>6, <2>7 DEF ConnectToAP
<1>13. CASE ScanComplete \/ StaStart
  <2>1. /\ events # <<>> /\ Head(events) \in {"SCAN_DONE", "STA_START"}
        /\ events' = Tail(events)
        /\ UNCHANGED <<manual, gotIp, radio, scan>>
    BY <1>13 DEF ScanComplete, StaStart, Handle
  <2>2. task'.delay = "now" /\ task'.enabled = task.enabled
    <3>1. task' = Yield(task, "filterAPs") \/ task' = Delay(task, "now")
      BY <1>13 DEF ScanComplete, StaStart
    <3>2. QED BY <1>1, <3>1 DEF Yield, Delay, Tasks
  <2>3. Noted(gotIp, radio, Tail(events))
    BY <1>3, <1>6, <2>1
  <2>4. In(events, "DISCONNECTED") => In(Tail(events), "DISCONNECTED")
    BY <1>6, <2>1
  <2>5. QED BY <1>3, <1>6, <2>1, <2>2, <2>3, <2>4 DEF Stands, Woken
<1>14. CASE Disconnected
  <2> DEFINE r == IF chip = "ESP8266" THEN Idle(radio) ELSE radio
             q == IF chip = "ESP8266" THEN Raise(radio, Tail(events)) ELSE Tail(events)
             cs == IF chip = "ESP8266" THEN Cut(radio, conns) ELSE conns
  <2>1. /\ Connect(r, q, cs) /\ events # <<>> /\ Head(events) = "DISCONNECTED"
        /\ UNCHANGED <<manual, scan>>
    BY <1>14 DEF Disconnected, Handle
  <2>2. /\ Tail(events) \in Seq(Event) /\ Ordered(radio, Tail(events))
        /\ Noted(FALSE, radio, Tail(events))
    BY <1>1, <1>6, <2>1, Handled
  <2>3. /\ r \in Radio /\ q \in Seq(Event) /\ cs \in Seq(Conn) /\ Linked(r)
        /\ r.state # "off" /\ Ordered(r, q) /\ Noted(FALSE, r, q)
    BY <1>1, <1>3, <2>2, Ended, CutType
  <2> HIDE DEF r, q, cs
  <2>4. /\ radio'.state # "off" /\ gotIp' = FALSE
        /\ Ordered(radio', events') /\ Noted(FALSE, radio', events')
        /\ Woken(task', manual, radio', scan, events')
    BY <1>2, <1>3, <2>1, <2>3, Connected
  <2>5. QED BY <2>1, <2>4 DEF Stands
<1>15. CASE GotIp
  <2>1. /\ events # <<>> /\ Head(events) = "GOT_IP" /\ gotIp' = TRUE
        /\ events' = Tail(events)
        /\ UNCHANGED <<manual, task, radio, scan>>
    BY <1>15 DEF GotIp, Handle
  <2>2. /\ In(events, "DISCONNECTED") => In(Tail(events), "DISCONNECTED")
        /\ In(events, "SCAN_DONE") => In(Tail(events), "SCAN_DONE")
    BY <1>6, <2>1
  <2>3. QED BY <1>3, <1>6, <2>1, <2>2 DEF Stands, Woken
<1>16. ASSUME NEW i \in DOMAIN conns, OnConnect(i) \/ OnError(i) \/ OnDisconnect(i) \/ NodeSynced(i)
       PROVE Stands'
  <2>1. UNCHANGED <<manual, task, scan>>
    BY <1>16 DEF OnConnect, OnError, OnDisconnect, NodeSynced
  <2>2. CASE UNCHANGED <<radio, events, gotIp>>
    BY <1>3, <2>1, <2>2 DEF Stands
  <2>3. CASE /\ conns' = Cut(radio, RemoveAt(conns, i))
             /\ radio' = Idle(radio) /\ events' = Raise(radio, events)
             /\ gotIp' \in {gotIp, FALSE}
    <3>1. /\ radio'.state = "idle"
          /\ Ends(radio) => In(events', "DISCONNECTED")
          /\ \A e : In(events, e) => In(events', e)
          /\ Ordered(radio', events') /\ Noted(gotIp, radio', events')
      BY <1>3, <2>3, Closed
    <3>2. Noted(gotIp', radio', events')
      <4>1. gotIp' = FALSE => Noted(gotIp', radio', events')
        BY <3>1 DEF Noted
      <4>2. QED BY <2>3, <3>1, <4>1
    <3>3. radio.state \notin {"idle", "off"} => Ends(radio)
      BY <1>1 DEF Ends, Radio, States
    <3>4. QED BY <1>3, <2>1, <3>1, <3>2, <3>3 DEF Stands, Woken
  <2>4. QED BY <1>16, <2>2, <2>3 DEF OnConnect, OnError, OnDisconnect, NodeSynced, Close
\* What the driver tells.
<1>17. /\ \A x \in Event : \A e : In(Append(events, x), e) <=> In(events, e) \/ x = e
       /\ \A x \in Event : \A e, f : e # x /\ Ahead(events, e, f) => Ahead(Append(events, x), e, f)
       /\ \A x \in Event : \A e : e # x => Ahead(Append(events, x), e, x)
       /\ {"SCAN_DONE", "GOT_IP"} \subseteq Event
  BY <1>1, Raised DEF Event
<1>18. CASE ScanDone
  <2>1. /\ events' = Append(events, "SCAN_DONE")
        /\ UNCHANGED <<radio, manual, task, gotIp>>
    BY <1>18 DEF ScanDone, Driver
  <2>2. In(events', "SCAN_DONE") /\ \A e : In(events, e) => In(events', e)
    BY <1>17, <2>1
  <2>3. Ordered(radio, events')
    BY <1>3, <1>17, <2>1 DEF Ordered
  <2>4. Noted(gotIp, radio, events')
    BY <1>3, <2>2 DEF Noted
  <2>5. QED BY <1>3, <2>1, <2>2, <2>3, <2>4 DEF Stands, Woken
<1>19. CASE Associate
  <2>1. /\ radio.state = "joining" /\ radio' = [radio EXCEPT !.state = "joined"]
        /\ UNCHANGED <<manual, task, gotIp, scan, events>>
    BY <1>19 DEF Associate, Driver
  <2>2. radio'.state = "joined"
    BY <1>1, <2>1 DEF Radio
  <2>3. QED BY <1>3, <2>1, <2>2 DEF Stands, Woken, Ordered, Noted
<1>20. CASE Address
  <2>1. /\ radio.state = "joined" /\ radio' = [radio EXCEPT !.state = "ip"]
        /\ events' = Append(events, "GOT_IP")
        /\ UNCHANGED <<manual, task, gotIp, scan>>
    BY <1>20 DEF Address, Driver
  <2>2. radio'.state = "ip"
    BY <1>1, <2>1 DEF Radio
  <2>3. In(events', "GOT_IP") /\ \A e : In(events, e) => In(events', e)
    BY <1>17, <2>1
  <2>4. Ahead(events', "DISCONNECTED", "GOT_IP")
    BY <1>17, <2>1
  <2>5. QED BY <1>3, <2>1, <2>2, <2>3, <2>4 DEF Stands, Woken, Ordered, Noted
<1>21. CASE LinkLost
  <2>1. /\ Ends(radio) /\ radio' = Idle(radio) /\ events' = Raise(radio, events)
        /\ UNCHANGED <<manual, task, gotIp, scan>>
    BY <1>21 DEF LinkLost, Driver
  <2>2. /\ radio'.state # "off" /\ Ordered(radio', events') /\ Noted(gotIp', radio', events')
        /\ In(events', "DISCONNECTED") /\ \A e : In(events, e) => In(events', e)
    BY <1>1, <1>3, <2>1, Ended
  <2>3. QED BY <1>3, <2>1, <2>2 DEF Stands, Woken
<1>22. ASSUME NEW ap \in MeshAP, OthersChange(ap) PROVE Stands'
  BY <1>3, <1>22 DEF OthersChange, Stands
<1>23. ASSUME NEW p \in Ports, StationManual(p) PROVE Stands'
  <2>1. /\ ~manual /\ manual' = TRUE /\ task' = Delay(Rescan(task), "interval")
        /\ UNCHANGED <<gotIp, radio, scan, events>>
    BY <1>23 DEF StationManual
  <2>2. task'.delay = "interval" /\ task'.enabled = task.enabled
    BY <1>1, <1>4, <1>5, <2>1
  <2>3. QED BY <1>3, <2>1, <2>2 DEF Stands, Woken
<1>24. CASE UNCHANGED vars
  BY <1>3, <1>24 DEF vars, Stands
<1>25. ~Stop
  BY DEF Stop
<1>26. QED
  BY <1>10, <1>11, <1>12, <1>13, <1>14, <1>15, <1>16, <1>18, <1>19, <1>20, <1>21, <1>22, <1>23,
     <1>24, <1>25 DEF Next

-----------------------------------------------------------------------------
(* The theorems.                                                           *)

\* The invariant holds of every state the station can reach, whichever events
\* the driver raises in whichever order (espWifiEventCb, connectToAP).
THEOREM StationCorrect == Spec => []IInv
<1>1. Init => IInv
  <2> SUFFICES ASSUME Init PROVE IInv
    OBVIOUS
  <2>1. radio.state = "idle" /\ ~Ends(radio)
    BY DEF Init, Ends
  <2>2. TypeOK
    <3>1. running \in BOOLEAN /\ manual \in BOOLEAN /\ gotIp \in BOOLEAN
      BY Zenon DEF Init
    <3>2. task \in Tasks /\ radio \in Radio
      BY DEF Init, Tasks, Radio, Callbacks, Delays, States
    <3>3. events \in Seq(Event) /\ conns \in Seq(Conn)
      BY DEF Init, Event
    <3>4. faults \in 0..MaxFaults
      BY BoundAssumption DEF Init
    <3>5. QED BY <3>1, <3>2, <3>3, <3>4, Types DEF Init
  <2>3. task.enabled = TRUE /\ task.delay = "now" /\ gotIp = FALSE
    BY DEF Init
  <2>4. Ahead(events, "GOT_IP", "DISCONNECTED")
    BY DEF Init, Ahead
  <2>5. QED BY <2>1, <2>2, <2>3, <2>4 DEF IInv, Linked, Ordered, Noted, Woken
<1>2. IInv /\ [Next]_vars => IInv'
  BY TypeStep, StandsStep DEF IInv, Stands
<1>3. QED BY <1>1, <1>2, PTL DEF Spec

\* Every variable of the station keeps its type.
THEOREM StationTypes == Spec => []TypeOK
<1>1. IInv => TypeOK
  BY DEF IInv
<1>2. QED BY <1>1, StationCorrect, PTL

\* _station_got_ip is what the driver would say, but for events still to be
\* handled (espWifiEventCb, MeshConnection::close).
THEOREM StationKnows == Spec => []AddressKnown
<1>1. IInv => AddressKnown
  BY DEF IInv, AddressKnown, Noted, In, Coming
<1>2. QED BY <1>1, StationCorrect, PTL

\* A station with nothing under way has its task enabled and not told to wait
\* long (connectToAP, scanComplete, stationScan).
THEOREM StationAwake == Spec => []LooksAgain
<1>1. IInv => LooksAgain
  <2> SUFFICES ASSUME IInv, running, radio.state = "idle", events = <<>>, scan = NoScan
               PROVE  task.enabled /\ task.delay # "long"
    BY DEF LooksAgain
  <2>1. \A e : ~In(events, e)
    BY DEF In
  <2>2. QED BY <2>1 DEF IInv, Woken
<1>2. QED BY <1>1, StationCorrect, PTL
=============================================================================
