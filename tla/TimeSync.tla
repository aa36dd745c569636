------------------------------ MODULE TimeSync ------------------------------
(***************************************************************************)
(* Time synchronisation between the nodes of a mesh that no longer         *)
(* changes: timeSyncTask, adoptionCalc, handleTimeSync, calcAdjustment and *)
(* the delay measurement of handleTimeDelay.                               *)
(*                                                                         *)
(* A clock is what getNodeTime adds to real time, modulo W (2^32 in the    *)
(* code).  A TIME_SYNC message carries a timestamp as the clock it was     *)
(* read from, and the time it is under way is added when it is handled, so *)
(* that real time is no part of the state; only the measurement of a delay *)
(* knows the real time it began at, as it matters there whether a          *)
(* timestamp is 0.  Timers are abstracted to                               *)
(* "due", "soon" (the 200 ms between two tries) and "later" (10 s or       *)
(* 1 min), "later" being longer than any exchange under way.               *)
(***************************************************************************)
EXTENDS Integers, Sequences, FiniteSets, FiniteSetsExt

CONSTANTS
  Node,
  Nets,        \* the meshes: each a set of links <<station, access point>>
  EntryLen,    \* length of a node's entry in a list of subs, without its subs
  W,           \* values of a uint32_t
  Accuracy,    \* TIME_SYNC_ACCURACY
  SmallStep,   \* TASK_SECOND, below which the clock moves in small steps
  MinDelay,    \* how long a message is under way at least
  MaxDelay,    \* bound: how long at most
  Clocks,      \* the clocks the nodes may start with
  Views,       \* what the nodes may know of the mesh at the start, as in subs
  MaxFaults,   \* bound: messages discarded and timestamps that read 0
  MaxSlow,     \* bound: messages that are under way longer than the shortest time
  Measured,    \* who measures the delay to whom
  Moments,     \* when, in real time, a measurement may begin
  MaxProbes    \* bound: delay measurements

ASSUME NetAssumption ==
  /\ IsFiniteSet(Node) /\ Nets \subseteq SUBSET (Node \X Node)
  /\ EntryLen \in [Node -> Nat \ {0}]
ASSUME WordAssumption == W \in Nat /\ W > 1 /\ W % 4 = 0 /\ Clocks \subseteq [Node -> 0..W - 1]
ASSUME TimeAssumption ==
  /\ Accuracy \in Nat \ {0} /\ SmallStep \in Nat /\ MinDelay \in Nat /\ MaxDelay \in Nat
  /\ MinDelay <= MaxDelay
  /\ Accuracy < W \div 2 /\ SmallStep < W \div 2 /\ MaxDelay < W \div 2
ASSUME BoundAssumption == MaxFaults \in Nat /\ MaxSlow \in Nat /\ MaxProbes \in Nat
ASSUME ViewsAssumption == Views \subseteq [Node \X Node -> Nat]
ASSUME MeasuredAssumption ==
  Measured \subseteq {e \in Node \X Node : e[1] # e[2]} /\ Moments \subseteq 0..W - 1

VARIABLES
  net,     \* the links of this mesh; never changes
  clock,   \* timeAdjuster of each node, with what its hardware started at
  subs,    \* length of MeshConnection::subConnections, for each connection
  task,    \* timeSyncTask of each connection
  wire,    \* TIME_SYNC messages on their way from the first to the second
  crossed, \* history: connections whose last exchange saw the clock move under it
  faults,  \* faults so far
  slow,    \* slow messages so far
  probe,   \* the TIME_DELAY exchange under way, if any
  probes   \* delay measurements so far

vars == <<net, clock, subs, task, wire, crossed, faults, slow, probe, probes>>

Pairs == Node \X Node
Neighbours(n) == {p \in Node : <<n, p>> \in net \/ <<p, n>> \in net}
Ends == {e \in Pairs : e[2] \in Neighbours(e[1])}
IsAP(n, p) == <<p, n>> \in net

NoProbe == [at |-> "none"]
Empty == 2  \* the length of "[]"

-----------------------------------------------------------------------------
(* 32-bit arithmetic.                                                      *)

Word(i) == i % W
Signed(x) == IF x < W \div 2 THEN x ELSE x - W
Half(i) == IF i < 0 THEN -((-i) \div 2) ELSE i \div 2

\* calcAdjustment: the offset from t1 - t0 and t2 - t3.
Offset(out, back) == Word(Half(Signed(Word(out))) + Half(Signed(Word(back))))

\* Mutant of Adjustment: a clock is never put back.
AdjustmentForward(offset) == IF Signed(offset) < 0 THEN 0 ELSE offset

\* calcAdjustment: what timeAdjuster moves by.  The comparison is between
\* unsigned numbers, so steps back are never small.
Adjustment(offset) == IF offset < SmallStep /\ offset > 4 THEN offset \div 4 ELSE offset

\* Mutant of Adjusted: the sum is kept in a wider number.
AdjustedWide(c, offset) == c + Adjustment(offset)

\* timeAdjuster after the adjustment.
Adjusted(c, offset) == Word(c + Adjustment(offset))

\* handleTimeSync: whether the exchange was accurate enough.
GoodEnough(offset) == Signed(offset) < Accuracy /\ Signed(offset) > -Accuracy

-----------------------------------------------------------------------------
(* Who adopts whose time.                                                  *)

\* Length of subConnectionJson at n, without p.
SubLength(n, p) ==
  LET others == Neighbours(n) \ {p} IN
  Empty + MapThenSumSet(LAMBDA q : EntryLen[q] + subs[<<n, q>>], others)
        + (IF others = {} THEN 0 ELSE Cardinality(others) - 1)

\* Mutant of Adopts: the side with more nodes adopts.
AdoptsSmaller(n, p) == SubLength(n, p) >= subs[<<n, p>>]

\* adoptionCalc: the side with fewer nodes adopts the time of the other; in a
\* draw the station does.
Adopts(n, p) ==
  /\ SubLength(n, p) <= subs[<<n, p>>]
  /\ ~(SubLength(n, p) = subs[<<n, p>>] /\ IsAP(n, p))

\* NODE_SYNC, which MeshTopology models: n comes to know what p knows.
NodeSync(n, p) ==
  /\ <<n, p>> \in Ends /\ subs[<<n, p>>] # SubLength(p, n)
  /\ subs' = [subs EXCEPT ![<<n, p>>] = SubLength(p, n)]
  /\ UNCHANGED <<net, clock, task, wire, crossed, faults, slow, probe, probes>>

-----------------------------------------------------------------------------
(* The exchange.                                                           *)

Init ==
  /\ net \in Nets
  /\ clock \in Clocks
  /\ subs \in Views
  /\ task = [e \in Pairs |-> IF IsAP(e[1], e[2]) THEN "later" ELSE "due"]
  /\ wire = [e \in Pairs |-> <<>>]
  /\ crossed = {} /\ faults = 0 /\ slow = 0 /\ probe = NoProbe /\ probes = 0

\* sendMessage with priority: the message goes before those that still wait
\* in the SentBuffer and behind those that have left.  Where memory is low it
\* is discarded.
Send(w, n, p, msg) ==
  \/ /\ wire' \in {[w EXCEPT ![<<n, p>>] = Append(@, msg)],
                   [w EXCEPT ![<<n, p>>] = <<msg>> \o @]}
     /\ UNCHANGED faults
  \/ wire' = w /\ faults < MaxFaults /\ faults' = faults + 1

\* A message is under way for d.
Takes(d) == slow' = (IF d = MinDelay THEN slow ELSE slow + 1) /\ slow' <= MaxSlow

\* timeSyncTask calls startTimeSync and is due again after its interval.
TimeSyncTask(n, p) ==
  /\ <<n, p>> \in Ends /\ task[<<n, p>>] = "due"
  /\ task' = [task EXCEPT ![<<n, p>>] = "later"]
  /\ Send(wire, n, p, IF Adopts(n, p) THEN [type |-> "TIME_REQUEST", t0 |-> clock[n]]
                      ELSE [type |-> "TIME_SYNC_REQUEST"])
  /\ UNCHANGED <<net, clock, subs, crossed, slow, probe, probes>>

\* TIME_SYNC_REQUEST: the other side asks to be asked.
HandleSyncRequest(n, p, msg, w) ==
  /\ msg.type = "TIME_SYNC_REQUEST"
  /\ Send(w, n, p, [type |-> "TIME_REQUEST", t0 |-> clock[n]])
  /\ UNCHANGED <<clock, task, crossed, slow>>

\* TIME_REQUEST: t1, when it was received, and t2 go back with t0.
HandleRequest(n, p, msg, w) ==
  /\ msg.type = "TIME_REQUEST"
  /\ task' = [task EXCEPT ![<<n, p>>] = "later"]
  /\ \E d \in MinDelay..MaxDelay :
       /\ Takes(d)
       /\ Send(w, n, p, [type |-> "TIME_RESPONSE", t0 |-> msg.t0,
                         out |-> Word(clock[n] + d - msg.t0), t2 |-> clock[n]])
  /\ UNCHANGED <<clock, crossed>>

\* Mutant of AfterResponse: the other connections are not brought forward.
AfterResponseAlone(n, p, good) ==
  [task EXCEPT ![<<n, p>>] = IF good THEN "later" ELSE "soon"]

\* After a good exchange this connection rests and all others are brought
\* forward; after a bad one it is tried again.
AfterResponse(n, p, good) ==
  [e \in Pairs |->
    IF e = <<n, p>> THEN IF good THEN "later" ELSE "soon"
    ELSE IF good /\ e \in Ends /\ e[1] = n THEN "due"
    ELSE task[e]]

\* TIME_RESPONSE: calcAdjustment moves the clock.  A timestamp that happens
\* to be 0 is missing in the message; the offset is then 0x7FFFFFFF, which
\* only makes the node try again.
HandleResponse(n, p, msg, w) ==
  /\ msg.type = "TIME_RESPONSE"
  /\ wire' = w
  /\ \/ \E d \in MinDelay..MaxDelay :
          LET offset == Offset(msg.out, msg.t2 - clock[n] - d) IN
          /\ Takes(d)
          /\ clock' = [clock EXCEPT ![n] = Adjusted(@, offset)]
          /\ task' = AfterResponse(n, p, GoodEnough(offset))
          /\ crossed' = IF clock[n] = msg.t0 THEN crossed \ {<<n, p>>}
                        ELSE crossed \cup {<<n, p>>}
          /\ UNCHANGED faults
     \/ /\ faults < MaxFaults /\ faults' = faults + 1
        /\ task' = AfterResponse(n, p, GoodEnough(W \div 2 - 1))
        /\ UNCHANGED <<clock, crossed, slow>>

\* handleTimeSync for the message that arrives first.
HandleTimeSync(n, p) ==
  /\ <<n, p>> \in Ends /\ wire[<<p, n>>] # <<>>
  /\ LET msg == Head(wire[<<p, n>>])
         w == [wire EXCEPT ![<<p, n>>] = Tail(@)]
     IN \/ HandleSyncRequest(n, p, msg, w)
        \/ HandleRequest(n, p, msg, w)
        \/ HandleResponse(n, p, msg, w)
  /\ UNCHANGED <<net, subs, probe, probes>>

\* The 200 ms after a bad exchange pass.
Retry(n, p) ==
  /\ task[<<n, p>>] = "soon"
  /\ task' = [task EXCEPT ![<<n, p>>] = "due"]
  /\ UNCHANGED <<net, clock, subs, wire, crossed, faults, slow, probe, probes>>

\* Nothing is due, will soon be or is on its way.
Calm == \A e \in Ends : task[e] = "later" /\ wire[e] = <<>>

\* The interval of a task passes.
Interval(n, p) ==
  /\ <<n, p>> \in Ends /\ Calm
  /\ task' = [task EXCEPT ![<<n, p>>] = "due"]
  /\ UNCHANGED <<net, clock, subs, wire, crossed, faults, slow, probe, probes>>

-----------------------------------------------------------------------------
(* The delay measurement.                                                  *)

\* startDelayMeas: TIME_REQUEST with t0, routed to any other node of the
\* mesh, at any point of real time.
StartDelayMeas(n, m) ==
  /\ <<n, m>> \in Measured /\ Neighbours(n) # {} /\ Neighbours(m) # {}
  /\ probe.at \in {"none", "done"} /\ probes < MaxProbes
  /\ \E now \in Moments :
       probe' = [at |-> "request", from |-> n, dest |-> m, now |-> now,
                 t0 |-> Word(clock[n] + now)]
  /\ probes' = probes + 1
  /\ UNCHANGED <<net, clock, subs, task, wire, crossed, faults, slow>>

\* handleTimeDelay, TIME_REQUEST: answered with t1, when it was received, and t2.
AnswerDelayMeas ==
  /\ probe.at = "request"
  /\ \E d \in MinDelay..MaxDelay, h \in 0..MaxDelay :
       /\ Takes(d + h)
       /\ probe' = [at |-> "response", from |-> probe.from, now |-> probe.now,
                    t0 |-> probe.t0,
                    t1 |-> Word(clock[probe.dest] + probe.now + d),
                    t2 |-> Word(clock[probe.dest] + probe.now + d + h),
                    trip |-> d, held |-> h]
  /\ UNCHANGED <<net, clock, subs, task, wire, crossed, faults, probes>>

\* Mutant of DelayCalc: the stamps are not looked at.
DelayCalcUnchecked(t0, t1, t2, t3) == Word(Word(t3 - t0) - Word(t2 - t1)) \div 2

\* delayCalc, in unsigned arithmetic.  A stamp of 0 is left out of the message
\* and taken for one that is missing, also where it is the time.
DelayCalc(t0, t1, t2, t3) ==
  IF 0 \in {t0, t1, t2, t3} THEN -1 ELSE Word(Word(t3 - t0) - Word(t2 - t1)) \div 2

\* handleTimeDelay, TIME_RESPONSE: the delay is given to the application.
\* History: what both messages took, what the clock was adjusted by meanwhile,
\* and whether it was 0 on a clock when it was read.
NodeDelayReceived ==
  /\ probe.at = "response"
  /\ \E d \in MinDelay..MaxDelay :
       LET t3 == Word(clock[probe.from] + probe.now + probe.trip + probe.held + d) IN
       /\ Takes(d)
       /\ probe' = [at |-> "done", trip |-> probe.trip + d,
                    shift |-> Word(clock[probe.from] + probe.now - probe.t0),
                    zero |-> 0 \in {probe.t0, probe.t1, probe.t2, t3},
                    delay |-> DelayCalc(probe.t0, probe.t1, probe.t2, t3)]
  /\ UNCHANGED <<net, clock, subs, task, wire, crossed, faults, probes>>

Next ==
  \/ \E n, p \in Node :
       \/ NodeSync(n, p) \/ TimeSyncTask(n, p) \/ HandleTimeSync(n, p)
       \/ Retry(n, p) \/ Interval(n, p) \/ StartDelayMeas(n, p)
  \/ AnswerDelayMeas \/ NodeDelayReceived

Spec == Init /\ [][Next]_vars
=============================================================================
