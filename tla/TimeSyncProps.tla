--------------------------- MODULE TimeSyncProps ----------------------------
(* The properties of time synchronisation, over TimeSync.                  *)
EXTENDS TimeSync

\* Type correctness.
TypeOK ==
  /\ net \in Nets /\ clock \in [Node -> 0..W - 1]
  /\ subs \in [Pairs -> Nat]
  /\ task \in [Pairs -> {"due", "soon", "later"}]
  /\ wire \in [Pairs -> Seq(
       [type : {"TIME_SYNC_REQUEST"}] \cup [type : {"TIME_REQUEST"}, t0 : 0..W - 1]
       \cup [type : {"TIME_RESPONSE"}, t0 : 0..W - 1, out : 0..W - 1, t2 : 0..W - 1])]
  /\ crossed \subseteq Ends
  /\ faults \in 0..MaxFaults /\ slow \in 0..MaxSlow /\ probes \in 0..MaxProbes
  /\ probe.at \in {"none", "request", "response", "done"}

\* How far two clocks are apart, either way round.
Distance(a, b) == Min({Word(a - b), Word(b - a)})
Tolerance == Accuracy + MaxDelay - MinDelay
Agree(n, p) == Distance(clock[n], clock[p]) <= Tolerance

\* Half of the range apart the two halves of the offset have opposite signs
\* and cancel out.
Opposite(n, p) == Distance(clock[n], clock[p]) >= W \div 2 - 2 * MaxDelay + MinDelay

Crossed(n, p) == {<<n, p>>, <<p, n>>} \cap crossed # {}

\* When no time synchronisation is due or under way the clocks of all
\* neighbours agree: a node that adjusts its clock brings its other
\* connections forward, at whatever point of their own exchanges they are
\* (handleTimeSync, calcAdjustment).  Three cases are excepted: clocks half
\* of the range apart, a message lost, and an exchange during which the
\* clock it was started with moved.
QuietAgrees ==
  Calm /\ faults = 0 =>
    \A e \in Ends : Agree(e[1], e[2]) \/ Opposite(e[1], e[2]) \/ Crossed(e[1], e[2])

\* The delay reported is half of what both messages took and of what the
\* clock of the node that measures was adjusted by meanwhile, whatever the
\* clocks of the two nodes are, wherever they wrap and however long the answer
\* took.  It is -1, an error, if the time was 0 on one of the clocks when it
\* was read, and only then (handleTimeDelay, delayCalc).
DelayReal ==
  probe.at = "done" =>
    probe.delay = IF probe.zero THEN -1 ELSE Word(probe.trip + probe.shift) \div 2

\* Fairness.  Messages arrive and the loop of each node goes on while
\* anything is due; nodeSyncTask and the interval of timeSyncTask come again
\* and again.
Work == \E n, p \in Node : TimeSyncTask(n, p) \/ HandleTimeSync(n, p) \/ Retry(n, p)
WorkSpec == Spec /\ WF_vars(Work)
\* The ends of every link of every mesh looked at.
EverEnds == UNION {t \cup {<<e[2], e[1]>> : e \in t} : t \in Nets}
FairSpec ==
  /\ WorkSpec
  /\ \A e \in EverEnds : WF_vars(NodeSync(e[1], e[2])) /\ SF_vars(Interval(e[1], e[2]))

\* The wave of synchronisations that one adjustment sets off dies out: once
\* the nodes know who is behind each connection nobody adopts the time of two
\* neighbours, so that it only runs away from where it began (adoptionCalc,
\* handleTimeSync).
WaveEnds == []<>Calm

\* The clocks of neighbours agree in the end, whatever the clocks they start
\* with, the views of the mesh they start from, and whatever messages are
\* lost; only clocks half of the range apart may stay so.
Converges == <>[](\A e \in Ends : Agree(e[1], e[2]) \/ Opposite(e[1], e[2]))
=============================================================================
