--------------------------- MODULE TimeSync_proofs --------------------------
(***************************************************************************)
(* Proofs about time synchronisation: its types, and that the delay that   *)
(* is measured is real whatever the clocks are.                            *)
(***************************************************************************)
EXTENDS TimeSyncProps, SeqFilter_proofs

Stamp == 0..(W - 1)
Message ==
  [type : {"TIME_SYNC_REQUEST"}] \cup [type : {"TIME_REQUEST"}, t0 : Stamp]
  \cup [type : {"TIME_RESPONSE"}, t0 : Stamp, out : Stamp, t2 : Stamp]
Wires == [Pairs -> Seq(Message)]
Tasks == [Pairs -> {"due", "soon", "later"}]

\* What the exchange that measures a delay has come to: how long the first
\* message was under way, how long the other node held it, which is what its
\* two stamps are apart, and what is reported in the end.
Probed ==
  /\ probe.at \in {"none", "request", "response", "done"}
  /\ probe.at = "request" =>
       /\ probe.from \in Node /\ probe.dest \in Node
       /\ probe.now \in Stamp /\ probe.t0 \in Stamp
  /\ probe.at = "response" =>
       /\ probe.from \in Node /\ probe.now \in Stamp
       /\ probe.t0 \in Stamp /\ probe.t1 \in Stamp /\ probe.t2 \in Stamp
       /\ probe.trip \in 0..MaxDelay /\ probe.held \in 0..MaxDelay
       /\ Word(probe.t2 - probe.t1) = probe.held
  /\ probe.at = "done" =>
       probe.delay = IF probe.zero THEN -1 ELSE Word(probe.trip + probe.shift) \div 2

IInv == TypeOK /\ Probed

-----------------------------------------------------------------------------
(* Words.                                                                  *)

LEMMA WordType == ASSUME NEW i \in Int PROVE Word(i) \in 0..(W - 1)
BY WordAssumption DEF Word

\* A number and its remainder.
LEMMA Remainder ==
  ASSUME NEW k \in Int, NEW r \in 0..(W - 1)
  PROVE  Word(k * W + r) = r
<1>1. W \in Nat /\ W > 0
  BY WordAssumption
<1>2. PICK y \in Int : y = k * W + r
  BY <1>1
<1>3. PICK q \in Int : q = y \div W
  BY <1>1
<1>4. PICK s \in 0..(W - 1) : s = y % W
  BY <1>1
<1>5. y = q * W + s
  BY <1>1, <1>3, <1>4
<1>6. (k - q) * W = s - r
  BY <1>1, <1>2, <1>5
<1>7. s - r < W /\ r - s < W
  BY <1>1
<1>8. ASSUME NEW d \in Int, d >= 1 PROVE d * W >= W
  <2>1. (d - 1) * W >= 0
    BY <1>1, <1>8
  <2>2. QED BY <1>1, <2>1
<1>9. ~(k - q >= 1)
  BY <1>1, <1>6, <1>7, <1>8
<1>10. ~(q - k >= 1)
  <2>1. (q - k) * W = r - s
    BY <1>1, <1>6
  <2>2. QED BY <1>1, <1>7, <1>8, <2>1
<1>11. k = q
  BY <1>9, <1>10
<1>12. QED BY <1>1, <1>2, <1>4, <1>5, <1>11 DEF Word

\* What is less than W stays as it is, and a remainder may be taken before a
\* sum or after it.
LEMMA WordSmall == ASSUME NEW i \in 0..(W - 1) PROVE Word(i) = i
<1>1. 0 * W + i = i
  BY WordAssumption
<1>2. QED BY <1>1, Remainder, 0 \in Int

LEMMA Quotient == ASSUME NEW i \in Int PROVE \E q \in Int : i = q * W + Word(i)
<1>1. W \in Nat /\ W > 0
  BY WordAssumption
<1>2. PICK q \in Int : i = q * W + Word(i)
  BY <1>1 DEF Word
<1>3. QED BY <1>2

LEMMA WordSum ==
  ASSUME NEW a \in Int, NEW b \in Int
  PROVE  Word(Word(a) + b) = Word(a + b)
<1>1. W \in Nat /\ W > 0
  BY WordAssumption
<1>2. PICK q \in Int : a = q * W + Word(a)
  BY Quotient
<1>3. PICK x \in Int : x = Word(a) + b
  BY WordType
<1>4. PICK k \in Int, r \in 0..(W - 1) : x = k * W + r
  <2>1. x = (x \div W) * W + (x % W) /\ x \div W \in Int /\ x % W \in 0..(W - 1)
    BY <1>1
  <2>2. QED BY <2>1
<1>5. Word(x) = r
  BY <1>4, Remainder
<1>6. a + b = (q + k) * W + r
  BY <1>1, <1>2, <1>3, <1>4, WordType
<1>7. q + k \in Int
  OBVIOUS
<1>8. Word(a + b) = r
  BY <1>6, <1>7, Remainder
<1>9. QED BY <1>3, <1>5, <1>8

LEMMA HalfType == ASSUME NEW i \in Int PROVE Half(i) \in Int
BY DEF Half

LEMMA SignedType == ASSUME NEW i \in Int PROVE Signed(i) \in Int
BY WordAssumption DEF Signed

LEMMA OffsetType ==
  ASSUME NEW out \in Int, NEW back \in Int
  PROVE  Offset(out, back) \in 0..(W - 1)
<1>1. Word(out) \in Int /\ Word(back) \in Int
  BY WordType, WordAssumption
<1>2. Half(Signed(Word(out))) + Half(Signed(Word(back))) \in Int
  BY <1>1, HalfType, SignedType
<1>3. QED BY <1>2, WordType DEF Offset

LEMMA AdjustedType ==
  ASSUME NEW c \in 0..(W - 1), NEW offset \in 0..(W - 1)
  PROVE  Adjusted(c, offset) \in 0..(W - 1)
<1>1. Adjustment(offset) \in Int
  BY DEF Adjustment
<1>2. c + Adjustment(offset) \in Int
  BY <1>1
<1>3. QED BY <1>2, WordType DEF Adjusted

\* delayCalc: what is left of the time between t0 and t3, when s of it passed
\* on the way and h at the other node, and c is what t3 would read without
\* them.
LEMMA DelayCalcFacts ==
  ASSUME NEW t0 \in 0..(W - 1), NEW t1 \in 0..(W - 1), NEW t2 \in 0..(W - 1),
         NEW c \in Int, NEW s \in Nat, NEW h \in Nat, Word(t2 - t1) = h,
         NEW t3, t3 = Word(c + s + h), 0 \notin {t0, t1, t2, t3}
  PROVE  DelayCalc(t0, t1, t2, t3) = Word(s + Word(c - t0)) \div 2
<1>1. /\ c + s + h \in Int /\ -t0 \in Int /\ c - t0 \in Int /\ c - t0 + s \in Int
      /\ c - t0 + s + h \in Int /\ -h \in Int /\ W \in Nat
  BY WordAssumption
<1>2. Word(t3 - t0) = Word(c - t0 + s + h)
  <2>1. Word(Word(c + s + h) + (-t0)) = Word((c + s + h) + (-t0))
    BY <1>1, WordSum
  <2>2. (c + s + h) + (-t0) = c - t0 + s + h
    BY <1>1
  <2>3. t3 + (-t0) = t3 - t0
    BY <1>1, WordType
  <2>4. QED BY <2>1, <2>2, <2>3
<1>3. Word(Word(c - t0 + s + h) - h) = Word(c - t0 + s)
  <2>1. Word(Word(c - t0 + s + h) + (-h)) = Word((c - t0 + s + h) + (-h))
    BY <1>1, WordSum
  <2>2. (c - t0 + s + h) + (-h) = c - t0 + s
    BY <1>1
  <2>3. Word(c - t0 + s + h) + (-h) = Word(c - t0 + s + h) - h
    BY <1>1, WordType
  <2>4. QED BY <2>1, <2>2, <2>3
<1>4. Word(c - t0 + s) = Word(s + Word(c - t0))
  <2>1. Word(Word(c - t0) + s) = Word(c - t0 + s)
    BY <1>1, WordSum
  <2>2. Word(c - t0) + s = s + Word(c - t0)
    BY <1>1, WordType
  <2>3. QED BY <2>1, <2>2
<1>5. DelayCalc(t0, t1, t2, t3) = Word(Word(t3 - t0) - Word(t2 - t1)) \div 2
  BY DEF DelayCalc
<1>6. QED BY <1>2, <1>3, <1>4, <1>5

-----------------------------------------------------------------------------
(* Lengths.                                                                *)

\* The length of subConnectionJson is a number.  The sum over a set is a
\* recursive function of its subsets: there is one, since there is one for
\* the subsets of each size, and it is a number for each subset, since there
\* is no smallest one for which it is not.
LEMMA SubLengthType ==
  ASSUME subs \in [Pairs -> Nat], NEW n \in Node, NEW p
  PROVE  SubLength(n, p) \in Nat
<1> DEFINE S == Neighbours(n) \ {p}
           c(q) == EntryLen[q] + subs[<<n, q>>]
           one(s) == CHOOSE x \in s : TRUE
           Total(g, s) == IF s = {} THEN 0 ELSE c(one(s)) + g[s \ {one(s)}]
           Sums(g) == g = [s \in SUBSET S |-> Total(g, s)]
           sum == CHOOSE g : Sums(g)
<1>1. S \subseteq Node /\ IsFiniteSet(S)
  <2>1. S \in SUBSET Node
    BY DEF Neighbours
  <2>2. QED BY <2>1, NetAssumption, FS_Subset
<1>2. \A q \in S : c(q) \in Nat
  BY <1>1, NetAssumption DEF Pairs
<1>3. SubLength(n, p) = Empty + sum[S] + (IF S = {} THEN 0 ELSE Cardinality(S) - 1)
  BY DEF SubLength, MapThenSumSet, MapThenFoldSet
<1>4. \A s \in SUBSET S : /\ IsFiniteSet(s) /\ Cardinality(s) \in Nat
                          /\ Cardinality(s) <= Cardinality(S)
  BY <1>1, FS_Subset, FS_CardinalityType
<1>5. \A s \in SUBSET S : s # {} =>
        /\ one(s) \in s /\ one(s) \in S /\ s \ {one(s)} \in SUBSET S
        /\ Cardinality(s) > 0 /\ Cardinality(s \ {one(s)}) = Cardinality(s) - 1
  <2>1. ASSUME NEW s \in SUBSET S, s # {}
        PROVE  /\ one(s) \in s /\ one(s) \in S /\ s \ {one(s)} \in SUBSET S
               /\ Cardinality(s) > 0 /\ Cardinality(s \ {one(s)}) = Cardinality(s) - 1
    <3>1. one(s) \in s
      BY <2>1
    <3> HIDE DEF one, S
    <3>2. Cardinality(s \ {one(s)}) = Cardinality(s) - 1
      BY <1>4, <3>1, FS_RemoveElement
    <3>3. Cardinality(s) # 0
      BY <1>4, <2>1, FS_EmptySet
    <3>4. QED BY <1>4, <3>1, <3>2, <3>3
  <2>2. QED BY <2>1
<1> HIDE DEF c, one, S
<1> DEFINE Size(s) == Cardinality(s)
           N == Cardinality(S)
           UpTo(g, k) == /\ g = [s \in SUBSET S |-> g[s]]
                         /\ \A s \in SUBSET S : Size(s) < k => g[s] = Total(g, s)
           Good(k) == \E g : UpTo(g, k)
           Bad == {k \in 1..(N + 1) : ~Good(k)}
<1>6. N \in Nat
  BY <1>4
<1>7. Bad = {}
  <2>1. SUFFICES ASSUME Bad # {} PROVE FALSE
    OBVIOUS
  <2>2. PICK k \in Bad : \A m \in Bad : k <= m
    <3> HIDE DEF Good, N
    <3>1. N + 1 \in Nat
      BY <1>6
    <3>2. QED BY <2>1, <3>1, LeastPlace
  <2>3. k \in 1..(N + 1) /\ k \in Nat /\ ~Good(k)
    <3> HIDE DEF Good, N
    <3>1. QED BY <1>6
  <2>4. Good(k - 1)
    <3>1. CASE k = 1
      <4> DEFINE g == [s \in SUBSET S |-> 0]
      <4>1. \A s \in SUBSET S : ~(Size(s) < 0)
        BY <1>4
      <4>2. UpTo(g, 0)
        <5> HIDE DEF Size, Total
        <5>1. QED BY <4>1
      <4> HIDE DEF g, UpTo
      <4>3. Good(0) /\ k - 1 = 0
        BY <3>1, <4>2
      <4>4. QED BY <4>3
    <3>2. CASE k # 1
      <4> HIDE DEF Good, N
      <4>1. k - 1 \in 1..(N + 1) /\ ~(k <= k - 1)
        BY <1>6, <2>3, <3>2
      <4>2. QED BY <2>2, <4>1
    <3>3. QED BY <3>1, <3>2
  <2>5. PICK f : UpTo(f, k - 1)
    BY <2>4
  <2> DEFINE g == [s \in SUBSET S |-> IF Size(s) < k - 1 THEN f[s] ELSE Total(f, s)]
  <2>6. \A s \in SUBSET S : Size(s) < k - 1 => g[s] = f[s] /\ f[s] = Total(f, s)
    BY <2>5
  <2>7. \A s \in SUBSET S : g[s] = Total(f, s)
    <3> HIDE DEF Size
    <3>1. QED BY <2>6
  <2>8. ASSUME NEW s \in SUBSET S, Size(s) < k PROVE Total(g, s) = Total(f, s)
    <3>1. CASE s = {}
      BY <3>1
    <3>2. CASE s # {}
      <4>1. PICK r \in SUBSET S : r = s \ {one(s)} /\ Size(r) = Size(s) - 1
        BY <1>5, <3>2
      <4>2. Size(s) \in Nat
        BY <1>4
      <4> HIDE DEF Size
      <4>3. Size(r) < k - 1
        BY <2>3, <2>8, <4>1, <4>2
      <4>4. g[r] = f[r]
        BY <2>6, <4>3
      <4>5. QED BY <3>2, <4>1, <4>4
    <3>3. QED BY <3>1, <3>2
  <2>9. UpTo(g, k)
    <3>1. g = [s \in SUBSET S |-> g[s]]
      OBVIOUS
    <3>2. \A s \in SUBSET S : Size(s) < k => g[s] = Total(g, s)
      <4> HIDE DEF g, Size, Total
      <4>1. QED BY <2>7, <2>8
    <3> HIDE DEF g, Size, Total
    <3>3. QED BY <3>1, <3>2
  <2> HIDE DEF g, UpTo
  <2>10. Good(k)
    BY <2>9
  <2>11. QED BY <2>3, <2>10
<1>8. \E g : Sums(g)
  <2>1. N + 1 \in 1..(N + 1) /\ \A s \in SUBSET S : Size(s) < N + 1
    BY <1>4, <1>6
  <2>2. Good(N + 1)
    <3> HIDE DEF Good, N
    <3>1. QED BY <1>7, <2>1
  <2>3. PICK g : UpTo(g, N + 1)
    BY <2>2
  <2>4. \A s \in SUBSET S : g[s] = Total(g, s)
    <3> HIDE DEF Size, Total, N
    <3>1. QED BY <2>1, <2>3
  <2>5. g = [s \in SUBSET S |-> g[s]]
    BY <2>3
  <2>6. Sums(g)
    <3> HIDE DEF Total
    <3>1. QED BY <2>4, <2>5
  <2>7. QED BY <2>6
<1>9. Sums(sum)
  <2> HIDE DEF Sums
  <2>1. QED BY <1>8
<1> HIDE DEF sum
<1>10. \A s \in SUBSET S : sum[s] = Total(sum, s)
  BY <1>9
<1> DEFINE Wrong == {k \in 1..(N + 1) : \E s \in SUBSET S : k = Size(s) + 1 /\ sum[s] \notin Nat}
<1>11. Wrong = {}
  <2>1. SUFFICES ASSUME Wrong # {} PROVE FALSE
    OBVIOUS
  <2>2. PICK k \in Wrong : \A m \in Wrong : k <= m
    <3> HIDE DEF N
    <3>1. N + 1 \in Nat
      BY <1>6
    <3>2. QED BY <2>1, <3>1, LeastPlace
  <2>3. PICK s \in SUBSET S : k = Size(s) + 1 /\ sum[s] \notin Nat
    BY <2>2
  <2>4. sum[s] = Total(sum, s)
    BY <1>10
  <2>5. s # {}
    BY <2>3, <2>4
  <2>6. PICK x \in S : x = one(s)
    BY <1>5, <2>5
  <2>7. PICK r \in SUBSET S : r = s \ {x} /\ Size(r) = Size(s) - 1
    BY <1>5, <2>5, <2>6
  <2>8. sum[s] = c(x) + sum[r]
    BY <2>4, <2>5, <2>6, <2>7
  <2>9. Size(r) + 1 \in 1..(N + 1) /\ ~(k <= Size(r) + 1)
    BY <1>4, <1>6, <2>3, <2>7
  <2>10. sum[r] \in Nat
    BY <2>2, <2>9
  <2>11. QED BY <1>2, <2>3, <2>6, <2>8, <2>10
<1>12. sum[S] \in Nat
  <2>1. S \in SUBSET S /\ Size(S) + 1 \in 1..(N + 1)
    BY <1>4, <1>6
  <2>2. QED BY <1>11, <2>1
<1>13. S # {} => Cardinality(S) - 1 \in Nat
  BY <1>1, <1>4, FS_EmptySet
<1>14. QED BY <1>3, <1>12, <1>13 DEF Empty

-----------------------------------------------------------------------------
(* The actions.                                                            *)

\* The types of what a state holds.
LEMMA TypeFacts ==
  ASSUME TypeOK
  PROVE  /\ clock \in [Node -> Stamp] /\ subs \in [Pairs -> Nat] /\ task \in Tasks
         /\ wire \in Wires /\ W \in Nat /\ W > 1
BY WordAssumption DEF TypeOK, Stamp, Message, Wires, Tasks

LEMMA TypeIs ==
  ASSUME net \in Nets, clock \in [Node -> Stamp], subs \in [Pairs -> Nat], task \in Tasks,
         wire \in Wires, crossed \subseteq Ends, faults \in 0..MaxFaults, slow \in 0..MaxSlow,
         probes \in 0..MaxProbes, Probed
  PROVE  TypeOK
BY DEF TypeOK, Stamp, Message, Wires, Tasks, Probed

LEMMA SendType ==
  ASSUME NEW w \in Wires, NEW n \in Node, NEW p \in Node, NEW msg \in Message,
         faults \in 0..MaxFaults, Send(w, n, p, msg)
  PROVE  wire' \in Wires /\ faults' \in 0..MaxFaults
<1>1. PICK e \in Pairs : e = <<n, p>>
  BY DEF Pairs
<1>2. w[e] \in Seq(Message) /\ Append(w[e], msg) \in Seq(Message)
      /\ <<msg>> \o w[e] \in Seq(Message)
  BY DEF Wires
<1>3. ASSUME NEW s \in Seq(Message) PROVE [w EXCEPT ![e] = s] \in Wires
  BY DEF Wires
<1>4. \/ /\ wire' = [w EXCEPT ![e] = Append(w[e], msg)] \/ wire' = [w EXCEPT ![e] = <<msg>> \o w[e]]
         /\ faults' = faults
      \/ wire' = w /\ faults < MaxFaults /\ faults' = faults + 1
  BY <1>1 DEF Send
<1>5. wire' \in Wires
  BY <1>2, <1>3, <1>4
<1>6. faults' \in 0..MaxFaults
  BY <1>4, BoundAssumption
<1>7. QED BY <1>5, <1>6

LEMMA TakesType ==
  ASSUME slow \in 0..MaxSlow, NEW d, Takes(d)
  PROVE  slow' \in 0..MaxSlow
BY BoundAssumption DEF Takes

\* The delays are numbers.
LEMMA DelayFacts ==
  /\ MinDelay \in Nat /\ MaxDelay \in Nat /\ 2 * MaxDelay < W
  /\ MinDelay..MaxDelay \subseteq 0..MaxDelay
<1>1. MinDelay \in Nat /\ MaxDelay \in Nat /\ MaxDelay < W \div 2 /\ W \in Nat
  BY TimeAssumption, WordAssumption
<1>2. 2 * MaxDelay < W
  BY <1>1
<1>3. QED BY <1>1, <1>2

\* The tasks after an exchange.
LEMMA AfterResponseType ==
  ASSUME task \in Tasks, NEW n, NEW p, NEW good
  PROVE  AfterResponse(n, p, good) \in Tasks
BY DEF AfterResponse, Tasks

LEMMA NodeSyncStep ==
  ASSUME IInv, NEW n \in Node, NEW p \in Node, NodeSync(n, p)
  PROVE  IInv'
<1> USE DEF IInv
<1>1. SubLength(p, n) \in Nat
  BY TypeFacts, SubLengthType
<1>2. subs' \in [Pairs -> Nat]
  BY <1>1, TypeFacts DEF NodeSync
<1>3. Ends' = Ends
  BY DEF NodeSync, Ends, Neighbours
<1>4. QED BY <1>2, <1>3 DEF NodeSync, TypeOK, Probed

LEMMA TimeSyncTaskStep ==
  ASSUME IInv, NEW n \in Node, NEW p \in Node, TimeSyncTask(n, p)
  PROVE  IInv'
<1> USE DEF IInv
<1>1. PICK msg : /\ msg \in {[type |-> "TIME_REQUEST", t0 |-> clock[n]], [type |-> "TIME_SYNC_REQUEST"]}
                 /\ Send(wire, n, p, msg)
  BY DEF TimeSyncTask
<1>2. msg \in Message
  BY <1>1, TypeFacts DEF Message
<1>3. wire' \in Wires /\ faults' \in 0..MaxFaults
  BY <1>1, <1>2, SendType, TypeFacts DEF TypeOK
<1>4. task' \in Tasks
  BY TypeFacts DEF TimeSyncTask, Tasks
<1>5. Ends' = Ends /\ Probed'
  BY DEF TimeSyncTask, Ends, Neighbours, Probed
<1>6. TypeOK'
  BY <1>3, <1>4, <1>5 DEF TimeSyncTask, TypeOK, Wires, Message, Tasks, Stamp
<1>7. QED BY <1>5, <1>6

LEMMA RetryStep ==
  ASSUME IInv, NEW n \in Node, NEW p \in Node, Retry(n, p) \/ Interval(n, p)
  PROVE  IInv'
<1> USE DEF IInv
<1>1. task' \in Tasks
  BY TypeFacts DEF Retry, Interval, Tasks
<1>2. Ends' = Ends /\ Probed'
  BY DEF Retry, Interval, Ends, Neighbours, Probed
<1>3. QED BY <1>1, <1>2 DEF Retry, Interval, TypeOK, Tasks

LEMMA HandleTimeSyncStep ==
  ASSUME IInv, NEW n \in Node, NEW p \in Node, HandleTimeSync(n, p)
  PROVE  IInv'
<1> USE DEF IInv
<1>1. PICK e \in Pairs : e = <<p, n>>
  BY DEF Pairs
<1>2. PICK msg, w : msg = Head(wire[e]) /\ w = [wire EXCEPT ![e] = Tail(@)]
  OBVIOUS
<1>3. msg \in Message /\ w \in Wires
  <2>1. wire[e] \in Seq(Message) /\ wire[e] # <<>>
    BY <1>1, TypeFacts DEF HandleTimeSync, Wires
  <2>2. Head(wire[e]) \in Message /\ Tail(wire[e]) \in Seq(Message)
    BY <2>1
  <2>3. QED BY <1>2, <2>2, TypeFacts DEF Wires
<1>4. /\ \/ HandleSyncRequest(n, p, msg, w)
         \/ HandleRequest(n, p, msg, w)
         \/ HandleResponse(n, p, msg, w)
      /\ net' = net /\ subs' = subs /\ probe' = probe /\ probes' = probes /\ <<n, p>> \in Ends
  BY <1>1, <1>2 DEF HandleTimeSync
<1>5. Ends' = Ends
  BY <1>4 DEF Ends, Neighbours
<1>6. clock[n] \in Stamp /\ faults \in 0..MaxFaults /\ slow \in 0..MaxSlow /\ crossed \subseteq Ends
      /\ W \in Nat /\ W > 1
  BY TypeFacts DEF TypeOK
<1>7. CASE HandleSyncRequest(n, p, msg, w)
  <2>1. PICK answer : answer = [type |-> "TIME_REQUEST", t0 |-> clock[n]]
    OBVIOUS
  <2>2. answer \in Message
    BY <1>6, <2>1 DEF Message
  <2>3. wire' \in Wires /\ faults' \in 0..MaxFaults
    BY <1>3, <1>6, <1>7, <2>1, <2>2, SendType DEF HandleSyncRequest
  <2>4. QED BY <1>4, <1>5, <1>7, <2>3
            DEF HandleSyncRequest, TypeOK, Wires, Message, Stamp, Probed
<1>8. CASE HandleRequest(n, p, msg, w)
  <2>1. PICK d \in MinDelay..MaxDelay :
          /\ Takes(d)
          /\ Send(w, n, p, [type |-> "TIME_RESPONSE", t0 |-> msg.t0,
                            out |-> Word(clock[n] + d - msg.t0), t2 |-> clock[n]])
    BY <1>8 DEF HandleRequest
  <2>2. msg.t0 \in Stamp
    BY <1>3, <1>8 DEF Message, HandleRequest
  <2>3. PICK out \in Stamp : out = Word(clock[n] + d - msg.t0)
    <3>1. clock[n] + d - msg.t0 \in Int
      BY <1>6, <2>2, DelayFacts DEF Stamp
    <3>2. QED BY <3>1, WordType DEF Stamp
  <2>4. PICK answer : answer = [type |-> "TIME_RESPONSE", t0 |-> msg.t0, out |-> out, t2 |-> clock[n]]
    OBVIOUS
  <2>5. answer \in Message
    BY <1>6, <2>2, <2>4 DEF Message
  <2>6. wire' \in Wires /\ faults' \in 0..MaxFaults
    BY <1>3, <1>6, <2>1, <2>3, <2>4, <2>5, SendType
  <2>7. slow' \in 0..MaxSlow
    BY <1>6, <2>1, TakesType
  <2>8. task' \in Tasks
    BY <1>8, TypeFacts DEF HandleRequest, Tasks
  <2>9. QED BY <1>4, <1>5, <1>8, <2>6, <2>7, <2>8
            DEF HandleRequest, TypeOK, Wires, Message, Stamp, Tasks, Probed
<1>9. CASE HandleResponse(n, p, msg, w)
  <2>1. msg.out \in Stamp /\ msg.t2 \in Stamp
    BY <1>3, <1>9 DEF Message, HandleResponse
  <2>2. /\ wire' = w
        /\ \/ \E d \in MinDelay..MaxDelay :
                 LET offset == Offset(msg.out, msg.t2 - clock[n] - d) IN
                 /\ Takes(d)
                 /\ clock' = [clock EXCEPT ![n] = Adjusted(@, offset)]
                 /\ task' = AfterResponse(n, p, GoodEnough(offset))
                 /\ crossed' = IF clock[n] = msg.t0 THEN crossed \ {<<n, p>>}
                               ELSE crossed \cup {<<n, p>>}
                 /\ UNCHANGED faults
           \/ /\ faults < MaxFaults /\ faults' = faults + 1
              /\ task' = AfterResponse(n, p, GoodEnough(W \div 2 - 1))
              /\ UNCHANGED <<clock, crossed, slow>>
    BY <1>9 DEF HandleResponse
  <2>3. task' \in Tasks
    BY <2>2, AfterResponseType, TypeFacts
  <2>4. ASSUME NEW d \in MinDelay..MaxDelay, NEW offset, offset = Offset(msg.out, msg.t2 - clock[n] - d)
        PROVE  Adjusted(clock[n], offset) \in Stamp
    <3>1. msg.t2 - clock[n] - d \in Int /\ msg.out \in Int
      BY <1>6, <2>1, DelayFacts DEF Stamp
    <3>2. offset \in Stamp
      BY <2>4, <3>1, OffsetType DEF Stamp
    <3>3. QED BY <1>6, <3>2, AdjustedType DEF Stamp
  <2>5. clock' \in [Node -> Stamp] /\ crossed' \subseteq Ends /\ slow' \in 0..MaxSlow
    BY <1>4, <1>6, <2>2, <2>4, TakesType, TypeFacts
  <2>6. faults' \in 0..MaxFaults
    BY <1>6, <2>2, BoundAssumption
  <2>7. QED BY <1>3, <1>4, <1>5, <2>2, <2>3, <2>5, <2>6
            DEF TypeOK, Wires, Message, Stamp, Tasks, Probed
<1>10. QED BY <1>4, <1>7, <1>8, <1>9

LEMMA StartDelayMeasStep ==
  ASSUME IInv, NEW n \in Node, NEW m \in Node, StartDelayMeas(n, m)
  PROVE  IInv'
<1> USE DEF IInv
<1>1. Ends' = Ends
  BY DEF StartDelayMeas, Ends, Neighbours
<1>2. probes' \in 0..MaxProbes
  BY BoundAssumption DEF StartDelayMeas, TypeOK
<1>3. PICK now \in Moments :
        probe' = [at |-> "request", from |-> n, dest |-> m, now |-> now,
                  t0 |-> Word(clock[n] + now)]
  BY DEF StartDelayMeas
<1>4. now \in Stamp /\ clock[n] + now \in Int
  BY <1>3, TypeFacts, MeasuredAssumption, WordAssumption DEF Stamp
<1>5. Word(clock[n] + now) \in Stamp
  BY <1>4, WordType DEF Stamp
<1>6. Probed'
  BY <1>3, <1>4, <1>5 DEF Probed
<1>7. QED BY <1>1, <1>2, <1>6 DEF StartDelayMeas, TypeOK, Probed

LEMMA AnswerDelayMeasStep ==
  ASSUME IInv, AnswerDelayMeas
  PROVE  IInv'
<1> USE DEF IInv
<1>1. PICK d \in MinDelay..MaxDelay, h \in 0..MaxDelay :
        /\ Takes(d + h)
        /\ probe' = [at |-> "response", from |-> probe.from, now |-> probe.now,
                     t0 |-> probe.t0,
                     t1 |-> Word(clock[probe.dest] + probe.now + d),
                     t2 |-> Word(clock[probe.dest] + probe.now + d + h),
                     trip |-> d, held |-> h]
  BY DEF AnswerDelayMeas
<1>2. probe.at = "request" /\ UNCHANGED <<net, clock, subs, task, wire, crossed, faults, probes>>
  BY DEF AnswerDelayMeas
<1>3. probe.from \in Node /\ probe.now \in Stamp /\ probe.t0 \in Stamp /\ probe.dest \in Node
  BY <1>2 DEF Probed
<1>4. PICK a \in Nat : a = clock[probe.dest] + probe.now + d
  BY <1>3, TypeFacts, DelayFacts DEF Stamp
<1>5. d \in 0..MaxDelay /\ h \in 0..(W - 1) /\ h \in Nat /\ W \in Nat
  BY DelayFacts, WordAssumption
<1>6. PICK t1 \in Stamp, t2 \in Stamp : t1 = Word(a) /\ t2 = Word(a + h)
  BY <1>5, WordType DEF Stamp
<1>7. Word(t2 - t1) = h
  <2>1. PICK q \in Int : a = q * W + t1
    BY <1>6, Quotient
  <2>2. t1 \in Int /\ -t1 \in Int /\ a + h \in Int
    BY <1>5 DEF Stamp
  <2>3. Word(Word(a + h) + (-t1)) = Word(a + h + (-t1))
    BY <2>2, WordSum
  <2>4. a + h + (-t1) = q * W + h
    BY <1>5, <2>1, <2>2
  <2>5. Word(q * W + h) = h
    BY <1>5, Remainder
  <2>6. Word(a + h) + (-t1) = t2 - t1
    BY <1>5, <1>6, <2>2 DEF Stamp
  <2>7. QED BY <2>3, <2>4, <2>5, <2>6
<1>8. probe' = [at |-> "response", from |-> probe.from, now |-> probe.now,
                t0 |-> probe.t0, t1 |-> t1, t2 |-> t2,
                trip |-> d, held |-> h]
  BY <1>1, <1>4, <1>6
<1>9. Probed'
  BY <1>3, <1>5, <1>7, <1>8 DEF Probed, Stamp
<1>10. slow' \in 0..MaxSlow
  BY <1>1, TakesType DEF TypeOK
<1>11. Ends' = Ends
  BY <1>2 DEF Ends, Neighbours
<1>12. QED BY <1>2, <1>9, <1>10, <1>11 DEF TypeOK, Probed

LEMMA NodeDelayReceivedStep ==
  ASSUME IInv, NodeDelayReceived
  PROVE  IInv'
<1> USE DEF IInv
<1>0. PICK d \in MinDelay..MaxDelay : \E t3 :
        /\ t3 = Word(clock[probe.from] + probe.now + probe.trip + probe.held + d)
        /\ Takes(d)
        /\ probe' = [at |-> "done", trip |-> probe.trip + d,
                     shift |-> Word(clock[probe.from] + probe.now - probe.t0),
                     zero |-> 0 \in {probe.t0, probe.t1, probe.t2, t3},
                     delay |-> DelayCalc(probe.t0, probe.t1, probe.t2, t3)]
  BY DEF NodeDelayReceived
<1>1. PICK t3 :
        /\ t3 = Word(clock[probe.from] + probe.now + probe.trip + probe.held + d)
        /\ Takes(d)
        /\ probe' = [at |-> "done", trip |-> probe.trip + d,
                     shift |-> Word(clock[probe.from] + probe.now - probe.t0),
                     zero |-> 0 \in {probe.t0, probe.t1, probe.t2, t3},
                     delay |-> DelayCalc(probe.t0, probe.t1, probe.t2, t3)]
  BY <1>0
<1>2. probe.at = "response" /\ UNCHANGED <<net, clock, subs, task, wire, crossed, faults, probes>>
  BY DEF NodeDelayReceived
<1>3. /\ probe.from \in Node /\ probe.now \in Stamp
      /\ probe.t0 \in Stamp /\ probe.t1 \in Stamp /\ probe.t2 \in Stamp
      /\ probe.trip \in 0..MaxDelay /\ probe.held \in 0..MaxDelay
      /\ Word(probe.t2 - probe.t1) = probe.held
  BY <1>2 DEF Probed
<1>4. PICK s \in Nat : s = probe.trip + d
  BY <1>3, DelayFacts
<1>5. PICK c \in Nat : c = clock[probe.from] + probe.now
  BY <1>3, TypeFacts DEF Stamp
<1>6. t3 = Word(c + s + probe.held)
  <2>1. c + probe.trip + probe.held + d = c + s + probe.held
    BY <1>3, <1>4, <1>5, DelayFacts
  <2>2. QED BY <1>1, <1>5, <2>1
<1>7. CASE 0 \in {probe.t0, probe.t1, probe.t2, t3}
  <2>1. DelayCalc(probe.t0, probe.t1, probe.t2, t3) = -1
    BY <1>7 DEF DelayCalc
  <2>2. Probed'
    BY <1>1, <1>7, <2>1 DEF Probed
  <2>3. QED BY <1>1, <1>2, <2>2, TakesType DEF TypeOK, Probed, Ends, Neighbours
<1>8. CASE 0 \notin {probe.t0, probe.t1, probe.t2, t3}
  <2>1. DelayCalc(probe.t0, probe.t1, probe.t2, t3) = Word(s + Word(c - probe.t0)) \div 2
    <3>1. /\ probe.t0 \in 0..(W - 1) /\ probe.t1 \in 0..(W - 1) /\ probe.t2 \in 0..(W - 1)
          /\ probe.held \in Nat /\ c \in Int
      BY <1>3, <1>5 DEF Stamp
    <3> HIDE DEF IInv
    <3>2. QED BY <1>3, <1>4, <1>6, <1>8, <3>1, DelayCalcFacts
  <2>2. /\ probe'.trip = s /\ probe'.shift = Word(c - probe.t0)
        /\ probe'.delay = DelayCalc(probe.t0, probe.t1, probe.t2, t3)
    <3>1. clock[probe.from] + probe.now - probe.t0 = c - probe.t0
      <4>1. clock[probe.from] \in Int /\ probe.now \in Int /\ probe.t0 \in Int
        BY <1>3, TypeFacts DEF Stamp
      <4>2. QED BY <1>5, <4>1
    <3> HIDE DEF IInv
    <3>2. QED BY <1>1, <1>4, <3>1
  <2>3. probe'.delay = Word(probe'.trip + probe'.shift) \div 2
    BY <2>1, <2>2
  <2>4. Probed'
    BY <1>1, <1>8, <2>3 DEF Probed
  <2>5. QED BY <1>1, <1>2, <2>4, TakesType DEF TypeOK, Probed, Ends, Neighbours
<1>9. QED BY <1>7, <1>8

-----------------------------------------------------------------------------
(* The theorems.                                                           *)

\* In every reachable state the exchange that measures a delay has the stamps
\* that its messages and the answer took, and every variable its type
\* (handleTimeDelay, handleTimeSync): the inductive invariant.
THEOREM TimeCorrect == Spec => []IInv
<1>1. Init => IInv
  <2>1. ASSUME Init PROVE IInv
    <3>1. Probed
      BY <2>1 DEF Init, Probed, NoProbe
    <3>2. wire \in Wires /\ task \in Tasks
      <4>1. <<>> \in Seq(Message)
        OBVIOUS
      <4>2. QED BY <2>1, <4>1 DEF Init, Wires, Tasks
    <3>3. net \in Nets /\ clock \in [Node -> Stamp] /\ subs \in [Pairs -> Nat]
      BY <2>1, WordAssumption, ViewsAssumption DEF Init, Stamp, Pairs
    <3>4. crossed \subseteq Ends /\ faults \in 0..MaxFaults /\ slow \in 0..MaxSlow
          /\ probes \in 0..MaxProbes
      BY <2>1, BoundAssumption DEF Init
    <3>5. QED BY <3>1, <3>2, <3>3, <3>4, TypeIs DEF IInv
  <2>2. QED BY <2>1
<1>2. IInv /\ [Next]_vars => IInv'
  <2>1. ASSUME IInv, [Next]_vars PROVE IInv'
    <3>1. CASE UNCHANGED vars
      BY <2>1, <3>1 DEF vars, IInv, TypeOK, Ends, Neighbours, Probed
    <3>2. CASE Next
      <4>1. ASSUME NEW n \in Node, NEW p \in Node,
                   \/ NodeSync(n, p) \/ TimeSyncTask(n, p) \/ HandleTimeSync(n, p)
                   \/ Retry(n, p) \/ Interval(n, p) \/ StartDelayMeas(n, p)
            PROVE  IInv'
        BY <2>1, <4>1, NodeSyncStep, TimeSyncTaskStep, HandleTimeSyncStep, RetryStep,
           StartDelayMeasStep
      <4>2. QED BY <2>1, <3>2, <4>1, AnswerDelayMeasStep, NodeDelayReceivedStep DEF Next
    <3>3. QED BY <2>1, <3>1, <3>2
  <2>2. QED BY <2>1
<1>3. QED BY <1>1, <1>2, PTL DEF Spec

\* Every reachable state is well typed, for every mesh, word size and set of
\* clocks: clocks and stamps stay words, whatever calcAdjustment makes of the
\* differences, and lengths of subs stay numbers.
THEOREM TimeTypes == Spec => []TypeOK
<1>1. IInv => TypeOK
  BY DEF IInv
<1>2. QED BY <1>1, TimeCorrect, PTL

\* The delay that is reported is half of what both messages took and of what
\* the clock was adjusted by meanwhile, and -1 exactly if a stamp read 0, for
\* clocks of any width, wherever they wrap and whenever the measurement begins
\* (handleTimeDelay, delayCalc).
THEOREM TimeDelayReal == Spec => []DelayReal
<1>1. IInv => DelayReal
  BY DEF IInv, Probed, DelayReal
<1>2. QED BY <1>1, TimeCorrect, PTL
=============================================================================
