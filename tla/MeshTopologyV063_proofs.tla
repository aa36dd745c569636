----------------------- MODULE MeshTopologyV063_proofs ----------------------
(***************************************************************************)
(* Proofs about the mesh as painlessMesh v0.6.3 keeps it: the list of a    *)
(* node stays well formed although handleNodeSync changes three entries of *)
(* it at once, no message takes away the connection it came on, and a node *)
(* gets a second connection to a neighbour in one way only.                *)
(*                                                                         *)
(* The inductive invariant is that of the mesh of v1.0.2, and most actions *)
(* are those of that mesh: what MeshTopology_proofs says of them is used   *)
(* here.  The rest is about what a list of connections has left.           *)
(***************************************************************************)
EXTENDS MeshTopologyV063Props, SeqFilter_proofs

Mesh == INSTANCE MeshTopology_proofs

\* What is delayed is a connection that is still in the list.
LaterOK ==
  /\ later \in [Node -> SUBSET Link]
  /\ \A n \in Node : \A l \in later[n] : Mesh!HasEnd(n, l)

JInv == Mesh!IInv /\ LaterOK

\* A connection of n to another node lists m; and it is only so that a step
\* gives n a second connection to m.
Behind(n, m) ==
  \E i \in DOMAIN conns[n] :
    conns[n][i].node \notin {None, m} /\ V102!Lists(conns[n][i].subs, m)
Explained ==
  \A n \in Node : Mesh!OneForName(conns[n]) =>
    \A m \in Node : Doubled(conns'[n], m) => Behind(n, m)

-----------------------------------------------------------------------------
(* MeshTopologyV063 takes from MeshTopology what v0.6.3 does in the same   *)
(* way.  That module and MeshTopology_proofs are instances of one another. *)

LEMMA Assumed ==
  /\ Mesh!NodeAssumption /\ Mesh!RangeAssumption /\ Mesh!CountAssumption
  /\ Mesh!AppAssumption /\ Mesh!LinkAssumption
<1>1. Mesh!Link = Link /\ Mesh!NoLink = V102!NoLink
  BY DEF Link, V102!Link, Mesh!Link, Mesh!NoLink, V102!NoLink
<1>2. QED BY <1>1, NodeAssumption, RangeAssumption, CountAssumption, AppAssumption, LinkAssumption
          DEF Mesh!NodeAssumption, Mesh!RangeAssumption, Mesh!CountAssumption,
              Mesh!AppAssumption, Mesh!LinkAssumption

USE DEF V102!Link, Mesh!Link, V102!NoLink, Mesh!NoLink, V102!Subs, Mesh!Subs, V102!End,
        Mesh!End, V102!Idle, Mesh!Idle, V102!Ends, Mesh!Ends, V102!HasEnd, Mesh!HasEnd,
        V102!EndOn, Mesh!EndOn, V102!Peer, Mesh!Peer, V102!Reaches, Mesh!Reaches, V102!Queue,
        Mesh!Queue, V102!Send, Mesh!Send, V102!Lists, Mesh!Lists, V102!FindConnection,
        Mesh!FindConnection, V102!FlattenSeq, Mesh!FlattenSeq, V102!SubConnections,
        Mesh!SubConnections, V102!Replace, Mesh!Replace, V102!Calm, Mesh!Calm, V102!AllBut,
        Mesh!AllBut, V102!Receive, Mesh!Receive, V102!NewEnd, Mesh!NewEnd, V102!netVars,
        Mesh!netVars, V102!wifiVars, Mesh!wifiVars, V102!appVars, Mesh!appVars,
        V102!Cardinality, Mesh!Cardinality

\* The operators.
LEMMA SameLinks == Link = Mesh!Link /\ V102!NoLink = Mesh!NoLink
BY DEF Link

LEMMA SameEnds ==
  \A n, l : /\ Ends(n) = Mesh!Ends(n) /\ (HasEnd(n, l) <=> Mesh!HasEnd(n, l))
            /\ EndOn(n, l) = Mesh!EndOn(n, l) /\ Peer(l, n) = Mesh!Peer(l, n)
BY DEF Ends, HasEnd, EndOn, Peer

LEMMA SameLists == \A s, id : V102!Lists(s, id) <=> Mesh!Lists(s, id)
OBVIOUS

LEMMA SameFind == \A cs, id, x : FindConnection(cs, id, x) = Mesh!FindConnection(cs, id, x)
BY DEF FindConnection

LEMMA SameSubs == \A cs, x : SubConnections(cs, x) = Mesh!SubConnections(cs, x)
BY DEF SubConnections

LEMMA SameReplace == \A cs, e : V102!Replace(cs, e) = Mesh!Replace(cs, e)
OBVIOUS

LEMMA SameOnly == \A s, S : Only(s, S) = Mesh!Only(s, S)
BY DEF Only, Places, Rank, NthOf, Cardinality, Mesh!Only, Mesh!Places, Mesh!Rank, Mesh!NthOf

LEMMA SameSend ==
  ASSUME NEW c, NEW n, NEW links, NEW msg, Send(c, n, links, msg)
  PROVE  Mesh!Send(c, n, links, msg)
BY DEF Send

\* The actions.
LEMMA SameStart ==
  ASSUME NEW n, NEW l, V102!Start(n, l)
  PROVE  Mesh!Start(n, l)
BY DEF V102!Start, Mesh!Start

LEMMA SameNodeSyncTask ==
  ASSUME NEW n, NEW l, V102!NodeSyncTask(n, l)
  PROVE  Mesh!NodeSyncTask(n, l)
BY DEF V102!NodeSyncTask, Mesh!NodeSyncTask

LEMMA SameIntervalOver ==
  ASSUME NEW n, NEW l, V102!IntervalOver(n, l)
  PROVE  Mesh!IntervalOver(n, l)
BY DEF V102!IntervalOver, Mesh!IntervalOver

LEMMA SameScanComplete ==
  ASSUME NEW n, V102!ScanComplete(n)
  PROVE  Mesh!ScanComplete(n)
BY DEF V102!ScanComplete, Mesh!ScanComplete

LEMMA SameConnectToAP ==
  ASSUME NEW n, NEW m, NEW l, V102!ConnectToAP(n, m, l)
  PROVE  Mesh!ConnectToAP(n, m, l)
BY DEF V102!ConnectToAP, Mesh!ConnectToAP

LEMMA SameAssociationFails ==
  ASSUME NEW n, NEW m, V102!AssociationFails(n, m)
  PROVE  Mesh!AssociationFails(n, m)
BY DEF V102!AssociationFails, Mesh!AssociationFails

LEMMA SameAccept ==
  ASSUME NEW l, V102!Accept(l)
  PROVE  Mesh!Accept(l)
BY DEF V102!Accept, Mesh!Accept

LEMMA SameLinkLost ==
  ASSUME NEW l, V102!LinkLost(l)
  PROVE  Mesh!LinkLost(l)
BY DEF V102!LinkLost, Mesh!LinkLost

LEMMA SameSendSingle ==
  ASSUME NEW m, V102!SendSingle(m)
  PROVE  Mesh!SendSingle(m)
BY DEF V102!SendSingle, Mesh!SendSingle

LEMMA SameSendBroadcast ==
  ASSUME NEW m, V102!SendBroadcast(m)
  PROVE  Mesh!SendBroadcast(m)
BY DEF V102!SendBroadcast, Mesh!SendBroadcast

LEMMA SameHandleSingle ==
  ASSUME NEW n, NEW l, NEW m, NEW c, V102!HandleSingle(n, l, m, c)
  PROVE  Mesh!HandleSingle(n, l, m, c)
BY DEF V102!HandleSingle, Mesh!HandleSingle

LEMMA SameHandleBroadcast ==
  ASSUME NEW n, NEW l, NEW m, NEW c, V102!HandleBroadcast(n, l, m, c)
  PROVE  Mesh!HandleBroadcast(n, l, m, c)
BY DEF V102!HandleBroadcast, Mesh!HandleBroadcast

LEMMA SameInit ==
  ASSUME V102!Init
  PROVE  Mesh!Init
BY DEF V102!Init, Mesh!Init

LEMMA SameCut ==
  ASSUME NEW n, NEW e
  PROVE  /\ LinksAfterClose(n, e) = Mesh!CutLinks(n, e)
         /\ \A c : ChannelsAfterClose(n, e, c) = Mesh!CutChannels(n, e, c)
BY DEF LinksAfterClose, ChannelsAfterClose, Mesh!CutLinks, Mesh!CutChannels, Link, HasEnd, Peer,
       Idle

HIDE DEF V102!Link, Mesh!Link, V102!NoLink, Mesh!NoLink, V102!Subs, Mesh!Subs, V102!End,
         Mesh!End, V102!Idle, Mesh!Idle, V102!Ends, Mesh!Ends, V102!HasEnd, Mesh!HasEnd,
         V102!EndOn, Mesh!EndOn, V102!Peer, Mesh!Peer, V102!Reaches, Mesh!Reaches, V102!Queue,
         Mesh!Queue, V102!Send, Mesh!Send, V102!Lists, Mesh!Lists, V102!FindConnection,
         Mesh!FindConnection, V102!FlattenSeq, Mesh!FlattenSeq, V102!SubConnections,
         Mesh!SubConnections, V102!Replace, Mesh!Replace, V102!Calm, Mesh!Calm, V102!AllBut,
         Mesh!AllBut, V102!Receive, Mesh!Receive, V102!NewEnd, Mesh!NewEnd, V102!netVars,
         Mesh!netVars, V102!wifiVars, Mesh!wifiVars, V102!appVars, Mesh!appVars,
         V102!Cardinality, Mesh!Cardinality

\* MeshConnection::close is the one of v1.0.2 where nothing follows it.
LEMMA SameClose ==
  ASSUME NEW n, NEW e, Close(n, e)
  PROVE  Mesh!Close(n, e, chan) /\ UNCHANGED <<newTask, appVars>>
<1>1. conns' = [conns EXCEPT ![n] = Mesh!Only(@, {x \in Mesh!Ends(n) : x.link # e.link})]
  BY SameOnly, SameEnds DEF Close
<1>2. link' = Mesh!CutLinks(n, e) /\ chan' = Mesh!CutChannels(n, e, chan)
  BY SameCut DEF Close, Closing
<1>3. chan' = [k \in Mesh!Link |->
        IF k = e.link
          THEN [chan[k] EXCEPT ![n].pending = <<>>, ![Mesh!Peer(k, n)] = Mesh!Idle]
        ELSE IF link'[k].state = "lost" THEN [m \in Node |-> Mesh!Idle]
        ELSE chan[k]]
  BY <1>2 DEF Mesh!CutChannels
<1>4. chan' = [k \in Mesh!Link |->
        IF k = e.link
          THEN [chan[k] EXCEPT ![n].pending = <<>>, ![Mesh!Peer(e.link, n)] = Mesh!Idle]
        ELSE IF link'[k].state = "lost" THEN [m \in Node |-> Mesh!Idle]
        ELSE chan[k]]
  BY <1>3
<1>5. UNCHANGED <<newTask, appVars, faults, aps>>
      /\ dropTask' = [dropTask EXCEPT ![n] = e.node]
      /\ wifi' = IF e.station THEN [wifi EXCEPT ![n] = None] ELSE wifi
  BY DEF Close, Closing
<1>6. QED BY <1>1, <1>2, <1>4, <1>5 DEF Mesh!Close, Mesh!CutLinks

-----------------------------------------------------------------------------
(* Lists of connections.                                                   *)

\* One list has the links and the names of another.
Alike(us, cs) ==
  /\ us \in Seq(Mesh!End) /\ DOMAIN us = DOMAIN cs
  /\ \A i \in DOMAIN cs :
       us[i].link = cs[i].link /\ us[i].node = cs[i].node /\ us[i].new = cs[i].new

LEMMA AlikeSound ==
  ASSUME NEW cs, Mesh!Sound(cs), NEW us, Alike(us, cs)
  PROVE  /\ Mesh!Sound(us) /\ (Mesh!OneForName(cs) => Mesh!OneForName(us))
         /\ \A k, n : Mesh!Opened(cs, k, n) => Mesh!Opened(us, k, n)
BY DEF Alike, Mesh!Sound, Mesh!OneForLink, Mesh!NewUnnamed, Mesh!OneForName, Mesh!Opened

LEMMA ListType ==
  ASSUME NEW T, NEW s \in Seq(T)
  PROVE  Len(s) \in Nat /\ DOMAIN s = 1..Len(s) /\ \A i \in DOMAIN s : s[i] \in T
OBVIOUS

LEMMA OnlyLeaves ==
  ASSUME NEW T, NEW s \in Seq(T), NEW S, NEW i \in DOMAIN s, s[i] \in S
  PROVE  \E k \in DOMAIN Only(s, S) : Only(s, S)[k] = s[i]
<1>1. PICK u : u = Only(s, S)
  OBVIOUS
<1>2. u \in Seq(T)
  BY <1>1, OnlyType
<1>3. i \in 1..Len(s) /\ DOMAIN u = 1..Len(u)
  BY <1>2, ListType
<1>4. (\E k \in 1..Len(u) : u[k] = s[i]) <=> (s[i] \in S /\ \E j \in 1..Len(s) : s[j] = s[i])
  BY <1>1, OnlyHas
<1>5. QED BY <1>1, <1>3, <1>4

\* An entry that is changed in its subs and its task only.
Touched(f, e) == \E s \in Mesh!Subs, d \in BOOLEAN : f = [e EXCEPT !.subs = s, !.due = d]

LEMMA TouchedFacts ==
  ASSUME NEW e \in Mesh!End
  PROVE  /\ \A f : Touched(f, e) =>
              f \in Mesh!End /\ f.link = e.link /\ f.node = e.node /\ f.new = e.new
         /\ e.due \in BOOLEAN /\ Touched(e, e)
         /\ \A d \in BOOLEAN : Touched([e EXCEPT !.due = d], e)
         /\ Touched([e EXCEPT !.subs = <<>>, !.due = FALSE], e)
<1>1. ASSUME NEW s \in Mesh!Subs, NEW d \in BOOLEAN,
             NEW f, f = [e EXCEPT !.subs = s, !.due = d]
      PROVE  f \in Mesh!End /\ f.link = e.link /\ f.node = e.node /\ f.new = e.new
  BY <1>1 DEF Mesh!End
<1>2. <<>> \in Mesh!Subs /\ e.subs \in Mesh!Subs /\ e.due \in BOOLEAN
  BY DEF Mesh!End, Mesh!Subs
<1>3. \A d : [e EXCEPT !.due = d] = [e EXCEPT !.subs = e.subs, !.due = d]
  BY DEF Mesh!End
<1>4. e = [e EXCEPT !.subs = e.subs, !.due = e.due]
  BY DEF Mesh!End
<1>5. \A d \in BOOLEAN : Touched([e EXCEPT !.due = d], e)
  BY <1>2, <1>3 DEF Touched
<1>6. Touched(e, e)
  BY <1>2, <1>4 DEF Touched
<1>7. Touched([e EXCEPT !.subs = <<>>, !.due = FALSE], e)
  BY <1>2 DEF Touched
<1>8. ASSUME NEW f, Touched(f, e)
      PROVE  f \in Mesh!End /\ f.link = e.link /\ f.node = e.node /\ f.new = e.new
  <2>1. PICK s \in Mesh!Subs, d \in BOOLEAN : f = [e EXCEPT !.subs = s, !.due = d]
    BY <1>8 DEF Touched
  <2>2. QED BY <1>1, <2>1
<1>9. QED BY <1>2, <1>5, <1>6, <1>7, <1>8

LEMMA TouchedAlike ==
  ASSUME NEW cs \in Seq(Mesh!End), NEW us, DOMAIN us = DOMAIN cs, us = [i \in DOMAIN us |-> us[i]],
         \A i \in DOMAIN cs : Touched(us[i], cs[i])
  PROVE  Alike(us, cs)
<1>1. Len(cs) \in Nat /\ DOMAIN cs = 1..Len(cs) /\ \A i \in DOMAIN cs : cs[i] \in Mesh!End
  BY ListType
<1>2. \A i \in DOMAIN cs : /\ us[i] \in Mesh!End /\ us[i].link = cs[i].link
                           /\ us[i].node = cs[i].node /\ us[i].new = cs[i].new
  BY <1>1, TouchedFacts
<1>3. us \in Seq(Mesh!End)
  BY <1>1, <1>2
<1>4. QED BY <1>2, <1>3 DEF Alike

\* What nodeSyncTask does is delayed or done at once, and what is out of date
\* is forgotten: neither names nor links change.
LEMMA TasksAlike ==
  ASSUME NEW cs \in Seq(Mesh!End), NEW id
  PROVE  Alike(ForceIteration(cs, id), cs) /\ Alike(Delay(cs, id), cs)
<1>1. \A i \in DOMAIN cs : cs[i] \in Mesh!End
  BY ListType
<1>2. PICK us : us = ForceIteration(cs, id)
  OBVIOUS
<1>3. PICK vs : vs = Delay(cs, id)
  OBVIOUS
<1>4. ASSUME NEW i \in DOMAIN cs
      PROVE  Touched(us[i], cs[i]) /\ Touched(vs[i], cs[i])
  <2>1. PICK e \in Mesh!End : e = cs[i] /\ e.due \in BOOLEAN
    BY <1>1, TouchedFacts
  <2>2. PICK d \in BOOLEAN : d = (e.due \/ e.node # id)
    BY <2>1
  <2>3. PICK b \in BOOLEAN : b = (e.due /\ e.node = id)
    BY <2>1
  <2>4. us[i] = [e EXCEPT !.due = d] /\ vs[i] = [e EXCEPT !.due = b]
    BY <1>2, <1>3, <2>1, <2>2, <2>3 DEF ForceIteration, Delay
  <2>5. Touched([e EXCEPT !.due = d], e) /\ Touched([e EXCEPT !.due = b], e)
    BY TouchedFacts
  <2>6. QED BY <2>1, <2>4, <2>5
<1>5. /\ DOMAIN us = DOMAIN cs /\ us = [i \in DOMAIN us |-> us[i]]
      /\ DOMAIN vs = DOMAIN cs /\ vs = [i \in DOMAIN vs |-> vs[i]]
  BY <1>2, <1>3 DEF ForceIteration, Delay
<1>6. Alike(us, cs) /\ Alike(vs, cs)
  BY <1>4, <1>5, TouchedAlike
<1>7. QED BY <1>2, <1>3, <1>6

LEMMA ForgetAlike ==
  ASSUME NEW cs \in Seq(Mesh!End), NEW ends
  PROVE  Alike(Forget(cs, ends), cs)
<1>1. \A i \in DOMAIN cs : cs[i] \in Mesh!End
  BY ListType
<1>2. PICK us : us = Forget(cs, ends)
  OBVIOUS
<1>3. ASSUME NEW i \in DOMAIN cs PROVE Touched(us[i], cs[i])
  <2>1. PICK e \in Mesh!End : e = cs[i]
    BY <1>1
  <2>2. us[i] = [e EXCEPT !.subs = <<>>, !.due = FALSE] \/ us[i] = e
    BY <1>2, <2>1 DEF Forget
  <2>3. QED BY <2>1, <2>2, TouchedFacts
<1>4. DOMAIN us = DOMAIN cs /\ us = [i \in DOMAIN us |-> us[i]]
  BY <1>2 DEF Forget
<1>5. QED BY <1>2, <1>3, <1>4, TouchedAlike

\* What is in the list stays there.
Lasting(us, cs) == \A i \in DOMAIN cs : \E j \in DOMAIN us : us[j].link = cs[i].link
Stay == \A n \in Node, l \in Mesh!Link : Mesh!HasEnd(n, l) => Mesh!HasEnd(n, l)'

LEMMA StayAll == ASSUME conns' = conns PROVE Stay
BY DEF Stay, Mesh!HasEnd, Mesh!Ends

LEMMA StayIn ==
  ASSUME Mesh!ConnsOK, NEW n \in Node, NEW us, conns' = [conns EXCEPT ![n] = us],
         Lasting(us, conns[n])
  PROVE  Stay
<1>1. conns'[n] = us /\ \A m \in Node : m # n => conns'[m] = conns[m]
  BY DEF Mesh!ConnsOK
<1>2. QED BY <1>1 DEF Stay, Lasting, Mesh!HasEnd, Mesh!Ends

LEMMA StayReplaced ==
  ASSUME Mesh!ConnsOK, NEW n \in Node, NEW e,
         conns' = [conns EXCEPT ![n] = Mesh!Replace(@, e)]
  PROVE  Stay
<1>1. PICK us : us = Mesh!Replace(conns[n], e)
  OBVIOUS
<1>2. Lasting(us, conns[n])
  BY <1>1 DEF Mesh!Replace, Lasting
<1>3. conns' = [conns EXCEPT ![n] = us]
  BY <1>1
<1>4. QED BY <1>2, <1>3, StayIn

LEMMA StayAppended ==
  ASSUME Mesh!ConnsOK, NEW n \in Node, NEW e, conns' = [conns EXCEPT ![n] = Append(@, e)]
  PROVE  Stay
<1>1. PICK us : us = Append(conns[n], e)
  OBVIOUS
<1>2. PICK cs \in Seq(Mesh!End) : cs = conns[n]
  BY DEF Mesh!ConnsOK
<1>3. ASSUME NEW i \in DOMAIN cs PROVE i \in DOMAIN us /\ us[i] = cs[i]
  <2>1. i \in 1..Len(cs) /\ Len(cs) \in Nat
    BY ListType
  <2>2. QED BY <1>1, <1>2, <2>1
<1>4. Lasting(us, conns[n])
  BY <1>2, <1>3 DEF Lasting
<1>5. conns' = [conns EXCEPT ![n] = us]
  BY <1>1
<1>6. QED BY <1>4, <1>5, StayIn

\* What is delayed changes at one node.
LEMMA LaterSame == ASSUME LaterOK, Stay, later' = later PROVE LaterOK'
BY SameLinks DEF LaterOK, Stay

LEMMA LaterStep ==
  ASSUME LaterOK, NEW n \in Node, NEW S \in SUBSET Link, later' = [later EXCEPT ![n] = S],
         \A l \in S : Mesh!HasEnd(n, l)',
         \A m \in Node : m # n => conns'[m] = conns[m]
  PROVE  LaterOK'
<1>1. later' \in [Node -> SUBSET Link]
  BY DEF LaterOK
<1>2. ASSUME NEW m \in Node, NEW l \in later'[m] PROVE Mesh!HasEnd(m, l)'
  <2>1. CASE m = n
    BY <1>2, <2>1 DEF LaterOK
  <2>2. CASE m # n
    <3>1. l \in later[m] /\ conns'[m] = conns[m]
      BY <1>2, <2>2 DEF LaterOK
    <3>2. Mesh!HasEnd(m, l)
      BY <3>1 DEF LaterOK
    <3>3. QED BY <3>1, <3>2 DEF Mesh!HasEnd, Mesh!Ends
  <2>3. QED BY <2>1, <2>2
<1>3. QED BY <1>1, <1>2 DEF LaterOK

-----------------------------------------------------------------------------
(* The actions that are those of v1.0.2.                                   *)

LEMMA Shared ==
  ASSUME JInv, Mesh!IInv', Mesh!Kept, Stay, later' = later
  PROVE  JInv' /\ Mesh!Kept
BY LaterSame DEF JInv

LEMMA TasksStep ==
  ASSUME JInv, NEW l \in Link, NEW n \in Node,
         Start(n, l) \/ NodeSyncTask(n, l) \/ IntervalOver(n, l)
  PROVE  JInv' /\ Mesh!Kept
<1>1. Mesh!IInv /\ Mesh!ConnsOK /\ l \in Mesh!Link
  BY SameLinks DEF JInv, Mesh!IInv
<1>2. CASE Start(n, l)
  <2>1. V102!Start(n, l) /\ later' = later /\ conns' = conns
    BY <1>2 DEF Start, V102!Start
  <2>2. Mesh!IInv' /\ Mesh!Kept
    BY <1>1, <2>1, Assumed, SameStart, Mesh!StartStep
  <2>3. QED BY <2>1, <2>2, StayAll, Shared
<1>3. CASE NodeSyncTask(n, l)
  <2>1. V102!NodeSyncTask(n, l) /\ later' = later
    BY <1>3 DEF NodeSyncTask
  <2>2. Mesh!NodeSyncTask(n, l)
    BY <2>1, SameNodeSyncTask
  <2>3. Mesh!IInv' /\ Mesh!Kept
    BY <1>1, <2>2, Assumed, Mesh!NodeSyncTaskStep
  <2>4. PICK e : conns' = [conns EXCEPT ![n] = Mesh!Replace(@, e)]
    BY <2>2 DEF Mesh!NodeSyncTask
  <2>5. QED BY <1>1, <2>1, <2>3, <2>4, StayReplaced, Shared
<1>4. CASE IntervalOver(n, l)
  <2>1. V102!IntervalOver(n, l) /\ later' = later
    BY <1>4 DEF IntervalOver
  <2>2. Mesh!IntervalOver(n, l)
    BY <2>1, SameIntervalOver
  <2>3. Mesh!IInv' /\ Mesh!Kept
    BY <1>1, <2>2, Assumed, Mesh!IntervalOverStep
  <2>4. PICK e : conns' = [conns EXCEPT ![n] = Mesh!Replace(@, e)]
    BY <2>2 DEF Mesh!IntervalOver
  <2>5. QED BY <1>1, <2>1, <2>3, <2>4, StayReplaced, Shared
<1>5. QED BY <1>2, <1>3, <1>4

LEMMA AppStep ==
  ASSUME JInv, NEW m \in AppMsg, SendSingle(m) \/ SendBroadcast(m)
  PROVE  JInv' /\ Mesh!Kept
<1>1. Mesh!IInv
  BY DEF JInv
<1>2. CASE SendSingle(m)
  <2>1. V102!SendSingle(m) /\ later' = later /\ conns' = conns
    BY <1>2 DEF SendSingle, V102!SendSingle
  <2>2. Mesh!IInv' /\ Mesh!Kept
    BY <1>1, <2>1, Assumed, SameSendSingle, Mesh!SendSingleStep
  <2>3. QED BY <2>1, <2>2, StayAll, Shared
<1>3. CASE SendBroadcast(m)
  <2>1. V102!SendBroadcast(m) /\ later' = later /\ conns' = conns
    BY <1>3 DEF SendBroadcast, V102!SendBroadcast
  <2>2. Mesh!IInv' /\ Mesh!Kept
    BY <1>1, <2>1, Assumed, SameSendBroadcast, Mesh!SendBroadcastStep
  <2>3. QED BY <2>1, <2>2, StayAll, Shared
<1>4. QED BY <1>2, <1>3

LEMMA HandleAppStep ==
  ASSUME JInv, NEW l \in Link, NEW n \in Node, NEW msg \in AppMsg, NEW c, Mesh!Carries(c),
         \/ V102!HandleSingle(n, l, msg, c) /\ UNCHANGED later
         \/ V102!HandleBroadcast(n, l, msg, c) /\ UNCHANGED later
  PROVE  JInv' /\ Mesh!Kept
<1>1. Mesh!IInv /\ l \in Mesh!Link /\ later' = later
  BY SameLinks DEF JInv
<1>2. CASE V102!HandleSingle(n, l, msg, c)
  <2>1. conns' = conns
    BY <1>2 DEF V102!HandleSingle
  <2>2. Mesh!IInv' /\ Mesh!Kept
    BY <1>1, <1>2, Assumed, SameHandleSingle, Mesh!HandleSingleStep
  <2>3. QED BY <1>1, <2>1, <2>2, StayAll, Shared
<1>3. CASE V102!HandleBroadcast(n, l, msg, c)
  <2>1. conns' = conns
    BY <1>3 DEF V102!HandleBroadcast
  <2>2. Mesh!IInv' /\ Mesh!Kept
    BY <1>1, <1>3, Assumed, SameHandleBroadcast, Mesh!HandleBroadcastStep
  <2>3. QED BY <1>1, <2>1, <2>2, StayAll, Shared
<1>4. QED BY <1>2, <1>3

LEMMA StationStep ==
  ASSUME JInv, NEW n \in Node, NEW m \in aps[n],
         AssociationFails(n, m) \/ \E l \in Link : ConnectToAP(n, m, l)
  PROVE  JInv' /\ Mesh!Kept
<1>1. Mesh!IInv /\ Mesh!ConnsOK /\ m \in Node
  BY DEF JInv, Mesh!IInv, Mesh!StationsOK
<1>2. CASE AssociationFails(n, m)
  <2>1. V102!AssociationFails(n, m) /\ later' = later /\ conns' = conns
    BY <1>2 DEF AssociationFails, V102!AssociationFails
  <2>2. Mesh!IInv' /\ Mesh!Kept
    BY <1>1, <2>1, Assumed, SameAssociationFails, Mesh!AssociationFailsStep
  <2>3. QED BY <2>1, <2>2, StayAll, Shared
<1>3. ASSUME NEW l \in Link, ConnectToAP(n, m, l) PROVE JInv' /\ Mesh!Kept
  <2>1. l \in Mesh!Link /\ V102!ConnectToAP(n, m, l) /\ later' = later
    BY <1>3, SameLinks DEF ConnectToAP
  <2>2. Mesh!ConnectToAP(n, m, l)
    BY <2>1, SameConnectToAP
  <2>3. Mesh!IInv' /\ Mesh!Kept
    BY <1>1, <2>1, <2>2, Assumed, Mesh!ConnectToAPStep
  <2>4. PICK e : conns' = [conns EXCEPT ![n] = Append(@, e)]
    BY <2>2 DEF Mesh!ConnectToAP
  <2>5. QED BY <1>1, <2>1, <2>3, <2>4, StayAppended, Shared
<1>4. QED BY <1>2, <1>3

LEMMA ScanStep ==
  ASSUME JInv, NEW n \in Node, ScanComplete(n)
  PROVE  JInv' /\ Mesh!Kept
<1>1. Mesh!IInv
  BY DEF JInv
<1>2. V102!ScanComplete(n) /\ later' = later /\ conns' = conns
  BY DEF ScanComplete, V102!ScanComplete
<1>3. Mesh!IInv' /\ Mesh!Kept
  BY <1>1, <1>2, Assumed, SameScanComplete, Mesh!ScanCompleteStep
<1>4. QED BY <1>2, <1>3, StayAll, Shared

LEMMA LinkStep ==
  ASSUME JInv, NEW l \in Link, Accept(l) \/ LinkLost(l)
  PROVE  JInv' /\ Mesh!Kept
<1>1. Mesh!IInv /\ Mesh!ConnsOK /\ Mesh!LinksOK /\ l \in Mesh!Link
  BY SameLinks DEF JInv, Mesh!IInv
<1>2. CASE Accept(l)
  <2>1. V102!Accept(l) /\ later' = later
    BY <1>2 DEF Accept
  <2>2. Mesh!Accept(l)
    BY <2>1, SameAccept
  <2>3. Mesh!IInv' /\ Mesh!Kept
    BY <1>1, <2>2, Assumed, Mesh!AcceptStep
  <2>4. PICK n, e : n = link[l].ap /\ conns' = [conns EXCEPT ![n] = Append(@, e)]
    BY <2>2 DEF Mesh!Accept
  <2>5. n \in Node
    BY <1>1, <2>2, <2>4 DEF Mesh!Accept, Mesh!LinksOK, Mesh!Leads
  <2>6. Stay
    BY <1>1, <2>4, <2>5, StayAppended
  <2>7. QED BY <2>1, <2>3, <2>6, Shared
<1>3. CASE LinkLost(l)
  <2>1. V102!LinkLost(l) /\ later' = later /\ conns' = conns
    BY <1>3 DEF LinkLost, V102!LinkLost
  <2>2. Mesh!IInv' /\ Mesh!Kept
    BY <1>1, <2>1, Assumed, SameLinkLost, Mesh!LinkLostStep
  <2>3. QED BY <2>1, <2>2, StayAll, Shared
<1>4. QED BY <1>2, <1>3

-----------------------------------------------------------------------------
(* Closing, and the tasks that v0.6.3 has of its own.                      *)

\* The connection that is closed is delayed no more.
LEMMA CloseStep ==
  ASSUME JInv, NEW n \in Node, NEW e \in Ends(n), Close(n, e), Mesh!IInv', Mesh!Kept
  PROVE  JInv' /\ Mesh!Kept
<1>1. PICK cs \in Seq(Mesh!End) : cs = conns[n]
  BY DEF JInv, Mesh!IInv, Mesh!ConnsOK
<1>2. PICK S : S = {x \in Ends(n) : x.link # e.link}
  OBVIOUS
<1>3. conns' = [conns EXCEPT ![n] = Only(cs, S)] /\ later' = [later EXCEPT ![n] = @ \ {e.link}]
  BY <1>1, <1>2 DEF Close
<1>4. conns'[n] = Only(cs, S) /\ \A m \in Node : m # n => conns'[m] = conns[m]
  BY <1>3 DEF JInv, Mesh!IInv, Mesh!ConnsOK
<1>5. later \in [Node -> SUBSET Link] /\ later[n] \ {e.link} \in SUBSET Link
  BY DEF JInv, LaterOK
<1>6. ASSUME NEW l \in later[n] \ {e.link} PROVE Mesh!HasEnd(n, l)'
  <2>1. Mesh!HasEnd(n, l)
    BY DEF JInv, LaterOK
  <2>2. PICK i \in DOMAIN cs : cs[i].link = l
    BY <1>1, <2>1 DEF Mesh!HasEnd, Mesh!Ends
  <2>3. cs[i] \in S
    BY <1>1, <1>2, <2>2 DEF Ends, V102!Ends
  <2>4. PICK k \in DOMAIN Only(cs, S) : Only(cs, S)[k] = cs[i]
    BY <1>1, <2>3, OnlyLeaves
  <2>5. QED BY <1>4, <2>2, <2>4 DEF Mesh!HasEnd, Mesh!Ends
<1>7. LaterOK'
  BY <1>3, <1>4, <1>5, <1>6, LaterStep DEF JInv
<1>8. QED BY <1>7 DEF JInv

LEMMA DisconnectStep ==
  ASSUME JInv, NEW l \in Link, NEW n \in Node, OnDisconnect(n, l)
  PROVE  JInv' /\ Mesh!Kept
<1>1. Mesh!IInv /\ l \in Mesh!Link
  BY SameLinks DEF JInv
<1>2. PICK e : e = EndOn(n, l) /\ Close(n, e) /\ HasEnd(n, l)
  BY DEF OnDisconnect
<1>3. e \in Ends(n)
  BY <1>2 DEF HasEnd, V102!HasEnd, EndOn, V102!EndOn, Ends
<1>4. V102!PeerGone(n, l) => Mesh!PeerGone(n, l)
  BY DEF V102!PeerGone, Mesh!PeerGone, V102!HasEnd, Mesh!HasEnd, V102!Ends, Mesh!Ends, V102!Peer,
         Mesh!Peer
<1>5. Mesh!HasEnd(n, l) /\ Mesh!PeerGone(n, l) /\ e = Mesh!EndOn(n, l)
  BY <1>2, <1>4, SameEnds DEF OnDisconnect
<1>6. Mesh!Close(n, e, chan) /\ UNCHANGED <<newTask, appVars>>
  BY <1>2, SameClose
<1>7. Mesh!OnDisconnect(n, l)
  BY <1>5, <1>6 DEF Mesh!OnDisconnect, appVars, Mesh!appVars
<1>8. Mesh!IInv' /\ Mesh!Kept
  BY <1>1, <1>7, Assumed, Mesh!OnDisconnectStep
<1>9. QED BY <1>2, <1>3, <1>8, CloseStep

LEMMA ReconfigureStep ==
  ASSUME JInv, NEW n \in Node, Reconfigure(n)
  PROVE  JInv' /\ Mesh!Kept
<1> DEFINE stations == {i \in DOMAIN conns[n] : conns[n][i].station}
           first == CHOOSE i \in stations : \A j \in stations : i <= j
<1>1. Mesh!IInv
  BY DEF JInv
<1>2. wifi[n] # None /\ aps[n] # {} /\ stations # {} /\ Close(n, conns[n][first])
  BY DEF Reconfigure
<1>3. PICK e : e = conns[n][first]
  OBVIOUS
<1>4. e \in Ends(n)
  <2>1. PICK cs \in Seq(Mesh!End) : cs = conns[n]
    BY <1>1 DEF Mesh!IInv, Mesh!ConnsOK
  <2>2. stations \in SUBSET (1..Len(cs)) /\ Len(cs) \in Nat
    BY <2>1, ListType
  <2>3. \E i \in stations : \A j \in stations : i <= j
    <3> HIDE DEF stations
    <3>1. QED BY <1>2, <2>2, LeastPlace
  <2>4. first \in stations
    <3> HIDE DEF stations
    <3>1. QED BY <2>3
  <2> HIDE DEF first
  <2>5. QED BY <1>3, <2>4 DEF Ends, V102!Ends
<1>5. Mesh!Close(n, e, chan) /\ UNCHANGED <<newTask, appVars>>
  BY <1>2, <1>3, SameClose
<1>6. Mesh!Reconfigure(n)
  BY <1>2, <1>3, <1>5 DEF Mesh!Reconfigure, appVars, Mesh!appVars
<1>7. Mesh!IInv' /\ Mesh!Kept
  BY <1>1, <1>6, Assumed, Mesh!ReconfigureStep
<1>8. QED BY <1>2, <1>3, <1>4, <1>7, CloseStep

\* The tasks change the list as a whole.
LEMMA TaskStep ==
  ASSUME JInv, NEW n \in Node, NEW us, Alike(us, conns[n]), link' = link,
         conns' = [conns EXCEPT ![n] = us]
  PROVE  Mesh!ConnsOK' /\ Mesh!LinksOK' /\ Mesh!Kept /\ Stay
<1>1. Mesh!ConnsOK /\ Mesh!LinksOK
  BY DEF JInv, Mesh!IInv
<1>2. PICK cs : cs = conns[n] /\ Mesh!Sound(cs) /\ Mesh!Opened(cs, link, n)
  BY <1>1 DEF Mesh!ConnsOK
<1>3. /\ Mesh!Sound(us) /\ (Mesh!OneForName(cs) => Mesh!OneForName(us))
      /\ Mesh!Opened(us, link, n)
  BY <1>2, AlikeSound
<1>4. Mesh!Later(link, link') /\ Mesh!LinksOK' /\ Mesh!Opened(us, link', n)
  BY <1>1, <1>3, Assumed, Mesh!NoChange
<1>5. Mesh!ConnsOK' /\ Mesh!Kept
  BY <1>1, <1>2, <1>3, <1>4, Assumed, Mesh!ConnsStep
<1>6. Lasting(us, conns[n])
  BY DEF Alike, Lasting
<1>7. QED BY <1>1, <1>4, <1>5, <1>6, StayIn

\* The links a task delays or does at once.
LEMMA OthersListed ==
  ASSUME NEW n \in Node, NEW cs \in Seq(Mesh!End), NEW us, Lasting(us, cs), NEW id,
         conns'[n] = us
  PROVE  /\ Others(cs, id) \in SUBSET Link
         /\ \A l \in Others(cs, id) : Mesh!HasEnd(n, l)'
<1>1. \A i \in DOMAIN cs : cs[i] \in Mesh!End
  BY ListType
<1>2. \A i \in DOMAIN cs : cs[i].link \in Link
  BY <1>1, SameLinks DEF Mesh!End
<1>3. QED BY <1>2 DEF Others, Lasting, Mesh!HasEnd, Mesh!Ends

LEMMA DroppedConnectionTaskStep ==
  ASSUME JInv, NEW n \in Node, DroppedConnectionTask(n)
  PROVE  JInv' /\ Mesh!Kept
<1>1. PICK cs \in Seq(Mesh!End) : cs = conns[n]
  BY DEF JInv, Mesh!IInv, Mesh!ConnsOK
<1>2. PICK us : us = ForceIteration(cs, dropTask[n])
  OBVIOUS
<1>3. Alike(us, conns[n])
  BY <1>1, <1>2, TasksAlike
<1>4. /\ conns' = [conns EXCEPT ![n] = us] /\ link' = link
      /\ later' = [later EXCEPT ![n] = @ \ Others(cs, dropTask[n])]
      /\ dropTask' = [dropTask EXCEPT ![n] = Off]
      /\ UNCHANGED <<chan, faults, aps, wifi, newTask, sent, got>>
  BY <1>1, <1>2 DEF DroppedConnectionTask, netVars, wifiVars, appVars
<1>5. Mesh!ConnsOK' /\ Mesh!LinksOK' /\ Mesh!Kept /\ Stay
  BY <1>3, <1>4, TaskStep
<1>6. Mesh!ChansOK' /\ Mesh!StationsOK' /\ Mesh!NewTaskOK' /\ Mesh!DropTaskOK' /\ Mesh!AppsOK'
  BY <1>4 DEF JInv, Mesh!IInv, Mesh!ChansOK, Mesh!StationsOK, Mesh!NewTaskOK, Mesh!DropTaskOK,
              Mesh!AppsOK
<1>7. LaterOK'
  <2>1. PICK S : S = later[n] \ Others(cs, dropTask[n])
    OBVIOUS
  <2>2. S \in SUBSET Link /\ \A l \in S : Mesh!HasEnd(n, l) /\ l \in Mesh!Link
    BY <2>1, SameLinks DEF JInv, LaterOK
  <2>3. \A m \in Node : m # n => conns'[m] = conns[m]
    BY <1>4 DEF JInv, Mesh!IInv, Mesh!ConnsOK
  <2>4. later' = [later EXCEPT ![n] = S] /\ \A l \in S : Mesh!HasEnd(n, l)'
    BY <1>4, <1>5, <2>1, <2>2 DEF Stay
  <2>5. QED BY <2>2, <2>3, <2>4, LaterStep DEF JInv
<1>8. QED BY <1>5, <1>6, <1>7 DEF JInv, Mesh!IInv

LEMMA NewConnectionTaskStep ==
  ASSUME JInv, NEW n \in Node, NewConnectionTask(n)
  PROVE  JInv' /\ Mesh!Kept
<1>1. PICK cs \in Seq(Mesh!End) : cs = conns[n]
  BY DEF JInv, Mesh!IInv, Mesh!ConnsOK
<1>2. PICK us : us = Delay(cs, newTask[n])
  OBVIOUS
<1>3. Alike(us, conns[n])
  BY <1>1, <1>2, TasksAlike
<1>4. /\ conns' = [conns EXCEPT ![n] = us] /\ link' = link
      /\ later' = [later EXCEPT ![n] = @ \cup Others(cs, newTask[n])]
      /\ newTask' = [newTask EXCEPT ![n] = Off]
      /\ UNCHANGED <<chan, faults, aps, wifi, dropTask, sent, got>>
  BY <1>1, <1>2 DEF NewConnectionTask, netVars, wifiVars, appVars
<1>5. Mesh!ConnsOK' /\ Mesh!LinksOK' /\ Mesh!Kept /\ Stay
  BY <1>3, <1>4, TaskStep
<1>6. Mesh!ChansOK' /\ Mesh!StationsOK' /\ Mesh!NewTaskOK' /\ Mesh!DropTaskOK' /\ Mesh!AppsOK'
  BY <1>4 DEF JInv, Mesh!IInv, Mesh!ChansOK, Mesh!StationsOK, Mesh!NewTaskOK, Mesh!DropTaskOK,
              Mesh!AppsOK
<1>7. LaterOK'
  <2>1. PICK S : S = later[n] \cup Others(cs, newTask[n])
    OBVIOUS
  <2>2. conns'[n] = us /\ \A m \in Node : m # n => conns'[m] = conns[m]
    BY <1>4 DEF JInv, Mesh!IInv, Mesh!ConnsOK
  <2>3. Lasting(us, cs)
    BY <1>1, <1>3 DEF Alike, Lasting
  <2>4. /\ Others(cs, newTask[n]) \in SUBSET Link
        /\ \A l \in Others(cs, newTask[n]) : Mesh!HasEnd(n, l)'
    BY <2>2, <2>3, OthersListed
  <2>5. later[n] \in SUBSET Link /\ \A l \in later[n] : Mesh!HasEnd(n, l)'
    BY <1>5, SameLinks DEF JInv, LaterOK, Stay
  <2>6. later' = [later EXCEPT ![n] = S] /\ S \in SUBSET Link /\ \A l \in S : Mesh!HasEnd(n, l)'
    BY <1>4, <2>1, <2>4, <2>5
  <2>7. QED BY <2>2, <2>6, LaterStep DEF JInv
<1>8. QED BY <1>5, <1>6, <1>7 DEF JInv, Mesh!IInv

LEMMA DelayOverStep ==
  ASSUME JInv, NEW n \in Node, NEW l \in Link, DelayOver(n, l)
  PROVE  JInv' /\ Mesh!Kept
<1>1. Mesh!IInv /\ Mesh!ConnsOK /\ Mesh!LinksOK /\ Mesh!HasEnd(n, l)
  BY DEF JInv, Mesh!IInv, LaterOK, DelayOver
<1>2. /\ link' = link /\ later' = [later EXCEPT ![n] = @ \ {l}]
      /\ UNCHANGED <<chan, faults, aps, wifi, newTask, dropTask, sent, got>>
  BY DEF DelayOver, netVars, wifiVars, appVars
<1>3. conns' = [conns EXCEPT ![n] = Mesh!Replace(@, [Mesh!EndOn(n, l) EXCEPT !.due = TRUE])]
  BY SameReplace, SameEnds DEF DelayOver
<1>4. Mesh!ConnsOK' /\ Mesh!Kept
  <2>1. TRUE \in BOOLEAN
    OBVIOUS
  <2>2. QED BY <1>1, <1>2, <1>3, <2>1, Assumed, Mesh!TaskSet
<1>5. Mesh!LinksOK' /\ Stay
  <2>1. PICK e : conns' = [conns EXCEPT ![n] = Mesh!Replace(@, e)]
    BY <1>3
  <2>2. QED BY <1>1, <1>2, <2>1, StayReplaced, Assumed, Mesh!NoChange
<1>6. Mesh!ChansOK' /\ Mesh!StationsOK' /\ Mesh!NewTaskOK' /\ Mesh!DropTaskOK' /\ Mesh!AppsOK'
  BY <1>2 DEF JInv, Mesh!IInv, Mesh!ChansOK, Mesh!StationsOK, Mesh!NewTaskOK, Mesh!DropTaskOK,
              Mesh!AppsOK
<1>7. LaterOK'
  <2>1. PICK S : S = later[n] \ {l}
    OBVIOUS
  <2>2. S \in SUBSET Link /\ \A k \in S : Mesh!HasEnd(n, k)'
    BY <1>5, <2>1, SameLinks DEF JInv, LaterOK, Stay
  <2>3. later' = [later EXCEPT ![n] = S] /\ \A m \in Node : m # n => conns'[m] = conns[m]
    BY <1>2, <1>3, <2>1 DEF JInv, Mesh!IInv, Mesh!ConnsOK
  <2>4. QED BY <2>2, <2>3, LaterStep DEF JInv
<1>8. QED BY <1>4, <1>5, <1>6, <1>7 DEF JInv, Mesh!IInv

-----------------------------------------------------------------------------
(* handleNodeSync.                                                         *)

\* The list it makes, before newConnectionTask and the others are delayed.
NewList(n, e, msg) ==
  V102!Replace(Forget(Only(conns[n], Ends(n) \ Superseded(n, e, msg.from)),
                      OutOfDate(n, e, msg.from)),
               Named(e, msg))

\* Where no other connection lists the node, one to it that is not closed is the
\* one the message came on: findConnection finds no other.
LEMMA OneLeft ==
  ASSUME Mesh!IInv, NEW n \in Node, Mesh!OneForName(conns[n]),
         NEW i \in DOMAIN conns[n], NEW e, e = conns[n][i],
         NEW from, from = Mesh!Peer(e.link, n), ~Behind(n, from),
         NEW j \in DOMAIN conns[n], conns[n][j].node = from,
         conns[n][j] \notin Superseded(n, e, from)
  PROVE  conns[n][j].link = e.link
<1>1. PICK cs \in Seq(Mesh!End) : cs = conns[n]
  BY DEF Mesh!IInv, Mesh!ConnsOK
<1>2. ASSUME NEW k \in DOMAIN cs
      PROVE  /\ cs[k].link \in Mesh!Link
             /\ Mesh!Peer(cs[k].link, n) \in Node \ {n}
             /\ cs[k].node \in {None, Mesh!Peer(cs[k].link, n)}
  <2>1. /\ cs[k].link \in Mesh!Link /\ cs[k].node \in {None, Mesh!Peer(cs[k].link, n)}
        /\ Mesh!Peer(cs[k].link, n) \in Node /\ link[cs[k].link].state # "free"
    BY <1>1, Assumed, Mesh!EntryFacts DEF Mesh!IInv
  <2>2. link[cs[k].link].ap # cs[k].link[1]
    BY <2>1 DEF Mesh!IInv, Mesh!LinksOK, Mesh!Leads
  <2>3. QED BY <2>1, <2>2 DEF Mesh!Peer
<1>3. from \in Node /\ from # n /\ from # None
  BY <1>1, <1>2, NodeAssumption
<1>4. CASE e.node = from
  BY <1>3, <1>4 DEF Mesh!OneForName
<1>5. CASE e.node # from
  <2>1. PICK found : found = Mesh!FindConnection(cs, from, None)
    OBVIOUS
  <2>2. found # Mesh!NoLink
    BY <1>1, <1>3, <2>1, Assumed, Mesh!FoundFacts
  <2>3. PICK k \in DOMAIN cs :
          /\ cs[k].link = found /\ cs[k].node # None
          /\ cs[k].node = from \/ Mesh!Lists(cs[k].subs, from)
    BY <1>1, <2>1, <2>2, Assumed, Mesh!FoundFacts, SMTT(30)
  <2>4. Mesh!Lists(cs[k].subs, from) => V102!Lists(cs[k].subs, from)
    BY SameLists
  <2>5. cs[k].node = from
    BY <1>1, <2>3, <2>4 DEF Behind
  <2>6. k = j
    BY <1>1, <1>3, <2>5 DEF Mesh!OneForName
  <2>7. FindConnection(conns[n], from, None) = found
    BY <1>1, <2>1, SameFind
  <2>8. conns[n][j] \in Superseded(n, e, from)
    BY <1>1, <1>5, <2>3, <2>6, <2>7 DEF Superseded, Ends, V102!Ends
  <2>9. QED BY <2>8
<1>6. QED BY <1>4, <1>5

\* That list is well formed, has every connection that was not closed, and a
\* second one at most to the node the message is from.
LEMMA NewListFacts ==
  ASSUME Mesh!IInv, NEW n \in Node, NEW i \in DOMAIN conns[n], NEW e, e = conns[n][i],
         NEW msg \in Mesh!SyncMsg, msg.from = Mesh!Peer(e.link, n),
         NEW us, us = NewList(n, e, msg)
  PROVE  /\ Mesh!Sound(us) /\ Mesh!Opened(us, link, n)
         /\ Mesh!OneForName(conns[n]) =>
              \A m \in Node : Doubled(us, m) => m = msg.from /\ Behind(n, m)
         /\ \A j \in DOMAIN conns[n] : conns[n][j] \notin Superseded(n, e, msg.from) =>
              \E k \in DOMAIN us : us[k].link = conns[n][j].link
<1>1. PICK cs : /\ cs = conns[n] /\ Mesh!Sound(cs) /\ Mesh!Opened(cs, link, n)
                /\ cs \in Seq(Mesh!End)
  BY DEF Mesh!IInv, Mesh!ConnsOK
<1>2. PICK old : old = Superseded(n, e, msg.from)
  OBVIOUS
<1>3. PICK S : S = Ends(n) \ old
  OBVIOUS
<1>4. PICK ds : ds = Only(cs, S)
  OBVIOUS
<1>5. /\ Mesh!Sound(ds) /\ \A k \in DOMAIN ds : \E j \in DOMAIN cs : ds[k] = cs[j]
      /\ Mesh!OneForName(cs) => Mesh!OneForName(ds)
  <2>1. ds = Mesh!Only(cs, S)
    BY <1>4, SameOnly
  <2>2. QED BY <1>1, <2>1, Assumed, Mesh!Fewer
<1>6. ds \in Seq(Mesh!End) /\ \A k \in DOMAIN ds : ds[k] \in S
  <2>1. ds \in Seq(Mesh!End) /\ ds \in Seq(Mesh!End \cap S)
    BY <1>1, <1>4, OnlyType
  <2>2. \A k \in DOMAIN ds : ds[k] \in Mesh!End \cap S
    BY <2>1, ListType
  <2>3. QED BY <2>1, <2>2
<1>7. PICK fs : fs = Forget(ds, OutOfDate(n, e, msg.from))
  OBVIOUS
<1>8. Alike(fs, ds)
  BY <1>6, <1>7, ForgetAlike
<1>9. Mesh!Sound(fs) /\ (Mesh!OneForName(ds) => Mesh!OneForName(fs))
  BY <1>5, <1>8, AlikeSound
<1>10. PICK f : f = Named(e, msg)
  OBVIOUS
<1>11. f \in Mesh!End /\ f.link = e.link /\ f.node = msg.from /\ ~f.new /\ f.node # None
  <2>1. e \in Mesh!End
    BY <1>1, ListType
  <2>2. msg.from \in Node /\ msg.subs \in Mesh!Subs /\ msg.from # None
    BY NodeAssumption DEF Mesh!SyncMsg
  <2>3. QED BY <1>10, <2>1, <2>2 DEF Named, Mesh!End
<1>12. us = Mesh!Replace(fs, f)
  BY <1>1, <1>2, <1>3, <1>4, <1>7, <1>10, SameReplace DEF NewList
<1>13. /\ Mesh!Sound(us) /\ DOMAIN us = DOMAIN fs /\ Mesh!Swapped(us, fs, f)
       /\ Mesh!OneForName(fs) /\ Mesh!NotTaken(fs, f) => Mesh!OneForName(us)
  BY <1>9, <1>11, <1>12, Assumed, Mesh!Replaced
<1>14. ASSUME NEW k \in DOMAIN us
       PROVE  /\ k \in DOMAIN ds /\ us[k].link = ds[k].link
              /\ us[k].node = ds[k].node \/ (us[k].link = e.link /\ us[k].node = msg.from)
  BY <1>8, <1>11, <1>13 DEF Alike, Mesh!Swapped
<1>15. Mesh!Opened(us, link, n)
  <2>1. ASSUME NEW k \in DOMAIN us, NEW l, l = us[k].link
        PROVE  /\ link[l].state # "free" /\ (link[l].state = "syn" => l[1] = n)
               /\ us[k].node \in {None, Mesh!Peer(l, n)}
    <3>1. PICK j \in DOMAIN cs : ds[k] = cs[j]
      BY <1>5, <1>14
    <3>2. cs[j].link = l
      BY <1>14, <2>1, <3>1
    <3>3. /\ link[l].state # "free" /\ (link[l].state = "syn" => l[1] = n)
          /\ cs[j].node \in {None, Mesh!Peer(l, n)}
      BY <1>1, <3>2, SMTT(20) DEF Mesh!Opened, Mesh!Peer
    <3>4. us[k].node = cs[j].node \/ us[k].node = Mesh!Peer(l, n)
      BY <1>14, <2>1, <3>1
    <3>5. QED BY <3>3, <3>4
  <2>2. QED BY <2>1 DEF Mesh!Opened, Mesh!Peer
<1>16. ASSUME Mesh!OneForName(conns[n]), NEW m \in Node, Doubled(us, m)
       PROVE  m = msg.from /\ Behind(n, m)
  <2>1. PICK k1 \in DOMAIN us, k2 \in DOMAIN us : k1 # k2 /\ us[k1].node = m /\ us[k2].node = m
    BY <1>16 DEF Doubled
  <2>2. Mesh!OneForName(ds) /\ m # None
    BY <1>1, <1>5, <1>16, NodeAssumption
  <2>3. m = msg.from
    <3>1. SUFFICES ASSUME m # msg.from PROVE FALSE
      OBVIOUS
    <3>2. /\ k1 \in DOMAIN ds /\ k2 \in DOMAIN ds /\ ds[k1].node = m /\ ds[k2].node = m
      BY <1>14, <2>1, <3>1
    <3>3. QED BY <2>1, <2>2, <3>2 DEF Mesh!OneForName
  <2>4. SUFFICES ASSUME ~Behind(n, msg.from) PROVE FALSE
    BY <2>3
  <2>5. ASSUME NEW k \in DOMAIN fs, fs[k].node = f.node PROVE fs[k].link = f.link
    <3>1. k \in DOMAIN ds /\ fs[k].link = ds[k].link /\ ds[k].node = msg.from
      BY <1>8, <1>11, <2>5 DEF Alike
    <3>2. PICK j \in DOMAIN cs : ds[k] = cs[j]
      BY <1>5, <3>1
    <3>3. cs[j] \notin Superseded(n, e, msg.from) /\ cs[j].node = msg.from
      BY <1>2, <1>3, <1>6, <3>1, <3>2
    <3>4. cs[j].link = e.link
      BY <1>1, <1>16, <2>4, <3>3, OneLeft
    <3>5. QED BY <1>11, <3>1, <3>2, <3>4
  <2>6. Mesh!NotTaken(fs, f)
    BY <2>5 DEF Mesh!NotTaken
  <2>7. Mesh!OneForName(us)
    BY <1>9, <1>13, <2>2, <2>6
  <2>8. QED BY <2>1, <2>2, <2>7 DEF Mesh!OneForName
<1>17. ASSUME NEW j \in DOMAIN cs, cs[j] \notin old
       PROVE  \E k \in DOMAIN us : us[k].link = cs[j].link
  <2>1. cs[j] \in S
    BY <1>1, <1>3, <1>17 DEF Ends, V102!Ends
  <2>2. PICK k \in DOMAIN ds : ds[k] = cs[j]
    BY <1>1, <1>4, <2>1, OnlyLeaves
  <2>3. k \in DOMAIN us
    BY <1>8, <1>13 DEF Alike
  <2>4. QED BY <1>14, <2>2, <2>3
<1>18. QED BY <1>1, <1>2, <1>13, <1>15, <1>16, <1>17

\* The connections that are closed, out of date or told are in that list.
LEMMA SyncLater ==
  ASSUME JInv, NEW n \in Node, NEW i \in DOMAIN conns[n], NEW e, e = conns[n][i],
         NEW msg \in Mesh!SyncMsg, msg.from = Mesh!Peer(e.link, n),
         NEW us, Alike(us, NewList(n, e, msg)), conns' = [conns EXCEPT ![n] = us],
         NEW told, told \in {{}, Others(NewList(n, e, msg), msg.from)},
         later' = [later EXCEPT ![n] =
           (@ \ {x.link : x \in Superseded(n, e, msg.from)})
             \cup {x.link : x \in OutOfDate(n, e, msg.from)} \cup told]
  PROVE  LaterOK' /\ Mesh!HasEnd(n, e.link)'
<1>1. PICK cs \in Seq(Mesh!End) : cs = conns[n]
  BY DEF JInv, Mesh!IInv, Mesh!ConnsOK
<1>2. PICK ds : ds = NewList(n, e, msg)
  OBVIOUS
<1>3. PICK old : old = Superseded(n, e, msg.from)
  OBVIOUS
<1>4. PICK out : out = OutOfDate(n, e, msg.from)
  OBVIOUS
<1>5. /\ ds \in Seq(Mesh!End)
      /\ \A j \in DOMAIN cs : cs[j] \notin old =>
           \E k \in DOMAIN ds : ds[k].link = cs[j].link
  BY <1>1, <1>2, <1>3, NewListFacts DEF JInv, Mesh!Sound
<1>6. conns'[n] = us /\ \A m \in Node : m # n => conns'[m] = conns[m]
  BY DEF JInv, Mesh!IInv, Mesh!ConnsOK
<1>7. DOMAIN us = DOMAIN ds /\ Lasting(us, ds) /\ \A k \in DOMAIN ds : us[k].link = ds[k].link
  BY <1>2 DEF Alike, Lasting
<1>8. ASSUME NEW j \in DOMAIN cs, cs[j] \notin old
      PROVE  Mesh!HasEnd(n, cs[j].link)' /\ cs[j].link \in Link
  <2>1. PICK k \in DOMAIN us : us[k].link = cs[j].link
    BY <1>5, <1>7, <1>8
  <2>2. cs[j] \in Mesh!End
    BY ListType
  <2>3. QED BY <1>6, <2>1, <2>2, SameLinks DEF Mesh!HasEnd, Mesh!Ends, Mesh!End
<1>9. Mesh!HasEnd(n, e.link)'
  <2>1. cs[i] = e /\ e \notin old
    BY <1>1, <1>3 DEF Superseded
  <2>2. i \in DOMAIN cs
    BY <1>1
  <2>3. QED BY <1>8, <2>1, <2>2
<1>10. ASSUME NEW l \in later[n] \ {x.link : x \in old}
       PROVE  l \in Link /\ Mesh!HasEnd(n, l)'
  <2>1. Mesh!HasEnd(n, l)
    BY DEF JInv, LaterOK
  <2>2. PICK j \in DOMAIN cs : cs[j].link = l
    BY <1>1, <2>1 DEF Mesh!HasEnd, Mesh!Ends
  <2>3. cs[j] \notin old
    BY <2>2
  <2>4. QED BY <1>8, <2>2, <2>3
<1>11. ASSUME NEW x \in out PROVE x.link \in Link /\ Mesh!HasEnd(n, x.link)'
  <2>1. x \in Ends(n) /\ x \notin old
    BY <1>3, <1>4 DEF OutOfDate, Superseded
  <2>2. PICK j \in DOMAIN cs : cs[j] = x
    BY <1>1, <2>1 DEF Ends, V102!Ends
  <2>3. QED BY <1>8, <2>1, <2>2
<1>12. told \in SUBSET Link /\ \A l \in told : Mesh!HasEnd(n, l)'
  <2>1. /\ Others(ds, msg.from) \in SUBSET Link
        /\ \A l \in Others(ds, msg.from) : Mesh!HasEnd(n, l)'
    BY <1>5, <1>6, <1>7, OthersListed
  <2>2. QED BY <1>2, <2>1
<1>13. PICK S : S = (later[n] \ {x.link : x \in old}) \cup {x.link : x \in out} \cup told
  OBVIOUS
<1>14. S \in SUBSET Link /\ \A l \in S : Mesh!HasEnd(n, l)'
  BY <1>10, <1>11, <1>12, <1>13
<1>15. later' = [later EXCEPT ![n] = S]
  BY <1>3, <1>4, <1>13
<1>16. LaterOK'
  BY <1>6, <1>14, <1>15, LaterStep DEF JInv
<1>17. QED BY <1>9, <1>16

\* What closing the older connection does to the links, and what is sent.
LEMMA SyncLinks ==
  ASSUME JInv, NEW l \in Link, NEW n \in Node, NEW c, Mesh!Carries(c),
         NEW old, old \subseteq Ends(n),
         NEW reply \in Mesh!MsgOf(n),
         NEW after, after = IF old = {} THEN c
                            ELSE ChannelsAfterClose(n, CHOOSE x \in old : TRUE, c),
         IF old = {} THEN UNCHANGED <<dropTask, wifiVars, link>>
         ELSE Closing(n, CHOOSE x \in old : TRUE),
         Send(after, n, {l}, reply) \/ (chan' = after /\ UNCHANGED faults)
  PROVE  /\ Mesh!Later(link, link') /\ Mesh!LinksOK'
         /\ Mesh!ChansOK' /\ Mesh!StationsOK' /\ Mesh!DropTaskOK'
<1>1. Mesh!ConnsOK /\ Mesh!LinksOK /\ Mesh!ChansOK /\ Mesh!StationsOK /\ Mesh!DropTaskOK
  BY DEF JInv, Mesh!IInv
<1>2. /\ Mesh!Later(link, link') /\ Mesh!LinksOK' /\ Mesh!Carries(after)
      /\ Mesh!StationsOK' /\ Mesh!DropTaskOK'
  <2>1. CASE old = {}
    <3>1. after = c /\ link' = link /\ UNCHANGED <<dropTask, aps, wifi>>
      BY <2>1 DEF wifiVars
    <3>2. Mesh!Later(link, link') /\ Mesh!LinksOK'
      BY <1>1, <3>1, Assumed, Mesh!NoChange
    <3>3. QED BY <1>1, <3>1, <3>2 DEF Mesh!StationsOK, Mesh!DropTaskOK
  <2>2. CASE old # {}
    <3>1. PICK x : x = CHOOSE y \in old : TRUE
      OBVIOUS
    <3>2. x \in Ends(n) /\ Closing(n, x) /\ after = ChannelsAfterClose(n, x, c)
      BY <2>2, <3>1
    <3>3. PICK i \in DOMAIN conns[n] : conns[n][i] = x
      BY <3>2 DEF Ends, V102!Ends
    <3>4. /\ x \in Mesh!End /\ x.link \in Mesh!Link /\ Mesh!Peer(x.link, n) \in Node
          /\ x.node \in Node \cup {None}
      <4>1. /\ conns[n][i] \in Mesh!End /\ conns[n][i].link \in Mesh!Link
            /\ Mesh!Peer(conns[n][i].link, n) \in Node
        BY <1>1, Assumed, Mesh!EntryFacts
      <4>2. QED BY <3>3, <4>1 DEF Mesh!End
    <3>5. link' = Mesh!CutLinks(n, x) /\ after = Mesh!CutChannels(n, x, c)
      BY <3>2, SameCut DEF Closing
    <3>6. Mesh!Later(link, link') /\ Mesh!LinksOK'
      BY <1>1, <3>5, Assumed, Mesh!LinksCut
    <3>7. Mesh!Carries(after)
      BY <3>4, <3>5, Assumed, Mesh!ChannelsCut
    <3>8. Mesh!StationsOK' /\ Mesh!DropTaskOK'
      BY <1>1, <3>2, <3>4 DEF Closing, Mesh!StationsOK, Mesh!DropTaskOK
    <3>9. QED BY <3>6, <3>7, <3>8
  <2>3. QED BY <2>1, <2>2
<1>3. Mesh!ChansOK'
  <2>1. ASSUME Send(after, n, {l}, reply) PROVE Mesh!ChansOK'
    <3>1. Mesh!Send(after, n, {l}, reply) /\ Mesh!IsFiniteSet({l})
      BY <2>1, SameSend, Mesh!FS_Singleton
    <3>2. QED BY <1>1, <1>2, <3>1, Assumed, Mesh!SendType
  <2>2. ASSUME chan' = after, UNCHANGED faults PROVE Mesh!ChansOK'
    BY <1>1, <1>2, <2>2 DEF Mesh!ChansOK
  <2>3. QED BY <2>1, <2>2
<1>4. QED BY <1>2, <1>3

LEMMA HandleNodeSyncStep ==
  ASSUME JInv, NEW l \in Link, NEW n \in Node, NEW c, Mesh!Carries(c),
         NEW i \in DOMAIN conns[n], NEW e, e = conns[n][i], e = EndOn(n, l), e.link = l,
         NEW msg \in Mesh!SyncMsg, msg.from = Mesh!Peer(l, n), HandleNodeSync(n, l, msg, c)
  PROVE  JInv' /\ Explained /\ Mesh!HasEnd(n, l)'
<1>1. Mesh!IInv /\ Mesh!ConnsOK /\ Mesh!NewTaskOK /\ Mesh!AppsOK
  BY DEF JInv, Mesh!IInv
<1>2. PICK cs : cs = NewList(n, e, msg)
  OBVIOUS
<1>3. /\ Mesh!Sound(cs) /\ Mesh!Opened(cs, link, n) /\ cs \in Seq(Mesh!End)
      /\ Mesh!OneForName(conns[n]) => \A m \in Node : Doubled(cs, m) => Behind(n, m)
  BY <1>1, <1>2, NewListFacts DEF Mesh!Sound
<1>4. PICK old : old = Superseded(n, e, msg.from)
  OBVIOUS
<1>5. PICK told : told = IF SubsChanged(e, msg) THEN Others(cs, msg.from) ELSE {}
  OBVIOUS
<1>6. PICK us : us = IF told = {} THEN cs ELSE Delay(cs, msg.from)
  OBVIOUS
<1>7. PICK reply : reply = [type |-> "NODE_SYNC_REPLY", from |-> n,
                            subs |-> SubConnections(cs, msg.from)]
  OBVIOUS
<1>8. PICK after : after = IF old = {} THEN c
                           ELSE ChannelsAfterClose(n, CHOOSE x \in old : TRUE, c)
  OBVIOUS
<1>9. /\ IF old = {} THEN UNCHANGED <<dropTask, wifiVars, link>>
         ELSE Closing(n, CHOOSE x \in old : TRUE)
      /\ conns' = [conns EXCEPT ![n] = us]
      /\ later' = [later EXCEPT ![n] =
           (@ \ {x.link : x \in old})
             \cup {x.link : x \in OutOfDate(n, e, msg.from)} \cup told]
      /\ newTask' = IF e.new THEN [newTask EXCEPT ![n] = msg.from] ELSE newTask
      /\ Send(after, n, {l}, reply) \/ (chan' = after /\ UNCHANGED faults)
      /\ UNCHANGED appVars
  BY <1>2, <1>4, <1>5, <1>6, <1>7, <1>8 DEF HandleNodeSync, NewList
<1>10. old \subseteq Ends(n)
  BY <1>4 DEF Superseded
<1>11. reply \in Mesh!MsgOf(n)
  <2>1. reply = [type |-> "NODE_SYNC_REPLY", from |-> n,
                 subs |-> Mesh!SubConnections(cs, msg.from)]
    BY <1>7, SameSubs
  <2>2. QED BY <1>3, <2>1, Assumed, Mesh!SyncType
<1>12. /\ Mesh!Later(link, link') /\ Mesh!LinksOK'
       /\ Mesh!ChansOK' /\ Mesh!StationsOK' /\ Mesh!DropTaskOK'
  BY <1>8, <1>9, <1>10, <1>11, SyncLinks
<1>13. Mesh!NewTaskOK' /\ Mesh!AppsOK'
  <2>1. msg.from \in Node
    BY DEF Mesh!SyncMsg
  <2>2. QED BY <1>1, <1>9, <2>1 DEF appVars, Mesh!NewTaskOK, Mesh!AppsOK
<1>14. Alike(us, cs)
  <2>1. Alike(Delay(cs, msg.from), cs)
    BY <1>3, TasksAlike
  <2>2. Alike(cs, cs)
    BY <1>3 DEF Alike
  <2>3. QED BY <1>6, <2>1, <2>2
<1>15. /\ Mesh!Sound(us) /\ (Mesh!OneForName(cs) => Mesh!OneForName(us))
       /\ Mesh!Opened(us, link, n) /\ us \in Seq(Mesh!End)
  BY <1>3, <1>14, AlikeSound DEF Alike
<1>16. Mesh!Opened(us, link', n)
  BY <1>12, <1>15, Assumed, Mesh!OpenedLater
<1>17. Mesh!ConnsOK' /\ Explained
  <2>1. Mesh!ConnsOK'
    BY <1>1, <1>9, <1>12, <1>15, <1>16, Assumed, Mesh!ConnsStep
  <2>2. conns'[n] = us /\ \A k \in Node : k # n => conns'[k] = conns[k]
    BY <1>1, <1>9 DEF Mesh!ConnsOK
  <2>3. \A m \in Node : Doubled(us, m) => Doubled(cs, m)
    BY <1>14 DEF Alike, Doubled
  <2>4. \A k \in Node, m \in Node :
          k # n /\ Mesh!OneForName(conns[k]) => ~Doubled(conns'[k], m)
    BY <2>2, NodeAssumption DEF Mesh!OneForName, Doubled
  <2>5. QED BY <1>3, <2>1, <2>2, <2>3, <2>4 DEF Explained
<1>18. LaterOK' /\ Mesh!HasEnd(n, l)'
  <2>1. told \in {{}, Others(cs, msg.from)}
    BY <1>5
  <2>2. QED BY <1>2, <1>4, <1>9, <1>14, <2>1, SyncLater
<1>19. QED BY <1>12, <1>13, <1>17, <1>18 DEF JInv, Mesh!IInv

\* Where no list gets a second connection there is nothing to explain.
LEMMA KeptExplains == ASSUME Mesh!Kept PROVE Explained
BY NodeAssumption DEF Mesh!Kept, Mesh!OneForName, Explained, Doubled

LEMMA ReadBufferTaskStep ==
  ASSUME JInv, NEW l \in Link, NEW n \in Node, ReadBufferTask(n, l)
  PROVE  JInv' /\ Explained /\ HasEnd(n, l)'
<1>1. Mesh!IInv /\ l \in Mesh!Link
  BY SameLinks DEF JInv
<1>2. PICK c : c = [chan EXCEPT ![l][Mesh!Peer(l, n)].transit = Tail(@)]
  OBVIOUS
<1>3. PICK msg : msg = Head(chan[l][Mesh!Peer(l, n)].transit)
  OBVIOUS
<1>4. /\ Mesh!HasEnd(n, l) /\ chan[l][Mesh!Peer(l, n)].transit # <<>>
      /\ HandleMessage(n, l, msg, c)
  BY <1>2, <1>3, SameEnds DEF ReadBufferTask
<1>5. PICK e : e = Mesh!EndOn(n, l)
  OBVIOUS
<1>6. /\ msg \in Mesh!Msg /\ msg \in Mesh!MsgOf(Mesh!Peer(l, n)) /\ Mesh!Carries(c)
      /\ e \in Mesh!End /\ e.link = l /\ \E i \in DOMAIN conns[n] : conns[n][i] = e
  BY <1>1, <1>2, <1>3, <1>4, <1>5, Assumed, Mesh!HandleFacts
<1>7. PICK i \in DOMAIN conns[n] : conns[n][i] = e
  BY <1>6
<1>8. /\ msg.type \in {"SINGLE", "BROADCAST"} => msg \in AppMsg
      /\ msg.type \notin {"SINGLE", "BROADCAST"} => msg \in Mesh!SyncMsg
  BY <1>6, Assumed, Mesh!MsgKinds
<1>9. JInv' /\ Explained /\ Mesh!HasEnd(n, l)'
  <2>1. CASE msg.type \in {"SINGLE", "BROADCAST"}
    <3>1. \/ V102!HandleSingle(n, l, msg, c) /\ UNCHANGED later
          \/ V102!HandleBroadcast(n, l, msg, c) /\ UNCHANGED later
      BY <1>4, <2>1 DEF HandleMessage
    <3>2. conns' = conns
      BY <3>1 DEF V102!HandleSingle, V102!HandleBroadcast
    <3>3. Mesh!HasEnd(n, l)'
      BY <1>1, <1>4, <3>2, StayAll DEF Stay
    <3>4. QED BY <1>6, <1>8, <2>1, <3>1, <3>3, HandleAppStep, KeptExplains
  <2>2. CASE msg.type \notin {"SINGLE", "BROADCAST"}
    <3>1. HandleNodeSync(n, l, msg, c)
      BY <1>4, <2>2 DEF HandleMessage
    <3>2. msg \in Mesh!SyncMsg /\ msg.from = Mesh!Peer(l, n)
      BY <1>6, <1>8, <2>2 DEF Mesh!MsgOf
    <3>3. e = EndOn(n, l)
      BY <1>5, SameEnds
    <3>4. QED BY <1>6, <1>7, <3>1, <3>2, <3>3, HandleNodeSyncStep
  <2>3. QED BY <2>1, <2>2
<1>10. HasEnd(n, l)' <=> Mesh!HasEnd(n, l)'
  BY DEF HasEnd, V102!HasEnd, V102!Ends, Mesh!HasEnd, Mesh!Ends
<1>11. QED BY <1>9, <1>10

-----------------------------------------------------------------------------
(* The invariant, and what follows.                                        *)

LEMMA InitOK ==
  ASSUME Init
  PROVE  JInv
<1>1. Mesh!IInv
  BY SameInit, Assumed, Mesh!InitOK DEF Init
<1>2. LaterOK
  BY DEF Init, LaterOK
<1>3. QED BY <1>1, <1>2 DEF JInv

LEMMA MemberFacts ==
  ASSUME JInv, NEW l \in Link, NEW n \in V102!Members(l)
  PROVE  n \in Node
<1>1. l \in Mesh!Link /\ link[l].ap \in Node \cup {None}
  BY SameLinks DEF JInv, Mesh!IInv, Mesh!LinksOK, Mesh!LinkState
<1>2. l[1] \in Node
  BY <1>1, Assumed, Mesh!LinkFacts
<1>3. QED BY <1>1, <1>2 DEF V102!Members

LEMMA NextOK ==
  ASSUME JInv, [Next]_vars
  PROVE  JInv' /\ Explained
<1>1. ASSUME NEW l \in Link, NEW n \in V102!Members(l), Serve(n, l) \/ IntervalOver(n, l)
      PROVE  JInv' /\ Explained
  <2>1. n \in Node
    BY MemberFacts
  <2>2. CASE Start(n, l) \/ NodeSyncTask(n, l) \/ IntervalOver(n, l)
    BY <2>1, <2>2, TasksStep, KeptExplains
  <2>3. CASE DelayOver(n, l) \/ ReadBufferTask(n, l) \/ OnDisconnect(n, l)
    BY <2>1, <2>3, DelayOverStep, ReadBufferTaskStep, DisconnectStep, KeptExplains
  <2>4. QED BY <1>1, <2>2, <2>3 DEF Serve
<1>2. ASSUME NEW n \in Node, DroppedConnectionTask(n) \/ NewConnectionTask(n)
      PROVE  JInv' /\ Explained
  BY <1>2, DroppedConnectionTaskStep, NewConnectionTaskStep, KeptExplains
<1>3. ASSUME NEW m \in AppMsg, SendSingle(m) \/ SendBroadcast(m)
      PROVE  JInv' /\ Explained
  BY <1>3, AppStep, KeptExplains
<1>4. ASSUME NEW n \in Node, ScanComplete(n) \/ Reconfigure(n)
      PROVE  JInv' /\ Explained
  BY <1>4, ScanStep, ReconfigureStep, KeptExplains
<1>5. ASSUME NEW n \in Node, NEW m \in aps[n],
             AssociationFails(n, m) \/ \E l \in Link : ConnectToAP(n, m, l)
      PROVE  JInv' /\ Explained
  BY <1>5, StationStep, KeptExplains
<1>6. ASSUME NEW l \in Link, Accept(l) \/ LinkLost(l)
      PROVE  JInv' /\ Explained
  BY <1>6, LinkStep, KeptExplains
<1>7. CASE UNCHANGED vars
  <2>1. UNCHANGED <<conns, link, chan, faults, aps, wifi, newTask, dropTask, sent, got, later>>
    BY <1>7 DEF vars, netVars, wifiVars, appVars
  <2>2. UNCHANGED Mesh!vars
    BY <2>1 DEF Mesh!vars, Mesh!netVars, Mesh!wifiVars, Mesh!appVars
  <2>3. Mesh!IInv' /\ Mesh!Kept
    BY <2>2, Assumed, Mesh!NextOK DEF JInv
  <2>4. QED BY <2>1, <2>3, StayAll, Shared, KeptExplains
<1>8. CASE Next
  BY <1>1, <1>2, <1>3, <1>4, <1>5, <1>6, <1>8 DEF Next
<1>9. QED BY <1>7, <1>8

\* In every reachable state of v0.6.3 the lists of connections are well typed
\* and have one entry for a link, an entry with a name has that of the node at
\* the other end of its link, and what nodeSyncTask delays is in the list
\* (handleNodeSync, close, newConnectionTask): the inductive invariant.
THEOREM V063Correct == Spec => []JInv
<1>1. Init => JInv
  BY InitOK
<1>2. JInv /\ [Next]_vars => JInv'
  BY NextOK
<1>3. QED BY <1>1, <1>2, PTL DEF Spec

\* Handling a message never closes the connection it came on, whatever the
\* message makes handleNodeSync close, replace or forget: readBufferTask may
\* take it off the receive queue of that connection afterwards.
THEOREM V063HandledKept == Spec => HandledKept
<1>1. JInv /\ [Next]_vars =>
        [\A l \in Link : \A n \in V102!Members(l) : ReadBufferTask(n, l) => HasEnd(n, l)']_vars
  BY MemberFacts, ReadBufferTaskStep
<1>2. QED BY <1>1, V063Correct, PTL DEF Spec, HandledKept

\* In a mesh of any nodes, a node with one connection to each neighbour gets a
\* second one to a neighbour only while its connection to a third node lists
\* that neighbour, however the nodes connect to each other and however their
\* NODE_SYNC messages cross.  With two nodes there is no third (handleNodeSync,
\* findConnection).
THEOREM V063DoubledWhereListed == Spec => DoubledWhereListed
<1>1. JInv /\ [Next]_vars =>
        [\A n \in Node : (\A m \in Node : ~Doubled(conns[n], m)) =>
           \A m \in Node : Doubled(conns'[n], m) =>
             \E i \in DOMAIN conns[n] :
               conns[n][i].node \notin {None, m} /\ V102!Lists(conns[n][i].subs, m)]_vars
  <2>1. SUFFICES ASSUME JInv, [Next]_vars, NEW n \in Node, \A m \in Node : ~Doubled(conns[n], m),
                        NEW m \in Node, Doubled(conns'[n], m)
                 PROVE  Behind(n, m)
    BY DEF Behind
  <2>2. Mesh!OneForName(conns[n])
    <3>1. \A i \in DOMAIN conns[n] : conns[n][i].node \in Node \cup {None}
      <4>1. conns[n] \in Seq(Mesh!End)
        BY <2>1 DEF JInv, Mesh!IInv, Mesh!ConnsOK
      <4>2. \A i \in DOMAIN conns[n] : conns[n][i] \in Mesh!End
        BY <4>1, ListType
      <4>3. QED BY <4>2 DEF Mesh!End
    <3>2. QED BY <2>1, <3>1 DEF Doubled, Mesh!OneForName
  <2>3. Explained
    BY <2>1, NextOK
  <2>4. QED BY <2>1, <2>2, <2>3 DEF Explained
<1>2. QED BY <1>1, V063Correct, PTL DEF Spec, DoubledWhereListed

=============================================================================
