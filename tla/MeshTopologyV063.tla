-------------------------- MODULE MeshTopologyV063 --------------------------
(***************************************************************************)
(* The same mesh run by painlessMesh v0.6.3, the copy of the library that  *)
(* the repository keeps beside v1.0.2.                                     *)
(*                                                                         *)
(* State, links and messages are those of MeshTopology, and so is what the *)
(* code does in the same way: V102!Op.  What differs: a second connection  *)
(* to a node replaces the first one; a node that turns up on a new         *)
(* connection while it is listed behind an older one makes the older one's *)
(* subs out of date; nothing looks for loops; a new connection has no subs *)
(* at all rather than "[]"; newConnectionTask asks the others for their    *)
(* subs; what a connection has to tell the others waits for 100 ms; and a  *)
(* message is taken off the receive queue after it has been handled.       *)
(***************************************************************************)
EXTENDS Integers, Sequences, FiniteSets, SequencesExt, SeqFilter

CONSTANTS Node, None, Off, InRange, MaxLinks, MaxFaults, Backlog, AppMsg

ASSUME NodeAssumption == None \notin Node /\ Off \notin Node \cup {None}
ASSUME RangeAssumption == InRange \subseteq {p \in Node \X Node : p[1] # p[2]}
ASSUME CountAssumption == MaxLinks \in [Node -> Nat] /\ MaxFaults \in Nat /\ Backlog \in BOOLEAN
ASSUME AppAssumption ==
  AppMsg \subseteq [type : {"SINGLE", "BROADCAST"}, from : Node, dest : Node]

VARIABLES conns, link, chan, aps, wifi, newTask, dropTask, faults, sent, got,
  later       \* connections whose nodeSyncTask is delayed by 100 ms

V102 == INSTANCE MeshTopology

netVars == <<link, chan, faults>>
wifiVars == <<aps, wifi>>
appVars == <<sent, got>>
vars == <<conns, netVars, wifiVars, newTask, dropTask, appVars, later>>

Init == V102!Init /\ later = [n \in Node |-> {}]
Link == V102!Link
ASSUME LinkAssumption == V102!NoLink \notin Link
Ends(n) == V102!Ends(n)
HasEnd(n, l) == V102!HasEnd(n, l)
Peer(l, n) == V102!Peer(l, n)
Idle == V102!Idle

\* findConnection by the TCP client, and by the node.
EndOn(n, l) == V102!EndOn(n, l)
FindConnection(cs, id, exclude) == V102!FindConnection(cs, id, exclude)

\* subConnectionJson: "connections" but the excluded one and the unnamed.
SubConnections(cs, exclude) == V102!SubConnections(cs, exclude)

\* addMessage, and writeNext when the socket has space again.
Send(c, n, links, msg) == V102!Send(c, n, links, msg)
Start(n, l) == V102!Start(n, l) /\ UNCHANGED later

\* The callback of nodeSyncTask.
NodeSyncTask(n, l) == V102!NodeSyncTask(n, l) /\ UNCHANGED later

\* nodeSyncTask.forceNextIteration of all connections to other nodes than id,
\* those included that have no name yet; and nodeSyncTask.delay of them.
ForceIteration(cs, id) == [i \in DOMAIN cs |-> [cs[i] EXCEPT !.due = @ \/ cs[i].node # id]]
Delay(cs, id) == [i \in DOMAIN cs |-> [cs[i] EXCEPT !.due = @ /\ cs[i].node = id]]
Others(cs, id) == {cs[i].link : i \in {j \in DOMAIN cs : cs[j].node # id}}

\* 100 ms have passed.  Bound: by then every NODE_SYNC that was sent has been
\* handled.
SyncHandled ==
  \A k \in Link, m \in Node :
    ToSet(chan[k][m].pending \o chan[k][m].transit) \subseteq AppMsg
DelayOver(n, l) ==
  /\ l \in later[n] /\ SyncHandled
  /\ conns' = [conns EXCEPT ![n] = V102!Replace(@, [EndOn(n, l) EXCEPT !.due = TRUE])]
  /\ later' = [later EXCEPT ![n] = @ \ {l}]
  /\ UNCHANGED <<netVars, wifiVars, newTask, dropTask, appVars>>

-----------------------------------------------------------------------------
(* Closing.                                                                *)

\* esp_wifi_disconnect takes away what the station has associated with since.
LinksAfterClose(n, e) ==
  [k \in Link |->
    IF e.station /\ k # e.link /\ k[1] = n /\ HasEnd(n, k) THEN [link[k] EXCEPT !.state = "lost"]
    ELSE link[k]]

ChannelsAfterClose(n, e, c) ==
  [k \in Link |->
    IF k = e.link THEN [c[k] EXCEPT ![n].pending = <<>>, ![Peer(k, n)] = Idle]
    ELSE IF LinksAfterClose(n, e)[k].state = "lost" THEN [m \in Node |-> Idle]
    ELSE c[k]]

\* What MeshConnection::close changes apart from the list and the channels.
Closing(n, e) ==
  /\ dropTask' = [dropTask EXCEPT ![n] = e.node]
  /\ wifi' = IF e.station THEN [wifi EXCEPT ![n] = None] ELSE wifi
  /\ link' = LinksAfterClose(n, e)
  /\ UNCHANGED aps

\* MeshConnection::close.
Close(n, e) ==
  /\ Closing(n, e)
  /\ conns' = [conns EXCEPT ![n] = Only(@, {x \in Ends(n) : x.link # e.link})]
  /\ chan' = ChannelsAfterClose(n, e, chan)
  /\ later' = [later EXCEPT ![n] = @ \ {e.link}]
  /\ UNCHANGED <<faults, newTask, appVars>>

OnDisconnect(n, l) ==
  /\ HasEnd(n, l) /\ V102!PeerGone(n, l)
  /\ Close(n, EndOn(n, l))

DroppedConnectionTask(n) ==
  /\ dropTask[n] # Off
  /\ conns' = [conns EXCEPT ![n] = ForceIteration(@, dropTask[n])]
  /\ later' = [later EXCEPT ![n] = @ \ Others(conns[n], dropTask[n])]
  /\ dropTask' = [dropTask EXCEPT ![n] = Off]
  /\ UNCHANGED <<netVars, wifiVars, newTask, appVars>>

\* The callback of newConnectionTask.
NewConnectionTask(n) ==
  /\ newTask[n] # Off
  /\ conns' = [conns EXCEPT ![n] = Delay(@, newTask[n])]
  /\ later' = [later EXCEPT ![n] = @ \cup Others(conns[n], newTask[n])]
  /\ newTask' = [newTask EXCEPT ![n] = Off]
  /\ UNCHANGED <<netVars, wifiVars, dropTask, appVars>>

-----------------------------------------------------------------------------
(* Receiving.                                                              *)

\* Mutants of Superseded: the new connection is the one closed, and none is.
SupersededByOld(n, e, from) ==
  IF FindConnection(conns[n], from, None) = V102!NoLink THEN {} ELSE {e}
SupersededKept(n, e, from) == {}

\* A connection that is not named yet names itself after a node: the older
\* connection to that node is closed.
Superseded(n, e, from) ==
  {x \in Ends(n) : /\ e.node # from
                   /\ x.link = FindConnection(conns[n], from, None)
                   /\ x.node = from}

\* The older connection the node was listed behind has its subs "[]" and asks
\* for new ones.
OutOfDate(n, e, from) ==
  {x \in Ends(n) : /\ e.node # from
                   /\ x.link = FindConnection(conns[n], from, None)
                   /\ x.node # from}

Forget(cs, ends) ==
  [i \in DOMAIN cs |-> IF cs[i] \in ends THEN [cs[i] EXCEPT !.subs = <<>>, !.due = FALSE]
                       ELSE cs[i]]

\* Mutant of SubsChanged: as in v1.0.2, what a new connection says is no
\* change if it lists nobody.
SubsChangedFromNone(e, msg) == msg.subs # e.subs
SubsChanged(e, msg) == e.new \/ msg.subs # e.subs

Named(e, msg) == [e EXCEPT !.node = msg.from, !.new = FALSE, !.subs = msg.subs]

\* painlessMesh::handleNodeSync.
HandleNodeSync(n, l, msg, c) ==
  LET e == EndOn(n, l)
      old == Superseded(n, e, msg.from)
      outdated == OutOfDate(n, e, msg.from)
      rest == Forget(Only(conns[n], Ends(n) \ old), outdated)
      cs == V102!Replace(rest, Named(e, msg))
      told == IF SubsChanged(e, msg) THEN Others(cs, msg.from) ELSE {}
      reply == [type |-> "NODE_SYNC_REPLY", from |-> n, subs |-> SubConnections(cs, msg.from)]
      after == IF old = {} THEN c ELSE ChannelsAfterClose(n, CHOOSE x \in old : TRUE, c)
  IN
  /\ IF old = {} THEN UNCHANGED <<dropTask, wifiVars, link>>
     ELSE Closing(n, CHOOSE x \in old : TRUE)
  /\ conns' = [conns EXCEPT ![n] = IF told = {} THEN cs ELSE Delay(cs, msg.from)]
  /\ later' = [later EXCEPT ![n] =
       (@ \ {x.link : x \in old}) \cup {x.link : x \in outdated} \cup told]
  /\ newTask' = IF e.new THEN [newTask EXCEPT ![n] = msg.from] ELSE newTask
  /\ IF msg.type = "NODE_SYNC_REQUEST" /\ link'[l].state # "lost"
     THEN Send(after, n, {l}, reply)
     ELSE chan' = after /\ UNCHANGED faults
  /\ UNCHANGED appVars

\* MeshConnection::handleMessage, the message being off the channel in c.
HandleMessage(n, l, msg, c) ==
  CASE msg.type = "SINGLE" -> V102!HandleSingle(n, l, msg, c) /\ UNCHANGED later
    [] msg.type = "BROADCAST" -> V102!HandleBroadcast(n, l, msg, c) /\ UNCHANGED later
    [] OTHER -> HandleNodeSync(n, l, msg, c)

\* The callback of readBufferTask, which takes the message off the queue when
\* handleMessage is back.
ReadBufferTask(n, l) ==
  LET q == chan[l][Peer(l, n)].transit IN
  /\ HasEnd(n, l) /\ q # <<>>
  /\ HandleMessage(n, l, Head(q), [chan EXCEPT ![l][Peer(l, n)].transit = Tail(@)])

-----------------------------------------------------------------------------
(* The applications, and the station.                                      *)

\* sendSingle: sendMessage by the node.
SendSingle(m) == V102!SendSingle(m) /\ UNCHANGED later

\* sendBroadcast: broadcastMessage with nobody excluded.
SendBroadcast(m) == V102!SendBroadcast(m) /\ UNCHANGED later

\* As in MeshTopology, what is a matter of seconds happens when nothing is
\* under way.
Settled == \A n \in Node : later[n] = {}

\* scanComplete and filterAPs.
ScanComplete(n) ==
  (wifi[n] = None \/ Settled) /\ V102!ScanComplete(n) /\ UNCHANGED later

\* connectToAP, requestIP and, with an address, tcpConnect.
ConnectToAP(n, m, l) == V102!ConnectToAP(n, m, l) /\ UNCHANGED later
AssociationFails(n, m) == V102!AssociationFails(n, m) /\ UNCHANGED later

\* connectToAP gives up the connection of the station: closeConnectionSTA.
Reconfigure(n) ==
  LET stations == {i \in DOMAIN conns[n] : conns[n][i].station} IN
  /\ wifi[n] # None /\ aps[n] # {} /\ stations # {}
  /\ Close(n, conns[n][CHOOSE i \in stations : \A j \in stations : i <= j])

\* The listener's callback.
Accept(l) == V102!Accept(l) /\ UNCHANGED later
LinkLost(l) == V102!LinkLost(l) /\ UNCHANGED later

IntervalOver(n, l) == Settled /\ V102!IntervalOver(n, l) /\ UNCHANGED later
Turn(n) == V102!Turn(n)

Serve(n, l) ==
  Turn(n) /\ (Start(n, l) \/ NodeSyncTask(n, l) \/ DelayOver(n, l)
             \/ ReadBufferTask(n, l) \/ OnDisconnect(n, l))

Next ==
  \/ \E l \in Link : \E n \in V102!Members(l) : Serve(n, l) \/ IntervalOver(n, l)
  \/ \E n \in Node : DroppedConnectionTask(n) \/ NewConnectionTask(n)
  \/ \E m \in AppMsg : Turn(m.from) /\ (SendSingle(m) \/ SendBroadcast(m))
  \/ \E n \in Node : Turn(n) /\ (ScanComplete(n) \/ Reconfigure(n))
  \/ \E n \in Node : Turn(n) /\ \E m \in aps[n] :
       AssociationFails(n, m) \/ \E l \in Link : ConnectToAP(n, m, l)
  \/ \E l \in Link : Turn(link[l].ap) /\ (Accept(l) \/ LinkLost(l))

Spec == Init /\ [][Next]_vars
=============================================================================
