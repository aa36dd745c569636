---------------------------- MODULE MeshTopology ----------------------------
(***************************************************************************)
(* How the nodes of a mesh find each other, learn who is behind which      *)
(* connection, keep the connections a tree, and route messages along it.   *)
(*                                                                         *)
(* Every node is an access point with a TCP listener, and a station that   *)
(* connects to one access point at a time.  A link is one TCP connection;  *)
(* each end keeps a MeshConnection in its _connections list.  Whom a       *)
(* connection leads to is learned from the NODE_SYNC messages: the sender, *)
(* and "subs", the sender's own connections apart from this one, with      *)
(* their subs nested.  subs is a JSON text in the code and compared as a   *)
(* text; here it is the sequence of node and nesting depth that text       *)
(* lists.  A node is found in it as a whole number (stringContainsNumber), *)
(* which is so unless one id is another one and one more digit.            *)
(*                                                                         *)
(* What a link does with a message is MessageChannel's promise: messages   *)
(* not yet started are "pending", where a NODE_SYNC overtakes everything,  *)
(* the others in "transit".                                                *)
(***************************************************************************)
EXTENDS Integers, Sequences, FiniteSets, SequencesExt, SeqFilter

CONSTANTS
  Node,
  None,       \* nodeId 0: not known yet
  Off,        \* a task that is not scheduled
  InRange,    \* <<n, m>>: station n can see access point m
  MaxLinks,   \* bound: connections each station opens in a behaviour
  MaxFaults,  \* bound: associations and links that fail, messages discarded
  Backlog,    \* whether a message may have to wait for the socket
  AppMsg      \* [type, from, dest]: the messages applications send, once each

ASSUME NodeAssumption == None \notin Node /\ Off \notin Node \cup {None}
ASSUME RangeAssumption == InRange \subseteq {p \in Node \X Node : p[1] # p[2]}
ASSUME CountAssumption == MaxLinks \in [Node -> Nat] /\ MaxFaults \in Nat /\ Backlog \in BOOLEAN
ASSUME AppAssumption ==
  AppMsg \subseteq [type : {"SINGLE", "BROADCAST"}, from : Node, dest : Node]

\* <<n, k>> is the k-th connection that station n opens.
Link == UNION {{n} \X (1..MaxLinks[n]) : n \in Node}
NoLink == None
ASSUME LinkAssumption == NoLink \notin Link
Subs == Seq([id : Node, depth : Nat])
End == [link : Link, station : BOOLEAN, node : Node \cup {None}, new : BOOLEAN,
        subs : Subs, due : BOOLEAN]
SyncMsg == [type : {"NODE_SYNC_REQUEST", "NODE_SYNC_REPLY"}, from : Node, subs : Subs]
Idle == [pending |-> <<>>, transit |-> <<>>]

VARIABLES
  conns,      \* _connections of each node
  link,       \* [ap, state] of each TCP connection
  chan,       \* what each node has sent on each link, not yet handled
  aps,        \* stationScan.aps: access points to try
  wifi,       \* the access point the station is associated with
  newTask,    \* newConnectionTask: the node to announce
  dropTask,   \* droppedConnectionTask: the node to announce
  faults,     \* faults so far
  sent,       \* history: application messages that found a connection
  got         \* history: how often each was given to receivedCallback, up to 2

netVars == <<link, chan, faults>>
wifiVars == <<aps, wifi>>
appVars == <<sent, got>>
vars == <<conns, netVars, wifiVars, newTask, dropTask, appVars>>

Init ==
  /\ conns = [n \in Node |-> <<>>]
  /\ link = [l \in Link |-> [ap |-> None, state |-> "free"]]
  /\ chan = [l \in Link |-> [n \in Node |-> Idle]]
  /\ aps = [n \in Node |-> {}]
  /\ wifi = [n \in Node |-> None]
  /\ newTask = [n \in Node |-> Off]
  /\ dropTask = [n \in Node |-> Off]
  /\ faults = 0
  /\ sent = {}
  /\ got = [n \in Node |-> [m \in AppMsg |-> 0]]

-----------------------------------------------------------------------------
(* The connection list.                                                    *)

Ends(n) == {conns[n][i] : i \in DOMAIN conns[n]}
HasEnd(n, l) == \E e \in Ends(n) : e.link = l
EndOn(n, l) == CHOOSE e \in Ends(n) : e.link = l
Members(l) == {l[1], link[l].ap} \ {None}
Peer(l, n) == IF l[1] = n THEN link[l].ap ELSE l[1]

Lists(subs, id) == \E i \in DOMAIN subs : subs[i].id = id

\* painlessMesh::findConnection: the first connection to a node or to one
\* it is behind.
FindConnection(cs, id, exclude) ==
  LET found == {i \in DOMAIN cs : /\ cs[i].node # exclude
                                  /\ cs[i].node = id \/ Lists(cs[i].subs, id)}
  IN  IF found = {} THEN NoLink ELSE cs[CHOOSE i \in found : \A j \in found : i <= j].link

\* Mutant of SubConnections: connections too new to have a name are listed.
SubConnectionsOfAll(cs, exclude) ==
  FlattenSeq([i \in DOMAIN cs |->
    IF cs[i].node = exclude THEN <<>>
    ELSE <<[id |-> cs[i].node, depth |-> 0]>>
         \o [j \in DOMAIN cs[i].subs |-> [cs[i].subs[j] EXCEPT !.depth = @ + 1]]])

\* painlessMesh::subConnectionJson: all connections but the excluded one and
\* those too new to have a name.
SubConnections(cs, exclude) ==
  FlattenSeq([i \in DOMAIN cs |->
    IF cs[i].node \in {exclude, None} THEN <<>>
    ELSE <<[id |-> cs[i].node, depth |-> 0]>>
         \o [j \in DOMAIN cs[i].subs |-> [cs[i].subs[j] EXCEPT !.depth = @ + 1]]])

Replace(cs, e) == [i \in DOMAIN cs |-> IF cs[i].link = e.link THEN e ELSE cs[i]]

\* painlessMesh::syncSubConnections: the nodeSyncTask of every connection
\* that has a name, but the one the news came from, runs at once.
SyncSubConnections(cs, changed) ==
  [i \in DOMAIN cs |->
    [cs[i] EXCEPT !.due = @ \/ (~cs[i].new /\ cs[i].node \notin {None, changed})]]

-----------------------------------------------------------------------------
(* Sending.                                                                *)

\* Whether what n sends on l can still be handled by somebody.
Reaches(n, l) ==
  \/ link[l].state = "syn"
  \/ link[l].state = "up" /\ HasEnd(Peer(l, n), l)

\* MeshConnection::addMessage at one end, NODE_SYNC with priority.
Queue(q, msg) ==
  IF ~Backlog THEN [q EXCEPT !.transit = Append(@, msg)]
  ELSE IF msg \in AppMsg THEN [q EXCEPT !.pending = Append(@, msg)]
  ELSE [q EXCEPT !.pending = <<msg>> \o @]

\* The same message on each of some links, on top of the channels c.  Where
\* memory is low addMessage discards it.
Send(c, n, links, msg) ==
  \E discarded \in SUBSET links :
    /\ faults' = faults + Cardinality(discarded)
    /\ faults' <= MaxFaults
    /\ chan' = [l \in Link |->
         IF l \in links \ discarded /\ Reaches(n, l) THEN [c[l] EXCEPT ![n] = Queue(@, msg)]
         ELSE c[l]]

\* writeNext: the first message that waits leaves.
Start(n, l) ==
  /\ chan[l][n].pending # <<>>
  /\ chan' = [chan EXCEPT ![l][n] =
       [pending |-> Tail(@.pending),
        transit |-> IF Reaches(n, l) THEN Append(@.transit, Head(@.pending)) ELSE <<>>]]
  /\ UNCHANGED <<conns, link, faults, wifiVars, newTask, dropTask, appVars>>

\* nodeSyncTask: ask the other end for its subs, telling ours.
NodeSyncTask(n, l) ==
  /\ HasEnd(n, l) /\ EndOn(n, l).due
  /\ Send(chan, n, {l}, [type |-> "NODE_SYNC_REQUEST", from |-> n,
                         subs |-> SubConnections(conns[n], EndOn(n, l).node)])
  /\ conns' = [conns EXCEPT ![n] = Replace(@, [EndOn(n, l) EXCEPT !.due = FALSE])]
  /\ UNCHANGED <<link, wifiVars, newTask, dropTask, appVars>>

-----------------------------------------------------------------------------
(* Closing.                                                                *)

\* MeshConnection::close.  The node is announced, and the others told, by
\* droppedConnectionTask, one task for all connections.  The close of a
\* station connection disconnects the station, whatever it is associated
\* with by now.
Close(n, e, c) ==
  LET l == e.link IN
  /\ conns' = [conns EXCEPT ![n] = Only(@, {x \in Ends(n) : x.link # l})]
  /\ dropTask' = [dropTask EXCEPT ![n] = e.node]
  /\ wifi' = IF e.station THEN [wifi EXCEPT ![n] = None] ELSE wifi
  /\ link' = [k \in Link |->
       IF e.station /\ k # l /\ k[1] = n /\ HasEnd(n, k) THEN [link[k] EXCEPT !.state = "lost"]
       ELSE link[k]]
  /\ chan' = [k \in Link |->
       IF k = l THEN [c[k] EXCEPT ![n].pending = <<>>, ![Peer(l, n)] = Idle]
       ELSE IF link'[k].state = "lost" THEN [m \in Node |-> Idle]
       ELSE c[k]]
  /\ UNCHANGED <<aps, faults>>

\* The other end has closed, or the radio link is gone and the receive
\* timeout expires.
PeerGone(n, l) == link[l].state = "lost" \/ (link[l].state = "up" /\ ~HasEnd(Peer(l, n), l))
OnDisconnect(n, l) ==
  /\ HasEnd(n, l) /\ PeerGone(n, l)
  /\ Close(n, EndOn(n, l), chan)
  /\ UNCHANGED <<newTask, appVars>>

\* Mutant of DroppedConnectionTask: the others are not told.
DroppedConnectionTaskSilent(n) ==
  /\ dropTask[n] # Off
  /\ dropTask' = [dropTask EXCEPT ![n] = Off]
  /\ UNCHANGED <<conns, netVars, wifiVars, newTask, appVars>>

DroppedConnectionTask(n) ==
  /\ dropTask[n] # Off
  /\ conns' = [conns EXCEPT ![n] = SyncSubConnections(@, dropTask[n])]
  /\ dropTask' = [dropTask EXCEPT ![n] = Off]
  /\ UNCHANGED <<netVars, wifiVars, newTask, appVars>>

NewConnectionTask(n) ==
  /\ newTask[n] # Off
  /\ newTask' = [newTask EXCEPT ![n] = Off]
  /\ UNCHANGED <<conns, netVars, wifiVars, dropTask, appVars>>

-----------------------------------------------------------------------------
(* Receiving.                                                              *)

\* Mutant of AlreadyConnected: a second connection is kept.
SecondConnectionKept(n, e, msg) == FALSE

AlreadyConnected(n, e, msg) ==
  e.new /\ FindConnection(conns[n], msg.from, None) # NoLink

\* The other end has changed its nodeId, or its subs have changed and list
\* itself or this node.
LoopDetected(n, e, msg) ==
  \/ e.node # msg.from
  \/ msg.subs # e.subs /\ (Lists(msg.subs, e.node) \/ Lists(msg.subs, n))

\* Mutant of StoreSubs: subs that have become shorter are not stored.
StoreLongerSubs(e, msg) ==
  [e EXCEPT !.subs = IF Len(msg.subs) < Len(e.subs) THEN e.subs ELSE msg.subs]

StoreSubs(e, msg) == [e EXCEPT !.subs = msg.subs]

\* The rest of handleNodeSync for a connection e that is kept.
TakeSubs(n, e, msg, c) ==
  LET cs == Replace(conns[n], StoreSubs(e, msg))
      reply == [type |-> "NODE_SYNC_REPLY", from |-> n, subs |-> SubConnections(cs, e.node)]
  IN
  /\ conns' = [conns EXCEPT ![n] =
       IF msg.subs # e.subs THEN SyncSubConnections(cs, e.node) ELSE cs]
  /\ IF msg.type = "NODE_SYNC_REQUEST" THEN Send(c, n, {e.link}, reply)
     ELSE chan' = c /\ UNCHANGED faults
  /\ UNCHANGED <<link, wifiVars, dropTask>>

\* painlessMesh::handleNodeSync.
HandleNodeSync(n, l, msg, c) ==
  LET e == EndOn(n, l)
      named == IF e.new THEN [e EXCEPT !.node = msg.from, !.new = FALSE] ELSE e
  IN
  /\ UNCHANGED appVars
  /\ \/ /\ AlreadyConnected(n, e, msg)
        /\ Close(n, e, c)
        /\ UNCHANGED newTask
     \/ /\ ~AlreadyConnected(n, e, msg)
        /\ newTask' = IF e.new THEN [newTask EXCEPT ![n] = msg.from] ELSE newTask
        /\ \/ LoopDetected(n, named, msg) /\ Close(n, named, c)
           \/ ~LoopDetected(n, named, msg) /\ TakeSubs(n, named, msg, c)

\* receivedCallback.
Receive(n, msg) == got' = [got EXCEPT ![n][msg] = IF @ < 2 THEN @ + 1 ELSE @]

\* Mutant of HandleSingle: the wrong node is excluded.
HandleSingleNotToDest(n, l, msg, c) ==
  LET route == FindConnection(conns[n], msg.dest, msg.dest) IN
  /\ IF msg.dest = n THEN Receive(n, msg) ELSE UNCHANGED got
  /\ IF msg.dest = n \/ route = NoLink THEN chan' = c /\ UNCHANGED faults
     ELSE Send(c, n, {route}, msg)
  /\ UNCHANGED <<conns, link, wifiVars, newTask, dropTask, sent>>

HandleSingle(n, l, msg, c) ==
  LET route == FindConnection(conns[n], msg.dest, EndOn(n, l).node) IN
  /\ IF msg.dest = n THEN Receive(n, msg) ELSE UNCHANGED got
  /\ IF msg.dest = n \/ route = NoLink THEN chan' = c /\ UNCHANGED faults
     ELSE Send(c, n, {route}, msg)
  /\ UNCHANGED <<conns, link, wifiVars, newTask, dropTask, sent>>

\* Mutant of AllBut: the message goes back where it came from.
ToAll(n, exclude) == {e.link : e \in Ends(n)}

\* broadcastMessage: every connection but those to the excluded node.
AllBut(n, exclude) == {e.link : e \in {x \in Ends(n) : x.node # exclude}}

HandleBroadcast(n, l, msg, c) ==
  /\ Receive(n, msg)
  /\ Send(c, n, AllBut(n, EndOn(n, l).node), msg)
  /\ UNCHANGED <<conns, link, wifiVars, newTask, dropTask, sent>>

\* MeshConnection::handleMessage.
Handle(n, l) ==
  LET q == chan[l][Peer(l, n)].transit
      c == [chan EXCEPT ![l][Peer(l, n)].transit = Tail(@)]
  IN
  /\ HasEnd(n, l) /\ q # <<>>
  /\ CASE Head(q).type = "SINGLE" -> HandleSingle(n, l, Head(q), c)
       [] Head(q).type = "BROADCAST" -> HandleBroadcast(n, l, Head(q), c)
       [] OTHER -> HandleNodeSync(n, l, Head(q), c)

-----------------------------------------------------------------------------
(* The applications.                                                       *)

SendSingle(m) ==
  LET route == FindConnection(conns[m.from], m.dest, None) IN
  /\ m \in AppMsg \ sent /\ m.type = "SINGLE" /\ route # NoLink
  /\ Send(chan, m.from, {route}, m)
  /\ sent' = sent \cup {m}
  /\ UNCHANGED <<conns, link, wifiVars, newTask, dropTask, got>>

SendBroadcast(m) ==
  /\ m \in AppMsg \ sent /\ m.type = "BROADCAST" /\ conns[m.from] # <<>>
  /\ Send(chan, m.from, AllBut(m.from, Off), m)
  /\ sent' = sent \cup {m}
  /\ UNCHANGED <<conns, link, wifiVars, newTask, dropTask, got>>

-----------------------------------------------------------------------------
(* The station.                                                            *)

\* Nothing is under way in the mesh.  Bound: what is a matter of seconds
\* happens then, the rest being a matter of milliseconds.
Calm ==
  /\ \A l \in Link, n \in Node : chan[l][n] = Idle
  /\ \A n \in Node : newTask[n] = Off /\ dropTask[n] = Off /\ \A e \in Ends(n) : ~e.due

\* A scan has finished: the access points in range that are not in the mesh
\* this node knows.  A node that has a connection waits 40 s or more with the
\* next scan.  Bound: a station that may open no more connections does not
\* scan.
ScanComplete(n) ==
  /\ wifi[n] = None \/ Calm
  /\ \E l \in Link : l[1] = n /\ link[l].state = "free"
  /\ aps' = [aps EXCEPT ![n] =
       {m \in Node : <<n, m>> \in InRange /\ FindConnection(conns[n], m, None) = NoLink}]
  /\ UNCHANGED <<conns, netVars, wifi, newTask, dropTask, appVars>>

\* connectToAP takes an access point off the list, the station associates
\* with it, gets an address, and tcpConnect opens the connection; or the
\* association fails.
NewEnd(l, station) ==
  [link |-> l, station |-> station, node |-> None, new |-> TRUE, subs |-> <<>>,
   due |-> station]

ConnectToAP(n, m, l) ==
  /\ wifi[n] = None
  /\ l[1] = n /\ link[l].state = "free" /\ \A k \in 1..(l[2] - 1) : link[<<n, k>>].state # "free"
  /\ aps' = [aps EXCEPT ![n] = @ \ {m}]
  /\ wifi' = [wifi EXCEPT ![n] = m]
  /\ link' = [link EXCEPT ![l] = [ap |-> m, state |-> "syn"]]
  /\ conns' = [conns EXCEPT ![n] = Append(@, NewEnd(l, TRUE))]
  /\ UNCHANGED <<chan, faults, newTask, dropTask, appVars>>

AssociationFails(n, m) ==
  /\ wifi[n] = None
  /\ faults < MaxFaults /\ faults' = faults + 1
  /\ aps' = [aps EXCEPT ![n] = @ \ {m}]
  /\ UNCHANGED <<conns, link, chan, wifi, newTask, dropTask, appVars>>

\* The listener of the access point.
Accept(l) ==
  /\ link[l].state = "syn"
  /\ link' = [link EXCEPT ![l].state = "up"]
  /\ conns' = [conns EXCEPT ![link[l].ap] = Append(@, NewEnd(l, FALSE))]
  /\ UNCHANGED <<chan, faults, wifiVars, newTask, dropTask, appVars>>

\* connectToAP of a node that has a connection but sees access points it
\* does not know: with some probability it gives up the connection.
Reconfigure(n) ==
  LET stations == {i \in DOMAIN conns[n] : conns[n][i].station} IN
  /\ wifi[n] # None /\ aps[n] # {} /\ stations # {}
  /\ Close(n, conns[n][CHOOSE i \in stations : \A j \in stations : i <= j], chan)
  /\ UNCHANGED <<newTask, appVars>>

\* The radio link is gone.  The event handler does not close the connection.
LinkLost(l) ==
  /\ link[l].state \in {"syn", "up"} /\ HasEnd(l[1], l)
  /\ faults < MaxFaults /\ faults' = faults + 1
  /\ link' = [link EXCEPT ![l].state = "lost"]
  /\ chan' = [chan EXCEPT ![l] = [n \in Node |-> Idle]]
  /\ wifi' = [wifi EXCEPT ![l[1]] = None]
  /\ UNCHANGED <<conns, aps, newTask, dropTask, appVars>>

-----------------------------------------------------------------------------
(* The interval of nodeSyncTask has passed: 5 s at the station and 20 s at *)
(* the access point.                                                       *)
IntervalOver(n, l) ==
  /\ HasEnd(n, l) /\ Calm
  /\ conns' = [conns EXCEPT ![n] = Replace(@, [EndOn(n, l) EXCEPT !.due = TRUE])]
  /\ UNCHANGED <<netVars, wifiVars, newTask, dropTask, appVars>>

-----------------------------------------------------------------------------
(* newConnectionTask and droppedConnectionTask are enabled without a delay *)
(* and run before the next pass of their node's loop ends.  Bound: that    *)
(* pass is not interleaved with what the other nodes do, which reaches     *)
(* this node before it or after it.                                        *)
Turn(n) == \A m \in Node \ {n} : newTask[m] = Off /\ dropTask[m] = Off

Serve(n, l) ==
  Turn(n) /\ (Start(n, l) \/ NodeSyncTask(n, l) \/ Handle(n, l) \/ OnDisconnect(n, l))

Next ==
  \/ \E l \in Link : \E n \in Members(l) : Serve(n, l) \/ IntervalOver(n, l)
  \/ \E n \in Node : DroppedConnectionTask(n) \/ NewConnectionTask(n)
  \/ \E m \in AppMsg : Turn(m.from) /\ (SendSingle(m) \/ SendBroadcast(m))
  \/ \E n \in Node : Turn(n) /\ (ScanComplete(n) \/ Reconfigure(n))
  \/ \E n \in Node : Turn(n) /\ \E m \in aps[n] :
       AssociationFails(n, m) \/ \E l \in Link : ConnectToAP(n, m, l)
  \/ \E l \in Link : Turn(link[l].ap) /\ (Accept(l) \/ LinkLost(l))

Spec == Init /\ [][Next]_vars
=============================================================================
