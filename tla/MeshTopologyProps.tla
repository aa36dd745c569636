-------------------------- MODULE MeshTopologyProps -------------------------
(* The properties of the mesh as a whole, over MeshTopology.               *)
EXTENDS MeshTopology

\* Type correctness.
TypeOK ==
  /\ conns \in [Node -> Seq(End)]
  /\ link \in [Link -> [ap : Node \cup {None},
                        state : {"free", "syn", "up", "lost"}]]
  /\ \A l \in Link, n \in Node :
       /\ DOMAIN chan[l][n] = {"pending", "transit"}
       /\ \A q \in {"pending", "transit"} : chan[l][n][q] \in Seq(SyncMsg \cup AppMsg)
  /\ aps \in [Node -> SUBSET Node] /\ wifi \in [Node -> Node \cup {None}]
  /\ newTask \in [Node -> Node \cup {Off}]
  /\ dropTask \in [Node -> Node \cup {None, Off}]
  /\ faults \in 0..MaxFaults
  /\ sent \subseteq AppMsg /\ got \in [Node -> [AppMsg -> 0..2]]

\* A link both ends of which have the connection.
Live(l) == link[l].state = "up" /\ HasEnd(l[1], l) /\ HasEnd(link[l].ap, l)
LiveLinks == {l \in Link : Live(l)}

\* No cycle of links: in no set of nodes are there as many links as nodes.
Acyclic ==
  \A S \in SUBSET Node \ {{}} :
    Cardinality({l \in LiveLinks : {l[1], link[l].ap} \subseteq S}) < Cardinality(S)

\* What a node knows about each of its connections is so.
ViewsExact ==
  \A n \in Node : \A e \in Ends(n) :
    /\ Live(e.link)
    /\ ~e.new /\ e.node = Peer(e.link, n)
    /\ e.subs = SubConnections(conns[e.node], n)

\* Fairness.  The loops of the nodes go on while there is anything for them
\* to do, TCP delivers, accepts and reports what is closed, and the 5 s of
\* each station connection pass again and again.  Nobody has to scan,
\* connect, fail or send.
Work ==
  \/ \E l \in Link : (Turn(link[l].ap) /\ Accept(l)) \/ \E n \in Members(l) : Serve(n, l)
  \/ \E n \in Node : DroppedConnectionTask(n) \/ NewConnectionTask(n)
Drops == \E l \in Link : \E n \in Members(l) : Turn(n) /\ OnDisconnect(n, l)
FairSpec ==
  /\ Spec
  /\ WF_vars(Work) /\ WF_vars(Drops)
  /\ \A l \in Link : SF_vars(IntervalOver(l[1], l))

\* Once no more connections are made or lost the mesh becomes a forest and
\* every node knows exactly who is behind each of its connections, whatever
\* the order in which the NODE_SYNC messages of the nodes, the closings and
\* the announcements of lost connections came (handleNodeSync, close,
\* syncSubConnections).
Converges == <>[](Acyclic /\ ViewsExact)

\* Between the periods of nodeSyncTask, when nothing is under way, no node is
\* listed behind a connection that does not lead to it any more: a lost
\* connection is announced along the whole mesh at once (close,
\* droppedConnectionTask, syncSubConnections), although that task is shared
\* and a second close sets it anew.  It is so where every connection has its
\* name when another one is lost.  syncSubConnections passes over a connection
\* without a name, so that a request sent before the loss and heard after it
\* leaves a ghost until the next period (topo_ghost.cfg).
Ids(subs) == {subs[i].id : i \in DOMAIN subs}
NoGhosts ==
  Calm /\ (\A n \in Node : \A e \in Ends(n) : Live(e.link)) =>
    \A n \in Node : \A e \in Ends(n) :
      Ids(e.subs) \subseteq Ids(SubConnections(conns[Peer(e.link, n)], n))

\* No node keeps two named connections to the same neighbour, although both
\* nodes may connect to each other at the same time (handleNodeSync).
OnePerNeighbour ==
  \A n \in Node : \A e, f \in Ends(n) : e.node = f.node /\ e.node # None => e = f

\* A link that was up has been closed at one end or lost.
Broken ==
  \E l \in Link : \/ link[l].state = "lost"
                  \/ link[l].state = "up" /\ ~Live(l)

\* A broadcast does not come back to the node that sent it
\* (broadcastMessage, handleMessage).
NoEcho == \A m \in AppMsg : m.type = "BROADCAST" => got[m.from][m] = 0

\* The stations and access points between which connections have been opened,
\* and that these make no cycle: fewer than nodes in every set of nodes.  Two
\* nodes that have connected to each other are a cycle.
Edges == {<<l[1], link[l].ap>> : l \in {k \in Link : link[k].state # "free"}}
Forest ==
  \A S \in (SUBSET Node) \ {{}} :
    Cardinality({p \in Edges : p[1] \in S /\ p[2] \in S}) < Cardinality(S)

\* As long as the connections that have been opened make no cycle, and none has
\* broken, a broadcast does not come back and is given to no node twice,
\* whoever is named or not yet named at either end of a link when it passes,
\* and whichever links are opened while it is on its way (broadcastMessage,
\* handleMessage).  With a cycle it does come back (topo_echo.cfg).
BroadcastOnce ==
  ~Broken /\ Forest =>
    NoEcho /\ \A m \in AppMsg, n \in Node : m.type = "BROADCAST" => got[n][m] <= 1

\* A message for which sendSingle finds a connection reaches its node unless
\* a link breaks or a node has no memory: no node on the way has forgotten,
\* or does not yet know, where the message has to go (subConnections,
\* findConnection).
SingleArrives ==
  \A m \in AppMsg : m.type = "SINGLE" =>
    (m \in sent ~> (got[m.dest][m] > 0 \/ Broken \/ faults > 0))

\* newConnectionTask is not set anew before it has run: newConnectionCallback
\* fires for every connection.
NewConnectionsAnnounced ==
  [][\A n \in Node : newTask[n] # Off => newTask'[n] \in {newTask[n], Off}]_vars

\* When a node comes to know of a node it did not know, the subs of one of
\* its connections have changed, which is when changedConnectionsCallback
\* fires (handleNodeSync).
Known(cs) == UNION {{e.node} \cup Ids(e.subs) : e \in {cs[i] : i \in DOMAIN cs}} \ {None}
SubsChanged(n) ==
  \E e \in Ends(n), i \in DOMAIN conns'[n] :
    conns'[n][i].link = e.link /\ conns'[n][i].subs # e.subs
ChangesSignalled ==
  [][\A n \in Node : Known(conns'[n]) \subseteq Known(conns[n]) \/ SubsChanged(n)]_vars
=============================================================================
