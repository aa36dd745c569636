------------------------ MODULE MeshTopologyV063Props -----------------------
(* The properties of the mesh as painlessMesh v0.6.3 keeps it.             *)
EXTENDS MeshTopologyV063

P102 == INSTANCE MeshTopologyProps

\* The fairness of MeshTopologyProps: the loops of the nodes go on while there
\* is anything for them to do, TCP delivers, accepts and reports what is closed,
\* and the period of each station connection passes again and again.
Work ==
  \/ \E l \in Link : (Turn(link[l].ap) /\ Accept(l)) \/ \E n \in V102!Members(l) : Serve(n, l)
  \/ \E n \in Node : DroppedConnectionTask(n) \/ NewConnectionTask(n)
Drops == \E l \in Link : \E n \in V102!Members(l) : Turn(n) /\ OnDisconnect(n, l)
FairSpec ==
  /\ Spec
  /\ WF_vars(Work) /\ WF_vars(Drops)
  /\ \A l \in Link : SF_vars(IntervalOver(l[1], l))

\* Handling a message never closes the connection it came on: readBufferTask
\* takes the message off the receive queue of that connection afterwards, and
\* close clears the queue.  So a connection that replaces another one is never
\* itself the other one, whatever the order in which two nodes that connect to
\* each other hear of it.
HandledKept ==
  [][\A l \in Link : \A n \in V102!Members(l) : ReadBufferTask(n, l) => HasEnd(n, l)']_vars

\* No node has two connections to the same neighbour where there are only two
\* nodes, although both may connect to each other at the same time.  Where a
\* third node still lists the neighbour, findConnection may find that
\* connection first, and the old one to the neighbour stays (v063_stale.cfg).
OnePerNeighbour == P102!OnePerNeighbour

\* That is the only way to get there: whatever nodes connect to each other and
\* whenever a station comes back before its old connection has timed out, a
\* node gets a second connection to a neighbour only while its connection to
\* another node lists that neighbour (handleNodeSync, findConnection).
Doubled(cs, m) == \E i, j \in DOMAIN cs : i # j /\ cs[i].node = m /\ cs[j].node = m
DoubledWhereListed ==
  [][\A n \in Node : (\A m \in Node : ~Doubled(conns[n], m)) =>
       \A m \in Node : Doubled(conns'[n], m) =>
         \E i \in DOMAIN conns[n] :
           conns[n][i].node \notin {None, m} /\ V102!Lists(conns[n][i].subs, m)]_vars

\* Where connections make no ring, every node in the end knows exactly who is
\* behind each of its connections, also if the two ends of a pair of
\* connections replace different ones.
Converges == P102!Converges

\* Once what was delayed has been sent and nothing is under way, every node
\* knows exactly who is behind each of its connections: a node that joins is
\* made known along the whole mesh without waiting for the period of any
\* nodeSyncTask, although newConnectionTask is one task for all connections,
\* and messages of the applications wait for the same sockets.
ToldToAll ==
  V102!Calm /\ Settled /\ (\A n \in Node : \A e \in Ends(n) : P102!Live(e.link)) =>
    P102!ViewsExact
=============================================================================
