-------------------------- MODULE BridgeServerProps -------------------------
(* The properties of the bridge servers, over BridgeServer.                *)
EXTENDS BridgeServer

\* Type correctness.
TypeOK ==
  /\ kind \in Kinds
  /\ pc \in {"accept", "recv", "send", "ended", "killed", "overrun"}
  /\ state \in {"none", "up", "down", "lost", "reset"}
  /\ open \in {"no", "backlog", "sock", "orphan"} /\ (open = "sock") = (state = "up")
  /\ recv_Size \in Nat /\ recv_Size >= FirstSize /\ rounds \in 0..Rounds
  /\ Len(backlog) <= MaxBacklog /\ (open = "backlog" => backlog # <<>>)
  /\ sub \in Seq(Id) /\ sendBack \in BOOLEAN /\ named \in BOOLEAN
  /\ faults \in 0..MaxFaults

\* However the stream is cut, what a server takes for a message is a whole
\* one that the node sent, or the time stamps inside of one, which have no
\* type it knows (recive_message, getType).
WholeOnly == parsed # Truncated.type

\* sub holds each id at most once, and so no more than the nodes and
\* INT32_MAX, whichever messages are read again after a restart (checkList).
ListOnce ==
  /\ \A i, j \in DOMAIN sub : sub[i] = sub[j] => i = j
  /\ Len(sub) <= Cardinality(Id)

\* Where the first message the server used on a connection is the node's
\* NODE_SYNC, the first string the node receives on it is a NODE_SYNC of the
\* server, although not every object the server sends ends with a NUL.
NamedFirst ==
  (state = "up" /\ first = SyncRequest.type /\ string # Nothing) => IsSync(string)

\* No read goes beyond client_message.  This is violated: what is read from
\* the middle of an object does not balance, and every such read makes
\* recv_Size larger (recive_message).
InBuffer == pc # "overrun"

\* Fairness.  Both programs go on, and the node tries again and again.
\* sleep(10) and NODE_TIMEOUT begin at different times, so that some
\* connection is accepted before it is over.
ReadSome == \E n \in DOMAIN sock : Read(n) \/ Data(n)
Fair ==
  /\ WF_vars(Accept) /\ WF_vars(TimeoutRecv) /\ WF_vars(Transmit) /\ WF_vars(Done)
  /\ WF_vars(ReadSome) /\ SF_vars(Accept /\ state' = "up")
  /\ WF_vars(NodeConnects) /\ WF_vars(NodeTimesOut)
FairSpec == Spec /\ Fair

\* The server has an open connection again and again, whatever made it give
\* one up, or has come to its end, by itself or by reading beyond its array
\* (timeout_recv, SocketRestart, accept).
ComesBack == []<>(state = "up" \/ pc \in {"ended", "killed", "overrun"})
=============================================================================
