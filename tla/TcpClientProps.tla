--------------------------- MODULE TcpClientProps ---------------------------
(* The properties of the TCP client, over TcpClient.                       *)
EXTENDS TcpClient

\* Type correctness.
TypeOK ==
  /\ ops \in OpSets
  /\ pcb \in {"none", "syn", "up", "fin", "closing", "gone"}
  /\ hooks \in {"none", "err", "all", "noarg"}
  /\ arrived \in 0..Segments /\ credit \in 0..arrived /\ unsent \in 0..MaxWrites
  /\ Len(queue) <= QueueLen
  /\ \A t \in Thread :
       /\ pc[t].at \in {"idle", "api", "send", "close", "unhook", "unhooked", "abort", "discard",
                        "acked", "store", "request", "halted"}
       /\ pc[t].at \in {"api", "acked", "store"} => pc[t].n \in 0..SizeMax
  /\ has \in BOOLEAN /\ close_pcb \in BOOLEAN /\ silent \in BOOLEAN /\ late \in BOOLEAN
  /\ met \in BOOLEAN
  /\ rx_ack_len \in 0..SizeMax - 1 /\ pcb_busy \in {"no", "yes", "overdue"}
  /\ writes \in 0..MaxWrites /\ fails \in 0..MaxFail
  /\ delivered \in Seq(1..Segments) /\ discards \in Nat
  /\ fault \in {"none", "null", "freed"}

\* The application gets the segments in order and without a gap, however full
\* the queue was and whichever thread waited for which (_tcp_recv,
\* _tcp_service_task, _recv).
DataInOrder == \A i \in DOMAIN delivered : delivered[i] = i

\* Where the application does not use ackLater, and the mesh does not, the
\* receive window never leaks away: what lwIP has received and not had
\* acknowledged waits in the queue or for it, or is in the hands of the service
\* task.  This is so although ack(), which the mesh calls in its callback, and
\* close() acknowledge what _rx_ack_len happens to hold, which nothing has
\* set, and change it on two threads (_tcp_recv, _recv, ack, close).
Segment(e) == e.type = "RECV"
Taking(step) == step.at \in {"acked", "store"} \/ (step.at = "api" /\ step.call = "recved")
Underway ==
  Cardinality({i \in DOMAIN queue : Segment(queue[i])}) + (IF Segment(lwip) THEN 1 ELSE 0)
  + (IF Taking(pc["svc"]) THEN 1 ELSE 0)
WindowKept == "later" \notin ops /\ fault = "none" => credit + Underway >= arrived

\* What is kept back for ack() is not lost either.  This is violated: the
\* service task and the loop both load _rx_ack_len before either stores it
\* (_recv, ack).
KeptBack == fault = "none" => credit + rx_ack_len + Underway >= arrived

\* The application is told once that the connection is over, whichever of a
\* poll, the end of the stream, an error and close() come together, and
\* however the calls of lwIP fail, unless the two threads were in _close at the
\* same time, or lwIP was given a pcb that it had freed, which is undefined
\* (_close, _error, _poll).
ToldOnce == ~met => discards <= 1

\* It is told once in any case.  This is violated: both threads find _pcb set,
\* and lwIP has nothing against closing twice (_close).
ToldOnceByAll == discards <= 1

\* The lwIP thread waits for room in the queue, and the only thread that
\* makes room waits for the lwIP thread.
Stuck == lwip \notin {Run, Halted} /\ Len(queue) = QueueLen /\ pc["svc"].at = "api"

\* The two threads never wait for each other (_tcp_recv, tcpip_api_call).
NotStuck == ~Stuck

\* No callback after the application was told that the connection is over.  It
\* does not hold: the receive timeout closes the connection while data waits in
\* the queue (_poll, _handle_tcp_event).
NothingLate == ~late

\* Fairness: the threads run and lwIP polls.  Nothing has to arrive, no
\* timeout to expire and the application to do nothing.
FairSpec ==
  /\ Spec
  /\ WF_vars(Unblock \/ \E t \in Thread : ServeApi(t))
  /\ WF_vars(ServiceTask)
  /\ WF_vars(Steps("svc"))
  /\ WF_vars(Steps("loop") \/ Request)
  /\ SF_vars(Poll)

Over == discards > 0 \/ Stuck \/ fault # "none"

\* A close that was asked for is carried out by a later poll, whatever else
\* is in the queue and unless the threads are stuck (close, _poll).
CloseCarriedOut == close_pcb ~> Over

\* When the other end closes, the application is told.
EndTold == pcb = "fin" ~> Over
=============================================================================
