--------------------------- MODULE MessageChannel ---------------------------
(***************************************************************************)
(* What one direction of a mesh connection promises to the layer above it, *)
(* whatever the buffers, the socket and the fragments underneath do.       *)
(*                                                                         *)
(* A message the sender accepts waits in "pending".  An urgent message     *)
(* (the node synchronisation and time synchronisation traffic) goes before *)
(* everything that has not been started, another message after it.  Once   *)
(* started, a message is in "transit" and nothing overtakes it: messages   *)
(* reach the receiver whole, once, and in the order they were started.     *)
(* Closing an end loses messages, and only those not yet handed over.      *)
(***************************************************************************)
EXTENDS Sequences

CONSTANTS
  Message,    \* what the upper layer sends
  Urgent,     \* those of them sent with priority
  Recurring   \* those of them sent again and again, whose arrival is not recorded

VARIABLES
  pending,    \* accepted, not started
  transit,    \* started, not handed over
  received,   \* handed over, in order
  open        \* [send |-> BOOLEAN, recv |-> BOOLEAN]: the ends still open

vars == <<pending, transit, received, open>>

Init ==
  /\ pending = <<>>
  /\ transit = <<>>
  /\ received = <<>>
  /\ open = [send |-> TRUE, recv |-> TRUE]

\* The sender takes responsibility for m.
Accept(m) ==
  /\ open.send
  /\ pending' = IF m \in Urgent THEN <<m>> \o pending ELSE Append(pending, m)
  /\ UNCHANGED <<transit, received, open>>

\* The first bytes of the next message leave; they reach nobody when the
\* receiver is gone.
Start ==
  /\ pending # <<>>
  /\ pending' = Tail(pending)
  /\ transit' = IF open.recv THEN Append(transit, Head(pending)) ELSE transit
  /\ UNCHANGED <<received, open>>

\* The oldest message in transit is handed to the receiver.
Hand ==
  /\ open.recv
  /\ transit # <<>>
  /\ transit' = Tail(transit)
  /\ received' = IF Head(transit) \in Recurring
                 THEN received ELSE Append(received, Head(transit))
  /\ UNCHANGED <<pending, open>>

\* The sender gives up: what it has not started is lost.
CloseSend ==
  /\ open.send
  /\ open' = [open EXCEPT !.send = FALSE]
  /\ pending' = <<>>
  /\ UNCHANGED <<transit, received>>

\* The receiver gives up: what is in transit is lost.
CloseRecv ==
  /\ open.recv
  /\ open' = [open EXCEPT !.recv = FALSE]
  /\ transit' = <<>>
  /\ UNCHANGED <<pending, received>>

Next ==
  \/ \E m \in Message : Accept(m)
  \/ Start
  \/ Hand
  \/ CloseSend
  \/ CloseRecv

Spec == Init /\ [][Next]_vars
=============================================================================
