------------------------------ MODULE TcpClient -----------------------------
(***************************************************************************)
(* One TCPClient of painlessTCP.cpp where lwIP has a thread of its own     *)
(* (ESP32).  Three threads share it:                                       *)
(*                                                                         *)
(*   lwIP  runs the callbacks _tcp_recv, _tcp_sent, _tcp_poll, _tcp_error, *)
(*         which put an event into _tcp_queue and wait for ever when it is *)
(*         full, runs _connected itself, and serves the API calls;         *)
(*   svc   _tcp_service_task, takes the events and calls the client's      *)
(*         handlers, which call the application;                           *)
(*   loop  the application outside of callbacks.                           *)
(*                                                                         *)
(* A call of tcpip_api_call waits until the lwIP thread has served it.     *)
(* The members of the client are not protected: a step is one access to    *)
(* what another thread changes, so that _pcb is tested in one step and     *)
(* used in another, and _rx_ack_len is loaded in one and stored in another.*)
(* Data is a sequence of segments 1, 2, ...                                *)
(***************************************************************************)
EXTENDS Integers, Sequences, FiniteSets

CONSTANTS
  QueueLen,    \* length of _tcp_queue, 32
  Segments,    \* bound: segments the other end sends before it closes
  Window,      \* TCP_WND in segments
  MaxWrites,   \* bound: writes of this end
  MaxFail,     \* bound: lwIP calls that return an error
  OpSets,      \* what the application may do: a set of sets of operations
  SizeMax,     \* values of a size_t, in segments
  Garbage      \* what _rx_ack_len may hold at the start: nothing sets it

\* "callback" is ack() in the receive callback, as meshRecvCb does it; "ack" is
\* ack() on the loop, "later" is ackLater(), "now" is close(true), and "reset"
\* is for the other end or the network.
Op == {"connect", "write", "close", "now", "callback", "ack", "later", "reset"}
ASSUME SizeAssumption == QueueLen \in Nat \ {0} /\ Segments \in Nat /\ Window \in Nat \ {0}
ASSUME BoundAssumption == MaxWrites \in Nat /\ MaxFail \in Nat
ASSUME ChoiceAssumption ==
  OpSets \subseteq SUBSET Op /\ SizeMax \in Nat \ {0} /\ Garbage \subseteq 0..SizeMax - 1

Thread == {"svc", "loop"}

VARIABLES
  ops,        \* what the application does in this behaviour; never changes
  pcb,        \* lwIP's connection: none, syn, up, fin (closed by the other end),
              \* closing (by this end; lwIP may free it at any time), gone
  hooks,      \* its callbacks: none, err (only), all, noarg (all, for NULL)
  arrived,    \* segments lwIP has received
  credit,     \* segments acknowledged with tcp_recved
  unsent,     \* writes whose acknowledgement has not arrived
  lwip,       \* the event the lwIP thread waits to post, or Run
  queue,      \* _tcp_queue
  pc,         \* where each of the two threads is
  has,        \* _pcb # NULL
  close_pcb, rx_ack_len,
  pcb_busy,   \* _pcb_busy: no, yes, or yes for longer than _ack_timeout
  silent,     \* _rx_since_timeout has passed since _rx_last_packet
  writes, fails,
  delivered,  \* history: segments given to _recv_cb
  discards,   \* history: calls of _discard_cb
  late,       \* history: whether a callback came after _discard_cb
  met,        \* history: whether a thread entered _close while the other was in it
  fault       \* what the program did that has no defined result, if it did

lwipVars == <<pcb, hooks, arrived, credit, unsent, lwip, queue>>
memberVars == <<has, close_pcb, rx_ack_len, pcb_busy, silent>>
histVars == <<delivered, discards, late, met, fault>>
countVars == <<writes, fails>>
vars == <<ops, lwipVars, pc, memberVars, countVars, histVars>>

Run == [type |-> "run"]
Idle == [at |-> "idle"]
Halted == [type |-> "halted"]
Api(call, n, then) == [at |-> "api", call |-> call, n |-> n, then |-> then]

Init ==
  /\ ops \in OpSets
  /\ pcb = "none" /\ hooks = "none" /\ has = FALSE
  /\ arrived = 0 /\ credit = 0 /\ unsent = 0 /\ lwip = Run /\ queue = <<>>
  /\ pc = [t \in Thread |-> Idle]
  /\ close_pcb = FALSE /\ rx_ack_len \in Garbage /\ pcb_busy = "no" /\ silent = FALSE
  /\ writes = 0 /\ fails = 0
  /\ delivered = <<>> /\ discards = 0 /\ late = FALSE /\ met = FALSE
  /\ fault = "none"

\* After an access that has no defined result the program does nothing more
\* that this specification knows of.
Halt(what) ==
  /\ fault' = what /\ lwip' = Halted /\ pc' = [t \in Thread |-> [at |-> "halted"]]

-----------------------------------------------------------------------------
(* The lwIP thread.                                                        *)

Called == hooks \in {"all", "noarg"}
Event(type, n) == [type |-> type, n |-> n, client |-> hooks # "noarg"]

\* Mutants of Post: one event more than fits; an event that does not fit is
\* dropped.
PostBeyond(e) ==
  \/ Len(queue) <= QueueLen /\ queue' = Append(queue, e) /\ lwip' = Run
  \/ Len(queue) > QueueLen /\ lwip' = e /\ UNCHANGED queue
PostOrDrop(e) ==
  /\ queue' = IF Len(queue) < QueueLen THEN Append(queue, e) ELSE queue
  /\ lwip' = Run

\* _tcp_recv and the others: xQueueSend with portMAX_DELAY.
Post(e) ==
  \/ Len(queue) < QueueLen /\ queue' = Append(queue, e) /\ lwip' = Run
  \/ Len(queue) = QueueLen /\ lwip' = e /\ UNCHANGED queue

Unblock ==
  /\ lwip \notin {Run, Halted} /\ Len(queue) < QueueLen
  /\ queue' = Append(queue, lwip) /\ lwip' = Run
  /\ UNCHANGED <<ops, pcb, hooks, arrived, credit, unsent, pc, memberVars, countVars, histVars>>

\* TCPServer::_accept makes a client of a connection that has come.
Accept ==
  /\ lwip = Run /\ pcb = "none" /\ "connect" \notin ops
  /\ pcb' = "up" /\ hooks' = "all" /\ has' = TRUE
  /\ UNCHANGED <<ops, arrived, credit, unsent, lwip, queue, pc, close_pcb, rx_ack_len,
                 pcb_busy, silent, countVars, histVars>>

\* _connected, called by lwIP in its own thread.
Connected ==
  /\ lwip = Run /\ pcb = "syn" /\ hooks = "err"
  /\ pcb' = "up" /\ hooks' = "all" /\ has' = TRUE
  /\ pcb_busy' = "no" /\ silent' = FALSE
  /\ UNCHANGED <<ops, arrived, credit, unsent, lwip, queue, pc, close_pcb, rx_ack_len,
                 countVars, histVars>>

\* A segment arrives.  Where no callback is registered any more lwIP takes
\* it itself.
Receive ==
  /\ lwip = Run /\ pcb = "up" /\ arrived < Segments /\ arrived - credit < Window
  /\ arrived' = arrived + 1
  /\ \/ Called /\ Post(Event("RECV", arrived')) /\ UNCHANGED credit
     \/ ~Called /\ credit' = credit + 1 /\ UNCHANGED <<queue, lwip>>
  /\ UNCHANGED <<ops, pcb, hooks, unsent, pc, memberVars, countVars, histVars>>

\* The other end closes: _tcp_recv without a pbuf.  Without a callback lwIP
\* closes this end as well.
Fin ==
  /\ lwip = Run /\ pcb = "up" /\ arrived = Segments
  /\ \/ Called /\ Post(Event("FIN", 0)) /\ pcb' = "fin"
     \/ ~Called /\ pcb' = "closing" /\ UNCHANGED <<queue, lwip>>
  /\ UNCHANGED <<ops, hooks, arrived, credit, unsent, pc, memberVars, countVars, histVars>>

\* What was written is acknowledged: _tcp_sent.
Sent ==
  /\ lwip = Run /\ pcb \in {"up", "fin"} /\ unsent > 0
  /\ unsent' = 0
  /\ IF Called THEN Post(Event("SENT", 0)) ELSE UNCHANGED <<queue, lwip>>
  /\ UNCHANGED <<ops, pcb, hooks, arrived, credit, pc, memberVars, countVars, histVars>>

\* lwIP's timer: _tcp_poll.
Poll ==
  /\ lwip = Run /\ pcb \in {"up", "fin"} /\ Called
  /\ Post(Event("POLL", 0))
  /\ UNCHANGED <<ops, pcb, hooks, arrived, credit, unsent, pc, memberVars, countVars, histVars>>

\* The connection is reset or given up: lwIP frees the pcb and calls
\* _tcp_error.
Reset ==
  /\ lwip = Run /\ pcb \notin {"none", "gone"} /\ "reset" \in ops
  /\ pcb' = "gone"
  /\ IF hooks # "none" THEN Post(Event("ERROR", 0)) ELSE UNCHANGED <<queue, lwip>>
  /\ UNCHANGED <<ops, hooks, arrived, credit, unsent, pc, memberVars, countVars, histVars>>

\* The other end has acknowledged that this end closed: lwIP frees the pcb.
Free ==
  /\ lwip = Run /\ pcb = "closing" /\ pcb' = "gone"
  /\ UNCHANGED <<ops, hooks, arrived, credit, unsent, lwip, queue, pc, memberVars, countVars,
                 histVars>>

-----------------------------------------------------------------------------
(* API calls: the lwIP thread serves the call of a thread that waits.      *)

Goto(t, step) == pc' = [pc EXCEPT ![t] = step]
Held == pcb \in {"syn", "up", "fin", "closing"}
Serve(t, call) == lwip = Run /\ Held /\ pc[t].at = "api" /\ pc[t].call = call

\* A call for a connection that lwIP has freed.
OnFreed(t) ==
  /\ lwip = Run /\ pc[t].at = "api" /\ pcb = "gone"
  /\ Halt("freed")
  /\ UNCHANGED <<ops, pcb, hooks, arrived, credit, unsent, queue, memberVars, countVars,
                 delivered, discards, late, met>>

\* tcp_connect.  What it returns is not looked at.
ServeConnect(t) ==
  /\ lwip = Run /\ pc[t].at = "api" /\ pc[t].call = "connect"
  /\ \/ pcb' = "syn" /\ hooks' = "err" /\ UNCHANGED fails
     \/ fails < MaxFail /\ fails' = fails + 1 /\ UNCHANGED <<pcb, hooks>>
  /\ Goto(t, Idle)
  /\ UNCHANGED <<ops, arrived, credit, unsent, lwip, queue, memberVars, writes, histVars>>

\* tcp_recved.  The window does not get larger than it was at first.
ServeRecved(t) ==
  /\ Serve(t, "recved")
  /\ credit' = IF credit + pc[t].n > arrived THEN arrived ELSE credit + pc[t].n
  /\ Goto(t, pc[t].then)
  /\ UNCHANGED <<ops, pcb, hooks, arrived, unsent, lwip, queue, memberVars, countVars, histVars>>

\* tcp_write, which may be out of memory and refuses a connection that is
\* closing; then send().
ServeWrite(t) ==
  /\ Serve(t, "write")
  /\ \/ pcb # "closing" /\ unsent' = unsent + 1 /\ Goto(t, [at |-> "send"]) /\ UNCHANGED fails
     \/ pcb = "closing" /\ Goto(t, Idle) /\ UNCHANGED <<unsent, fails>>
     \/ fails < MaxFail /\ fails' = fails + 1 /\ Goto(t, Idle) /\ UNCHANGED unsent
  /\ UNCHANGED <<ops, pcb, hooks, arrived, credit, lwip, queue, memberVars, writes, histVars>>

\* tcp_output: send() waits for an acknowledgement from now on.
ServeOutput(t) ==
  /\ Serve(t, "output")
  /\ \/ pcb_busy' = "yes" /\ UNCHANGED fails
     \/ fails < MaxFail /\ fails' = fails + 1 /\ UNCHANGED pcb_busy
  /\ Goto(t, Idle)
  /\ UNCHANGED <<ops, lwipVars, has, close_pcb, rx_ack_len, silent, writes, histVars>>

\* tcp_close, which has nothing to do and nothing against it where the
\* connection is closing already; _close aborts where it fails.
ServeClose(t) ==
  /\ Serve(t, "close")
  /\ \/ pcb' = "closing" /\ Goto(t, [at |-> "discard"]) /\ UNCHANGED fails
     \/ /\ pcb # "closing" /\ fails < MaxFail /\ fails' = fails + 1
        /\ Goto(t, [at |-> "abort"]) /\ UNCHANGED pcb
  /\ UNCHANGED <<ops, hooks, arrived, credit, unsent, lwip, queue, memberVars, writes, histVars>>

\* tcp_abort, which calls _tcp_error if it is still registered.
ServeAbort(t) ==
  /\ Serve(t, "abort")
  /\ pcb' = "gone" /\ Goto(t, [at |-> "discard"])
  /\ IF hooks # "none" THEN Post(Event("ERROR", 0)) ELSE UNCHANGED <<queue, lwip>>
  /\ UNCHANGED <<ops, hooks, arrived, credit, unsent, memberVars, countVars, histVars>>

-----------------------------------------------------------------------------
(* Steps of a handler or of the application, on either thread, in which    *)
(* _pcb may be NULL although it was not when it was tested.                *)

\* lwIP is given NULL for a pcb.
OnNull(t) ==
  /\ pc[t].at \in {"send", "unhook", "unhooked"} /\ ~has
  /\ Halt("null")
  /\ UNCHANGED <<ops, pcb, hooks, arrived, credit, unsent, queue, memberVars, countVars,
                 delivered, discards, late, met>>

\* send.
SendNow(t) ==
  /\ pc[t].at = "send" /\ has
  /\ Goto(t, Api("output", 0, Idle))
  /\ UNCHANGED <<ops, lwipVars, memberVars, countVars, histVars>>

\* A thread is in _close, past its test of _pcb.
InClose(t) ==
  \/ pc[t].at \in {"unhook", "unhooked", "abort", "discard"}
  \/ pc[t].at = "api" /\ pc[t].call \in {"close", "abort"}

\* _close does nothing when there is no pcb.
StartClose(t) ==
  /\ pc[t].at = "close"
  /\ \/ has /\ Goto(t, [at |-> "unhook"]) /\ met' = (met \/ \E u \in Thread : InClose(u))
     \/ ~has /\ Goto(t, Idle) /\ UNCHANGED met
  /\ UNCHANGED <<ops, lwipVars, memberVars, countVars, delivered, discards, late, fault>>

\* The callbacks are taken away one after the other, the argument first.
\* Where lwIP has freed the pcb nobody sees what is written there.
Unhook(t) ==
  /\ pc[t].at = "unhook" /\ has
  /\ hooks' = IF hooks = "none" THEN "none" ELSE "noarg"
  /\ Goto(t, [at |-> "unhooked"])
  /\ UNCHANGED <<ops, pcb, arrived, credit, unsent, lwip, queue, memberVars, countVars, histVars>>

\* Mutant of Unhooked: the error callback stays.
UnhookedButErr(t) ==
  /\ pc[t].at = "unhooked" /\ has
  /\ hooks' = "err" /\ Goto(t, Api("close", 0, Idle))
  /\ UNCHANGED <<ops, pcb, arrived, credit, unsent, lwip, queue, memberVars, countVars, histVars>>

Unhooked(t) ==
  /\ pc[t].at = "unhooked" /\ has
  /\ hooks' = "none" /\ Goto(t, Api("close", 0, Idle))
  /\ UNCHANGED <<ops, pcb, arrived, credit, unsent, lwip, queue, memberVars, countVars, histVars>>

\* abort, which does nothing when there is no pcb.
Abort(t) ==
  /\ pc[t].at = "abort"
  /\ Goto(t, IF has THEN Api("abort", 0, Idle) ELSE [at |-> "discard"])
  /\ UNCHANGED <<ops, lwipVars, memberVars, countVars, histVars>>

\* _pcb is forgotten and the application told.
Discard(t) ==
  /\ pc[t].at = "discard"
  /\ has' = FALSE /\ discards' = discards + 1 /\ Goto(t, Idle)
  /\ UNCHANGED <<ops, lwipVars, close_pcb, rx_ack_len, pcb_busy, silent, countVars,
                 delivered, late, met, fault>>

-----------------------------------------------------------------------------
(* _rx_ack_len, which two threads change.                                  *)

Size(n) == n % SizeMax

\* Mutant of Acks: _recv leaves it to the application that acknowledges.
AcksInstead(len, then) ==
  LET n == IF len > rx_ack_len THEN rx_ack_len ELSE len
      acked == [at |-> "acked", n |-> n, then |-> Idle]
  IN IF n > 0 THEN Api("recved", n, acked) ELSE acked

\* ack: what the thread does first, len being all that may be acknowledged.
Acks(len, then) ==
  LET n == IF len > rx_ack_len THEN rx_ack_len ELSE len
      acked == [at |-> "acked", n |-> n, then |-> then]
  IN IF n > 0 THEN Api("recved", n, acked) ELSE acked

\* ack: the subtraction loads _rx_ack_len and stores it.
Acked(t) ==
  /\ pc[t].at = "acked"
  /\ Goto(t, [at |-> "store", n |-> Size(rx_ack_len - pc[t].n), then |-> pc[t].then])
  /\ UNCHANGED <<ops, lwipVars, memberVars, countVars, histVars>>
Store(t) ==
  /\ pc[t].at = "store"
  /\ rx_ack_len' = pc[t].n /\ Goto(t, pc[t].then)
  /\ UNCHANGED <<ops, lwipVars, has, close_pcb, pcb_busy, silent, countVars, histVars>>

-----------------------------------------------------------------------------
(* The service task.                                                       *)

\* The application is called after it has been told that it is over.
Callback == late' = (late \/ discards > 0)

\* _recv: the segment is given to the application, and acknowledged whatever
\* the application has acknowledged itself, unless it has asked to do that
\* later: then _rx_ack_len is loaded, and stored in a step of its own.
OnRecv(e) ==
  LET taken == Api("recved", 1, Idle) IN
  /\ e.type = "RECV" /\ silent' = FALSE
  /\ delivered' = Append(delivered, e.n) /\ Callback
  /\ \/ Goto("svc", taken)
     \/ "callback" \in ops /\ Goto("svc", Acks(1, taken))
     \/ "later" \in ops /\ Goto("svc", [at |-> "store", n |-> Size(rx_ack_len + 1), then |-> Idle])
  /\ UNCHANGED <<has, close_pcb, rx_ack_len, pcb_busy, writes, discards>>

\* Mutant of OnFin: the end of the stream is ignored.
OnFinIgnored(e) ==
  /\ e.type = "FIN"
  /\ UNCHANGED <<pc, memberVars, writes, delivered, discards, late>>

OnFin(e) ==
  /\ e.type = "FIN" /\ Goto("svc", [at |-> "close"])
  /\ UNCHANGED <<memberVars, writes, delivered, discards, late>>

\* _sent: the application may write what it has queued.
OnSent(e) ==
  /\ e.type = "SENT" /\ pcb_busy' = "no" /\ silent' = FALSE /\ Callback
  /\ \/ UNCHANGED <<pc, writes>>
     \/ /\ writes < MaxWrites /\ has /\ pcb = "up"
        /\ writes' = writes + 1 /\ Goto("svc", Api("write", 0, Idle))
  /\ UNCHANGED <<has, close_pcb, rx_ack_len, delivered, discards>>

\* Mutant of OnPoll: while an acknowledgement is missing nothing is closed.
OnPollWhenAcked(e) ==
  /\ e.type = "POLL"
  /\ \/ pcb_busy = "no" /\ close_pcb /\ close_pcb' = FALSE /\ Goto("svc", [at |-> "close"])
     \/ (pcb_busy # "no" \/ ~close_pcb) /\ UNCHANGED <<pc, close_pcb>>
  /\ UNCHANGED <<has, pcb_busy, rx_ack_len, silent, writes, delivered, discards, late>>

\* _poll: a close asked for, the timeouts, or nothing.
OnPoll(e) ==
  /\ e.type = "POLL"
  /\ \/ close_pcb /\ close_pcb' = FALSE /\ Goto("svc", [at |-> "close"]) /\ UNCHANGED <<pcb_busy, late>>
     \/ /\ ~close_pcb /\ pcb_busy = "overdue" /\ pcb_busy' = "no" /\ Callback
        /\ UNCHANGED <<pc, close_pcb>>
     \/ /\ ~close_pcb /\ pcb_busy # "overdue" /\ silent /\ Goto("svc", [at |-> "close"])
        /\ UNCHANGED <<close_pcb, pcb_busy, late>>
     \/ /\ ~close_pcb /\ pcb_busy # "overdue" /\ ~silent /\ Callback
        /\ UNCHANGED <<pc, close_pcb, pcb_busy>>
  /\ UNCHANGED <<has, rx_ack_len, silent, writes, delivered, discards>>

\* _error: the connection is forgotten and the application told, whether or
\* not it had been closed before.
OnError(e) ==
  /\ e.type = "ERROR" /\ has' = FALSE
  /\ Callback /\ discards' = discards + 1
  /\ UNCHANGED <<pc, close_pcb, rx_ack_len, pcb_busy, silent, writes, delivered>>

\* _tcp_service_task.  An event for NULL has no client to be given to.
ServiceTask ==
  /\ pc["svc"] = Idle /\ queue # <<>>
  /\ queue' = Tail(queue)
  /\ LET e == Head(queue) IN
     \/ /\ e.client /\ UNCHANGED <<lwip, fault>>
        /\ OnRecv(e) \/ OnFin(e) \/ OnSent(e) \/ OnPoll(e) \/ OnError(e)
     \/ /\ ~e.client /\ Halt("null")
        /\ UNCHANGED <<memberVars, writes, delivered, discards, late>>
  /\ UNCHANGED <<ops, pcb, hooks, arrived, credit, unsent, fails, met>>

-----------------------------------------------------------------------------
(* The application.                                                        *)

\* connect.
Connect ==
  /\ pc["loop"] = Idle /\ pcb = "none" /\ "connect" \in ops
  /\ Goto("loop", Api("connect", 0, Idle))
  /\ UNCHANGED <<ops, lwipVars, memberVars, countVars, histVars>>

\* It only uses a client it believes to be connected.
Usable == pc["loop"] = Idle /\ has /\ pcb = "up" /\ discards = 0

\* write: add, then send.
Write ==
  /\ Usable /\ "write" \in ops /\ writes < MaxWrites
  /\ writes' = writes + 1 /\ Goto("loop", Api("write", 0, Idle))
  /\ UNCHANGED <<ops, lwipVars, memberVars, fails, histVars>>

\* close(false): what was kept back is acknowledged, and the next poll closes.
Close ==
  /\ Usable /\ "close" \in ops /\ ~close_pcb
  /\ Goto("loop", Api("recved", rx_ack_len, [at |-> "request"]))
  /\ UNCHANGED <<ops, lwipVars, memberVars, countVars, histVars>>

Request ==
  /\ pc["loop"].at = "request"
  /\ close_pcb' = TRUE /\ Goto("loop", Idle)
  /\ UNCHANGED <<ops, lwipVars, has, rx_ack_len, pcb_busy, silent, countVars, histVars>>

\* close(true).
CloseNow ==
  /\ Usable /\ "now" \in ops
  /\ Goto("loop", Api("recved", rx_ack_len, [at |-> "close"]))
  /\ UNCHANGED <<ops, lwipVars, memberVars, countVars, histVars>>

\* ack.
Ack ==
  /\ Usable /\ "ack" \in ops
  /\ \E len \in 1..Segments : Goto("loop", Acks(len, Idle))
  /\ UNCHANGED <<ops, lwipVars, memberVars, countVars, histVars>>

\* Time passes: the timeouts of _poll.
Silence ==
  /\ has /\ ~silent /\ fault = "none" /\ silent' = TRUE
  /\ UNCHANGED <<ops, lwipVars, pc, has, close_pcb, rx_ack_len, pcb_busy, countVars, histVars>>
AckOverdue ==
  /\ pcb_busy = "yes" /\ fault = "none" /\ pcb_busy' = "overdue"
  /\ UNCHANGED <<ops, lwipVars, pc, has, close_pcb, rx_ack_len, silent, countVars, histVars>>

Lwip == Unblock \/ Accept \/ Connected \/ Receive \/ Fin \/ Sent \/ Poll \/ Reset \/ Free
ServeApi(t) ==
  \/ OnFreed(t) \/ ServeConnect(t) \/ ServeRecved(t) \/ ServeWrite(t) \/ ServeOutput(t)
  \/ ServeClose(t) \/ ServeAbort(t)
Steps(t) ==
  \/ OnNull(t) \/ SendNow(t) \/ StartClose(t) \/ Unhook(t) \/ Unhooked(t) \/ Abort(t)
  \/ Discard(t) \/ Acked(t) \/ Store(t)
App == Connect \/ Write \/ Close \/ Request \/ CloseNow \/ Ack

Next ==
  \/ Lwip \/ ServiceTask \/ App \/ Silence \/ AckOverdue
  \/ \E t \in Thread : ServeApi(t) \/ Steps(t)

Spec == Init /\ [][Next]_vars
=============================================================================
