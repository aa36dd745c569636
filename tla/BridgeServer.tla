---------------------------- MODULE BridgeServer ----------------------------
(***************************************************************************)
(* The servers on a PC that pretend to be a node of the mesh: c-server.c   *)
(* ("c"), _testMPc-server.c ("mp") and sockets.js ("js").  One node of the *)
(* mesh opens a TCP connection to the server; both send JSON objects.      *)
(*                                                                         *)
(* The node ends every object with a NUL.  The C servers read up to        *)
(* recv_Size bytes and guess from the braces whether that was a message;   *)
(* what was not is thrown away and recv_Size changed.  They do not end     *)
(* every object with a NUL, and the node takes what comes up to a NUL for  *)
(* one string, of which it parses the first object.                        *)
(*                                                                         *)
(* A character is the message it belongs to and its place in it, 18 bytes  *)
(* of text being one character here.  DSOCKET is not defined: the socket   *)
(* that SocketRestart replaces is neither shut down nor closed.            *)
(***************************************************************************)
EXTENDS Integers, Sequences, FiniteSets, SequencesExt

CONSTANTS
  Kinds,       \* the servers that take part
  Near, Far,   \* the node that is connected; nodes behind it
  Big,         \* the nodes whose id is above INT32_MAX
  Saturated,   \* INT32_MAX, which json_object_get_int makes of those
  FirstSize,   \* recv_Size at the start, 150; it is not reduced below that
  LowSize,     \* 74
  Step,        \* 12
  BufSize,     \* size of client_message, 1000
  Rounds,      \* how many messages the server of _testMPc-server.c takes, 20
  WriteSets,   \* what the node writes in a behaviour: a set of sets of messages
  MaxUnread,   \* bound: messages the node has written and the server not read
  MaxBacklog,  \* length of the queue of listen
  MaxFaults    \* bound: how often the node disappears

ASSUME KindAssumption == Kinds \subseteq {"c", "mp", "js"}
ASSUME NodeAssumption ==
  /\ IsFiniteSet(Far) /\ Near \notin Far /\ Big \subseteq {Near} \cup Far
  /\ Saturated \notin {Near} \cup Far
ASSUME SizeAssumption ==
  /\ Step \in Nat \ {0} /\ LowSize \in Nat /\ FirstSize \in Nat /\ BufSize \in Nat
  /\ LowSize <= FirstSize /\ FirstSize <= BufSize
ASSUME BoundAssumption ==
  /\ Rounds \in Nat \ {0} /\ MaxUnread \in Nat /\ MaxFaults \in Nat /\ MaxBacklog \in Nat \ {0}

Id == {Near} \cup Far \cup {Saturated}

VARIABLES
  kind,      \* the server; never changes
  writes,    \* what the node may write; never changes
  pc,        \* accept, recv, send; ended, killed, or overrun (undefined)
  sock,      \* what the server has not read of the connection it holds
  state,     \* that connection: none, up, down (closed by the node), reset,
             \* lost (the node has disappeared)
  backlog,   \* what is unread of the connections that wait for accept
  open,      \* where the node's connection is: no, backlog, sock, or
             \* orphan (the server has given it up)
  recv_Size,
  rounds,
  sub,       \* the list of nodes; sizeSub is its length
  todo,      \* what the server still sends for the message it has read
  sendBack,  \* global of sockets.js
  heard,     \* how the string the node is receiving begins
  named,     \* whether the node has had a NODE_SYNC from the server
  parsed,    \* history: what the server has taken the last message for
  first,     \* history: the first message the server handled on sock
  string,    \* history: the first string the node had on its connection
  faults

serverVars == <<pc, sock, state, backlog, recv_Size, rounds, sub, todo, sendBack>>
nodeVars == <<open, heard, named, string>>
histVars == <<parsed, first>>
vars == <<kind, writes, serverVars, nodeVars, histVars, faults>>

Nothing == "nothing"
Garbage == "garbage"
Message(type, at, from) == [type |-> type, at |-> at, from |-> from]

Init ==
  /\ kind \in Kinds /\ writes \in WriteSets
  /\ pc = "accept" /\ sock = <<>> /\ state = "none" /\ backlog = <<>> /\ open = "no"
  /\ recv_Size = FirstSize /\ rounds = 0 /\ sub = <<>> /\ todo = <<>> /\ sendBack = FALSE
  /\ heard = Nothing /\ named = FALSE /\ string = Nothing
  /\ parsed = Nothing /\ first = Nothing /\ faults = 0

-----------------------------------------------------------------------------
(* Messages of the node.                                                   *)

SyncRequest == Message("NODE_SYNC_REQUEST", 0, Near)
SyncReply == Message("NODE_SYNC_REPLY", 0, Near)
Time(at) == Message("TIME_SYNC", at, Near)
Broadcasts == {Message("BROADCAST", 0, n) : n \in {Near} \cup Far}
Messages == {SyncRequest, SyncReply} \cup {Time(at) : at \in 0..2} \cup Broadcasts
ASSUME WriteAssumption == \A set \in WriteSets : set \subseteq Messages

\* Its braces; the stamps of a TIME_SYNC are an object in the object.
Text(m) == IF m.type = "TIME_SYNC" THEN <<"{", "-", "{", "}", "}", "0">>
           ELSE <<"{", "-", "}", "0">>
Characters(m) == [i \in DOMAIN Text(m) |-> <<m, i>>]
Char(c) == Text(c[1])[c[2]]

\* Time is synchronised with a node that has a name.
Writes == {m \in writes : named \/ m = SyncRequest \/ m \in Broadcasts}

NodeWrites(m) ==
  /\ m \in Writes
  /\ \/ /\ open = "sock" /\ Len(sock) <= 6 * (MaxUnread - 1)
        /\ sock' = sock \o Characters(m) /\ UNCHANGED backlog
     \/ /\ open = "backlog" /\ Len(Last(backlog)) <= 6 * (MaxUnread - 1)
        /\ backlog' = [backlog EXCEPT ![Len(backlog)] = @ \o Characters(m)] /\ UNCHANGED sock
  /\ UNCHANGED <<kind, writes, pc, state, recv_Size, rounds, sub, todo, sendBack, nodeVars, histVars, faults>>

\* Bound: the server reads what is there, and notices the end, well before
\* anything that takes the node seconds.
Reading == pc = "recv" /\ (sock # <<>> \/ (kind # "js" /\ state \in {"down", "reset"}))

\* tcpConnect of the node, whose station connects to a fixed address.
NodeConnects ==
  /\ open = "no" /\ ~Reading /\ Len(backlog) < MaxBacklog
  /\ backlog' = Append(backlog, <<>>) /\ open' = "backlog"
  /\ heard' = Nothing /\ named' = FALSE /\ string' = Nothing
  /\ UNCHANGED <<kind, writes, pc, sock, state, recv_Size, rounds, sub, todo, sendBack, histVars, faults>>

\* Nothing has come from the server for NODE_TIMEOUT, and the node closes.
NodeTimesOut ==
  /\ ~Reading
  /\ open = "orphan" \/ (open = "backlog" /\ kind # "js") \/ (open = "sock" /\ pc # "send")
  /\ state' = IF open = "sock" THEN "down" ELSE state
  /\ open' = "no"
  /\ UNCHANGED <<kind, writes, pc, sock, backlog, recv_Size, rounds, sub, todo, sendBack,
                 heard, named, string, histVars, faults>>

\* The node disappears, and comes back.
NodeLost ==
  /\ open = "sock" /\ faults < MaxFaults /\ faults' = faults + 1
  /\ state' = "lost" /\ open' = "no"
  /\ UNCHANGED <<kind, writes, pc, sock, backlog, recv_Size, rounds, sub, todo, sendBack,
                 heard, named, string, histVars>>

-----------------------------------------------------------------------------
(* What the node makes of what it receives: ReceiveBuffer::push and the    *)
(* first object of the string.                                             *)

Begins(what) == IF heard = Nothing THEN what ELSE heard
IsSync(s) == s \in {"NODE_SYNC_REQUEST", "NODE_SYNC_REPLY"}

\* A string is complete.  rest: how the next one begins.
StringEnds(s, rest) ==
  /\ heard' = rest
  /\ named' = (named \/ IsSync(s))
  /\ string' = IF string = Nothing THEN s ELSE string

\* nul: none; one, a NUL; spaced, a NUL and the bytes behind the string in
\* the server's memory, which nothing has set.
Hears(m) ==
  \/ m.nul = "none" /\ heard' = Begins(m.what) /\ UNCHANGED <<named, string>>
  \/ m.nul # "none" /\ StringEnds(Begins(m.what), Nothing)
  \/ m.nul = "spaced" /\ StringEnds(Begins(m.what), Garbage)

-----------------------------------------------------------------------------
(* The connection of the server.                                           *)

\* accept, in server_node and in SocketRestart; sockets.js takes the next
\* connection when it has read all of the last one.  Bound: of connections
\* that are open together it reads one after the other.
Accept ==
  /\ backlog # <<>>
  /\ pc = "accept" \/ (kind = "js" /\ pc = "recv" /\ state # "up" /\ sock = <<>>)
  /\ sock' = Head(backlog) /\ backlog' = Tail(backlog)
  /\ LET live == Len(backlog) = 1 /\ open = "backlog" IN
     /\ state' = IF live THEN "up" ELSE "down"
     /\ open' = IF live THEN "sock" ELSE open
  /\ pc' = "recv" /\ first' = Nothing
  /\ UNCHANGED <<kind, writes, recv_Size, rounds, sub, todo, sendBack, heard, named, string, parsed, faults>>

\* error and SocketRestart: the connection is given up, but not closed.
SocketRestart ==
  /\ pc' = "accept" /\ sock' = <<>> /\ state' = "none"
  /\ open' = IF open = "sock" THEN "orphan" ELSE open

\* The thread of _testMPc-server.c has taken one of its 20 messages.
RoundOver ==
  /\ rounds' = rounds + 1
  /\ pc' = IF rounds' = Rounds THEN "ended" ELSE "recv"

\* server_node goes on after a message it has not used, or has answered.
Continue ==
  \/ kind # "mp" /\ pc' = "recv" /\ UNCHANGED rounds
  \/ kind = "mp" /\ RoundOver

\* Mutant of Failed: server_node does not restart the connection.
FailedGoesOn(rest) ==
  Continue /\ sock' = rest /\ UNCHANGED <<state, open>>

\* recive_message has returned -1, having read all but the rest.
Failed(rest) ==
  \/ kind = "c" /\ SocketRestart /\ UNCHANGED rounds
  \/ kind = "mp" /\ RoundOver /\ sock' = rest /\ UNCHANGED <<state, open>>

-----------------------------------------------------------------------------
(* The list of nodes.                                                      *)

\* Mutant of CheckList: the last entry is not looked at.
CheckListButLast(list, id) ==
  IF \E i \in 1..(Len(list) - 1) : list[i] = id THEN list ELSE Append(list, id)

\* checkList: an id is entered once.
CheckList(list, id) == IF id \in ToSet(list) THEN list ELSE Append(list, id)

\* json_object_get_int.
Int32(id) == IF id \in Big THEN Saturated ELSE id

\* c-server.c enters the sender of every message, saturated, and that of a
\* NODE_SYNC request once more as it is.  checkArray, which follows, finds
\* nothing: what the node lists are objects.
ListAfterC(list, m) ==
  IF m.type = "NODE_SYNC_REQUEST" THEN CheckList(CheckList(list, Int32(m.from)), m.from)
  ELSE CheckList(list, Int32(m.from))

-----------------------------------------------------------------------------
(* What the servers send, one sendto or write after the other.             *)

Send(what, nul) == [what |-> what, nul |-> nul]

\* send_setup: spacing bytes more than the text.
SendSetup(type) == <<Send(type, "spaced")>>

\* send_time: a request of its own (0), an answer (1), or the end (2).
SendTime(m) ==
  IF m.type = "TIME_SYNC" /\ m.at = 2 THEN <<>> ELSE <<Send("TIME_SYNC", "none")>>

SendMessage == <<Send("BROADCAST", "none")>>

\* The switch of server_node.
Answers(m) ==
  CASE m.type = "NODE_SYNC_REQUEST" -> SendSetup("NODE_SYNC_REPLY") \o SendSetup("NODE_SYNC_REQUEST")
    [] m.type \in {"NODE_SYNC_REPLY", "TIME_SYNC"} -> SendTime(m)
    [] OTHER -> <<>>

\* send_broadcast of c-server.c: to sub[0], and to 0.
SendBroadcastC == SendMessage \o SendMessage

\* send_broadcast of _testMPc-server.c: to 0.
SendBroadcastMP == SendMessage

\* Mutant of RegisterMP: the registration comes first.
RegisterMPFirst(list, m) ==
  IF m.from \in ToSet(list) THEN <<>>
  ELSE <<Send("REGISTRATION", "none")>> \o SendSetup("NODE_SYNC_REQUEST")

\* checkList of _testMPc-server.c: a node that is new is registered.
RegisterMP(list, m) ==
  IF m.from \in ToSet(list) THEN <<>>
  ELSE SendSetup("NODE_SYNC_REQUEST") \o <<Send("REGISTRATION", "none")>>

\* The message is entered in the list and answered, and a broadcast follows.
\* Of what is not a message, no part of which has a type that the switch
\* knows, nothing is kept.  server_node:
HandleC(m) ==
  /\ sub' = IF m.from \in Id THEN ListAfterC(sub, m) ELSE sub
  /\ todo' = Answers(m) \o SendBroadcastC

\* server_node_thread:
HandleMP(m) ==
  /\ sub' = IF m.from \in Id THEN CheckList(sub, m.from) ELSE sub
  /\ todo' = (IF m.from \in Id THEN RegisterMP(sub, m) ELSE <<>>) \o Answers(m) \o SendBroadcastMP

-----------------------------------------------------------------------------
(* Reading.                                                                *)

Count(chunk, char) == Cardinality({i \in DOMAIN chunk : Char(chunk[i]) = char})
Excess(chunk) == Count(chunk, "{") - Count(chunk, "}")
Abs(n) == IF n < 0 THEN -n ELSE n

\* A whole object is followed by something else that was read for.
Overbound(chunk) ==
  \E i \in DOMAIN chunk :
    LET start == SubSeq(chunk, 1, i) IN
    i < recv_Size /\ Count(start, "{") > 0 /\ Excess(start) = 0

\* Mutant of Balanced: more may be open than is closed.
BalancedOrOpen(chunk) == Excess(chunk) >= 0 /\ recv_Size >= LowSize

Balanced(chunk) == Excess(chunk) = 0 /\ recv_Size >= LowSize

\* Mutant of Resized: recv_Size may become less than at the start.
ResizedAnyway(chunk) ==
  IF Overbound(chunk) /\ Excess(chunk) > 0 THEN recv_Size - Step
  ELSE recv_Size + Step * Abs(Excess(chunk))

\* recive_message: recv_Size where the braces do not balance.  It grows
\* without a bound, also beyond client_message.
Resized(chunk) ==
  IF Overbound(chunk) /\ Excess(chunk) > 0 /\ recv_Size > FirstSize THEN recv_Size - Step
  ELSE recv_Size + Step * Abs(Excess(chunk))

\* recv writes behind client_message, or the loop that counts the braces
\* reads there, which it does wherever anything but a NUL came first.
Overruns(chunk) ==
  recv_Size > BufSize /\ (Len(chunk) > BufSize \/ Char(chunk[1]) # "0")

\* json_tokener_parse takes the first object of the text up to the first
\* NUL: a message, the time stamps in a message, or neither.
Whole(chunk) == chunk[1][2] = 1 /\ Len(chunk) >= Len(Text(chunk[1][1])) - 1
Fragment == Message("fragment", 0, Nothing)
Truncated == Message("truncated", 0, Nothing)
Parse(chunk) ==
  IF Whole(chunk) THEN chunk[1][1] ELSE IF chunk[1][2] = 1 THEN Truncated ELSE Fragment

Taken(m) ==
  /\ pc' = "send" /\ parsed' = m.type
  /\ first' = IF first = Nothing THEN m.type ELSE first

\* recive_message and what server_node does with it, of the n characters
\* that recv returns.  Outside of the array the program is undefined.
Read(n) ==
  LET chunk == SubSeq(sock, 1, n)
      rest == SubSeq(sock, n + 1, Len(sock))
  IN
  /\ pc = "recv" /\ kind # "js" /\ n \in 1..Min({Len(sock), recv_Size})
  /\ \/ /\ Overruns(chunk) /\ pc' = "overrun"
        /\ UNCHANGED <<sock, state, open, recv_Size, rounds, sub, todo, parsed, first>>
     \/ /\ Char(chunk[1]) = "0" /\ ~Overruns(chunk) /\ Failed(rest)
        /\ UNCHANGED <<recv_Size, sub, todo, parsed, first>>
     \/ /\ Char(chunk[1]) # "0" /\ ~Overruns(chunk) /\ ~Balanced(chunk)
        /\ recv_Size' = Resized(chunk) /\ sock' = rest
        /\ UNCHANGED <<pc, state, open, rounds, sub, todo, parsed, first>>
     \/ /\ Char(chunk[1]) \notin {"0", "{"} /\ ~Overruns(chunk) /\ Balanced(chunk)
        /\ Continue /\ sock' = rest
        /\ UNCHANGED <<state, open, recv_Size, sub, todo, parsed, first>>
     \/ /\ Char(chunk[1]) = "{" /\ ~Overruns(chunk) /\ Balanced(chunk)
        /\ (kind = "c" /\ HandleC(Parse(chunk))) \/ (kind = "mp" /\ HandleMP(Parse(chunk)))
        /\ Taken(Parse(chunk)) /\ sock' = rest
        /\ UNCHANGED <<state, open, recv_Size, rounds>>
  /\ UNCHANGED <<kind, writes, backlog, sendBack, heard, named, string, faults>>

\* timeout_recv: nothing for 10 s, or the connection is at its end.
TimeoutRecv ==
  /\ pc = "recv" /\ kind # "js" /\ sock = <<>>
  /\ Failed(<<>>)
  /\ UNCHANGED <<kind, writes, backlog, recv_Size, sub, todo, sendBack, heard, named, string,
                 parsed, first, faults>>

\* Sends go on after the node has closed, which resets the connection; the
\* next send ends the program (SIGPIPE).
Transmit ==
  /\ pc = "send" /\ todo # <<>>
  /\ \/ /\ state = "up" /\ Hears(Head(todo)) /\ todo' = Tail(todo)
        /\ UNCHANGED <<pc, sock, state>>
     \/ /\ state = "down" \/ state = "lost"
        /\ todo' = Tail(todo) /\ UNCHANGED <<pc, heard, named, string>>
        /\ IF state = "down" /\ kind # "js" THEN state' = "reset" /\ sock' = <<>>
           ELSE UNCHANGED <<state, sock>>
     \/ /\ state = "reset" /\ todo' = <<>> /\ pc' = "killed"
        /\ UNCHANGED <<sock, state, heard, named, string>>
  /\ UNCHANGED <<kind, writes, backlog, open, recv_Size, rounds, sub, sendBack, parsed, first, faults>>

Done ==
  /\ pc = "send" /\ todo = <<>> /\ Continue
  /\ UNCHANGED <<kind, writes, sock, state, backlog, recv_Size, sub, todo, sendBack, nodeVars, histVars, faults>>

-----------------------------------------------------------------------------
(* sockets.js.                                                             *)

\* typeHandler and timeSync: the answer, and the global that says whether to
\* send it, which an answer of undefined does not change.  "4 || 6" is 4.
AnswerJS(m) ==
  CASE m.type = "NODE_SYNC_REQUEST" -> [what |-> "NODE_SYNC_REPLY", send |-> TRUE]
    [] m.type = "TIME_SYNC" /\ m.at = 1 -> [what |-> "TIME_SYNC", send |-> TRUE]
    [] m.type = "TIME_SYNC" /\ m.at = 0 -> [what |-> "undefined", send |-> sendBack]
    [] OTHER -> [what |-> "undefined", send |-> FALSE]

\* getType: the text up to the first NUL, where there is one; JSON.parse
\* throws where that is not an object and no more.
WholeText(chunk) ==
  chunk[1][2] = 1 /\ Len(chunk) >= Len(Text(chunk[1][1]))

\* The handler of "data".
Data(n) ==
  LET chunk == SubSeq(sock, 1, n)
      m == chunk[1][1]
      answer == AnswerJS(m)
  IN
  /\ pc = "recv" /\ kind = "js" /\ n \in 1..Len(sock)
  /\ sock' = SubSeq(sock, n + 1, Len(sock))
  /\ \/ /\ WholeText(chunk) /\ Taken(m) /\ sendBack' = answer.send
        /\ todo' = IF answer.send THEN <<Send(answer.what, "one"), Send("BROADCAST", "one")>>
                   ELSE <<>>
     \/ ~WholeText(chunk) /\ UNCHANGED <<pc, parsed, first, sendBack, todo>>
  /\ UNCHANGED <<kind, writes, state, backlog, open, recv_Size, rounds, sub, heard, named, string, faults>>

Server ==
  Accept \/ (\E n \in DOMAIN sock : Read(n) \/ Data(n)) \/ TimeoutRecv \/ Transmit \/ Done
Node == NodeConnects \/ NodeTimesOut \/ NodeLost \/ \E m \in Writes : NodeWrites(m)
Next == Server \/ Node

Spec == Init /\ [][Next]_vars
=============================================================================
