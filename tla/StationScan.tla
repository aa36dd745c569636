----------------------------- MODULE StationScan -----------------------------
(***************************************************************************)
(* The station of one node: the scan task, which its own callbacks and the *)
(* Wi-Fi events re-program, the choice of an access point, the association *)
(* and the TCP connection that makes the node a part of the mesh.          *)
(*                                                                         *)
(* One task does everything by turns.  A scan is started; its end comes as *)
(* an event and makes the task filter, sort and connect; a lost link comes *)
(* as an event and connects at once, in the middle of whatever the task    *)
(* was about to do.  The Wi-Fi driver is external: it is modelled by the   *)
(* events it raises.  Time is modelled by how long the task is delayed.    *)
(*                                                                         *)
(* Abstracted: the strength of the signal, which changes from one scan to  *)
(* the next, so that any access point may be in front after sorting; the   *)
(* probability of a reconfiguration, which is a free choice.  Of the node  *)
(* synchronisation only the first message matters here: it names the node  *)
(* a connection leads to, or closes the connection.                        *)
(***************************************************************************)
EXTENDS Integers, Sequences, FiniteSets, SequencesExt, SeqFilter

CONSTANTS
  MeshAP,       \* access points with the name of the mesh
  Router,       \* access points with the name given to stationManual
  None,
  Chips,        \* of {"ESP8266", "ESP32"}: the boards looked at
  Ports,        \* ports stationManual may be called with; 0: no connection
  ManualWhen,   \* in which states of the radio it may be called
  MayStop,      \* whether the application may call stop()
  MaxFaults,    \* bound: associations, scans and links that fail, nodes that come and go
  MaxEvents,    \* bound: events that wait to be handled
  MaxConns      \* bound: connections not yet closed when the next one is opened

AP == MeshAP \cup Router
States == {"idle", "joining", "joined", "ip", "off"}
Delays == {"now", "interval", "4 intervals", "slow", "long"}
Callbacks == {"stationScan", "filterAPs", "sort", "connectToAP", "none"}

ASSUME APAssumption ==
  IsFiniteSet(AP) /\ MeshAP \cap Router = {} /\ None \notin AP
ASSUME KindAssumption ==
  /\ Chips \subseteq {"ESP8266", "ESP32"} /\ Ports \subseteq Nat
  /\ ManualWhen \subseteq States /\ MayStop \in BOOLEAN
ASSUME BoundAssumption == MaxFaults \in Nat /\ MaxEvents \in Nat /\ MaxConns \in Nat

VARIABLES
  chip,      \* never changes
  running,   \* between init() and stop()
  manual,    \* stationManual has been called
  port,      \* stationScan.port, 0 or not
  task,      \* stationScan.task
  aps,       \* stationScan.aps
  gotIp,     \* _station_got_ip
  conns,     \* the TCP connections of the station
  reach,     \* access points of nodes that are behind other connections
  radio,     \* the driver: what it is associated with, and its configuration
  scan,      \* the access points an unfinished scan looks for
  found,     \* what the last scan found
  events,    \* events not yet handled
  faults     \* faults so far

codeVars == <<running, manual, port, task, aps, gotIp, conns>>
vars == <<chip, codeVars, reach, radio, scan, found, events, faults>>

NoScan == {None}
Named == IF manual THEN Router ELSE MeshAP

\* init() of a node with a station: the driver starts, the task is added and
\* every task enabled.
Init ==
  /\ chip \in Chips /\ running = TRUE
  /\ manual = FALSE /\ port = 1
  /\ task = [callback |-> "stationScan", enabled |-> TRUE, delay |-> "now"]
  /\ aps = {} /\ gotIp = FALSE /\ conns = <<>> /\ reach = {}
  /\ radio = [state |-> "idle", ap |-> None, config |-> None]
  /\ scan = NoScan /\ found = {} /\ events = <<"STA_START">> /\ faults = 0

-----------------------------------------------------------------------------
(* The scheduler's operations on the task, for what they are used for.     *)

Yield(t, callback) == [t EXCEPT !.callback = callback, !.delay = "now"]
Delay(t, d) == [t EXCEPT !.delay = d]
EnableDelayed(t, d) == [t EXCEPT !.enabled = running, !.delay = d]

\* Events, scans and the set-up of a connection are a matter of seconds, the
\* shortest delay is of ten.
SetUp == \A i \in DOMAIN conns : conns[i].live => conns[i].state = "member"
Due(callback) ==
  /\ task.enabled /\ task.callback = callback
  /\ task.delay = "now" \/ (events = <<>> /\ scan = NoScan /\ SetUp)

Fault == faults < MaxFaults /\ faults' = faults + 1
InTime == task.delay = "now" \/ radio.state \notin {"joining", "joined"}

-----------------------------------------------------------------------------
(* The driver, as the code uses it.                                        *)

\* What esp_wifi_disconnect leaves of the radio, the queue and the
\* connections.  Without an association there is nothing to end.
Ends(r) == r.state \in {"joining", "joined", "ip"}
Idle(r) == IF Ends(r) THEN [r EXCEPT !.state = "idle", !.ap = None] ELSE r
Raise(r, q) == IF Ends(r) THEN Append(q, "DISCONNECTED") ELSE q
Cut(r, cs) ==
  IF Ends(r) THEN [i \in DOMAIN cs |-> [cs[i] EXCEPT !.live = FALSE]] ELSE cs

\* requestIP: esp_wifi_set_config and esp_wifi_connect.  A station that is
\* associated should be disconnected first; one that is not keeps what it
\* has, or gives it up.
RequestIP(ap, r, q, cs) ==
  LET configured == [r EXCEPT !.config = ap]
      joins == [state |-> "joining", ap |-> ap, config |-> ap]
  IN
  \/ radio' = (IF r.state = "idle" THEN joins ELSE configured) /\ events' = q /\ conns' = cs
  \/ Ends(r) /\ radio' = joins /\ events' = Raise(r, q) /\ conns' = Cut(r, cs)

-----------------------------------------------------------------------------
(* Closing.                                                                *)

\* MeshConnection::close of the i-th connection.
Close(i, r, q, cs) ==
  /\ conns' = Cut(r, RemoveAt(cs, i))
  /\ radio' = Idle(r) /\ events' = Raise(r, q)
  /\ gotIp' = FALSE

\* closeConnectionSTA: the first station connection, if there is one.  One
\* that is still being set up is not in the list.
CloseConnectionSTA ==
  LET up == {i \in DOMAIN conns : conns[i].state # "syn"} IN
  \/ up # {} /\ Close(CHOOSE i \in up : \A j \in up : i <= j, radio, events, conns)
  \/ up = {} /\ UNCHANGED <<conns, radio, events, gotIp>>

-----------------------------------------------------------------------------
(* The callbacks of the task.                                              *)

\* stationScan.  No scan can be started while the station is associating; the
\* task then comes back after the long delay.  An association that outlasts the
\* delay of the task counts as a fault.
StationScan ==
  /\ Due("stationScan")
  /\ task' = Delay(task, "long")
  /\ IF InTime THEN UNCHANGED faults ELSE Fault
  /\ \/ radio.state # "off" /\ scan' = Named
     \/ radio.state \in {"joining", "off"} /\ UNCHANGED scan
  /\ UNCHANGED <<chip, running, manual, port, aps, gotIp, conns, reach, radio, found, events>>

\* findConnection of an access point: behind a connection of the station or
\* of somebody else.
MemberAPs == {conns[i].ap : i \in {j \in DOMAIN conns : conns[j].state = "member"}}
Known == reach \cup (MemberAPs \cap MeshAP)

FilterAPs ==
  /\ Due("filterAPs")
  /\ aps' = aps \ Known
  /\ task' = Yield(task, "sort")
  /\ UNCHANGED <<chip, running, manual, port, gotIp, conns, reach, radio, scan, found, events, faults>>

Sort ==
  /\ Due("sort")
  /\ task' = Yield(task, "connectToAP")
  /\ UNCHANGED <<chip, running, manual, port, aps, gotIp, conns, reach, radio, scan, found, events, faults>>

-----------------------------------------------------------------------------
(* connectToAP.  Whatever it does, the task's next callback is the scan.   *)

Rescan(t) == [t EXCEPT !.callback = "stationScan"]

\* A manual connection: it stands, it is another one, or there is nothing to
\* connect to yet.
Manual ==
  \/ /\ gotIp /\ radio.config \in Named
     /\ task' = [Rescan(task) EXCEPT !.enabled = FALSE]
     /\ UNCHANGED <<radio, conns, gotIp, events, faults>>
  \/ /\ gotIp /\ radio.config \notin Named
     /\ CloseConnectionSTA
     /\ task' = EnableDelayed(Rescan(task), "long")
     /\ UNCHANGED faults

\* Without an address and without an access point to try.
NothingToJoin(r, q, cs) ==
  /\ task' = IF manual THEN EnableDelayed(Rescan(task), "interval")
             ELSE Delay(Rescan(task), "interval")
  /\ radio' = r /\ events' = q /\ conns' = cs /\ gotIp' = FALSE

\* Mutant of Join: the task is not told to scan next.
JoinOnly(ap, r, q, cs) ==
  /\ RequestIP(ap, r, q, cs)
  /\ task' = Delay(task, "4 intervals") /\ gotIp' = FALSE

\* Without an address and with one.
Join(ap, r, q, cs) ==
  /\ RequestIP(ap, r, q, cs)
  /\ task' = Delay(Rescan(task), "4 intervals") /\ gotIp' = FALSE

\* Mutant of Connect: the front of the list is taken without asking whether
\* there is one.
ConnectToFront(r, q, cs) ==
  \E ap \in IF aps = {} THEN {None} ELSE aps :
    /\ aps' = aps \ {ap}
    /\ Join(ap, r, q, cs) /\ UNCHANGED faults

\* The part of connectToAP for a node without an address.
Connect(r, q, cs) ==
  \/ /\ aps = {} \/ (manual /\ aps \ Named # {})
     /\ NothingToJoin(r, q, cs) /\ UNCHANGED <<aps, faults>>
  \/ \E ap \in aps :
       /\ manual => ap \in Named
       /\ aps' = aps \ {ap}
       /\ Join(ap, r, q, cs) /\ UNCHANGED faults

\* The part for a node with an address, in the mesh.
LeaveForBetter ==
  /\ aps # {} /\ CloseConnectionSTA /\ task' = Delay(Rescan(task), "long")
Stay ==
  /\ task' = Delay(Rescan(task), IF aps = {} THEN "slow" ELSE "4 intervals")
  /\ UNCHANGED <<radio, conns, gotIp, events>>

ConnectToAP ==
  /\ Due("connectToAP")
  /\ \/ manual /\ Manual /\ UNCHANGED aps
     \/ ~gotIp /\ Connect(radio, events, conns)
     \/ ~manual /\ gotIp /\ (LeaveForBetter \/ Stay) /\ UNCHANGED <<aps, faults>>
  /\ UNCHANGED <<chip, running, manual, port, reach, scan, found>>

-----------------------------------------------------------------------------
(* espWifiEventCb.                                                         *)

Handle(event) ==
  /\ events # <<>> /\ Head(events) = event
  /\ UNCHANGED <<chip, running, manual, port, reach, scan, found>>

\* Mutant of ScanComplete: the task is not woken.
ScanCompleteAsleep ==
  /\ Handle("SCAN_DONE")
  /\ aps' = found /\ task' = [task EXCEPT !.callback = "filterAPs"]
  /\ events' = Tail(events)
  /\ UNCHANGED <<gotIp, conns, radio, faults>>

ScanComplete ==
  /\ Handle("SCAN_DONE")
  /\ aps' = found /\ task' = Yield(task, "filterAPs")
  /\ events' = Tail(events)
  /\ UNCHANGED <<gotIp, conns, radio, faults>>

StaStart ==
  /\ Handle("STA_START")
  /\ task' = Delay(task, "now")
  /\ events' = Tail(events)
  /\ UNCHANGED <<aps, gotIp, conns, radio, faults>>

\* The ESP8266 makes sure that it is disconnected.
Disconnected ==
  LET r == IF chip = "ESP8266" THEN Idle(radio) ELSE radio
      q == IF chip = "ESP8266" THEN Raise(radio, Tail(events)) ELSE Tail(events)
      cs == IF chip = "ESP8266" THEN Cut(radio, conns) ELSE conns
  IN
  /\ Handle("DISCONNECTED")
  /\ Connect(r, q, cs)

\* Mutant of GotIp: the address is noted with the connection.
GotIpIfConnects ==
  /\ Handle("GOT_IP")
  /\ Len(conns) < MaxConns
  /\ gotIp' = ~(manual /\ port = 0)
  /\ conns' = IF (manual /\ port = 0) \/ radio.state # "ip" THEN conns
              ELSE Append(conns, [ap |-> radio.ap, state |-> "syn", live |-> TRUE])
  /\ events' = Tail(events)
  /\ UNCHANGED <<task, aps, radio, faults>>

\* tcpConnect, unless the address is gone again or no connection is wanted.
GotIp ==
  /\ Handle("GOT_IP")
  /\ Len(conns) < MaxConns
  /\ gotIp' = TRUE
  /\ conns' = IF (manual /\ port = 0) \/ radio.state # "ip" THEN conns
              ELSE Append(conns, [ap |-> radio.ap, state |-> "syn", live |-> TRUE])
  /\ events' = Tail(events)
  /\ UNCHANGED <<task, aps, radio, faults>>

-----------------------------------------------------------------------------
(* The TCP connection.                                                     *)

\* The callback of onConnect.
OnConnect(i) ==
  /\ conns[i].state = "syn" /\ conns[i].live
  /\ conns' = [conns EXCEPT ![i].state = "up"]
  /\ UNCHANGED <<chip, running, manual, port, task, aps, gotIp, reach, radio, scan, found, events, faults>>

\* A connection is refused or broken by a fault; one whose link is gone times
\* out, which takes longer than setting up a new one.
Broken(i) ==
  IF conns[i].live THEN Fault
  ELSE SetUp /\ UNCHANGED faults

\* The callback of onError: refused, or no answer.
OnError(i) ==
  /\ conns[i].state = "syn" /\ Broken(i)
  /\ conns' = Cut(radio, RemoveAt(conns, i))
  /\ radio' = Idle(radio) /\ events' = Raise(radio, events)
  /\ UNCHANGED <<chip, running, manual, port, task, aps, gotIp, reach, scan, found>>

\* The callback of onDisconnect: closed by the other end, or nothing heard
\* for NODE_TIMEOUT.
OnDisconnect(i) ==
  /\ conns[i].state # "syn" /\ Broken(i)
  /\ Close(i, radio, events, conns)
  /\ UNCHANGED <<chip, running, manual, port, task, aps, reach, scan, found>>

\* handleNodeSync on a new connection: it names the node, unless another
\* connection already does; then the new one is closed.
NodeSynced(i) ==
  /\ conns[i].state = "up" /\ conns[i].live
  /\ IF conns[i].ap \in reach \cup MemberAPs
     THEN Close(i, radio, events, conns)
     ELSE /\ conns' = [conns EXCEPT ![i].state = "member"]
          /\ UNCHANGED <<radio, events, gotIp>>
  /\ UNCHANGED <<chip, running, manual, port, task, aps, reach, scan, found, faults>>

-----------------------------------------------------------------------------
(* The driver.                                                             *)

Room == Len(events) < MaxEvents
Driver == Room /\ UNCHANGED <<chip, running, manual, port, task, aps, gotIp, reach>>

ScanDone ==
  /\ Driver /\ scan # NoScan
  /\ \/ found' = scan /\ UNCHANGED faults
     \/ Fault /\ found' \in SUBSET scan \ {scan}
  /\ scan' = NoScan /\ events' = Append(events, "SCAN_DONE")
  /\ UNCHANGED <<conns, radio>>

Associate ==
  /\ Driver /\ radio.state = "joining"
  /\ radio' = [radio EXCEPT !.state = "joined"]
  /\ UNCHANGED <<conns, scan, found, events, faults>>

Address ==
  /\ Driver /\ radio.state = "joined"
  /\ radio' = [radio EXCEPT !.state = "ip"]
  /\ events' = Append(events, "GOT_IP")
  /\ UNCHANGED <<conns, scan, found, faults>>

\* The association fails or the link is lost.
LinkLost ==
  /\ Driver /\ Ends(radio) /\ Fault
  /\ radio' = Idle(radio) /\ events' = Raise(radio, events) /\ conns' = Cut(radio, conns)
  /\ UNCHANGED <<scan, found>>

\* Another node connects to this one, or is lost, and those behind it.
OthersChange(ap) ==
  /\ Fault
  /\ reach' = IF ap \in reach THEN reach \ {ap} ELSE reach \cup {ap}
  /\ ap \notin {conns[i].ap : i \in DOMAIN conns}
  /\ UNCHANGED <<chip, codeVars, radio, scan, found, events>>

-----------------------------------------------------------------------------
(* The application.                                                        *)

\* stationManual.
StationManual(p) ==
  /\ running /\ ~manual /\ radio.state \in ManualWhen
  /\ manual' = TRUE /\ port' = p
  /\ task' = Delay(Rescan(task), "interval")
  /\ UNCHANGED <<chip, running, aps, gotIp, conns, reach, radio, scan, found, events, faults>>

\* A connection that has not been answered is not in the list that stop closes.
Unanswered == [ap : AP, state : {"syn"}, live : BOOLEAN]

\* stop.  esp_wifi_stop turns the radio of an ESP32 off; the shim for the
\* ESP8266 does nothing.
Stop ==
  /\ MayStop /\ running /\ Room
  /\ running' = FALSE
  /\ task' = [callback |-> "none", enabled |-> FALSE, delay |-> task.delay]
  /\ conns' = Only(Cut(radio, conns), Unanswered)
  /\ gotIp' = (gotIp /\ \A i \in DOMAIN conns : conns[i].state = "syn")
  /\ radio' = IF chip = "ESP32" THEN [Idle(radio) EXCEPT !.state = "off"] ELSE Idle(radio)
  /\ events' = Raise(radio, events)
  /\ UNCHANGED <<chip, manual, port, aps, reach, scan, found, faults>>

Next ==
  \/ StationScan \/ FilterAPs \/ Sort \/ ConnectToAP
  \/ ScanComplete \/ StaStart \/ Disconnected \/ GotIp
  \/ \E i \in DOMAIN conns : OnConnect(i) \/ OnError(i) \/ OnDisconnect(i) \/ NodeSynced(i)
  \/ ScanDone \/ Associate \/ Address \/ LinkLost
  \/ \E ap \in MeshAP : OthersChange(ap)
  \/ \E p \in Ports : StationManual(p)
  \/ Stop

Spec == Init /\ [][Next]_vars
=============================================================================
