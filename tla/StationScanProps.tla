--------------------------- MODULE StationScanProps --------------------------
(* The properties of the station, over StationScan.                        *)
EXTENDS StationScan

\* Type correctness.
TypeOK ==
  /\ chip \in Chips /\ running \in BOOLEAN /\ manual \in BOOLEAN /\ port \in Ports \cup {1}
  /\ task \in [callback : Callbacks, enabled : BOOLEAN, delay : Delays]
  /\ aps \subseteq AP /\ found \subseteq AP /\ reach \subseteq MeshAP
  /\ gotIp \in BOOLEAN
  /\ conns \in Seq([ap : AP, state : {"syn", "up", "member"}, live : BOOLEAN])
  /\ radio \in [state : States, ap : AP \cup {None}, config : AP \cup {None}]
  /\ scan \subseteq AP \/ scan = NoScan
  /\ events \in Seq({"SCAN_DONE", "STA_START", "DISCONNECTED", "GOT_IP"})
  /\ faults \in 0..MaxFaults

Coming(event) == \E i \in DOMAIN events : events[i] = event

\* _station_got_ip is what the driver would say, but for events that are
\* still to be handled, in whatever order links are lost and joined and
\* connections closed: no node believes for ever that it has an address it
\* has lost, nor asks for one it has (espWifiEventCb, MeshConnection::close).
AddressKnown ==
  running =>
    /\ gotIp /\ radio.state # "ip" => Coming("DISCONNECTED")
    /\ ~gotIp /\ radio.state = "ip" => Coming("GOT_IP")

\* A station with no association, no scan and no event under way will be
\* scanning again within four intervals: whatever came in whatever order has
\* left the one task enabled, with a callback and without the long delay
\* (connectToAP, scanComplete).
LooksAgain ==
  running /\ radio.state = "idle" /\ events = <<>> /\ scan = NoScan =>
    task.enabled /\ task.delay # "long"

\* The station serves: it is where it should be, with an address and, unless
\* the connection was not wanted, a live connection.
Member(i) == conns[i].state = "member" /\ conns[i].live
Serves ==
  /\ radio.state = "ip" /\ radio.ap \in Named
  /\ (manual /\ port = 0) \/ \E i \in DOMAIN conns : Member(i)

\* Fairness: the scheduler runs what is due, events are handled, scans and
\* associations end, and connections are set up or, the oldest first, time
\* out, however often new ones are set up in between (hence strong fairness).
Turns ==
  \/ StationScan \/ FilterAPs \/ Sort \/ ConnectToAP
  \/ ScanComplete \/ StaStart \/ Disconnected \/ GotIp
Connecting == \E i \in DOMAIN conns : OnConnect(i) \/ (conns[i].live /\ OnError(i)) \/ NodeSynced(i)
TimesOut == conns # <<>> /\ ~conns[1].live /\ (OnError(1) \/ OnDisconnect(1))
FairSpec ==
  /\ Spec
  /\ WF_vars(Turns) /\ WF_vars(Connecting) /\ SF_vars(TimesOut)
  /\ WF_vars(ScanDone) /\ WF_vars(Associate \/ Address)

\* Again and again the station serves, unless it has been stopped or all access
\* points it could join belong to nodes that are behind its other connections.
Rejoins == []<>(Serves \/ ~running \/ Named \subseteq reach)

\* What stationManual promises: "Connects the node to an AP outside the mesh."
ManualConnects == manual ~> (radio.ap \in Router \/ ~running)

\* What stop promises: "Disconnect and stop this node".  No connection of the
\* station is opened afterwards.
StaysStopped == [][~running => Len(conns') <= Len(conns)]_vars
=============================================================================
