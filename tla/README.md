# A TLA+ verification of painlessMesh and its bridge

The repository is a senior project around painlessMesh: a library that makes
ESP8266 and ESP32 boards a self-organising Wi-Fi mesh, sketches that use it, and
servers on a PC that join the mesh over a TCP socket. This directory holds
specifications of the program in TLA+, the TLC configurations that check them on
small instances, and proofs that TLAPS checks.

Paths are relative to the repository. `PM` stands for `src/Painless_Mesh/src`
(v1.0.2 of the library, the copy that is specified unless another one is named)
and `MM` for `src/painlessMesh-master/src` (v0.6.3, which also contains
`painlessTCP.cpp`, the asynchronous TCP client both versions are written for).

## 1. Inventory

| component | state | operations | interacts with |
|---|---|---|---|
| Message link: `SentBuffer`, `ReceiveBuffer`, `writeNext`, `readBufferTask` (`PM/painlessMeshConnection.*`) | queue of strings, `clean`, `last_read_size`, one static buffer for all connections, the string received so far, the strings received | `addMessage`, `writeNext`, `tcpSentCb`, `meshRecvCb`, `readBufferTask`, `close` | TCP client below; handlers above; callbacks and tasks interleave |
| Connections, NODE_SYNC, routing (`PM/painlessMeshConnection.cpp`, `painlessMeshSync.cpp`, `painlessMeshComm.cpp`) | `_connections` with `nodeId`, `subConnections`, `newConnection`; `newConnectionTask`, `droppedConnectionTask` | `handleNodeSync`, `close`, `syncSubConnections`, `findConnection`, `handleMessage`, `sendMessage`, `broadcastMessage` | other nodes by messages; application by callbacks |
| Station scan (`PM/painlessMeshSTA.cpp`) | `aps`, the callback the one scan task will run next, `manual`, `_station_got_ip` | `stationScan`, `scanComplete`, `filterAPs`, `connectToAP`, `tcpConnect` | Wi-Fi events; `_connections` |
| Time synchronisation (`PM/painlessMeshSync.*`) | `timeAdjuster`, four timestamps per connection, `timeSyncTask` | `startTimeSync`, `adoptionCalc`, `handleTimeSync`, `handleTimeDelay`, `calcAdjustment` | link; views of the mesh |
| TCP client and server (`MM/painlessTCP.*`) | event queue of 32, pcb, `_pcb_busy`, `_close_pcb`, time stamps of polls | `connect`, `write`, `close`, `_recv`, `_sent`, `_poll`, the service task | lwIP thread, service task and main loop at once |
| Library facade and access point (`PM/painlessMesh.cpp`, `painlessMeshAP.cpp`) | configuration | `init`, `stop`, `update`, `sendSingle`, `sendBroadcast` | all of the above |
| C bridge servers (`src/c-server.c`, `src/_testMPc-server.c`) | list of nodes `sub[10]`, a receive window whose size follows unbalanced braces | `recive_message`, `checkList`, replies to NODE_SYNC and TIME_SYNC | one mesh node by TCP |
| JavaScript bridge server (`src/sockets.js`) | one global answer for all sockets | `data` handler | one mesh node by TCP |
| v0.6.3 of the library (`MM`) | as above, and what is delayed by 100 ms | as above; `handleNodeSync` replaces connections instead of refusing them, and looks for no loops | the same |
| ESP-IDF shim (`PM/espInterface.cpp`) | which events the SDK raises | `wifiEventCb`, `esp_wifi_scan_start`, `esp_wifi_disconnect` | station scan |
| `src/Newc-server.c`, sketches and examples, debug output, the wrapper of the external TaskScheduler | | | not modelled, see section 8 |

What is hard about it, and so what the properties are about:

* *The link.* A message is cut into fragments by a socket that fills up; a
  priority message, a failed write or a close may come between any two of them.
  Correct means: strings arrive whole, each once, those without priority in
  order, and none waits for ever.
* *The mesh.* Every node acts on what its neighbours told it some time ago. Two
  nodes connect to each other at once; three close a ring; a link dies and is
  noticed seconds later, when the station has a new one already; one task
  announces what several connections did. Correct means: once changes stop, the
  connections are a forest and every node knows exactly who is behind which;
  lost nodes do not linger; a broadcast visits nobody twice; a message for which
  there is a route arrives.
* *The scan.* One task is re-programmed by its own callbacks and by Wi-Fi events
  in any order. Correct means: some next step is always scheduled, what the node
  believes of its address is what the driver would say, and it ends up connected.
* *Time.* Clocks of 32 bits wrap; both ends decide alone who adopts whose time,
  from views that may disagree; a synchronisation provokes those of the
  neighbours. Correct means: neighbours agree within the accuracy whenever nothing
  is going on, and the wave dies out.
* *The TCP client.* Three threads, a bounded queue that blocks the thread which
  has to drain it, a close that is carried out later. Correct means: no thread
  waits for ever, data comes in order, the end is reported, and reported once.
* *The bridge servers.* They guess where a message ends, and do not send the NUL
  the mesh expects. Correct means: only whole messages are used, the first string
  the node gets back is one it can use, a node is in the list once, and the server
  serves again after every failure.

PROJECT.json lists each of these hazards at the line where it bites.

## 2. Plan

Done, in this order:

1. `MessageChannel`, `MeshLink`: the link and what it promises; proofs.
2. `MeshTopology`: connections, NODE_SYNC, routing; the link is present only as
   the promise of `MessageChannel`.
3. `TimeSync`: adoption, timestamps in words of `W` values, the wave.
4. `TcpClient`: event queue, service task and lwIP thread, deferred close, poll.
5. `StationScan`: the scan task, the events, the manual connection, `stop`.
6. `BridgeServer`: the three servers and what the node makes of their answers.
7. `MeshTopologyV063`: v0.6.3 where it differs, over `MeshTopology`.

8. Proofs, component by component: `MeshLink` (types, strings whole, the promise
   of `MessageChannel`, order, once), `TcpClient`, `StationScan`, `BridgeServer`,
   `MeshTopology`, `TimeSync`, `MeshTopologyV063`.

To come, of the model: the listener of `TCPServer`, and several clients on one
event queue.

## 3. Modules

| module | what it is |
|---|---|
| `MessageChannel` | abstract: what a connection promises for one direction. Messages wait (`pending`), have started (`transit`) or are `received`; an urgent message goes in front of everything that waits, nothing overtakes what has started. |
| `MeshLink` | one direction of a connection, both ends and the TCP stream. |
| `MeshLinkProps` | its properties, the inductive invariant `IInv`, the refinement mapping to `MessageChannel`, the fairness. |
| `MeshLink_proofs` | theorems about `MeshLink`: its types, strings are whole; the promise of `MessageChannel`, order, once. |
| `SeqFilter`, `SeqFilter_proofs` | the elements of a sequence that belong to a set, in their order, as a definition without recursion, and lemmas about it. |
| `MeshTopology` | all nodes, their connections, NODE_SYNC, routing, the station. |
| `MeshTopologyProps` | its properties and fairness. |
| `MeshTopologyV063` | the same mesh run by v0.6.3: instantiates `MeshTopology` and replaces what differs. |
| `TimeSync` | all nodes of a mesh that no longer changes, their clocks and the exchanges between neighbours. |
| `TcpClient` | one `TCPClient`, its three threads and lwIP's side of the connection. |
| `StationScan` | the station of one node, with the Wi-Fi driver as its environment. |
| `BridgeServer` | one server on the PC and the node that is connected to it. |
| `TcpClient_proofs`, `StationScan_proofs`, `BridgeServer_proofs`, `MeshTopology_proofs`, `MeshTopologyV063_proofs`, `TimeSync_proofs` | theorems about that module, with its inductive invariant. |
| `...Props` of each | the properties and the fairness of that module. |
| `MC...` of each | values of the constants for TLC. |

### MeshLink

| specification | code |
|---|---|
| `sentq`, `clean`, `last_read_size` | `SentBuffer` (`PM/painlessMeshConnection.h:43`). A queued string is the message and how many characters `freeRead` has removed from it. |
| `shared_buffer`, `ReuseSharedBuffer` | the static `shared_buffer`, written by every connection of the node |
| `wire`, `ackable`, `Space` | bytes the socket has taken; `space()` is what is left of `SndBuf` |
| `buffer`, `recvq` | `ReceiveBuffer` |
| `pc`, `len` | where a thread is in `writeNext`, and its local `len` |
| `AddMessage` (`AcceptMessage`, `DiscardMessage`) | `addMessage` with its three outcomes; the applications' messages and the priority ones are queued once each, the request of `nodeSyncTask` for ever |
| `ReadFront`, `WriteTaken`, `WriteFails`, `FreeRead`, `WriteReturns` | `writeNext`, cut where another thread or a failure can come between |
| `TcpSentCb`, `MeshRecvCb`, `ReadBufferTask` | the callbacks and the task of that name |
| `CloseSender`, `CloseReceiver` | `MeshConnection::close` at either end |

A byte is a pair of message and position, so that a byte in the wrong place is
visible whatever the text. `CallbackTask = "loop"` is the ESP8266, where
callbacks run between passes of the main loop; `"tcp"` is the ESP32 with the
service task of `painlessTCP.cpp`. `TracksClean = FALSE` is the `SentBuffer` of
v0.6.3. `OutputMayFail` lets `tcp_output` fail after `tcp_write`.

### MeshTopology

| specification | code |
|---|---|
| `conns` | `_connections`, in order; a record has `nodeId`, `newConnection`, `station`, `subConnections` and whether `nodeSyncTask` is `due` |
| `link`, `chan` | the TCP connections, and on each the messages of either end that wait in the `SentBuffer` (`pending`) or are under way or in the peer's `ReceiveBuffer` (`transit`) |
| `aps`, `wifi` | `stationScan.aps`, and whom the station is associated with (`_station_got_ip`) |
| `newTask`, `dropTask` | `newConnectionTask` and `droppedConnectionTask`: the node in the callback they hold |
| `NodeSyncTask`, `IntervalOver` | `nodeSyncTask` and its timer |
| `HandleNodeSync` | `handleNodeSync`: the second connection refused (`AlreadyConnected`), the name learned, the loop found (`LoopDetected`), the subs stored and passed on, the reply |
| `HandleSingle`, `HandleBroadcast`, `SendSingle`, `SendBroadcast` | `handleMessage`, `sendSingle`, `broadcastMessage`; TIME_DELAY is routed as SINGLE is |
| `Close`, `OnDisconnect`, `DroppedConnectionTask` | `MeshConnection::close` and its announcement |
| `ScanComplete`, `ConnectToAP`, `AssociationFails`, `Reconfigure`, `Accept`, `LinkLost` | scan, association with `tcpConnect`, the listener, the disconnect event |

`subs` is compared in the code as a JSON text. In the model it is the list of
node and nesting depth in the order of that text, and a node is found in it as a
whole number. `stability` only weighs the probability of a reconfiguration, which
is a free choice here. A message may be discarded for lack of memory wherever it
is sent; discarded messages, failing associations and lost links count as faults.

### MeshTopologyV063

State, links and messages are those of `MeshTopology` (`V102`), with `later`, the
connections whose `nodeSyncTask` is delayed by 100 ms. `V102!Op` is used wherever
the code is the same. What differs is defined anew: `HandleNodeSync` (`Superseded`:
the older connection to the same node is closed; `OutOfDate`: a node found behind an older
connection makes its subs out of date), a new connection that starts with no subs rather than
`"[]"`, `NewConnectionTask`, which delays the others, and `ReadBufferTask`, which
takes a message off the queue after `HandleMessage`.

### TimeSync

| specification | code |
|---|---|
| `clock` | `timeAdjuster` and what the hardware started at. Real time is no part of the state: a stamp is the clock it was read from, and the time under way is added when the message is handled. Only the measurement of a delay knows the real time it began at (one of `Moments`), since there it matters whether a clock reads 0 |
| `task` | `timeSyncTask` of each connection: due, after the 200 ms of a retry, or after 10 s or 1 min |
| `wire` | TIME_SYNC messages between neighbours |
| `subs`, `SubLength`, `Adopts` | the length of `subConnections`, and `adoptionCalc` |
| `Offset`, `Adjustment`, `Adjusted`, `DelayCalc` | `calcAdjustment`, `delayCalc`: signed halves of differences modulo `W`; `delayCalc` answers -1 when one of its four stamps is 0 |
| `TimeSyncTask`, `HandleSyncRequest`, `HandleRequest`, `HandleResponse`, `AfterResponse`, `Retry` | `startTimeSync`, `handleTimeSync` |
| `StartDelayMeas`, `AnswerDelayMeas`, `NodeDelayReceived` | `startDelayMeas`, `handleTimeDelay` |
| `crossed`, `probe` | history: exchanges during which the clock that began them moved; the measurement, with what its messages took, what the clock was adjusted by meanwhile (`shift`) and whether a clock read 0 (`zero`) |

### TcpClient

| specification | code |
|---|---|
| `queue`, `Post`, `Unblock` | `_tcp_queue`, `xQueueSend` with `portMAX_DELAY` in `_tcp_poll`, `_tcp_recv`, `_tcp_sent` and `_tcp_error`, on the thread of lwIP |
| `pc["svc"]`, `ServiceTask` | `_tcp_service_task` and the handlers `_recv`, `_sent`, `_poll`, `_error` |
| `pc["loop"]`, `Connect`, `Write`, `Close`, `Ack`, `CloseNow` | the application in the main loop |
| `Serve...` | an API call served by the lwIP thread (`tcpip_api_call`), for which the caller waits |
| `StartClose`, `Unhook`, `Unhooked`, `ServeClose`, `Abort`, `Discard` | `_close` and `abort`, cut where another thread can come between; both threads may be in it at once (`met`) |
| `closing`, `Free` | a pcb that `tcp_close` has been called for: lwIP keeps it until the other end has answered, and answers `ERR_OK` to a second `tcp_close` |
| `rx_ack_len`, `Acks`, `Acked`, `Store` | `_rx_ack_len`: a subtraction or an addition is a load in one step and a store in another, on the loop and on the service task. Nothing initialises it: it starts as any of `Garbage` |
| `Silence`, `AckOverdue` | the two timeouts that `_poll` looks at |
| `has`, `hooks`, `fault` | `_pcb`, the callbacks registered with lwIP, a use of a null pcb, or of one that lwIP has freed, after which the program does nothing more |

### StationScan

| specification | code |
|---|---|
| `task` | the one `task`: its callback, whether it is enabled, how long it is delayed |
| `StationScan`, `FilterAPs`, `Sort`, `ConnectToAP` | the callbacks it takes by turns |
| `ScanComplete`, `StaStart`, `Disconnected`, `GotIp` | the cases of `espWifiEventCb` |
| `conns`, `OnConnect`, `OnError`, `OnDisconnect`, `NodeSynced` | TCP connections of the station, up to the first NODE_SYNC |
| `radio`, `scan`, `events`, `Associate`, `Address`, `LinkLost`, `ScanDone` | the driver (`Raise` and `Idle` are what the shim does on the ESP8266) |
| `reach` | nodes behind other connections, which `filterAPs` leaves out |
| `StationManual`, `Stop` | the calls of that name |

### BridgeServer

| specification | code |
|---|---|
| `kind` | `c-server.c`, `_testMPc-server.c` or `sockets.js` |
| `sock`, `Read`, `Data` | the stream, read up to `recv_Size` or as it comes |
| `recv_Size`, `Excess`, `Overbound`, `Balanced`, `Resized` | `recive_message`; `recv_Size` grows without a bound |
| `BufSize`, `Overruns` | `client_message[1000]`, and a read beyond it, after which (`"overrun"`) the program does nothing that is known |
| `sub`, `CheckList`, `ListAfterC`, `RegisterMP`, `Int32` | the list of nodes, ids as `json_object_get_int` returns them |
| `Answers`, `AnswerJS`, `todo`, `Transmit` | what is sent back for a message |
| `Accept`, `SocketRestart`, `Failed`, `RoundOver`, `TimeoutRecv` | `accept`, the restart, the retries, the twenty rounds |
| `Hears`, `StringEnds` | the node: what comes up to a NUL is one string, of which it parses the first object |

A character stands for 18 bytes of text; braces and NULs keep their place.

## 4. Runs

| run | instance | shows |
|---|---|---|
| `link` | one thread; a message of two characters and one of one, one priority message, the tick; buffer 3, socket 4, queue 2, one failing write | strings whole (`WholeMessages`), order (`OrderKept`), exactly once while both ends are open (`ExactlyOnce`), list operations defined, `IInv`, the refinement `ChannelSpec`, and `EventuallyHandled` |
| `topo_pair` | A and B in range of each other; A opens one connection, B two; one fault | `OnePerNeighbour`, `Converges` |
| `topo_ring` | A sees B, B sees C, C sees A; no faults | `NoGhosts`, `Converges` |
| `topo_route` | B may connect to A or to C, and C to B, so that B and C may close a cycle of two; a SINGLE from A to C and a BROADCAST of C, messages may wait for the socket | `BroadcastOnce`, `SingleArrives` |
| `time` | a line of four whose halves are 11 apart, accuracy 6, and a pair, words of 40 values; one message lost or one stamp 0, one slow message, one measurement, begun at one of three moments, chosen so that the first, the second or the fourth stamp may be 0 or not | `QuietAgrees`, `DelayReal`, `WaveEnds`, `Converges` |
| `tcp` | two segments, a queue of two events, one write, one failing call; four kinds of application, `_rx_ack_len` one too large at the start | `DataInOrder`, `WindowKept`, `ToldOnce`, `CloseCarriedOut`, `EndTold` |
| `tcp_stuck` | three segments, an application that only receives | violated: lwIP and the service task wait for each other |
| `bridge` | each server; the node and one behind it, four choices of what is sent, one lost node | `WholeOnly`, `ListOnce`, `NamedFirst`, `ComesBack` |
| `scan` | both chips; two access points of the mesh and one router, two faults, `stationManual` with a port or 0, `stop` | `AddressKnown`, `LooksAgain`, `Rejoins` |
| `scan_stop` | the same with one fault | violated: a connection is opened after `stop` |
| `v063_pair` | as `topo_pair`, one connection of each, v0.6.3 | `OnePerNeighbour`, `HandledKept`, `Converges` |
| `v063_route` | as `topo_route`, no faults, v0.6.3 | `ToldToAll` |

`link`, `topo_pair`, `time`, `tcp`, `bridge` and `scan` also check the type
invariant of their module; the state of the mesh of v0.6.3 is that of `topo_pair`.

The following configurations are kept beside them. TLC finds the property named
violated in each; section 6 says what that means.

| configuration | property | instance |
|---|---|---|
| `link_v063.cfg` | `WholeMessages` | as v0.6.3 queues |
| `link_two_tasks.cfg` | `WholeMessages` | callbacks on a thread of their own |
| `link_output_fails.cfg` | `WholeMessages` | `tcp_output` may fail |
| `topo_echo.cfg` | `NoEcho` | A and B connect to each other, A broadcasts |
| `topo_announce.cfg` | `NewConnectionsAnnounced` | B and C connect to A |
| `topo_change.cfg` | `ChangesSignalled` | the same |
| `topo_ghost.cfg` | `NoGhosts` | B connects to A and C to B; one fault |
| `time_stale.cfg` | `QuietAgrees` | the line of `time` with views that are still empty |
| `tcp_late.cfg` | `NothingLate` | as `tcp`, `_rx_ack_len` 0 at the start |
| `tcp_window.cfg` | `KeptBack` | an application that acknowledges later, on the loop |
| `tcp_twice.cfg` | `ToldOnceByAll` | an application that calls `close(true)` on the loop |
| `bridge_overrun.cfg` | `InBuffer` | as `bridge` |
| `scan_manual.cfg` | `ManualConnects` | `stationManual` while the station has an address |
| `v063_stale.cfg` | `OnePerNeighbour` | v0.6.3, a node moves from one access point to the next and comes back |

Why the bounds are enough for what the runs are about:

* The link: three bytes of buffer make a message of two characters and its NUL
  need two reads (`requestLength` leaves a byte free), a socket of four makes
  short writes, a queue of two lets a priority message go in front of, or behind,
  a message that has partly left with another one waiting. One thread writes the
  whole connection, so two directions add nothing but the shared buffer, which
  `ReuseSharedBuffer` stands for.
* The pair: three connections are the two that cross and the one that a station
  opens while its old one waits for the timeout.
* The ring: three nodes are the shortest cycle in which no node sees the other
  two as direct neighbours of the same connection; the cycle of two is the pair.
* The route: three nodes have one that forwards. A alone is in range of B, and B
  and C of each other, so that every tree of connections between the three that
  has B in the middle occurs, and the cycle of two as well. In it a broadcast does
  return: `BroadcastOnce` without its condition is violated in this very
  instance.
* Seconds against milliseconds: `IntervalOver`, and a scan by a node that has a
  connection, happen when nothing else is under way (`Calm`). `nodeSyncTask` runs
  every 5 s or 20 s and such a scan 40 s or more after the last. A lost link that
  nobody has noticed is not "under way": both happen during that time.
* `newConnectionTask` and `droppedConnectionTask` run before the pass of the loop
  that enabled them is over. Until then the other nodes do not move (`Turn`):
  their steps reach this node before or after.
* Each station opens at most `MaxLinks` connections. `Converges` thus speaks of a
  mesh in which changes come to an end, as it must.
* v0.6.3: its 100 ms pass only when every NODE_SYNC that was sent has been
  handled (`SyncHandled`). Without this bound two nodes that have two connections
  at once keep telling each other subs in which each is nested in the other, one
  level deeper every time, until one of the connections is closed. A broadcast
  circulates in the same way; `v063_route` has no pair of connections.
* Time: clocks are 40 values, of which half is more than three times the
  accuracy, so that differences wrap and those that are half of the range apart
  occur. Four nodes are the shortest line in which both middle nodes have a
  neighbour to bring forward, and a draw between lengths occurs. The time of
  messages is one or two units against an accuracy of six, as some milliseconds
  are to it in the code. `Interval` comes when nothing else is going on: 10 s or a minute against
  exchanges of milliseconds.
* The TCP client: two events of 32 are enough for a full queue with the client's
  handler waiting; lengths above add no order of events. Four kinds of
  application keep what is independent apart: one that acknowledges in its
  callback and on the loop and closes at the next poll, one that writes and
  closes, one that closes and is reset, and one that connects, closes at once and
  is reset. `_rx_ack_len` starts at 1, where `ack` and `close` acknowledge what was
  not kept back; the theorem is for every value. `ackLater`, which the mesh never
  calls, is left to `tcp_window.cfg`.
* The bridge: `recv_Size` in steps of about 18 bytes. It has no bound; a read with
  more than `BufSize` writes or reads beyond `client_message`, and the run ends
  there. Three steps above the start are enough to read every message that was cut
  and to go beyond the array.
  Two messages unread are enough to cut one off and to read one and a half.
  Ids above `INT32_MAX` are one value, as `json_object_get_int` makes of them.
* The station: two access points leave one to go on with; two events and two
  connections are one old and one new of each. Delays keep their order, not
  their length.
* Every property of a run has been seen violated by a mutation of the code in
  the very same instance; the mutants are the definitions behind the original in each
  module, and PROJECT.json lists them.

## 5. Fairness

* `MeshLink`: every thread in `writeNext` goes on, TCP delivers and acknowledges,
  `readBufferTask` and `nodeSyncTask` run again and again. The scheduler executes
  all its tasks in every pass, and the last two are `TASK_FOREVER`. A write need
  not succeed: `MaxFail` bounds how often it fails.
* `MeshTopology`: as long as there is anything for the loops to do, something is
  done; what is closed or lost is noticed at the other end
  (`setRxTimeout(NODE_TIMEOUT)`); the interval of each station connection passes
  again and again, which is strong fairness because other activity may come
  first. No connection, scan or message of an application is assumed.
* `MeshTopologyV063`: as `MeshTopology`; the 100 ms and the period pass.
* `TimeSync`: messages arrive and what is due runs; the interval of every
  connection passes again and again (`TASK_FOREVER`), with strong fairness since
  it passes only when nothing else goes on; NODE_SYNC comes again and again. A
  message that is lost is a bounded fault.
* `TcpClient`: each of the three threads runs, and lwIP polls again and again.
  Nothing has to arrive and the application need do nothing. `EndTold` and
  `CloseCarriedOut` except the state of `tcp_stuck`, which nothing leaves, and a
  program that has used a null or freed pcb.
* `StationScan`: the scheduler runs what is due, events are handled, scans,
  associations and connections come to an end. Access points of other nodes come
  and go boundedly often.
* `BridgeServer`: both programs go on and the node tries again. How much a read
  returns is left open: no message need ever be read alone. Strong fairness only
  that some connection is accepted before the node gives it up: the ten seconds of
  the restart and `NODE_TIMEOUT` start at different times.

## 6. What the runs found

* v0.6.3 pushes a priority message in front of a message that has partly left
  (`MM/painlessMeshConnection.cpp:82`). v1.0.2 has the flag `clean` for it, and
  with the flag all properties of the link hold on one thread.
* On the service task of `painlessTCP.cpp` the one static buffer has two writers.
* `TCPClient::write` answers 0 when `send` fails after `add` succeeded
  (`MM/painlessTCP.cpp:679`); the caller sends the bytes again.
* `broadcastMessage` leaves out connections by name. While two nodes have two
  connections and one end has no name yet, the sender gets its own broadcast
  (`PM/painlessMeshConnection.cpp:598`), against `src/Painless_Mesh/README.md:143`.
* There is one `newConnectionTask` for all connections (`PM/painlessMeshSync.cpp:144`),
  so that one of two callbacks is lost, against `README.md:103`.
* `"[]"` means both "no subs yet" and "no subs" (`PM/painlessMeshSync.cpp:182`):
  a node that joins alone is no change, against `README.md:111`, and the rest of
  the mesh hears of it only with the next period. That it does hear of it is
  `Converges`; that loss, unlike joining, is passed on at once is `NoGhosts`.
* `syncSubConnections` passes over a connection that has no name yet
  (`PM/painlessMeshSync.cpp:392`). B has sent A a request that lists C, and C goes
  while A has not answered: B tells nobody, A then reads the request and lists C
  behind B until the next period (`topo_ghost.cfg`). So `NoGhosts` holds where
  every connection has its name when another one is lost, as in `topo_ring`, and
  `Converges` says that the rest is repaired.
* The callbacks of lwIP wait for room in the event queue on lwIP's own thread,
  and the service task waits for that thread in most of its handlers
  (`MM/painlessTCP.cpp:160`): with 32 events waiting everything stops, for all
  connections (`tcp_stuck`).
* `_poll` closes a connection that has been silent although its data waits in the
  queue behind the poll event; the data is then given to an application that has
  been told of the end (`MM/painlessTCP.cpp:577`, `NothingLate`). Data stays in
  order.
* `_close` and `_error` test `_pcb` and null it in steps that the loop and the
  service task may take at the same time. lwIP answers `ERR_OK` to `tcp_close` of a
  connection that is closing, so both go on to `_discard_cb`: the application is
  told twice (`MM/painlessTCP.cpp:482`, `tcp_twice.cfg`). `ToldOnce` says that this
  needs the two threads in `_close` together, and that nothing else does it.
* `_rx_ack_len` is changed without protection on both threads
  (`MM/painlessTCP.cpp:545` and `728`), and nothing initialises it. With
  `ackLater` an addition of `_recv` between the load and the store of `ack` is
  lost, and with it a part of the window (`tcp_window.cfg`). The mesh calls `ack` in
  its callback and leaves `_ack_pcb` set, so that `_recv` acknowledges everything
  once more: there the window is never lost, whatever the count holds
  (`WindowKept`).
* A clock that reads 0 when it is sent or received makes `delayCalc` report -1 for a
  measurement in which nothing went wrong (`PM/painlessMeshSync.cpp:103`). That it
  does so in this case only is part of `DelayReal`.
* After `stop()` the event callback is still registered, and the shim's
  `esp_wifi_stop` does nothing on the ESP8266: the disconnect event associates with
  the next access point and opens a connection (`PM/painlessMeshConnection.cpp:632`,
  against `PM/painlessMesh.h:96`, `scan_stop`).
* `stationManual` with port 0, called while the station has an address of the mesh
  but no TCP connection yet: `tcpConnect` then opens none, and `connectToAP` leaves
  an access point only by closing the station's connection
  (`PM/painlessMeshSTA.cpp:221`). It scans for ever and never joins the router
  (`scan_manual.cfg`, against "Connects the node to an AP outside the mesh.",
  `src/Painless_Mesh/README.md:179`).
* While the nodes' views of the mesh are still empty the same two neighbours may
  adopt in either direction. C answers D with its old time and then adopts B's; in
  the next exchange it is B that asks C, finds no difference and brings its own
  connections forward, and nobody brings forward those of C. D stays apart until
  the next interval (`PM/painlessMeshSync.cpp:304`, `time_stale.cfg`).
  An exchange during which the clock that began it moves has the same effect;
  `QuietAgrees` excepts it, and `Converges` says that it is repaired.
  Clocks half of the range apart stay so: the two halves of the offset cancel.
* In v0.6.3 a node may keep two connections to the same neighbour once there is a
  third node. `findConnection` returns the first connection that is named after
  the neighbour or lists it behind it; if an older connection still lists it, only
  that one is made out of date, and the connection the neighbour has left stays
  until it times out (`MM/painlessMeshSync.cpp:131`,
  `MM/painlessMeshConnection.cpp:411`, `v063_stale.cfg`). Between two nodes it
  cannot happen (`v063_pair`), and with
  any number it takes a connection to a third node that lists the neighbour
  (`V063DoubledWhereListed`).
* v0.6.3 converges without loop detection where there are no loops; between two
  nodes with two connections its messages feed each other until one is closed.
* What the C servers make of ids above `INT32_MAX` is one entry for all of them;
  `sub[10]` is not bounded (`src/c-server.c:143`). A stream cut between objects is
  misread as too small, and the bytes are lost, but never misread as a message.
* Each such read makes `recv_Size` larger. Nothing bounds it, and nothing makes it
  smaller but an object that is whole and followed by the beginning of another: it
  grows beyond `client_message[1000]`, which `recv` then writes past and the loop
  over the braces reads past (`src/c-server.c:340`, `366`, `384`,
  `bridge_overrun.cfg`).

## 7. What is proved

Every theorem holds for every value of the constants that the named ASSUMEs of the
module allow; TLC evaluates them in every run. They say of the constants what
their types are, that what the program takes for different is different (`None`
is no node), that sizes are not zero, and what is finite. Where a theorem
needs more of the build it says so as an assumption of its own. Each inductive
invariant was also checked by TLC on the instances of section 4.

### The link

* `TypeCorrect` (`MeshLink_proofs`): `[]TypeOK`, on one thread or two. In
  particular `requestLength` leaves room for the NUL, and what is left of a
  queued string never loses its own.
* `StreamCorrect`, `MessagesWhole`, `ListOpsSafe`:
  `IInv`, `WholeMessages` and `ListOpsDefined` are invariants, assuming `Sound`:
  callbacks on the one thread, the `clean` flag, and a failing write that takes
  nothing. Each of the three configurations `link_v063`, `link_two_tasks` and
  `link_output_fails` drops one of these assumptions, so none can be left out.
* `KeepsPromise`, `OrderIsKept`, `EachOnce`, assuming
  `Sound`: the link implements `MessageChannel` (`ChannelSpec`), `OrderKept` and
  `ExactlyOnce` are invariants.

`WholeMessages` alone is not inductive: whether the
next string is whole depends on the bytes still on the wire and on where the
queue goes on. The strengthening says: `QueueInv`, only the front of the queue
can have partly left and `clean` tells; `WriterInv`, between its steps
`writeNext` still means the front it read and the buffer holds its bytes;
`StreamInv`, the bytes from the receiver's buffer to the end of the wire are
contiguous within a message, start afresh behind a NUL, and end where the queue
goes on (`Boundary`). Each action keeps each part; appending to the stream and
cutting a string off its front are lemmas of their own.

The refinement maps the queue behind what has started to `pending`, the messages
that have started to `transit`, and the strings received to `received`. Every
action is then one step of the channel or none (`ChannelStep`). The order follows
from the channel: the messages of one kind in the three parts, taken one after
the other, are those accepted, in that order (`Kept`), and a step moves one of
them over the boundary between two parts.

### The TCP client

`ClientTypes`, `ClientInOrder`, `ClientToldOnce` and `ClientWindowKept`
(`TcpClient_proofs`) from the invariant of `ClientCorrect`, for every set of
applications and every value `_rx_ack_len` may start with. The invariant is that of
a running program or of one that a bad access has stopped (`Dead`). While it runs:

* each thread is where its calls can leave it (`Types`); between the load and the
  store of `_rx_ack_len` it holds a count of its own (`Counting`), and the service
  task still owes the acknowledgement of the segment it has taken (`Resumes`);
* a thread that closes has taken the callbacks away, and nothing is posted before
  they are set (`Control`);
* an error is under way at most once, and only for an end nobody has told; as long
  as the two threads have not been in `_close` together, a thread that is in it
  still has `_pcb`, unless an error came in between (`Told`). That condition is in
  the property because the code needs it: `tcp_twice.cfg` shows the two threads
  telling twice;
* the queue together with the event that waits for room in it is one line, in
  which the segments follow those delivered (`Line`). The queue alone would not
  do: which of the two an event is in depends on the length of the queue;
* what lwIP has not had acknowledged is in that line or with the service task
  (`Balance`). The count does not appear in it: what `ack` and `close` acknowledge
  is too much at most, and lwIP caps the window.

### The station

`StationTypes`, `StationKnows`, `StationAwake` (`StationScan_proofs`). Whether the
flag and the radio agree depends on events that have not been handled, so the
invariant is about their order: behind a `DISCONNECTED` that is out of date there
is a `GOT_IP`, and the reverse (`Ordered`). The task may sleep only while
something is on its way that will wake it (`Woken`).

### The bridge servers

`BridgeTypes`, `BridgeTakesWhole`, `BridgeListsOnce`, `BridgeNamesFirst`
(`BridgeServer_proofs`), for all three programs. What has not been read of a
connection, including those that wait for `accept`, is whole messages but for the
front of the first (`Stream`); so a balanced piece of it that starts with a brace
is a message. `recv_Size` is a number of steps above where it starts, whatever it
grows to; a server that has read beyond its array is taken no further, and nothing
is said of it. Until the node has its first string, the answer to its
NODE_SYNC is the next thing to be sent, and it is sent with a NUL (`Named`).

### The mesh

`MeshTypes`, `MeshOnePerNeighbour` and `MeshNamesRight` (`MeshTopology_proofs`),
for every set of nodes. A connection is
named by the first message it hears if no other has that name, but the name is
written to the entry of its link. So the list must have one entry for a link
(`OneForLink`), which needs that no link is opened or accepted a second time:
nobody has an entry for a link that is not opened, and the access point none for
one that is not accepted (`Opened`), where a station never connects to itself
(`Leads`, `n \notin aps[n]`). An entry is new exactly when it has no name
(`NewUnnamed`): this is why an entry that is not new keeps the name it was looked
up with.

`MeshBroadcastTrees` and `MeshBroadcastOnce` hold for every finite set of nodes and
every range: any node may see and choose any access point, and two may connect to
each other. The condition is on what has happened, and part of the property: the
connections that were opened make no cycle (`Forest`), that is in every set of nodes
there are fewer of them than nodes, and none has broken. `topo_echo` is a cycle of
two, where the broadcast does come back, so the condition cannot be dropped; with
`Edges` growing a state that satisfies it has satisfied it all along
(`ForestBefore`). The theorem is about the time before
names are known: `broadcastMessage` leaves out the connection a message came on
by its name, so it does not by itself say where a copy may go. The invariant
`BInv` does, until a link breaks: the nodes a broadcast has been to
(`Seen`) are joined by one link fewer than they are (`Connected`), and each copy
is on a link that leads from one of them to one that it has not been to
(`Ahead`), where it is once. A second link between a new node and the tree would
close a cycle, and `Forest` would be over. That a link is in the lists of its own
two nodes only, and that nothing is on a link before it is opened is the other half
(`WInv`).

### The mesh of v0.6.3

`V063HandledKept` and `V063DoubledWhereListed` (`MeshTopologyV063_proofs`), from the
invariant of `V063Correct`: that of `MeshTopology` (`IInv`), although nearly every
operation differs, and that what is delayed is delayed for a connection in the
list (`LaterOK`). The module takes `MeshTopology_proofs` as an instance and first
shows that what v0.6.3 shares with v1.0.2 is the same operator there, so that
the lemmas about `Close`, sending and the lists are used again.

`HandledKept` holds for every set of nodes: a connection is replaced by name, and
only when the one the message came on does not have that name; they are then
different entries, and so on different links (`OneForLink`).
`droppedConnectionTask` and `newConnectionTask` run later. Without it
`readBufferTask` would take a message off a queue that `close` has cleared.

With a third node `OnePerNeighbour` is false (`v063_stale.cfg`, section 6).
`V063DoubledWhereListed` says, for any nodes, how it becomes false: a node with
one connection to each neighbour gets a second one to a neighbour only while its
connection to another node lists that neighbour (`DoubledWhereListed`). Where none
does, `findConnection`, which passes over connections without a name, finds the one
connection with this name; that one is closed, and the new one takes the name
(`OneLeft`). Nothing else doubles a connection in any list: the lemmas of
`MeshTopology_proofs` say so node by node (`Kept`). Between two nodes there is no
third to list anybody, so `OnePerNeighbour` follows for them; `v063_pair` checks it.
The theorem has no run of its own among those of section 4.

### Time synchronisation

`TimeTypes` and `TimeDelayReal` (`TimeSync_proofs`), from the invariant of
`TimeCorrect`: each stamp of the measurement is what its clock read at that real
time, up to what the clock that began has been moved by since (`Probed`). Every
stamp is a clock, and every clock a word that runs or has been moved by a word, so
all that counts is that the remainder may be taken before or after a sum
(`WordSum`): the offset of the two clocks cancels in `delayCalc` whatever it is and
wherever they wrap, as long as a round trip is less than their range
(`TimeAssumption`). There is no condition on the stamps or on the clocks: what
`delayCalc` does with a stamp of 0, and what an adjustment meanwhile adds, is in the
statement. That
`SubLength` is a number is shown by the size of the set it sums over.

### How the models were written for it

The provers cannot expand the recursion of `SelectSeq`; `close` takes a connection
out of a list with `Only` of `SeqFilter` instead, which says the same with the
number of earlier members. `FlattenSeq`, in `SubConnections`, is a recursive
function: that it keeps types is shown with the least position at which it would
not.

### What is only model-checked

* All liveness, which needs ENABLED: `EventuallyHandled`, `Converges`,
  `SingleArrives`, `WaveEnds`, `CloseCarriedOut`, `EndTold`, `ComesBack`, `Rejoins`.
* `NoGhosts`: it is not true of every instance (`topo_ghost.cfg`), and depends on
  what is under way in the whole mesh. `topo_ring` checks it where a ring closes
  while all messages may cross.
* `QuietAgrees` of `TimeSync`: it holds only of views that agree with the mesh
  (`time_stale.cfg`), and needs what is under way between a node and each of its
  neighbours together with the history of their waves. An invariant for every
  shape of the mesh is not known to us.
* `ToldToAll` of v0.6.3, for the same reason: which announcements still have to
  come, for every shape of the mesh.
* `OnePerNeighbour` of v0.6.3, between two nodes; for three it is false.
* `FlattenSeq` and the nesting of `subConnectionJson`: what a recursive definition
  computes for every list needs an induction over data that the provers cannot do;
  only its type is proved.

## 8. What is not modelled

* `TCPServer::begin` and `end`, the resolution of names and the accessors of
  `painlessTCP.cpp`; more than one client on the event queue, which would only
  fill it faster.
* `init()` beyond the state it leaves: it configures the hardware.
* The station: a scan that cannot be started, `esp_wifi_get_config` failing, two
  threads on `aps` (the events of an ESP32 come on a task of their own), the
  value of `stability` and the strength of signals, which only weigh choices.
* v0.6.3: its time synchronisation and its station, which are those of v1.0.2 but
  for details of the requests.
* `src/Newc-server.c` does not compile. Sketches and examples hold no state of
  their own worth a model. Debug output is formatting, and the rest of
  `espInterface.cpp` one-to-one wrappers. `TaskScheduler.cpp` includes a library
  that is not in the repository; it appears as the tasks it runs.
* Text: JSON is parsed and printed by ArduinoJson, also not in the repository.
  `stringContainsNumber` looks one character too far behind the number
  (`PM/painlessMeshConnection.cpp:399`), which matters only if one id is a prefix
  of another; the model has it find whole numbers.
* Memory: a heap that is exhausted shows as a discarded message, nothing else. A
  write outside an array (`PM/painlessMeshConnection.cpp:32`, `src/c-server.c:143`)
  has no effect, but for `client_message`, where the program is taken no further.
* `BridgeServer` makes no claim that a server goes on understanding its node: a
  stream that is always cut badly never lets it, and the reads end beyond the array.
* Several sockets of `sockets.js`: the mesh has one bridge, and nothing comes
  between setting `sendBack` and reading it within one handler.
