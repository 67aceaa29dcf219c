# Specifications of ble_sensors

TLA+ models of the system in `src/`, the TLC configurations that check them and
TLAPS proofs about them. The system reads four sensors over Bluetooth LE
(edge devices), gathers the values in a hub, serves them over UDP and shows them
on a web page (client application).

## The system

| component | state it keeps | operations | talks to |
|---|---|---|---|
| connection manager (`ble_conn_manager.c`, `ble_conn_manager_context.c`) | flags `scanning`, `opening`, `closing`; cursor `curr_prf_idx`; per application `target_remote->found`, `gattc_if`, `virt_conn_id`, `target_service` | one callback for GATTC events, one for GAP events, `ble_conn_mngr_start`, `ble_conn_mngr_close` | the Bluetooth stack (calls, events), the two functors (callbacks) |
| sensors reader (`ble_sensors_reader.c`) | per sensor `found` and `polled` | the GATTC functor: search complete, read, close | `ble_conn_mngr_close`, the cache, the UDP server |
| `app_main.c` | the tables: remote i, application i and sensor i belong together | the GAP functor; start-up | reader, manager, UDP server |
| UDP sensor server (`udp_sensor_server.c`) | the socket, its port and its receive timeout | serve requests for a period, blocking the caller | the cache, clients |
| sensors cache, atomics | four values behind one lock | get, set | reader, UDP server |
| edge device (`gatt_server_main.c`, `adc_sensor.c`) | the attribute value, `gatts_if`, the connection | GATT server callbacks, sampling task, notify task | the hub (reads), the ADC |
| client application (Python) | four strings behind locks | UDP polling thread, HTTP handler | the UDP server, browsers |

What is hard about it. The hub has no thread and no timer of its own: "each
event performs an action that raises the next event" (README.md of the hub,
lines 9-13). So (1) a path that raises no event stops the hub for ever, (2) a
path that raises two events starts two activities on a radio that can do one,
and (3) the stack reports one physical happening several times - a broken link
by a DISCONNECT to every application and a CLOSE to one, a scan that times out
while it is being stopped by two end events - in an order the code does not
control. Three flags guard against starting two things, and every one of those
reports clears some of them. Remotes come and go meanwhile. The other components
are simpler: a blocking server with a time budget, an edge device with two tasks
and a callback that share a value without a lock, and a client on an unreliable
transport.

What makes each part correct:

- manager: one use of the radio at a time; flags that tell the truth; an event
  always to come; no connection forgotten; every found application served in
  turn; a missing remote looked for until it is back;
- reader: a cycle is published exactly when every known sensor was read since the
  last one, for ever;
- UDP server: it ends after its period whatever clients do; no socket is lost;
  an answer is the cached value of the sensor asked for;
- edge device: it is reachable whenever it is not connected and only once its
  table of attributes is final; it answers every request; readings never go back; sampling and
  notifying go on;
- client: a value shown for a sensor is one the hub served for it.

## Modules

| module | models | EXTENDS |
|---|---|---|
| `ConnContext` | `ble_conn_manager_context.c`: the table, the all-found test, the lookup by name, the round-robin choice | |
| `BleStack` | the Bluetooth stack, the radio, the remotes (external), and the registration loop of `ble_conn_mngr_start` | ConnContext |
| `SensorsReader` | `ble_sensors_reader.c` and the GAP functor of `app_main.c` | ConnContext |
| `ConnManager` | `ble_conn_manager.c`; composes the three above; `Spec`, fairness, properties | BleStack, SensorsReader |
| `HubCycle` | abstract specification: what the hub's README promises | |
| `ConnManagerInv` | the inductive invariant `RadioInv` | ConnManager |
| `ConnProgress` | the inductive invariant `ProgressInv` | ConnManagerInv |
| `ConnQueue` | the inductive invariant `QueueInv` | ConnProgress |
| `MCConnManager` | fault sets for TLC | ConnQueue |
| `ConnManagerProofs` | theorems: types, turns, for every N | ConnManagerInv |
| `RadioProofs` | theorems: `RadioInv` and the safety of the radio that follows | ConnManagerProofs |
| `CycleProofs` | theorem: the hub implements `HubCycle` | RadioProofs |
| `ProgressProofs` | theorems: `ProgressInv` and why the hub goes on | ConnProgress, RadioProofs |
| `QueueProofs` | theorems: `QueueInv` and the bound on the queue | ConnQueue, ProgressProofs |
| `SensorsCache` | `sensors_cache.c`, `atomic.c` | |
| `UdpServer` | `udp_sensor_server.c`, called again and again by the hub's task | SensorsCache |
| `UdpServerProofs` | theorems about the UDP server | UdpServer |
| `SensorConversions` | the arithmetic of `sensors.py`, as exact integer formulas | |
| `ClientApp` | `udp_client.py`, `http_server.py`, `atomic.py` | SensorConversions |
| `SensorService` | the hub's server, its restart, and the client with the network between them | UdpServer, ClientApp |
| `SensorServiceProofs` | theorems about server, network and client together | SensorService, UdpServerProofs |
| `EdgeDevice` | `gatt_server_main.c`, `adc_sensor.c`: callbacks, sampling task, notify task | |
| `RemoteDevice` | abstract specification: what the hub relies on in a remote; `EdgeDevice` implements it | |
| `EdgeDeviceProofs` | theorems about the edge device and the steps of its refinement | EdgeDevice |
| `MCUdpServer`, `MCSensorService` | requests, ports and faults for TLC; what the conversions mean, for all readings of twelve bits | |

### State and actions

Each callback of `ble_conn_manager.c` is one action of `ConnManager`
(`HandleReg`, `HandleOpen`, ... `HandleScanEnd`), from its first line to its
return, with the functor it calls and the requests it makes: the stack delivers
events one at a time on one task. An action consumes the head of `evq`, the
stack's queue. The guarded requests (`ble_conn_mngr_gattc_open`, `_close`,
`_start_scanning`, `_stop_scanning`) are operators over the flags at the moment
of the call, as handlers change the flags before they call. `HandleScanEnd` is
the common body of SEARCH_INQ_CMPL and SCAN_STOP_COMPLETE. `SkipEvent` is the
early return for interfaces that belong to no application.

Sets stand for the boolean fields: `found` holds the applications whose
`target_remote->found` is true, `registered` those with an interface,
`connected` those whose `virt_conn_id` is not the closed one, `service_found`
those whose service was found. The reader has a `found` of its own, here
`sensor_found`, and `polled`. `udp` tells which callback, if any, served UDP
clients in the last step.

`link`, `pend` and `scan` are the truth below the API: the state of each
connection, the procedures of a connection that will report, and whether the
radio scans. The properties compare the manager's flags with that truth.

The service found by a search, the MTU and the characteristic are reduced to
whether the step succeeds. The value read is left out: it is copied once and
nothing in the hub depends on it.

### The stack

`BleStack` is not code of this repository. What it does is taken from how the
code uses it and what its comments say of it:

- `evq` is FIFO and callbacks do not overlap;
- a GATTC procedure on a live connection of a remote in range reports once; the
  procedures of a connection that ends report nothing more;
- DISCONNECT goes to every application, with the reason (comment at
  `ble_conn_manager.c:364`); an attempt that fails is reported by an OPEN with an
  error and by DISCONNECT, in either order (comments at lines 375 and 387);
- a connection the host closes is reported by CLOSE, then DISCONNECT; one that
  breaks by DISCONNECT to all with a CLOSE for its owner in between or after;
- a scan that is stopped reports its stop; one that runs its 3 s reports
  INQ_CMPL; one that ran out and is stopped before the report is handled
  reports both;
- the scan filters no duplicates (`BLE_SCAN_DUPLICATE_DISABLE`,
  `ble_conn_manager.c:55`): each advertisement heard is a result of its own, from a
  remote or from a stranger, also while a callback keeps the task busy.

Two assumptions carry weight, and TLC refutes `OneUseOfTheRadio` without either:
the owner's CLOSE does not overtake its own DISCONNECT when a link breaks (else
CLOSE opens the next application and the late DISCONNECT clears its flag and
scans), and the registration loop ends before the first scan reports anything
(else a late REG event starts a second activity beside the first connection).
The source neither ensures nor mentions them.

`Faults` says what may go wrong in a run: a refused call, a negative result, a
departing or returning remote, a link that breaks although the remote is there.
`calm` becomes TRUE at some moment after which no fault of that kind happens any
more; liveness is claimed for runs that become calm.

### The UDP server and its clients

`UdpServer` goes through `udp_sensor_server_accept_requests` call by call: `pc`
is "loop" before the loop's test, "recv" in `recvfrom`, "handle" between a request
and its answer. `Rearm` is what both ends of a pass do: read the clock, set the
timeout to what is left. Times are in ticks, the tick counter and the 32-bit
differences wrap at `Word`. `served` is the true length of a call, unknown to the
code. `MaxBusy` bounds the ticks a pass takes besides waiting. lwIP's wait may end
a tick early: it starts somewhere within a tick. `sock` is the descriptor field,
`open` what is out of lwIP's pool. Not in the code's calls: `Tick`, and `Arrive`
for a datagram that reaches the bound socket; with no socket or a full mailbox it
is lost.

`SensorService` puts `ClientApp` at the other end. The polling thread takes a new
socket for each run and asks for one sensor at a time; an answer is stored for the
sensor asked for last. A new socket has a port no datagram in flight remembers
(`Fresh`): the operating system picks one at random out of 28 000. Values are
sample numbers, so that older and newer mean something; 0 is the reading 0 a
sensor has before its first sample. `about` in an answer is not on the wire: it
says whose value it is, for the properties. The HTTP handler makes a page row by
row, while the thread may store between two rows. `HubRestarts` takes the hub's
power away at any moment: its cache, its socket and its mailbox are gone, the
datagrams in flight and the client are not. `boot` in an answer, not on the wire
either, tells before from after. The network is taken not to duplicate (see the
end of the findings).

`SensorConversions` has the formulas of the photocell and of the temperature sensor
of `sensors.py`, which the code computes in floating-point volts, as integer
formulas of millivolts without their
denominators, so that they are exact. Three assumptions of `MCSensorService`,
evaluated over all readings of twelve bits, check them against what they are
for: the temperature is the one at which the sensor's line gives the voltage, light
is reported from 1100 mV on, and a photocell reading of 0 is the only one without a
result.

### The edge device

`EdgeDevice` has one action per event of `gatt_handler` and `gap_handler`, each
from its `case` to its `break`, except READ: its copy of the two-byte value is two
actions (`HandleReadLow`, `HandleReadHigh`), as the sampling task may store between
the bytes. A pass of `read_temp_task` is three: the reading (`Sample`, or
`SampleFails` when the ADC is not initialised or a call of its driver fails), the
test of `gatts_if` (`TestConnected`) and the store (`StoreReading`). A pass of
`notify_task` is two, its test and its call. `StartTasks` is the rest of `app_main`;
whether the tasks run before or after the registration has been handled is open.

A reading is told by how often the sensor's surroundings had changed (`now`), so
that older and newer mean something; `Placeholder` is the 0x001f before the first.
`created` holds the attributes in the stack's table. Service, characteristic and
descriptor are made one after the other, each asked for by the handler of the event
that reports the one before, and no handler looks at the status in its event. So a
creation may fail (`Reports`), those that need its handle fail as well, and the chain
goes on to advertising all the same. Each of these calls is taken to be reported by its
event, with whatever status. The central is anybody: it connects
while the device advertises, asks for a read or a write of any attribute there is, one
request at a time, and leaves or is lost at any moment, also with a request unanswered.
Advertising ends with a connection, as it does in the stack, and only the callbacks
start it again.

## Runs

The hub's instances are small: N = 2 applications (3 where a remote leaves for good,
so that two remain and their order matters), at most MaxAway remotes away at a
time, and at most MaxResults scan results in the queue. Two applications are
enough for every hazard about flags: one that is served, one whose broadcast
event is stale. In the program scan results pile up for as long as a callback serves
clients; MaxResults (4 in `hub_safety`, 3 and 2 in the runs of liveness) lets the
remotes and a stranger be reported again and again, before and after the end of a
scan, and the theorems hold for every MaxResults. Nothing else is bounded: the queue
has no limit of its own.

The UDP server runs with a period of 4 ticks, one busy tick per pass and clocks of
8: the counter wraps in some calls and not in others, and overruns are possible.
Two descriptors and a mailbox of two fill up. The service has two sensors, two
ports, two values per sensor (0 and one sample: an answer is up to date or late) and
one restart: a run and the leftovers of an earlier one, a hub and the answers of the
one before. Its hub takes no busy ticks, a period of 1 and a pool of one socket:
times matter to `udp_server` alone.

The edge device runs with three readings: the two bytes of an answer and the next
answer can all differ. Its queue holds at most three events.

| run | instance | shows |
|---|---|---|
| `hub_safety` | N = 2, every fault there is, departures, returns, breaking links, a stranger | `TypeOK`, `FlagsCoverRadio`, `OneUseOfTheRadio`, the inductive invariant `RadioInv`, `EventsFit` with its inductive invariant `QueueInv`, and that the hub implements `HubCycle` (`CycleSpec`); some of the faults stop the hub, so deadlock is not checked |
| `hub_liveness` | N = 2, all survivable faults, every remote that leaves comes back | `FlagsEnd`, `EventComing`, `NoForgottenConnection`, the inductive invariant `ProgressInv`, `EverySensorRead`, `CyclesPublished`; no deadlock |
| `hub_departure` | N = 3, one remote may leave for good | `SurvivorsRead`, `KeepsScanning`, `FoundGetTurns`, `TurnComesNearer` |
| `udp_server` | every call may fail | `TypeOK`, `TimeInv`, `EndsInTime`, `SocketsBalanced`, `ServesWholePeriod`, `Returns`; no deadlock |
| `service` | two sensors, two ports, one restart; bind, a receive, a send and a client's socket may fail | `ServiceTypeOK`, `RightSensor`, `OneExchange`, `AgesOrdered`, `NeverOlder`; no deadlock |
| `edge_device` | three readings, both kinds of ADC failure, any attribute that is not created | `EdgeTypeOK`, `InterfaceMatches`, `TableFinal`, `AnswersNeverOlder`, `Published`, `Notified`, and that the device implements `RemoteDevice` (`RemoteSpec`); no deadlock |
| `sockets_lost`, `page_fails`, `edge_stale` | one kind of fault, or none | findings |
| `first_cycle`, `functor_not_idle`, `departed_device` | N = 2, at most one kind of fault | the findings below: TLC refutes one property each |

The survivable faults are those after which a handler has a way on: refusals of
stop, MTU, search, attribute lookup and read, bad status of MTU and read. With a
refused open, close or scan, a failed registration, a missing service or a scan
that does not start, `EventComing`, `FlagsEnd` and `NoForgottenConnection` fail:
the code logs these and tries nothing else (see the end of the findings).
`hub_safety` has them all.

### The properties

- `FlagsCoverRadio`: while the radio scans, opens or closes, the matching flag is
  set, so no stale event cleared it early. `FlagsEnd`: a flag that is set has its
  procedure running or its last event queued.
- `OneUseOfTheRadio`: at most one connection, no scan during it.
- `EventsFit`: while a callback serves clients for ten seconds events pile up. Scan
  results do so without a limit, but of all others at most 2 N + 3 wait, the reports of
  a connection that ended and of one opened and lost meanwhile; and while there is a
  connection at most N + 2 events wait, so that all results were handled before it was
  attempted. `QueueInv` is its inductive invariant.
- `EventComing`: an event is queued or something runs that ends in one.
  `NoForgottenConnection`: a connection that is up has an event of its own to come.
  `ProgressInv` is the inductive invariant of the three.
- `CycleSpec`: refinement of `HubCycle`. The radio goes from one use to another
  only through idleness, a sensor is read over its own connection (or after it
  broke, from the queue), and fresh values are published only when every known
  sensor was read since the last time and no connection waits.
- `EverySensorRead`, `CyclesPublished`, `SurvivorsRead`, `KeepsScanning`,
  `FoundGetTurns`: see their comments in `ConnManager`.
- `TurnComesNearer`: each attempt to connect, and each move of the cursor without one,
  brings the turn of every other known application nearer, so that none is passed over
  however the set of known remotes changes. It does not say that a turn is used: an
  attempt may be refused, or lost to a scan that ended twice (see the findings).
- `EndsInTime`, `ServesWholePeriod`: a call is neither longer than its period and
  two passes nor shorter than its period, unless a receive or a send failed.
  `Returns`: it ends even if requests never stop. `SocketsBalanced`: every way out
  gives the socket back, so that only failed binds (`lost`) keep one. `TimeInv` is
  the inductive invariant of the first two.
- `RightSensor`, `NeverOlder`: a value shown is that of its sensor, and a late
  answer never replaces a newer one, not even one from before a restart of the hub.
  Nothing in an answer says so; it follows from one request at a time per socket and
  one socket per run (`OneExchange`), and from what is shown, what is under way and
  what the hub holds being ordered by age (`AgesOrdered`).
- `InterfaceMatches`: `gatts_if`, tested by two other tasks, says whether a central is
  linked, up to the events not yet handled. `TableFinal`: no central
  finds a table that still grows. That the table is complete is not claimed: a device
  whose attributes were not created advertises as well (see the findings).
- `AnswersNeverOlder`: neither byte of a reading ever goes back, from one answer to
  the next. An answer may mix two readings (see the findings).
- `Published`, `Notified`: while a central stays, the attribute comes to hold what is
  measured, and, if it was created, it is notified again and again, although readings
  fail.
- `RemoteSpec`: refinement of `RemoteDevice`. The device advertises again after every
  connection, however it ended, and answers every request of a central that stays.

### Fairness

`WF(Callback)`: the Bluetooth task drains its queue. `WF` of the registration
loop: the main task runs. `WF(ScanTimeout)`: a scan lasts 3 s. `WF(LinkStep(i))`:
the stack ends what it was asked to do. `SF(Advertise(i))`: a remote that
advertises is heard if the hub scans again and again - strong, as the scan that
could hear it is over before it must. `WF(Calm)`: faults end.
`FairSpecReturning` adds that a remote that left comes back. Nothing is assumed
of departures, faults or the results of calls.

UDP server: `WF(InCall)`, the task runs; `SF(Tick)`, time goes on although requests
keep the task from waiting; `SF(Accept)`, used by `sockets_lost` alone: the hub
serves again and again (`CyclesPublished`) and bind does not fail whenever it is
tried. Nothing is assumed of the network or of the client.

Edge device: `WF` of the Bluetooth task and of each step of the two others, which
sleep for one or two seconds and are then ready; `SF(Sample)`: a reading succeeds
again and again, if the sensor was initialised. Nothing is assumed of the central.

## Findings

- `first_cycle`: the reader tests its own sticky `found`, set by the first read
  of a sensor, instead of the manager's. The first cycle is published after one
  sensor (or none, when the first read fails).
- `functor_not_idle`: a scan that ends twice opens an application at its first
  end and, the second time, takes the refusal "already opening" for "nothing to
  run" and serves UDP clients for ten seconds in the middle of the connection.
  The cursor has moved on as well: an application misses its turn.
- `departed_device`: the known bug of README.md line 99. The reader never
  forgets a sensor, so after a departure no cycle completes.
- `sockets_lost`: a failed bind does not close the socket; ten of them and the hub
  never serves again.
- `page_fails`: a photocell that was not read yet is served as 0, and the page
  divides by it. The hub serves before it has read every sensor (see
  `first_cycle`, and the GAP functor does so on purpose).
- `edge_stale`: readings taken while no central is connected are dropped. The hub
  connects, reads and leaves, so it gets the reading stored in its last visit, if
  there was one, and 0x001f, which means 31 mV, if there was none. The sampling task
  needs up to two seconds of connection to make it good (`Published`).

Seen while modelling, without a run of their own (the first three are against README.md
of the hub, lines 9-13, by which each event "performs an action that raises the next
event"):

- a search that does not find the service returns without a close
  (`ble_conn_manager.c:258`): the connection stays, nothing is under way, and only the
  remote can end that. With the fault "service", `NoForgottenConnection`, `EventComing`
  and `FoundGetTurns` fail;
- a scan that does not start is not noticed, as the status of SCAN_START_COMPLETE
  is ignored (line 666): `scanning` stays set with no scan to end. With "scan_start",
  `EventComing`, `FlagsEnd` and `KeepsScanning` fail;
- a refused open is logged (line 91), and its callers try neither the next application
  nor a scan; a refused close or scan ends in the same way. With "open", "close" or
  "scan", `EventComing` fails;
- the edge device ignores the status of CREATE, ADD_CHAR and ADD_CHAR_DESCR
  (`gatt_server_main.c:183-211`) and advertises without its service or its
  characteristic; the hub finds it, connects, and does not go on;
- the notify task reads `gatts_if` a second time for its call
  (`gatt_server_main.c:274`): after a disconnection it sends to interface 0;
- the clean-up of a polling run closes a socket that was never created when
  `socket.socket()` raises (`udp_client.py:41`): the polling thread ends
  (`ThreadDies`) and pages show the last values for ever;
- an unknown identifier is answered like a reading of 0;
- answers do not name their sensor and the client does not check them: were a
  datagram delivered twice, the second answer would be stored for the next sensor,
  and `RightSensor` fails if the network does that;
- the two bytes of a READ answer may come from two readings (TODO at
  `gatt_server_main.c:220`);
- the edge device ignores the result of the start of advertising (lines 122 and
  244); a failure leaves it out of reach, and `RemoteSpec` would fail;
- notifications are sent to every central, although it has not enabled them;
- `sensors.py:17` scales the photocell's reading to volts twice: light is reported from
  1100 mV on (`LightFromElevenHundred`), where the voltage divider of the docstring
  gives 825 mV for the threshold of 30 kOhm;
- the comment table at the end of `sensors.py` is out of date (1034 mV is no magnetic
  field).

## Proofs

Proved for every N, every set of faults, every MaxAway and every MaxResults; the
assumptions about constants are `NAssumption` (N is a positive natural) and the types
of `Faults`, `MaxAway` and `MaxResults`, and the assumptions about the stack are those of `BleStack`. The
theorems of `ProgressProofs` alone leave out faults: see below. For the
UDP server: every period, every bound on busy ticks, and every width of the clock
that a call fits in (`TimeAssumption`); any pool, mailbox, requests and faults. For the
service: moreover any set of ports, any number of restarts, and as requests those
that the client makes, each with the port it comes from (`RequestsAssumption`);
the page has at most ten rows (`RowsAssumption`), as the identifier of a request is
one character. For the
edge device: every `MaxChange` (`EdgeAssumption`) and any `EdgeFaults`.

| theorem | module | statement |
|---|---|---|
| `TypeCorrect` | `ConnManagerProofs` | `Spec => []TypeOK` |
| `TurnsKept` | `ConnManagerProofs` | `Spec => TurnComesNearer` |
| `RadioInvariant` | `RadioProofs` | `Spec => []RadioInv` |
| `RadioExclusive` | `RadioProofs` | `Spec => []OneUseOfTheRadio` |
| `FlagsTruthful` | `RadioProofs` | `Spec => []FlagsCoverRadio` |
| `HubImplementsCycle` | `CycleProofs` | `Spec => CycleSpec` |
| `TimesAgree` | `UdpServerProofs` | `Spec => []TimeInv` |
| `CallsEndInTime` | `UdpServerProofs` | `Spec => []EndsInTime` |
| `WholePeriodServed` | `UdpServerProofs` | `Spec => ServesWholePeriod` |
| `FlagsFollowed` | `ProgressProofs` | `Spec => []FlagsEnd`, without `FlagFaults` |
| `NoneForgotten` | `ProgressProofs` | `Spec => []NoForgottenConnection`, without `FlagFaults` and `LinkFaults` |
| `AlwaysDriven` | `ProgressProofs` | `Spec => []EventComing`, without those and `StartFaults` |
| `QueueBounded` | `QueueProofs` | `Spec => []EventsFit` |
| `QueueInvariant` | `QueueProofs` | `Spec => []QueueInv` |
| `ProgressInvariant` | `ProgressProofs` | `Spec => []ProgressInv`, without the three |
| `ServerTypes` | `UdpServerProofs` | `Spec => []TypeOK` |
| `NoSocketLost` | `UdpServerProofs` | `Spec => []SocketsBalanced` |
| `ServiceTypes` | `SensorServiceProofs` | `ServiceSpec => []ServiceTypeOK` |
| `OneAtATime` | `SensorServiceProofs` | `ServiceSpec => []OneExchange` |
| `SensorsTold` | `SensorServiceProofs` | `ServiceSpec => []RightSensor` |
| `AgesKept` | `SensorServiceProofs` | `ServiceSpec => []AgesOrdered` |
| `ReadingsGrow` | `SensorServiceProofs` | `ServiceSpec => NeverOlder` |
| `EdgeTypes` | `EdgeDeviceProofs` | `EdgeSpec => []EdgeTypeOK` |
| `EdgeInvariant` | `EdgeDeviceProofs` | `EdgeSpec => []EdgeInv` |
| `InterfaceTruthful` | `EdgeDeviceProofs` | `EdgeSpec => []InterfaceMatches` |
| `TableSettled` | `EdgeDeviceProofs` | `EdgeSpec => TableFinal` |
| `AnswersOrdered` | `EdgeDeviceProofs` | `EdgeSpec => AnswersNeverOlder` |
| `DeviceStepsAsRemote` | `EdgeDeviceProofs` | `EdgeSpec => Remote!Init /\ [][Remote!Next]_(Remote!vars)` |

Types. What a callback asks of the stack is one of six requests
(`CallbackStepTyped`), each request keeps the stack typed (`RequestType`), and so
does each step outside the callbacks (`StackStepType`). The queue needs lemmas on
the shape of the reports (`BroadcastShape`, `LossShape`).

The turns. `MinOfApps` says that the `Min` of the library is the least of a non-empty
set of applications; from it the two cases of `NextPrf` are shown to bring every other
candidate nearer (`NextPrfNearer`). A callback moves the cursor to that choice or leaves
it and begins nothing (`CallbackTurn`), and the stack begins no attempt
(`StackBeginsNone`), so that types suffice.

The radio. `OneUseOfTheRadio` is not inductive: while a connection is open all
three flags are FALSE, so a stray event whose handler starts something would be
obeyed. `RadioInv` says why there is none. The events that start something (end
of a scan, CLOSE, an unasked DISCONNECT, REG) are queued only while no link
exists (`ScanEvents`, `EndEvents`, `Starting`), and in an order (`QueueOrder`)
in which the last of them is handled before the next link is up. The two
exceptions are spelled out: the stop of a scan that had timed out may wait while
the next link is opened, but then `opening` is set and every remote is found, so
its handler does nothing (`StopEvent`); and when a link breaks, the owner's
CLOSE comes after its DISCONNECT, so that its remote is missing by then and CLOSE
scans instead of opening (`BrokenLinks`), whereas a link closed by the host is
the only one that ends and its CLOSE may open the next (`ClosedLinks`).
The proof first says what removing the head or appending reports does to the
queue (`Consumed`, `Notified` and their corollaries), then treats the four
effects a callback can have (`NothingStarted`, `ScanStarted`, `Opened`,
`ClosingStarted`), reduces each handler to one of them, and ends with the steps
of the stack (`LinkNotified`, `LinkGone`, `ScanReportKeeps`).

The refinement. A step changes either the scan or one link, never both and never
two links (`OneChange`); with `OneUseOfTheRadio` before and after it that makes a
step of the abstract radio (`RadioStepTaken`). A value is stored for the
connection that is open or just broke (`ProcedureEvents`), and a cycle is
published in a CLOSE event, when no link exists (`EndEvents`).

The UDP server. `EndsInTime` is not inductive: that a call is short now says
nothing of the timeout it waits with. `TimeInv` does: in a call the tick
difference is its true length, also across a wrap (`ElapsedTicks`), and that
length is what was elapsed at the start of the pass, plus what was waited of the
timeout, plus the busy ticks; and the timeout is what the period had left then
(`Rearmed`, `TimePasses`). The same equality gives `WholePeriodServed`.
`NoSocketLost` is inductive once the two counters are known to be numbers.

The edge device. None of its properties is inductive: each depends on which events
are still queued. `EdgeInv` lists the queues there can be in each phase
(`SettingUp`, `Advertising`, `Connected`, `Ended`), ties the copy READ makes to the
READ at the head of the queue (`Copying`), and orders what is measured, sampled,
stored, copied and answered by age (`Ages`): the sampling task stores only what it
sampled after the last store, so a copy under way is never older than the last
answer. `HeadTells` reads the phase off the event at the head; the phases then follow
each other (`PhaseStep`), and the three safety properties and the steps of the
refinement of `RemoteDevice` are read off the phase or the ages.

Why the hub goes on. Each of the three properties says that something is under way
or queued, and is not inductive: it does not say that the handler of what is queued
does something about it. For a handler has no second attempt: a close that is refused
because a flag is set, a search that ended before its result was seen, an interface
not known yet leave nothing behind that would come back to it. `ProgressInv` says that
what a handler relies on was brought about before its event was queued. Its parts are
proved in three layers, each from the ones before and from fewer faults:

- `FlagInv` needs no failed registration and no scan that does not start
  (`FlagFaults`). An application has its interface before anything but a registration is
  handled (`Registering`), so that no event is skipped; the events of a connection
  are handled before its CLOSE (`WorkOwned`), so that a close raises `closing` only for
  a connection that will report one; with both, `FlagsEnd` is inductive;
- `LinkInv` needs moreover no refused close and no remote without the service
  (`LinkFaults`). The end of an attempt is handled before what the connection reports
  (`OpenAhead`), so that a handler that closes its connection finds no flag set
  (`WorkAlone`); the service was found before its search ends (`SearchFinds`); hence each
  open connection has discovery, search or read to come (`Chain`);
- `StartInv` needs moreover no refused open and no refused scan (`StartFaults`). A
  flag that makes a handler do nothing stands for something that drives the hub: a
  scan (`ScanDriven`), or a connection, its end, or a break of it that is not noted yet
  (`LinkDriven`, `OpeningDriven`). So something always does (`Driven`).

The hypotheses are needed: with any one of the six faults added to the survivable ones
TLC refutes `EventComing`, with `register` or `scan_start` alone `FlagsEnd`, with
`close` or `service` alone `NoForgottenConnection`. Only
for `NoForgottenConnection` the first two may be more than it takes: a hub with a flag
left behind connects to nothing, so it forgets nothing either. All other faults may
happen, in any number.
The proof says once what a callback asks for (`CallbackAsks`, `CallbackEffects`) and
what the stack may report (`StackDoes`, `NewEvent`); each part then has one lemma for
callbacks and one for the stack.

What waits in the queue. The hub does not control when the stack reports, and a
callback that serves clients lets it report for ten seconds; so a bound cannot come
from events being taken. Scan results have none. For the rest it comes from what can be
reported in the meantime. `QueueInv` says how little is left in the queue when
something begins that reports much, and what may follow then:

- a scan finds at most the rest of the registrations or of one broadcast: as long as
  it runs, or a result or its end is queued, only the first N positions hold anything
  else (`BehindScan`);
- an attempt to connect finds at most a broadcast before it (`BehindOpening`): the end of
  a scan comes after all its results, and no scan runs when a CLOSE or DISCONNECT opens
  the next application; once the connection is up, its OPEN is behind the rest of that and nothing but the discovered
  services behind the OPEN (`JustOpened`, `OpenAhead`); after that there are only its own
  reports (`Working`), which come one at a time but for a search's result and its end
  (`ReportsInTurn`, `PendingReports`): three at most (`ReportsFit`);
- the end of a connection or an attempt is reported to every application, N + 1 events,
  behind what is left of either (`BehindEnd`).

An end behind a connection's N + 2 events has N + 1 reports, 2 N + 3 in all
(`OthersFit`); behind a scan's N events there are only its results and at most two ends
(`ScanTail`), so that its queue is short as soon as the last result is handled
(`ScanFits`). Each part has a lemma for callbacks, which only take the head
(`CallbackShifts`), and one for the stack, which only appends one of five kinds of
reports (`QueueSteps`). It needs `TypeOK` and `RadioInv` and no hypothesis about
faults.

The service. `RightSensor` is about the answers; `OneExchange` says why they are right:
while the client waits, its request is in one place at most - on its way, in the
socket, in the server's hand, or answered (`OnePlace`) - and all of these are about
the sensor asked for last; when a run starts none of them knows its port. `NeverOlder`
needs the order of `AgesOrdered`, which a restart of the hub keeps as it raises
`boots`, although the new cache holds no reading.

Every safety property the runs check is a theorem. Only model-checked is liveness
(fairness is out of reach of the prover), with it the liveness part of `RemoteSpec`.

## Not modelled

- the wire formats, ports and addresses of UDP, Wi-Fi set-up, HTML;
- the initialisation before the registration loop (a failure there means the hub
  never starts) and Wi-Fi;
- remote addresses, UUIDs, handles and sensor values; `target_service` keeps its
  handles from an earlier connection, which the model cannot see;
- `app_main.c` stores the interfaces of four applications, so that N = 4 in the
  product; the model is parameterised by N;
- the edge device's connection parameters, and the value a client writes, which
  nothing reads;
- a start of advertising or a `send_response` that is refused: the device is out of
  reach, or the central without an answer, and `RemoteSpec` is false then; calls of the
  GATT server that are not followed by their event; datagrams delivered twice, with
  which `RightSensor` is false (see the findings);
- the wording of a row and the thresholds of the hall effect and infrared sensors;
- two centrals at once: the edge device's stack serves one link at a time, as it
  stops advertising;
- log helpers and build files, which have no state;
- the UDP server simulator, a stand-in for the hub in manual tests.

## Plan

Done: every component that runs - the hub (`ConnContext`, `BleStack`,
`SensorsReader`, `ConnManager`, `HubCycle`), its UDP server with the cache, the client
application composed with it, the conversions, the edge device and its abstract
specification; the runs and theorems above.

Next: `NoForgottenConnection` without the hypothesis about `FlagFaults`.
