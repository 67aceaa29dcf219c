------------------------------ MODULE BleStack ------------------------------
(***************************************************************************)
(* The Bluetooth stack under the connection manager, the radio and the     *)
(* remote devices.  None of it is code of this repository: it is modelled  *)
(* from the calls ble_conn_manager.c and ble_sensors_reader.c make and the *)
(* events they expect back.                                                *)
(*                                                                         *)
(* The stack delivers its events one at a time, in order, on one task, and *)
(* each callback runs to completion before the next (even when it serves   *)
(* UDP clients for ten seconds).  `evq' is that queue.  A callback consumes*)
(* the head and makes at most one request that has an effect, so each      *)
(* request operator below removes the head and appends what the request    *)
(* queues at once.                                                         *)
(***************************************************************************)
EXTENDS ConnContext, SequencesExt

(***************************************************************************)
(* What may go wrong.  Refusals of an API call: "open", "close", "scan",   *)
(* "stop", "mtu", "search", "attr", "read".  Negative results: "register", *)
(* "mtu_status", "read_status", "service" (no matching service in the      *)
(* search result), "scan_start" (the scan does not start, which the stack  *)
(* reports only in the status of SCAN_START_COMPLETE).  Environment:       *)
(* "departure" and "return" (devices leave and come back), "glitch" (an    *)
(* attempt fails or a link breaks although the device is there),           *)
(* "stranger" (a device with another name advertises).  At most MaxAway    *)
(* devices are away at a time and at most MaxResults scan results wait in  *)
(* the queue, bounds of the model.                                         *)
(***************************************************************************)
CONSTANTS Faults, MaxAway, MaxResults

FaultKinds == {"register", "open", "close", "scan", "stop", "mtu", "search",
               "attr", "read", "mtu_status", "read_status", "service",
               "scan_start", "departure", "return", "glitch",
               "stranger"}

ASSUME FaultsAssumption == Faults \subseteq FaultKinds
ASSUME MaxAwayAssumption == MaxAway \in Nat
ASSUME MaxResultsAssumption == MaxResults \in Nat

VARIABLES
  evq,     \* events queued for the callbacks, head first
  link,    \* link[i]: connection of application i to its remote
  pend,    \* pend[i]: procedures of the connection that will report an event
  scan,    \* TRUE while the radio scans
  started, \* how many applications main() has asked to register
  on,      \* remotes that are powered and in range
  calm     \* TRUE once nothing goes wrong any more

stackVars == <<evq, link, pend, scan>>
envVars == <<started, on, calm>>

Stranger == N                    \* advertises a name no application wants
Devices == 0 .. N

LinkStates == {"down", "opening", "up", "closing"}
Procedures == {"mtu", "disc", "search", "read"}
GattcTypes == {"REG", "OPEN", "CFG_MTU", "DIS_SRVC_CMPL", "SEARCH_RES",
               "SEARCH_CMPL", "READ_CHAR", "CLOSE", "DISCONNECT"}
GapTypes == {"INQ_RES", "INQ_CMPL", "STOPPED"}

(***************************************************************************)
(* `id' is the application of a GATTC event, the advertiser of an INQ_RES, *)
(* and 0 for the other GAP events.  `ok' is the status of the event; for   *)
(* SEARCH_RES whether the UUID matches, for DISCONNECT whether this host   *)
(* asked for it.                                                           *)
(***************************************************************************)
Events ==
  [type : GattcTypes, id : Apps, ok : BOOLEAN] \cup
  [type : GapTypes, id : Devices, ok : BOOLEAN]

Event(type, id, ok) == [type |-> type, id |-> id, ok |-> ok]

\* A call, result or condition of kind f may fail now.
MayFail(f) == f \in Faults /\ ~calm

\* DISCONNECT is delivered to every application, not only to the owner.
Broadcast(local) == [k \in 1 .. N |-> Event("DISCONNECT", k - 1, local)]

Queued(type, i) == \E k \in DOMAIN evq : evq[k].type = type /\ evq[k].id = i

StackTypeOK ==
  /\ evq \in Seq(Events)
  /\ link \in [Apps -> LinkStates]
  /\ pend \in [Apps -> SUBSET Procedures]
  /\ scan \in BOOLEAN
  /\ started \in 0 .. N
  /\ on \subseteq Apps
  /\ calm \in BOOLEAN

StackInit ==
  /\ evq = << >>
  /\ link = [i \in Apps |-> "down"]
  /\ pend = [i \in Apps |-> {}]
  /\ scan = FALSE
  /\ started = 0
  /\ on = Apps
  /\ calm = FALSE

-----------------------------------------------------------------------------
(* What a callback asks of the stack while it handles Head(evq).           *)

NoRequest ==
  /\ evq' = Tail(evq)
  /\ UNCHANGED <<link, pend, scan>>

(***************************************************************************)
(* esp_ble_gattc_open.  An application without a registered interface is   *)
(* unknown to the stack, which drops the request without an event.  A link *)
(* that is up already is reported as opened.                               *)
(***************************************************************************)
OpenReq(i, known) ==
  /\ UNCHANGED <<pend, scan>>
  /\ IF ~known \/ link[i] \in {"opening", "closing"}
     THEN evq' = Tail(evq) /\ UNCHANGED link
     ELSE IF link[i] = "up"
     THEN evq' = Append(Tail(evq), Event("OPEN", i, TRUE)) /\ UNCHANGED link
     ELSE evq' = Tail(evq) /\ link' = [link EXCEPT ![i] = "opening"]

\* esp_ble_gattc_close: a connection id that is no longer valid is ignored.
CloseReq(i) ==
  /\ evq' = Tail(evq)
  /\ UNCHANGED scan
  /\ IF link[i] = "up"
     THEN /\ link' = [link EXCEPT ![i] = "closing"]
          /\ pend' = [pend EXCEPT ![i] = {}]
     ELSE UNCHANGED <<link, pend>>

\* esp_ble_gattc_send_mtu_req, _search_service and _read_char.
ProcedureReq(i, p) ==
  /\ evq' = Tail(evq)
  /\ UNCHANGED <<link, scan>>
  /\ pend' = IF link[i] = "up" THEN [pend EXCEPT ![i] = @ \cup {p}] ELSE pend

\* esp_ble_gap_start_scanning.
ScanReq ==
  /\ evq' = Tail(evq)
  /\ UNCHANGED <<link, pend>>
  /\ \/ scan' = TRUE
     \/ MayFail("scan_start") /\ UNCHANGED scan

\* esp_ble_gap_stop_scanning: completes even if the scan just timed out.
StopReq ==
  /\ evq' = Append(Tail(evq), Event("STOPPED", 0, TRUE))
  /\ scan' = FALSE
  /\ UNCHANGED <<link, pend>>

-----------------------------------------------------------------------------
(* What happens below and outside the callbacks.                           *)

Notify(events) == evq' = evq \o events

\* The registration loop of ble_conn_mngr_start, on the main task.  It gives
\* up at the first refusal; the stack may also report a failed registration.
RegisterNext ==
  /\ started < N
  /\ \/ started' = started + 1 /\ Notify(<<Event("REG", started, TRUE)>>)
     \/ /\ MayFail("register")
        /\ \/ started' = started + 1 /\ Notify(<<Event("REG", started, FALSE)>>)
           \/ started' = N /\ UNCHANGED evq
  /\ UNCHANGED <<link, pend, scan, on, calm>>

OpenSucceeds(i) ==
  /\ link[i] = "opening" /\ i \in on
  /\ link' = [link EXCEPT ![i] = "up"]
  /\ pend' = [pend EXCEPT ![i] = {"disc"}]
  /\ Notify(<<Event("OPEN", i, TRUE)>>)
  /\ UNCHANGED <<scan, envVars>>

\* The two reports of a failed attempt come in either order.
OpenFails(i) ==
  /\ link[i] = "opening" /\ (i \notin on \/ MayFail("glitch"))
  /\ link' = [link EXCEPT ![i] = "down"]
  /\ LET opened == <<Event("OPEN", i, FALSE)>>
     IN  Notify(opened \o Broadcast(FALSE)) \/ Notify(Broadcast(FALSE) \o opened)
  /\ UNCHANGED <<pend, scan, envVars>>

Closed(i) ==
  /\ link[i] = "closing"
  /\ link' = [link EXCEPT ![i] = "down"]
  /\ Notify(<<Event("CLOSE", i, TRUE)>> \o Broadcast(TRUE))
  /\ UNCHANGED <<pend, scan, envVars>>

\* The owner hears of a broken link twice: in the broadcast and by a CLOSE,
\* which is taken never to overtake its own DISCONNECT.
LinkLoss(i) ==
  /\ link[i] \in {"up", "closing"} /\ (i \notin on \/ MayFail("glitch"))
  /\ link' = [link EXCEPT ![i] = "down"]
  /\ pend' = [pend EXCEPT ![i] = {}]
  /\ \E k \in i + 2 .. N + 1 :
       Notify(InsertAt(Broadcast(FALSE), k, Event("CLOSE", i, FALSE)))
  /\ UNCHANGED <<scan, envVars>>

\* Procedure p of connection i ends and reports the given events.
Report(i, p, events) ==
  /\ p \in pend[i] /\ i \in on
  /\ pend' = [pend EXCEPT ![i] = @ \ {p}]
  /\ Notify(events)
  /\ UNCHANGED <<link, scan, envVars>>

MtuResult(i) ==
  \E ok \in BOOLEAN : /\ ok \/ MayFail("mtu_status")
                      /\ Report(i, "mtu", <<Event("CFG_MTU", i, ok)>>)

ServicesDiscovered(i) == Report(i, "disc", <<Event("DIS_SRVC_CMPL", i, TRUE)>>)

SearchResult(i) ==
  LET complete == <<Event("SEARCH_CMPL", i, TRUE)>>
  IN  \/ Report(i, "search", <<Event("SEARCH_RES", i, TRUE)>> \o complete)
      \/ /\ MayFail("service")
         /\ \/ Report(i, "search", complete)
            \/ Report(i, "search", <<Event("SEARCH_RES", i, FALSE)>> \o complete)

ReadResult(i) ==
  \E ok \in BOOLEAN : /\ ok \/ MayFail("read_status")
                      /\ Report(i, "read", <<Event("READ_CHAR", i, ok)>>)

\* The registration loop takes no time compared with the first scan.
ScanReports == scan /\ started = N

\* A remote advertises until it is connected.  The scan does not filter
\* duplicates, so each advertisement is a result of its own.
Advertise(d) ==
  /\ ScanReports
  /\ IF d = Stranger THEN "stranger" \in Faults ELSE d \in on /\ link[d] = "down"
  /\ Cardinality({k \in DOMAIN evq : evq[k].type = "INQ_RES"}) < MaxResults
  /\ Notify(<<Event("INQ_RES", d, TRUE)>>)
  /\ UNCHANGED <<link, pend, scan, envVars>>

ScanTimeout ==
  /\ ScanReports
  /\ scan' = FALSE
  /\ Notify(<<Event("INQ_CMPL", 0, TRUE)>>)
  /\ UNCHANGED <<link, pend, envVars>>

PowerOff(d) ==
  /\ MayFail("departure") /\ d \in on
  /\ Cardinality(Apps \ on) < MaxAway
  /\ on' = on \ {d}
  /\ UNCHANGED <<stackVars, started, calm>>

PowerOn(d) ==
  /\ "return" \in Faults /\ d \notin on
  /\ on' = on \cup {d}
  /\ UNCHANGED <<stackVars, started, calm>>

Calm ==
  /\ ~calm
  /\ calm' = TRUE
  /\ UNCHANGED <<stackVars, started, on>>

LinkStep(i) ==
  \/ OpenSucceeds(i) \/ OpenFails(i) \/ Closed(i) \/ LinkLoss(i)
  \/ MtuResult(i) \/ ServicesDiscovered(i) \/ SearchResult(i) \/ ReadResult(i)

StackNext ==
  \/ RegisterNext \/ ScanTimeout \/ Calm
  \/ \E i \in Apps : LinkStep(i) \/ PowerOff(i) \/ PowerOn(i)
  \/ \E d \in Devices : Advertise(d)
=============================================================================
