---------------------------- MODULE ConnManager ----------------------------
(***************************************************************************)
(* The connection manager of the hub bridge (ble_conn_manager.c) with the  *)
(* sensors reader it calls back and the Bluetooth stack it drives.         *)
(*                                                                         *)
(* Every callback is one action: it handles the event at the head of the   *)
(* stack's queue from its first line to its return, functor calls and      *)
(* requests included.  The three flags of the context let at most one GAP  *)
(* or GATTC procedure be under way; a call that finds a flag set is        *)
(* refused by the manager itself.                                          *)
(***************************************************************************)
EXTENDS BleStack, SensorsReader

VARIABLES
  scanning, opening, closing,  \* the flags of ble_conn_manager_ctx
  curr_prf_idx,                \* the round-robin cursor
  found,                       \* i with target_remote->found
  registered,                  \* i with a gattc_if
  connected,                   \* i with virt_conn_id # VIRT_CONN_ID_CLOSED
  service_found                \* i with target_service.found

flags == <<scanning, opening, closing>>
tableVars == <<found, registered, connected, service_found>>
managerVars == <<flags, curr_prf_idx, tableVars>>
vars == <<stackVars, envVars, readerVars, managerVars>>

TypeOK ==
  /\ StackTypeOK
  /\ ReaderTypeOK
  /\ scanning \in BOOLEAN /\ opening \in BOOLEAN /\ closing \in BOOLEAN
  /\ curr_prf_idx \in Apps
  /\ found \subseteq Apps
  /\ registered \subseteq Apps
  /\ connected \subseteq Apps
  /\ service_found \subseteq Apps

\* The applications as BLE_CON_MNGR_GATTC_PROFILE_DEFINE defines them.
TableInit ==
  /\ found = {}
  /\ registered = {}
  /\ connected = {}
  /\ service_found = {}

Init ==
  /\ StackInit
  /\ ReaderInit
  /\ scanning = FALSE /\ opening = FALSE /\ closing = FALSE
  /\ curr_prf_idx = 0
  /\ TableInit

-----------------------------------------------------------------------------
(* The manager's guarded requests.  op, cl and sc are the flags, fnd the   *)
(* found remotes, at the moment of the call inside a callback.             *)

KeepFlags(op, cl, sc) == opening' = op /\ closing' = cl /\ scanning' = sc

\* Mutant: the check that nothing is being opened is missing.
OpensNextAppWhileOpening(op, cl, sc) ==
  LET next == NextPrf(found, curr_prf_idx)
  IN  /\ found # {} /\ ~cl /\ ~sc
      /\ curr_prf_idx' = next
      /\ OpenReq(next, next \in registered)
      /\ KeepFlags(TRUE, cl, sc)

\* Mutant: the opening flag is not raised.
OpensNextAppUnflagged(op, cl, sc) ==
  LET next == NextPrf(found, curr_prf_idx)
  IN  /\ found # {} /\ ~op /\ ~cl /\ ~sc
      /\ curr_prf_idx' = next
      /\ OpenReq(next, next \in registered)
      /\ KeepFlags(op, cl, sc)

\* ble_conn_mngr_gattc_open_next_app returning ESP_OK.
OpensNextApp(op, cl, sc) ==
  LET next == NextPrf(found, curr_prf_idx)
  IN  /\ found # {} /\ ~op /\ ~cl /\ ~sc
      /\ curr_prf_idx' = next
      /\ OpenReq(next, next \in registered)
      /\ KeepFlags(TRUE, cl, sc)

\* ... returning an error: no candidate, a flag is set, or the call fails.
\* The cursor advances whenever there was a candidate.
OpensNoApp(op, cl, sc) ==
  /\ found = {} \/ op \/ cl \/ sc \/ MayFail("open")
  /\ curr_prf_idx' = IF found = {} THEN curr_prf_idx ELSE NextPrf(found, curr_prf_idx)

\* ble_conn_mngr_gap_start_scanning; every caller only logs the result.
StartScanning(op, cl, sc, fnd) ==
  LET idle == ~sc /\ ~op /\ ~cl /\ ~AllRemotesFound(fnd)
  IN  \/ idle /\ ScanReq /\ KeepFlags(op, cl, TRUE)
      \/ (~idle \/ MayFail("scan")) /\ NoRequest /\ KeepFlags(op, cl, sc)

\* ble_conn_mngr_gattc_close.
Close(i, op) ==
  LET idle == ~op /\ ~closing /\ ~scanning
  IN  \/ idle /\ CloseReq(i) /\ KeepFlags(op, TRUE, scanning)
      \/ (~idle \/ MayFail("close")) /\ NoRequest /\ KeepFlags(op, closing, scanning)

\* ble_conn_mngr_gap_stop_scanning, whose error is only logged.
StopScanning ==
  \/ scanning /\ StopReq /\ KeepFlags(opening, closing, FALSE)
  \/ (~scanning \/ MayFail("stop")) /\ NoRequest /\ UNCHANGED flags

\* Mutant: connects whatever is found instead of looking for the rest.
OpenOrScanIfNone(op, cl, sc) ==
  IF found # {}
  THEN \/ OpensNextApp(op, cl, sc)
       \/ OpensNoApp(op, cl, sc) /\ NoRequest /\ KeepFlags(op, cl, sc)
  ELSE StartScanning(op, cl, sc, found) /\ UNCHANGED curr_prf_idx

\* The tail of the REG and CLOSE handlers: connect the next application once
\* every remote is known, else look for the missing ones.
OpenOrScan(op, cl, sc) ==
  IF AllRemotesFound(found)
  THEN \/ OpensNextApp(op, cl, sc)
       \/ OpensNoApp(op, cl, sc) /\ NoRequest /\ KeepFlags(op, cl, sc)
  ELSE StartScanning(op, cl, sc, found) /\ UNCHANGED curr_prf_idx

-----------------------------------------------------------------------------
(* The callbacks.                                                          *)

ev == Head(evq)

\* The event at the head is of this type and its interface belongs to an
\* application; other events are skipped by ble_conn_mngr_gattc_cb.
Handling(type) ==
  evq # << >> /\ ev.type = type /\ ev.id \in registered /\ UNCHANGED envVars

HandlingGap(type) == evq # << >> /\ ev.type = type /\ UNCHANGED envVars

SkipEvent ==
  /\ evq # << >> /\ UNCHANGED envVars
  /\ \/ ev.type = "REG" /\ ~ev.ok
     \/ ev.type \notin {"REG", "INQ_RES", "INQ_CMPL", "STOPPED"} /\ ev.id \notin registered
  /\ NoRequest /\ ReaderIdle /\ UNCHANGED managerVars

HandleReg ==
  /\ HandlingGap("REG") /\ ev.ok
  /\ registered' = registered \cup {ev.id}
  /\ OpenOrScan(opening, closing, scanning)
  /\ ReaderIdle /\ UNCHANGED <<found, connected, service_found>>

\* Mutant: the flag is cleared only when the open succeeded.
HandleOpenKeepsFlag ==
  /\ Handling("OPEN")
  /\ IF ~ev.ok
     THEN NoRequest /\ UNCHANGED <<flags, connected>>
     ELSE /\ connected' = connected \cup {ev.id}
          /\ \/ ProcedureReq(ev.id, "mtu") /\ KeepFlags(FALSE, closing, scanning)
             \/ MayFail("mtu") /\ Close(ev.id, FALSE)
  /\ ReaderIdle /\ UNCHANGED <<curr_prf_idx, found, registered, service_found>>

\* A failed open is only noted: the DISCONNECT that goes with it restarts the
\* scan.  A refused MTU request closes the connection again.
HandleOpen ==
  /\ Handling("OPEN")
  /\ IF ~ev.ok
     THEN NoRequest /\ KeepFlags(FALSE, closing, scanning) /\ UNCHANGED connected
     ELSE /\ connected' = connected \cup {ev.id}
          /\ \/ ProcedureReq(ev.id, "mtu") /\ KeepFlags(FALSE, closing, scanning)
             \/ MayFail("mtu") /\ Close(ev.id, FALSE)
  /\ ReaderIdle /\ UNCHANGED <<curr_prf_idx, found, registered, service_found>>

HandleCfgMtu ==
  /\ Handling("CFG_MTU")
  /\ IF ev.ok THEN NoRequest /\ UNCHANGED flags ELSE Close(ev.id, opening)
  /\ ReaderIdle /\ UNCHANGED <<curr_prf_idx, tableVars>>

HandleDisSrvcCmpl ==
  /\ Handling("DIS_SRVC_CMPL")
  /\ \/ ProcedureReq(ev.id, "search") /\ UNCHANGED flags
     \/ MayFail("search") /\ Close(ev.id, opening)
  /\ ReaderIdle /\ UNCHANGED <<curr_prf_idx, tableVars>>

HandleSearchRes ==
  /\ Handling("SEARCH_RES")
  /\ service_found' = IF ev.ok THEN service_found \cup {ev.id} ELSE service_found
  /\ NoRequest /\ ReaderIdle
  /\ UNCHANGED <<flags, curr_prf_idx, found, registered, connected>>

\* Mutant: a failed characteristic lookup only returns.
HandleSearchCmplNoClose ==
  /\ Handling("SEARCH_CMPL")
  /\ \/ /\ ev.id \notin service_found \/ link[ev.id] # "up" \/ MayFail("attr")
        /\ NoRequest /\ UNCHANGED flags
     \/ /\ ev.id \in service_found /\ link[ev.id] = "up"
        /\ ProcedureReq(ev.id, "read") /\ UNCHANGED flags
     \/ ev.id \in service_found /\ MayFail("read") /\ Close(ev.id, opening)
  /\ ReaderIdle /\ UNCHANGED <<curr_prf_idx, tableVars>>

\* Without the service the handler returns and leaves the connection open.
\* The characteristic is looked up in the stack's copy of the remote's
\* database, which is gone when the link is; the functor then reads it.
HandleSearchCmpl ==
  /\ Handling("SEARCH_CMPL")
  /\ \/ ev.id \notin service_found /\ NoRequest /\ UNCHANGED flags
     \/ /\ ev.id \in service_found /\ link[ev.id] = "up"
        /\ ProcedureReq(ev.id, "read") /\ UNCHANGED flags
     \/ /\ ev.id \in service_found
        /\ link[ev.id] # "up" \/ MayFail("attr") \/ MayFail("read")
        /\ Close(ev.id, opening)
  /\ ReaderIdle /\ UNCHANGED <<curr_prf_idx, tableVars>>

\* Mutant: the functor does not close the connection after a failed read.
HandleReadCharNoClose ==
  /\ Handling("READ_CHAR")
  /\ IF ev.ok THEN ReaderStore(ev.id) /\ Close(ev.id, opening)
              ELSE ReaderIdle /\ NoRequest /\ UNCHANGED flags
  /\ UNCHANGED <<curr_prf_idx, tableVars>>

\* Handed to the functor, which closes the connection either way and does not
\* look at the result of that.
HandleReadChar ==
  /\ Handling("READ_CHAR")
  /\ IF ev.ok THEN ReaderStore(ev.id) ELSE ReaderIdle
  /\ Close(ev.id, opening)
  /\ UNCHANGED <<curr_prf_idx, tableVars>>

HandleClose ==
  /\ Handling("CLOSE")
  /\ connected' = connected \ {ev.id}
  /\ ReaderClose
  /\ OpenOrScan(opening, FALSE, scanning)
  /\ UNCHANGED <<found, registered, service_found>>

\* Mutant: the reason of the disconnection is not looked at.
HandleDisconnectAnyReason ==
  /\ Handling("DISCONNECT")
  /\ IF ev.id \notin found
     THEN NoRequest /\ UNCHANGED <<flags, found>>
     ELSE /\ found' = found \ {ev.id}
          /\ StartScanning(FALSE, FALSE, scanning, found')
  /\ ReaderIdle /\ UNCHANGED <<curr_prf_idx, registered, connected, service_found>>

\* Mutant: the remote that was lost stays found.
HandleDisconnectKeepsFound ==
  /\ Handling("DISCONNECT")
  /\ IF ev.id \notin found \/ ev.ok
     THEN NoRequest /\ UNCHANGED flags
     ELSE StartScanning(FALSE, FALSE, scanning, found)
  /\ ReaderIdle /\ UNCHANGED <<curr_prf_idx, tableVars>>

\* Only the end of a link that this host did not ask for matters, and only to
\* an application whose remote is known.
HandleDisconnect ==
  /\ Handling("DISCONNECT")
  /\ IF ev.id \notin found \/ ev.ok
     THEN NoRequest /\ UNCHANGED <<flags, found>>
     ELSE /\ found' = found \ {ev.id}
          /\ StartScanning(FALSE, FALSE, scanning, found')
  /\ ReaderIdle /\ UNCHANGED <<curr_prf_idx, registered, connected, service_found>>

\* Mutant: the advertiser's name is not looked up in the table.
HandleInqResAnyName ==
  /\ HandlingGap("INQ_RES")
  /\ found' = found \cup {ev.id}
  /\ IF AllRemotesFound(found') THEN StopScanning ELSE NoRequest /\ UNCHANGED flags
  /\ ReaderIdle /\ UNCHANGED <<curr_prf_idx, registered, connected, service_found>>

\* A name that is not in the table is ignored; the last missing remote stops
\* the scan.
HandleInqRes ==
  /\ HandlingGap("INQ_RES")
  /\ found' = found \cup RemotesNamed(ev.id)
  /\ IF RemotesNamed(ev.id) # {} /\ AllRemotesFound(found')
     THEN StopScanning
     ELSE NoRequest /\ UNCHANGED flags
  /\ ReaderIdle /\ UNCHANGED <<curr_prf_idx, registered, connected, service_found>>

\* The scan timed out (SEARCH_INQ_CMPL) or was stopped: connect the next
\* found application; failing that, publish and scan again if one is missing.
HandleScanEnd ==
  /\ HandlingGap("INQ_CMPL") \/ HandlingGap("STOPPED")
  /\ \/ OpensNextApp(opening, closing, FALSE) /\ ReaderIdle
     \/ /\ OpensNoApp(opening, closing, FALSE)
        /\ ReaderScanEnded
        /\ StartScanning(opening, closing, FALSE, found)
  /\ UNCHANGED tableVars

Callback ==
  \/ SkipEvent \/ HandleReg \/ HandleOpen \/ HandleCfgMtu \/ HandleDisSrvcCmpl
  \/ HandleSearchRes \/ HandleSearchCmpl \/ HandleReadChar \/ HandleClose
  \/ HandleDisconnect \/ HandleInqRes \/ HandleScanEnd

\* A step outside the callbacks.
Outside(A) == A /\ ReaderIdle /\ UNCHANGED managerVars

Next == Callback \/ Outside(StackNext)

Spec == Init /\ [][Next]_vars

(***************************************************************************)
(* The callback task drains its queue, the registration loop on the main   *)
(* task goes on, the stack finishes what it was asked to do, and a remote  *)
(* in range is heard sooner or later if the hub scans again and again.     *)
(* Nothing is said of devices that left: see FairSpecReturning.            *)
(***************************************************************************)
Fairness ==
  /\ WF_vars(Callback)
  /\ WF_vars(Outside(RegisterNext))
  /\ WF_vars(Outside(ScanTimeout))
  /\ WF_vars(Outside(Calm))
  /\ \A i \in Apps : WF_vars(Outside(LinkStep(i))) /\ SF_vars(Outside(Advertise(i)))

FairSpec == Spec /\ Fairness

\* Every device that leaves comes back.
FairSpecReturning == FairSpec /\ \A d \in Apps : WF_vars(Outside(PowerOn(d)))

-----------------------------------------------------------------------------
(* Safety.                                                                 *)

\* Whatever the radio does, the flag that guards against starting something
\* else meanwhile is set: no stale event has cleared it early.
FlagsCoverRadio ==
  /\ scan => scanning
  /\ \A i \in Apps : /\ link[i] = "opening" => opening
                     /\ link[i] = "closing" => closing

\* A flag that is set will be cleared: its procedure runs or its last event is
\* queued.  A flag left behind would refuse every later request.
FlagsEnd ==
  /\ scanning => scan \/ Queued("INQ_CMPL", 0) \/ Queued("STOPPED", 0)
  /\ opening => \E i \in Apps : link[i] = "opening" \/ Queued("OPEN", i)
  /\ closing => \E i \in Apps : link[i] = "closing" \/ Queued("CLOSE", i)

\* The hub has one connection at a time and never scans during one.
OneUseOfTheRadio ==
  \A i \in Apps : link[i] # "down" => ~scan /\ \A j \in Apps \ {i} : link[j] = "down"

\* The program is driven by events only: at every moment one is queued or a
\* procedure that ends in one is under way.
EventComing ==
  \/ evq # << >> \/ scan \/ started < N
  \/ \E i \in Apps : link[i] \in {"opening", "closing"} \/ pend[i] # {}

\* A connection is being worked on: an event of its own is still to be handled.
\* No path of the manager and the reader leaves one open and forgotten.
NoForgottenConnection ==
  \A i \in Apps : link[i] = "up" =>
    \/ pend[i] # {}
    \/ \E k \in DOMAIN evq :
         /\ evq[k].id = i
         /\ evq[k].type \in {"OPEN", "CFG_MTU", "DIS_SRVC_CMPL", "SEARCH_RES",
                             "SEARCH_CMPL", "READ_CHAR"}

\* While a callback serves clients for ten seconds (ble_sensors_reader.c:127)
\* events pile up behind it.  Only scan results do so without limit, as the scan
\* reports every advertisement (ble_conn_manager.c:55), and none is left when a
\* connection is attempted; of all others there are never more than the reports
\* of a connection that ended and of one that was opened and lost meanwhile.
EventsFit ==
  /\ Cardinality({k \in DOMAIN evq : evq[k].type # "INQ_RES"}) <= 2 * N + 3
  /\ \A i \in Apps : link[i] # "down" => Len(evq) <= N + 2

\* How many turns after cur the turn of application i is; its own is last.
TurnsAhead(cur, i) == IF i > cur THEN i - cur ELSE i - cur + N

\* Connections are opened to known remotes in turn: each attempt, and each move
\* of the cursor without one, brings the turn of every other known application
\* nearer, so that none is passed over (ble_conn_mngr_next_prf), whichever
\* remotes come and go between two attempts.
TurnComesNearer ==
  [][ LET begun == {j \in Apps : link[j] = "down" /\ link'[j] = "opening"}
      IN  /\ begun \subseteq found \cap {curr_prf_idx'}
          /\ begun # {} \/ curr_prf_idx' # curr_prf_idx =>
               \A i \in found \ {curr_prf_idx'} :
                 TurnsAhead(curr_prf_idx', i) < TurnsAhead(curr_prf_idx, i) ]_vars

\* With the stack's own view of the radio the hub implements the cycle that
\* its README promises.
RadioUse ==
  LET linked == {i \in Apps : link[i] # "down"}
  IN  IF linked # {} THEN [use |-> "link", sensors |-> linked]
      ELSE [use |-> IF scan THEN "scan" ELSE "idle", sensors |-> Apps]

Cycle == INSTANCE HubCycle
           WITH Sensors <- Apps, radio <- RadioUse, known <- sensor_found, fresh <- polled
CycleSpec == Cycle!Spec

-----------------------------------------------------------------------------
(* Liveness.                                                               *)

Reads(i) == HandleReadChar /\ ev.id = i /\ ev.ok
Publishes == udp' # "none"

\* If every device comes back, every sensor is read again and again.
EverySensorRead == \A i \in Apps : []<><<Reads(i)>>_vars

\* ... and complete cycles are published again and again.
CyclesPublished == []<><<udp' = "after_close">>_vars

\* Devices that stay are read again and again, whatever the others do.
SurvivorsRead == \A i \in Apps : <>[](i \in on) => []<><<Reads(i)>>_vars

\* While a remote is missing the hub scans for it, again and again.
KeepsScanning == \A i \in Apps : (i \notin found) ~> (scan \/ i \in found)

-----------------------------------------------------------------------------
(* What documents of the repository say and the program does not do.       *)

\* README.md of the hub, lines 25-27: the server starts when all the found
\* devices have been polled.
FoundArePolled == [][udp' = "after_close" => found \subseteq polled]_vars

\* ble_conn_manager.h, lines 175-177: the GAP functor runs when no profile is
\* ready to run.
FunctorWhenNoneReady == [][udp' = "after_scan" => found = {}]_vars

\* README.md of the hub, lines 7-9: it reads, publishes and starts again.
KeepsPublishing == []<><<Publishes>>_vars

\* ble_conn_manager.h, lines 142-143: the manager iterates over the apps.
FoundGetTurns == \A i \in Apps : (i \in found) ~> (i \notin found \/ link[i] # "down")
=============================================================================
