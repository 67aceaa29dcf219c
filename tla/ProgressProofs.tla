--------------------------- MODULE ProgressProofs ---------------------------
(***************************************************************************)
(* Why the hub goes on: ProgressInv is an invariant of ConnManager, for    *)
(* every number of applications and every set of faults that leaves out    *)
(* those for which the code has no second attempt.                         *)
(*                                                                         *)
(* Every step either handles the event at the head of the queue or reports *)
(* events at its end.  CallbackEffects and StackEffects say what else such *)
(* a step may do; each part of the invariant then follows from them and    *)
(* from the few handlers it is about.                                      *)
(***************************************************************************)
EXTENDS ConnProgress, RadioProofs

-----------------------------------------------------------------------------
(* What a callback does.                                                   *)

StoppedEvent == Event("STOPPED", 0, TRUE)

\* The head is gone, and at most the end of a scan was added.
HeadHandled ==
  /\ \A k \in Positions : k > 1 => k - 1 \in Positions' /\ evq'[k - 1] = evq[k]
  /\ \A k \in Positions' :
       \/ k + 1 \in Positions /\ k + 1 > 1 /\ evq'[k] = evq[k + 1]
       \/ evq'[k] = StoppedEvent

LEMMA ConsumedHandled ==
  ASSUME TypeOK, evq # << >>, evq' = Tail(evq)
  PROVE  HeadHandled
PROOF
  BY Consumed DEF HeadHandled

LEMMA StoppedHandled ==
  ASSUME TypeOK, evq # << >>, evq' = Append(Tail(evq), StoppedEvent)
  PROVE  /\ HeadHandled
         /\ \E k \in Positions' : evq'[k] = StoppedEvent
PROOF
<1> DEFINE t == Tail(evq)
<1>1. /\ t \in Seq(Events) /\ Len(t) = Len(evq) - 1 /\ Len(evq) \in Nat \ {0}
      /\ \A k \in 1 .. Len(t) : t[k] = evq[k + 1]
  BY HeadOfQueue, HeadTailProperties DEF TypeOK, StackTypeOK
<1>2. StoppedEvent \in Events
  BY OneGapEvent, AppsProperties DEF StoppedEvent, GapTypes
<1>3. evq' = Append(t, StoppedEvent)
  OBVIOUS
<1> HIDE DEF t
<1>4. /\ Len(evq') = Len(t) + 1 /\ evq'[Len(t) + 1] = StoppedEvent
      /\ \A k \in 1 .. Len(t) : evq'[k] = t[k]
  BY <1>1, <1>2, <1>3, AppendProperties
<1>5. Positions' = 1 .. Len(evq) /\ Positions = 1 .. Len(evq)
  BY <1>1, <1>4 DEF Positions
<1>6. ASSUME NEW k \in Positions, k > 1
      PROVE  k - 1 \in Positions' /\ evq'[k - 1] = evq[k]
  <2>1. k - 1 \in 1 .. Len(t) /\ (k - 1) + 1 = k
    BY <1>1, <1>5, <1>6
  <2> QED
    BY <1>1, <1>4, <1>5, <2>1
<1>7. ASSUME NEW k \in Positions'
      PROVE  \/ k + 1 \in Positions /\ k + 1 > 1 /\ evq'[k] = evq[k + 1]
             \/ evq'[k] = StoppedEvent
  <2>1. k = Len(t) + 1 \/ (k \in 1 .. Len(t) /\ k + 1 \in 1 .. Len(evq) /\ k + 1 > 1)
    BY <1>1, <1>5, <1>7
  <2> QED
    BY <1>1, <1>4, <1>5, <2>1
<1>8. Len(t) + 1 \in Positions'
  BY <1>1, <1>5
<1> QED
  BY <1>4, <1>6, <1>7, <1>8 DEF HeadHandled

\* A link is opened only with the radio idle and the queue all but empty.
LinkOpened(i) ==
  /\ i \in Apps /\ i \in found /\ Down /\ ~scan /\ started = N /\ ~Has("REG")
  /\ ev.type \in {"CLOSE", "INQ_CMPL", "STOPPED"}
  /\ \A k \in Positions : k > 1 =>
       /\ evq[k].type = IF ev.type = "CLOSE" THEN "DISCONNECT" ELSE "STOPPED"
       /\ ~IsError(evq[k])
  /\ evq' = Tail(evq) /\ UNCHANGED <<pend, scan, found>>
  /\ opening' /\ ~closing' /\ ~scanning'
  /\ IF i \in registered THEN link' = [link EXCEPT ![i] = "opening"] ELSE UNCHANGED link

LEMMA CloseOpensNext ==
  ASSUME TypeOK, RadioInv, HandleClose, AllRemotesFound(found),
         OpensNextApp(opening, FALSE, scanning)
  PROVE  \E i \in Apps : LinkOpened(i)
PROOF
<1> DEFINE next == NextPrf(found, curr_prf_idx)
<1>1. /\ found # {} /\ OpenReq(next, next \in registered)
      /\ opening' /\ ~closing' /\ ~scanning'
  BY DEF OpensNextApp, KeepFlags
<1>2. next \in Apps /\ next \in found
  BY <1>1, NextPrfType DEF TypeOK
<1> HIDE DEF next
<1>3. evq # << >> /\ ev.type = "CLOSE" /\ UNCHANGED found
  BY DEF HandleClose, Handling
<1>4. Down /\ ~scan /\ started = N /\ ~Has("REG")
  BY <1>3, AllStarted, CloseOpens, HeadOrBehind DEF RadioInv, EndEvents
<1>5. ASSUME NEW k \in Positions, k > 1
      PROVE  evq[k].type = "DISCONNECT" /\ ~IsError(evq[k])
  <2>1. evq[k].type \in GattcTypes \cup GapTypes
    BY QueueTyped DEF Events
  <2>2. evq[k].type \notin {"OPEN", "CLOSE", "STOPPED", "INQ_RES", "INQ_CMPL", "REG"}
    BY <1>3, <1>5, CloseOpens, BehindFacts DEF Behind, RadioInv
  <2>3. ~IsProcedureEvent(evq[k]) /\ ~IsError(evq[k])
    BY <1>5, CloseOpens DEF ErrorBehind
  <2> QED
    BY <2>1, <2>2, <2>3 DEF GattcTypes, GapTypes, IsProcedureEvent
<1> QED
  BY <1>1, <1>2, <1>3, <1>4, <1>5 DEF LinkOpened, OpenReq, Down

LEMMA ScanEndOpensNext ==
  ASSUME TypeOK, RadioInv, HandleScanEnd, OpensNextApp(opening, closing, FALSE)
  PROVE  \E i \in Apps : LinkOpened(i)
PROOF
<1> DEFINE next == NextPrf(found, curr_prf_idx)
<1>1. /\ found # {} /\ OpenReq(next, next \in registered) /\ ~opening /\ ~closing
      /\ opening' /\ ~closing' /\ ~scanning'
  BY DEF OpensNextApp, KeepFlags, TypeOK
<1>2. next \in Apps /\ next \in found
  BY <1>1, NextPrfType DEF TypeOK
<1> HIDE DEF next
<1>3. evq # << >> /\ ev.type \in {"INQ_CMPL", "STOPPED"} /\ UNCHANGED found
  BY DEF HandleScanEnd, HandlingGap, tableVars
<1>4. Down /\ ~scan /\ started = N /\ ~Has("REG")
  BY <1>1, <1>3, AllStarted, ScanEndIdle
<1>5. \A k \in Positions : k > 1 => evq[k].type = "STOPPED" /\ ~IsError(evq[k])
  BY <1>1, ScanEndIdle DEF IsError
<1> QED
  BY <1>1, <1>2, <1>3, <1>4, <1>5 DEF LinkOpened, OpenReq, Down

\* A handler that closes its connection, or asks it for the next thing.
ClosesOwn ==
  /\ ev.type = "OPEN" \/ IsProcedureEvent(ev)
  /\ ev.id \in Apps /\ CloseReq(ev.id)
  /\ ~closing /\ ~scanning /\ closing' /\ ~opening' /\ UNCHANGED scanning

AsksOwn ==
  /\ ev.type = "OPEN" \/ IsProcedureEvent(ev)
  /\ ev.id \in Apps
  /\ \E p \in Procedures :
       /\ ProcedureReq(ev.id, p)
       /\ \/ ev.type = "OPEN" /\ p = "mtu"
          \/ ev.type = "DIS_SRVC_CMPL" /\ p = "search"
          \/ ev.type = "SEARCH_CMPL" /\ p = "read"

Scans ==
  /\ ScanReq /\ ev.type \notin {"INQ_RES", "OPEN"} /\ ~IsProcedureEvent(ev)
  /\ scanning' /\ ~opening' /\ ~closing'

LEMMA ClosesOrNot ==
  ASSUME TypeOK, ev.type = "OPEN" \/ IsProcedureEvent(ev), ev.id \in Apps,
         NEW op \in BOOLEAN, Close(ev.id, op)
  PROVE  NoRequest \/ ClosesOwn
PROOF
  BY DEF Close, ClosesOwn, KeepFlags, TypeOK

LEMMA ScansOrNot ==
  ASSUME NEW op, NEW cl, NEW sc, NEW fnd, StartScanning(op, cl, sc, fnd),
         ev.type \notin {"INQ_RES", "OPEN"}, ~IsProcedureEvent(ev)
  PROVE  NoRequest \/ Scans
PROOF
  BY DEF StartScanning, Scans, KeepFlags

\* All a callback may ask of the stack.
Asks ==
  \/ NoRequest \/ Scans \/ ClosesOwn \/ AsksOwn
  \/ StopReq /\ ev.type = "INQ_RES" /\ ~scanning'
  \/ \E i \in Apps : LinkOpened(i)

LEMMA CallbackAsks ==
  ASSUME TypeOK, RadioInv, Callback
  PROVE  evq # << >> /\ Asks
PROOF
<1>1. evq # << >>
  BY CallbackStepTyped
<1>2. CASE SkipEvent
  BY <1>2 DEF SkipEvent, Asks
<1>3. CASE HandleReg
  <2>1. OpenOrScan(opening, closing, scanning) /\ ev.type = "REG" /\ ev.type # "OPEN"
    BY <1>3 DEF HandleReg, HandlingGap
  <2>2. ~AllRemotesFound(found)
    <3>1. Has("REG")
      BY <1>1, <2>1, HeadOrBehind
    <3>2. found = {} /\ 0 \in Apps
      BY <3>1, AppsProperties DEF RadioInv, Starting
    <3> QED
      BY <3>2 DEF AllRemotesFound
  <2>3. NoRequest \/ Scans
    BY <2>1, <2>2, ScansOrNot DEF OpenOrScan, IsProcedureEvent
  <2> QED
    BY <1>1, <2>3 DEF Asks
<1>4. CASE HandleOpen
  <2>1. ev.type = "OPEN" /\ ev.id \in Apps
    BY <1>4, Handled DEF HandleOpen, GattcTypes
  <2>2. NoRequest \/ ProcedureReq(ev.id, "mtu") \/ Close(ev.id, FALSE)
    BY <1>4 DEF HandleOpen
  <2> QED
    BY <1>1, <2>1, <2>2, ClosesOrNot DEF Asks, AsksOwn, Procedures
<1>5. CASE HandleCfgMtu \/ HandleDisSrvcCmpl \/ HandleSearchRes \/ HandleSearchCmpl \/ HandleReadChar
  <2>1. IsProcedureEvent(ev) /\ ev.id \in Apps
    BY <1>5, Handled DEF HandleCfgMtu, HandleDisSrvcCmpl, HandleSearchRes, HandleSearchCmpl,
      HandleReadChar, GattcTypes, IsProcedureEvent
  <2>2. \/ NoRequest \/ Close(ev.id, opening)
        \/ ev.type = "DIS_SRVC_CMPL" /\ ProcedureReq(ev.id, "search")
        \/ ev.type = "SEARCH_CMPL" /\ ProcedureReq(ev.id, "read")
    BY <1>5 DEF HandleCfgMtu, HandleDisSrvcCmpl, HandleSearchRes, HandleSearchCmpl, HandleReadChar,
      Handling
  <2>3. opening \in BOOLEAN
    BY DEF TypeOK
  <2> QED
    BY <1>1, <2>1, <2>2, <2>3, ClosesOrNot DEF Asks, AsksOwn, Procedures
<1>6. CASE HandleClose
  <2>1. OpenOrScan(opening, FALSE, scanning) /\ ev.type = "CLOSE"
    BY <1>6 DEF HandleClose, Handling
  <2>2. ev.type \notin {"INQ_RES", "OPEN"} /\ ~IsProcedureEvent(ev)
    BY <2>1 DEF IsProcedureEvent
  <2>3. \/ NoRequest \/ StartScanning(opening, FALSE, scanning, found)
        \/ AllRemotesFound(found) /\ OpensNextApp(opening, FALSE, scanning)
    BY <2>1 DEF OpenOrScan
  <2> QED
    BY <1>1, <1>6, <2>2, <2>3, ScansOrNot, CloseOpensNext DEF Asks
<1>7. CASE HandleDisconnect
  <2>1. ev.type = "DISCONNECT" /\ (NoRequest \/ StartScanning(FALSE, FALSE, scanning, found'))
    BY <1>7 DEF HandleDisconnect, Handling
  <2>2. ev.type \notin {"INQ_RES", "OPEN"} /\ ~IsProcedureEvent(ev)
    BY <2>1 DEF IsProcedureEvent
  <2> QED
    BY <1>1, <2>1, <2>2, ScansOrNot DEF Asks
<1>8. CASE HandleInqRes
  BY <1>1, <1>8 DEF HandleInqRes, HandlingGap, StopScanning, KeepFlags, Asks
<1>9. CASE HandleScanEnd
  <2>1. /\ ev.type \in {"INQ_CMPL", "STOPPED"}
        /\ \/ OpensNextApp(opening, closing, FALSE)
           \/ StartScanning(opening, closing, FALSE, found)
    BY <1>9 DEF HandleScanEnd, HandlingGap
  <2>2. ev.type \notin {"INQ_RES", "OPEN"} /\ ~IsProcedureEvent(ev)
    BY <2>1 DEF IsProcedureEvent
  <2> QED
    BY <1>1, <1>9, <2>1, <2>2, ScansOrNot, ScanEndOpensNext DEF Asks
<1> QED
  BY <1>2, <1>3, <1>4, <1>5, <1>6, <1>7, <1>8, <1>9 DEF Callback

LEMMA CallbackEffects ==
  ASSUME TypeOK, RadioInv, Callback
  PROVE  /\ HeadHandled /\ UNCHANGED started
         /\ \A i \in Apps :
              \/ link'[i] = link[i]
              \/ link[i] = "up" /\ link'[i] = "closing" /\ closing'
              \/ link[i] = "down" /\ link'[i] = "opening" /\ LinkOpened(i)
         /\ scan /\ ~scan' => \E k \in Positions' : evq'[k] = StoppedEvent
         /\ registered \subseteq registered' /\ service_found \subseteq service_found'
PROOF
<1>1. evq # << >> /\ Asks
  BY CallbackAsks
<1>2. link \in [Apps -> LinkStates]
  BY DEF TypeOK, StackTypeOK
<1>3. /\ UNCHANGED started
      /\ registered \subseteq registered' /\ service_found \subseteq service_found'
  BY DEF Callback, SkipEvent, HandleReg, HandleOpen, HandleCfgMtu, HandleDisSrvcCmpl,
         HandleSearchRes, HandleSearchCmpl, HandleReadChar, HandleClose, HandleDisconnect,
         HandleInqRes, HandleScanEnd, Handling, HandlingGap, envVars, managerVars, tableVars
<1>4. CASE StopReq
  <2>1. evq' = Append(Tail(evq), StoppedEvent) /\ UNCHANGED link
    BY <1>4 DEF StopReq, StoppedEvent
  <2> QED
    BY <1>1, <1>3, <2>1, StoppedHandled
<1>5. CASE NoRequest \/ Scans \/ AsksOwn
  <2>1. evq' = Tail(evq) /\ UNCHANGED link /\ (scan => scan')
    BY <1>5 DEF NoRequest, Scans, ScanReq, AsksOwn, ProcedureReq
  <2> QED
    BY <1>1, <1>3, <2>1, ConsumedHandled
<1>6. CASE ClosesOwn
  <2>1. /\ evq' = Tail(evq) /\ UNCHANGED scan /\ closing'
        /\ \A i \in Apps : link'[i] = link[i] \/ (link[i] = "up" /\ link'[i] = "closing")
    BY <1>2, <1>6 DEF ClosesOwn, CloseReq
  <2> QED
    BY <1>1, <1>3, <2>1, ConsumedHandled
<1>7. ASSUME NEW j \in Apps, LinkOpened(j)
      PROVE  /\ HeadHandled /\ UNCHANGED scan
             /\ \A i \in Apps :
                  \/ link'[i] = link[i]
                  \/ link[i] = "down" /\ link'[i] = "opening" /\ LinkOpened(i)
  <2>1. evq' = Tail(evq) /\ UNCHANGED scan
    BY <1>7 DEF LinkOpened
  <2>2. \A i \in Apps : i # j => link'[i] = link[i]
    BY <1>2, <1>7 DEF LinkOpened
  <2>3. link'[j] = link[j] \/ (link[j] = "down" /\ link'[j] = "opening")
    BY <1>2, <1>7 DEF LinkOpened, Down
  <2> QED
    BY <1>1, <1>7, <2>1, <2>2, <2>3, ConsumedHandled
<1> QED
  BY <1>1, <1>3, <1>4, <1>5, <1>6, <1>7 DEF Asks

-----------------------------------------------------------------------------
(* What a step of the stack does.                                          *)

\* The events of S, and no others, are added behind those that wait.
Adds(S) ==
  /\ \A k \in Positions : k \in Positions' /\ evq'[k] = evq[k]
  /\ \A k \in Positions' :
       \/ k \in Positions /\ evq'[k] = evq[k]
       \/ k > Len(evq) /\ evq'[k] \in S
  /\ \A e \in S : \E k \in Positions' : k > Len(evq) /\ evq'[k] = e

LEMMA NotifiedAdds ==
  ASSUME TypeOK, NEW s \in Seq(Events), Notify(s),
         NEW S, S = {s[k] : k \in 1 .. Len(s)}
  PROVE  Adds(S)
PROOF
<1>1. Len(evq) \in Nat
  BY DEF TypeOK, StackTypeOK
<1>2. ASSUME NEW e \in S PROVE \E k \in Positions' : k > Len(evq) /\ evq'[k] = e
  <2>1. PICK k \in 1 .. Len(s) : e = s[k]
    OBVIOUS
  <2>2. Len(evq) + k \in Positions' /\ evq'[Len(evq) + k] = s[k]
    BY Notified
  <2>3. Len(evq) + k > Len(evq)
    BY <1>1
  <2> QED
    BY <2>1, <2>2, <2>3
<1>3. ASSUME NEW k \in Positions'
      PROVE  \/ k \in Positions /\ evq'[k] = evq[k]
             \/ k > Len(evq) /\ evq'[k] \in S
  BY Notified
<1>4. \A k \in Positions : k \in Positions' /\ evq'[k] = evq[k]
  BY Notified
<1> QED
  BY <1>2, <1>3, <1>4 DEF Adds

LEMMA OneAdded ==
  ASSUME TypeOK, NEW e \in Events, Notify(<<e>>)
  PROVE  Adds({e})
PROOF
<1> DEFINE s == <<e>>
<1>1. s \in Seq(Events) /\ Len(s) = 1 /\ s[1] = e /\ Notify(s)
  OBVIOUS
<1> HIDE DEF s
<1>2. {e} = {s[k] : k \in 1 .. Len(s)}
  BY <1>1
<1> QED
  BY <1>1, <1>2, NotifiedAdds

Heard(ok) == {Event("DISCONNECT", j, ok) : j \in Apps}

\* An attempt ends.
Fails(i) ==
  /\ link[i] = "opening" /\ link' = [link EXCEPT ![i] = "down"]
  /\ Adds({Event("OPEN", i, FALSE)} \cup Heard(FALSE))
  /\ UNCHANGED <<pend, scan, started>>

\* A connection ends, with or against the will of this host.
Ends(i, ok) ==
  /\ link[i] \in {"up", "closing"} /\ link' = [link EXCEPT ![i] = "down"]
  /\ pend' \in {pend, [pend EXCEPT ![i] = {}]}
  /\ Adds({Event("CLOSE", i, ok)} \cup Heard(ok))
  /\ UNCHANGED <<scan, started>>

LEMMA BroadcastSet ==
  ASSUME NEW ok \in BOOLEAN
  PROVE  {Broadcast(ok)[k] : k \in 1 .. N} = Heard(ok)
PROOF
<1> DEFINE b == Broadcast(ok)
<1>1. \A k \in 1 .. N : b[k] = Event("DISCONNECT", k - 1, ok)
  BY BroadcastShape
<1> HIDE DEF b
<1>2. ASSUME NEW k \in 1 .. N PROVE b[k] \in Heard(ok)
  <2>1. k - 1 \in Apps
    BY AppsProperties DEF Apps
  <2> QED
    BY <1>1, <2>1 DEF Heard
<1>3. ASSUME NEW j \in Apps PROVE \E k \in 1 .. N : b[k] = Event("DISCONNECT", j, ok)
  <2>1. j + 1 \in 1 .. N /\ (j + 1) - 1 = j
    BY AppsProperties DEF Apps
  <2> QED
    BY <1>1, <2>1
<1>4. {b[k] : k \in 1 .. N} = Heard(ok)
  BY <1>2, <1>3 DEF Heard
<1> QED
  BY <1>4 DEF b

LEMMA JoinedSet ==
  ASSUME NEW s \in Seq(Events), NEW t \in Seq(Events)
  PROVE  {(s \o t)[k] : k \in 1 .. Len(s \o t)} =
           {s[k] : k \in 1 .. Len(s)} \cup {t[k] : k \in 1 .. Len(t)}
PROOF
<1> DEFINE r == s \o t
<1>1. /\ Len(r) = Len(s) + Len(t)
      /\ \A k \in 1 .. Len(s) + Len(t) : r[k] = IF k <= Len(s) THEN s[k] ELSE t[k - Len(s)]
  BY Concatenated
<1> HIDE DEF r
<1>2. Len(s) \in Nat /\ Len(t) \in Nat
  OBVIOUS
<1>3. ASSUME NEW k \in 1 .. Len(r)
      PROVE  (k \in 1 .. Len(s) /\ r[k] = s[k]) \/ (k - Len(s) \in 1 .. Len(t) /\ r[k] = t[k - Len(s)])
  BY <1>1, <1>2
<1>4. ASSUME NEW k \in 1 .. Len(s) PROVE k \in 1 .. Len(r) /\ r[k] = s[k]
  BY <1>1, <1>2
<1>5. ASSUME NEW k \in 1 .. Len(t) PROVE Len(s) + k \in 1 .. Len(r) /\ r[Len(s) + k] = t[k]
  <2>1. Len(s) + k \in 1 .. Len(s) + Len(t) /\ ~(Len(s) + k <= Len(s)) /\ Len(s) + k - Len(s) = k
    BY <1>2
  <2> QED
    BY <1>1, <2>1
<1>6. {r[k] : k \in 1 .. Len(r)} = {s[k] : k \in 1 .. Len(s)} \cup {t[k] : k \in 1 .. Len(t)}
  <2>1. ASSUME NEW e \in {r[k] : k \in 1 .. Len(r)}
        PROVE  e \in {s[k] : k \in 1 .. Len(s)} \cup {t[k] : k \in 1 .. Len(t)}
    <3>1. PICK k \in 1 .. Len(r) : e = r[k]
      OBVIOUS
    <3> QED
      BY <1>3, <3>1
  <2>2. ASSUME NEW k \in 1 .. Len(s) PROVE s[k] \in {r[j] : j \in 1 .. Len(r)}
    BY <1>4
  <2>3. ASSUME NEW k \in 1 .. Len(t) PROVE t[k] \in {r[j] : j \in 1 .. Len(r)}
    BY <1>5
  <2> QED
    BY <2>1, <2>2, <2>3
<1> QED
  BY <1>6 DEF r

LEMMA OneSet ==
  ASSUME NEW e \in Events
  PROVE  <<e>> \in Seq(Events) /\ {<<e>>[k] : k \in 1 .. Len(<<e>>)} = {e}
PROOF
<1> DEFINE s == <<e>>
<1>1. s \in Seq(Events) /\ Len(s) = 1 /\ s[1] = e
  OBVIOUS
<1> HIDE DEF s
<1>2. {s[k] : k \in 1 .. Len(s)} = {e}
  BY <1>1
<1> QED
  BY <1>1, <1>2 DEF s

LEMMA JoinedAdds ==
  ASSUME TypeOK, NEW e \in Events, NEW ok \in BOOLEAN,
         Notify(<<e>> \o Broadcast(ok)) \/ Notify(Broadcast(ok) \o <<e>>)
  PROVE  Adds({e} \cup Heard(ok))
PROOF
<1> DEFINE s == <<e>>
           b == Broadcast(ok)
<1>1. /\ s \in Seq(Events) /\ {s[k] : k \in 1 .. Len(s)} = {e}
      /\ b \in Seq(Events) /\ {b[k] : k \in 1 .. Len(b)} = Heard(ok)
  BY OneSet, BroadcastShape, BroadcastSet
<1>2. Notify(s \o b) \/ Notify(b \o s)
  OBVIOUS
<1> HIDE DEF s, b
<1>3. s \o b \in Seq(Events) /\ b \o s \in Seq(Events)
  BY <1>1, Concatenated
<1>4. /\ {(s \o b)[k] : k \in 1 .. Len(s \o b)} = {e} \cup Heard(ok)
      /\ {(b \o s)[k] : k \in 1 .. Len(b \o s)} = {e} \cup Heard(ok)
  <2>1. {(s \o b)[k] : k \in 1 .. Len(s \o b)} = {e} \cup Heard(ok)
    BY <1>1, JoinedSet, Zenon
  <2>2. {(b \o s)[k] : k \in 1 .. Len(b \o s)} = Heard(ok) \cup {e}
    BY <1>1, JoinedSet, Zenon
  <2> QED
    BY <2>1, <2>2, Zenon
<1>5. CASE Notify(s \o b)
  <2> DEFINE r == s \o b
  <2>1. r \in Seq(Events) /\ Notify(r) /\ {e} \cup Heard(ok) = {r[k] : k \in 1 .. Len(r)}
    BY <1>3, <1>4, <1>5
  <2> HIDE DEF r
  <2> QED
    BY <2>1, NotifiedAdds
<1>6. CASE Notify(b \o s)
  <2> DEFINE r == b \o s
  <2>1. r \in Seq(Events) /\ Notify(r) /\ {e} \cup Heard(ok) = {r[k] : k \in 1 .. Len(r)}
    BY <1>3, <1>4, <1>6
  <2> HIDE DEF r
  <2> QED
    BY <2>1, NotifiedAdds
<1> QED
  BY <1>2, <1>5, <1>6

\* An attempt succeeds.
Opens(i) ==
  /\ link[i] = "opening" /\ link' = [link EXCEPT ![i] = "up"]
  /\ pend' = [pend EXCEPT ![i] = {"disc"}]
  /\ Adds({Event("OPEN", i, TRUE)})
  /\ UNCHANGED <<scan, started>>

\* Procedure p of connection i ends with the events of S.
Tells(i, p, S) ==
  /\ p \in pend[i] /\ pend' = [pend EXCEPT ![i] = @ \ {p}]
  /\ Adds(S) /\ UNCHANGED <<link, scan, started>>

SearchEvents(i) ==
  {Event("SEARCH_RES", i, TRUE), Event("SEARCH_RES", i, FALSE), Event("SEARCH_CMPL", i, TRUE)}

Answers(i) ==
  \/ \E ok \in BOOLEAN : \/ Tells(i, "mtu", {Event("CFG_MTU", i, ok)})
                         \/ Tells(i, "read", {Event("READ_CHAR", i, ok)})
  \/ Tells(i, "disc", {Event("DIS_SRVC_CMPL", i, TRUE)})
  \/ /\ SearchResult(i)
     /\ \E S \in SUBSET SearchEvents(i) :
          Event("SEARCH_CMPL", i, TRUE) \in S /\ Tells(i, "search", S)

\* The scan reports a device or its end.
ScanSays(t, d) ==
  /\ scan /\ (scan' \/ t = "INQ_CMPL")
  /\ Adds({Event(t, d, TRUE)})
  /\ UNCHANGED <<link, pend, started>>

Registers ==
  /\ started \in Apps /\ started' = started + 1
  /\ Adds({Event("REG", started, TRUE)})
  /\ UNCHANGED <<link, pend, scan>>

LEMMA FailsStep ==
  ASSUME TypeOK, NEW i \in Apps, OpenFails(i)
  PROVE  Fails(i)
PROOF
<1>1. Event("OPEN", i, FALSE) \in Events
  BY OneEvent DEF GattcTypes
<1>2. Adds({Event("OPEN", i, FALSE)} \cup Heard(FALSE))
  BY <1>1, JoinedAdds DEF OpenFails
<1> QED
  BY <1>2 DEF Fails, OpenFails, envVars

LEMMA ClosedStep ==
  ASSUME TypeOK, NEW i \in Apps, Closed(i)
  PROVE  Ends(i, TRUE)
PROOF
<1>1. Event("CLOSE", i, TRUE) \in Events
  BY OneEvent DEF GattcTypes
<1>2. Adds({Event("CLOSE", i, TRUE)} \cup Heard(TRUE))
  BY <1>1, JoinedAdds DEF Closed
<1> QED
  BY <1>2 DEF Ends, Closed, envVars

LEMMA LossStep ==
  ASSUME TypeOK, NEW i \in Apps, LinkLoss(i)
  PROVE  Ends(i, FALSE)
PROOF
<1>1. PICK c \in i + 2 .. N + 1 :
        Notify(InsertAt(Broadcast(FALSE), c, Event("CLOSE", i, FALSE)))
  BY DEF LinkLoss
<1> DEFINE s == InsertAt(Broadcast(FALSE), c, Event("CLOSE", i, FALSE))
<1>2. /\ s \in Seq(Events) /\ Len(s) = N + 1 /\ Notify(s)
      /\ \A j \in 1 .. N + 1 : s[j] = IF j < c THEN Event("DISCONNECT", j - 1, FALSE)
                                      ELSE IF j = c THEN Event("CLOSE", i, FALSE)
                                      ELSE Event("DISCONNECT", j - 2, FALSE)
  BY <1>1, LossShape
<1> HIDE DEF s
<1>3. c \in Nat /\ i \in Nat /\ c <= N + 1 /\ c > 1 /\ N \in Nat
  BY AppsProperties DEF Apps
<1>4. c \in 1 .. N + 1 /\ s[c] = Event("CLOSE", i, FALSE)
  <2>1. c \in 1 .. N + 1 /\ ~(c < c)
    BY <1>3
  <2> QED
    BY <1>2, <2>1, Zenon
<1>5. ASSUME NEW k \in 1 .. N + 1 PROVE s[k] \in {Event("CLOSE", i, FALSE)} \cup Heard(FALSE)
  <2>1. CASE k < c
    <3>1. k - 1 \in Apps
      BY <1>3, <2>1 DEF Apps
    <3> QED
      BY <1>2, <2>1, <3>1 DEF Heard
  <2>2. CASE k = c
    BY <1>4, <2>2, Zenon
  <2>3. CASE k > c
    <3>1. k - 2 \in Apps /\ ~(k < c) /\ k # c
      BY <1>3, <2>3 DEF Apps
    <3> QED
      BY <1>2, <3>1 DEF Heard
  <2>4. k < c \/ k = c \/ k > c
    BY <1>3
  <2> QED
    BY <2>1, <2>2, <2>3, <2>4, Zenon
<1>6. ASSUME NEW j \in Apps PROVE \E k \in 1 .. N + 1 : s[k] = Event("DISCONNECT", j, FALSE)
  <2>a. j \in Nat /\ j < N
    BY <1>3 DEF Apps
  <2>1. CASE j + 1 < c
    <3>1. j + 1 \in 1 .. N + 1 /\ (j + 1) - 1 = j
      BY <1>3, <2>a
    <3> QED
      BY <1>2, <2>1, <3>1
  <2>2. CASE ~(j + 1 < c)
    <3>1. j + 2 \in 1 .. N + 1 /\ (j + 2) - 2 = j /\ ~(j + 2 < c) /\ j + 2 # c
      BY <1>3, <2>a, <2>2
    <3> QED
      BY <1>2, <3>1
  <2> QED
    BY <2>1, <2>2
<1>7. {Event("CLOSE", i, FALSE)} \cup Heard(FALSE) = {s[k] : k \in 1 .. Len(s)}
  <2>1. ASSUME NEW e \in {Event("CLOSE", i, FALSE)} \cup Heard(FALSE)
        PROVE  e \in {s[k] : k \in 1 .. Len(s)}
    <3>1. CASE e = Event("CLOSE", i, FALSE)
      BY <1>2, <1>4, <3>1
    <3>2. ASSUME NEW j \in Apps, e = Event("DISCONNECT", j, FALSE)
          PROVE  e \in {s[k] : k \in 1 .. Len(s)}
      BY <1>2, <1>6, <3>2
    <3> QED
      BY <3>1, <3>2 DEF Heard
  <2> QED
    BY <1>2, <1>5, <2>1
<1>8. Adds({Event("CLOSE", i, FALSE)} \cup Heard(FALSE))
  BY <1>2, <1>7, NotifiedAdds
<1> QED
  BY <1>8 DEF Ends, LinkLoss, envVars

LEMMA ToldOne ==
  ASSUME TypeOK, NEW i \in Apps, NEW p, NEW e \in Events, Report(i, p, <<e>>)
  PROVE  Tells(i, p, {e})
PROOF
<1>1. Adds({e})
  BY OneAdded DEF Report
<1> QED
  BY <1>1 DEF Tells, Report, envVars

LEMMA ToldTwo ==
  ASSUME TypeOK, NEW i \in Apps, NEW p, NEW d \in Events, NEW e \in Events,
         Report(i, p, <<d>> \o <<e>>)
  PROVE  Tells(i, p, {d, e})
PROOF
<1> DEFINE s == <<d>>
           t == <<e>>
<1>1. /\ s \in Seq(Events) /\ {s[k] : k \in 1 .. Len(s)} = {d}
      /\ t \in Seq(Events) /\ {t[k] : k \in 1 .. Len(t)} = {e}
  BY OneSet
<1>2. Notify(s \o t)
  BY DEF Report
<1> HIDE DEF s, t
<1> DEFINE r == s \o t
<1>3. r \in Seq(Events) /\ Notify(r)
  BY <1>1, <1>2, Concatenated
<1>4. {r[k] : k \in 1 .. Len(r)} = {d} \cup {e}
  BY <1>1, JoinedSet, Zenon
<1> HIDE DEF r
<1>5. {d, e} = {r[k] : k \in 1 .. Len(r)}
  BY <1>4
<1>6. Adds({d, e})
  BY <1>3, <1>5, NotifiedAdds
<1> QED
  BY <1>6 DEF Tells, Report, envVars

LEMMA AnswersStep ==
  ASSUME TypeOK, NEW i \in Apps,
         MtuResult(i) \/ ServicesDiscovered(i) \/ SearchResult(i) \/ ReadResult(i)
  PROVE  Answers(i)
PROOF
<1>1. \A t \in GattcTypes, ok \in BOOLEAN : Event(t, i, ok) \in Events
  BY OneEvent
<1>2. CASE MtuResult(i)
  <2>1. PICK ok \in BOOLEAN : Report(i, "mtu", <<Event("CFG_MTU", i, ok)>>)
    BY <1>2 DEF MtuResult
  <2> QED
    BY <1>1, <2>1, ToldOne DEF Answers, GattcTypes
<1>3. CASE ServicesDiscovered(i)
  BY <1>1, <1>3, ToldOne DEF ServicesDiscovered, Answers, GattcTypes
<1>4. CASE ReadResult(i)
  <2>1. PICK ok \in BOOLEAN : Report(i, "read", <<Event("READ_CHAR", i, ok)>>)
    BY <1>4 DEF ReadResult
  <2> QED
    BY <1>1, <2>1, ToldOne DEF Answers, GattcTypes
<1>5. CASE SearchResult(i)
  <2> DEFINE c == Event("SEARCH_CMPL", i, TRUE)
             r(ok) == Event("SEARCH_RES", i, ok)
  <2>1. c \in Events /\ r(TRUE) \in Events /\ r(FALSE) \in Events
    BY <1>1 DEF GattcTypes
  <2>2. \/ Report(i, "search", <<r(TRUE)>> \o <<c>>)
        \/ Report(i, "search", <<c>>)
        \/ Report(i, "search", <<r(FALSE)>> \o <<c>>)
    BY <1>5 DEF SearchResult
  <2>3. SearchEvents(i) = {r(TRUE), r(FALSE), c}
    BY DEF SearchEvents
  <2> HIDE DEF c, r
  <2>4. \/ Tells(i, "search", {r(TRUE), c}) \/ Tells(i, "search", {c})
        \/ Tells(i, "search", {r(FALSE), c})
    BY <2>1, <2>2, ToldOne, ToldTwo
  <2>5. \E S \in SUBSET SearchEvents(i) : c \in S /\ Tells(i, "search", S)
    BY <2>3, <2>4
  <2> QED
    BY <1>5, <2>5 DEF Answers, c
<1> QED
  BY <1>2, <1>3, <1>4, <1>5

\* All a step of the stack may do but for a registration that fails.
StackDoes ==
  \/ UNCHANGED <<stackVars, started>>
  \/ Registers
  \/ \E d \in Devices : ScanSays("INQ_RES", d)
  \/ ScanSays("INQ_CMPL", 0)
  \/ \E i \in Apps : \/ Opens(i) \/ Fails(i) \/ Answers(i)
                     \/ \E ok \in BOOLEAN : Ends(i, ok)

LEMMA StackSteps ==
  ASSUME TypeOK, StackNext, RegisterNext => "register" \notin Faults
  PROVE  StackDoes
PROOF
<1>1. CASE RegisterNext
  <2>1. started \in Apps
    BY <1>1, AppsProperties DEF RegisterNext, Apps, TypeOK, StackTypeOK
  <2>2. /\ started' = started + 1 /\ Notify(<<Event("REG", started, TRUE)>>)
        /\ UNCHANGED <<link, pend, scan>>
    BY <1>1 DEF RegisterNext, MayFail
  <2>3. Event("REG", started, TRUE) \in Events
    BY <2>1, OneEvent DEF GattcTypes
  <2> QED
    BY <2>1, <2>2, <2>3, OneAdded DEF StackDoes, Registers
<1>2. CASE ScanTimeout
  <2>1. Event("INQ_CMPL", 0, TRUE) \in Events
    BY OneGapEvent, AppsProperties DEF GapTypes
  <2>2. Adds({Event("INQ_CMPL", 0, TRUE)})
    BY <1>2, <2>1, OneAdded DEF ScanTimeout
  <2> QED
    BY <1>2, <2>2 DEF StackDoes, ScanTimeout, ScanSays, ScanReports, envVars
<1>3. ASSUME NEW d \in Devices, Advertise(d) PROVE StackDoes
  <2>1. Event("INQ_RES", d, TRUE) \in Events
    BY OneGapEvent DEF GapTypes
  <2>2. Adds({Event("INQ_RES", d, TRUE)})
    BY <1>3, <2>1, OneAdded DEF Advertise
  <2>3. scan /\ scan' /\ UNCHANGED <<link, pend, started>>
    BY <1>3 DEF Advertise, ScanReports, envVars
  <2>4. ScanSays("INQ_RES", d)
    BY <2>2, <2>3 DEF ScanSays
  <2> QED
    BY <2>4 DEF StackDoes
<1>4. CASE Calm \/ \E i \in Apps : PowerOff(i) \/ PowerOn(i)
  BY <1>4 DEF Calm, PowerOff, PowerOn, StackDoes
<1>5. ASSUME NEW i \in Apps, LinkStep(i) PROVE StackDoes
  <2>1. CASE OpenSucceeds(i)
    <3>1. Event("OPEN", i, TRUE) \in Events
      BY OneEvent DEF GattcTypes
    <3>2. Adds({Event("OPEN", i, TRUE)})
      BY <2>1, <3>1, OneAdded DEF OpenSucceeds
    <3>3. Opens(i)
      BY <2>1, <3>2 DEF OpenSucceeds, Opens, envVars
    <3> QED
      BY <3>3 DEF StackDoes
  <2>2. CASE ~OpenSucceeds(i)
    <3>1. Fails(i) \/ Answers(i) \/ Ends(i, TRUE) \/ Ends(i, FALSE)
      BY <1>5, <2>2, FailsStep, ClosedStep, LossStep, AnswersStep DEF LinkStep
    <3> QED
      BY <3>1 DEF StackDoes
  <2> QED
    BY <2>1, <2>2
<1> QED
  BY <1>1, <1>2, <1>3, <1>4, <1>5 DEF StackNext

\* Whatever the stack reports, nothing that waits is lost.
LEMMA StackKeeps ==
  ASSUME TypeOK, StackDoes
  PROVE  \A k \in Positions : k \in Positions' /\ evq'[k] = evq[k]
PROOF
<1>1. CASE UNCHANGED <<stackVars, started>>
  BY <1>1 DEF stackVars, Positions
<1> QED
  BY <1>1 DEF StackDoes, Registers, ScanSays, Opens, Fails, Answers, Tells, Ends, Adds

\* The links a step of the stack may change.
LEMMA StackLinks ==
  ASSUME TypeOK, RadioInv, StackDoes
  PROVE  /\ \A i \in Apps : \/ link'[i] = link[i]
                            \/ Opens(i) /\ link'[i] = "up"
                            \/ Fails(i) /\ link'[i] = "down"
                            \/ \E ok \in BOOLEAN : Ends(i, ok) /\ link'[i] = "down"
         /\ scan' # scan => ScanSays("INQ_CMPL", 0)
PROOF
<1>1. link \in [Apps -> LinkStates] /\ scan \in BOOLEAN
  BY DEF TypeOK, StackTypeOK
<1>2. CASE UNCHANGED <<link, scan>>
  BY <1>2
<1>3. CASE ScanSays("INQ_CMPL", 0)
  BY <1>3 DEF ScanSays
<1>4. ASSUME NEW d \in Devices, ScanSays("INQ_RES", d) PROVE UNCHANGED link /\ (scan' # scan => scan' /\ scan)
  BY <1>4 DEF ScanSays
<1>5. ASSUME NEW i \in Apps, Opens(i) \/ Fails(i) \/ \E ok \in BOOLEAN : Ends(i, ok)
      PROVE  /\ UNCHANGED scan
             /\ \A j \in Apps : j # i => link'[j] = link[j]
             /\ Opens(i) => link'[i] = "up"
             /\ ~Opens(i) => link'[i] = "down"
  BY <1>1, <1>5 DEF Opens, Fails, Ends
<1>6. UNCHANGED <<stackVars, started>> \/ Registers \/ (\E i \in Apps : Answers(i)) => UNCHANGED <<link, scan>>
  BY DEF stackVars, Registers, Answers, Tells
<1> QED
  BY <1>1, <1>2, <1>3, <1>4, <1>5, <1>6 DEF StackDoes

\* An event of a procedure of connection i.
ProcedureOf(e, i) == IsProcedureEvent(e) /\ e.id = i

\* Where an event that was not queued before comes from.
NewEvent(e) ==
  \/ e = Event("REG", started, TRUE)
  \/ \E d \in Devices : scan /\ e = Event("INQ_RES", d, TRUE)
  \/ scan /\ e = Event("INQ_CMPL", 0, TRUE)
  \/ \E i \in Apps :
       \/ Opens(i) /\ e = Event("OPEN", i, TRUE)
       \/ Fails(i) /\ e = Event("OPEN", i, FALSE)
       \/ Answers(i) /\ link[i] = "up" /\ UNCHANGED link /\ ProcedureOf(e, i)
       \/ \E ok \in BOOLEAN : \/ Ends(i, ok) /\ e = Event("CLOSE", i, ok)
                              \/ e = Event("DISCONNECT", i, ok)

LEMMA StackEvents ==
  ASSUME TypeOK, RadioInv, StackDoes
  PROVE  \A k \in Positions' :
           \/ k \in Positions /\ evq'[k] = evq[k]
           \/ k > Len(evq) /\ NewEvent(evq'[k])
PROOF
<1> SUFFICES ASSUME NEW k \in Positions', ~(k \in Positions /\ evq'[k] = evq[k])
             PROVE  k > Len(evq) /\ NewEvent(evq'[k])
  OBVIOUS
<1> USE DEF NewEvent
<1>1. CASE UNCHANGED <<stackVars, started>>
  BY <1>1 DEF stackVars, Positions
<1>2. CASE Registers
  BY <1>2 DEF Registers, Adds
<1>3. CASE (\E d \in Devices : ScanSays("INQ_RES", d)) \/ ScanSays("INQ_CMPL", 0)
  BY <1>3 DEF ScanSays, Adds
<1>4. ASSUME NEW i \in Apps, Opens(i)
      PROVE  k > Len(evq) /\ evq'[k] = Event("OPEN", i, TRUE)
  BY <1>4 DEF Opens, Adds
<1>5. ASSUME NEW S, NEW i \in Apps, NEW ok \in BOOLEAN, NEW e, Adds({e} \cup Heard(ok))
      PROVE  k > Len(evq) /\ (evq'[k] = e \/ \E j \in Apps : evq'[k] = Event("DISCONNECT", j, ok))
  BY <1>5 DEF Adds, Heard
<1>6. ASSUME NEW i \in Apps, Answers(i)
      PROVE  k > Len(evq) /\ link[i] = "up" /\ UNCHANGED link /\ ProcedureOf(evq'[k], i)
  <2>1. /\ pend[i] # {} /\ UNCHANGED link
        /\ \E S : Adds(S) /\ \A e \in S : ProcedureOf(e, i)
    <3>1. /\ \A t \in {"CFG_MTU", "READ_CHAR", "DIS_SRVC_CMPL"}, ok \in BOOLEAN :
               \A e \in {Event(t, i, ok)} : ProcedureOf(e, i)
          /\ \A e \in SearchEvents(i) : ProcedureOf(e, i)
      BY DEF ProcedureOf, IsProcedureEvent, Event, SearchEvents
    <3> QED
      BY <1>6, <3>1 DEF Answers, Tells
  <2> QED
    BY <2>1 DEF Adds, RadioInv, PendingUp
<1> QED
  BY <1>1, <1>2, <1>3, <1>4, <1>5, <1>6 DEF StackDoes, Fails, Ends

\* ... by its type.
LEMMA NewEventKinds ==
  ASSUME NEW e, NewEvent(e)
  PROVE  /\ e.type = "REG" => e = Event("REG", started, TRUE)
         /\ e.type = "OPEN" => \E i \in Apps : \/ Opens(i) /\ e = Event("OPEN", i, TRUE)
                                               \/ Fails(i) /\ e = Event("OPEN", i, FALSE)
         /\ e.type = "CLOSE" => \E i \in Apps : \E ok \in BOOLEAN : Ends(i, ok) /\ e = Event("CLOSE", i, ok)
         /\ IsProcedureEvent(e) =>
              \E i \in Apps : Answers(i) /\ link[i] = "up" /\ UNCHANGED link /\ e.id = i
PROOF
<1> DEFINE Opening == \E i \in Apps : \/ Opens(i) /\ e = Event("OPEN", i, TRUE)
                                      \/ Fails(i) /\ e = Event("OPEN", i, FALSE)
           Ending == \E i \in Apps : \E ok \in BOOLEAN : Ends(i, ok) /\ e = Event("CLOSE", i, ok)
           Telling == \E i \in Apps : Answers(i) /\ link[i] = "up" /\ UNCHANGED link /\ ProcedureOf(e, i)
           Other == e.type \in {"INQ_RES", "INQ_CMPL", "DISCONNECT"}
<1>1. e = Event("REG", started, TRUE) \/ Opening \/ Ending \/ Telling \/ Other
  <2>1. CASE \/ \E d \in Devices : scan /\ e = Event("INQ_RES", d, TRUE)
             \/ scan /\ e = Event("INQ_CMPL", 0, TRUE)
    BY <2>1 DEF Event
  <2>2. ASSUME NEW i \in Apps,
               \/ Opens(i) /\ e = Event("OPEN", i, TRUE)
               \/ Fails(i) /\ e = Event("OPEN", i, FALSE)
               \/ Answers(i) /\ link[i] = "up" /\ UNCHANGED link /\ ProcedureOf(e, i)
        PROVE  Opening \/ Telling
    BY <2>2
  <2>3. ASSUME NEW i \in Apps, NEW ok \in BOOLEAN,
               (Ends(i, ok) /\ e = Event("CLOSE", i, ok)) \/ e = Event("DISCONNECT", i, ok)
        PROVE  Ending \/ Other
    <3>1. CASE Ends(i, ok) /\ e = Event("CLOSE", i, ok)
      BY <3>1
    <3>2. CASE e = Event("DISCONNECT", i, ok)
      BY <3>2 DEF Event
    <3> QED
      BY <2>3, <3>1, <3>2
  <2> HIDE DEF Opening, Ending, Telling, Other
  <2> QED
    BY <2>1, <2>2, <2>3 DEF NewEvent
<1>2. /\ Opening => e.type = "OPEN"
      /\ Ending => e.type = "CLOSE"
      /\ Telling => IsProcedureEvent(e)
      /\ e = Event("REG", started, TRUE) => e.type = "REG"
  BY DEF Event, ProcedureOf
<1>3. Telling => \E i \in Apps : Answers(i) /\ link[i] = "up" /\ UNCHANGED link /\ e.id = i
  BY DEF ProcedureOf
<1> HIDE DEF Opening, Ending, Telling
<1>4. /\ e.type = "REG" => e = Event("REG", started, TRUE)
      /\ e.type = "OPEN" => Opening
      /\ e.type = "CLOSE" => Ending
      /\ IsProcedureEvent(e) => Telling
  BY <1>1, <1>2 DEF IsProcedureEvent
<1> QED
  BY <1>3, <1>4 DEF Opening, Ending

-----------------------------------------------------------------------------
(* What stays queued.                                                      *)

LEMMA QueuedAt ==
  ASSUME TypeOK
  PROVE  \A type, i : Queued(type, i) <=> \E k \in Positions : evq[k].type = type /\ evq[k].id = i
PROOF
<1>1. DOMAIN evq = Positions
  BY DEF TypeOK, StackTypeOK, Positions
<1> QED
  BY <1>1 DEF Queued

LEMMA QueuedNext ==
  ASSUME TypeOK'
  PROVE  \A type, i : Queued(type, i)' <=> \E k \in Positions' : evq'[k].type = type /\ evq'[k].id = i
PROOF
<1>1. DOMAIN evq' = Positions'
  BY DEF TypeOK, StackTypeOK, Positions
<1> QED
  BY <1>1 DEF Queued

LEMMA CallbackQueued ==
  ASSUME TypeOK, TypeOK', evq # << >>, HeadHandled
  PROVE  /\ \A type, i : Queued(type, i) => Queued(type, i)' \/ (ev.type = type /\ ev.id = i)
         /\ \A type : Has(type) => Has(type)' \/ ev.type = type
         /\ (\E k \in Positions' : evq'[k] = StoppedEvent) =>
              Queued("STOPPED", 0)' /\ Has("STOPPED")'
PROOF
<1>1. \A k \in Positions : (k = 1 /\ evq[k] = ev) \/ (k - 1 \in Positions' /\ evq'[k - 1] = evq[k])
  <2>1. \A k \in Positions : k = 1 \/ k > 1
    BY QueueTyped DEF Positions
  <2> QED
    BY <2>1, HeadOfQueue DEF HeadHandled
<1>2. ASSUME NEW type, NEW i, Queued(type, i)
      PROVE  Queued(type, i)' \/ (ev.type = type /\ ev.id = i)
  <2>1. PICK k \in Positions : evq[k].type = type /\ evq[k].id = i
    BY <1>2, QueuedAt
  <2> QED
    BY <1>1, <2>1, QueuedNext
<1>3. ASSUME NEW type, Has(type) PROVE Has(type)' \/ ev.type = type
  <2>1. PICK k \in Positions : evq[k].type = type
    BY <1>3 DEF Has
  <2> QED
    BY <1>1, <2>1 DEF Has
<1>4. StoppedEvent.type = "STOPPED" /\ StoppedEvent.id = 0
  BY DEF StoppedEvent, Event
<1>5. (\E k \in Positions' : evq'[k] = StoppedEvent) => Queued("STOPPED", 0)' /\ Has("STOPPED")'
  BY <1>4, QueuedNext DEF Has
<1> QED
  BY <1>2, <1>3, <1>5

LEMMA StackQueued ==
  ASSUME TypeOK, TypeOK', StackDoes
  PROVE  /\ \A type, i : Queued(type, i) => Queued(type, i)'
         /\ \A type : Has(type) => Has(type)'
PROOF
<1>1. \A k \in Positions : k \in Positions' /\ evq'[k] = evq[k]
  BY StackKeeps
<1>2. \A type, i : Queued(type, i) => Queued(type, i)'
  BY <1>1, QueuedAt, QueuedNext
<1>3. \A type : Has(type) => Has(type)'
  BY <1>1 DEF Has
<1> QED
  BY <1>2, <1>3

LEMMA AddsQueued ==
  ASSUME TypeOK', NEW S, Adds(S)
  PROVE  \A type, i, ok : Event(type, i, ok) \in S => Queued(type, i)' /\ Has(type)'
PROOF
<1> SUFFICES ASSUME NEW type, NEW i, NEW ok, Event(type, i, ok) \in S
             PROVE  Queued(type, i)' /\ Has(type)'
  OBVIOUS
<1>1. PICK k \in Positions' : evq'[k] = Event(type, i, ok)
  BY DEF Adds
<1>2. evq'[k].type = type /\ evq'[k].id = i
  BY <1>1 DEF Event
<1> QED
  BY <1>1, <1>2, QueuedNext DEF Has

-----------------------------------------------------------------------------
(* Registering, WorkOwned and FlagsEnd.                                    *)

\* Once the registrations are over every application has its interface.
LEMMA AllRegistered ==
  ASSUME TypeOK, Registering, started = N, ~Has("REG")
  PROVE  registered = Apps
PROOF
<1>1. \A i \in Apps : i < started
  BY AppsProperties DEF Apps
<1>2. \A i \in Apps : ~Queued("REG", i)
  BY QueuedAt DEF Has
<1> QED
  BY <1>1, <1>2 DEF Registering, TypeOK

\* No event is skipped.
LEMMA NoSkip ==
  ASSUME TypeOK, RadioInv, Registering
  PROVE  ~SkipEvent
PROOF
<1> SUFFICES ASSUME SkipEvent PROVE FALSE
  OBVIOUS
<1>1. evq # << >> /\ (\/ ev.type = "REG" /\ ~ev.ok
                      \/ ev.type \notin {"REG"} \cup GapTypes /\ ev.id \notin registered)
  BY DEF SkipEvent, GapTypes
<1>2. ~(ev.type = "REG" /\ ~ev.ok)
  BY <1>1, HeadOfQueue DEF Registering
<1>3. ev.type # "REG" /\ registered = Apps
  BY <1>1, <1>2, AllStarted, AllRegistered
<1>4. ev \in Events /\ (ev.type \in GattcTypes => ev.id \in Apps)
  BY <1>1, HeadType
<1>5. ev.type \in GattcTypes \cup GapTypes
  BY <1>4 DEF Events
<1> QED
  BY <1>1, <1>2, <1>3, <1>4, <1>5

LEMMA RegisteringCallback ==
  ASSUME TypeOK, TypeOK', RadioInv, Registering, Callback
  PROVE  Registering'
PROOF
<1>1. evq # << >> /\ HeadHandled /\ UNCHANGED started /\ registered \subseteq registered'
  BY CallbackAsks, CallbackEffects
<1>2. ev.type = "REG" => ev.id \in registered'
  <2>1. ev.type = "REG" => HandleReg
    BY NoSkip DEF Callback, HandleOpen, HandleCfgMtu, HandleDisSrvcCmpl, HandleSearchRes,
      HandleSearchCmpl, HandleReadChar, HandleClose, HandleDisconnect, HandleInqRes,
      HandleScanEnd, Handling, HandlingGap
  <2> QED
    BY <2>1 DEF HandleReg
<1>3. ASSUME NEW i \in Apps, i < started' PROVE i \in registered' \/ Queued("REG", i)'
  <2>1. i \in registered \/ Queued("REG", i)
    BY <1>1, <1>3 DEF Registering
  <2> QED
    BY <1>1, <1>2, <2>1, CallbackQueued
<1>4. ASSUME NEW k \in Positions', evq'[k].type = "REG" PROVE evq'[k].ok
  <2>1. StoppedEvent.type # "REG"
    BY DEF StoppedEvent, Event
  <2> QED
    BY <1>1, <1>4, <2>1 DEF HeadHandled, Registering
<1> QED
  BY <1>3, <1>4 DEF Registering

LEMMA RegisteringStack ==
  ASSUME TypeOK, TypeOK', RadioInv, Registering, StackDoes, UNCHANGED managerVars
  PROVE  Registering'
PROOF
<1>1. UNCHANGED registered
  BY DEF managerVars, tableVars
<1>2. UNCHANGED started \/ Registers
  BY DEF StackDoes, ScanSays, Opens, Fails, Ends, Answers, Tells
<1>3. ASSUME NEW i \in Apps, i < started' PROVE i \in registered' \/ Queued("REG", i)'
  <2>1. CASE i < started
    <3>1. i \in registered \/ Queued("REG", i)
      BY <2>1 DEF Registering
    <3> QED
      BY <1>1, <3>1, StackQueued
  <2>2. CASE ~(i < started)
    <3>1. Registers
      BY <1>2, <1>3, <2>2
    <3>2. i \in Nat /\ started \in Nat /\ started' = started + 1
      BY <3>1, AppsProperties DEF Registers
    <3>3. i = started
      BY <1>3, <2>2, <3>2
    <3>4. Adds({Event("REG", i, TRUE)})
      BY <3>1, <3>3 DEF Registers
    <3> DEFINE S == {Event("REG", i, TRUE)}
    <3>5. Adds(S) /\ Event("REG", i, TRUE) \in S
      BY <3>4
    <3> HIDE DEF S
    <3> QED
      BY <3>5, AddsQueued
  <2> QED
    BY <2>1, <2>2
<1>4. ASSUME NEW k \in Positions', evq'[k].type = "REG" PROVE evq'[k].ok
  <2>1. (k \in Positions /\ evq'[k] = evq[k]) \/ evq'[k] = Event("REG", started, TRUE)
    BY <1>4, StackEvents, NewEventKinds
  <2> QED
    BY <1>4, <2>1 DEF Registering, Event
<1> QED
  BY <1>3, <1>4 DEF Registering

LEMMA WorkOwnedCallback ==
  ASSUME TypeOK, RadioInv, WorkOwned, Callback
  PROVE  WorkOwned'
PROOF
<1>1. evq # << >> /\ HeadHandled
  BY CallbackAsks, CallbackEffects
<1> SUFFICES ASSUME NEW k \in Positions', IsWork(evq'[k])
             PROVE  \/ link'[evq'[k].id] \in {"up", "closing"}
                    \/ \E j \in Positions' : k < j /\ evq'[j].type = "CLOSE" /\ evq'[j].id = evq'[k].id
  BY DEF WorkOwned, IsWork, IsProcedureEvent
<1>2. k \in Nat /\ k + 1 \in Positions /\ evq'[k] = evq[k + 1]
  <2>1. ~IsWork(StoppedEvent)
    BY DEF IsWork, IsProcedureEvent, StoppedEvent, Event
  <2> QED
    BY <1>1, <2>1 DEF HeadHandled, Positions
<1>3. evq[k + 1].id \in Apps
  <2>1. evq[k + 1] \in Events
    BY <1>2, QueueTyped
  <2>2. evq[k + 1].type \notin GapTypes
    BY <1>2 DEF IsWork, IsProcedureEvent, GapTypes
  <2> QED
    BY <2>1, <2>2 DEF Events
<1>4. CASE link[evq[k + 1].id] \in {"up", "closing"}
  BY <1>2, <1>3, <1>4, CallbackEffects
<1>5. ASSUME NEW j \in Positions, k + 1 < j, evq[j].type = "CLOSE", evq[j].id = evq[k + 1].id
      PROVE  \E m \in Positions' : k < m /\ evq'[m].type = "CLOSE" /\ evq'[m].id = evq'[k].id
  <2>1. j \in Nat /\ j > 1 /\ k < j - 1
    BY <1>2, <1>5, QueueTyped
  <2>2. j - 1 \in Positions' /\ evq'[j - 1] = evq[j]
    BY <1>1, <2>1 DEF HeadHandled
  <2> QED
    BY <1>2, <1>5, <2>1, <2>2
<1> QED
  BY <1>2, <1>4, <1>5 DEF WorkOwned

LEMMA WorkOwnedStack ==
  ASSUME TypeOK, RadioInv, WorkOwned, StackDoes
  PROVE  WorkOwned'
PROOF
<1> SUFFICES ASSUME NEW k \in Positions', IsWork(evq'[k])
             PROVE  \/ link'[evq'[k].id] \in {"up", "closing"}
                    \/ \E j \in Positions' : k < j /\ evq'[j].type = "CLOSE" /\ evq'[j].id = evq'[k].id
  BY DEF WorkOwned, IsWork, IsProcedureEvent
<1>1. CASE k \in Positions /\ evq'[k] = evq[k]
  <2> DEFINE i == evq[k].id
  <2>1. i \in Apps
    <3>1. evq[k] \in Events
      BY <1>1, QueueTyped
    <3>2. evq[k].type \notin GapTypes
      BY <1>1 DEF IsWork, IsProcedureEvent, GapTypes
    <3> QED
      BY <3>1, <3>2 DEF Events
  <2>2. CASE \E j \in Positions : k < j /\ evq[j].type = "CLOSE" /\ evq[j].id = i
    BY <1>1, <2>2, StackKeeps
  <2>3. CASE link[i] \in {"up", "closing"} /\ link'[i] = link[i]
    BY <1>1, <2>3
  <2>4. CASE Opens(i) /\ link'[i] = "up"
    BY <1>1, <2>4
  <2>5. ASSUME NEW ok \in BOOLEAN, Ends(i, ok)
        PROVE  \E j \in Positions' : k < j /\ evq'[j].type = "CLOSE" /\ evq'[j].id = i
    <3>1. PICK j \in Positions' : j > Len(evq) /\ evq'[j] = Event("CLOSE", i, ok)
      BY <2>5 DEF Ends, Adds
    <3>2. k < j
      BY <1>1, <3>1 DEF Positions, TypeOK, StackTypeOK
    <3> QED
      BY <3>1, <3>2 DEF Event
  <2>6. Fails(i) => link[i] \notin {"up", "closing"}
    BY DEF Fails
  <2>7. \/ link'[i] = link[i] \/ Fails(i)
        \/ Opens(i) /\ link'[i] = "up"
        \/ \E ok \in BOOLEAN : Ends(i, ok)
    BY <2>1, StackLinks
  <2>8. link[i] \in {"up", "closing"} \/ \E j \in Positions : k < j /\ evq[j].type = "CLOSE" /\ evq[j].id = i
    BY <1>1 DEF WorkOwned
  <2> HIDE DEF i
  <2> QED
    BY <1>1, <2>2, <2>3, <2>4, <2>5, <2>6, <2>7, <2>8 DEF i
<1>2. CASE NewEvent(evq'[k])
  <2>1. CASE IsProcedureEvent(evq'[k])
    BY <1>2, <2>1, NewEventKinds
  <2>2. CASE evq'[k].type = "OPEN" /\ evq'[k].ok
    <3>1. PICK i \in Apps : \/ Opens(i) /\ evq'[k] = Event("OPEN", i, TRUE)
                            \/ Fails(i) /\ evq'[k] = Event("OPEN", i, FALSE)
      BY <1>2, <2>2, NewEventKinds
    <3>2. Opens(i) /\ evq'[k].id = i
      BY <2>2, <3>1 DEF Event
    <3>3. link'[i] = "up"
      BY <3>2 DEF Opens, TypeOK, StackTypeOK
    <3> QED
      BY <3>2, <3>3
  <2> QED
    BY <2>1, <2>2 DEF IsWork
<1> QED
  BY <1>1, <1>2, StackEvents

-----------------------------------------------------------------------------
(* The flags.                                                              *)

\* Whoever scans raises the flag.
LEMMA ScanFlag ==
  ASSUME TypeOK, Callback, "scan_start" \notin Faults, scanning'
  PROVE  scan' \/ (scanning /\ ev.type \notin {"INQ_CMPL", "STOPPED"})
PROOF
<1>1. ScanReq => scan'
  BY DEF ScanReq, MayFail
<1>2. ASSUME NEW op, NEW cl, NEW sc, NEW fnd, StartScanning(op, cl, sc, fnd)
      PROVE  scan' \/ scanning' = sc
  BY <1>1, <1>2 DEF StartScanning, KeepFlags
<1>3. ASSUME NEW op, NEW cl, NEW sc, OpensNextApp(op, cl, sc)
      PROVE  scanning' = sc
  BY <1>3 DEF OpensNextApp, KeepFlags
<1>4. ASSUME NEW op, NEW cl, OpenOrScan(op, cl, scanning)
      PROVE  scan' \/ scanning' = scanning
  BY <1>2, <1>3, <1>4 DEF OpenOrScan, KeepFlags
<1>5. ASSUME NEW i, NEW op, Close(i, op) PROVE scanning' = scanning
  BY <1>5 DEF Close, KeepFlags
<1>6. CASE SkipEvent
  BY <1>6 DEF SkipEvent, managerVars, flags
<1>7. CASE HandleReg \/ HandleClose
  BY <1>4, <1>7 DEF HandleReg, HandleClose, Handling, HandlingGap
<1>8. CASE HandleOpen \/ HandleCfgMtu \/ HandleDisSrvcCmpl \/ HandleSearchRes \/ HandleSearchCmpl \/ HandleReadChar
  BY <1>5, <1>8 DEF HandleOpen, HandleCfgMtu, HandleDisSrvcCmpl, HandleSearchRes, HandleSearchCmpl,
    HandleReadChar, Handling, KeepFlags, flags
<1>9. CASE HandleDisconnect
  BY <1>2, <1>9 DEF HandleDisconnect, Handling, flags
<1>10. CASE HandleInqRes
  BY <1>10 DEF HandleInqRes, HandlingGap, StopScanning, KeepFlags, flags
<1>11. CASE HandleScanEnd
  BY <1>2, <1>3, <1>11 DEF HandleScanEnd
<1> QED
  BY <1>6, <1>7, <1>8, <1>9, <1>10, <1>11 DEF Callback

\* The flag of an opening is raised for a link only, and lowered by its event.
LEMMA OpenFlag ==
  ASSUME TypeOK, RadioInv, Callback, ~SkipEvent, opening'
  PROVE  \/ opening /\ ev.type # "OPEN" /\ found \subseteq found'
         \/ \E i \in Apps : LinkOpened(i)
PROOF
<1>1. ASSUME NEW op, NEW cl, NEW sc, NEW fnd, StartScanning(op, cl, sc, fnd)
      PROVE  opening' = op
  BY <1>1 DEF StartScanning, KeepFlags
<1>2. ASSUME NEW i, NEW op, Close(i, op) PROVE opening' = op
  BY <1>2 DEF Close, KeepFlags
<1>3. CASE HandleReg
  <2>1. OpenOrScan(opening, closing, scanning) /\ ev.type = "REG" /\ UNCHANGED found /\ evq # << >>
    BY <1>3 DEF HandleReg, HandlingGap
  <2>2. ~AllRemotesFound(found)
    <3>1. Has("REG")
      BY <2>1, HeadOrBehind
    <3>2. found = {} /\ 0 \in Apps
      BY <3>1, AppsProperties DEF RadioInv, Starting
    <3> QED
      BY <3>2 DEF AllRemotesFound
  <2> QED
    BY <1>1, <2>1, <2>2 DEF OpenOrScan
<1>4. CASE HandleOpen
  BY <1>2, <1>4 DEF HandleOpen, KeepFlags
<1>5. CASE HandleCfgMtu \/ HandleDisSrvcCmpl \/ HandleSearchRes \/ HandleSearchCmpl \/ HandleReadChar
  BY <1>2, <1>5 DEF HandleCfgMtu, HandleDisSrvcCmpl, HandleSearchRes, HandleSearchCmpl,
    HandleReadChar, Handling, flags, tableVars
<1>6. CASE HandleClose
  <2>1. OpenOrScan(opening, FALSE, scanning) /\ ev.type = "CLOSE" /\ UNCHANGED found
    BY <1>6 DEF HandleClose, Handling
  <2>2. CASE AllRemotesFound(found) /\ OpensNextApp(opening, FALSE, scanning)
    BY <1>6, <2>2, CloseOpensNext
  <2>3. CASE opening' = opening
    BY <2>1, <2>3
  <2> QED
    BY <1>1, <2>1, <2>2, <2>3 DEF OpenOrScan, KeepFlags
<1>7. CASE HandleDisconnect
  BY <1>1, <1>7 DEF HandleDisconnect, Handling, flags
<1>8. CASE HandleInqRes
  BY <1>8 DEF HandleInqRes, HandlingGap, StopScanning, KeepFlags, flags
<1>9. CASE HandleScanEnd
  BY <1>1, <1>9, ScanEndOpensNext DEF HandleScanEnd, HandlingGap, tableVars
<1> QED
  BY <1>3, <1>4, <1>5, <1>6, <1>7, <1>8, <1>9 DEF Callback

\* The flag of a closing is raised for a connection, and lowered by its event.
LEMMA CloseFlag ==
  ASSUME TypeOK, Callback, ~SkipEvent, closing'
  PROVE  \/ closing /\ ev.type # "CLOSE"
         \/ IsWork(ev) /\ ev.id \in Apps /\ CloseReq(ev.id)
PROOF
<1>1. ASSUME NEW op, NEW cl, NEW sc, NEW fnd, StartScanning(op, cl, sc, fnd)
      PROVE  closing' = cl
  BY <1>1 DEF StartScanning, KeepFlags
<1>2. ASSUME NEW op, NEW cl, NEW sc, OpensNextApp(op, cl, sc) PROVE closing' = cl
  BY <1>2 DEF OpensNextApp, KeepFlags
<1>3. ASSUME NEW op, NEW cl, NEW sc, OpenOrScan(op, cl, sc) PROVE closing' = cl
  BY <1>1, <1>2, <1>3 DEF OpenOrScan, KeepFlags
<1>4. ASSUME NEW i, NEW op, Close(i, op) PROVE CloseReq(i) \/ closing' = closing
  BY <1>4 DEF Close, KeepFlags
<1>5. CASE HandleReg \/ HandleClose
  BY <1>3, <1>5 DEF HandleReg, HandleClose, HandlingGap
<1>6. CASE HandleOpen
  <2>1. ev.type = "OPEN" /\ ev.id \in Apps
    BY <1>6, Handled DEF HandleOpen, GattcTypes
  <2> QED
    BY <1>4, <1>6, <2>1 DEF HandleOpen, KeepFlags, IsWork
<1>7. CASE HandleCfgMtu \/ HandleDisSrvcCmpl \/ HandleSearchRes \/ HandleSearchCmpl \/ HandleReadChar
  <2>1. IsProcedureEvent(ev) /\ ev.id \in Apps
    BY <1>7, Handled DEF HandleCfgMtu, HandleDisSrvcCmpl, HandleSearchRes, HandleSearchCmpl,
      HandleReadChar, GattcTypes, IsProcedureEvent
  <2>2. ev.type # "CLOSE"
    BY <2>1 DEF IsProcedureEvent
  <2>3. CloseReq(ev.id) \/ closing' = closing
    BY <1>4, <1>7 DEF HandleCfgMtu, HandleDisSrvcCmpl, HandleSearchRes, HandleSearchCmpl,
      HandleReadChar, flags
  <2> QED
    BY <2>1, <2>2, <2>3 DEF IsWork
<1>8. CASE HandleDisconnect
  BY <1>1, <1>8 DEF HandleDisconnect, Handling, flags
<1>9. CASE HandleInqRes
  BY <1>9 DEF HandleInqRes, HandlingGap, StopScanning, KeepFlags, flags
<1>10. CASE HandleScanEnd
  BY <1>1, <1>2, <1>10 DEF HandleScanEnd, HandlingGap
<1> QED
  BY <1>5, <1>6, <1>7, <1>8, <1>9, <1>10 DEF Callback

LEMMA FlagsEndCallback ==
  ASSUME TypeOK, TypeOK', RadioInv, FlagInv, Callback, "scan_start" \notin Faults
  PROVE  FlagsEnd'
PROOF
<1> USE DEF FlagInv
<1>a. evq # << >> /\ HeadHandled /\ ~SkipEvent /\ (scan /\ ~scan' => Queued("STOPPED", 0)')
  BY CallbackAsks, CallbackEffects, NoSkip, CallbackQueued
<1>b. /\ \A type, i : Queued(type, i) => Queued(type, i)' \/ ev.type = type
      /\ \A i \in Apps : link[i] \in {"opening", "closing"} => link'[i] = link[i]
  BY <1>a, CallbackQueued, CallbackEffects
<1>1. ASSUME scanning' PROVE scan' \/ Queued("INQ_CMPL", 0)' \/ Queued("STOPPED", 0)'
  <2>1. CASE scanning /\ ev.type \notin {"INQ_CMPL", "STOPPED"}
    <3>1. scan \/ Queued("INQ_CMPL", 0) \/ Queued("STOPPED", 0)
      BY <2>1 DEF FlagsEnd
    <3> QED
      BY <1>a, <1>b, <2>1, <3>1
  <2> QED
    BY <1>1, <2>1, ScanFlag
<1>2. ASSUME opening' PROVE \E i \in Apps : link'[i] = "opening" \/ Queued("OPEN", i)'
  <2>1. CASE opening /\ ev.type # "OPEN"
    <3>1. PICK i \in Apps : link[i] = "opening" \/ Queued("OPEN", i)
      BY <2>1 DEF FlagsEnd
    <3> QED
      BY <1>b, <2>1, <3>1
  <2>2. ASSUME NEW i \in Apps, LinkOpened(i) PROVE link'[i] = "opening"
    <3>1. registered = Apps
      BY <2>2, AllRegistered DEF LinkOpened
    <3> QED
      BY <2>2, <3>1 DEF LinkOpened, TypeOK, StackTypeOK
  <2> QED
    BY <1>2, <1>a, <2>1, <2>2, OpenFlag
<1>3. ASSUME closing' PROVE \E i \in Apps : link'[i] = "closing" \/ Queued("CLOSE", i)'
  <2>1. CASE closing /\ ev.type # "CLOSE"
    <3>1. PICK i \in Apps : link[i] = "closing" \/ Queued("CLOSE", i)
      BY <2>1 DEF FlagsEnd
    <3> QED
      BY <1>b, <2>1, <3>1
  <2>2. CASE IsWork(ev) /\ ev.id \in Apps /\ CloseReq(ev.id)
    <3>1. 1 \in Positions /\ ev = evq[1]
      BY <1>a, HeadOfQueue
    <3>2. CASE link[ev.id] = "up"
      BY <2>2, <3>2 DEF CloseReq, TypeOK, StackTypeOK
    <3>3. CASE link[ev.id] = "closing"
      BY <1>b, <2>2, <3>3
    <3>4. ASSUME NEW j \in Positions, evq[j].type = "CLOSE", evq[j].id = ev.id
          PROVE  \E i \in Apps : Queued("CLOSE", i)'
      <4>1. PICK i \in Apps : i = ev.id
        BY <2>2
      <4>2. Queued("CLOSE", i)
        BY <3>4, <4>1, QueuedAt
      <4>3. ev.type # "CLOSE"
        BY <2>2 DEF IsWork, IsProcedureEvent
      <4> QED
        BY <1>b, <4>2, <4>3
    <3> QED
      BY <2>2, <3>1, <3>2, <3>3, <3>4 DEF WorkOwned
  <2> QED
    BY <1>3, <1>a, <2>1, <2>2, CloseFlag
<1> QED
  BY <1>1, <1>2, <1>3 DEF FlagsEnd

LEMMA FlagsEndStack ==
  ASSUME TypeOK, TypeOK', RadioInv, FlagsEnd, StackDoes, UNCHANGED managerVars
  PROVE  FlagsEnd'
PROOF
<1>a. UNCHANGED <<scanning, opening, closing>>
  BY DEF managerVars, flags
<1>b. \A type, i : Queued(type, i) => Queued(type, i)'
  BY StackQueued
<1>1. ASSUME scanning' PROVE scan' \/ Queued("INQ_CMPL", 0)' \/ Queued("STOPPED", 0)'
  <2>1. scan \/ Queued("INQ_CMPL", 0) \/ Queued("STOPPED", 0)
    BY <1>1, <1>a DEF FlagsEnd
  <2>2. CASE scan /\ ~scan'
    <3> DEFINE S == {Event("INQ_CMPL", 0, TRUE)}
    <3>1. Adds(S) /\ Event("INQ_CMPL", 0, TRUE) \in S
      BY <2>2, StackLinks DEF ScanSays
    <3> HIDE DEF S
    <3> QED
      BY <3>1, AddsQueued
  <2> QED
    BY <1>b, <2>1, <2>2
<1>2. ASSUME NEW i \in Apps, Opens(i) \/ Fails(i) PROVE Queued("OPEN", i)'
  <2>1. CASE Opens(i)
    <3> DEFINE S == {Event("OPEN", i, TRUE)}
    <3>1. Adds(S) /\ Event("OPEN", i, TRUE) \in S
      BY <2>1 DEF Opens
    <3> HIDE DEF S
    <3> QED
      BY <3>1, AddsQueued
  <2>2. CASE Fails(i)
    <3> DEFINE S == {Event("OPEN", i, FALSE)} \cup Heard(FALSE)
    <3>1. Adds(S) /\ Event("OPEN", i, FALSE) \in S
      BY <2>2 DEF Fails
    <3> HIDE DEF S
    <3> QED
      BY <3>1, AddsQueued
  <2> QED
    BY <1>2, <2>1, <2>2
<1>3. ASSUME NEW i \in Apps, NEW ok \in BOOLEAN, Ends(i, ok) PROVE Queued("CLOSE", i)'
  <2> DEFINE S == {Event("CLOSE", i, ok)} \cup Heard(ok)
  <2>1. Adds(S) /\ Event("CLOSE", i, ok) \in S
    BY <1>3 DEF Ends
  <2> HIDE DEF S
  <2> QED
    BY <2>1, AddsQueued
<1>4. ASSUME opening' PROVE \E i \in Apps : link'[i] = "opening" \/ Queued("OPEN", i)'
  <2>1. PICK i \in Apps : link[i] = "opening" \/ Queued("OPEN", i)
    BY <1>4, <1>a DEF FlagsEnd
  <2>2. \A ok \in BOOLEAN : Ends(i, ok) => link[i] # "opening"
    BY DEF Ends
  <2> QED
    BY <1>b, <1>2, <2>1, <2>2, StackLinks
<1>5. ASSUME closing' PROVE \E i \in Apps : link'[i] = "closing" \/ Queued("CLOSE", i)'
  <2>1. PICK i \in Apps : link[i] = "closing" \/ Queued("CLOSE", i)
    BY <1>5, <1>a DEF FlagsEnd
  <2>2. Opens(i) \/ Fails(i) => link[i] # "closing"
    BY DEF Opens, Fails
  <2> QED
    BY <1>b, <1>3, <2>1, <2>2, StackLinks
<1> QED
  BY <1>1, <1>4, <1>5 DEF FlagsEnd

\* The devices, the faults and the reader are no part of the invariants.
LEMMA FlagUnchanged ==
  ASSUME FlagInv, UNCHANGED vars
  PROVE  FlagInv'
PROOF
  BY DEF FlagInv, Registering, WorkOwned, FlagsEnd, IsWork, IsProcedureEvent, Queued, Positions,
         vars, stackVars, envVars, managerVars, flags, tableVars

LEMMA FlagInit ==
  ASSUME Init
  PROVE  FlagInv
PROOF
<1>1. Positions = {} /\ started = 0 /\ ~scanning /\ ~opening /\ ~closing
  BY DEF Init, StackInit, Positions
<1>2. \A i \in Apps : ~(i < started)
  BY <1>1, AppsProperties
<1> QED
  BY <1>1, <1>2 DEF FlagInv, Registering, WorkOwned, FlagsEnd

LEMMA FlagNext ==
  ASSUME Faults \cap FlagFaults = {}, TypeOK, TypeOK', RadioInv, FlagInv, [Next]_vars
  PROVE  FlagInv'
PROOF
<1>a. "register" \notin Faults /\ "scan_start" \notin Faults
  BY DEF FlagFaults
<1>1. CASE Callback
  BY <1>a, <1>1, RegisteringCallback, WorkOwnedCallback, FlagsEndCallback DEF FlagInv
<1>2. CASE Outside(StackNext)
  <2>1. StackDoes /\ UNCHANGED managerVars
    BY <1>a, <1>2, StackSteps DEF Outside
  <2> QED
    BY <2>1, RegisteringStack, WorkOwnedStack, FlagsEndStack DEF FlagInv
<1>3. CASE UNCHANGED vars
  BY <1>3, FlagUnchanged
<1> QED
  BY <1>1, <1>2, <1>3 DEF Next

\* FlagInv is inductive once the registrations succeed and a scan that is asked for
\* starts: FlagsEnd rests on the events of a connection being handled before it ends.
THEOREM FlagInvariant ==
  ASSUME Faults \cap FlagFaults = {}
  PROVE  Spec => []FlagInv
PROOF
<1>1. Init => FlagInv
  BY FlagInit
<1>2. TypeOK /\ TypeOK' /\ RadioInv /\ FlagInv /\ [Next]_vars => FlagInv'
  BY FlagNext
<1> QED
  BY <1>1, <1>2, TypeCorrect, RadioInvariant, PTL DEF Spec

\* No flag is left behind: whatever raised it is under way, or its last event is
\* queued and its handler lowers the flag again.
THEOREM FlagsFollowed ==
  ASSUME Faults \cap FlagFaults = {}
  PROVE  Spec => []FlagsEnd
PROOF
<1>1. FlagInv => FlagsEnd
  BY DEF FlagInv
<1> QED
  BY <1>1, FlagInvariant, PTL

-----------------------------------------------------------------------------
(* OpenAhead, SearchFinds and Chain.                                       *)

LEMMA OpenAheadCallback ==
  ASSUME TypeOK, RadioInv, OpenAhead, Callback
  PROVE  OpenAhead'
PROOF
<1>a. evq # << >> /\ HeadHandled
  BY CallbackAsks, CallbackEffects
<1>b. /\ ~IsProcedureEvent(StoppedEvent) /\ StoppedEvent.type \notin {"OPEN", "CLOSE"}
  BY DEF IsProcedureEvent, StoppedEvent, Event
<1>1. ASSUME NEW j \in Positions', NEW k \in Positions', j < k, evq'[k].type = "OPEN"
      PROVE  ~IsProcedureEvent(evq'[j]) /\ evq'[j].type # "CLOSE"
  <2>1. j \in Nat /\ k \in Nat
    BY DEF Positions
  <2>2. k + 1 \in Positions /\ evq'[k] = evq[k + 1]
    BY <1>a, <1>b, <1>1 DEF HeadHandled
  <2>3. CASE j + 1 \in Positions /\ evq'[j] = evq[j + 1]
    <3>1. j + 1 < k + 1
      BY <1>1, <2>1
    <3> QED
      BY <1>1, <2>2, <2>3, <3>1 DEF OpenAhead
  <2>4. CASE evq'[j] = StoppedEvent
    BY <1>b, <2>4
  <2> QED
    BY <1>a, <2>3, <2>4 DEF HeadHandled
<1>2. ASSUME NEW i \in Apps, link'[i] = "opening", NEW k \in Positions'
      PROVE  ~IsProcedureEvent(evq'[k])
  <2>1. CASE evq'[k] = StoppedEvent
    BY <1>b, <2>1
  <2>2. CASE k + 1 \in Positions /\ k + 1 > 1 /\ evq'[k] = evq[k + 1]
    <3>1. CASE link[i] = "opening"
      BY <2>2, <3>1 DEF OpenAhead
    <3>2. CASE LinkOpened(i)
      <4>1. evq[k + 1].type \in {"STOPPED", "DISCONNECT"}
        BY <2>2, <3>2 DEF LinkOpened
      <4> QED
        BY <2>2, <4>1 DEF IsProcedureEvent
    <3> QED
      BY <1>2, <3>1, <3>2, CallbackEffects
  <2> QED
    BY <1>a, <2>1, <2>2 DEF HeadHandled
<1> QED
  BY <1>1, <1>2 DEF OpenAhead, IsProcedureEvent

LEMMA OpenAheadStack ==
  ASSUME TypeOK, RadioInv, OpenAhead, StackDoes
  PROVE  OpenAhead'
PROOF
<1>a. \A k \in Positions' : \/ k \in Positions /\ evq'[k] = evq[k]
                            \/ k > Len(evq) /\ NewEvent(evq'[k])
  BY StackEvents
<1>b. Len(evq) \in Nat /\ Positions = 1 .. Len(evq)
  BY DEF TypeOK, StackTypeOK, Positions
<1>1. ASSUME NEW j \in Positions', NEW k \in Positions', j < k, evq'[k].type = "OPEN"
      PROVE  ~IsProcedureEvent(evq'[j]) /\ evq'[j].type # "CLOSE"
  <2>1. CASE k \in Positions /\ evq'[k] = evq[k]
    <3>1. j \in Nat /\ ~(j > Len(evq))
      BY <1>b, <1>1, <2>1 DEF Positions
    <3>2. j \in Positions /\ evq'[j] = evq[j]
      BY <1>a, <3>1
    <3> QED
      BY <1>1, <2>1, <3>2 DEF OpenAhead
  <2>2. CASE NewEvent(evq'[k])
    <3>1. PICK i \in Apps : Opens(i) \/ Fails(i)
      BY <1>1, <2>2, NewEventKinds
    <3>2. link[i] = "opening" /\ link[i] # "down" /\ link[i] # "up"
      BY <3>1 DEF Opens, Fails
    <3>3. \A m \in Positions : ~IsProcedureEvent(evq[m]) /\ evq[m].type # "CLOSE"
      BY <3>2 DEF OpenAhead, RadioInv, EndEvents, Down, Has
    <3>4. CASE NewEvent(evq'[j])
      <4>1. ~IsProcedureEvent(evq'[j])
        <5> SUFFICES ASSUME IsProcedureEvent(evq'[j]) PROVE FALSE
          OBVIOUS
        <5>1. PICK h \in Apps : link[h] = "up" /\ link[h] # "down"
          BY <3>4, NewEventKinds
        <5> QED
          BY <3>2, <5>1 DEF RadioInv, OneUseOfTheRadio
      <4>2. evq'[j].type # "CLOSE"
        <5> SUFFICES ASSUME evq'[j].type = "CLOSE" PROVE FALSE
          OBVIOUS
        <5>1. PICK h \in Apps : \E ok \in BOOLEAN : Ends(h, ok)
          BY <3>4, NewEventKinds
        <5>2. link[h] # "opening" /\ link[h] # "down"
          BY <5>1 DEF Ends
        <5> QED
          BY <3>2, <5>2 DEF RadioInv, OneUseOfTheRadio
      <4> QED
        BY <4>1, <4>2
    <3> QED
      BY <1>a, <3>3, <3>4
  <2> QED
    BY <1>a, <2>1, <2>2
<1>2. ASSUME NEW i \in Apps, link'[i] = "opening", NEW k \in Positions'
      PROVE  ~IsProcedureEvent(evq'[k])
  <2>1. link[i] = "opening" /\ link[i] # "down" /\ link[i] # "up"
    BY <1>2, StackLinks
  <2>2. CASE k \in Positions /\ evq'[k] = evq[k]
    BY <2>1, <2>2 DEF OpenAhead
  <2>3. CASE NewEvent(evq'[k])
    <3> SUFFICES ASSUME IsProcedureEvent(evq'[k]) PROVE FALSE
      OBVIOUS
    <3>1. PICK h \in Apps : link[h] = "up" /\ link[h] # "down"
      BY <2>3, NewEventKinds
    <3> QED
      BY <2>1, <3>1 DEF RadioInv, OneUseOfTheRadio
  <2> QED
    BY <1>a, <2>2, <2>3
<1> QED
  BY <1>1, <1>2 DEF OpenAhead, IsProcedureEvent

LEMMA SearchFindsCallback ==
  ASSUME TypeOK, RadioInv, Registering, SearchFinds, Callback
  PROVE  SearchFinds'
PROOF
<1>a. evq # << >> /\ HeadHandled /\ service_found \subseteq service_found' /\ ~SkipEvent
  BY CallbackAsks, CallbackEffects, NoSkip
<1> SUFFICES ASSUME NEW k \in Positions', evq'[k].type = "SEARCH_CMPL"
             PROVE  \/ evq'[k].id \in service_found'
                    \/ \E j \in Positions' : j < k /\ evq'[j] = Event("SEARCH_RES", evq'[k].id, TRUE)
  BY DEF SearchFinds
<1>1. k \in Nat /\ k + 1 \in Positions /\ evq'[k] = evq[k + 1]
  BY <1>a DEF HeadHandled, Positions, StoppedEvent, Event
<1>2. ASSUME NEW j \in Positions, j < k + 1, evq[j] = Event("SEARCH_RES", evq[k + 1].id, TRUE)
      PROVE  \/ evq'[k].id \in service_found'
             \/ \E m \in Positions' : m < k /\ evq'[m] = Event("SEARCH_RES", evq'[k].id, TRUE)
  <2>1. j \in Nat /\ (j = 1 \/ j > 1)
    BY QueueTyped
  <2>2. CASE j = 1
    <3>1. ev = evq[1]
      BY <1>a, HeadOfQueue
    <3>2. ev.type = "SEARCH_RES" /\ ev.ok /\ ev.id = evq[k + 1].id
      BY <1>2, <2>2, <3>1 DEF Event
    <3>3. HandleSearchRes
      BY <1>a, <3>2 DEF Callback, HandleReg, HandleOpen, HandleCfgMtu, HandleDisSrvcCmpl,
        HandleSearchCmpl, HandleReadChar, HandleClose, HandleDisconnect, HandleInqRes,
        HandleScanEnd, Handling, HandlingGap
    <3> QED
      BY <1>1, <3>2, <3>3 DEF HandleSearchRes
  <2>3. CASE j > 1
    <3>1. j - 1 \in Positions' /\ evq'[j - 1] = evq[j]
      BY <1>a, <2>3 DEF HeadHandled
    <3>2. j - 1 < k
      BY <1>1, <1>2, <2>1
    <3> QED
      BY <1>1, <1>2, <3>1, <3>2
  <2> QED
    BY <2>1, <2>2, <2>3
<1> QED
  BY <1>a, <1>1, <1>2 DEF SearchFinds

\* If every remote has the service, the search reports it before its end.
LEMMA SearchReports ==
  ASSUME TypeOK, "service" \notin Faults, NEW i \in Apps, SearchResult(i),
         NEW k \in Positions', k > Len(evq), evq'[k].type = "SEARCH_CMPL"
  PROVE  /\ evq'[k].id = i
         /\ \E j \in Positions' : j < k /\ evq'[j] = Event("SEARCH_RES", i, TRUE)
PROOF
<1> DEFINE s == <<Event("SEARCH_RES", i, TRUE)>>
           t == <<Event("SEARCH_CMPL", i, TRUE)>>
<1>1. /\ s \in Seq(Events) /\ Len(s) = 1 /\ s[1] = Event("SEARCH_RES", i, TRUE)
      /\ t \in Seq(Events) /\ Len(t) = 1 /\ t[1] = Event("SEARCH_CMPL", i, TRUE)
  BY OneEvent DEF GattcTypes
<1>2. Notify(s \o t)
  BY DEF SearchResult, MayFail, Report
<1> HIDE DEF s, t
<1> DEFINE r == s \o t
<1>3. /\ r \in Seq(Events) /\ Notify(r) /\ Len(r) = 2
      /\ \A m \in 1 .. 2 : r[m] = IF m <= 1 THEN s[m] ELSE t[m - 1]
  BY <1>1, <1>2, Concatenated
<1> HIDE DEF r
<1>4. r[1] = Event("SEARCH_RES", i, TRUE) /\ r[2] = Event("SEARCH_CMPL", i, TRUE)
  <2>1. 1 \in 1 .. 2 /\ 2 \in 1 .. 2 /\ 1 <= 1 /\ ~(2 <= 1) /\ 2 - 1 = 1
    OBVIOUS
  <2>2. r[1] = s[1]
    BY <1>3, <2>1
  <2>3. r[2] = t[1]
    BY <1>3, <2>1
  <2> QED
    BY <1>1, <2>2, <2>3
<1>5. Len(evq) \in Nat /\ Positions = 1 .. Len(evq)
  BY DEF TypeOK, StackTypeOK, Positions
<1>6. k \in Nat /\ k - Len(evq) \in 1 .. 2 /\ evq'[k] = r[k - Len(evq)]
  BY <1>3, <1>5, Notified DEF Positions
<1>7. k - Len(evq) = 2 /\ evq'[k].id = i
  <2>1. k - Len(evq) = 1 \/ k - Len(evq) = 2
    BY <1>5, <1>6
  <2>2. k - Len(evq) # 1
    BY <1>4, <1>6 DEF Event
  <2> QED
    BY <1>4, <1>6, <2>1, <2>2 DEF Event
<1>8. Len(evq) + 1 \in Positions' /\ evq'[Len(evq) + 1] = r[1] /\ Len(evq) + 1 < k
  <2>1. 1 \in 1 .. Len(r)
    BY <1>3
  <2> QED
    BY <1>3, <1>5, <1>6, <1>7, <2>1, Notified
<1> QED
  BY <1>4, <1>7, <1>8

LEMMA SearchFindsStack ==
  ASSUME TypeOK, RadioInv, SearchFinds, StackDoes, "service" \notin Faults,
         UNCHANGED managerVars
  PROVE  SearchFinds'
PROOF
<1>a. UNCHANGED service_found
  BY DEF managerVars, tableVars
<1> SUFFICES ASSUME NEW k \in Positions', evq'[k].type = "SEARCH_CMPL"
             PROVE  \/ evq'[k].id \in service_found'
                    \/ \E j \in Positions' : j < k /\ evq'[j] = Event("SEARCH_RES", evq'[k].id, TRUE)
  BY DEF SearchFinds, Event
<1>1. CASE k \in Positions /\ evq'[k] = evq[k]
  BY <1>a, <1>1, StackKeeps DEF SearchFinds
<1>2. CASE k > Len(evq) /\ NewEvent(evq'[k])
  <2>1. PICK i \in Apps : Answers(i)
    BY <1>2, NewEventKinds DEF IsProcedureEvent
  <2>2. SearchResult(i)
    <3>1. k \notin Positions
      BY <1>2 DEF Positions, TypeOK, StackTypeOK
    <3>2. ASSUME NEW p, NEW t, NEW ok, t # "SEARCH_CMPL", Tells(i, p, {Event(t, i, ok)})
          PROVE  FALSE
      <4>1. evq'[k] = Event(t, i, ok)
        BY <3>1, <3>2 DEF Tells, Adds
      <4> QED
        BY <1>2, <3>2, <4>1 DEF Event
    <3> QED
      BY <2>1, <3>2 DEF Answers
  <2> QED
    BY <1>2, <2>2, SearchReports
<1> QED
  BY <1>1, <1>2, StackEvents

\* An event of an open connection finds no flag set: its handler can close it.
LEMMA WorkAlone ==
  ASSUME TypeOK, RadioInv, FlagsEnd, OpenAhead, evq # << >>, IsProcedureEvent(ev),
         ev.id \in Apps, link[ev.id] = "up"
  PROVE  ~opening /\ ~closing /\ ~scanning
PROOF
<1> USE DEF RadioInv
<1>1. 1 \in Positions /\ ev = evq[1] /\ \A k \in Positions : k = 1 \/ 1 < k
  BY HeadOfQueue, QueueTyped DEF Positions
<1>2. ~Down /\ link[ev.id] # "down"
  BY DEF Down
<1>3. ~opening
  <2>1. \A i \in Apps : link[i] # "opening"
    BY <1>1 DEF OpenAhead
  <2>2. \A k \in Positions : evq[k].type # "OPEN"
    BY <1>1 DEF OpenAhead, IsProcedureEvent
  <2> QED
    BY <2>1, <2>2, QueuedAt DEF FlagsEnd
<1>4. ~closing
  <2>1. \A i \in Apps : link[i] # "closing"
    BY <1>2 DEF OneUseOfTheRadio
  <2>2. ~Has("CLOSE")
    BY <1>2 DEF EndEvents
  <2> QED
    BY <2>1, <2>2, QueuedAt DEF FlagsEnd, Has
<1>5. ~scanning
  <2>1. ~scan /\ ~Has("INQ_CMPL")
    BY <1>2 DEF ScanEvents
  <2>2. Has("STOPPED") => ~scanning
    BY DEF StopEvent
  <2> QED
    BY <2>1, <2>2, QueuedAt DEF FlagsEnd, Has
<1> QED
  BY <1>3, <1>4, <1>5

\* A connection that stays up loses none of the procedures that run.
LEMMA PendingKept ==
  ASSUME TypeOK, RadioInv, Callback, NEW i \in Apps, link'[i] = "up"
  PROVE  link[i] = "up" /\ pend[i] \subseteq pend'[i]
PROOF
<1>1. Asks /\ link[i] = "up"
  BY CallbackAsks, CallbackEffects
<1>2. pend \in [Apps -> SUBSET Procedures] /\ link \in [Apps -> LinkStates]
  BY DEF TypeOK, StackTypeOK
<1>3. CASE NoRequest \/ Scans \/ StopReq \/ \E j \in Apps : LinkOpened(j)
  BY <1>1, <1>3 DEF NoRequest, Scans, ScanReq, StopReq, LinkOpened
<1>4. CASE ClosesOwn
  <2>1. CASE i = ev.id
    BY <1>1, <1>2, <1>4, <2>1 DEF ClosesOwn, CloseReq
  <2>2. CASE i # ev.id
    BY <1>1, <1>2, <1>4, <2>2 DEF ClosesOwn, CloseReq
  <2> QED
    BY <2>1, <2>2
<1>5. CASE AsksOwn
  <2>1. PICK p \in Procedures : ev.id \in Apps /\ ProcedureReq(ev.id, p)
    BY <1>5 DEF AsksOwn
  <2>2. pend' = pend \/ pend' = [pend EXCEPT ![ev.id] = @ \cup {p}]
    BY <2>1 DEF ProcedureReq
  <2> QED
    BY <1>1, <1>2, <2>1, <2>2
<1> QED
  BY <1>1, <1>3, <1>4, <1>5 DEF Asks

\* What the handlers of the chain do with a connection that is up.
LEMMA ChainGoesOn ==
  ASSUME TypeOK, RadioInv, FlagsEnd, OpenAhead, SearchFinds, Callback, ~SkipEvent,
         "close" \notin Faults, ev.type \in {"DIS_SRVC_CMPL", "SEARCH_CMPL", "READ_CHAR"},
         ev.id \in Apps, link[ev.id] = "up"
  PROVE  link'[ev.id] = "closing" \/ pend'[ev.id] \cap {"search", "read"} # {}
PROOF
<1>a. evq # << >> /\ IsProcedureEvent(ev)
  BY CallbackAsks DEF IsProcedureEvent
<1>b. ~opening /\ ~closing /\ ~scanning
  BY <1>a, WorkAlone
<1>c. pend \in [Apps -> SUBSET Procedures] /\ link \in [Apps -> LinkStates]
  BY DEF TypeOK, StackTypeOK
<1>d. Close(ev.id, opening) => link'[ev.id] = "closing"
  BY <1>b, <1>c DEF Close, CloseReq, MayFail
<1>1. ASSUME NEW p \in {"search", "read"}, ProcedureReq(ev.id, p)
      PROVE  pend'[ev.id] \cap {"search", "read"} # {}
  <2>1. pend' = [pend EXCEPT ![ev.id] = @ \cup {p}]
    BY <1>1 DEF ProcedureReq
  <2>2. p \in pend'[ev.id]
    BY <1>c, <2>1
  <2> QED
    BY <2>2
<1>2. CASE ev.type = "DIS_SRVC_CMPL"
  <2>1. HandleDisSrvcCmpl
    BY <1>2 DEF Callback, HandleReg, HandleOpen, HandleCfgMtu, HandleSearchRes,
        HandleSearchCmpl, HandleReadChar, HandleClose, HandleDisconnect, HandleInqRes,
        HandleScanEnd, Handling, HandlingGap
  <2> QED
    BY <1>d, <1>1, <2>1 DEF HandleDisSrvcCmpl
<1>3. CASE ev.type = "SEARCH_CMPL"
  <2>1. HandleSearchCmpl
    BY <1>3 DEF Callback, HandleReg, HandleOpen, HandleCfgMtu, HandleDisSrvcCmpl, HandleSearchRes,
        HandleReadChar, HandleClose, HandleDisconnect, HandleInqRes,
        HandleScanEnd, Handling, HandlingGap
  <2>2. ev.id \in service_found
    <3>1. 1 \in Positions /\ ev = evq[1] /\ \A j \in Positions : ~(j < 1)
      BY <1>a, HeadOfQueue, QueueTyped DEF Positions
    <3> QED
      BY <1>3, <3>1 DEF SearchFinds
  <2> QED
    BY <1>d, <1>1, <2>1, <2>2 DEF HandleSearchCmpl
<1>4. CASE ev.type = "READ_CHAR"
  <2>1. HandleReadChar
    BY <1>4 DEF Callback, HandleReg, HandleOpen, HandleCfgMtu, HandleDisSrvcCmpl, HandleSearchRes,
        HandleSearchCmpl, HandleClose, HandleDisconnect, HandleInqRes,
        HandleScanEnd, Handling, HandlingGap
  <2> QED
    BY <1>d, <2>1 DEF HandleReadChar
<1> QED
  BY <1>2, <1>3, <1>4

ChainEvents == {"DIS_SRVC_CMPL", "SEARCH_CMPL", "READ_CHAR"}

LEMMA ChainCallback ==
  ASSUME TypeOK, TypeOK', RadioInv, FlagInv, LinkInv, Callback, "close" \notin Faults
  PROVE  Chain'
PROOF
<1> USE DEF FlagInv, LinkInv
<1>a. evq # << >> /\ HeadHandled /\ ~SkipEvent
  BY CallbackAsks, CallbackEffects, NoSkip
<1> SUFFICES ASSUME NEW i \in Apps, link'[i] = "up"
             PROVE  \/ pend'[i] \cap {"disc", "search", "read"} # {}
                    \/ Queued("DIS_SRVC_CMPL", i)' \/ Queued("SEARCH_CMPL", i)' \/ Queued("READ_CHAR", i)'
  BY DEF Chain
<1>1. link[i] = "up" /\ pend[i] \subseteq pend'[i]
  BY PendingKept
<1>2. CASE pend[i] \cap {"disc", "search", "read"} # {}
  BY <1>1, <1>2
<1>3. CASE ev.type \in ChainEvents /\ ev.id = i
  BY <1>a, <1>1, <1>3, ChainGoesOn DEF ChainEvents
<1>4. ASSUME NEW t \in ChainEvents, Queued(t, i), ~(ev.type = t /\ ev.id = i) PROVE Queued(t, i)'
  BY <1>a, <1>4, CallbackQueued
<1> QED
  BY <1>1, <1>2, <1>3, <1>4 DEF Chain, ChainEvents

LEMMA ChainStack ==
  ASSUME TypeOK, TypeOK', RadioInv, Chain, StackDoes
  PROVE  Chain'
PROOF
<1> SUFFICES ASSUME NEW i \in Apps, link'[i] = "up"
             PROVE  \/ pend'[i] \cap {"disc", "search", "read"} # {}
                    \/ Queued("DIS_SRVC_CMPL", i)' \/ Queued("SEARCH_CMPL", i)' \/ Queued("READ_CHAR", i)'
  BY DEF Chain
<1>a. pend \in [Apps -> SUBSET Procedures]
  BY DEF TypeOK, StackTypeOK
<1>1. CASE Opens(i)
  <2>1. "disc" \in pend'[i]
    BY <1>a, <1>1 DEF Opens
  <2> QED
    BY <2>1
<1>2. CASE ~Opens(i)
  <2>1. link'[i] = link[i] /\ link[i] # "down"
    BY <1>2, StackLinks
  <2>2. \A j \in Apps : j # i => link[j] = "down"
    BY <2>1 DEF RadioInv, OneUseOfTheRadio
  <2>3. CASE pend'[i] = pend[i]
    BY <2>1, <2>3, StackQueued DEF Chain
  <2>4. ASSUME NEW p, NEW S, Tells(i, p, S) PROVE pend'[i] = pend[i] \ {p} /\ Adds(S)
    BY <1>a, <2>4 DEF Tells
  <2>5. CASE Answers(i)
    <3>1. ASSUME NEW t, NEW ok, NEW p, Tells(i, p, {Event(t, i, ok)})
          PROVE  pend'[i] = pend[i] \ {p} /\ Queued(t, i)'
      <4> DEFINE S == {Event(t, i, ok)}
      <4>1. Event(t, i, ok) \in S /\ Tells(i, p, S)
        BY <3>1
      <4> HIDE DEF S
      <4> QED
        BY <2>4, <4>1, AddsQueued
    <3>2. CASE \E ok \in BOOLEAN : Tells(i, "mtu", {Event("CFG_MTU", i, ok)})
      <4>1. pend'[i] = pend[i] \ {"mtu"}
        BY <3>1, <3>2
      <4> QED
        BY <2>1, <4>1, StackQueued DEF Chain
    <3>3. CASE \E ok \in BOOLEAN : Tells(i, "read", {Event("READ_CHAR", i, ok)})
      BY <3>1, <3>3
    <3>4. CASE Tells(i, "disc", {Event("DIS_SRVC_CMPL", i, TRUE)})
      BY <3>1, <3>4
    <3>5. ASSUME NEW S, Event("SEARCH_CMPL", i, TRUE) \in S, Tells(i, "search", S)
          PROVE  Queued("SEARCH_CMPL", i)'
      BY <2>4, <3>5, AddsQueued
    <3> QED
      BY <2>5, <3>2, <3>3, <3>4, <3>5 DEF Answers
  <2>6. ASSUME NEW j \in Apps, j # i, Opens(j) \/ Fails(j) \/ Answers(j) \/ \E ok \in BOOLEAN : Ends(j, ok)
        PROVE  FALSE
    <3>1. link[j] = "down" /\ pend[j] = {}
      BY <2>2, <2>6 DEF RadioInv, PendingUp
    <3> QED
      BY <2>6, <3>1 DEF Opens, Fails, Ends, Answers, Tells
  <2>7. Fails(i) \/ (\E ok \in BOOLEAN : Ends(i, ok)) => link'[i] = "down"
    BY DEF Fails, Ends, TypeOK, StackTypeOK
  <2>8. (UNCHANGED pend) \/ Answers(i)
    BY <1>2, <2>1, <2>6, <2>7 DEF StackDoes, stackVars, Registers, ScanSays
  <2> QED
    BY <2>3, <2>5, <2>8
<1> QED
  BY <1>1, <1>2

LEMMA LinkUnchanged ==
  ASSUME LinkInv, UNCHANGED vars
  PROVE  LinkInv'
PROOF
  BY DEF LinkInv, OpenAhead, SearchFinds, Chain, IsProcedureEvent, Queued, Positions,
         vars, stackVars, managerVars, tableVars

LEMMA LinkInit ==
  ASSUME Init
  PROVE  LinkInv
PROOF
<1>1. Positions = {} /\ \A i \in Apps : link[i] = "down"
  BY DEF Init, StackInit, Positions
<1> QED
  BY <1>1 DEF LinkInv, OpenAhead, SearchFinds, Chain

LEMMA LinkNext ==
  ASSUME Faults \cap (FlagFaults \cup LinkFaults) = {},
         TypeOK, TypeOK', RadioInv, FlagInv, LinkInv, [Next]_vars
  PROVE  LinkInv'
PROOF
<1>a. "register" \notin Faults /\ "close" \notin Faults /\ "service" \notin Faults
  BY DEF FlagFaults, LinkFaults
<1>1. CASE Callback
  BY <1>a, <1>1, OpenAheadCallback, SearchFindsCallback, ChainCallback DEF LinkInv, FlagInv
<1>2. CASE Outside(StackNext)
  <2>1. StackDoes /\ UNCHANGED managerVars
    BY <1>a, <1>2, StackSteps DEF Outside
  <2> QED
    BY <1>a, <2>1, OpenAheadStack, SearchFindsStack, ChainStack DEF LinkInv
<1>3. CASE UNCHANGED vars
  BY <1>3, LinkUnchanged
<1> QED
  BY <1>1, <1>2, <1>3 DEF Next

\* LinkInv is inductive if moreover no close is refused and every remote offers the
\* service: the chain of an open connection is discovery, search, read, close.
THEOREM LinkInvariant ==
  ASSUME Faults \cap (FlagFaults \cup LinkFaults) = {}
  PROVE  Spec => []LinkInv
PROOF
<1>0. Spec => []FlagInv
  <2>1. Faults \cap FlagFaults = {}
    OBVIOUS
  <2> QED
    BY <2>1, FlagInvariant
<1>1. Init => LinkInv
  BY LinkInit
<1>2. TypeOK /\ TypeOK' /\ RadioInv /\ FlagInv /\ LinkInv /\ [Next]_vars => LinkInv'
  BY LinkNext
<1> QED
  BY <1>0, <1>1, <1>2, TypeCorrect, RadioInvariant, PTL DEF Spec

\* No connection is left open and forgotten: whoever is connected has an event
\* of its own under way or queued, until the hub closes it or it breaks.
THEOREM NoneForgotten ==
  ASSUME Faults \cap (FlagFaults \cup LinkFaults) = {}
  PROVE  Spec => []NoForgottenConnection
PROOF
<1>1. TypeOK /\ LinkInv => NoForgottenConnection
  BY QueuedAt DEF LinkInv, Chain, NoForgottenConnection, Queued
<1> QED
  BY <1>1, LinkInvariant, TypeCorrect, PTL

-----------------------------------------------------------------------------
(* LinksFound, OpeningDriven and Driven.                                   *)

\* A remote is forgotten only when its connection broke.
LEMMA FoundKept ==
  ASSUME TypeOK, Callback
  PROVE  \A i \in found : i \in found' \/ (IsError(ev) /\ ev.id = i)
PROOF
<1>1. CASE HandleDisconnect
  <2>1. /\ ev.type = "DISCONNECT" /\ ev.ok \in BOOLEAN
        /\ found' = found \/ (~ev.ok /\ found' = found \ {ev.id})
    BY <1>1, HeadType DEF HandleDisconnect, Handling, Events
  <2> QED
    BY <2>1 DEF IsError
<1>2. CASE HandleInqRes
  BY <1>2 DEF HandleInqRes
<1>3. CASE ~HandleDisconnect /\ ~HandleInqRes
  <2>1. UNCHANGED found
    BY <1>3 DEF Callback, SkipEvent, HandleReg, HandleOpen, HandleCfgMtu, HandleDisSrvcCmpl,
      HandleSearchRes, HandleSearchCmpl, HandleReadChar, HandleClose, HandleScanEnd,
      managerVars, tableVars
  <2> QED
    BY <2>1
<1> QED
  BY <1>1, <1>2, <1>3

LEMMA LinksFoundCallback ==
  ASSUME TypeOK, RadioInv, LinksFound, Callback
  PROVE  LinksFound'
PROOF
<1> SUFFICES ASSUME NEW i \in Apps, link'[i] # "down" PROVE i \in found'
  BY DEF LinksFound
<1>1. CASE LinkOpened(i)
  BY <1>1 DEF LinkOpened
<1>2. CASE link[i] # "down"
  <2>1. i \in found /\ ~HasError
    BY <1>2, Linked DEF LinksFound
  <2>2. ~IsError(ev)
    BY <2>1, CallbackAsks, HeadOrBehind
  <2> QED
    BY <2>1, <2>2, FoundKept
<1> QED
  BY <1>1, <1>2, CallbackEffects

LEMMA LinksFoundStack ==
  ASSUME TypeOK, RadioInv, LinksFound, StackDoes, UNCHANGED managerVars
  PROVE  LinksFound'
PROOF
<1>1. UNCHANGED found
  BY DEF managerVars, tableVars
<1>2. \A i \in Apps : link'[i] # "down" => link[i] # "down"
  BY StackLinks DEF Opens
<1> QED
  BY <1>1, <1>2 DEF LinksFound

\* The next connection is attempted.
LEMMA LinkOpenedUp ==
  ASSUME TypeOK, Registering, NEW i \in Apps, LinkOpened(i)
  PROVE  link'[i] = "opening" /\ LinkDriven'
PROOF
<1>1. registered = Apps
  BY AllRegistered DEF LinkOpened
<1>2. link'[i] = "opening"
  BY <1>1 DEF LinkOpened, TypeOK, StackTypeOK
<1> QED
  BY <1>2 DEF LinkDriven, Down

\* Only the handlers of a CLOSE and of a broken connection end what LinkDriven says.
LEMMA LinkDrivenCallback ==
  ASSUME TypeOK, TypeOK', RadioInv, Registering, LinkDriven, Callback,
         ev.type # "CLOSE", ~(IsError(ev) /\ ev.id \in found)
  PROVE  LinkDriven'
PROOF
<1>a. evq # << >> /\ HeadHandled
  BY CallbackAsks, CallbackEffects
<1>1. CASE ~Down
  <2>1. PICK i \in Apps : link[i] # "down"
    BY <1>1 DEF Down
  <2>2. link'[i] # "down"
    BY <2>1, CallbackEffects
  <2> QED
    BY <2>2 DEF LinkDriven, Down
<1>2. CASE Has("CLOSE")
  BY <1>a, <1>2, CallbackQueued DEF LinkDriven
<1>3. CASE ToBeNoted
  <2>1. PICK k \in Positions : IsError(evq[k]) /\ evq[k].id \in found
    BY <1>3 DEF ToBeNoted
  <2>2. k # 1
    BY <1>a, <2>1, HeadOfQueue
  <2>3. k > 1
    BY <2>2, QueueTyped
  <2>4. k - 1 \in Positions' /\ evq'[k - 1] = evq[k]
    BY <1>a, <2>3 DEF HeadHandled
  <2>5. evq[k].id \in found'
    BY <2>1, FoundKept
  <2> QED
    BY <2>1, <2>4, <2>5 DEF LinkDriven, ToBeNoted, IsError
<1> QED
  BY <1>1, <1>2, <1>3 DEF LinkDriven

LEMMA LinkDrivenStack ==
  ASSUME TypeOK, TypeOK', RadioInv, LinksFound, LinkDriven, StackDoes, UNCHANGED managerVars
  PROVE  LinkDriven'
PROOF
<1>a. UNCHANGED found
  BY DEF managerVars, tableVars
<1>1. CASE Has("CLOSE")
  BY <1>1, StackQueued DEF LinkDriven
<1>2. CASE ToBeNoted
  BY <1>a, <1>2, StackKeeps DEF LinkDriven, ToBeNoted, IsError
<1>3. CASE ~Down
  <2>1. PICK i \in Apps : link[i] # "down"
    BY <1>3 DEF Down
  <2>2. i \in found'
    BY <1>a, <2>1 DEF LinksFound
  <2>3. CASE link'[i] # "down"
    BY <2>3 DEF LinkDriven, Down
  <2>4. CASE Fails(i)
    <3>1. Event("DISCONNECT", i, FALSE) \in Heard(FALSE)
      BY DEF Heard
    <3>2. PICK k \in Positions' : evq'[k] = Event("DISCONNECT", i, FALSE)
      BY <2>4, <3>1 DEF Fails, Adds
    <3>3. IsError(evq'[k]) /\ evq'[k].id = i
      BY <3>2 DEF IsError, Event
    <3> QED
      BY <2>2, <3>3 DEF LinkDriven, ToBeNoted, IsError
  <2>5. ASSUME NEW ok \in BOOLEAN, Ends(i, ok) PROVE Has("CLOSE")'
    <3> DEFINE S == {Event("CLOSE", i, ok)} \cup Heard(ok)
    <3>1. Adds(S) /\ Event("CLOSE", i, ok) \in S
      BY <2>5 DEF Ends
    <3> HIDE DEF S
    <3> QED
      BY <3>1, AddsQueued
  <2>6. link'[i] # "down" \/ Fails(i) \/ \E ok \in BOOLEAN : Ends(i, ok)
    BY <2>1, StackLinks
  <2> QED
    BY <2>3, <2>4, <2>5, <2>6 DEF LinkDriven
<1> QED
  BY <1>1, <1>2, <1>3 DEF LinkDriven

\* When a CLOSE is handled the attempt that led to its connection has ended.
LEMMA CloseAfterOpen ==
  ASSUME TypeOK, RadioInv, FlagsEnd, OpenAhead, evq # << >>, ev.type = "CLOSE"
  PROVE  ~opening
PROOF
<1>1. 1 \in Positions /\ ev = evq[1] /\ \A k \in Positions : k = 1 \/ 1 < k
  BY HeadOfQueue, QueueTyped DEF Positions
<1>2. Down
  BY HeadOrBehind DEF RadioInv, EndEvents
<1>3. \A k \in Positions : evq[k].type # "OPEN"
  BY <1>1 DEF OpenAhead
<1> QED
  BY <1>2, <1>3, QueuedAt DEF FlagsEnd, Down

LEMMA OpeningDrivenCallback ==
  ASSUME TypeOK, TypeOK', RadioInv, FlagInv, LinkInv, OpeningDriven, Callback
  PROVE  OpeningDriven'
PROOF
<1> USE DEF FlagInv, LinkInv
<1> SUFFICES ASSUME opening' PROVE LinkDriven'
  BY DEF OpeningDriven
<1>a. evq # << >> /\ ~SkipEvent
  BY CallbackAsks, NoSkip
<1>1. CASE opening /\ found \subseteq found'
  <2>1. LinkDriven /\ ev.type # "CLOSE"
    BY <1>a, <1>1, CloseAfterOpen DEF OpeningDriven
  <2>2. ~(IsError(ev) /\ ev.id \in found)
    <3> SUFFICES ASSUME IsError(ev), ev.id \in found PROVE FALSE
      OBVIOUS
    <3>1. HandleDisconnect
      BY <1>a DEF IsError, Callback, HandleReg, HandleOpen, HandleCfgMtu, HandleDisSrvcCmpl,
        HandleSearchRes, HandleSearchCmpl, HandleReadChar, HandleClose, HandleInqRes,
        HandleScanEnd, Handling, HandlingGap
    <3> QED
      BY <1>1, <3>1 DEF HandleDisconnect, IsError
  <2> QED
    BY <2>1, <2>2, LinkDrivenCallback
<1>2. ASSUME NEW i \in Apps, LinkOpened(i) PROVE LinkDriven'
  BY <1>2, LinkOpenedUp
<1> QED
  BY <1>a, <1>1, <1>2, OpenFlag

LEMMA ScanDrivenCallback ==
  ASSUME TypeOK, TypeOK', RadioInv, ScanDriven, Callback, ev.type \notin {"INQ_CMPL", "STOPPED"}
  PROVE  ScanDriven'
PROOF
<1>1. evq # << >> /\ HeadHandled /\ (scan /\ ~scan' => \E k \in Positions' : evq'[k] = StoppedEvent)
  BY CallbackAsks, CallbackEffects
<1> QED
  BY <1>1, CallbackQueued DEF ScanDriven

LEMMA ScanningDriven ==
  ASSUME TypeOK, FlagsEnd, scanning
  PROVE  ScanDriven
PROOF
  BY QueuedAt DEF FlagsEnd, ScanDriven, Has

LEMMA DrivenCallback ==
  ASSUME TypeOK, TypeOK', RadioInv, FlagInv, LinkInv, OpeningDriven, Driven, Callback,
         "open" \notin Faults, "scan" \notin Faults, "scan_start" \notin Faults
  PROVE  Driven'
PROOF
<1> USE DEF FlagInv, LinkInv
<1>a. evq # << >> /\ HeadHandled /\ ~SkipEvent /\ UNCHANGED started
  BY CallbackAsks, CallbackEffects, NoSkip
<1>b. scan' => ScanDriven'
  BY DEF ScanDriven
<1>c. ASSUME scanning, ev.type \notin {"INQ_CMPL", "STOPPED"} PROVE ScanDriven'
  BY <1>c, ScanningDriven, ScanDrivenCallback
<1>d. ASSUME NEW i \in Apps, LinkOpened(i) PROVE LinkDriven'
  BY <1>d, LinkOpenedUp
<1>e. 0 \in Apps /\ (AllRemotesFound(found) => found # {})
  BY AppsProperties DEF AllRemotesFound
<1>1. CASE ev.type = "REG"
  <2>1. HandleReg
    BY <1>a, <1>1 DEF Callback, HandleOpen, HandleCfgMtu, HandleDisSrvcCmpl, HandleSearchRes,
      HandleSearchCmpl, HandleReadChar, HandleClose, HandleDisconnect, HandleInqRes,
      HandleScanEnd, Handling, HandlingGap
  <2>2. found = {} /\ ~opening /\ ~closing
    BY <1>a, <1>1, HeadOrBehind DEF RadioInv, Starting
  <2>3. StartScanning(opening, closing, scanning, found)
    BY <1>e, <2>1, <2>2 DEF HandleReg, OpenOrScan
  <2>4. scan' \/ scanning
    BY <1>e, <2>2, <2>3 DEF StartScanning, ScanReq, MayFail
  <2> QED
    BY <1>1, <1>b, <1>c, <2>4 DEF Driven
<1>2. CASE ev.type \in {"INQ_CMPL", "STOPPED"}
  <2>1. HandleScanEnd
    BY <1>a, <1>2 DEF Callback, HandleReg, HandleOpen, HandleCfgMtu, HandleDisSrvcCmpl,
      HandleSearchRes, HandleSearchCmpl, HandleReadChar, HandleClose, HandleDisconnect,
      HandleInqRes, Handling, HandlingGap
  <2>2. CASE OpensNextApp(opening, closing, FALSE)
    BY <1>d, <2>1, <2>2, ScanEndOpensNext DEF Driven
  <2>3. CASE /\ OpensNoApp(opening, closing, FALSE)
             /\ StartScanning(opening, closing, FALSE, found)
    <3>1. ~closing
      BY <2>1, ScanEndIdle
    <3>2. found = {} \/ opening
      BY <2>3, <3>1 DEF OpensNoApp, MayFail
    <3>3. scan' \/ opening
      BY <1>e, <2>3, <3>1, <3>2 DEF StartScanning, ScanReq, MayFail
    <3>4. ASSUME opening PROVE LinkDriven'
      <4>1. LinkDriven /\ ev.type # "CLOSE" /\ ~IsError(ev)
        BY <1>2, <3>4 DEF OpeningDriven, IsError
      <4> QED
        BY <4>1, LinkDrivenCallback
    <3> QED
      BY <1>b, <3>3, <3>4 DEF Driven
  <2> QED
    BY <2>1, <2>2, <2>3 DEF HandleScanEnd
<1>3. CASE ev.type = "CLOSE"
  <2>1. HandleClose
    BY <1>a, <1>3 DEF Callback, HandleReg, HandleOpen, HandleCfgMtu, HandleDisSrvcCmpl,
      HandleSearchRes, HandleSearchCmpl, HandleReadChar, HandleDisconnect, HandleInqRes,
      HandleScanEnd, Handling, HandlingGap
  <2>2. ~opening /\ OpenOrScan(opening, FALSE, scanning)
    BY <1>a, <1>3, <2>1, CloseAfterOpen DEF HandleClose
  <2>3. CASE AllRemotesFound(found) /\ OpensNextApp(opening, FALSE, scanning)
    BY <1>d, <2>1, <2>3, CloseOpensNext DEF Driven
  <2>4. CASE AllRemotesFound(found) /\ OpensNoApp(opening, FALSE, scanning)
    <3>1. scanning
      BY <1>e, <2>2, <2>4 DEF OpensNoApp, MayFail
    <3> QED
      BY <1>3, <1>c, <3>1 DEF Driven
  <2>5. CASE ~AllRemotesFound(found) /\ StartScanning(opening, FALSE, scanning, found)
    <3>1. scan' \/ scanning
      BY <2>2, <2>5 DEF StartScanning, ScanReq, MayFail
    <3> QED
      BY <1>3, <1>b, <1>c, <3>1 DEF Driven
  <2> QED
    BY <2>2, <2>3, <2>4, <2>5 DEF OpenOrScan
<1>4. CASE IsError(ev) /\ ev.id \in found
  <2>1. HandleDisconnect /\ ev.type = "DISCONNECT" /\ ~ev.ok
    BY <1>a, <1>4 DEF IsError, Callback, HandleReg, HandleOpen, HandleCfgMtu, HandleDisSrvcCmpl,
      HandleSearchRes, HandleSearchCmpl, HandleReadChar, HandleClose, HandleInqRes,
      HandleScanEnd, Handling, HandlingGap
  <2>2. found' = found \ {ev.id} /\ StartScanning(FALSE, FALSE, scanning, found')
    BY <1>4, <2>1 DEF HandleDisconnect
  <2>3. ~AllRemotesFound(found')
    BY <1>4, <2>2 DEF AllRemotesFound, TypeOK
  <2>4. scan' \/ scanning
    <3> DEFINE fnd == found'
    <3>1. StartScanning(FALSE, FALSE, scanning, fnd) /\ ~AllRemotesFound(fnd)
      BY <2>2, <2>3
    <3> HIDE DEF fnd
    <3> QED
      BY <3>1 DEF StartScanning, ScanReq, MayFail
  <2> QED
    BY <2>1, <1>b, <1>c, <2>4 DEF Driven
<1>5. CASE /\ ev.type \notin {"REG", "INQ_CMPL", "STOPPED", "CLOSE"}
           /\ ~(IsError(ev) /\ ev.id \in found)
  <2>1. Has("REG") => Has("REG")'
    BY <1>a, <1>5, CallbackQueued
  <2>2. ScanDriven => ScanDriven'
    BY <1>5, ScanDrivenCallback
  <2>3. LinkDriven => LinkDriven'
    BY <1>5, LinkDrivenCallback
  <2> QED
    BY <1>a, <2>1, <2>2, <2>3 DEF Driven
<1> QED
  BY <1>1, <1>2, <1>3, <1>4, <1>5

LEMMA DrivenStack ==
  ASSUME TypeOK, TypeOK', RadioInv, LinksFound, Driven, StackDoes, UNCHANGED managerVars
  PROVE  Driven'
PROOF
<1>1. CASE started < N
  <2>1. CASE UNCHANGED started
    BY <1>1, <2>1 DEF Driven
  <2>2. CASE Registers
    <3> DEFINE i == started
               S == {Event("REG", i, TRUE)}
    <3>1. Adds(S) /\ Event("REG", i, TRUE) \in S
      BY <2>2 DEF Registers
    <3> HIDE DEF S
    <3>2. \E k \in Positions' : evq'[k] = Event("REG", i, TRUE)
      BY <3>1 DEF Adds
    <3>3. Has("REG")'
      BY <3>2 DEF Has, Event
    <3> QED
      BY <3>3 DEF Driven
  <2>3. UNCHANGED started \/ Registers
    BY DEF StackDoes, ScanSays, Opens, Fails, Ends, Answers, Tells
  <2> QED
    BY <2>1, <2>2, <2>3
<1>2. CASE Has("REG")
  BY <1>2, StackQueued DEF Driven
<1>3. CASE ScanDriven
  <2>1. CASE Has("INQ_CMPL") \/ Has("STOPPED") \/ scan'
    BY <2>1, StackQueued DEF ScanDriven, Driven
  <2>2. CASE scan /\ ~scan'
    <3> DEFINE S == {Event("INQ_CMPL", 0, TRUE)}
    <3>1. Adds(S) /\ Event("INQ_CMPL", 0, TRUE) \in S
      BY <2>2, StackLinks DEF ScanSays
    <3> HIDE DEF S
    <3>2. Has("INQ_CMPL")'
      BY <3>1, AddsQueued
    <3> QED
      BY <3>2 DEF ScanDriven, Driven
  <2> QED
    BY <1>3, <2>1, <2>2 DEF ScanDriven
<1>4. CASE LinkDriven
  BY <1>4, LinkDrivenStack DEF Driven
<1> QED
  BY <1>1, <1>2, <1>3, <1>4 DEF Driven

LEMMA StartUnchanged ==
  ASSUME StartInv, UNCHANGED vars
  PROVE  StartInv'
PROOF
  BY DEF StartInv, LinksFound, OpeningDriven, Driven, LinkDriven, ScanDriven, ToBeNoted, Down,
         Has, IsError, Positions, vars, stackVars, envVars, managerVars, flags, tableVars

LEMMA StartInit ==
  ASSUME Init
  PROVE  StartInv
PROOF
<1>1. /\ started = 0 /\ ~opening /\ \A i \in Apps : link[i] = "down"
      /\ N \in Nat \ {0}
  BY AppsProperties DEF Init, StackInit
<1> QED
  BY <1>1 DEF StartInv, LinksFound, OpeningDriven, Driven

LEMMA StartNext ==
  ASSUME Faults \cap (FlagFaults \cup LinkFaults \cup StartFaults) = {},
         TypeOK, TypeOK', RadioInv, FlagInv, LinkInv, StartInv, [Next]_vars
  PROVE  StartInv'
PROOF
<1>a. /\ "register" \notin Faults /\ "scan_start" \notin Faults
      /\ "open" \notin Faults /\ "scan" \notin Faults
  BY DEF FlagFaults, StartFaults
<1>1. CASE Callback
  BY <1>a, <1>1, LinksFoundCallback, OpeningDrivenCallback, DrivenCallback DEF StartInv
<1>2. CASE Outside(StackNext)
  <2>1. StackDoes /\ UNCHANGED managerVars
    BY <1>a, <1>2, StackSteps DEF Outside
  <2>2. OpeningDriven'
    <3>1. UNCHANGED opening
      BY <2>1 DEF managerVars, flags
    <3> QED
      BY <2>1, <3>1, LinkDrivenStack DEF StartInv, OpeningDriven
  <2> QED
    BY <2>1, <2>2, LinksFoundStack, DrivenStack DEF StartInv
<1>3. CASE UNCHANGED vars
  BY <1>3, StartUnchanged
<1> QED
  BY <1>1, <1>2, <1>3 DEF Next

\* StartInv is inductive if moreover no open and no scan is refused: something is
\* always under way or queued whose handler starts the next step of the cycle.
THEOREM StartInvariant ==
  ASSUME Faults \cap (FlagFaults \cup LinkFaults \cup StartFaults) = {}
  PROVE  Spec => []StartInv
PROOF
<1>0. Spec => []FlagInv /\ []LinkInv
  <2>1. Faults \cap FlagFaults = {} /\ Faults \cap (FlagFaults \cup LinkFaults) = {}
    OBVIOUS
  <2> QED
    BY <2>1, FlagInvariant, LinkInvariant
<1>1. Init => StartInv
  BY StartInit
<1>2. TypeOK /\ TypeOK' /\ RadioInv /\ FlagInv /\ LinkInv /\ StartInv /\ [Next]_vars => StartInv'
  BY StartNext
<1> QED
  BY <1>0, <1>1, <1>2, TypeCorrect, RadioInvariant, PTL DEF Spec

\* The whole of it: ProgressInv is an invariant if none of those faults happens.
THEOREM ProgressInvariant ==
  ASSUME Faults \cap (FlagFaults \cup LinkFaults \cup StartFaults) = {}
  PROVE  Spec => []ProgressInv
PROOF
<1>1. Spec => []FlagInv /\ []LinkInv
  <2>1. Faults \cap FlagFaults = {} /\ Faults \cap (FlagFaults \cup LinkFaults) = {}
    OBVIOUS
  <2> QED
    BY <2>1, FlagInvariant, LinkInvariant
<1>2. FlagInv /\ LinkInv /\ StartInv => ProgressInv
  BY DEF ProgressInv
<1> QED
  BY <1>1, <1>2, StartInvariant, PTL

LEMMA DrivenComes ==
  ASSUME TypeOK, LinkInv, StartInv
  PROVE  EventComing
PROOF
<1>1. Positions # {} => evq # << >>
  BY DEF Positions
<1>2. \A type : Has(type) => evq # << >>
  BY <1>1 DEF Has
<1>3. ToBeNoted => evq # << >>
  BY <1>1 DEF ToBeNoted
<1>4. ASSUME ~Down PROVE EventComing
  <2>1. PICK i \in Apps : link[i] # "down"
    BY <1>4 DEF Down
  <2>2. CASE link[i] = "up"
    <3>1. pend[i] # {} \/ Positions # {}
      BY <2>2, QueuedAt DEF LinkInv, Chain
    <3> QED
      BY <1>1, <3>1 DEF EventComing
  <2>3. link[i] \in {"opening", "closing", "up"}
    BY <2>1 DEF TypeOK, StackTypeOK, LinkStates
  <2> QED
    BY <2>2, <2>3 DEF EventComing
<1> QED
  BY <1>2, <1>3, <1>4 DEF StartInv, Driven, ScanDriven, LinkDriven, EventComing

\* The hub never waits for nothing: an event is queued or something that ends in
\* one is under way, so that a program without a timer of its own goes on.
THEOREM AlwaysDriven ==
  ASSUME Faults \cap (FlagFaults \cup LinkFaults \cup StartFaults) = {}
  PROVE  Spec => []EventComing
PROOF
<1>1. Spec => []LinkInv
  <2>1. Faults \cap (FlagFaults \cup LinkFaults) = {}
    OBVIOUS
  <2> QED
    BY <2>1, LinkInvariant
<1>2. TypeOK /\ LinkInv /\ StartInv => EventComing
  BY DrivenComes
<1> QED
  BY <1>1, <1>2, StartInvariant, TypeCorrect, PTL
=============================================================================
