------------------------- MODULE ConnManagerProofs -------------------------
(***************************************************************************)
(* Proofs about ConnManager, for every number of applications and every    *)
(* set of faults.                                                          *)
(***************************************************************************)
EXTENDS ConnManagerInv, TLAPS, SequenceTheorems, WellFoundedInduction

\* A non-empty set of applications has a least element, and Min is it.
LEMMA MinOfApps ==
  ASSUME NEW S, S \subseteq Apps, S # {}
  PROVE  Min(S) \in S /\ \A j \in S : Min(S) <= j
PROOF
<1>1. S \subseteq Nat
  BY NAssumption DEF Apps
<1> DEFINE Less == {ss \in Nat \X Nat : ss[1] < ss[2]}
<1>2. IsWellFoundedOn(Less, Nat)
  <2>1. OpToRel(<, Nat) = Less
    BY DEF OpToRel
  <2> QED
    BY <2>1, NatLessThanWellFounded
<1> HIDE DEF Less
<1>3. PICK x \in S : \A y \in S : ~(<<y, x>> \in Less)
  BY <1>1, <1>2, WFMin
<1>4. \A y \in S : x <= y
  <2>1. ASSUME NEW y \in S, y < x PROVE <<y, x>> \in Less
    <3>1. <<y, x>> \in Nat \X Nat
      BY <1>1
    <3> QED
      BY <2>1, <3>1 DEF Less
  <2>2. \A y \in S : ~(y < x)
    BY <1>3, <2>1, Zenon
  <2> QED
    BY <1>1, <2>2
<1> QED
  BY <1>4 DEF Min

-----------------------------------------------------------------------------
(* Types.                                                                  *)

\* What every application's identifier is.
LEMMA AppsProperties ==
  Apps \subseteq Nat /\ 0 \in Apps /\ N \in Nat /\ Apps \subseteq Devices
PROOF
  BY NAssumption DEF Apps, Devices

LEMMA NextPrfType ==
  ASSUME NEW S, S \subseteq Apps, S # {}, NEW cur \in Apps
  PROVE  NextPrf(S, cur) \in S
PROOF
<1> DEFINE after == {i \in S : i > cur}
           upTo == {i \in S : i <= cur}
<1>1. CASE after # {}
  <2>1. Min(after) \in after
    BY <1>1, MinOfApps
  <2> QED
    BY <1>1, <2>1 DEF NextPrf
<1>2. CASE after = {}
  <2>1. upTo = S
    <3>1. S \subseteq Nat /\ cur \in Nat
      BY AppsProperties
    <3>2. \A i \in S : ~(i > cur)
      BY <1>2
    <3>3. \A i \in S : i <= cur
      BY <3>1, <3>2
    <3> QED
      BY <3>3, Zenon
  <2>2. Min(upTo) \in upTo
    BY <2>1, MinOfApps
  <2> QED
    BY <1>2, <2>2 DEF NextPrf
<1> QED
  BY <1>1, <1>2

\* The choice of ble_conn_mngr_next_prf brings every other candidate's turn nearer.
LEMMA NextPrfNearer ==
  ASSUME NEW S, S \subseteq Apps, NEW cur \in Apps, NEW i \in S, i # NextPrf(S, cur)
  PROVE  TurnsAhead(NextPrf(S, cur), i) < TurnsAhead(cur, i)
PROOF
<1> DEFINE next == NextPrf(S, cur)
           after == {j \in S : j > cur}
           upTo == {j \in S : j <= cur}
<1>1. N \in Nat /\ next \in 0 .. N - 1 /\ cur \in 0 .. N - 1 /\ i \in 0 .. N - 1
  BY AppsProperties, NextPrfType DEF Apps
<1>2. CASE after # {}
  <2>1. next > cur /\ \A j \in after : next <= j
    <3>1. Min(after) \in after /\ \A j \in after : Min(after) <= j
      BY <1>2, MinOfApps
    <3>2. next = Min(after)
      BY <1>2 DEF NextPrf
    <3> QED
      BY <3>1, <3>2
  <2>2. i > cur => next <= i
    BY <2>1
  <2> HIDE DEF next, after, upTo
  <2>3. TurnsAhead(next, i) < TurnsAhead(cur, i)
    BY <1>1, <2>1, <2>2 DEF TurnsAhead, next
  <2> QED
    BY <2>3 DEF next
<1>3. CASE after = {}
  <2>1. \A j \in S : j <= cur
    BY <1>1, <1>3 DEF Apps
  <2>2. upTo # {} /\ i \in upTo
    BY <2>1
  <2>3. next <= i
    <3>1. Min(upTo) <= i
      BY <2>2, MinOfApps
    <3>2. next = Min(upTo)
      BY <1>3 DEF NextPrf
    <3> QED
      BY <3>1, <3>2
  <2>4. i <= cur /\ i # next
    BY <2>1
  <2> HIDE DEF next, after, upTo
  <2>5. TurnsAhead(next, i) < TurnsAhead(cur, i)
    BY <1>1, <2>3, <2>4 DEF TurnsAhead
  <2> QED
    BY <2>5 DEF next
<1> QED
  BY <1>2, <1>3

\* What a callback may ask of the stack.
Request ==
  \/ NoRequest \/ ScanReq \/ StopReq
  \/ \E i \in Apps : \/ CloseReq(i)
                     \/ \E known \in BOOLEAN : OpenReq(i, known)
                     \/ \E p \in Procedures : ProcedureReq(i, p)

LEMMA RequestType ==
  ASSUME StackTypeOK, evq # << >>, Request, UNCHANGED envVars
  PROVE  StackTypeOK'
PROOF
<1>1. Tail(evq) \in Seq(Events)
  BY DEF StackTypeOK
<1>2. ASSUME NEW i \in Apps PROVE Append(Tail(evq), Event("OPEN", i, TRUE)) \in Seq(Events)
  BY <1>1, <1>2 DEF Event, Events, GattcTypes
<1>3. Append(Tail(evq), Event("STOPPED", 0, TRUE)) \in Seq(Events)
  BY <1>1, AppsProperties DEF Event, Events, GapTypes
<1> USE DEF StackTypeOK, envVars
<1>4. CASE NoRequest
  BY <1>1, <1>4 DEF NoRequest
<1>5. CASE ScanReq
  BY <1>1, <1>5 DEF ScanReq
<1>6. CASE StopReq
  BY <1>3, <1>6 DEF StopReq
<1>7. ASSUME NEW i \in Apps, CloseReq(i) PROVE StackTypeOK'
  BY <1>1, <1>7 DEF CloseReq, LinkStates
<1>8. ASSUME NEW i \in Apps, NEW known \in BOOLEAN, OpenReq(i, known) PROVE StackTypeOK'
  BY <1>1, <1>2, <1>8 DEF OpenReq, LinkStates
<1>9. ASSUME NEW i \in Apps, NEW p \in Procedures, ProcedureReq(i, p) PROVE StackTypeOK'
  BY <1>1, <1>9 DEF ProcedureReq
<1> QED
  BY <1>4, <1>5, <1>6, <1>7, <1>8, <1>9 DEF Request

\* Appending well-formed events keeps the queue well formed.
LEMMA NotifyType ==
  ASSUME evq \in Seq(Events), NEW s \in Seq(Events), Notify(s)
  PROVE  evq' \in Seq(Events)
PROOF
  BY DEF Notify

LEMMA OneEvent ==
  ASSUME NEW t \in GattcTypes, NEW i \in Apps, NEW ok \in BOOLEAN
  PROVE  /\ Event(t, i, ok) \in Events
         /\ <<Event(t, i, ok)>> \in Seq(Events)
         /\ Len(<<Event(t, i, ok)>>) = 1 /\ <<Event(t, i, ok)>>[1] = Event(t, i, ok)
PROOF
<1>1. Event(t, i, ok) \in Events
  BY DEF Event, Events
<1> DEFINE e == Event(t, i, ok)
<1> HIDE DEF e
<1>2. ASSUME e \in Events PROVE <<e>> \in Seq(Events) /\ Len(<<e>>) = 1 /\ <<e>>[1] = e
  BY <1>2
<1> QED
  BY <1>1, <1>2 DEF e

LEMMA OneGapEvent ==
  ASSUME NEW t \in GapTypes, NEW d \in Devices
  PROVE  /\ Event(t, d, TRUE) \in Events
         /\ <<Event(t, d, TRUE)>> \in Seq(Events)
         /\ Len(<<Event(t, d, TRUE)>>) = 1 /\ <<Event(t, d, TRUE)>>[1] = Event(t, d, TRUE)
PROOF
<1>1. Event(t, d, TRUE) \in Events
  BY DEF Event, Events
<1> DEFINE e == Event(t, d, TRUE)
<1> HIDE DEF e
<1>2. ASSUME e \in Events PROVE <<e>> \in Seq(Events) /\ Len(<<e>>) = 1 /\ <<e>>[1] = e
  BY <1>2
<1> QED
  BY <1>1, <1>2 DEF e

LEMMA BroadcastShape ==
  ASSUME NEW local \in BOOLEAN
  PROVE  /\ Broadcast(local) \in Seq(Events)
         /\ Len(Broadcast(local)) = N
         /\ \A k \in 1 .. N : Broadcast(local)[k] = Event("DISCONNECT", k - 1, local)
PROOF
<1>1. \A k \in 1 .. N : Event("DISCONNECT", k - 1, local) \in Events
  BY AppsProperties DEF Event, Events, GattcTypes, Apps
<1> QED
  BY <1>1, AppsProperties DEF Broadcast

\* The report of a broken link: the broadcast with the owner's CLOSE in it.
LEMMA LossShape ==
  ASSUME NEW i \in Apps, NEW k \in i + 2 .. N + 1
  PROVE  LET s == InsertAt(Broadcast(FALSE), k, Event("CLOSE", i, FALSE))
         IN  /\ s \in Seq(Events)
             /\ Len(s) = N + 1
             /\ \A j \in 1 .. N + 1 : s[j] = IF j < k THEN Event("DISCONNECT", j - 1, FALSE)
                                             ELSE IF j = k THEN Event("CLOSE", i, FALSE)
                                             ELSE Event("DISCONNECT", j - 2, FALSE)
PROOF
<1> DEFINE b == Broadcast(FALSE)
           c == Event("CLOSE", i, FALSE)
           front == SubSeq(b, 1, k - 1)
           back == SubSeq(b, k, N)
<1>1. k \in 2 .. N + 1 /\ N \in Nat
  BY AppsProperties DEF Apps
<1>2. /\ b \in Seq(Events) /\ Len(b) = N
      /\ \A j \in 1 .. N : b[j] = Event("DISCONNECT", j - 1, FALSE) /\ b[j] \in Events
  BY BroadcastShape, ElementOfSeq
<1>3. c \in Events /\ <<c>> \in Seq(Events) /\ Len(<<c>>) = 1 /\ <<c>>[1] = c
  BY OneEvent DEF GattcTypes
<1> HIDE DEF b, c
<1>4. /\ front \in Seq(Events) /\ Len(front) = k - 1
      /\ \A j \in 1 .. k - 1 : front[j] = b[j]
  <2>1. \A j \in 1 .. k - 1 : b[j] \in Events
    BY <1>1, <1>2
  <2> QED
    BY <1>1, <2>1, SubSeqProperties
<1>5. /\ back \in Seq(Events) /\ Len(back) = N + 1 - k
      /\ \A j \in 1 .. N + 1 - k : back[j] = b[k + j - 1]
  <2>1. \A j \in k .. N : b[j] \in Events
    BY <1>1, <1>2
  <2> QED
    BY <1>1, <2>1, SubSeqProperties
<1> HIDE DEF front, back
<1>6. /\ front \o <<c>> \in Seq(Events) /\ Len(front \o <<c>>) = k
      /\ \A j \in 1 .. k : (front \o <<c>>)[j] = IF j < k THEN b[j] ELSE c
  BY <1>1, <1>3, <1>4, ConcatProperties
<1> DEFINE fc == front \o <<c>>
<1> HIDE DEF fc
<1> DEFINE r == fc \o back
<1>7. /\ r \in Seq(Events) /\ Len(r) = N + 1
      /\ \A j \in 1 .. k : r[j] = fc[j]
      /\ \A j \in k + 1 .. N + 1 : r[j] = back[j - k]
  <2>1. fc \in Seq(Events) /\ Len(fc) = k
    BY <1>6 DEF fc
  <2>2. r \in Seq(Events) /\ Len(r) = Len(fc) + Len(back)
    BY <1>5, <2>1, ConcatProperties
  <2>3. \A j \in 1 .. Len(fc) + Len(back) : r[j] = IF j <= Len(fc) THEN fc[j] ELSE back[j - Len(fc)]
    BY <1>5, <2>1, ConcatProperties
  <2> HIDE DEF r
  <2>4. Len(fc) + Len(back) = N + 1
    BY <1>1, <1>5, <2>1
  <2>5. ASSUME NEW j \in 1 .. k PROVE r[j] = fc[j]
    BY <1>1, <2>1, <2>3, <2>4
  <2>6. ASSUME NEW j \in k + 1 .. N + 1 PROVE r[j] = back[j - k]
    BY <1>1, <2>1, <2>3, <2>4
  <2> QED
    BY <2>2, <2>4, <2>5, <2>6
<1>8. InsertAt(b, k, c) = r
  BY <1>2 DEF InsertAt, r, fc, front, back
<1> HIDE DEF r
<1>9. ASSUME NEW j \in 1 .. N + 1, j < k PROVE r[j] = Event("DISCONNECT", j - 1, FALSE)
  <2>1. j \in 1 .. k /\ j \in 1 .. N
    BY <1>1, <1>9
  <2>2. r[j] = b[j]
    BY <1>1, <1>6, <1>7, <1>9, <2>1 DEF fc
  <2> QED
    BY <1>2, <2>1, <2>2, Zenon
<1>10. r[k] = c
  BY <1>1, <1>6, <1>7 DEF fc
<1>11. ASSUME NEW j \in 1 .. N + 1, j > k PROVE r[j] = Event("DISCONNECT", j - 2, FALSE)
  <2>1. j \in k + 1 .. N + 1 /\ j - k \in 1 .. N + 1 - k /\ k + (j - k) - 1 = j - 1
    BY <1>1, <1>11
  <2>2. r[j] = b[j - 1]
    BY <1>5, <1>7, <2>1
  <2>3. j - 1 \in 1 .. N /\ j - 1 - 1 = j - 2
    BY <1>1, <1>11
  <2> QED
    BY <1>2, <2>2, <2>3, Zenon
<1>12. ASSUME NEW j \in 1 .. N + 1
       PROVE  r[j] = IF j < k THEN Event("DISCONNECT", j - 1, FALSE)
                     ELSE IF j = k THEN c
                     ELSE Event("DISCONNECT", j - 2, FALSE)
  <2>1. (j < k \/ j = k \/ j > k) /\ (j = k => ~(j < k)) /\ (j > k => ~(j < k) /\ j # k)
    BY <1>1
  <2> QED
    BY <1>9, <1>10, <1>11, <2>1, Zenon
<1> QED
  BY <1>7, <1>8, <1>12 DEF b, c

LEMMA LinkStepType ==
  ASSUME StackTypeOK, NEW i \in Apps, LinkStep(i)
  PROVE  StackTypeOK'
PROOF
<1> USE DEF StackTypeOK, envVars
<1>1. CASE OpenSucceeds(i)
  <2>1. <<Event("OPEN", i, TRUE)>> \in Seq(Events)
    BY OneEvent DEF GattcTypes
  <2> QED
    BY <1>1, <2>1, NotifyType DEF OpenSucceeds, LinkStates, Procedures
<1>2. CASE OpenFails(i)
  <2> DEFINE opened == <<Event("OPEN", i, FALSE)>>
  <2>1. opened \in Seq(Events)
    BY OneEvent DEF GattcTypes
  <2>2. opened \o Broadcast(FALSE) \in Seq(Events) /\ Broadcast(FALSE) \o opened \in Seq(Events)
    <3> HIDE DEF opened
    <3> QED
      BY <2>1, BroadcastShape, ConcatProperties
  <2>3. evq' \in Seq(Events)
    BY <1>2, <2>2, NotifyType DEF OpenFails
  <2> QED
    BY <1>2, <2>3 DEF OpenFails, LinkStates
<1>3. CASE Closed(i)
  <2> DEFINE closed == <<Event("CLOSE", i, TRUE)>>
  <2>1. closed \in Seq(Events)
    BY OneEvent DEF GattcTypes
  <2>2. closed \o Broadcast(TRUE) \in Seq(Events)
    <3> HIDE DEF closed
    <3> QED
      BY <2>1, BroadcastShape, ConcatProperties
  <2> QED
    BY <1>3, <2>2, NotifyType DEF Closed, LinkStates
<1>4. CASE LinkLoss(i)
  <2>1. PICK k \in i + 2 .. N + 1 :
          Notify(InsertAt(Broadcast(FALSE), k, Event("CLOSE", i, FALSE)))
    BY <1>4 DEF LinkLoss
  <2>2. evq' \in Seq(Events)
    BY <2>1, LossShape, NotifyType
  <2> QED
    BY <1>4, <2>2 DEF LinkLoss, LinkStates
<1>5. ASSUME NEW p, NEW s \in Seq(Events), Report(i, p, s)
      PROVE  StackTypeOK'
  BY <1>5, NotifyType DEF Report
<1>6. CASE MtuResult(i)
  BY <1>5, <1>6, OneEvent DEF MtuResult, GattcTypes
<1>7. CASE ServicesDiscovered(i)
  <2>1. <<Event("DIS_SRVC_CMPL", i, TRUE)>> \in Seq(Events)
    BY OneEvent DEF GattcTypes
  <2> QED
    BY <1>5, <1>7, <2>1 DEF ServicesDiscovered
<1>8. CASE SearchResult(i)
  <2> DEFINE complete == <<Event("SEARCH_CMPL", i, TRUE)>>
             result(ok) == <<Event("SEARCH_RES", i, ok)>>
  <2>1. complete \in Seq(Events) /\ result(TRUE) \in Seq(Events) /\ result(FALSE) \in Seq(Events)
    BY OneEvent DEF GattcTypes
  <2>2. result(TRUE) \o complete \in Seq(Events) /\ result(FALSE) \o complete \in Seq(Events)
    <3> HIDE DEF complete, result
    <3> QED
      BY <2>1, ConcatProperties
  <2> QED
    BY <1>5, <1>8, <2>1, <2>2 DEF SearchResult
<1>9. CASE ReadResult(i)
  BY <1>5, <1>9, OneEvent DEF ReadResult, GattcTypes
<1> QED
  BY <1>1, <1>2, <1>3, <1>4, <1>6, <1>7, <1>8, <1>9 DEF LinkStep

LEMMA StackStepType ==
  ASSUME StackTypeOK, StackNext
  PROVE  StackTypeOK'
PROOF
<1> USE DEF StackTypeOK, envVars, stackVars
<1>1. CASE RegisterNext
  <2>1. started + 1 \in 0 .. N /\ N \in 0 .. N /\ started \in Apps
    BY <1>1, AppsProperties DEF RegisterNext, Apps
  <2>2. \A ok \in BOOLEAN : <<Event("REG", started, ok)>> \in Seq(Events)
    BY <2>1, OneEvent DEF GattcTypes
  <2>3. evq' \in Seq(Events)
    BY <1>1, <2>2, NotifyType DEF RegisterNext
  <2> QED
    BY <1>1, <2>1, <2>3 DEF RegisterNext
<1>2. CASE ScanTimeout
  <2>1. <<Event("INQ_CMPL", 0, TRUE)>> \in Seq(Events)
    BY AppsProperties, OneGapEvent DEF GapTypes
  <2> QED
    BY <1>2, <2>1, NotifyType DEF ScanTimeout
<1>3. CASE Calm
  BY <1>3 DEF Calm
<1>4. CASE \E i \in Apps : LinkStep(i)
  BY <1>4, LinkStepType
<1>5. CASE \E i \in Apps : PowerOff(i) \/ PowerOn(i)
  BY <1>5 DEF PowerOff, PowerOn
<1>6. ASSUME NEW d \in Devices, Advertise(d) PROVE StackTypeOK'
  <2>1. <<Event("INQ_RES", d, TRUE)>> \in Seq(Events)
    BY AppsProperties, OneGapEvent DEF GapTypes
  <2> QED
    BY <1>6, <2>1, NotifyType DEF Advertise
<1> QED
  BY <1>1, <1>2, <1>3, <1>4, <1>5, <1>6 DEF StackNext

-----------------------------------------------------------------------------
(* The manager's part of the state is typed, and what a callback asks of   *)
(* the stack is a request.                                                 *)

FlagsTyped == scanning \in BOOLEAN /\ opening \in BOOLEAN /\ closing \in BOOLEAN

LEMMA StartScanningType ==
  ASSUME NEW op \in BOOLEAN, NEW cl \in BOOLEAN, NEW sc \in BOOLEAN, NEW fnd,
         StartScanning(op, cl, sc, fnd)
  PROVE  Request /\ FlagsTyped'
PROOF
  BY DEF StartScanning, KeepFlags, Request, FlagsTyped

LEMMA OpensNextAppType ==
  ASSUME TypeOK, NEW op \in BOOLEAN, NEW cl \in BOOLEAN, NEW sc \in BOOLEAN,
         OpensNextApp(op, cl, sc)
  PROVE  Request /\ FlagsTyped' /\ curr_prf_idx' \in Apps
PROOF
<1>1. NextPrf(found, curr_prf_idx) \in Apps
  BY NextPrfType DEF OpensNextApp, TypeOK
<1>2. curr_prf_idx' \in Apps /\ FlagsTyped'
  BY <1>1 DEF OpensNextApp, KeepFlags, FlagsTyped
<1>3. \E i \in Apps, known \in BOOLEAN : OpenReq(i, known)
  <2> DEFINE next == NextPrf(found, curr_prf_idx)
             known == next \in registered
  <2>1. next \in Apps /\ known \in BOOLEAN /\ OpenReq(next, known)
    BY <1>1 DEF OpensNextApp
  <2> HIDE DEF next, known
  <2> QED
    BY <2>1, Zenon
<1> QED
  BY <1>2, <1>3 DEF Request

LEMMA OpensNoAppType ==
  ASSUME TypeOK, NEW op, NEW cl, NEW sc, OpensNoApp(op, cl, sc)
  PROVE  curr_prf_idx' \in Apps
PROOF
  BY NextPrfType DEF OpensNoApp, TypeOK

LEMMA OpenOrScanType ==
  ASSUME TypeOK, NEW op \in BOOLEAN, NEW cl \in BOOLEAN, NEW sc \in BOOLEAN,
         OpenOrScan(op, cl, sc)
  PROVE  Request /\ FlagsTyped' /\ curr_prf_idx' \in Apps
PROOF
<1>1. CASE OpensNextApp(op, cl, sc)
  BY <1>1, OpensNextAppType
<1>2. CASE OpensNoApp(op, cl, sc) /\ NoRequest /\ KeepFlags(op, cl, sc)
  BY <1>2, OpensNoAppType DEF Request, KeepFlags, FlagsTyped
<1>3. CASE StartScanning(op, cl, sc, found) /\ UNCHANGED curr_prf_idx
  BY <1>3, StartScanningType DEF TypeOK
<1> QED
  BY <1>1, <1>2, <1>3 DEF OpenOrScan

LEMMA CloseType ==
  ASSUME FlagsTyped, NEW i \in Apps, NEW op \in BOOLEAN, Close(i, op)
  PROVE  Request /\ FlagsTyped'
PROOF
  BY DEF Close, KeepFlags, Request, FlagsTyped

LEMMA StopScanningType ==
  ASSUME FlagsTyped, StopScanning
  PROVE  Request /\ FlagsTyped'
PROOF
  BY DEF StopScanning, KeepFlags, Request, FlagsTyped, flags

LEMMA ProcedureIsRequest ==
  ASSUME NEW i \in Apps, NEW p \in Procedures, ProcedureReq(i, p)
  PROVE  Request
PROOF
  BY DEF Request

LEMMA ReaderType ==
  ASSUME ReaderTypeOK, NEW i \in Apps, ReaderIdle \/ ReaderStore(i) \/ ReaderClose \/ ReaderScanEnded
  PROVE  ReaderTypeOK'
PROOF
  BY DEF ReaderTypeOK, ReaderIdle, ReaderStore, ReaderClose, ReaderScanEnded, Launches

\* A GATTC event handled for an application names that application.
LEMMA HeadType ==
  ASSUME TypeOK, evq # << >>
  PROVE  /\ ev \in Events
         /\ ev.ok \in BOOLEAN /\ ev.id \in Devices
         /\ ev.type \in GattcTypes => ev.id \in Apps
PROOF
<1>1. ev \in Events
  BY HeadTailProperties DEF TypeOK, StackTypeOK, ev
<1> QED
  BY <1>1, AppsProperties DEF Events, GattcTypes, GapTypes

TablesTyped ==
  /\ found \subseteq Apps /\ registered \subseteq Apps
  /\ connected \subseteq Apps /\ service_found \subseteq Apps

\* What makes a callback keep the types.
CallbackTyped ==
  /\ Request /\ UNCHANGED envVars
  /\ FlagsTyped' /\ curr_prf_idx' \in Apps
  /\ TablesTyped' /\ ReaderTypeOK'

LEMMA CallbackStepTyped ==
  ASSUME TypeOK, Callback
  PROVE  evq # << >> /\ CallbackTyped
PROOF
<1> evq # << >> /\ UNCHANGED envVars
  BY DEF Callback, SkipEvent, HandleReg, HandleOpen, HandleCfgMtu, HandleDisSrvcCmpl,
         HandleSearchRes, HandleSearchCmpl, HandleReadChar, HandleClose, HandleDisconnect,
         HandleInqRes, HandleScanEnd, Handling, HandlingGap
<1>a. FlagsTyped /\ TablesTyped /\ ReaderTypeOK /\ curr_prf_idx \in Apps
  BY DEF TypeOK, FlagsTyped, TablesTyped
<1>b. ev.ok \in BOOLEAN /\ (ev.type \in GattcTypes => ev.id \in Apps)
  BY HeadType
<1>c. opening \in BOOLEAN /\ closing \in BOOLEAN /\ scanning \in BOOLEAN
  BY <1>a DEF FlagsTyped
<1>d. NoRequest => Request
  BY DEF Request
<1>e. ReaderIdle => ReaderTypeOK'
  BY <1>a, AppsProperties, ReaderType
<1>f. UNCHANGED flags => FlagsTyped'
  BY <1>a DEF flags, FlagsTyped
<1>g. UNCHANGED tableVars => TablesTyped'
  BY <1>a DEF tableVars, TablesTyped
<1>1. CASE SkipEvent
  BY <1>1, <1>a, <1>d, <1>e, <1>f, <1>g DEF SkipEvent, CallbackTyped, managerVars
<1>2. CASE HandleReg
  <2>1. ev.id \in Apps
    BY <1>2, <1>b DEF HandleReg, HandlingGap, GattcTypes
  <2>2. Request /\ FlagsTyped' /\ curr_prf_idx' \in Apps
    BY <1>2, <1>c, OpenOrScanType DEF HandleReg
  <2>3. TablesTyped' /\ ReaderTypeOK'
    BY <1>2, <1>a, <1>e, <2>1 DEF HandleReg, TablesTyped
  <2> QED
    BY <2>2, <2>3 DEF CallbackTyped
<1>3. CASE HandleOpen
  <2>1. ev.id \in Apps
    BY <1>3, <1>b DEF HandleOpen, Handling, GattcTypes
  <2>2. TablesTyped' /\ ReaderTypeOK' /\ curr_prf_idx' \in Apps
    BY <1>3, <1>a, <1>e, <2>1 DEF HandleOpen, TablesTyped
  <2>3. Request /\ FlagsTyped'
    <3>1. CASE NoRequest /\ KeepFlags(FALSE, closing, scanning)
      BY <3>1, <1>c, <1>d DEF KeepFlags, FlagsTyped
    <3>2. CASE ProcedureReq(ev.id, "mtu") /\ KeepFlags(FALSE, closing, scanning)
      BY <3>2, <1>c, <2>1, ProcedureIsRequest DEF KeepFlags, FlagsTyped, Procedures
    <3>3. CASE Close(ev.id, FALSE)
      BY <3>3, <1>a, <2>1, CloseType
    <3> QED
      BY <1>3, <3>1, <3>2, <3>3 DEF HandleOpen
  <2> QED
    BY <2>2, <2>3 DEF CallbackTyped
<1>4. CASE HandleCfgMtu
  <2>1. ev.id \in Apps
    BY <1>4, <1>b DEF HandleCfgMtu, Handling, GattcTypes
  <2>2. Request /\ FlagsTyped'
    BY <1>4, <1>a, <1>c, <1>d, <1>f, <2>1, CloseType DEF HandleCfgMtu
  <2> QED
    BY <1>4, <1>a, <1>e, <1>g, <2>2 DEF HandleCfgMtu, CallbackTyped
<1>5. CASE HandleDisSrvcCmpl
  <2>1. ev.id \in Apps
    BY <1>5, <1>b DEF HandleDisSrvcCmpl, Handling, GattcTypes
  <2>2. "search" \in Procedures
    BY DEF Procedures
  <2>3. Request /\ FlagsTyped'
    BY <1>5, <1>a, <1>c, <1>f, <2>1, <2>2, CloseType, ProcedureIsRequest DEF HandleDisSrvcCmpl
  <2> QED
    BY <1>5, <1>a, <1>e, <1>g, <2>3 DEF HandleDisSrvcCmpl, CallbackTyped
<1>6. CASE HandleSearchRes
  <2>1. ev.id \in Apps
    BY <1>6, <1>b DEF HandleSearchRes, Handling, GattcTypes
  <2>2. TablesTyped'
    BY <1>6, <1>a, <2>1 DEF HandleSearchRes, TablesTyped
  <2> QED
    BY <1>6, <1>a, <1>d, <1>e, <1>f, <2>2 DEF HandleSearchRes, CallbackTyped
<1>7. CASE HandleSearchCmpl
  <2>1. ev.id \in Apps
    BY <1>7, <1>b DEF HandleSearchCmpl, Handling, GattcTypes
  <2>2. "read" \in Procedures
    BY DEF Procedures
  <2>3. Request /\ FlagsTyped'
    BY <1>7, <1>a, <1>c, <1>d, <1>f, <2>1, <2>2, CloseType, ProcedureIsRequest
       DEF HandleSearchCmpl
  <2> QED
    BY <1>7, <1>a, <1>e, <1>g, <2>3 DEF HandleSearchCmpl, CallbackTyped
<1>8. CASE HandleReadChar
  <2>1. ev.id \in Apps
    BY <1>8, <1>b DEF HandleReadChar, Handling, GattcTypes
  <2>2. Request /\ FlagsTyped'
    BY <1>8, <1>a, <1>c, <2>1, CloseType DEF HandleReadChar
  <2>3. ReaderTypeOK'
    BY <1>8, <1>a, <2>1, ReaderType DEF HandleReadChar
  <2> QED
    BY <1>8, <1>a, <1>g, <2>2, <2>3 DEF HandleReadChar, CallbackTyped
<1>9. CASE HandleClose
  <2>1. Request /\ FlagsTyped' /\ curr_prf_idx' \in Apps
    BY <1>9, <1>c, OpenOrScanType DEF HandleClose
  <2>2. TablesTyped' /\ ReaderTypeOK'
    BY <1>9, <1>a, AppsProperties, ReaderType DEF HandleClose, TablesTyped
  <2> QED
    BY <2>1, <2>2 DEF CallbackTyped
<1>10. CASE HandleDisconnect
  <2>1. Request /\ FlagsTyped'
    BY <1>10, <1>c, <1>d, <1>f, StartScanningType DEF HandleDisconnect
  <2>2. TablesTyped'
    BY <1>10, <1>a DEF HandleDisconnect, TablesTyped
  <2> QED
    BY <1>10, <1>a, <1>e, <2>1, <2>2 DEF HandleDisconnect, CallbackTyped
<1>11. CASE HandleInqRes
  <2>1. Request /\ FlagsTyped'
    BY <1>11, <1>a, <1>d, <1>f, StopScanningType DEF HandleInqRes
  <2>2. TablesTyped'
    BY <1>11, <1>a DEF HandleInqRes, TablesTyped, RemotesNamed
  <2> QED
    BY <1>11, <1>a, <1>e, <2>1, <2>2 DEF HandleInqRes, CallbackTyped
<1>12. CASE HandleScanEnd
  <2>1. Request /\ FlagsTyped' /\ curr_prf_idx' \in Apps
    BY <1>12, <1>c, OpensNextAppType, OpensNoAppType, StartScanningType DEF HandleScanEnd
  <2>2. ReaderTypeOK'
    BY <1>12, <1>a, AppsProperties, ReaderType DEF HandleScanEnd
  <2> QED
    BY <1>12, <1>g, <2>1, <2>2 DEF HandleScanEnd, CallbackTyped
<1> QED
  BY <1>1, <1>2, <1>3, <1>4, <1>5, <1>6, <1>7, <1>8, <1>9, <1>10, <1>11, <1>12 DEF Callback

\* One step keeps the types.
LEMMA NextType ==
  ASSUME TypeOK, [Next]_vars
  PROVE  TypeOK'
PROOF
<1>1. CASE Callback
  <2>1. evq # << >> /\ CallbackTyped
    BY <1>1, CallbackStepTyped
  <2>2. StackTypeOK'
    BY <2>1, RequestType DEF CallbackTyped, TypeOK
  <2> QED
    BY <2>1, <2>2 DEF CallbackTyped, FlagsTyped, TablesTyped, TypeOK
<1>2. CASE Outside(StackNext)
  <2>1. StackTypeOK'
    BY <1>2, StackStepType DEF Outside, TypeOK
  <2>2. ReaderTypeOK'
    BY <1>2, AppsProperties, ReaderType DEF Outside, TypeOK
  <2> QED
    BY <1>2, <2>1, <2>2 DEF Outside, TypeOK, managerVars, flags, tableVars
<1>3. CASE UNCHANGED vars
  BY <1>3 DEF TypeOK, StackTypeOK, ReaderTypeOK, vars, stackVars, envVars, readerVars,
              managerVars, flags, tableVars
<1> QED
  BY <1>1, <1>2, <1>3 DEF Next

LEMMA InitType ==
  ASSUME Init
  PROVE  TypeOK
PROOF
<1>1. StackTypeOK
  BY AppsProperties DEF Init, StackInit, StackTypeOK, LinkStates
<1>2. ReaderTypeOK
  BY DEF Init, ReaderInit, ReaderTypeOK, Launches
<1> QED
  BY <1>1, <1>2, AppsProperties DEF Init, TableInit, TypeOK

\* Every variable keeps its type, for every number of applications and every
\* set of faults: whatever the stack reports and the remotes advertise
\* (ble_conn_mngr_gattc_cb, ble_conn_mngr_gap_cb), the tables of the context
\* name only applications that exist and the cursor stays within them.
THEOREM TypeCorrect == Spec => []TypeOK
PROOF
<1>1. Init => TypeOK
  BY InitType
<1>2. TypeOK /\ [Next]_vars => TypeOK'
  BY NextType
<1> QED
  BY <1>1, <1>2, PTL DEF Spec
-----------------------------------------------------------------------------
(* Turns.                                                                  *)

\* No attempt to connect begins, but for those of applications in S.
NoneBegunBut(S) == \A j \in Apps \ S : link'[j] = "opening" => link[j] = "opening"

\* What a step does to the turns: the next application has its, or nothing.
TurnStep ==
  \/ found # {} /\ curr_prf_idx' = NextPrf(found, curr_prf_idx) /\ NoneBegunBut({curr_prf_idx'})
  \/ UNCHANGED curr_prf_idx /\ NoneBegunBut({})

LEMMA OpensTurn ==
  ASSUME TypeOK, NEW op, NEW cl, NEW sc, OpensNextApp(op, cl, sc)
  PROVE  TurnStep
PROOF
<1> DEFINE next == NextPrf(found, curr_prf_idx)
<1>1. found # {} /\ curr_prf_idx' = next /\ OpenReq(next, next \in registered)
  BY DEF OpensNextApp
<1>2. link \in [Apps -> LinkStates]
  BY DEF TypeOK, StackTypeOK
<1> HIDE DEF next
<1>3. NoneBegunBut({next})
  BY <1>1, <1>2 DEF OpenReq, NoneBegunBut
<1> QED
  BY <1>1, <1>3 DEF TurnStep, next

\* A failed attempt moves the cursor as well.
LEMMA OpensNoneTurn ==
  ASSUME NEW op, NEW cl, NEW sc, OpensNoApp(op, cl, sc), UNCHANGED link
  PROVE  TurnStep
PROOF
<1>1. NoneBegunBut({}) /\ NoneBegunBut({curr_prf_idx'})
  BY DEF NoneBegunBut
<1> QED
  BY <1>1 DEF OpensNoApp, TurnStep

LEMMA CloseBeginsNone ==
  ASSUME TypeOK, NEW i \in Apps, NEW op, Close(i, op)
  PROVE  NoneBegunBut({})
PROOF
<1>1. link \in [Apps -> LinkStates]
  BY DEF TypeOK, StackTypeOK
<1> QED
  BY <1>1 DEF Close, CloseReq, NoRequest, NoneBegunBut

LEMMA CallbackTurn ==
  ASSUME TypeOK, Callback
  PROVE  TurnStep
PROOF
<1>1. NoRequest \/ ScanReq \/ StopReq \/ (\E p : ProcedureReq(ev.id, p)) => UNCHANGED link
  BY DEF NoRequest, ScanReq, StopReq, ProcedureReq
<1>2. UNCHANGED link => NoneBegunBut({})
  BY DEF NoneBegunBut
<1>3. ASSUME NEW op, NEW cl, NEW sc, NEW fnd, StartScanning(op, cl, sc, fnd) PROVE UNCHANGED link
  BY <1>1, <1>3 DEF StartScanning
<1>4. ASSUME NEW type \in GattcTypes, Handling(type), NEW op, Close(ev.id, op)
      PROVE  NoneBegunBut({})
  BY <1>4, HeadType, CloseBeginsNone DEF Handling
<1>5. CASE SkipEvent \/ HandleSearchRes
  BY <1>1, <1>2, <1>5 DEF SkipEvent, HandleSearchRes, managerVars, TurnStep
<1>6. CASE HandleReg \/ HandleClose
  <2>1. ASSUME NEW op, NEW cl, NEW sc, OpenOrScan(op, cl, sc) PROVE TurnStep
    <3>1. CASE OpensNextApp(op, cl, sc)
      BY <3>1, OpensTurn
    <3>2. CASE OpensNoApp(op, cl, sc) /\ NoRequest
      BY <1>1, <3>2, OpensNoneTurn
    <3>3. CASE StartScanning(op, cl, sc, found) /\ UNCHANGED curr_prf_idx
      BY <1>2, <1>3, <3>3 DEF TurnStep
    <3> QED
      BY <2>1, <3>1, <3>2, <3>3 DEF OpenOrScan
  <2> QED
    BY <1>6, <2>1 DEF HandleReg, HandleClose
<1>7. CASE HandleOpen
  BY <1>1, <1>2, <1>4, <1>7 DEF HandleOpen, GattcTypes, TurnStep
<1>8. CASE HandleCfgMtu
  BY <1>1, <1>2, <1>4, <1>8 DEF HandleCfgMtu, GattcTypes, TurnStep
<1>9. CASE HandleDisSrvcCmpl
  BY <1>1, <1>2, <1>4, <1>9 DEF HandleDisSrvcCmpl, GattcTypes, TurnStep
<1>10. CASE HandleSearchCmpl
  BY <1>1, <1>2, <1>4, <1>10 DEF HandleSearchCmpl, GattcTypes, TurnStep
<1>11. CASE HandleReadChar
  BY <1>4, <1>11 DEF HandleReadChar, GattcTypes, TurnStep
<1>12. CASE HandleDisconnect
  BY <1>1, <1>2, <1>3, <1>12 DEF HandleDisconnect, TurnStep
<1>13. CASE HandleInqRes
  BY <1>1, <1>2, <1>13 DEF HandleInqRes, StopScanning, TurnStep
<1>14. CASE HandleScanEnd
  BY <1>3, <1>14, OpensTurn, OpensNoneTurn DEF HandleScanEnd
<1> QED
  BY <1>5, <1>6, <1>7, <1>8, <1>9, <1>10, <1>11, <1>12, <1>13, <1>14 DEF Callback

\* The stack begins no attempt by itself.
LEMMA StackBeginsNone ==
  ASSUME TypeOK, StackNext
  PROVE  NoneBegunBut({})
PROOF
<1>a. link \in [Apps -> LinkStates]
  BY DEF TypeOK, StackTypeOK
<1>1. ASSUME NEW i \in Apps, LinkStep(i) PROVE NoneBegunBut({})
  <2>1. CASE OpenSucceeds(i) \/ OpenFails(i) \/ Closed(i) \/ LinkLoss(i)
    BY <1>a, <2>1 DEF OpenSucceeds, OpenFails, Closed, LinkLoss, NoneBegunBut
  <2>2. CASE MtuResult(i) \/ ServicesDiscovered(i) \/ SearchResult(i) \/ ReadResult(i)
    BY <2>2 DEF MtuResult, ServicesDiscovered, SearchResult, ReadResult, Report, NoneBegunBut
  <2> QED
    BY <1>1, <2>1, <2>2 DEF LinkStep
<1>2. ASSUME NEW d \in Devices, Advertise(d) PROVE NoneBegunBut({})
  BY <1>2 DEF Advertise, NoneBegunBut
<1>3. CASE RegisterNext \/ ScanTimeout \/ Calm
  BY <1>3 DEF RegisterNext, ScanTimeout, Calm, stackVars, NoneBegunBut
<1>4. ASSUME NEW i \in Apps, PowerOff(i) \/ PowerOn(i) PROVE NoneBegunBut({})
  BY <1>4 DEF PowerOff, PowerOn, stackVars, NoneBegunBut
<1> QED
  BY <1>1, <1>2, <1>3, <1>4 DEF StackNext

\* Connections are opened in turn, whatever fails and whichever remotes come and
\* go (ble_conn_mngr_gattc_open_next_app): no known remote is passed over.
THEOREM TurnsKept == Spec => TurnComesNearer
PROOF
<1> DEFINE begun == {j \in Apps : link[j] = "down" /\ link'[j] = "opening"}
           Nearer == /\ begun \subseteq found \cap {curr_prf_idx'}
                     /\ begun # {} \/ curr_prf_idx' # curr_prf_idx =>
                          \A i \in found \ {curr_prf_idx'} :
                            TurnsAhead(curr_prf_idx', i) < TurnsAhead(curr_prf_idx, i)
<1>1. TypeOK /\ [Next]_vars => [Nearer]_vars
  <2> SUFFICES ASSUME TypeOK, Next PROVE Nearer
    OBVIOUS
  <2>1. TurnStep
    <3>1. CASE Callback
      BY <3>1, CallbackTurn
    <3>2. CASE Outside(StackNext)
      BY <3>2, StackBeginsNone DEF Outside, managerVars, TurnStep
    <3> QED
      BY <3>1, <3>2 DEF Next
  <2>2. CASE UNCHANGED curr_prf_idx /\ NoneBegunBut({})
    BY <2>2 DEF NoneBegunBut
  <2>3. CASE /\ found # {} /\ curr_prf_idx' = NextPrf(found, curr_prf_idx)
             /\ NoneBegunBut({curr_prf_idx'})
    <3>1. found \subseteq Apps /\ curr_prf_idx \in Apps
      BY DEF TypeOK
    <3>2. curr_prf_idx' \in found
      BY <2>3, <3>1, NextPrfType
    <3>3. begun \subseteq {curr_prf_idx'}
      BY <2>3 DEF NoneBegunBut
    <3>4. \A i \in found \ {curr_prf_idx'} :
            TurnsAhead(curr_prf_idx', i) < TurnsAhead(curr_prf_idx, i)
      BY <2>3, <3>1, NextPrfNearer
    <3> QED
      BY <3>2, <3>3, <3>4
  <2> QED
    BY <2>1, <2>2, <2>3 DEF TurnStep
<1> QED
  BY <1>1, TypeCorrect, PTL DEF Spec, TurnComesNearer
=============================================================================
