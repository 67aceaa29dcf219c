----------------------------- MODULE CycleProofs -----------------------------
(***************************************************************************)
(* The hub implements HubCycle.  With RadioInv before and after a step it  *)
(* is enough that no step uses the radio in two ways at once: none changes *)
(* both the scan and a link, and none changes two links.                   *)
(***************************************************************************)
EXTENDS RadioProofs

-----------------------------------------------------------------------------
(* What a step does to the radio.                                          *)

OneChange ==
  \/ UNCHANGED link
  \/ UNCHANGED scan /\ \E i \in Apps, l \in LinkStates : link' = [link EXCEPT ![i] = l]

LEMMA CloseChanges ==
  ASSUME NEW i \in Apps, NEW op, Close(i, op)
  PROVE  OneChange
PROOF
  BY DEF Close, CloseReq, NoRequest, OneChange, LinkStates

LEMMA StartScanningChanges ==
  ASSUME NEW op, NEW cl, NEW sc, NEW fnd, StartScanning(op, cl, sc, fnd)
  PROVE  OneChange
PROOF
  BY DEF StartScanning, ScanReq, NoRequest, OneChange

LEMMA OpensNextAppChanges ==
  ASSUME TypeOK, NEW op, NEW cl, NEW sc, OpensNextApp(op, cl, sc)
  PROVE  OneChange
PROOF
<1> DEFINE next == NextPrf(found, curr_prf_idx)
<1>1. found # {} /\ OpenReq(next, next \in registered)
  BY DEF OpensNextApp
<1>2. next \in Apps
  BY <1>1, NextPrfType DEF TypeOK
<1> HIDE DEF next
<1> QED
  BY <1>1, <1>2 DEF OpenReq, OneChange, LinkStates

LEMMA CallbackChanges ==
  ASSUME TypeOK, Callback
  PROVE  OneChange
PROOF
<1>1. NoRequest => OneChange
  BY DEF NoRequest, OneChange
<1>2. ASSUME NEW p, ProcedureReq(ev.id, p) PROVE OneChange
  BY <1>2 DEF ProcedureReq, OneChange
<1>3. ASSUME NEW type \in GattcTypes, Handling(type) PROVE ev.id \in Apps
  BY <1>3, Handled
<1>4. CASE SkipEvent
  BY <1>1, <1>4 DEF SkipEvent
<1>5. CASE HandleReg \/ HandleClose
  <2>1. ASSUME NEW op, NEW cl, NEW sc, OpenOrScan(op, cl, sc) PROVE OneChange
    BY <1>1, <2>1, OpensNextAppChanges, StartScanningChanges DEF OpenOrScan
  <2> QED
    BY <1>5, <2>1 DEF HandleReg, HandleClose
<1>6. CASE HandleOpen
  BY <1>1, <1>2, <1>3, <1>6, CloseChanges DEF HandleOpen, GattcTypes
<1>7. CASE HandleCfgMtu
  BY <1>1, <1>3, <1>7, CloseChanges DEF HandleCfgMtu, GattcTypes
<1>8. CASE HandleDisSrvcCmpl
  BY <1>2, <1>3, <1>8, CloseChanges DEF HandleDisSrvcCmpl, GattcTypes
<1>9. CASE HandleSearchRes
  BY <1>1, <1>9 DEF HandleSearchRes
<1>10. CASE HandleSearchCmpl
  BY <1>1, <1>2, <1>3, <1>10, CloseChanges DEF HandleSearchCmpl, GattcTypes
<1>11. CASE HandleReadChar
  BY <1>3, <1>11, CloseChanges DEF HandleReadChar, GattcTypes
<1>12. CASE HandleDisconnect
  BY <1>1, <1>12, StartScanningChanges DEF HandleDisconnect
<1>13. CASE HandleInqRes
  BY <1>1, <1>13 DEF HandleInqRes, StopScanning, StopReq, OneChange
<1>14. CASE HandleScanEnd
  BY <1>14, OpensNextAppChanges, StartScanningChanges DEF HandleScanEnd
<1> QED
  BY <1>4, <1>5, <1>6, <1>7, <1>8, <1>9, <1>10, <1>11, <1>12, <1>13, <1>14 DEF Callback

LEMMA StackChanges ==
  ASSUME StackNext
  PROVE  OneChange
PROOF
<1>1. ASSUME NEW i \in Apps, LinkStep(i) PROVE OneChange
  <2>1. CASE OpenSucceeds(i) \/ OpenFails(i) \/ Closed(i) \/ LinkLoss(i)
    BY <2>1 DEF OpenSucceeds, OpenFails, Closed, LinkLoss, OneChange, LinkStates
  <2>2. CASE MtuResult(i) \/ ServicesDiscovered(i) \/ SearchResult(i) \/ ReadResult(i)
    BY <2>2 DEF MtuResult, ServicesDiscovered, SearchResult, ReadResult, Report, OneChange
  <2> QED
    BY <1>1, <2>1, <2>2 DEF LinkStep
<1>2. ASSUME NEW d \in Devices, Advertise(d) PROVE OneChange
  BY <1>2 DEF Advertise, OneChange
<1>3. CASE RegisterNext \/ ScanTimeout \/ Calm
  BY <1>3 DEF RegisterNext, ScanTimeout, Calm, stackVars, OneChange
<1>4. ASSUME NEW i \in Apps, PowerOff(i) \/ PowerOn(i) PROVE OneChange
  BY <1>4 DEF PowerOff, PowerOn, stackVars, OneChange
<1> QED
  BY <1>1, <1>2, <1>3, <1>4 DEF StackNext

-----------------------------------------------------------------------------
(* The abstract radio.                                                     *)

LEMMA RadioUseValues ==
  ASSUME OneUseOfTheRadio
  PROVE  /\ Down /\ ~scan => RadioUse = Cycle!Idle
         /\ Down /\ scan => RadioUse = Cycle!Scan
         /\ \A i \in Apps : link[i] # "down" => RadioUse = Cycle!Link(i)
PROOF
<1>1. ASSUME Down PROVE {i \in Apps : link[i] # "down"} = {}
  BY <1>1 DEF Down
<1>2. ASSUME NEW i \in Apps, link[i] # "down" PROVE {j \in Apps : link[j] # "down"} = {i}
  BY <1>2 DEF OneUseOfTheRadio
<1>3. Down /\ ~scan => RadioUse = Cycle!Idle
  BY <1>1 DEF RadioUse, Cycle!Idle
<1>4. Down /\ scan => RadioUse = Cycle!Scan
  BY <1>1 DEF RadioUse, Cycle!Scan
<1>5. ASSUME NEW i \in Apps, link[i] # "down" PROVE RadioUse = Cycle!Link(i)
  BY <1>2, <1>5 DEF RadioUse, Cycle!Link
<1> QED
  BY <1>3, <1>4, <1>5

\* The same after a step.
LEMMA RadioUseNext ==
  ASSUME OneUseOfTheRadio'
  PROVE  /\ Down' /\ ~scan' => RadioUse' = Cycle!Idle
         /\ Down' /\ scan' => RadioUse' = Cycle!Scan
         /\ \A i \in Apps : link'[i] # "down" => RadioUse' = Cycle!Link(i)
PROOF
<1>1. ASSUME Down' PROVE {i \in Apps : link'[i] # "down"} = {}
  BY <1>1 DEF Down
<1>2. ASSUME NEW i \in Apps, link'[i] # "down" PROVE {j \in Apps : link'[j] # "down"} = {i}
  BY <1>2 DEF OneUseOfTheRadio
<1>3. Down' /\ ~scan' => RadioUse' = Cycle!Idle
  BY <1>1 DEF RadioUse, Cycle!Idle
<1>4. Down' /\ scan' => RadioUse' = Cycle!Scan
  BY <1>1 DEF RadioUse, Cycle!Scan
<1>5. ASSUME NEW i \in Apps, link'[i] # "down" PROVE RadioUse' = Cycle!Link(i)
  BY <1>2, <1>5 DEF RadioUse, Cycle!Link
<1> QED
  BY <1>3, <1>4, <1>5

LEMMA RadioStepTaken ==
  ASSUME TypeOK, OneUseOfTheRadio, OneUseOfTheRadio', OneChange
  PROVE  Cycle!RadioStep
PROOF
<1>a. link \in [Apps -> LinkStates]
  BY DEF TypeOK, StackTypeOK
<1>1. CASE UNCHANGED link
  <2>1. CASE Down
    <3>1. Down'
      BY <1>1, <2>1 DEF Down
    <3>2. RadioUse = Cycle!Idle \/ RadioUse = Cycle!Scan
      BY <2>1, RadioUseValues
    <3>3. RadioUse' = Cycle!Idle \/ RadioUse' = Cycle!Scan
      BY <3>1, RadioUseNext
    <3> QED
      BY <3>2, <3>3 DEF Cycle!RadioStep
  <2>2. CASE ~Down
    <3>1. PICK i \in Apps : link[i] # "down"
      BY <2>2 DEF Down
    <3>2. RadioUse = Cycle!Link(i) /\ RadioUse' = Cycle!Link(i)
      BY <1>1, <3>1, RadioUseValues, RadioUseNext
    <3> QED
      BY <3>2 DEF Cycle!RadioStep
  <2> QED
    BY <2>1, <2>2
<1>2. ASSUME UNCHANGED scan, NEW i \in Apps, NEW l \in LinkStates, link' = [link EXCEPT ![i] = l]
      PROVE  Cycle!RadioStep
  <2>1. \A j \in Apps : j # i => link'[j] = link[j]
    BY <1>a, <1>2
  <2>2. CASE \E j \in Apps : link[j] # "down" /\ link'[j] # "down"
    <3>1. PICK j \in Apps : link[j] # "down" /\ link'[j] # "down"
      BY <2>2
    <3>2. RadioUse = Cycle!Link(j) /\ RadioUse' = Cycle!Link(j)
      BY <3>1, RadioUseValues, RadioUseNext
    <3> QED
      BY <3>2 DEF Cycle!RadioStep
  <2>3. CASE \A j \in Apps : ~(link[j] # "down" /\ link'[j] # "down")
    \* Only link i was used before, or will be used after the step.
    <3>1. \A j \in Apps : j # i => link[j] = "down" /\ link'[j] = "down"
      BY <2>1, <2>3
    <3>2. CASE link[i] # "down"
      <4>1. Down' /\ ~scan'
        BY <1>2, <2>3, <3>1, <3>2 DEF Down, OneUseOfTheRadio
      <4> QED
        BY <4>1, RadioUseNext DEF Cycle!RadioStep
    <3>3. CASE link[i] = "down" /\ link'[i] # "down"
      <4>1. Down /\ ~scan
        BY <1>2, <3>1, <3>3 DEF Down, OneUseOfTheRadio
      <4> QED
        BY <4>1, RadioUseValues DEF Cycle!RadioStep
    <3>4. CASE link[i] = "down" /\ link'[i] = "down"
      <4>1. Down /\ Down'
        BY <3>1, <3>4 DEF Down
      <4>2. RadioUse = IF scan THEN Cycle!Scan ELSE Cycle!Idle
        BY <4>1, RadioUseValues
      <4>3. RadioUse' = IF scan THEN Cycle!Scan ELSE Cycle!Idle
        BY <1>2, <4>1, RadioUseNext
      <4> QED
        BY <4>2, <4>3 DEF Cycle!RadioStep
    <3> QED
      BY <3>2, <3>3, <3>4
  <2> QED
    BY <2>2, <2>3
<1> QED
  BY <1>1, <1>2 DEF OneChange

-----------------------------------------------------------------------------
(* The sensors.                                                            *)

\* A value is stored while its sensor is connected or the link just broke.
LEMMA ReadTaken ==
  ASSUME TypeOK, RadioInv, HandleReadChar, ev.ok
  PROVE  \E s \in Apps : Cycle!Read(s)
PROOF
<1>1. /\ evq # << >> /\ ev.type = "READ_CHAR" /\ ev.id \in Apps
      /\ sensor_found' = sensor_found \cup {ev.id} /\ polled' = polled \cup {ev.id}
  BY Handled DEF HandleReadChar, GattcTypes, ReaderStore
<1>2. ~scan /\ \A i \in Apps : i # ev.id => link[i] = "down"
  <2>1. 1 \in Positions /\ ev = evq[1] /\ IsProcedureEvent(ev)
    BY <1>1, HeadOfQueue DEF IsProcedureEvent
  <2> QED
    BY <2>1 DEF RadioInv, ProcedureEvents
<1>3. RadioUse \in {Cycle!Link(ev.id), Cycle!Idle}
  <2>1. CASE link[ev.id] = "down"
    <3>1. Down
      BY <1>2, <2>1 DEF Down
    <3> QED
      BY <1>2, <3>1, RadioUseValues DEF RadioInv
  <2>2. CASE link[ev.id] # "down"
    BY <1>1, <2>2, RadioUseValues DEF RadioInv
  <2> QED
    BY <2>1, <2>2
<1>4. Cycle!Read(ev.id)
  BY <1>1, <1>3 DEF Cycle!Read
<1> QED
  BY <1>1, <1>4

\* A cycle is published when every sensor known was read, with no link left.
LEMMA PublishTaken ==
  ASSUME TypeOK, RadioInv, HandleClose
  PROVE  Cycle!PublishCycle \/ UNCHANGED <<sensor_found, polled>>
PROOF
<1>1. evq # << >> /\ ev.type = "CLOSE" /\ ReaderClose
  BY Handled DEF HandleClose, GattcTypes
<1>2. CASE AllFoundSensorsPolled
  <2>1. UNCHANGED sensor_found /\ polled' = {}
    BY <1>1, <1>2 DEF ReaderClose
  <2>2. sensor_found \subseteq polled
    BY <1>2 DEF AllFoundSensorsPolled, TypeOK, ReaderTypeOK
  <2>3. Down
    BY <1>1, HeadOrBehind DEF RadioInv, EndEvents
  <2>4. RadioUse \in {Cycle!Idle, Cycle!Scan}
    BY <2>3, RadioUseValues DEF RadioInv
  <2> QED
    BY <2>1, <2>2, <2>4 DEF Cycle!PublishCycle
<1>3. CASE ~AllFoundSensorsPolled
  BY <1>1, <1>3 DEF ReaderClose
<1> QED
  BY <1>2, <1>3

LEMMA SensorsStep ==
  ASSUME TypeOK, RadioInv, Next
  PROVE  \/ \E s \in Apps : Cycle!Read(s)
         \/ Cycle!PublishCycle
         \/ UNCHANGED <<sensor_found, polled>>
PROOF
<1>1. CASE HandleReadChar
  BY <1>1, ReadTaken DEF HandleReadChar, ReaderIdle
<1>2. CASE HandleClose
  BY <1>2, PublishTaken
<1>3. CASE HandleScanEnd
  BY <1>3 DEF HandleScanEnd, ReaderIdle, ReaderScanEnded
<1>4. CASE SkipEvent \/ HandleReg \/ HandleOpen \/ HandleCfgMtu \/ HandleDisSrvcCmpl
  BY <1>4 DEF SkipEvent, HandleReg, HandleOpen, HandleCfgMtu, HandleDisSrvcCmpl, ReaderIdle
<1>5. CASE HandleSearchRes \/ HandleSearchCmpl \/ HandleDisconnect \/ HandleInqRes
  BY <1>5 DEF HandleSearchRes, HandleSearchCmpl, HandleDisconnect, HandleInqRes, ReaderIdle
<1>6. CASE Outside(StackNext)
  BY <1>6 DEF Outside, ReaderIdle
<1> QED
  BY <1>1, <1>2, <1>3, <1>4, <1>5, <1>6 DEF Next, Callback

-----------------------------------------------------------------------------
(* The theorem.                                                            *)

\* The connection manager, the sensors reader and the stack together do what
\* the README of the hub promises: one use of the radio at a time, a sensor
\* read only over its own link, a cycle published only when every sensor known
\* was read, and never while a connection waits.
THEOREM HubImplementsCycle == Spec => CycleSpec
PROOF
<1>1. Init => Cycle!Init
  <2> SUFFICES ASSUME Init PROVE Cycle!Init
    OBVIOUS
  <2>1. Down /\ ~scan /\ RadioInv
    BY RadioInit DEF Init, TableInit, StackInit, Down
  <2>2. RadioUse = Cycle!Idle
    BY <2>1, RadioUseValues DEF RadioInv
  <2> QED
    BY <2>2 DEF Init, ReaderInit, Cycle!Init
<1>2. TypeOK /\ RadioInv /\ RadioInv' /\ [Next]_vars => [Cycle!Next]_(Cycle!vars)
  <2> SUFFICES ASSUME TypeOK, RadioInv, RadioInv', [Next]_vars
               PROVE  [Cycle!Next]_(Cycle!vars)
    OBVIOUS
  <2>1. CASE Next
    <3>1. OneChange
      BY <2>1, CallbackChanges, StackChanges DEF Next, Outside
    <3>2. Cycle!RadioStep
      BY <3>1, RadioStepTaken DEF RadioInv
    <3>3. \/ \E s \in Apps : Cycle!Read(s)
          \/ Cycle!PublishCycle
          \/ UNCHANGED <<sensor_found, polled>>
      BY <2>1, SensorsStep
    <3> QED
      BY <3>2, <3>3 DEF Cycle!Next
  <2>2. CASE UNCHANGED vars
    BY <2>2 DEF vars, stackVars, readerVars, Cycle!vars, RadioUse
  <2> QED
    BY <2>1, <2>2
<1> QED
  BY <1>1, <1>2, TypeCorrect, RadioInvariant, PTL DEF Spec, CycleSpec, Cycle!Spec
=============================================================================
