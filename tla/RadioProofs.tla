----------------------------- MODULE RadioProofs -----------------------------
(***************************************************************************)
(* RadioInv is an invariant of ConnManager: each callback and each step of *)
(* the stack preserves it, for every number of applications and every set  *)
(* of faults.                                                              *)
(***************************************************************************)
EXTENDS ConnManagerProofs

-----------------------------------------------------------------------------
(* The queue.                                                              *)

\* Some event behind the head satisfies ...
Behind(type) == \E k \in Positions : k > 1 /\ evq[k].type = type
ErrorBehind == \E k \in Positions : k > 1 /\ IsError(evq[k])

LEMMA HeadOfQueue ==
  ASSUME TypeOK, evq # << >>
  PROVE  1 \in Positions /\ ev = evq[1] /\ Len(evq) \in Nat \ {0}
PROOF
  BY DEF TypeOK, StackTypeOK, Positions, ev

LEMMA QueueTyped ==
  ASSUME TypeOK
  PROVE  Positions \subseteq Nat /\ \A k \in Positions : evq[k] \in Events /\ k > 0
PROOF
  BY ElementOfSeq DEF TypeOK, StackTypeOK, Positions

\* Consuming the head.
LEMMA Consumed ==
  ASSUME TypeOK, evq # << >>, evq' = Tail(evq)
  PROVE  /\ \A k \in Positions' : k + 1 \in Positions /\ k + 1 > 1 /\ evq'[k] = evq[k + 1]
         /\ \A k \in Positions : k > 1 => k - 1 \in Positions' /\ evq'[k - 1] = evq[k]
PROOF
<1>1. /\ Len(Tail(evq)) = Len(evq) - 1 /\ Len(evq) \in Nat \ {0}
      /\ \A k \in 1 .. Len(Tail(evq)) : Tail(evq)[k] = evq[k + 1]
  BY HeadOfQueue, HeadTailProperties DEF TypeOK, StackTypeOK
<1>2. \A k \in Positions' : k + 1 \in Positions /\ k + 1 > 1 /\ evq'[k] = evq[k + 1]
  BY <1>1 DEF Positions
<1>3. ASSUME NEW k \in Positions, k > 1 PROVE k - 1 \in Positions' /\ evq'[k - 1] = evq[k]
  <2>1. k - 1 \in 1 .. Len(Tail(evq)) /\ (k - 1) + 1 = k
    BY <1>1, <1>3 DEF Positions
  <2> QED
    BY <1>1, <2>1 DEF Positions
<1> QED
  BY <1>2, <1>3

LEMMA ConsumedHas ==
  ASSUME TypeOK, evq # << >>, evq' = Tail(evq)
  PROVE  /\ \A type : Has(type)' <=> Behind(type)
         /\ HasError' <=> ErrorBehind
PROOF
<1>1. ASSUME NEW type PROVE Has(type)' <=> Behind(type)
  BY Consumed DEF Has, Behind
<1>2. HasError' <=> ErrorBehind
  BY Consumed DEF HasError, ErrorBehind, IsError
<1> QED
  BY <1>1, <1>2

LEMMA ConsumedOrder ==
  ASSUME TypeOK, QueueOrder, evq # << >>, evq' = Tail(evq)
  PROVE  QueueOrder'
PROOF
<1> SUFFICES ASSUME NEW j \in Positions', NEW k \in Positions', j < k
             PROVE  MayFollow(evq'[j], evq'[k])
  BY DEF QueueOrder, MayFollow, IsError, IsProcedureEvent
<1>1. j \in Nat /\ k \in Nat
  BY DEF Positions
<1>2. j + 1 \in Positions /\ k + 1 \in Positions /\ j + 1 < k + 1
  BY <1>1, Consumed
<1>3. MayFollow(evq[j + 1], evq[k + 1])
  BY <1>2 DEF QueueOrder
<1> QED
  BY <1>3, Consumed

\* What is in the queue is its head or behind it.
LEMMA HeadOrBehind ==
  ASSUME TypeOK, evq # << >>
  PROVE  /\ \A type : Has(type) <=> (ev.type = type \/ Behind(type))
         /\ HasError <=> (IsError(ev) \/ ErrorBehind)
PROOF
<1>1. \A k \in Positions : k = 1 \/ k > 1
  BY QueueTyped DEF Positions
<1> QED
  BY <1>1, HeadOfQueue DEF Has, HasError, Behind, ErrorBehind

LEMMA BehindHead ==
  ASSUME TypeOK, QueueOrder, evq # << >>
  PROVE  \A k \in Positions : k > 1 => MayFollow(ev, evq[k])
PROOF
  BY HeadOfQueue DEF QueueOrder

\* Adding events at the end.
LEMMA Notified ==
  ASSUME TypeOK, NEW s \in Seq(Events), Notify(s)
  PROVE  /\ \A k \in Positions' :
              \/ k \in Positions /\ evq'[k] = evq[k]
              \/ k - Len(evq) \in 1 .. Len(s) /\ k > Len(evq) /\ evq'[k] = s[k - Len(evq)]
         /\ \A k \in Positions : k \in Positions' /\ evq'[k] = evq[k]
         /\ \A k \in 1 .. Len(s) : Len(evq) + k \in Positions' /\ evq'[Len(evq) + k] = s[k]
PROOF
<1>1. evq \in Seq(Events) /\ evq' = evq \o s /\ Len(evq) \in Nat /\ Len(s) \in Nat
  BY DEF TypeOK, StackTypeOK, Notify
<1> DEFINE new == evq \o s
<1>2. /\ Len(new) = Len(evq) + Len(s)
      /\ \A k \in 1 .. Len(evq) + Len(s) :
           new[k] = IF k <= Len(evq) THEN evq[k] ELSE s[k - Len(evq)]
  BY <1>1, ConcatProperties
<1>3. evq' = new
  BY <1>1
<1> HIDE DEF new
<1>4. Positions' = 1 .. Len(evq) + Len(s)
  BY <1>2, <1>3 DEF Positions
<1>5. ASSUME NEW k \in Positions'
      PROVE  \/ k \in Positions /\ evq'[k] = evq[k]
             \/ k - Len(evq) \in 1 .. Len(s) /\ k > Len(evq) /\ evq'[k] = s[k - Len(evq)]
  BY <1>1, <1>2, <1>3, <1>4 DEF Positions
<1>6. ASSUME NEW k \in Positions PROVE k \in Positions' /\ evq'[k] = evq[k]
  BY <1>1, <1>2, <1>3, <1>4 DEF Positions
<1>7. ASSUME NEW k \in 1 .. Len(s)
      PROVE  Len(evq) + k \in Positions' /\ evq'[Len(evq) + k] = s[k]
  <2>1. Len(evq) + k \in 1 .. Len(evq) + Len(s) /\ ~(Len(evq) + k <= Len(evq))
        /\ Len(evq) + k - Len(evq) = k
    BY <1>1
  <2> QED
    BY <1>2, <1>3, <1>4, <2>1
<1> QED
  BY <1>5, <1>6, <1>7

LEMMA NotifiedHas ==
  ASSUME TypeOK, NEW s \in Seq(Events), Notify(s)
  PROVE  /\ \A type : Has(type)' <=> Has(type) \/ \E k \in 1 .. Len(s) : s[k].type = type
         /\ HasError' <=> HasError \/ \E k \in 1 .. Len(s) : IsError(s[k])
PROOF
<1>1. ASSUME NEW type
      PROVE  Has(type)' <=> Has(type) \/ \E k \in 1 .. Len(s) : s[k].type = type
  BY Notified DEF Has
<1>2. HasError' <=> HasError \/ \E k \in 1 .. Len(s) : IsError(s[k])
  BY Notified DEF HasError, IsError
<1> QED
  BY <1>1, <1>2

LEMMA NotifiedOrder ==
  ASSUME TypeOK, QueueOrder, NEW s \in Seq(Events), Notify(s),
         \A k \in Positions, j \in 1 .. Len(s) : MayFollow(evq[k], s[j]),
         \A j, k \in 1 .. Len(s) : j < k => MayFollow(s[j], s[k])
  PROVE  QueueOrder'
PROOF
<1> SUFFICES ASSUME NEW j \in Positions', NEW k \in Positions', j < k
             PROVE  MayFollow(evq'[j], evq'[k])
  BY DEF QueueOrder, MayFollow, IsError, IsProcedureEvent
<1>1. Len(evq) \in Nat /\ j \in Nat /\ k \in Nat
  BY DEF TypeOK, StackTypeOK, Positions
<1>2. CASE k \in Positions /\ evq'[k] = evq[k]
  <2>1. j \in Positions
    BY <1>1, <1>2 DEF Positions
  <2> QED
    BY <1>2, <2>1, Notified DEF QueueOrder
<1>3. CASE k - Len(evq) \in 1 .. Len(s) /\ k > Len(evq) /\ evq'[k] = s[k - Len(evq)]
  <2>1. CASE j \in Positions /\ evq'[j] = evq[j]
    BY <1>3, <2>1
  <2>2. CASE j - Len(evq) \in 1 .. Len(s) /\ j > Len(evq) /\ evq'[j] = s[j - Len(evq)]
    <3>1. j - Len(evq) < k - Len(evq)
      BY <1>1
    <3> QED
      BY <1>3, <2>2, <3>1
  <2> QED
    BY <2>1, <2>2, Notified
<1> QED
  BY <1>2, <1>3, Notified

-----------------------------------------------------------------------------
(* What may wait behind the event that is handled.                         *)

LEMMA BehindFacts ==
  ASSUME TypeOK, QueueOrder, evq # << >>
  PROVE  /\ ev.type # "REG" => ~Behind("REG")
         /\ ev.type \notin {"INQ_RES", "INQ_CMPL"} => ~Behind("STOPPED")
         /\ ev.type = "OPEN" => ~Behind("OPEN")
         /\ ev.type = "STOPPED" => ~Behind("INQ_RES") /\ ~Behind("INQ_CMPL")
         /\ ev.type = "INQ_CMPL" => \A k \in Positions : k > 1 => evq[k].type = "STOPPED"
         /\ ev.type = "INQ_RES" => \A k \in Positions : k > 1 => evq[k].type \in GapTypes
         /\ ev.type \in {"REG", "CLOSE"} \/ IsError(ev) =>
              \A k \in Positions : k > 1 => ~IsProcedureEvent(evq[k])
PROOF
<1>1. \A k \in Positions : k > 1 => MayFollow(ev, evq[k])
  BY BehindHead
<1> QED
  BY <1>1 DEF MayFollow, Behind, IsProcedureEvent, GapTypes, IsError

LEMMA AllStarted ==
  ASSUME TypeOK, RadioInv, evq # << >>, ev.type # "REG"
  PROVE  started = N /\ ~Has("REG")
PROOF
<1>1. ~(started < N)
  BY HeadOfQueue DEF RadioInv, Starting
<1>2. started \in 0 .. N /\ N \in Nat
  BY AppsProperties DEF TypeOK, StackTypeOK
<1>3. ~Has("REG")
  BY BehindFacts, HeadOrBehind DEF RadioInv
<1> QED
  BY <1>1, <1>2, <1>3

\* A lost remote is noted before its DISCONNECT is forgotten.
Noted == IsError(ev) => ev.id \notin found' \/ ev.id \notin registered

LEMMA ConsumedEnds ==
  ASSUME TypeOK, RadioInv, evq # << >>, evq' = Tail(evq),
         registered \subseteq registered', Noted,
         found' \subseteq found \/ ~Behind("CLOSE"),
         Behind("CLOSE") \/ ErrorBehind => Down'
  PROVE  QueueOrder' /\ EndEvents' /\ BrokenLinks' /\ ClosedLinks'
PROOF
<1> USE DEF RadioInv
<1>1. QueueOrder'
  BY ConsumedOrder
<1>2. EndEvents'
  <2>1. ASSUME NEW k \in Positions', evq'[k].type = "CLOSE" PROVE evq'[k].id \in registered'
    <3>1. k + 1 \in Positions /\ evq'[k] = evq[k + 1]
      BY Consumed
    <3> QED
      BY <2>1, <3>1 DEF EndEvents
  <2> QED
    BY <2>1, ConsumedHas DEF EndEvents
<1>3. BrokenLinks'
  <2> SUFFICES ASSUME NEW k \in Positions', evq'[k].type = "CLOSE", ~evq'[k].ok
               PROVE  \/ evq'[k].id \notin found'
                      \/ \E j \in Positions' : j < k /\ IsError(evq'[j]) /\ evq'[j].id = evq'[k].id
    BY DEF BrokenLinks, IsError
  <2>1. k + 1 \in Positions /\ k + 1 > 1 /\ evq'[k] = evq[k + 1] /\ k \in Nat
    BY Consumed DEF Positions
  <2>2. found' \subseteq found
    BY <2>1 DEF Behind
  <2>3. evq[k + 1].id \in registered
    BY <2>1 DEF EndEvents
  <2>4. CASE evq[k + 1].id \notin found
    BY <2>1, <2>2, <2>4
  <2>5. ASSUME NEW j \in Positions, j < k + 1, IsError(evq[j]), evq[j].id = evq[k + 1].id
        PROVE  \/ evq'[k].id \notin found'
               \/ \E m \in Positions' : m < k /\ IsError(evq'[m]) /\ evq'[m].id = evq'[k].id
    <3>1. j \in Nat /\ (j = 1 \/ j > 1)
      BY QueueTyped
    <3>2. CASE j = 1
      BY <2>1, <2>3, <2>5, <3>2, HeadOfQueue DEF Noted
    <3>3. CASE j > 1
      <4>1. j - 1 \in Positions' /\ evq'[j - 1] = evq[j]
        BY <3>3, Consumed
      <4>2. j - 1 < k
        BY <2>1, <2>5, <3>1
      <4> QED
        BY <2>1, <2>5, <4>1, <4>2
    <3> QED
      BY <3>1, <3>2, <3>3
  <2> QED
    BY <2>1, <2>4, <2>5 DEF BrokenLinks
<1>4. ClosedLinks'
  <2> SUFFICES ASSUME NEW k \in Positions', evq'[k].type = "CLOSE", evq'[k].ok,
                      NEW j \in Positions', j # k
               PROVE  evq'[j].type \notin {"OPEN", "CLOSE"} /\ ~IsError(evq'[j])
    BY DEF ClosedLinks, IsError
  <2>1. j \in Nat /\ k \in Nat
    BY DEF Positions
  <2>2. j + 1 \in Positions /\ k + 1 \in Positions /\ j + 1 # k + 1
    BY <2>1, Consumed
  <2> QED
    BY <2>2, Consumed DEF ClosedLinks
<1> QED
  BY <1>1, <1>2, <1>3, <1>4

\* Without the flag and without a stop to be reported there is no scan.
LEMMA NoScan ==
  ASSUME TypeOK, RadioInv, ~scanning, ~Has("STOPPED")
  PROVE  ~scan /\ ~Has("INQ_RES") /\ ~Has("INQ_CMPL")
PROOF
  BY DEF RadioInv, FlagsCoverRadio, ScanEvents

-----------------------------------------------------------------------------
(* The effects a callback can have.                                        *)

\* Nothing is started; the flags may fall.
LEMMA NothingStarted ==
  ASSUME TypeOK, RadioInv, evq # << >>, evq' = Tail(evq), UNCHANGED <<link, scan, started>>,
         ev.type \notin GapTypes,
         registered \subseteq registered', found' \subseteq found, Noted, PendingUp',
         scanning' = scanning, closing' \in {closing, FALSE}, opening' \in {opening, FALSE},
         FlagsCoverRadio',
         opening' = opening \/ Down \/ ev.type = "OPEN"
  PROVE  RadioInv'
PROOF
<1> USE DEF RadioInv
<1>a. Down' <=> Down
  BY DEF Down
<1>b. ~Behind("STOPPED") /\ (ev.type = "OPEN" => ~Behind("OPEN"))
  BY BehindFacts DEF GapTypes
<1>c. opening' => opening
  BY DEF TypeOK
<1>d. closing' => closing
  BY DEF TypeOK
<1>1. QueueOrder' /\ EndEvents' /\ BrokenLinks' /\ ClosedLinks'
  <2>1. Behind("CLOSE") \/ ErrorBehind => Down'
    BY <1>a, HeadOrBehind DEF EndEvents
  <2> QED
    BY <2>1, ConsumedEnds
<1>2. OneUseOfTheRadio'
  BY DEF OneUseOfTheRadio
<1>3. Starting'
  <2>1. \A k \in Positions' : k + 1 \in Positions /\ evq'[k] = evq[k + 1]
    BY Consumed
  <2>2. started < N => \A k \in Positions' : evq'[k].type = "REG"
    BY <2>1 DEF Starting
  <2>3. Has("REG")' => Has("REG")
    BY ConsumedHas, HeadOrBehind
  <2> QED
    BY <1>a, <1>c, <1>d, <2>2, <2>3 DEF Starting
<1>4. ScanEvents'
  <2>1. /\ Has("INQ_RES")' => Has("INQ_RES")
        /\ Has("INQ_CMPL")' => Has("INQ_CMPL")
    BY ConsumedHas, HeadOrBehind
  <2>2. ~Has("STOPPED")
    BY <1>b, HeadOrBehind DEF GapTypes
  <2> QED
    BY <1>a, <1>c, <1>d, <2>1, <2>2 DEF ScanEvents
<1>5. StopEvent'
  BY <1>b, ConsumedHas DEF StopEvent
<1>6. OpenEvent'
  <2>1. Has("OPEN")' => Has("OPEN")
    BY ConsumedHas, HeadOrBehind
  <2>2. CASE Down
    BY <2>2 DEF OpenEvent, Down
  <2>3. CASE opening' = opening
    BY <2>1, <2>3 DEF OpenEvent
  <2>4. CASE ev.type = "OPEN"
    BY <2>4, <1>b, ConsumedHas DEF OpenEvent
  <2> QED
    BY <2>2, <2>3, <2>4
<1>7. ProcedureEvents'
  <2> SUFFICES ASSUME NEW k \in Positions', IsProcedureEvent(evq'[k])
               PROVE  ~scan' /\ \A i \in Apps : i # evq'[k].id => link'[i] = "down"
    BY DEF ProcedureEvents, IsProcedureEvent
  <2>1. k + 1 \in Positions /\ evq'[k] = evq[k + 1]
    BY Consumed
  <2> QED
    BY <2>1 DEF ProcedureEvents
<1>8. LinksRegistered'
  BY DEF LinksRegistered
<1> QED
  BY <1>1, <1>2, <1>3, <1>4, <1>5, <1>6, <1>7, <1>8

\* A scan is started.
LEMMA ScanStarted ==
  ASSUME TypeOK, RadioInv, evq # << >>, ScanReq, UNCHANGED started,
         registered \subseteq registered', found' \subseteq found, Noted,
         scanning', ~opening', ~closing', Down,
         ~Behind("STOPPED"), ~Behind("INQ_CMPL"),
         \A k \in Positions : k > 1 => ~IsProcedureEvent(evq[k])
  PROVE  RadioInv'
PROOF
<1> USE DEF RadioInv
<1>a. evq' = Tail(evq) /\ UNCHANGED <<link, pend>>
  BY DEF ScanReq
<1>b. Down'
  BY <1>a DEF Down
<1>1. QueueOrder' /\ EndEvents' /\ BrokenLinks' /\ ClosedLinks'
  BY <1>a, <1>b, ConsumedEnds
<1>2. OneUseOfTheRadio' /\ FlagsCoverRadio' /\ PendingUp' /\ LinksRegistered'
  <2>1. PendingUp'
    BY <1>a DEF PendingUp
  <2>2. FlagsCoverRadio'
    BY <1>b DEF FlagsCoverRadio, Down
  <2> QED
    BY <1>b, <2>1, <2>2 DEF OneUseOfTheRadio, LinksRegistered, Down
<1>3. Starting'
  <2>1. \A k \in Positions' : k + 1 \in Positions /\ evq'[k] = evq[k + 1]
    BY <1>a, Consumed
  <2>2. started < N => \A k \in Positions' : evq'[k].type = "REG"
    BY <2>1 DEF Starting
  <2>3. Has("REG")' => Has("REG")
    BY <1>a, ConsumedHas, HeadOrBehind
  <2> QED
    BY <1>b, <2>2, <2>3 DEF Starting
<1>4. ScanEvents' /\ StopEvent'
  BY <1>a, <1>b, ConsumedHas DEF ScanEvents, StopEvent
<1>5. OpenEvent'
  BY <1>b DEF OpenEvent, Down
<1>6. ProcedureEvents'
  <2>1. \A k \in Positions' : ~IsProcedureEvent(evq'[k])
    BY <1>a, Consumed
  <2> QED
    BY <2>1 DEF ProcedureEvents, IsProcedureEvent
<1> QED
  BY <1>1, <1>2, <1>3, <1>4, <1>5, <1>6

\* A connection is opened, or dropped by the stack if it has no interface.
LEMMA Opened ==
  ASSUME TypeOK, RadioInv, evq # << >>, ev.type # "REG", Down, ~scan,
         NEW next \in Apps, OpenReq(next, next \in registered),
         UNCHANGED <<started, registered, found>>,
         opening', ~closing', ~scanning',
         ~Behind("INQ_RES"), ~Behind("INQ_CMPL"), ~Behind("OPEN"), ~Behind("CLOSE"), ~ErrorBehind,
         \A k \in Positions : k > 1 => ~IsProcedureEvent(evq[k]),
         Behind("STOPPED") => AllRemotesFound(found)
  PROVE  RadioInv'
PROOF
<1> USE DEF RadioInv
<1>a. /\ evq' = Tail(evq) /\ UNCHANGED <<pend, scan>>
      /\ \/ UNCHANGED link
         \/ next \in registered /\ link' = [link EXCEPT ![next] = "opening"]
  BY DEF OpenReq, Down
<1>b. /\ link \in [Apps -> LinkStates] /\ \A i \in Apps : link[i] = "down"
      /\ \A i \in Apps : link'[i] # "down" => i = next /\ i \in registered /\ link'[i] = "opening"
  BY <1>a DEF Down, TypeOK, StackTypeOK
<1>c. started = N /\ ~Has("REG")' /\ ~Has("OPEN")' /\ ~Has("CLOSE")' /\ ~HasError'
      /\ ~Has("INQ_RES")' /\ ~Has("INQ_CMPL")'
  BY <1>a, AllStarted, ConsumedHas, BehindFacts
<1>1. QueueOrder' /\ EndEvents' /\ BrokenLinks' /\ ClosedLinks'
  <2>1. QueueOrder'
    BY <1>a, ConsumedOrder
  <2> QED
    BY <1>c, <2>1 DEF EndEvents, BrokenLinks, ClosedLinks, Has
<1>2. OneUseOfTheRadio' /\ FlagsCoverRadio'
  BY <1>a, <1>b DEF OneUseOfTheRadio, FlagsCoverRadio
<1>3. PendingUp' /\ LinksRegistered'
  BY <1>a, <1>b DEF PendingUp, LinksRegistered
<1>4. Starting'
  BY <1>c, AppsProperties DEF Starting
<1>5. ScanEvents'
  BY <1>a, <1>c DEF ScanEvents
<1>6. StopEvent'
  BY <1>a, ConsumedHas DEF StopEvent, AllRemotesFound
<1>7. OpenEvent'
  BY <1>c DEF OpenEvent
<1>8. ProcedureEvents'
  <2>1. \A k \in Positions' : ~IsProcedureEvent(evq'[k])
    BY <1>a, Consumed
  <2> QED
    BY <2>1 DEF ProcedureEvents, IsProcedureEvent
<1> QED
  BY <1>1, <1>2, <1>3, <1>4, <1>5, <1>6, <1>7, <1>8

\* A connection is closed, while it is up or when it is gone already.
LEMMA ClosingStarted ==
  ASSUME TypeOK, RadioInv, evq # << >>, ev.type = "OPEN" \/ IsProcedureEvent(ev), ev.id \in Apps,
         CloseReq(ev.id), UNCHANGED <<started, registered, found>>,
         ~closing, ~scanning, ~opening \/ ev.type = "OPEN",
         ~opening', closing', ~scanning'
  PROVE  RadioInv'
PROOF
<1> USE DEF RadioInv
<1> DEFINE i == ev.id
<1>a. /\ evq' = Tail(evq) /\ UNCHANGED scan
      /\ link[i] = "up" => /\ link' = [link EXCEPT ![i] = "closing"]
                           /\ pend' = [pend EXCEPT ![i] = {}]
      /\ link[i] # "up" => UNCHANGED <<link, pend>>
  BY DEF CloseReq
<1>b. link \in [Apps -> LinkStates] /\ pend \in [Apps -> SUBSET Procedures]
  BY DEF TypeOK, StackTypeOK
<1>c. \A j \in Apps : /\ link'[j] # "down" <=> link[j] # "down"
                      /\ link'[j] = "opening" => link[j] = "opening"
  BY <1>a, <1>b
<1>d. /\ ~IsError(ev) /\ ev.type \notin GapTypes /\ ev.type \notin {"REG", "CLOSE"}
      /\ ~Behind("STOPPED") /\ (ev.type = "OPEN" => ~Behind("OPEN"))
  <2>1. ~IsError(ev) /\ ev.type \notin GapTypes /\ ev.type \notin {"REG", "CLOSE"}
    BY DEF IsError, IsProcedureEvent, GapTypes
  <2> QED
    BY <2>1, BehindFacts DEF GapTypes
<1>e. started = N /\ ~Has("REG") /\ ~Has("STOPPED")
  BY <1>d, AllStarted, HeadOrBehind DEF GapTypes
<1>f. ~scan' /\ ~Has("INQ_RES")' /\ ~Has("INQ_CMPL")' /\ ~Has("STOPPED")' /\ ~Has("REG")'
  BY <1>a, <1>d, <1>e, NoScan, ConsumedHas, HeadOrBehind
<1>1. QueueOrder' /\ EndEvents' /\ BrokenLinks' /\ ClosedLinks'
  <2>1. Behind("CLOSE") \/ ErrorBehind => Down'
    <3>1. Behind("CLOSE") \/ ErrorBehind => Down
      BY HeadOrBehind DEF EndEvents
    <3>2. Down => Down'
      BY <1>c DEF Down
    <3> QED
      BY <3>1, <3>2
  <2>2. Noted
    BY <1>d DEF Noted
  <2> QED
    BY <1>a, <2>1, <2>2, ConsumedEnds
<1>2. OneUseOfTheRadio'
  BY <1>a, <1>c DEF OneUseOfTheRadio
<1>3. FlagsCoverRadio'
  <2>1. ASSUME NEW j \in Apps PROVE link'[j] # "opening"
    <3>1. ev.type = "OPEN" => link[j] # "opening"
      BY HeadOrBehind DEF OpenEvent
    <3> QED
      BY <1>c, <3>1 DEF FlagsCoverRadio
  <2> QED
    BY <1>f, <2>1 DEF FlagsCoverRadio
<1>4. PendingUp'
  BY <1>a, <1>b DEF PendingUp
<1>5. LinksRegistered'
  BY <1>c DEF LinksRegistered
<1>6. Starting' /\ ScanEvents' /\ StopEvent'
  BY <1>e, <1>f, AppsProperties DEF Starting, ScanEvents, StopEvent
<1>7. OpenEvent'
  <2>1. CASE ev.type = "OPEN"
    BY <1>a, <1>d, <2>1, ConsumedHas DEF OpenEvent
  <2>2. CASE ev.type # "OPEN"
    <3>1. Has("OPEN")' => Has("OPEN")
      BY <1>a, ConsumedHas, HeadOrBehind
    <3>2. Has("OPEN") => \A j \in Apps : link[j] \notin {"up", "opening", "closing"}
      BY <2>2 DEF OpenEvent
    <3>3. (\A j \in Apps : link[j] \notin {"up", "opening", "closing"}) =>
             \A j \in Apps : link'[j] \notin {"up", "opening", "closing"}
      BY <1>a
    <3> QED
      BY <3>1, <3>2, <3>3 DEF OpenEvent
  <2> QED
    BY <2>1, <2>2
<1>8. ProcedureEvents'
  <2> SUFFICES ASSUME NEW k \in Positions', IsProcedureEvent(evq'[k])
               PROVE  ~scan' /\ \A j \in Apps : j # evq'[k].id => link'[j] = "down"
    BY DEF ProcedureEvents, IsProcedureEvent
  <2>1. k + 1 \in Positions /\ evq'[k] = evq[k + 1]
    BY <1>a, Consumed
  <2> QED
    BY <1>c, <1>f, <2>1 DEF ProcedureEvents
<1> QED
  BY <1>1, <1>2, <1>3, <1>4, <1>5, <1>6, <1>7, <1>8

-----------------------------------------------------------------------------
(* The callbacks.                                                          *)

\* A handler that consumes its event and leaves everything else alone.
LEMMA Ignored ==
  ASSUME TypeOK, RadioInv, evq # << >>, NoRequest, UNCHANGED <<flags, found, started>>,
         registered \subseteq registered', ev.type \notin GapTypes, Noted
  PROVE  RadioInv'
PROOF
<1>1. evq' = Tail(evq) /\ UNCHANGED <<link, pend, scan>>
  BY DEF NoRequest
<1>2. UNCHANGED <<scanning, opening, closing>>
  BY DEF flags
<1>3. FlagsCoverRadio' /\ PendingUp'
  BY <1>1, <1>2 DEF FlagsCoverRadio, PendingUp, RadioInv
<1> QED
  BY <1>1, <1>2, <1>3, NothingStarted

\* ble_conn_mngr_gattc_close, called for an event of the connection.
LEMMA CloseKeeps ==
  ASSUME TypeOK, RadioInv, evq # << >>, ev.type = "OPEN" \/ IsProcedureEvent(ev), ev.id \in Apps,
         NEW op \in BOOLEAN, op = opening \/ (ev.type = "OPEN" /\ op = FALSE),
         Close(ev.id, op), UNCHANGED <<started, registered, found>>
  PROVE  RadioInv'
PROOF
<1>1. CASE ~op /\ ~closing /\ ~scanning /\ CloseReq(ev.id) /\ KeepFlags(op, TRUE, scanning)
  <2>1. ~opening \/ ev.type = "OPEN"
    BY <1>1
  <2>2. ~opening' /\ closing' /\ ~scanning'
    BY <1>1 DEF KeepFlags
  <2> QED
    BY <1>1, <2>1, <2>2, ClosingStarted
<1>2. CASE NoRequest /\ KeepFlags(op, closing, scanning)
  <2>1. evq' = Tail(evq) /\ UNCHANGED <<link, pend, scan, closing, scanning>> /\ opening' = op
    BY <1>2 DEF NoRequest, KeepFlags
  <2>2. ~IsError(ev) /\ ev.type \notin GapTypes
    BY DEF IsError, IsProcedureEvent, GapTypes
  <2>3. FlagsCoverRadio'
    <3>1. ev.type = "OPEN" => \A j \in Apps : link[j] # "opening"
      BY HeadOrBehind DEF RadioInv, OpenEvent
    <3> QED
      BY <2>1, <3>1 DEF RadioInv, FlagsCoverRadio
  <2>4. PendingUp' /\ Noted
    BY <2>1, <2>2 DEF RadioInv, PendingUp, Noted
  <2> QED
    BY <2>1, <2>2, <2>3, <2>4, NothingStarted
<1> QED
  BY <1>1, <1>2 DEF Close

\* The next procedure of the connection is started.
LEMMA ProcedureKeeps ==
  ASSUME TypeOK, RadioInv, evq # << >>, ev.type = "OPEN" \/ IsProcedureEvent(ev), ev.id \in Apps,
         NEW op \in BOOLEAN, op = opening \/ (ev.type = "OPEN" /\ op = FALSE),
         NEW p, ProcedureReq(ev.id, p), KeepFlags(op, closing, scanning),
         UNCHANGED <<started, registered, found>>
  PROVE  RadioInv'
PROOF
<1>1. evq' = Tail(evq) /\ UNCHANGED <<link, scan, closing, scanning>> /\ opening' = op
  BY DEF ProcedureReq, KeepFlags
<1>2. ~IsError(ev) /\ ev.type \notin GapTypes
  BY DEF IsError, IsProcedureEvent, GapTypes
<1>3. FlagsCoverRadio'
  <2>1. ev.type = "OPEN" => \A j \in Apps : link[j] # "opening"
    BY HeadOrBehind DEF RadioInv, OpenEvent
  <2> QED
    BY <1>1, <2>1 DEF RadioInv, FlagsCoverRadio
<1>4. PendingUp'
  BY DEF RadioInv, PendingUp, ProcedureReq, TypeOK, StackTypeOK
<1>5. Noted
  BY <1>2 DEF Noted
<1> QED
  BY <1>1, <1>2, <1>3, <1>4, <1>5, NothingStarted

\* ble_conn_mngr_gap_start_scanning, called when there is no link: it starts
\* the scan or does nothing; the flags may have been cleared before.
Rescan ==
  \/ ScanReq /\ ~scanning /\ scanning' /\ ~opening' /\ ~closing'
  \/ /\ NoRequest /\ scanning' = scanning
     /\ closing' \in {closing, FALSE} /\ opening' \in {opening, FALSE}

LEMMA RescanKeeps ==
  ASSUME TypeOK, RadioInv, evq # << >>, ev.type \notin GapTypes,
         ev.type \in {"REG", "CLOSE"} \/ IsError(ev), Down, Rescan, UNCHANGED started,
         registered \subseteq registered', found' \subseteq found, Noted
  PROVE  RadioInv'
PROOF
<1>a. ~Behind("STOPPED") /\ \A k \in Positions : k > 1 => ~IsProcedureEvent(evq[k])
  BY BehindFacts DEF RadioInv, GapTypes
<1>b. ~Has("STOPPED")
  BY <1>a, HeadOrBehind DEF GapTypes
<1>1. CASE ScanReq /\ ~scanning /\ scanning' /\ ~opening' /\ ~closing'
  <2>1. ~Behind("INQ_CMPL")
    BY <1>1, <1>b, NoScan, HeadOrBehind
  <2> QED
    BY <1>1, <1>a, <2>1, ScanStarted
<1>2. CASE /\ NoRequest /\ scanning' = scanning
           /\ closing' \in {closing, FALSE} /\ opening' \in {opening, FALSE}
  <2>1. evq' = Tail(evq) /\ UNCHANGED <<link, pend, scan>>
    BY <1>2 DEF NoRequest
  <2>2. FlagsCoverRadio' /\ PendingUp'
    BY <1>2, <2>1 DEF RadioInv, FlagsCoverRadio, PendingUp, Down
  <2> QED
    BY <1>2, <2>1, <2>2, NothingStarted
<1> QED
  BY <1>1, <1>2 DEF Rescan

LEMMA SkipEventKeeps ==
  ASSUME TypeOK, RadioInv, SkipEvent
  PROVE  RadioInv'
PROOF
<1>1. evq # << >> /\ NoRequest /\ UNCHANGED started /\ UNCHANGED managerVars
  BY DEF SkipEvent, envVars
<1>2. UNCHANGED <<flags, found, registered>>
  BY <1>1 DEF managerVars, tableVars
<1>3. ev.type \notin GapTypes /\ (IsError(ev) => ev.id \notin registered)
  BY DEF SkipEvent, GapTypes, IsError
<1> QED
  BY <1>1, <1>2, <1>3, Ignored DEF Noted

LEMMA HandleRegKeeps ==
  ASSUME TypeOK, RadioInv, HandleReg
  PROVE  RadioInv'
PROOF
<1>1. /\ evq # << >> /\ ev.type = "REG" /\ UNCHANGED <<started, found>>
      /\ registered \subseteq registered'
  BY DEF HandleReg, HandlingGap, envVars
<1>2. found = {} /\ Down /\ ~opening /\ ~closing
  BY <1>1, HeadOrBehind DEF RadioInv, Starting
<1>3. ~AllRemotesFound(found)
  BY <1>2, AppsProperties DEF AllRemotesFound
<1>4. StartScanning(opening, closing, scanning, found)
  BY <1>3 DEF HandleReg, OpenOrScan
<1>5. ev.type \notin GapTypes /\ Noted
  BY <1>1 DEF GapTypes, Noted, IsError
<1>6. Rescan
  <2>1. CASE ~scanning /\ ScanReq /\ KeepFlags(opening, closing, TRUE)
    BY <1>2, <2>1 DEF KeepFlags, Rescan
  <2>2. CASE NoRequest /\ KeepFlags(opening, closing, scanning)
    BY <2>2 DEF KeepFlags, Rescan
  <2> QED
    BY <1>4, <2>1, <2>2 DEF StartScanning
<1> QED
  BY <1>1, <1>2, <1>5, <1>6, RescanKeeps

\* A handler of an event of a connection.
LEMMA Handled ==
  ASSUME TypeOK, NEW type \in GattcTypes, Handling(type)
  PROVE  /\ evq # << >> /\ ev.type = type /\ ev.id \in Apps /\ ev.id \in registered
         /\ UNCHANGED started
PROOF
  BY HeadType DEF Handling, envVars

LEMMA HandleOpenKeeps ==
  ASSUME TypeOK, RadioInv, HandleOpen
  PROVE  RadioInv'
PROOF
<1>1. /\ evq # << >> /\ ev.type = "OPEN" /\ ev.id \in Apps
      /\ UNCHANGED <<started, registered, found>>
  BY Handled DEF HandleOpen, GattcTypes
<1>2. CASE ProcedureReq(ev.id, "mtu") /\ KeepFlags(FALSE, closing, scanning)
  BY <1>1, <1>2, ProcedureKeeps
<1>3. CASE Close(ev.id, FALSE)
  BY <1>1, <1>3, CloseKeeps
<1>4. CASE NoRequest /\ KeepFlags(FALSE, closing, scanning)
  <2>1. evq' = Tail(evq) /\ UNCHANGED <<link, pend, scan, closing, scanning>> /\ opening' = FALSE
    BY <1>4 DEF NoRequest, KeepFlags
  <2>2. \A j \in Apps : link[j] # "opening"
    BY <1>1, HeadOrBehind DEF RadioInv, OpenEvent
  <2>3. FlagsCoverRadio' /\ PendingUp'
    BY <2>1, <2>2 DEF RadioInv, FlagsCoverRadio, PendingUp
  <2>4. ev.type \notin GapTypes /\ Noted
    BY <1>1 DEF GapTypes, Noted, IsError
  <2> QED
    BY <1>1, <2>1, <2>3, <2>4, NothingStarted
<1> QED
  BY <1>2, <1>3, <1>4 DEF HandleOpen

\* The events of a connection's procedures.
LEMMA ProcedureEventKeeps ==
  ASSUME TypeOK, RadioInv, evq # << >>, IsProcedureEvent(ev), ev.id \in Apps,
         UNCHANGED <<started, registered, found>>,
         \/ NoRequest /\ UNCHANGED flags
         \/ (\E p \in Procedures : ProcedureReq(ev.id, p)) /\ UNCHANGED flags
         \/ Close(ev.id, opening)
  PROVE  RadioInv'
PROOF
<1>a. opening \in BOOLEAN
  BY DEF TypeOK
<1>b. UNCHANGED flags => KeepFlags(opening, closing, scanning)
  BY DEF flags, KeepFlags
<1>c. ev.type \notin GapTypes /\ Noted
  BY DEF IsProcedureEvent, GapTypes, Noted, IsError
<1>1. CASE NoRequest /\ UNCHANGED flags
  BY <1>1, <1>c, Ignored
<1>2. ASSUME NEW p \in Procedures, ProcedureReq(ev.id, p), UNCHANGED flags
      PROVE  RadioInv'
  BY <1>2, <1>a, <1>b, ProcedureKeeps
<1>3. CASE Close(ev.id, opening)
  BY <1>3, <1>a, CloseKeeps
<1> QED
  BY <1>1, <1>2, <1>3

LEMMA HandleProceduresKeep ==
  ASSUME TypeOK, RadioInv,
         \/ HandleCfgMtu \/ HandleDisSrvcCmpl \/ HandleSearchRes \/ HandleSearchCmpl
         \/ HandleReadChar
  PROVE  RadioInv'
PROOF
<1>1. CASE HandleCfgMtu
  <2>1. /\ evq # << >> /\ ev.type = "CFG_MTU" /\ ev.id \in Apps
        /\ UNCHANGED <<started, registered, found>>
        /\ (NoRequest /\ UNCHANGED flags) \/ Close(ev.id, opening)
    BY <1>1, Handled DEF HandleCfgMtu, GattcTypes, tableVars
  <2> QED
    BY <2>1, ProcedureEventKeeps DEF IsProcedureEvent
<1>2. CASE HandleDisSrvcCmpl
  <2>1. /\ evq # << >> /\ ev.type = "DIS_SRVC_CMPL" /\ ev.id \in Apps
        /\ UNCHANGED <<started, registered, found>>
        /\ \/ (\E p \in Procedures : ProcedureReq(ev.id, p)) /\ UNCHANGED flags
           \/ Close(ev.id, opening)
    BY <1>2, Handled DEF HandleDisSrvcCmpl, GattcTypes, tableVars, Procedures
  <2> QED
    BY <2>1, ProcedureEventKeeps DEF IsProcedureEvent
<1>3. CASE HandleSearchRes
  <2>1. /\ evq # << >> /\ ev.type = "SEARCH_RES" /\ ev.id \in Apps
        /\ UNCHANGED <<started, registered, found>>
        /\ NoRequest /\ UNCHANGED flags
    BY <1>3, Handled DEF HandleSearchRes, GattcTypes
  <2> QED
    BY <2>1, ProcedureEventKeeps DEF IsProcedureEvent
<1>4. CASE HandleSearchCmpl
  <2>1. /\ evq # << >> /\ ev.type = "SEARCH_CMPL" /\ ev.id \in Apps
        /\ UNCHANGED <<started, registered, found>>
        /\ \/ NoRequest /\ UNCHANGED flags
           \/ (\E p \in Procedures : ProcedureReq(ev.id, p)) /\ UNCHANGED flags
           \/ Close(ev.id, opening)
    BY <1>4, Handled DEF HandleSearchCmpl, GattcTypes, tableVars, Procedures
  <2> QED
    BY <2>1, ProcedureEventKeeps DEF IsProcedureEvent
<1>5. CASE HandleReadChar
  <2>1. /\ evq # << >> /\ ev.type = "READ_CHAR" /\ ev.id \in Apps
        /\ UNCHANGED <<started, registered, found>>
        /\ Close(ev.id, opening)
    BY <1>5, Handled DEF HandleReadChar, GattcTypes, tableVars
  <2> QED
    BY <2>1, ProcedureEventKeeps DEF IsProcedureEvent
<1> QED
  BY <1>1, <1>2, <1>3, <1>4, <1>5

LEMMA HandleDisconnectKeeps ==
  ASSUME TypeOK, RadioInv, HandleDisconnect
  PROVE  RadioInv'
PROOF
<1>1. /\ evq # << >> /\ ev.type = "DISCONNECT" /\ ev.type \notin GapTypes
      /\ UNCHANGED <<started, registered>>
  BY Handled DEF HandleDisconnect, GattcTypes, GapTypes
<1>2. CASE ev.id \notin found \/ ev.ok
  <2>1. NoRequest /\ UNCHANGED <<flags, found>>
    BY <1>2 DEF HandleDisconnect
  <2>2. Noted
    BY <1>2, <2>1 DEF Noted, IsError
  <2> QED
    BY <1>1, <2>1, <2>2, Ignored
<1>3. CASE ev.id \in found /\ ~ev.ok
  <2>1. found' = found \ {ev.id} /\ StartScanning(FALSE, FALSE, scanning, found')
    BY <1>3 DEF HandleDisconnect
  <2>2. IsError(ev) /\ Noted /\ found' \subseteq found
    BY <1>1, <1>3, <2>1 DEF IsError, Noted
  <2>3. Down
    BY <1>1, <2>2, HeadOrBehind DEF RadioInv, EndEvents
  <2>4. Rescan
    BY <2>1 DEF StartScanning, KeepFlags, Rescan
  <2> QED
    BY <1>1, <2>2, <2>3, <2>4, RescanKeeps
<1> QED
  BY <1>2, <1>3

\* The end of a connection finds nothing in the way of the next one.
LEMMA CloseOpens ==
  ASSUME TypeOK, RadioInv, HandleClose, AllRemotesFound(found),
         OpensNextApp(opening, FALSE, scanning)
  PROVE  /\ ev.ok /\ ~scan
         /\ ~Behind("OPEN") /\ ~Behind("CLOSE") /\ ~ErrorBehind /\ ~Behind("STOPPED")
         /\ ~Behind("INQ_RES") /\ ~Behind("INQ_CMPL")
         /\ \A k \in Positions : k > 1 => ~IsProcedureEvent(evq[k])
PROOF
<1>1. /\ evq # << >> /\ ev.type = "CLOSE" /\ ev.type \notin GapTypes /\ ~scanning
  BY Handled DEF HandleClose, GattcTypes, GapTypes, OpensNextApp
<1>2. 1 \in Positions /\ ev = evq[1]
  BY <1>1, HeadOfQueue
<1>3. ev.ok
  <2>1. ev.id \in Apps
    BY <1>1, HeadType DEF GattcTypes
  <2>2. \A j \in Positions : ~(j < 1)
    BY DEF Positions
  <2>3. ev.id \in found
    BY <2>1 DEF AllRemotesFound
  <2> QED
    BY <1>1, <1>2, <2>2, <2>3 DEF RadioInv, BrokenLinks
<1>4. \A j \in Positions : j > 1 => evq[j].type \notin {"OPEN", "CLOSE"} /\ ~IsError(evq[j])
  BY <1>1, <1>2, <1>3 DEF RadioInv, ClosedLinks
<1>5. ~Behind("OPEN") /\ ~Behind("CLOSE") /\ ~ErrorBehind /\ ~Behind("STOPPED")
      /\ \A k \in Positions : k > 1 => ~IsProcedureEvent(evq[k])
  BY <1>1, <1>4, BehindFacts DEF Behind, ErrorBehind, RadioInv
<1>6. ~scan /\ ~Behind("INQ_RES") /\ ~Behind("INQ_CMPL")
  BY <1>1, <1>5, NoScan, HeadOrBehind
<1> QED
  BY <1>3, <1>5, <1>6

LEMMA HandleCloseKeeps ==
  ASSUME TypeOK, RadioInv, HandleClose
  PROVE  RadioInv'
PROOF
<1>1. /\ evq # << >> /\ ev.type = "CLOSE" /\ ev.type \notin GapTypes
      /\ UNCHANGED <<started, registered, found>>
      /\ OpenOrScan(opening, FALSE, scanning)
  BY Handled DEF HandleClose, GattcTypes, GapTypes
<1>2. Down /\ Noted
  BY <1>1, HeadOrBehind DEF RadioInv, EndEvents, Noted, IsError
<1>3. CASE AllRemotesFound(found) /\ OpensNextApp(opening, FALSE, scanning)
  <2> DEFINE next == NextPrf(found, curr_prf_idx)
  <2>1. /\ found # {} /\ ~scanning /\ OpenReq(next, next \in registered)
        /\ opening' /\ ~closing' /\ ~scanning'
    BY <1>3 DEF OpensNextApp, KeepFlags
  <2>2. next \in Apps
    BY <2>1, NextPrfType DEF TypeOK
  <2> HIDE DEF next
  <2> QED
    BY <1>1, <1>2, <1>3, <2>1, <2>2, CloseOpens, Opened
<1>4. CASE NoRequest /\ KeepFlags(opening, FALSE, scanning)
  <2>1. Rescan
    BY <1>4 DEF KeepFlags, Rescan
  <2> QED
    BY <1>1, <1>2, <2>1, RescanKeeps
<1>5. CASE StartScanning(opening, FALSE, scanning, found)
  <2>1. CASE ~scanning /\ ~opening /\ ScanReq /\ KeepFlags(opening, FALSE, TRUE)
    <3>1. Rescan
      BY <2>1 DEF KeepFlags, Rescan
    <3> QED
      BY <1>1, <1>2, <3>1, RescanKeeps
  <2> QED
    BY <1>4, <1>5, <2>1 DEF StartScanning
<1> QED
  BY <1>1, <1>3, <1>4, <1>5 DEF OpenOrScan

\* Nothing but scan events in the queue.
LEMMA ScanEventsOnly ==
  ASSUME TypeOK, RadioInv, UNCHANGED <<link, pend, started, registered>>, started = N, Down,
         ~opening', ~closing', scan' => scanning',
         \A k \in Positions' : evq'[k].type \in GapTypes,
         QueueOrder', ScanEvents', StopEvent'
  PROVE  RadioInv'
PROOF
<1>a. Down'
  BY DEF Down
<1>1. ~Has("REG")' /\ ~Has("OPEN")' /\ ~Has("CLOSE")' /\ ~HasError'
      /\ \A k \in Positions' : ~IsProcedureEvent(evq'[k])
  BY DEF Has, HasError, IsError, IsProcedureEvent, GapTypes
<1>2. OneUseOfTheRadio' /\ FlagsCoverRadio' /\ PendingUp' /\ LinksRegistered'
  BY <1>a DEF OneUseOfTheRadio, FlagsCoverRadio, PendingUp, LinksRegistered, RadioInv, Down
<1>3. Starting' /\ OpenEvent' /\ ProcedureEvents'
  <2>1. ~(started' < N)
    BY AppsProperties
  <2> QED
    BY <1>1, <2>1 DEF Starting, OpenEvent, ProcedureEvents, IsProcedureEvent
<1>4. EndEvents' /\ BrokenLinks' /\ ClosedLinks'
  BY <1>1 DEF EndEvents, BrokenLinks, ClosedLinks, Has
<1> QED
  BY <1>2, <1>3, <1>4 DEF RadioInv

LEMMA HandleInqResKeeps ==
  ASSUME TypeOK, RadioInv, HandleInqRes
  PROVE  RadioInv'
PROOF
<1> USE DEF RadioInv
<1>1. /\ evq # << >> /\ ev.type = "INQ_RES" /\ UNCHANGED <<started, registered>>
      /\ found \subseteq found'
  BY DEF HandleInqRes, HandlingGap, envVars
<1>2. Has("INQ_RES") /\ started = N
  BY <1>1, HeadOrBehind, AllStarted
<1>3. Down /\ ~opening /\ ~closing /\ (scanning \/ Has("STOPPED"))
  BY <1>2 DEF ScanEvents
<1>4. \A k \in Positions : k > 1 => evq[k].type \in GapTypes
  BY <1>1, BehindFacts
<1>5. Has("STOPPED") <=> Behind("STOPPED")
  BY <1>1, HeadOrBehind
<1>6. CASE NoRequest /\ UNCHANGED flags
  <2>1. evq' = Tail(evq) /\ UNCHANGED <<link, pend, scan, scanning, opening, closing>>
    BY <1>6 DEF NoRequest, flags
  <2>2. \A k \in Positions' : evq'[k].type \in GapTypes
    BY <1>1, <1>4, <2>1, Consumed
  <2>3. (Has("STOPPED")' <=> Has("STOPPED")) /\ (Has("INQ_CMPL")' => Has("INQ_CMPL"))
    BY <1>1, <1>5, <2>1, ConsumedHas, HeadOrBehind
  <2>4. Down'
    BY <1>3, <2>1 DEF Down
  <2>5. ScanEvents'
    BY <1>3, <2>1, <2>3, <2>4 DEF ScanEvents
  <2>6. StopEvent'
    BY <1>1, <2>1, <2>2, <2>3, <2>4 DEF StopEvent, AllRemotesFound
  <2>7. QueueOrder' /\ (scan' => scanning')
    BY <1>1, <2>1, ConsumedOrder DEF FlagsCoverRadio
  <2> QED
    BY <1>1, <1>2, <1>3, <2>1, <2>2, <2>5, <2>6, <2>7, ScanEventsOnly
<1>7. CASE AllRemotesFound(found)' /\ scanning /\ StopReq /\ KeepFlags(opening, closing, FALSE)
  <2> DEFINE stopped == Event("STOPPED", 0, TRUE)
  <2>1. /\ evq' = Append(Tail(evq), stopped) /\ UNCHANGED <<link, pend, opening, closing>>
        /\ ~scan' /\ ~scanning'
    BY <1>7 DEF StopReq, KeepFlags
  <2>2. stopped.type = "STOPPED"
    BY DEF Event
  <2> HIDE DEF stopped
  <2>3. ~Has("STOPPED")
    BY <1>7 DEF StopEvent
  <2>4. /\ Len(evq) \in Positions' /\ evq'[Len(evq)] = stopped
        /\ \A k \in Positions' : k \in Nat /\ k <= Len(evq)
        /\ \A k \in Positions' : k # Len(evq) =>
             k + 1 \in Positions /\ k + 1 > 1 /\ evq'[k] = evq[k + 1]
    <3>1. /\ Len(Tail(evq)) = Len(evq) - 1 /\ Len(evq) \in Nat \ {0}
          /\ \A k \in 1 .. Len(Tail(evq)) : Tail(evq)[k] = evq[k + 1]
          /\ Tail(evq) \in Seq(Events)
      BY <1>1, HeadOfQueue, HeadTailProperties DEF TypeOK, StackTypeOK
    <3>2. /\ Len(evq') = Len(evq) /\ evq'[Len(evq)] = stopped
          /\ \A k \in 1 .. Len(Tail(evq)) : evq'[k] = Tail(evq)[k]
      BY <2>1, <3>1
    <3>3. Positions' = 1 .. Len(evq) /\ Positions = 1 .. Len(evq)
      BY <3>2 DEF Positions
    <3>4. ASSUME NEW k \in Positions', k # Len(evq)
          PROVE  k + 1 \in Positions /\ k + 1 > 1 /\ evq'[k] = evq[k + 1]
      <4>1. k \in 1 .. Len(evq) - 1 /\ k + 1 \in 1 .. Len(evq) /\ k + 1 > 1
        <5>1. k \in 1 .. Len(evq) /\ Len(evq) \in Nat
          BY <3>1, <3>3
        <5> QED
          BY <3>4, <5>1
      <4> QED
        BY <3>1, <3>2, <3>3, <4>1
    <3>5. Len(evq) \in Positions' /\ evq'[Len(evq)] = stopped
      BY <3>1, <3>2, <3>3
    <3>6. \A k \in Positions' : k \in Nat /\ k <= Len(evq)
      BY <3>1, <3>3
    <3> QED
      BY <3>4, <3>5, <3>6
  <2>5. \A k \in Positions' : evq'[k].type \in GapTypes
    BY <1>4, <2>2, <2>4 DEF GapTypes
  <2>6. Has("STOPPED")'
    BY <2>2, <2>4 DEF Has
  <2>7. Down'
    BY <1>3, <2>1 DEF Down
  <2>8. ScanEvents'
    <3>1. ~(scan')
      BY <2>1
    <3> QED
      BY <1>3, <2>1, <2>6, <2>7, <3>1 DEF ScanEvents
  <2>9. StopEvent'
    BY <1>3, <1>7, <2>1, <2>5, <2>7 DEF StopEvent
  <2>10. QueueOrder'
    <3> SUFFICES ASSUME NEW j \in Positions', NEW k \in Positions', j < k
                 PROVE  MayFollow(evq'[j], evq'[k])
      BY DEF QueueOrder, MayFollow, IsError, IsProcedureEvent
    <3>1. j \in Nat /\ k \in Nat /\ j + 1 \in Positions /\ evq'[j] = evq[j + 1] /\ j + 1 > 1
      <4>1. k <= Len(evq) /\ j \in Nat /\ k \in Nat /\ Len(evq) \in Nat
        BY <1>1, <2>4, HeadOfQueue
      <4>2. j # Len(evq)
        BY <4>1
      <4> QED
        BY <2>4, <4>1, <4>2
    <3>2. CASE k # Len(evq)
      <4>1. k + 1 \in Positions /\ evq'[k] = evq[k + 1] /\ j + 1 < k + 1
        BY <2>4, <3>1, <3>2
      <4> QED
        BY <3>1, <4>1 DEF QueueOrder
    <3>3. CASE k = Len(evq)
      <4>1. evq'[k] = stopped
        BY <2>4, <3>3
      <4>2. evq[j + 1].type \in {"INQ_RES", "INQ_CMPL"}
        BY <1>4, <2>3, <3>1 DEF Has, GapTypes
      <4> QED
        BY <2>2, <3>1, <4>1, <4>2 DEF MayFollow, IsError, IsProcedureEvent, GapTypes
    <3> QED
      BY <3>2, <3>3
  <2> QED
    BY <1>1, <1>2, <1>3, <2>1, <2>5, <2>8, <2>9, <2>10, ScanEventsOnly
<1> QED
  BY <1>6, <1>7 DEF HandleInqRes, StopScanning, AllRemotesFound

\* The end of a scan after which nothing is started.
LEMMA ScanEndIgnored ==
  ASSUME TypeOK, RadioInv, evq # << >>, ev.type \in {"INQ_CMPL", "STOPPED"}, NoRequest,
         ~scanning', UNCHANGED <<opening, closing, started, registered, found>>
  PROVE  RadioInv'
PROOF
<1> USE DEF RadioInv
<1>a. evq' = Tail(evq) /\ UNCHANGED <<link, pend, scan>>
  BY DEF NoRequest
<1>b. Down' <=> Down
  BY <1>a DEF Down
<1>c. started = N /\ ~Has("REG")'
  BY <1>a, AllStarted, ConsumedHas, HeadOrBehind
<1>d. ~scan /\ ~Behind("INQ_RES") /\ ~Behind("INQ_CMPL")
  <2>1. CASE ev.type = "INQ_CMPL"
    <3>1. \A k \in Positions : k > 1 => evq[k].type = "STOPPED"
      BY <2>1, BehindFacts
    <3> QED
      BY <2>1, <3>1, HeadOrBehind DEF ScanEvents, Behind
  <2>2. CASE ev.type = "STOPPED"
    BY <2>2, BehindFacts, HeadOrBehind DEF StopEvent
  <2> QED
    BY <2>1, <2>2
<1>1. QueueOrder' /\ EndEvents' /\ BrokenLinks' /\ ClosedLinks'
  <2>1. Behind("CLOSE") \/ ErrorBehind => Down'
    BY <1>b, HeadOrBehind DEF EndEvents
  <2>2. Noted
    BY DEF Noted, IsError
  <2> QED
    BY <1>a, <2>1, <2>2, ConsumedEnds
<1>2. OneUseOfTheRadio' /\ PendingUp' /\ LinksRegistered'
  BY <1>a DEF OneUseOfTheRadio, PendingUp, LinksRegistered
<1>3. FlagsCoverRadio'
  BY <1>a, <1>d DEF FlagsCoverRadio
<1>4. Starting'
  BY <1>c, AppsProperties DEF Starting
<1>5. ScanEvents'
  BY <1>a, <1>d, ConsumedHas DEF ScanEvents
<1>6. StopEvent'
  <2>1. CASE ev.type = "STOPPED"
    BY <1>a, <2>1, ConsumedHas, BehindFacts DEF StopEvent
  <2>2. CASE ev.type = "INQ_CMPL"
    <3>1. Has("STOPPED")' => Has("STOPPED")
      BY <1>a, ConsumedHas, HeadOrBehind
    <3>2. \A k \in Positions' : evq'[k].type = "STOPPED"
      BY <1>a, <2>2, Consumed, BehindFacts
    <3> QED
      BY <1>a, <1>b, <3>1, <3>2 DEF StopEvent, AllRemotesFound, GapTypes
  <2> QED
    BY <2>1, <2>2
<1>7. OpenEvent'
  <2>1. Has("OPEN")' => Has("OPEN")
    BY <1>a, ConsumedHas, HeadOrBehind
  <2> QED
    BY <1>a, <2>1 DEF OpenEvent
<1>8. ProcedureEvents'
  <2> SUFFICES ASSUME NEW k \in Positions', IsProcedureEvent(evq'[k])
               PROVE  ~scan' /\ \A i \in Apps : i # evq'[k].id => link'[i] = "down"
    BY DEF ProcedureEvents, IsProcedureEvent
  <2>1. k + 1 \in Positions /\ evq'[k] = evq[k + 1]
    BY <1>a, Consumed
  <2> QED
    BY <1>a, <2>1 DEF ProcedureEvents
<1> QED
  BY <1>1, <1>2, <1>3, <1>4, <1>5, <1>6, <1>7, <1>8

\* A scan that is over with the radio idle: all that waits is its stop.
LEMMA ScanEndIdle ==
  ASSUME TypeOK, RadioInv, HandleScanEnd
  PROVE  /\ (Behind("STOPPED") => AllRemotesFound(found)) /\ ~scan /\ ~closing
         /\ ~opening => /\ Down
                        /\ \A k \in Positions : k > 1 => evq[k].type = "STOPPED"
PROOF
<1>1. /\ evq # << >> /\ ev.type \in {"INQ_CMPL", "STOPPED"}
  BY DEF HandleScanEnd, HandlingGap
<1>2. (Behind("STOPPED") => AllRemotesFound(found)) /\ ~scan /\ ~closing
  <2>1. ev.type = "INQ_CMPL" => ~scan /\ ~closing
    BY <1>1, HeadOrBehind DEF RadioInv, ScanEvents
  <2>2. Has("STOPPED") => ~scan /\ ~closing /\ AllRemotesFound(found)
    BY DEF RadioInv, StopEvent
  <2> QED
    BY <1>1, <2>1, <2>2, HeadOrBehind
<1>3. ~opening => /\ Down
                  /\ \A k \in Positions : k > 1 => evq[k].type = "STOPPED"
  <2>1. CASE ev.type = "INQ_CMPL"
    BY <2>1, <1>1, HeadOrBehind, BehindFacts DEF RadioInv, ScanEvents
  <2>2. CASE ev.type = "STOPPED"
    <3>1. Has("STOPPED")
      BY <1>1, <2>2, HeadOrBehind
    <3>2. ~opening => Down /\ \A k \in Positions : evq[k].type \in GapTypes
      BY <3>1 DEF RadioInv, StopEvent
    <3>3. \A k \in Positions : k > 1 => evq[k].type \notin GapTypes
      BY <1>1, <2>2, BehindHead DEF RadioInv, MayFollow
    <3> QED
      BY <3>2, <3>3
  <2> QED
    BY <1>1, <2>1, <2>2
<1> QED
  BY <1>2, <1>3

LEMMA HandleScanEndKeeps ==
  ASSUME TypeOK, RadioInv, HandleScanEnd
  PROVE  RadioInv'
PROOF
<1>1. /\ evq # << >> /\ ev.type \in {"INQ_CMPL", "STOPPED"}
      /\ UNCHANGED <<started, registered, found>>
  BY DEF HandleScanEnd, HandlingGap, envVars, tableVars
<1>2. (Behind("STOPPED") => AllRemotesFound(found)) /\ ~scan /\ ~closing
  BY ScanEndIdle
<1>3. ~opening => /\ Down
                  /\ \A k \in Positions : k > 1 => evq[k].type = "STOPPED"
  BY ScanEndIdle
<1>4. ~opening => /\ ~Behind("INQ_RES") /\ ~Behind("INQ_CMPL") /\ ~Behind("OPEN")
                  /\ ~Behind("CLOSE") /\ ~ErrorBehind
                  /\ \A k \in Positions : k > 1 => ~IsProcedureEvent(evq[k])
  BY <1>3 DEF Behind, ErrorBehind, IsError, IsProcedureEvent
<1>5. CASE OpensNextApp(opening, closing, FALSE)
  <2> DEFINE next == NextPrf(found, curr_prf_idx)
  <2>1. /\ found # {} /\ ~opening /\ OpenReq(next, next \in registered)
        /\ opening' /\ closing' = closing /\ ~scanning'
    BY <1>5 DEF OpensNextApp, KeepFlags
  <2>2. next \in Apps
    BY <2>1, NextPrfType DEF TypeOK
  <2>3. ~closing'
    BY <1>2, <2>1
  <2> HIDE DEF next
  <2> QED
    BY <1>1, <1>2, <1>3, <1>4, <2>1, <2>2, <2>3, Opened
<1>6. CASE ~opening /\ ~AllRemotesFound(found) /\ ScanReq /\ KeepFlags(opening, closing, TRUE)
  <2>1. scanning' /\ ~opening' /\ ~closing' /\ found' \subseteq found
        /\ registered \subseteq registered'
    BY <1>1, <1>2, <1>6 DEF KeepFlags
  <2>2. Noted
    BY <1>1 DEF Noted, IsError
  <2> QED
    BY <1>1, <1>2, <1>3, <1>4, <1>6, <2>1, <2>2, ScanStarted
<1>7. CASE NoRequest /\ KeepFlags(opening, closing, FALSE)
  <2>1. ~scanning' /\ UNCHANGED <<opening, closing>>
    BY <1>7 DEF KeepFlags
  <2> QED
    BY <1>1, <1>7, <2>1, ScanEndIgnored
<1> QED
  BY <1>5, <1>6, <1>7 DEF HandleScanEnd, StartScanning

LEMMA CallbackKeeps ==
  ASSUME TypeOK, RadioInv, Callback
  PROVE  RadioInv'
PROOF
  BY SkipEventKeeps, HandleRegKeeps, HandleOpenKeeps, HandleProceduresKeep, HandleCloseKeeps,
     HandleDisconnectKeeps, HandleInqResKeeps, HandleScanEndKeeps DEF Callback

-----------------------------------------------------------------------------
(* The stack.                                                              *)

\* While a link exists nothing is left of a scan, of another link or of the
\* start, and the stop of the last scan waits only until the link is opened.
LEMMA Linked ==
  ASSUME TypeOK, RadioInv, NEW i \in Apps, link[i] # "down"
  PROVE  /\ started = N /\ ~scan
         /\ ~Has("REG") /\ ~Has("INQ_RES") /\ ~Has("INQ_CMPL") /\ ~Has("CLOSE") /\ ~HasError
         /\ \A j \in Apps : j # i => link[j] = "down"
         /\ i \in registered
         /\ Has("STOPPED") => opening
PROOF
<1>1. ~Down /\ started \in 0 .. N
  BY DEF Down, TypeOK, StackTypeOK
<1>2. started = N /\ ~Has("REG")
  BY <1>1, AppsProperties DEF RadioInv, Starting
<1>3. ~scan /\ ~Has("INQ_RES") /\ ~Has("INQ_CMPL") /\ ~Has("CLOSE") /\ ~HasError
  BY <1>1 DEF RadioInv, ScanEvents, EndEvents
<1>4. \A j \in Apps : j # i => link[j] = "down"
  BY DEF RadioInv, OneUseOfTheRadio
<1>5. Has("STOPPED") => opening
  BY <1>1 DEF RadioInv, StopEvent
<1>6. i \in registered
  BY DEF RadioInv, LinksRegistered
<1> QED
  BY <1>2, <1>3, <1>4, <1>5, <1>6

LEMMA LinkNotified ==
  ASSUME TypeOK, RadioInv, NEW i \in Apps, link[i] # "down",
         NEW s \in Seq(Events), Notify(s),
         UNCHANGED <<scan, started, scanning, opening, closing, found>>,
         \A k \in 1 .. Len(s) : s[k].type \notin {"REG"} \cup GapTypes,
         \A k \in 1 .. Len(s) : s[k].type = "OPEN" => ~Has("OPEN"),
         \A j, k \in 1 .. Len(s) : j < k => ~(s[j].type = "OPEN" /\ s[k].type = "OPEN"),
         \A j, k \in 1 .. Len(s) : j < k =>
            ~((s[j].type = "CLOSE" \/ IsError(s[j])) /\ IsProcedureEvent(s[k])),
         Has("STOPPED") => ~closing
  PROVE  QueueOrder' /\ Starting' /\ ScanEvents' /\ StopEvent'
PROOF
<1> USE DEF RadioInv
<1>1. /\ ~Has("REG") /\ ~Has("INQ_RES") /\ ~Has("INQ_CMPL") /\ ~Has("CLOSE") /\ ~HasError
      /\ started = N /\ ~scan /\ (Has("STOPPED") => opening)
  BY Linked
<1>2. QueueOrder'
  <2>1. ASSUME NEW k \in Positions, NEW j \in 1 .. Len(s) PROVE MayFollow(evq[k], s[j])
    <3>1. evq[k].type \notin {"REG", "INQ_RES", "INQ_CMPL", "CLOSE"} /\ ~IsError(evq[k])
      BY <1>1 DEF Has, HasError
    <3>2. evq[k].type = "OPEN" => s[j].type # "OPEN"
      BY DEF Has
    <3> QED
      BY <3>1, <3>2 DEF MayFollow, GapTypes
  <2>2. ASSUME NEW j \in 1 .. Len(s), NEW k \in 1 .. Len(s), j < k PROVE MayFollow(s[j], s[k])
    <3>1. /\ s[j].type \notin {"REG"} \cup GapTypes /\ s[k].type \notin {"REG"} \cup GapTypes
          /\ ~(s[j].type = "OPEN" /\ s[k].type = "OPEN")
          /\ ~((s[j].type = "CLOSE" \/ IsError(s[j])) /\ IsProcedureEvent(s[k]))
      BY <2>2
    <3> QED
      BY <3>1 DEF MayFollow, GapTypes
  <2> QED
    BY <2>1, <2>2, NotifiedOrder
<1>3. /\ ~Has("REG")' /\ ~Has("INQ_RES")' /\ ~Has("INQ_CMPL")'
      /\ Has("STOPPED")' => Has("STOPPED")
  BY <1>1, NotifiedHas DEF GapTypes
<1>4. Starting' /\ ScanEvents'
  BY <1>1, <1>3, AppsProperties DEF Starting, ScanEvents
<1>5. StopEvent'
  <2>1. Has("STOPPED") => opening' /\ ~scan' /\ ~scanning' /\ ~closing' /\ AllRemotesFound(found')
    BY <1>1 DEF StopEvent
  <2> QED
    BY <1>3, <2>1 DEF StopEvent, AllRemotesFound
<1> QED
  BY <1>2, <1>4, <1>5

\* The rest of RadioInv once there is no link any more.
LEMMA LinkGone ==
  ASSUME TypeOK, RadioInv, Down', ~scan',
         QueueOrder', Starting', ScanEvents', StopEvent', PendingUp',
         \A k \in Positions' : evq'[k].type = "CLOSE" => evq'[k].id \in registered',
         BrokenLinks', ClosedLinks'
  PROVE  RadioInv'
PROOF
<1>1. FlagsCoverRadio' /\ OneUseOfTheRadio' /\ OpenEvent' /\ LinksRegistered'
  BY DEF FlagsCoverRadio, OneUseOfTheRadio, OpenEvent, LinksRegistered, Down
<1>2. EndEvents'
  BY DEF EndEvents
<1>3. ProcedureEvents'
  BY DEF ProcedureEvents, Down, IsProcedureEvent
<1> QED
  BY <1>1, <1>2, <1>3 DEF RadioInv

LEMMA OpenSucceedsKeeps ==
  ASSUME TypeOK, RadioInv, UNCHANGED managerVars, NEW i \in Apps, OpenSucceeds(i)
  PROVE  RadioInv'
PROOF
<1> USE DEF RadioInv
<1>a. UNCHANGED <<scanning, opening, closing, found, registered, scan, started>>
  BY DEF managerVars, flags, tableVars, OpenSucceeds, envVars
<1>b. /\ link[i] = "opening" /\ link[i] # "down" /\ link' = [link EXCEPT ![i] = "up"]
      /\ pend' = [pend EXCEPT ![i] = {"disc"}]
  BY DEF OpenSucceeds
<1>c. link \in [Apps -> LinkStates] /\ pend \in [Apps -> SUBSET Procedures]
  BY DEF TypeOK, StackTypeOK
<1>d. /\ ~scan /\ ~Has("CLOSE") /\ ~HasError /\ i \in registered
      /\ \A j \in Apps : j # i => link[j] = "down"
  BY <1>b, Linked
<1>e. opening /\ ~Has("OPEN")
  BY <1>b DEF FlagsCoverRadio, OpenEvent
<1>f. \A j \in Apps : link'[j] = IF j = i THEN "up" ELSE "down"
  BY <1>b, <1>c, <1>d
<1> DEFINE s == <<Event("OPEN", i, TRUE)>>
<1>g. s \in Seq(Events) /\ Len(s) = 1 /\ s[1] = Event("OPEN", i, TRUE) /\ Notify(s)
  BY OneEvent DEF OpenSucceeds, GattcTypes
<1>h. \A k \in 1 .. Len(s) : s[k].type = "OPEN"
  BY <1>g DEF Event
<1> HIDE DEF s
<1>1. QueueOrder' /\ Starting' /\ ScanEvents' /\ StopEvent'
  <2>1. /\ \A k \in 1 .. Len(s) : s[k].type \notin {"REG"} \cup GapTypes
        /\ \A k \in 1 .. Len(s) : ~IsProcedureEvent(s[k])
        /\ \A j, k \in 1 .. Len(s) : ~(j < k)
    BY <1>g, <1>h DEF GapTypes, IsProcedureEvent
  <2>2. Has("STOPPED") => ~closing
    BY DEF StopEvent
  <2> QED
    BY <1>a, <1>b, <1>e, <1>g, <2>1, <2>2, LinkNotified
<1>2. ~Has("CLOSE")' /\ ~HasError'
  BY <1>d, <1>g, <1>h, NotifiedHas DEF IsError
<1>3. EndEvents' /\ BrokenLinks' /\ ClosedLinks'
  BY <1>2 DEF EndEvents, BrokenLinks, ClosedLinks, Has
<1>4. FlagsCoverRadio' /\ OneUseOfTheRadio' /\ OpenEvent' /\ LinksRegistered'
  BY <1>a, <1>d, <1>e, <1>f DEF FlagsCoverRadio, OneUseOfTheRadio, OpenEvent, LinksRegistered
<1>5. PendingUp'
  BY <1>b, <1>c, <1>d, <1>f DEF PendingUp
<1>6. ProcedureEvents'
  <2> SUFFICES ASSUME NEW k \in Positions', IsProcedureEvent(evq'[k])
               PROVE  ~scan' /\ \A j \in Apps : j # evq'[k].id => link'[j] = "down"
    BY DEF ProcedureEvents, IsProcedureEvent
  <2>1. k \in Positions /\ evq'[k] = evq[k]
    BY <1>g, <1>h, Notified DEF IsProcedureEvent
  <2>2. evq[k].id = i
    BY <1>b, <2>1 DEF ProcedureEvents
  <2> QED
    BY <1>a, <1>d, <1>f, <2>1, <2>2
<1> QED
  BY <1>1, <1>3, <1>4, <1>5, <1>6

LEMMA LinkEnds ==
  ASSUME TypeOK, RadioInv, UNCHANGED <<managerVars, scan, started>>,
         NEW i \in Apps, link[i] # "down", link' = [link EXCEPT ![i] = "down"]
  PROVE  /\ Down' /\ ~scan' /\ ~Has("CLOSE") /\ ~HasError
         /\ UNCHANGED <<scan, started, scanning, opening, closing, found, registered>>
         /\ pend' = [pend EXCEPT ![i] = {}] => PendingUp'
         /\ link[i] # "up" /\ UNCHANGED pend => PendingUp'
PROOF
<1>1. ~scan /\ ~Has("CLOSE") /\ ~HasError /\ \A j \in Apps : j # i => link[j] = "down"
  BY Linked
<1>2. UNCHANGED <<scan, started, scanning, opening, closing, found, registered>>
  BY DEF managerVars, flags, tableVars
<1>3. link \in [Apps -> LinkStates] /\ pend \in [Apps -> SUBSET Procedures]
  BY DEF TypeOK, StackTypeOK
<1>4. Down'
  BY <1>1, <1>3 DEF Down
<1>5. ASSUME pend' = [pend EXCEPT ![i] = {}] \/ (link[i] # "up" /\ UNCHANGED pend)
      PROVE  PendingUp'
  <2>1. \A j \in Apps : pend[j] = {} \/ (j = i /\ link[i] = "up")
    BY <1>1 DEF RadioInv, PendingUp
  <2> QED
    BY <1>3, <1>5, <2>1 DEF PendingUp
<1> QED
  BY <1>1, <1>2, <1>4, <1>5

LEMMA Concatenated ==
  ASSUME NEW s \in Seq(Events), NEW t \in Seq(Events)
  PROVE  /\ s \o t \in Seq(Events) /\ Len(s \o t) = Len(s) + Len(t)
         /\ \A k \in 1 .. Len(s) + Len(t) :
              (s \o t)[k] = IF k <= Len(s) THEN s[k] ELSE t[k - Len(s)]
PROOF
<1>1. s \o t \in Seq(Events)
  OBVIOUS
<1> QED
  BY <1>1, ConcatProperties

LEMMA OpenFailsKeeps ==
  ASSUME TypeOK, RadioInv, UNCHANGED managerVars, NEW i \in Apps, OpenFails(i)
  PROVE  RadioInv'
PROOF
<1>a. /\ link[i] = "opening" /\ link[i] # "down" /\ link' = [link EXCEPT ![i] = "down"]
      /\ UNCHANGED <<managerVars, scan, started, pend>>
  BY DEF OpenFails, envVars
<1>b. /\ Down' /\ ~scan' /\ ~Has("CLOSE") /\ PendingUp'
      /\ UNCHANGED <<scan, started, scanning, opening, closing, found, registered>>
  BY <1>a, LinkEnds
<1>c. ~Has("OPEN") /\ (Has("STOPPED") => ~closing)
  BY <1>a DEF RadioInv, OpenEvent, StopEvent
<1> DEFINE opened == <<Event("OPEN", i, FALSE)>>
           closed == Broadcast(FALSE)
<1>d. /\ opened \in Seq(Events) /\ Len(opened) = 1 /\ opened[1] = Event("OPEN", i, FALSE)
      /\ closed \in Seq(Events) /\ Len(closed) = N /\ N \in Nat \ {0}
      /\ \A k \in 1 .. N : closed[k] = Event("DISCONNECT", k - 1, FALSE)
  BY OneEvent, BroadcastShape, NAssumption DEF GattcTypes
<1>e. Notify(opened \o closed) \/ Notify(closed \o opened)
  BY DEF OpenFails
<1> HIDE DEF opened, closed
<1>f. PICK s \in Seq(Events) :
        /\ Notify(s)
        /\ \A k \in 1 .. Len(s) : s[k].type \in {"OPEN", "DISCONNECT"}
        /\ \A j, k \in 1 .. Len(s) : j < k => ~(s[j].type = "OPEN" /\ s[k].type = "OPEN")
  <2>1. CASE Notify(opened \o closed)
    <3> DEFINE s == opened \o closed
    <3>1. /\ s \in Seq(Events) /\ Len(s) = 1 + N
          /\ \A k \in 1 .. 1 + N : s[k] = IF k <= 1 THEN opened[k] ELSE closed[k - 1]
      <4>1. /\ s \in Seq(Events) /\ Len(s) = Len(opened) + Len(closed)
            /\ \A k \in 1 .. Len(opened) + Len(closed) :
                 s[k] = IF k <= Len(opened) THEN opened[k] ELSE closed[k - Len(opened)]
        BY <1>d, Concatenated
      <4> HIDE DEF s
      <4> QED
        BY <1>d, <4>1
    <3> HIDE DEF s
    <3>2. ASSUME NEW k \in 1 .. 1 + N
          PROVE  s[k].type \in {"OPEN", "DISCONNECT"} /\ (s[k].type = "OPEN" => k = 1)
      <4>1. k = 1 \/ (k > 1 /\ k - 1 \in 1 .. N)
        BY <1>d
      <4> QED
        BY <1>d, <3>1, <4>1 DEF Event
    <3>3. \A j, k \in 1 .. 1 + N : j < k => ~(s[j].type = "OPEN" /\ s[k].type = "OPEN")
      BY <3>2
    <3> QED
      BY <2>1, <3>1, <3>2, <3>3 DEF s
  <2>2. CASE Notify(closed \o opened)
    <3> DEFINE s == closed \o opened
    <3>1. /\ s \in Seq(Events) /\ Len(s) = N + 1
          /\ \A k \in 1 .. N + 1 : s[k] = IF k <= N THEN closed[k] ELSE opened[k - N]
      BY <1>d, Concatenated
    <3> HIDE DEF s
    <3>2. ASSUME NEW k \in 1 .. N + 1
          PROVE  s[k].type \in {"OPEN", "DISCONNECT"} /\ (s[k].type = "OPEN" => k = N + 1)
      <4>1. (k = N + 1 /\ ~(k <= N) /\ k - N = 1) \/ (k <= N /\ k \in 1 .. N)
        BY <1>d
      <4> QED
        BY <1>d, <3>1, <4>1 DEF Event
    <3>3. \A j, k \in 1 .. N + 1 : j < k => ~(s[j].type = "OPEN" /\ s[k].type = "OPEN")
      BY <1>d, <3>2
    <3> QED
      BY <2>2, <3>1, <3>2, <3>3 DEF s
  <2> QED
    BY <1>e, <2>1, <2>2
<1>1. QueueOrder' /\ Starting' /\ ScanEvents' /\ StopEvent'
  <2>1. /\ \A k \in 1 .. Len(s) : s[k].type \notin {"REG"} \cup GapTypes
        /\ \A k \in 1 .. Len(s) : ~IsProcedureEvent(s[k])
    BY <1>f DEF GapTypes, IsProcedureEvent
  <2> QED
    BY <1>a, <1>b, <1>c, <1>f, <2>1, LinkNotified
<1>2. ~Has("CLOSE")'
  BY <1>b, <1>f, NotifiedHas
<1>3. BrokenLinks' /\ ClosedLinks' /\ \A k \in Positions' : evq'[k].type # "CLOSE"
  BY <1>2 DEF BrokenLinks, ClosedLinks, Has
<1> QED
  BY <1>b, <1>1, <1>3, LinkGone

LEMMA ClosedKeeps ==
  ASSUME TypeOK, RadioInv, UNCHANGED managerVars, NEW i \in Apps, Closed(i)
  PROVE  RadioInv'
PROOF
<1>a. /\ link[i] = "closing" /\ link[i] # "down" /\ link' = [link EXCEPT ![i] = "down"]
      /\ UNCHANGED <<managerVars, scan, started, pend>>
  BY DEF Closed, envVars
<1>b. /\ Down' /\ ~scan' /\ ~Has("CLOSE") /\ ~HasError /\ PendingUp' /\ i \in registered
      /\ UNCHANGED <<scan, started, scanning, opening, closing, found, registered>>
  BY <1>a, LinkEnds, Linked
<1>c. ~Has("OPEN") /\ ~Has("STOPPED")
  BY <1>a DEF RadioInv, OpenEvent, StopEvent, FlagsCoverRadio
<1> DEFINE closed == <<Event("CLOSE", i, TRUE)>>
           disconnected == Broadcast(TRUE)
           s == closed \o disconnected
<1>d. /\ closed \in Seq(Events) /\ Len(closed) = 1 /\ closed[1] = Event("CLOSE", i, TRUE)
      /\ disconnected \in Seq(Events) /\ Len(disconnected) = N /\ N \in Nat \ {0}
      /\ \A k \in 1 .. N : disconnected[k] = Event("DISCONNECT", k - 1, TRUE)
  BY OneEvent, BroadcastShape, NAssumption DEF GattcTypes
<1>e. Notify(s)
  BY DEF Closed
<1> HIDE DEF closed, disconnected
<1>f. /\ s \in Seq(Events) /\ Len(s) = 1 + N
      /\ \A k \in 1 .. 1 + N : s[k] = IF k <= 1 THEN closed[k] ELSE disconnected[k - 1]
  <2>1. /\ s \in Seq(Events) /\ Len(s) = Len(closed) + Len(disconnected)
        /\ \A k \in 1 .. Len(closed) + Len(disconnected) :
             s[k] = IF k <= Len(closed) THEN closed[k] ELSE disconnected[k - Len(closed)]
    BY <1>d, Concatenated
  <2> HIDE DEF s
  <2> QED
    BY <1>d, <2>1
<1> HIDE DEF s
<1>g. ASSUME NEW k \in 1 .. Len(s)
      PROVE  /\ s[k].type \in {"CLOSE", "DISCONNECT"} /\ s[k].ok
             /\ s[k].type = "CLOSE" => k = 1 /\ s[k].id = i
  <2>1. k = 1 \/ (k > 1 /\ k - 1 \in 1 .. N)
    BY <1>d, <1>f
  <2> QED
    BY <1>d, <1>f, <2>1 DEF Event
<1>1. QueueOrder' /\ Starting' /\ ScanEvents' /\ StopEvent'
  <2>1. /\ \A k \in 1 .. Len(s) : s[k].type \notin {"REG", "OPEN"} \cup GapTypes
        /\ \A k \in 1 .. Len(s) : ~IsProcedureEvent(s[k])
    BY <1>g DEF GapTypes, IsProcedureEvent
  <2> QED
    BY <1>a, <1>b, <1>c, <1>e, <1>f, <2>1, LinkNotified
<1>2. ~Has("OPEN")' /\ ~HasError'
  BY <1>b, <1>c, <1>e, <1>f, <1>g, NotifiedHas DEF IsError
<1>3. ASSUME NEW k \in Positions', evq'[k].type = "CLOSE"
      PROVE  k = Len(evq) + 1 /\ evq'[k].id = i /\ evq'[k].ok
  <2>1. k - Len(evq) \in 1 .. Len(s) /\ evq'[k] = s[k - Len(evq)]
    BY <1>b, <1>e, <1>f, <1>3, Notified DEF Has
  <2>2. k - Len(evq) = 1
    BY <1>g, <1>3, <2>1
  <2>3. k \in Nat /\ Len(evq) \in Nat
    BY DEF Positions, TypeOK, StackTypeOK
  <2> QED
    BY <1>g, <1>3, <2>1, <2>2, <2>3
<1>4. BrokenLinks'
  BY <1>3 DEF BrokenLinks
<1>5. ClosedLinks'
  BY <1>2, <1>3 DEF ClosedLinks, Has, HasError
<1> QED
  BY <1>b, <1>1, <1>3, <1>4, <1>5, LinkGone

LEMMA LinkLossKeeps ==
  ASSUME TypeOK, RadioInv, UNCHANGED managerVars, NEW i \in Apps, LinkLoss(i)
  PROVE  RadioInv'
PROOF
<1>a. /\ link[i] \in {"up", "closing"} /\ link[i] # "down"
      /\ link' = [link EXCEPT ![i] = "down"] /\ pend' = [pend EXCEPT ![i] = {}]
      /\ UNCHANGED <<managerVars, scan, started>>
  BY DEF LinkLoss, envVars
<1>b. /\ Down' /\ ~scan' /\ ~Has("CLOSE") /\ PendingUp' /\ i \in registered
      /\ UNCHANGED <<scan, started, scanning, opening, closing, found, registered>>
  BY <1>a, LinkEnds, Linked
<1>c. Has("STOPPED") => ~closing
  BY DEF RadioInv, StopEvent
<1>d. PICK c \in i + 2 .. N + 1 :
        Notify(InsertAt(Broadcast(FALSE), c, Event("CLOSE", i, FALSE)))
  BY DEF LinkLoss
<1> DEFINE s == InsertAt(Broadcast(FALSE), c, Event("CLOSE", i, FALSE))
<1>e. /\ s \in Seq(Events) /\ Len(s) = N + 1 /\ Notify(s)
      /\ \A j \in 1 .. N + 1 : s[j] = IF j < c THEN Event("DISCONNECT", j - 1, FALSE)
                                      ELSE IF j = c THEN Event("CLOSE", i, FALSE)
                                      ELSE Event("DISCONNECT", j - 2, FALSE)
  BY <1>d, LossShape
<1> HIDE DEF s
<1>f. c \in 1 .. N + 1 /\ i + 1 \in 1 .. N + 1 /\ i + 1 < c /\ i \in Nat /\ N \in Nat
  BY AppsProperties DEF Apps
<1>g. ASSUME NEW k \in 1 .. Len(s)
      PROVE  /\ s[k].type \in {"CLOSE", "DISCONNECT"} /\ ~s[k].ok
             /\ s[k].type = "CLOSE" => k = c /\ s[k].id = i
  BY <1>e DEF Event
<1>h. s[i + 1] = Event("DISCONNECT", i, FALSE)
  <2> DEFINE m == i + 1
  <2>1. m \in 1 .. N + 1 /\ m < c /\ m = i + 1
    BY <1>f
  <2>2. m - 1 = i
    BY <1>f
  <2> HIDE DEF m
  <2>3. s[m] = Event("DISCONNECT", m - 1, FALSE)
    BY <1>e, <2>1
  <2> QED
    BY <2>1, <2>2, <2>3
<1>1. QueueOrder' /\ Starting' /\ ScanEvents' /\ StopEvent'
  <2>1. /\ \A k \in 1 .. Len(s) : s[k].type \notin {"REG", "OPEN"} \cup GapTypes
        /\ \A k \in 1 .. Len(s) : ~IsProcedureEvent(s[k])
    BY <1>g DEF GapTypes, IsProcedureEvent
  <2> QED
    BY <1>a, <1>b, <1>c, <1>e, <2>1, LinkNotified
<1>2. ASSUME NEW k \in Positions', evq'[k].type = "CLOSE"
      PROVE  k = Len(evq) + c /\ evq'[k].id = i /\ ~evq'[k].ok
  <2>1. k - Len(evq) \in 1 .. Len(s) /\ evq'[k] = s[k - Len(evq)]
    BY <1>b, <1>e, <1>2, Notified DEF Has
  <2>2. k - Len(evq) = c
    BY <1>g, <1>2, <2>1
  <2>3. k \in Nat /\ Len(evq) \in Nat
    BY DEF Positions, TypeOK, StackTypeOK
  <2> QED
    BY <1>g, <1>2, <2>1, <2>2, <2>3
<1>3. BrokenLinks'
  <2> SUFFICES ASSUME NEW k \in Positions', evq'[k].type = "CLOSE"
               PROVE  \E j \in Positions' : j < k /\ IsError(evq'[j]) /\ evq'[j].id = evq'[k].id
    BY DEF BrokenLinks, IsError
  <2> DEFINE j == Len(evq) + (i + 1)
  <2>1. j \in Positions' /\ evq'[j] = s[i + 1]
    BY <1>e, <1>f, Notified
  <2>2. IsError(evq'[j]) /\ evq'[j].id = i
    BY <1>h, <2>1 DEF IsError, Event
  <2>3. j < k
    <3>1. k = Len(evq) + c /\ Len(evq) \in Nat
      BY <1>2 DEF TypeOK, StackTypeOK
    <3> QED
      BY <1>f, <3>1
  <2> HIDE DEF j
  <2> QED
    BY <1>2, <2>1, <2>2, <2>3
<1>4. ClosedLinks'
  BY <1>2 DEF ClosedLinks
<1> QED
  BY <1>b, <1>1, <1>2, <1>3, <1>4, LinkGone

LEMMA ReportKeeps ==
  ASSUME TypeOK, RadioInv, UNCHANGED managerVars, NEW i \in Apps, NEW p,
         NEW s \in Seq(Events), Report(i, p, s),
         \A k \in 1 .. Len(s) : IsProcedureEvent(s[k]) /\ s[k].id = i
  PROVE  RadioInv'
PROOF
<1> USE DEF RadioInv
<1>a. UNCHANGED <<scanning, opening, closing, found, registered, scan, started, link>>
  BY DEF managerVars, flags, tableVars, Report, envVars
<1>b. p \in pend[i] /\ pend' = [pend EXCEPT ![i] = @ \ {p}] /\ Notify(s)
  BY DEF Report
<1>c. link[i] = "up" /\ link[i] # "down"
  BY <1>b DEF PendingUp
<1>d. /\ ~scan /\ ~Has("CLOSE") /\ ~HasError
      /\ \A j \in Apps : j # i => link[j] = "down"
  BY <1>c, Linked
<1>1. QueueOrder' /\ Starting' /\ ScanEvents' /\ StopEvent'
  <2>1. \A k \in 1 .. Len(s) : /\ s[k].type \notin {"REG", "OPEN", "CLOSE"} \cup GapTypes
                               /\ ~IsError(s[k])
    BY DEF GapTypes, IsProcedureEvent, IsError
  <2>2. Has("STOPPED") => ~closing
    BY DEF StopEvent
  <2> QED
    BY <1>a, <1>b, <1>c, <2>1, <2>2, LinkNotified
<1>2. ~Has("CLOSE")' /\ ~HasError' /\ (Has("OPEN")' => Has("OPEN"))
  <2>1. \A k \in 1 .. Len(s) : s[k].type \notin {"OPEN", "CLOSE"} /\ ~IsError(s[k])
    BY DEF IsProcedureEvent, IsError
  <2> QED
    BY <1>b, <1>d, <2>1, NotifiedHas
<1>3. EndEvents' /\ BrokenLinks' /\ ClosedLinks'
  BY <1>2 DEF EndEvents, BrokenLinks, ClosedLinks, Has
<1>4. FlagsCoverRadio' /\ OneUseOfTheRadio' /\ OpenEvent' /\ LinksRegistered'
  BY <1>a, <1>2 DEF FlagsCoverRadio, OneUseOfTheRadio, OpenEvent, LinksRegistered
<1>5. PendingUp'
  BY <1>a, <1>b, <1>c DEF PendingUp, TypeOK, StackTypeOK
<1>6. ProcedureEvents'
  <2> SUFFICES ASSUME NEW k \in Positions', IsProcedureEvent(evq'[k])
               PROVE  ~scan' /\ \A j \in Apps : j # evq'[k].id => link'[j] = "down"
    BY DEF ProcedureEvents, IsProcedureEvent
  <2>1. CASE k \in Positions /\ evq'[k] = evq[k]
    BY <1>a, <2>1 DEF ProcedureEvents
  <2>2. CASE k - Len(evq) \in 1 .. Len(s) /\ evq'[k] = s[k - Len(evq)]
    BY <1>a, <1>d, <2>2
  <2> QED
    BY <1>b, <2>1, <2>2, Notified
<1> QED
  BY <1>1, <1>3, <1>4, <1>5, <1>6

LEMMA LinkStepKeeps ==
  ASSUME TypeOK, RadioInv, UNCHANGED managerVars, NEW i \in Apps, LinkStep(i)
  PROVE  RadioInv'
PROOF
<1>1. ASSUME NEW t \in {"CFG_MTU", "DIS_SRVC_CMPL", "READ_CHAR", "SEARCH_CMPL"},
             NEW ok \in BOOLEAN, NEW p, Report(i, p, <<Event(t, i, ok)>>)
      PROVE  RadioInv'
  <2> DEFINE s == <<Event(t, i, ok)>>
  <2>1. s \in Seq(Events) /\ Len(s) = 1 /\ s[1] = Event(t, i, ok)
    BY OneEvent DEF GattcTypes
  <2>2. Report(i, p, s)
    BY <1>1
  <2> HIDE DEF s
  <2>3. \A k \in 1 .. Len(s) : IsProcedureEvent(s[k]) /\ s[k].id = i
    BY <2>1 DEF IsProcedureEvent, Event
  <2> QED
    BY <2>1, <2>2, <2>3, ReportKeeps
<1>2. ASSUME NEW ok \in BOOLEAN,
             Report(i, "search",
                    <<Event("SEARCH_RES", i, ok)>> \o <<Event("SEARCH_CMPL", i, TRUE)>>)
      PROVE  RadioInv'
  <2> DEFINE result == <<Event("SEARCH_RES", i, ok)>>
             complete == <<Event("SEARCH_CMPL", i, TRUE)>>
             s == result \o complete
  <2>1. /\ result \in Seq(Events) /\ Len(result) = 1 /\ result[1] = Event("SEARCH_RES", i, ok)
        /\ complete \in Seq(Events) /\ Len(complete) = 1
        /\ complete[1] = Event("SEARCH_CMPL", i, TRUE)
    BY OneEvent DEF GattcTypes
  <2>2. Report(i, "search", s)
    BY <1>2
  <2> HIDE DEF result, complete
  <2>3. s \in Seq(Events) /\ Len(s) = 2 /\ s[1] = result[1] /\ s[2] = complete[1]
    <3>1. /\ s \in Seq(Events) /\ Len(s) = Len(result) + Len(complete)
          /\ \A k \in 1 .. Len(result) + Len(complete) :
               s[k] = IF k <= Len(result) THEN result[k] ELSE complete[k - Len(result)]
      BY <2>1, Concatenated
    <3> HIDE DEF s
    <3>2. Len(result) + Len(complete) = 2 /\ 1 \in 1 .. 2 /\ 2 \in 1 .. 2
          /\ 1 <= Len(result) /\ ~(2 <= Len(result)) /\ 2 - Len(result) = 1
      BY <2>1
    <3>3. s[1] = result[1]
      BY <3>1, <3>2
    <3>4. s[2] = complete[1]
      BY <3>1, <3>2
    <3> QED
      BY <3>1, <3>2, <3>3, <3>4
  <2> HIDE DEF s
  <2>4. \A k \in 1 .. Len(s) : IsProcedureEvent(s[k]) /\ s[k].id = i
    BY <2>1, <2>3 DEF IsProcedureEvent, Event
  <2> QED
    BY <2>2, <2>3, <2>4, ReportKeeps
<1>3. CASE MtuResult(i)
  BY <1>1, <1>3 DEF MtuResult
<1>4. CASE ServicesDiscovered(i)
  BY <1>1, <1>4 DEF ServicesDiscovered
<1>5. CASE SearchResult(i)
  BY <1>1, <1>2, <1>5 DEF SearchResult
<1>6. CASE ReadResult(i)
  BY <1>1, <1>6 DEF ReadResult
<1> QED
  BY <1>3, <1>4, <1>5, <1>6, OpenSucceedsKeeps, OpenFailsKeeps, ClosedKeeps, LinkLossKeeps
     DEF LinkStep

LEMMA RegisterNextKeeps ==
  ASSUME TypeOK, RadioInv, UNCHANGED managerVars, RegisterNext
  PROVE  RadioInv'
PROOF
<1> USE DEF RadioInv
<1>a. UNCHANGED <<scanning, opening, closing, found, registered, scan, link, pend>>
  BY DEF managerVars, flags, tableVars, RegisterNext
<1>b. started < N /\ found = {} /\ Down /\ ~opening /\ ~closing
      /\ \A k \in Positions : evq[k].type = "REG"
  BY DEF RegisterNext, Starting
<1>c. \A k \in Positions' : evq'[k].type = "REG"
  <2>1. CASE UNCHANGED evq
    BY <1>b, <2>1 DEF Positions
  <2>2. ASSUME NEW ok \in BOOLEAN, Notify(<<Event("REG", started, ok)>>)
        PROVE  \A k \in Positions' : evq'[k].type = "REG"
    <3> DEFINE s == <<Event("REG", started, ok)>>
    <3>1. started \in Apps
      BY <1>b, NAssumption DEF Apps, TypeOK, StackTypeOK
    <3>2. s \in Seq(Events) /\ Len(s) = 1 /\ s[1] = Event("REG", started, ok) /\ Notify(s)
      BY <2>2, <3>1, OneEvent DEF GattcTypes
    <3> HIDE DEF s
    <3>3. \A k \in 1 .. Len(s) : s[k].type = "REG"
      BY <3>2 DEF Event
    <3> QED
      BY <1>b, <3>2, <3>3, Notified
  <2> QED
    BY <2>1, <2>2 DEF RegisterNext
<1>d. /\ ~Has("INQ_RES")' /\ ~Has("INQ_CMPL")' /\ ~Has("STOPPED")' /\ ~Has("CLOSE")'
      /\ ~Has("OPEN")' /\ ~HasError' /\ \A k \in Positions' : ~IsProcedureEvent(evq'[k])
  BY <1>c DEF Has, HasError, IsError, IsProcedureEvent
<1>e. Down'
  BY <1>a, <1>b DEF Down
<1>1. QueueOrder'
  <2> SUFFICES ASSUME NEW j \in Positions', NEW k \in Positions'
               PROVE  MayFollow(evq'[j], evq'[k])
    BY DEF QueueOrder, MayFollow, IsError, IsProcedureEvent
  <2> QED
    BY <1>c DEF MayFollow, IsError, IsProcedureEvent
<1>2. Starting' /\ ScanEvents' /\ StopEvent'
  BY <1>a, <1>b, <1>c, <1>d, <1>e DEF Starting, ScanEvents, StopEvent, FlagsCoverRadio
<1>3. EndEvents' /\ BrokenLinks' /\ ClosedLinks' /\ OpenEvent' /\ ProcedureEvents'
  BY <1>d DEF EndEvents, BrokenLinks, ClosedLinks, OpenEvent, ProcedureEvents, IsProcedureEvent, Has
<1>4. FlagsCoverRadio' /\ OneUseOfTheRadio' /\ PendingUp' /\ LinksRegistered'
  BY <1>a DEF FlagsCoverRadio, OneUseOfTheRadio, PendingUp, LinksRegistered
<1> QED
  BY <1>1, <1>2, <1>3, <1>4

\* A scan reports a device, or its end.
LEMMA ScanReportKeeps ==
  ASSUME TypeOK, RadioInv, UNCHANGED <<managerVars, link, pend, started>>, ScanReports,
         NEW t \in {"INQ_RES", "INQ_CMPL"}, NEW d \in Devices,
         Notify(<<Event(t, d, TRUE)>>), scan' \in {scan, FALSE}, t = "INQ_CMPL" => ~scan'
  PROVE  RadioInv'
PROOF
<1> USE DEF RadioInv
<1>a. /\ UNCHANGED <<scanning, opening, closing, found, registered>>
      /\ started = N /\ scan /\ scanning
  BY DEF managerVars, flags, tableVars, ScanReports, FlagsCoverRadio
<1>b. Down /\ ~opening /\ ~closing /\ ~Has("STOPPED") /\ ~Has("INQ_CMPL")
  BY <1>a DEF ScanEvents, StopEvent
<1> DEFINE s == <<Event(t, d, TRUE)>>
<1>c. s \in Seq(Events) /\ Len(s) = 1 /\ s[1] = Event(t, d, TRUE) /\ Notify(s)
  BY OneGapEvent DEF GapTypes
<1> HIDE DEF s
<1>d. \A k \in 1 .. Len(s) : s[k].type = t
  BY <1>c DEF Event
<1>e. \A k \in 1 .. Len(s) : ~IsProcedureEvent(s[k]) /\ ~IsError(s[k])
  BY <1>d DEF IsProcedureEvent, IsError
<1>f. /\ \A type : Has(type)' <=> (Has(type) \/ type = t)
      /\ HasError' <=> HasError
  BY <1>c, <1>d, <1>e, NotifiedHas
<1>g. Down'
  BY <1>b DEF Down
<1>1. QueueOrder'
  <2>1. ASSUME NEW k \in Positions, NEW j \in 1 .. Len(s) PROVE MayFollow(evq[k], s[j])
    <3>1. evq[k].type \notin {"STOPPED", "INQ_CMPL"} /\ s[j].type = t
      BY <1>b, <1>d DEF Has
    <3> QED
      BY <1>e, <3>1 DEF MayFollow, GapTypes
  <2>2. \A j, k \in 1 .. Len(s) : ~(j < k)
    BY <1>c
  <2> QED
    BY <1>c, <2>1, <2>2, NotifiedOrder
<1>2. Starting'
  <2>1. Has("REG")' => Has("REG")
    BY <1>f
  <2> QED
    BY <1>a, <1>g, <2>1, AppsProperties DEF Starting
<1>3. ScanEvents'
  <2>1. Has("INQ_CMPL")' => ~scan'
    BY <1>b, <1>f
  <2> QED
    BY <1>a, <1>b, <1>g, <2>1 DEF ScanEvents
<1>4. StopEvent'
  BY <1>b, <1>f DEF StopEvent
<1>5. ASSUME NEW k \in Positions', evq'[k].type = "CLOSE"
      PROVE  k \in Positions /\ evq'[k] = evq[k]
  BY <1>c, <1>d, <1>5, Notified
<1>6. EndEvents'
  <2>1. Has("CLOSE")' => Has("CLOSE")
    BY <1>f
  <2> QED
    BY <1>a, <1>f, <1>g, <1>5, <2>1 DEF EndEvents
<1>7. BrokenLinks'
  <2> SUFFICES ASSUME NEW k \in Positions', evq'[k].type = "CLOSE", ~evq'[k].ok
               PROVE  \/ evq'[k].id \notin found'
                      \/ \E j \in Positions' : j < k /\ IsError(evq'[j]) /\ evq'[j].id = evq'[k].id
    BY DEF BrokenLinks, IsError
  <2>1. \A j \in Positions : j \in Positions' /\ evq'[j] = evq[j]
    BY <1>c, Notified
  <2> QED
    BY <1>a, <1>5, <2>1 DEF BrokenLinks
<1>8. ClosedLinks'
  <2> SUFFICES ASSUME NEW k \in Positions', evq'[k].type = "CLOSE", evq'[k].ok,
                      NEW j \in Positions', j # k
               PROVE  evq'[j].type \notin {"OPEN", "CLOSE"} /\ ~IsError(evq'[j])
    BY DEF ClosedLinks, IsError
  <2>1. CASE j \in Positions /\ evq'[j] = evq[j]
    BY <1>5, <2>1 DEF ClosedLinks
  <2>2. CASE j - Len(evq) \in 1 .. Len(s) /\ evq'[j] = s[j - Len(evq)]
    BY <1>d, <1>e, <2>2
  <2> QED
    BY <1>c, <2>1, <2>2, Notified
<1>9. OpenEvent'
  BY <1>g DEF OpenEvent, Down
<1>10. ProcedureEvents'
  <2>1. ASSUME NEW k \in Positions', IsProcedureEvent(evq'[k])
        PROVE  FALSE
    <3>1. k \in Positions /\ evq'[k] = evq[k]
      BY <1>c, <1>e, <2>1, Notified
    <3> QED
      BY <1>a, <2>1, <3>1 DEF ProcedureEvents
  <2> QED
    BY <2>1 DEF ProcedureEvents, IsProcedureEvent
<1>11. FlagsCoverRadio' /\ OneUseOfTheRadio' /\ PendingUp' /\ LinksRegistered'
  BY <1>a, <1>g DEF FlagsCoverRadio, OneUseOfTheRadio, PendingUp, LinksRegistered, Down
<1> QED
  BY <1>1, <1>2, <1>3, <1>4, <1>6, <1>7, <1>8, <1>9, <1>10, <1>11

LEMMA AdvertiseKeeps ==
  ASSUME TypeOK, RadioInv, UNCHANGED managerVars, NEW d \in Devices, Advertise(d)
  PROVE  RadioInv'
PROOF
<1>1. UNCHANGED <<managerVars, link, pend, started>> /\ scan' \in {scan, FALSE}
  BY DEF Advertise, envVars
<1>2. ScanReports /\ Notify(<<Event("INQ_RES", d, TRUE)>>)
  BY DEF Advertise
<1> QED
  BY <1>1, <1>2, ScanReportKeeps

LEMMA ScanTimeoutKeeps ==
  ASSUME TypeOK, RadioInv, UNCHANGED managerVars, ScanTimeout
  PROVE  RadioInv'
PROOF
<1>1. UNCHANGED <<managerVars, link, pend, started>> /\ scan' \in {scan, FALSE} /\ ~scan'
  BY DEF ScanTimeout, envVars
<1>2. ScanReports /\ Notify(<<Event("INQ_CMPL", 0, TRUE)>>)
  BY DEF ScanTimeout
<1>3. 0 \in Devices
  BY AppsProperties
<1> QED
  BY <1>1, <1>2, <1>3, ScanReportKeeps

\* The devices and the faults are no part of RadioInv.
LEMMA RadioUnchanged ==
  ASSUME RadioInv, UNCHANGED <<stackVars, started, managerVars>>
  PROVE  RadioInv'
PROOF
  BY DEF RadioInv, FlagsCoverRadio, OneUseOfTheRadio, QueueOrder, Starting, ScanEvents, StopEvent,
         EndEvents, BrokenLinks, ClosedLinks, OpenEvent, ProcedureEvents, PendingUp,
         LinksRegistered, MayFollow, Has, HasError, IsError, IsProcedureEvent, Down, Positions,
         AllRemotesFound, stackVars, managerVars, flags, tableVars

LEMMA StackStepKeeps ==
  ASSUME TypeOK, RadioInv, UNCHANGED managerVars, StackNext
  PROVE  RadioInv'
PROOF
<1>1. CASE Calm \/ \E i \in Apps : PowerOff(i) \/ PowerOn(i)
  <2>1. UNCHANGED <<stackVars, started, managerVars>>
    BY <1>1 DEF Calm, PowerOff, PowerOn
  <2> QED
    BY <2>1, RadioUnchanged
<1> QED
  BY <1>1, RegisterNextKeeps, ScanTimeoutKeeps, LinkStepKeeps, AdvertiseKeeps DEF StackNext

-----------------------------------------------------------------------------
(* The theorems.                                                           *)

LEMMA RadioInit ==
  ASSUME Init
  PROVE  RadioInv
PROOF
<1>1. Positions = {} /\ found = {} /\ started < N /\ ~scan /\ ~scanning /\ ~opening /\ ~closing
  BY NAssumption DEF Init, TableInit, StackInit, Positions
<1>2. Down /\ \A i \in Apps : pend[i] = {}
  BY DEF Init, TableInit, StackInit, Down
<1>3. QueueOrder /\ Starting /\ ScanEvents /\ StopEvent
  BY <1>1, <1>2 DEF QueueOrder, Starting, ScanEvents, StopEvent, Has
<1>4. EndEvents /\ BrokenLinks /\ ClosedLinks /\ OpenEvent /\ ProcedureEvents
  BY <1>1, <1>2 DEF EndEvents, BrokenLinks, ClosedLinks, OpenEvent, ProcedureEvents, Has, HasError
<1>5. FlagsCoverRadio /\ OneUseOfTheRadio /\ PendingUp /\ LinksRegistered
  BY <1>1, <1>2 DEF FlagsCoverRadio, OneUseOfTheRadio, PendingUp, LinksRegistered, Down
<1> QED
  BY <1>3, <1>4, <1>5 DEF RadioInv

\* RadioInv holds in every reachable state: no callback of the connection
\* manager leaves behind an event that would start something while a link is
\* in use.
THEOREM RadioInvariant == Spec => []RadioInv
PROOF
<1>1. Init => RadioInv
  BY RadioInit
<1>2. TypeOK /\ RadioInv /\ [Next]_vars => RadioInv'
  <2> SUFFICES ASSUME TypeOK, RadioInv, [Next]_vars PROVE RadioInv'
    OBVIOUS
  <2>1. CASE Callback
    BY <2>1, CallbackKeeps
  <2>2. CASE Outside(StackNext)
    BY <2>2, StackStepKeeps DEF Outside
  <2>3. CASE UNCHANGED vars
    BY <2>3, RadioUnchanged DEF vars, envVars
  <2> QED
    BY <2>1, <2>2, <2>3 DEF Next
<1> QED
  BY <1>1, <1>2, TypeCorrect, PTL DEF Spec

\* The hub never scans during a connection and never has two connections,
\* whatever fails and however the reports of the stack are delayed.
THEOREM RadioExclusive == Spec => []OneUseOfTheRadio
PROOF
<1>1. RadioInv => OneUseOfTheRadio
  BY DEF RadioInv
<1> QED
  BY <1>1, RadioInvariant, PTL

\* While the radio scans, opens or closes, the flag of the context that says
\* so is set: no late event clears it early.
THEOREM FlagsTruthful == Spec => []FlagsCoverRadio
PROOF
<1>1. RadioInv => FlagsCoverRadio
  BY DEF RadioInv
<1> QED
  BY <1>1, RadioInvariant, PTL
=============================================================================
