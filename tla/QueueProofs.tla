---------------------------- MODULE QueueProofs ----------------------------
(***************************************************************************)
(* The queue of events is bounded: QueueInv is an invariant of             *)
(* ConnManager, for every number of applications and every set of faults.  *)
(*                                                                         *)
(* A callback takes the head and adds nothing but the end of a scan it     *)
(* stopped; the stack adds what QueueGrows says.  Each part of the         *)
(* invariant has one lemma for each of the two.                            *)
(***************************************************************************)
EXTENDS ConnQueue, ProgressProofs, FiniteSetTheorems

-----------------------------------------------------------------------------
(* How the queue changes.                                                  *)

\* The queue is one shorter, or the end of the scan took the place of the head.
LEMMA CallbackShifts ==
  ASSUME TypeOK, RadioInv, Callback
  PROVE  /\ evq # << >> /\ HeadHandled /\ UNCHANGED started
         /\ Len(evq') <= Len(evq)
         /\ \/ Len(evq') = Len(evq) - 1 /\ \A k \in Positions' : evq'[k] = evq[k + 1]
            \/ Down /\ UNCHANGED <<link, pend>>
PROOF
<1>1. evq # << >> /\ Asks /\ HeadHandled /\ UNCHANGED started
  BY CallbackAsks, CallbackEffects
<1>2. evq \in Seq(Events) /\ Len(evq) \in Nat \ {0}
  BY <1>1, HeadOfQueue DEF TypeOK, StackTypeOK
<1>3. CASE evq' = Tail(evq)
  <2>1. Len(evq') = Len(evq) - 1
    BY <1>2, <1>3, HeadTailProperties
  <2>2. Len(evq') <= Len(evq)
    BY <1>2, <2>1
  <2>3. \A k \in Positions' : evq'[k] = evq[k + 1]
    BY <1>1, <1>3, Consumed
  <2> QED
    BY <1>1, <2>1, <2>2, <2>3, Zenon
<1>4. CASE StopReq /\ ev.type = "INQ_RES"
  <2> DEFINE t == Tail(evq)
  <2>1. t \in Seq(Events) /\ Len(t) = Len(evq) - 1
    BY <1>2, HeadTailProperties
  <2>2. evq' = Append(t, StoppedEvent) /\ UNCHANGED <<link, pend>>
    BY <1>4 DEF StopReq, StoppedEvent
  <2>3. StoppedEvent \in Events
    BY OneGapEvent, AppsProperties DEF StoppedEvent, GapTypes
  <2> HIDE DEF t
  <2>4. Len(evq') = Len(evq)
    BY <1>2, <2>1, <2>2, <2>3, AppendProperties
  <2>5. Down
    BY <1>1, <1>4, HeadOrBehind DEF RadioInv, ScanEvents
  <2> QED
    BY <1>1, <1>2, <2>2, <2>4, <2>5
<1>5. evq' = Tail(evq) \/ (StopReq /\ ev.type = "INQ_RES")
  BY <1>1 DEF Asks, NoRequest, Scans, ScanReq, ClosesOwn, CloseReq, AsksOwn, ProcedureReq, LinkOpened
<1> QED
  BY <1>3, <1>4, <1>5

\* n events are added behind those that wait.
Grows(n) ==
  /\ Len(evq') = Len(evq) + n
  /\ \A k \in Positions : k \in Positions' /\ evq'[k] = evq[k]

LEMMA NotifiedGrows ==
  ASSUME TypeOK, NEW s \in Seq(Events), Notify(s)
  PROVE  Grows(Len(s))
PROOF
<1>1. Len(evq') = Len(evq) + Len(s)
  BY ConcatProperties DEF TypeOK, StackTypeOK, Notify
<1> QED
  BY <1>1, Notified DEF Grows

LEMMA OneGrows ==
  ASSUME TypeOK, NEW e \in Events, Notify(<<e>>)
  PROVE  /\ Grows(1) /\ Len(evq) + 1 \in Positions' /\ evq'[Len(evq) + 1] = e
         /\ \A k \in Positions' : k \in Positions \/ k = Len(evq) + 1
PROOF
<1> DEFINE s == <<e>>
<1>1. s \in Seq(Events) /\ Len(s) = 1 /\ s[1] = e /\ Notify(s)
  OBVIOUS
<1> HIDE DEF s
<1>2. Grows(1)
  BY <1>1, NotifiedGrows
<1>3. Len(evq) \in Nat /\ Positions = 1 .. Len(evq) /\ Positions' = 1 .. Len(evq) + 1
  BY <1>2 DEF TypeOK, StackTypeOK, Positions, Grows
<1>4. \A k \in Positions' : k \in Positions \/ k = Len(evq) + 1
  BY <1>3
<1>5. Len(evq) + 1 \in Positions' /\ evq'[Len(evq) + 1] = e
  <2>1. 1 \in 1 .. Len(s)
    BY <1>1
  <2> QED
    BY <1>1, <2>1, Notified
<1> QED
  BY <1>2, <1>4, <1>5

LEMMA JoinedGrows ==
  ASSUME TypeOK, NEW e \in Events, NEW ok \in BOOLEAN,
         Notify(<<e>> \o Broadcast(ok)) \/ Notify(Broadcast(ok) \o <<e>>)
  PROVE  Grows(N + 1)
PROOF
<1> DEFINE s == <<e>>
           b == Broadcast(ok)
<1>1. s \in Seq(Events) /\ Len(s) = 1 /\ b \in Seq(Events) /\ Len(b) = N
  BY OneSet, BroadcastShape
<1>2. Notify(s \o b) \/ Notify(b \o s)
  OBVIOUS
<1> HIDE DEF s, b
<1>3. /\ s \o b \in Seq(Events) /\ Len(s \o b) = N + 1
      /\ b \o s \in Seq(Events) /\ Len(b \o s) = N + 1
  <2>1. s \o b \in Seq(Events) /\ Len(s \o b) = Len(s) + Len(b)
    BY <1>1, ConcatProperties
  <2>2. b \o s \in Seq(Events) /\ Len(b \o s) = Len(b) + Len(s)
    BY <1>1, ConcatProperties
  <2> QED
    BY <1>1, <2>1, <2>2, AppsProperties
<1> DEFINE r == s \o b
           q == b \o s
<1> HIDE DEF r, q
<1>4. r \in Seq(Events) /\ Len(r) = N + 1 /\ q \in Seq(Events) /\ Len(q) = N + 1 /\ (Notify(r) \/ Notify(q))
  BY <1>2, <1>3 DEF r, q
<1> QED
  BY <1>4, NotifiedGrows

\* ... all of these types.
GrowsBy(n, types) ==
  Grows(n) /\ \A k \in Positions' : k \in Positions \/ evq'[k].type \in types

\* What a step of the stack adds.
Registered ==
  /\ started < N /\ started' = started + 1
  /\ GrowsBy(1, {"REG"}) /\ UNCHANGED <<link, pend, scan>>

Quiet == UNCHANGED <<evq, link, pend, scan>> /\ started' \in {started, N}

Advertised ==
  /\ scan /\ started = N /\ UNCHANGED <<link, pend, scan, started>>
  /\ GrowsBy(1, {"INQ_RES"})

TimedOut ==
  /\ scan /\ started = N /\ UNCHANGED <<link, pend, started>>
  /\ GrowsBy(1, {"INQ_CMPL"})

Connected(i) ==
  /\ link[i] = "opening" /\ link' = [link EXCEPT ![i] = "up"]
  /\ pend' = [pend EXCEPT ![i] = {"disc"}] /\ UNCHANGED <<scan, started>>
  /\ GrowsBy(1, {"OPEN"})

Ended(i) ==
  /\ link[i] # "down" /\ link' = [link EXCEPT ![i] = "down"]
  /\ pend' \in {pend, [pend EXCEPT ![i] = {}]} /\ UNCHANGED <<scan, started>>
  /\ GrowsBy(N + 1, {"OPEN", "CLOSE", "DISCONNECT"})

ReportOf == [mtu |-> "CFG_MTU", disc |-> "DIS_SRVC_CMPL", search |-> "SEARCH_CMPL",
             read |-> "READ_CHAR"]

Replied(i, p) ==
  /\ p \in pend[i] /\ pend' = [pend EXCEPT ![i] = @ \ {p}] /\ UNCHANGED <<link, scan, started>>
  /\ \/ GrowsBy(1, {ReportOf[p]})
     \/ /\ p = "search" /\ Grows(2)
        /\ evq'[Len(evq) + 1].type = "SEARCH_RES" /\ evq'[Len(evq) + 2].type = "SEARCH_CMPL"

QueueGrows ==
  \/ Registered \/ Quiet \/ TimedOut
  \/ Advertised
  \/ \E i \in Apps : Connected(i) \/ Ended(i) \/ \E p \in Procedures : Replied(i, p)

\* Where the added events are.
LEMMA GrownAt ==
  ASSUME TypeOK, NEW n \in Nat, Grows(n)
  PROVE  /\ Len(evq) \in Nat /\ Positions = 1 .. Len(evq) /\ Positions' = 1 .. Len(evq) + n
         /\ \A k \in Positions : k \in Positions' /\ evq'[k] = evq[k]
         /\ \A k \in Positions' : k \in Positions \/ k > Len(evq)
PROOF
<1>1. Len(evq) \in Nat /\ Len(evq') = Len(evq) + n
  BY DEF TypeOK, StackTypeOK, Grows
<1>2. Positions = 1 .. Len(evq) /\ Positions' = 1 .. Len(evq) + n
  BY <1>1 DEF Positions
<1> QED
  BY <1>1, <1>2 DEF Grows

LEMMA AddedTypes ==
  ASSUME NEW S, Adds(S), NEW types, \A e \in S : e.type \in types
  PROVE  \A k \in Positions' : k \in Positions \/ evq'[k].type \in types
PROOF
  BY DEF Adds

ProcedureTypes == {"CFG_MTU", "DIS_SRVC_CMPL", "SEARCH_RES", "SEARCH_CMPL", "READ_CHAR"}

\* A procedure adds one or two of its events.
LEMMA RepliedTypes ==
  ASSUME TypeOK, NEW i \in Apps, NEW p \in Procedures, Replied(i, p)
  PROVE  \E n \in 1 .. 2 : GrowsBy(n, ProcedureTypes)
PROOF
<1>1. ReportOf[p] \in ProcedureTypes
  BY DEF ReportOf, Procedures, ProcedureTypes
<1>2. CASE GrowsBy(1, {ReportOf[p]})
  <2>1. GrowsBy(1, ProcedureTypes)
    BY <1>1, <1>2 DEF GrowsBy
  <2> QED
    BY <2>1
<1>3. CASE /\ Grows(2) /\ evq'[Len(evq) + 1].type = "SEARCH_RES"
           /\ evq'[Len(evq) + 2].type = "SEARCH_CMPL"
  <2>1. /\ Len(evq) \in Nat /\ Positions' = 1 .. Len(evq) + 2 /\ Positions = 1 .. Len(evq)
    BY <1>3, GrownAt
  <2>2. \A k \in Positions' : k \in Positions \/ k = Len(evq) + 1 \/ k = Len(evq) + 2
    BY <2>1
  <2>3. GrowsBy(2, ProcedureTypes)
    BY <1>3, <2>2 DEF GrowsBy, ProcedureTypes
  <2> QED
    BY <2>3
<1> QED
  BY <1>2, <1>3 DEF Replied

LEMMA OneTyped ==
  ASSUME TypeOK, NEW e \in Events, NEW t, e.type = t, Notify(<<e>>)
  PROVE  GrowsBy(1, {t}) /\ evq'[Len(evq) + 1] = e
PROOF
<1>1. /\ Grows(1) /\ evq'[Len(evq) + 1] = e
      /\ \A k \in Positions' : k \in Positions \/ k = Len(evq) + 1
  BY OneGrows
<1>2. \A k \in Positions' : k \in Positions \/ evq'[k].type \in {t}
  BY <1>1
<1> QED
  BY <1>1, <1>2 DEF GrowsBy

LEMMA EndedStep ==
  ASSUME TypeOK, NEW i \in Apps, OpenFails(i) \/ Closed(i) \/ LinkLoss(i)
  PROVE  Ended(i)
PROOF
<1> DEFINE types == {"OPEN", "CLOSE", "DISCONNECT"}
<1>a. \A t \in {"OPEN", "CLOSE"}, ok \in BOOLEAN : Event(t, i, ok) \in Events
  BY OneEvent DEF GattcTypes
<1>b. \A t \in {"OPEN", "CLOSE"}, ok \in BOOLEAN :
        \A e \in {Event(t, i, ok)} \cup Heard(ok) : e.type \in types
  BY DEF Event, Heard
<1>1. Grows(N + 1)
  <2>1. CASE OpenFails(i)
    BY <1>a, <2>1, JoinedGrows DEF OpenFails
  <2>2. CASE Closed(i)
    BY <1>a, <2>2, JoinedGrows DEF Closed
  <2>3. CASE LinkLoss(i)
    <3>1. PICK c \in i + 2 .. N + 1 :
            Notify(InsertAt(Broadcast(FALSE), c, Event("CLOSE", i, FALSE)))
      BY <2>3 DEF LinkLoss
    <3> DEFINE s == InsertAt(Broadcast(FALSE), c, Event("CLOSE", i, FALSE))
    <3>2. s \in Seq(Events) /\ Len(s) = N + 1 /\ Notify(s)
      BY <3>1, LossShape
    <3> HIDE DEF s
    <3> QED
      BY <3>2, NotifiedGrows
  <2> QED
    BY <2>1, <2>2, <2>3
<1>2. \/ Fails(i) /\ UNCHANGED pend
      \/ \E ok \in BOOLEAN : Ends(i, ok)
  BY FailsStep, ClosedStep, LossStep DEF Fails
<1> HIDE DEF types
<1>3. \A k \in Positions' : k \in Positions \/ evq'[k].type \in types
  <2>1. CASE Fails(i)
    BY <1>b, <2>1, AddedTypes DEF Fails
  <2>2. ASSUME NEW ok \in BOOLEAN, Ends(i, ok)
        PROVE  \A k \in Positions' : k \in Positions \/ evq'[k].type \in types
    BY <1>b, <2>2, AddedTypes DEF Ends
  <2> QED
    BY <1>2, <2>1, <2>2
<1>4. /\ link[i] # "down" /\ link' = [link EXCEPT ![i] = "down"]
      /\ pend' \in {pend, [pend EXCEPT ![i] = {}]} /\ UNCHANGED <<scan, started>>
  BY <1>2 DEF Fails, Ends
<1> QED
  BY <1>1, <1>3, <1>4 DEF Ended, GrowsBy, types

LEMMA RepliedOne ==
  ASSUME TypeOK, NEW i \in Apps, NEW p \in Procedures, NEW e \in Events, e.type = ReportOf[p],
         Report(i, p, <<e>>)
  PROVE  Replied(i, p)
PROOF
<1>1. GrowsBy(1, {ReportOf[p]})
  BY OneTyped DEF Report
<1> QED
  BY <1>1 DEF Replied, Report, envVars

LEMMA RepliedTwo ==
  ASSUME TypeOK, NEW i \in Apps, NEW d \in Events, NEW e \in Events,
         d.type = "SEARCH_RES", e.type = "SEARCH_CMPL",
         Report(i, "search", <<d>> \o <<e>>)
  PROVE  Replied(i, "search")
PROOF
<1> DEFINE s == <<d>>
           t == <<e>>
<1>1. /\ s \in Seq(Events) /\ Len(s) = 1 /\ s[1] = d
      /\ t \in Seq(Events) /\ Len(t) = 1 /\ t[1] = e
  OBVIOUS
<1>2. Notify(s \o t)
  BY DEF Report
<1> HIDE DEF s, t
<1> DEFINE r == s \o t
<1>3. /\ r \in Seq(Events) /\ Notify(r) /\ Len(r) = 2
      /\ \A m \in 1 .. 2 : r[m] = IF m <= 1 THEN s[m] ELSE t[m - 1]
  BY <1>1, <1>2, Concatenated
<1> HIDE DEF r
<1>4. r[1] = d /\ r[2] = e /\ 1 \in 1 .. Len(r) /\ 2 \in 1 .. Len(r)
  <2>1. 1 \in 1 .. 2 /\ 2 \in 1 .. 2 /\ 1 <= 1 /\ ~(2 <= 1) /\ 2 - 1 = 1
    OBVIOUS
  <2>2. r[1] = s[1]
    BY <1>3, <2>1
  <2>3. r[2] = t[1]
    BY <1>3, <2>1
  <2> QED
    BY <1>1, <1>3, <2>1, <2>2, <2>3
<1>5. Grows(2)
  BY <1>3, NotifiedGrows
<1>6. evq'[Len(evq) + 1] = d /\ evq'[Len(evq) + 2] = e
  BY <1>3, <1>4, Notified
<1> QED
  BY <1>5, <1>6 DEF Replied, Report, envVars

LEMMA RepliedStep ==
  ASSUME TypeOK, NEW i \in Apps,
         MtuResult(i) \/ ServicesDiscovered(i) \/ SearchResult(i) \/ ReadResult(i)
  PROVE  \E p \in Procedures : Replied(i, p)
PROOF
<1>1. \A t \in GattcTypes, ok \in BOOLEAN : Event(t, i, ok) \in Events /\ Event(t, i, ok).type = t
  BY OneEvent DEF Event
<1>2. CASE MtuResult(i)
  <2>1. PICK ok \in BOOLEAN : Report(i, "mtu", <<Event("CFG_MTU", i, ok)>>)
    BY <1>2 DEF MtuResult
  <2> QED
    BY <1>1, <2>1, RepliedOne DEF GattcTypes, Procedures, ReportOf
<1>3. CASE ServicesDiscovered(i)
  BY <1>1, <1>3, RepliedOne DEF ServicesDiscovered, GattcTypes, Procedures, ReportOf
<1>4. CASE ReadResult(i)
  <2>1. PICK ok \in BOOLEAN : Report(i, "read", <<Event("READ_CHAR", i, ok)>>)
    BY <1>4 DEF ReadResult
  <2> QED
    BY <1>1, <2>1, RepliedOne DEF GattcTypes, Procedures, ReportOf
<1>5. CASE SearchResult(i)
  <2> DEFINE c == Event("SEARCH_CMPL", i, TRUE)
             r(ok) == Event("SEARCH_RES", i, ok)
  <2>1. /\ c \in Events /\ r(TRUE) \in Events /\ r(FALSE) \in Events
        /\ c.type = "SEARCH_CMPL" /\ r(TRUE).type = "SEARCH_RES" /\ r(FALSE).type = "SEARCH_RES"
    BY <1>1 DEF GattcTypes
  <2>2. \/ Report(i, "search", <<r(TRUE)>> \o <<c>>)
        \/ Report(i, "search", <<c>>)
        \/ Report(i, "search", <<r(FALSE)>> \o <<c>>)
    BY <1>5 DEF SearchResult
  <2>3. "search" \in Procedures /\ ReportOf["search"] = "SEARCH_CMPL"
    BY DEF Procedures, ReportOf
  <2> HIDE DEF c, r
  <2> QED
    BY <2>1, <2>2, <2>3, RepliedOne, RepliedTwo
<1> QED
  BY <1>2, <1>3, <1>4, <1>5

LEMMA RegisteredStep ==
  ASSUME TypeOK, RegisterNext
  PROVE  Registered \/ Quiet
PROOF
<1>1. started \in Apps /\ started < N /\ UNCHANGED <<link, pend, scan>>
  BY AppsProperties DEF RegisterNext, Apps, TypeOK, StackTypeOK
<1>2. ASSUME NEW ok \in BOOLEAN, started' = started + 1, Notify(<<Event("REG", started, ok)>>)
      PROVE  Registered
  <2>1. Event("REG", started, ok) \in Events /\ Event("REG", started, ok).type = "REG"
    BY <1>1, OneEvent DEF GattcTypes, Event
  <2>2. GrowsBy(1, {"REG"})
    BY <1>2, <2>1, OneTyped
  <2> QED
    BY <1>1, <1>2, <2>2 DEF Registered
<1>3. CASE started' = N /\ UNCHANGED evq
  BY <1>1, <1>3 DEF Quiet
<1> QED
  BY <1>2, <1>3 DEF RegisterNext

LEMMA QueueSteps ==
  ASSUME TypeOK, StackNext
  PROVE  QueueGrows
PROOF
<1>1. CASE RegisterNext
  BY <1>1, RegisteredStep DEF QueueGrows
<1>2. CASE ScanTimeout
  <2>1. /\ Event("INQ_CMPL", 0, TRUE) \in Events /\ Event("INQ_CMPL", 0, TRUE).type = "INQ_CMPL"
        /\ Notify(<<Event("INQ_CMPL", 0, TRUE)>>)
    BY <1>2, OneGapEvent, AppsProperties DEF GapTypes, Event, ScanTimeout
  <2>2. GrowsBy(1, {"INQ_CMPL"})
    BY <2>1, OneTyped
  <2> QED
    BY <1>2, <2>2 DEF QueueGrows, TimedOut, ScanTimeout, ScanReports, envVars
<1>3. ASSUME NEW d \in Devices, Advertise(d) PROVE Advertised
  <2> DEFINE e == Event("INQ_RES", d, TRUE)
  <2>1. e \in Events /\ e.type = "INQ_RES" /\ Notify(<<e>>)
    BY <1>3, OneGapEvent DEF GapTypes, Event, Advertise
  <2> HIDE DEF e
  <2>2. GrowsBy(1, {"INQ_RES"})
    BY <2>1, OneTyped
  <2>3. scan /\ started = N /\ UNCHANGED <<link, pend, scan, started>>
    BY <1>3 DEF Advertise, ScanReports, envVars
  <2> QED
    BY <2>2, <2>3 DEF Advertised
<1>4. CASE Calm \/ \E i \in Apps : PowerOff(i) \/ PowerOn(i)
  <2>1. Quiet
    BY <1>4 DEF Calm, PowerOff, PowerOn, stackVars, Quiet
  <2> QED
    BY <2>1 DEF QueueGrows
<1>5. ASSUME NEW i \in Apps, OpenSucceeds(i) PROVE Connected(i)
  <2>1. Event("OPEN", i, TRUE) \in Events /\ Event("OPEN", i, TRUE).type = "OPEN"
    BY OneEvent DEF GattcTypes, Event
  <2>2. GrowsBy(1, {"OPEN"})
    BY <1>5, <2>1, OneTyped DEF OpenSucceeds
  <2> QED
    BY <1>5, <2>2 DEF OpenSucceeds, Connected, envVars
<1>6. ASSUME NEW i \in Apps, LinkStep(i), ~OpenSucceeds(i)
      PROVE  Ended(i) \/ \E p \in Procedures : Replied(i, p)
  BY <1>6, EndedStep, RepliedStep DEF LinkStep
<1> QED
  BY <1>1, <1>2, <1>3, <1>4, <1>5, <1>6 DEF StackNext, QueueGrows

-----------------------------------------------------------------------------
(* The order in which things are added.                                    *)

\* While a link is not down, the stack is busy with it alone.
LEMMA BusyWithLink ==
  ASSUME TypeOK, RadioInv, QueueGrows, NEW i \in Apps, link[i] # "down"
  PROVE  Quiet \/ Connected(i) \/ Ended(i) \/ \E p \in Procedures : Replied(i, p)
PROOF
<1>1. started = N /\ ~scan /\ \A j \in Apps : j # i => link[j] = "down"
  BY Linked
<1>2. ~Registered /\ ~TimedOut /\ ~Advertised
  <2>1. ~(started < N)
    BY <1>1, AppsProperties
  <2> QED
    BY <1>1, <2>1 DEF Registered, TimedOut, Advertised
<1>3. ASSUME NEW j \in Apps, j # i
      PROVE  ~Connected(j) /\ ~Ended(j) /\ \A p \in Procedures : ~Replied(j, p)
  <2>1. link[j] = "down" /\ pend[j] = {}
    BY <1>1, <1>3 DEF RadioInv, PendingUp
  <2> QED
    BY <2>1 DEF Connected, Ended, Replied
<1> QED
  BY <1>2, <1>3 DEF QueueGrows

\* With no link, it registers and scans.
LEMMA BusyWithScan ==
  ASSUME TypeOK, RadioInv, QueueGrows, Down
  PROVE  Registered \/ Quiet \/ TimedOut \/ Advertised
PROOF
<1>1. ASSUME NEW j \in Apps
      PROVE  ~Connected(j) /\ ~Ended(j) /\ \A p \in Procedures : ~Replied(j, p)
  <2>1. link[j] = "down" /\ pend[j] = {}
    BY DEF RadioInv, PendingUp, Down
  <2> QED
    BY <2>1 DEF Connected, Ended, Replied
<1> QED
  BY <1>1 DEF QueueGrows

\* Until all are registered, it registers only.
LEMMA BusyStarting ==
  ASSUME TypeOK, RadioInv, QueueGrows, started < N
  PROVE  Registered \/ Quiet
PROOF
<1>1. Down
  BY DEF RadioInv, Starting
<1>2. started # N
  BY AppsProperties DEF TypeOK, StackTypeOK
<1> QED
  BY <1>1, <1>2, BusyWithScan DEF TimedOut, Advertised

LEMMA RegistrationsCallback ==
  ASSUME TypeOK, TypeOK', RadioInv, RegistrationsQueued, Callback
  PROVE  RegistrationsQueued'
PROOF
<1>1. UNCHANGED started /\ Len(evq') <= Len(evq) /\ Len(evq) \in Nat /\ Len(evq') \in Nat
  BY CallbackShifts DEF TypeOK, StackTypeOK
<1> QED
  BY <1>1 DEF RegistrationsQueued, TypeOK, StackTypeOK

LEMMA RegistrationsStack ==
  ASSUME TypeOK, TypeOK', RadioInv, RegistrationsQueued, QueueGrows
  PROVE  RegistrationsQueued'
PROOF
<1> SUFFICES ASSUME started' < N PROVE Len(evq') <= started'
  BY DEF RegistrationsQueued
<1>a. N \in Nat /\ started \in Nat /\ Len(evq) \in Nat
  BY AppsProperties DEF TypeOK, StackTypeOK
<1>1. CASE started < N
  <2>1. CASE Registered
    BY <1>a, <1>1, <2>1 DEF Registered, GrowsBy, Grows, RegistrationsQueued
  <2>2. CASE Quiet
    BY <1>a, <1>1, <2>2 DEF Quiet, RegistrationsQueued
  <2> QED
    BY <1>1, <2>1, <2>2, BusyStarting
<1>2. CASE ~(started < N)
  <2>1. started' = started \/ started' = N
    BY <1>2 DEF QueueGrows, Quiet, Registered, TimedOut, Advertised, Connected, Ended, Replied
  <2> QED
    BY <1>a, <1>2, <2>1
<1> QED
  BY <1>1, <1>2

\* What a callback leaves in the queue was in it, behind the head.
LEMMA LeftBehind ==
  ASSUME TypeOK, RadioInv, Callback, NEW k \in Positions', evq'[k].type # "STOPPED"
  PROVE  k \in Nat /\ k + 1 \in Positions /\ k + 1 > 1 /\ evq'[k] = evq[k + 1]
PROOF
<1>1. HeadHandled
  BY CallbackShifts
<1>2. k \in Nat
  BY DEF Positions
<1>3. evq'[k] # StoppedEvent
  BY DEF StoppedEvent, Event
<1> QED
  BY <1>1, <1>2, <1>3 DEF HeadHandled

-----------------------------------------------------------------------------
(* BehindScan, BehindEnd and BehindOpening.                                *)

\* The events after which a scan may begin.
LEMMA ScanBegins ==
  ASSUME TypeOK, RadioInv, Callback, ~scan, scan'
  PROVE  \/ ev.type \in {"REG", "INQ_CMPL", "CLOSE"} \/ IsError(ev)
         \/ ev.type = "STOPPED" /\ ~opening
PROOF
<1>a. scan' # scan
  OBVIOUS
<1>1. CASE SkipEvent
  BY <1>a, <1>1 DEF SkipEvent, NoRequest
<1>2. CASE HandleReg \/ HandleClose
  BY <1>2 DEF HandleReg, HandlingGap, HandleClose, Handling
<1>3. CASE HandleOpen \/ HandleCfgMtu \/ HandleDisSrvcCmpl \/ HandleSearchRes \/ HandleSearchCmpl
           \/ HandleReadChar
  BY <1>a, <1>3 DEF HandleOpen, HandleCfgMtu, HandleDisSrvcCmpl, HandleSearchRes, HandleSearchCmpl,
    HandleReadChar, NoRequest, ProcedureReq, Close, CloseReq
<1>4. CASE HandleDisconnect
  <2>1. ev.type = "DISCONNECT" /\ (ev.ok => NoRequest)
    BY <1>4 DEF HandleDisconnect, Handling
  <2> QED
    BY <1>a, <2>1 DEF NoRequest, IsError
<1>5. CASE HandleInqRes
  <2>1. ~scan'
    BY <1>5 DEF HandleInqRes, StopScanning, StopReq, NoRequest
  <2> QED
    BY <2>1
<1>6. CASE HandleScanEnd
  <2>1. ev.type \in {"INQ_CMPL", "STOPPED"}
    BY <1>6 DEF HandleScanEnd, HandlingGap
  <2>2. ~OpensNextApp(opening, closing, FALSE)
    BY <1>a DEF OpensNextApp, OpenReq
  <2>3. StartScanning(opening, closing, FALSE, found) /\ ~NoRequest
    BY <1>6, <1>a, <2>2 DEF HandleScanEnd, NoRequest
  <2>4. ~opening
    BY <2>3 DEF StartScanning
  <2> QED
    BY <2>1, <2>4
<1> QED
  BY <1>1, <1>2, <1>3, <1>4, <1>5, <1>6 DEF Callback

LEMMA BehindScanCallback ==
  ASSUME TypeOK, RadioInv, BehindScan, BehindEnd, Callback
  PROVE  BehindScan'
PROOF
<1> SUFFICES ASSUME scan' \/ Has("INQ_RES")' \/ Has("INQ_CMPL")' \/ Has("REG")',
                    NEW k \in Positions', evq'[k].type \notin GapTypes
             PROVE  k <= N
  BY DEF BehindScan, OthersWithin
<1>1. k \in Nat /\ k + 1 \in Positions /\ k + 1 > 1 /\ evq[k + 1].type \notin GapTypes /\ N \in Nat
  BY LeftBehind, AppsProperties DEF GapTypes
<1>2. CASE scan \/ Has("INQ_RES") \/ Has("INQ_CMPL") \/ Has("REG")
  BY <1>1, <1>2 DEF BehindScan, OthersWithin
<1>3. CASE ~(scan \/ Has("INQ_RES") \/ Has("INQ_CMPL") \/ Has("REG"))
  <2>1. ~Has("INQ_RES")' /\ ~Has("INQ_CMPL")' /\ ~Has("REG")'
    BY <1>3, LeftBehind DEF Has
  <2>2. evq # << >> /\ ev.type \notin {"REG", "INQ_CMPL"}
    BY <1>3, CallbackShifts, HeadOrBehind
  <2>3. ev.type = "CLOSE" \/ IsError(ev) \/ (ev.type = "STOPPED" /\ ~opening)
    BY <1>3, <2>1, <2>2, ScanBegins
  <2>4. CASE ev.type = "CLOSE" \/ IsError(ev)
    <3>1. k + 1 <= 1 + N
      BY <1>1, <2>2, <2>4, HeadOfQueue DEF BehindEnd, OthersWithin
    <3> QED
      BY <1>1, <3>1
  <2>5. CASE ev.type = "STOPPED" /\ ~opening
    <3>1. Has("STOPPED")
      BY <2>2, <2>5, HeadOrBehind
    <3> QED
      BY <1>1, <2>5, <3>1 DEF RadioInv, StopEvent
  <2> QED
    BY <2>3, <2>4, <2>5
<1> QED
  BY <1>2, <1>3

LEMMA BehindScanStack ==
  ASSUME TypeOK, RadioInv, RegistrationsQueued, BehindScan, QueueGrows
  PROVE  BehindScan'
PROOF
<1> SUFFICES ASSUME scan' \/ Has("INQ_RES")' \/ Has("INQ_CMPL")' \/ Has("REG")',
                    NEW k \in Positions', evq'[k].type \notin GapTypes
             PROVE  k <= N
  BY DEF BehindScan, OthersWithin
<1>a. N \in Nat /\ started \in Nat /\ Len(evq) \in Nat /\ k \in Nat
  BY AppsProperties DEF TypeOK, StackTypeOK, Positions
<1>1. CASE Registered
  <2>1. Positions' = 1 .. Len(evq) + 1
    BY <1>1, GrownAt DEF Registered, GrowsBy
  <2>2. Len(evq) <= started /\ started < N
    BY <1>1 DEF Registered, RegistrationsQueued
  <2> QED
    BY <1>a, <2>1, <2>2
<1>2. CASE Quiet
  BY <1>2 DEF Quiet, BehindScan, OthersWithin, Has, Positions
<1>3. CASE TimedOut \/ Advertised
  <2>1. scan /\ (GrowsBy(1, {"INQ_CMPL"}) \/ GrowsBy(1, {"INQ_RES"}))
    BY <1>3 DEF TimedOut, Advertised
  <2>2. k \in Positions /\ evq'[k] = evq[k]
    BY <2>1, GrownAt DEF GrowsBy, GapTypes
  <2> QED
    BY <2>1, <2>2 DEF BehindScan, OthersWithin
<1>4. ASSUME NEW i \in Apps, link[i] # "down", ~Quiet PROVE FALSE
  <2>1. ~scan /\ ~Has("INQ_RES") /\ ~Has("INQ_CMPL") /\ ~Has("REG")
    BY <1>4, Linked
  <2>2. UNCHANGED scan
    BY <1>4, BusyWithLink DEF Connected, Ended, Replied
  <2>3. \E n \in Nat : \E types : GrowsBy(n, types) /\ types \cap {"INQ_RES", "INQ_CMPL", "REG"} = {}
    <3>1. CASE Connected(i)
      <4>1. GrowsBy(1, {"OPEN"}) /\ {"OPEN"} \cap {"INQ_RES", "INQ_CMPL", "REG"} = {}
        BY <3>1 DEF Connected
      <4> QED
        BY <4>1
    <3>2. CASE Ended(i)
      <4>1. /\ GrowsBy(N + 1, {"OPEN", "CLOSE", "DISCONNECT"}) /\ N + 1 \in Nat
            /\ {"OPEN", "CLOSE", "DISCONNECT"} \cap {"INQ_RES", "INQ_CMPL", "REG"} = {}
        BY <1>a, <3>2 DEF Ended
      <4> QED
        BY <4>1
    <3>3. ASSUME NEW p \in Procedures, Replied(i, p)
          PROVE  \E n \in Nat : \E types : GrowsBy(n, types) /\ types \cap {"INQ_RES", "INQ_CMPL", "REG"} = {}
      <4>1. \E n \in 1 .. 2 : GrowsBy(n, ProcedureTypes)
        BY <3>3, RepliedTypes
      <4>2. ProcedureTypes \cap {"INQ_RES", "INQ_CMPL", "REG"} = {} /\ 1 .. 2 \subseteq Nat
        BY DEF ProcedureTypes
      <4> QED
        BY <4>1, <4>2
    <3> QED
      BY <1>4, <3>1, <3>2, <3>3, BusyWithLink
  <2>4. ASSUME NEW j \in Positions' PROVE evq'[j].type \notin {"INQ_RES", "INQ_CMPL", "REG"}
    <3>1. j \in Positions => evq'[j] = evq[j]
      BY <2>3, GrownAt DEF GrowsBy
    <3> QED
      BY <2>1, <2>3, <3>1 DEF GrowsBy, Has
  <2> QED
    BY <2>1, <2>2, <2>4 DEF Has
<1>5. CASE ~Down
  <2>1. PICK i \in Apps : link[i] # "down"
    BY <1>5 DEF Down
  <2> QED
    BY <1>2, <1>4, <2>1
<1>6. CASE Down
  BY <1>1, <1>2, <1>3, <1>6, BusyWithScan
<1> QED
  BY <1>5, <1>6

LEMMA BehindEndCallback ==
  ASSUME TypeOK, RadioInv, BehindEnd, Callback
  PROVE  BehindEnd'
PROOF
<1> SUFFICES ASSUME NEW k \in Positions', evq'[k].type = "CLOSE" \/ IsError(evq'[k]),
                    NEW j \in Positions', evq'[j].type \notin GapTypes
             PROVE  j <= k + N
  BY DEF BehindEnd, OthersWithin, IsError
<1>1. k \in Nat /\ k + 1 \in Positions /\ evq'[k] = evq[k + 1]
  BY LeftBehind DEF IsError
<1>2. j \in Nat /\ j + 1 \in Positions /\ evq'[j] = evq[j + 1]
  BY LeftBehind DEF GapTypes
<1>3. j + 1 <= k + 1 + N
  BY <1>1, <1>2 DEF BehindEnd, OthersWithin
<1> QED
  BY <1>1, <1>2, <1>3, AppsProperties

LEMMA BehindEndStack ==
  ASSUME TypeOK, RadioInv, BehindEnd, QueueGrows
  PROVE  BehindEnd'
PROOF
<1> SUFFICES ASSUME NEW k \in Positions', evq'[k].type = "CLOSE" \/ IsError(evq'[k]),
                    NEW j \in Positions', evq'[j].type \notin GapTypes
             PROVE  j <= k + N
  BY DEF BehindEnd, OthersWithin, IsError
<1>a. N \in Nat /\ Len(evq) \in Nat /\ j \in Nat /\ k \in Nat
  BY AppsProperties DEF TypeOK, StackTypeOK, Positions
<1>1. CASE Quiet
  BY <1>1 DEF Quiet, BehindEnd, OthersWithin, IsError, Positions
<1>2. CASE Down /\ ~Quiet
  <2>1. \/ GrowsBy(1, {"REG"}) /\ started < N
        \/ GrowsBy(1, {"INQ_CMPL"}) \/ GrowsBy(1, {"INQ_RES"})
    BY <1>2, BusyWithScan DEF Registered, TimedOut, Advertised
  <2>2. k \in Positions /\ evq'[k] = evq[k]
    BY <2>1, GrownAt DEF GrowsBy, IsError
  <2>3. ~(started < N)
    BY <2>2 DEF RadioInv, Starting, IsError
  <2>4. j \in Positions /\ evq'[j] = evq[j]
    BY <2>1, <2>3, GrownAt DEF GrowsBy, GapTypes
  <2> QED
    BY <2>2, <2>4 DEF BehindEnd, OthersWithin
<1>3. CASE ~Down /\ ~Quiet
  <2>1. PICK i \in Apps : link[i] # "down"
    BY <1>3 DEF Down
  <2>2. ASSUME k \in Positions, evq'[k] = evq[k] PROVE FALSE
    BY <1>3, <2>2 DEF RadioInv, EndEvents, Has, HasError
  <2>3. CASE Connected(i)
    BY <2>2, <2>3, GrownAt DEF Connected, GrowsBy, IsError
  <2>4. ASSUME NEW p \in Procedures, Replied(i, p) PROVE FALSE
    <3>1. PICK n \in 1 .. 2 : GrowsBy(n, ProcedureTypes)
      BY <2>4, RepliedTypes
    <3> QED
      BY <2>2, <3>1, GrownAt DEF GrowsBy, IsError, ProcedureTypes
  <2>5. CASE Ended(i)
    <3>1. Grows(N + 1) /\ N + 1 \in Nat
      BY <1>a, <2>5 DEF Ended, GrowsBy
    <3>2. Positions' = 1 .. Len(evq) + (N + 1) /\ k > Len(evq)
      BY <2>2, <3>1, GrownAt
    <3> QED
      BY <1>a, <3>2
  <2> QED
    BY <1>3, <2>1, <2>3, <2>4, <2>5, BusyWithLink
<1> QED
  BY <1>1, <1>2, <1>3

LEMMA BehindOpeningCallback ==
  ASSUME TypeOK, TypeOK', RadioInv, BehindEnd, BehindOpening, Callback
  PROVE  BehindOpening'
PROOF
<1> SUFFICES ASSUME NEW i \in Apps, link'[i] = "opening" PROVE Len(evq') <= N
  BY DEF BehindOpening
<1>a. evq # << >> /\ N \in Nat \ {0} /\ Len(evq) \in Nat \ {0} /\ Len(evq') \in Nat /\ Len(evq') <= Len(evq)
  BY CallbackShifts, HeadOfQueue, NAssumption DEF TypeOK, StackTypeOK
<1>1. CASE link[i] = "opening"
  BY <1>a, <1>1 DEF BehindOpening
<1>2. CASE LinkOpened(i)
  <2>1. Len(evq') = Len(evq) - 1
    BY <1>a, <1>2, HeadTailProperties DEF LinkOpened, TypeOK, StackTypeOK
  <2>2. Positions = 1 .. Len(evq)
    BY DEF Positions
  <2>3. CASE ev.type = "CLOSE"
    <3>1. 1 \in Positions /\ evq[1].type = "CLOSE" /\ Len(evq) \in Positions
      BY <1>a, <2>2, <2>3, HeadOfQueue
    <3>2. Len(evq) > 1 => evq[Len(evq)].type \notin GapTypes
      BY <1>2, <2>3, <3>1 DEF LinkOpened, GapTypes
    <3>3. Len(evq) > 1 => Len(evq) <= 1 + N
      BY <3>1, <3>2 DEF BehindEnd, OthersWithin
    <3> QED
      BY <1>a, <2>1, <3>3
  <2>4. CASE ev.type # "CLOSE"
    <3>1. \A k \in Positions : k > 1 => evq[k].type = "STOPPED"
      BY <1>2, <2>4 DEF LinkOpened
    <3>2. ~(Len(evq) > 2)
      <4> SUFFICES ASSUME Len(evq) > 2 PROVE FALSE
        OBVIOUS
      <4>1. 2 \in Positions /\ 3 \in Positions /\ 2 < 3 /\ 2 > 1 /\ 3 > 1
        BY <1>a, <2>2
      <4>2. MayFollow(evq[2], evq[3]) /\ evq[2].type = "STOPPED" /\ evq[3].type = "STOPPED"
        BY <3>1, <4>1 DEF RadioInv, QueueOrder
      <4> QED
        BY <4>2 DEF MayFollow, GapTypes
    <3> QED
      BY <1>a, <2>1, <3>2
  <2> QED
    BY <2>3, <2>4
<1> QED
  BY <1>1, <1>2, CallbackEffects

LEMMA BehindOpeningStack ==
  ASSUME TypeOK, RadioInv, BehindOpening, QueueGrows
  PROVE  BehindOpening'
PROOF
<1> SUFFICES ASSUME NEW i \in Apps, link'[i] = "opening" PROVE Len(evq') <= N
  BY DEF BehindOpening
<1>1. link \in [Apps -> LinkStates]
  BY DEF TypeOK, StackTypeOK
<1>2. link[i] = "opening"
  BY <1>1 DEF QueueGrows, Registered, Quiet, TimedOut, Advertised, Connected, Ended, Replied
<1>3. ~Connected(i) /\ ~Ended(i)
  BY <1>1 DEF Connected, Ended
<1>4. pend[i] = {}
  BY <1>2 DEF RadioInv, PendingUp
<1>5. Quiet
  BY <1>2, <1>3, <1>4, BusyWithLink DEF Replied
<1> QED
  BY <1>2, <1>5 DEF Quiet, BehindOpening

-----------------------------------------------------------------------------
(* JustOpened and Working.                                                 *)

\* What a callback does while a connection is up.
LEMMA WhileUp ==
  ASSUME TypeOK, TypeOK', RadioInv, Callback, NEW i \in Apps, link'[i] \in {"up", "closing"}
  PROVE  /\ link[i] \in {"up", "closing"} /\ (link'[i] = "up" => link[i] = "up") /\ ~Down
         /\ Len(evq') = Len(evq) - 1
         /\ \A k \in Positions' : k \in Nat /\ k + 1 \in Positions /\ evq'[k] = evq[k + 1]
PROOF
<1>1. link[i] \in {"up", "closing"} /\ (link'[i] = "up" => link[i] = "up")
  BY CallbackEffects
<1>2. ~Down
  BY <1>1 DEF Down
<1>3. Len(evq') = Len(evq) - 1 /\ \A k \in Positions' : evq'[k] = evq[k + 1]
  BY <1>2, CallbackShifts
<1>4. Len(evq) \in Nat /\ Len(evq') \in Nat
  BY DEF TypeOK, StackTypeOK
<1>5. \A k \in Positions' : k \in Nat /\ k + 1 \in Positions
  BY <1>3, <1>4 DEF Positions
<1> QED
  BY <1>1, <1>2, <1>3, <1>5

LEMMA JustOpenedCallback ==
  ASSUME TypeOK, TypeOK', RadioInv, OpenAhead, JustOpened, Callback
  PROVE  JustOpened'
PROOF
<1> SUFFICES ASSUME NEW i \in Apps, link'[i] = "up", NEW k \in Positions', evq'[k].type = "OPEN"
             PROVE  /\ k <= N + 1 /\ Len(evq') <= k + 1
                    /\ pend'[i] \subseteq {"disc"}
                    /\ pend'[i] # {} => Len(evq') = k
                    /\ \A j \in Positions' : j > k => evq'[j].type = "DIS_SRVC_CMPL"
  BY DEF JustOpened
<1>a. /\ link[i] = "up" /\ ~Down /\ Len(evq') = Len(evq) - 1
      /\ \A j \in Positions' : j \in Nat /\ j + 1 \in Positions /\ evq'[j] = evq[j + 1]
  BY WhileUp
<1>b. evq # << >> /\ Asks /\ 1 \in Positions /\ ev = evq[1] /\ Len(evq) \in Nat /\ N \in Nat
  BY CallbackAsks, HeadOfQueue, AppsProperties
<1>1. /\ k + 1 <= N + 1 /\ Len(evq) <= k + 2
      /\ pend[i] \subseteq {"disc"} /\ (pend[i] # {} => Len(evq) = k + 1)
      /\ \A j \in Positions : j > k + 1 => evq[j].type = "DIS_SRVC_CMPL"
  <2>1. k \in Nat /\ k + 1 \in Positions /\ evq[k + 1].type = "OPEN"
    BY <1>a
  <2> QED
    BY <1>a, <2>1 DEF JustOpened
<1>2. ~IsProcedureEvent(ev) /\ ev.type # "OPEN"
  <2>1. k \in Nat /\ k + 1 \in Positions /\ evq[k + 1].type = "OPEN"
    BY <1>a
  <2>2. 1 < k + 1
    BY <2>1 DEF Positions
  <2>3. MayFollow(ev, evq[k + 1])
    BY <1>b, <2>1, <2>2 DEF RadioInv, QueueOrder
  <2> QED
    BY <1>b, <2>1, <2>2, <2>3 DEF OpenAhead, MayFollow
<1>3. UNCHANGED pend
  BY <1>a, <1>b, <1>2 DEF Asks, NoRequest, Scans, ScanReq, ClosesOwn, AsksOwn, StopReq, LinkOpened
<1>4. \A j \in Positions' : j > k => evq'[j].type = "DIS_SRVC_CMPL"
  <2> SUFFICES ASSUME NEW j \in Positions', j > k PROVE evq'[j].type = "DIS_SRVC_CMPL"
    OBVIOUS
  <2>1. j + 1 \in Positions /\ j + 1 > k + 1 /\ evq'[j] = evq[j + 1]
    BY <1>a
  <2> QED
    BY <1>1, <2>1
<1>5. k \in Nat
  BY <1>a
<1>6. k <= N + 1 /\ Len(evq') <= k + 1 /\ (pend[i] # {} => Len(evq') = k)
  BY <1>a, <1>b, <1>1, <1>5
<1> QED
  BY <1>1, <1>3, <1>4, <1>6

LEMMA JustOpenedStack ==
  ASSUME TypeOK, RadioInv, BehindOpening, JustOpened, QueueGrows
  PROVE  JustOpened'
PROOF
<1> SUFFICES ASSUME NEW i \in Apps, link'[i] = "up", NEW k \in Positions', evq'[k].type = "OPEN"
             PROVE  /\ k <= N + 1 /\ Len(evq') <= k + 1
                    /\ pend'[i] \subseteq {"disc"}
                    /\ pend'[i] # {} => Len(evq') = k
                    /\ \A j \in Positions' : j > k => evq'[j].type = "DIS_SRVC_CMPL"
  BY DEF JustOpened
<1>a. link \in [Apps -> LinkStates] /\ pend \in [Apps -> SUBSET Procedures]
      /\ N \in Nat /\ Len(evq) \in Nat
  BY AppsProperties DEF TypeOK, StackTypeOK
<1>1. link[i] = "up" \/ (link[i] = "opening" /\ Connected(i))
  BY <1>a DEF QueueGrows, Registered, Quiet, TimedOut, Advertised, Connected, Ended, Replied
<1>2. CASE link[i] = "opening" /\ Connected(i)
  <2>1. /\ Positions = 1 .. Len(evq) /\ Positions' = 1 .. Len(evq) + 1 /\ Len(evq') = Len(evq) + 1
        /\ \A j \in Positions : evq'[j] = evq[j]
    BY <1>2, GrownAt DEF Connected, GrowsBy, Grows
  <2>2. k \notin Positions
    BY <1>2, <2>1 DEF RadioInv, OpenEvent, Has
  <2>3. Len(evq) <= N
    BY <1>2 DEF BehindOpening
  <2>4. k = Len(evq) + 1
    BY <1>a, <2>1, <2>2
  <2>5. pend'[i] = {"disc"}
    BY <1>a, <1>2 DEF Connected
  <2>6. \A j \in Positions' : ~(j > k)
    BY <1>a, <2>1, <2>4
  <2> QED
    BY <1>a, <2>1, <2>3, <2>4, <2>5, <2>6
<1>3. CASE link[i] = "up"
  <2>a. ~Connected(i) /\ ~Ended(i)
    BY <1>a, <1>3 DEF Connected, Ended
  <2>b. link[i] # "down"
    BY <1>3
  <2>1. CASE Quiet
    BY <1>3, <2>1 DEF Quiet, JustOpened, Positions
  <2>2. ASSUME NEW p \in Procedures, Replied(i, p)
        PROVE  /\ k <= N + 1 /\ Len(evq') <= k + 1
               /\ pend'[i] \subseteq {"disc"}
               /\ pend'[i] # {} => Len(evq') = k
               /\ \A j \in Positions' : j > k => evq'[j].type = "DIS_SRVC_CMPL"
    <3>1. k \in Positions /\ evq[k].type = "OPEN"
      <4>1. PICK n \in 1 .. 2 : GrowsBy(n, ProcedureTypes)
        BY <2>2, RepliedTypes
      <4> QED
        BY <4>1, GrownAt DEF GrowsBy, ProcedureTypes
    <3>2. k <= N + 1 /\ pend[i] \subseteq {"disc"} /\ (pend[i] # {} => Len(evq) = k)
      BY <1>3, <3>1 DEF JustOpened
    <3>3. p = "disc" /\ Len(evq) = k
      BY <2>2, <3>2 DEF Replied
    <3>4. GrowsBy(1, {"DIS_SRVC_CMPL"})
      BY <2>2, <3>3 DEF Replied, ReportOf
    <3>5. pend'[i] = {}
      BY <1>a, <2>2, <3>2, <3>3 DEF Replied
    <3>6. Len(evq') = k + 1 /\ Positions = 1 .. k
      BY <3>3, <3>4, GrownAt DEF GrowsBy, Grows
    <3>7. \A j \in Positions' : j > k => evq'[j].type = "DIS_SRVC_CMPL"
      <4>1. \A j \in Positions' : j > k => j \notin Positions
        BY <1>a, <3>3, <3>6
      <4> QED
        BY <3>4, <4>1 DEF GrowsBy
    <3>8. Len(evq') <= k + 1
      BY <1>a, <3>3, <3>6
    <3> QED
      BY <3>2, <3>5, <3>7, <3>8
  <2> QED
    BY <2>a, <2>b, <2>1, <2>2, BusyWithLink
<1> QED
  BY <1>1, <1>2, <1>3

LEMMA WorkingCallback ==
  ASSUME TypeOK, TypeOK', RadioInv, JustOpened, Working, Callback
  PROVE  Working'
PROOF
<1> SUFFICES ASSUME NEW i \in Apps, link'[i] \in {"up", "closing"}, ~Has("OPEN")',
                    NEW k \in Positions'
             PROVE  IsProcedureEvent(evq'[k])
  BY DEF Working, IsProcedureEvent
<1>a. /\ link[i] \in {"up", "closing"}
      /\ k \in Nat /\ k + 1 \in Positions /\ evq'[k] = evq[k + 1]
      /\ \A j \in Positions' : j + 1 \in Positions /\ evq'[j] = evq[j + 1]
  BY WhileUp
<1>b. evq # << >> /\ 1 \in Positions /\ ev = evq[1] /\ HeadHandled
  BY CallbackShifts, HeadOfQueue
<1>1. CASE ~Has("OPEN")
  BY <1>a, <1>1 DEF Working
<1>2. CASE Has("OPEN")
  <2>1. ev.type = "OPEN"
    <3>1. PICK j \in Positions : evq[j].type = "OPEN"
      BY <1>2 DEF Has
    <3>2. ~(j > 1)
      BY <1>b, <3>1 DEF HeadHandled, Has
    <3>3. j = 1
      BY <3>2, QueueTyped DEF Positions
    <3> QED
      BY <1>b, <3>1, <3>3
  <2>2. link[i] = "up"
    BY <1>a, <1>2 DEF RadioInv, OpenEvent
  <2>3. k + 1 > 1
    BY <1>a DEF Positions
  <2>4. evq[k + 1].type = "DIS_SRVC_CMPL"
    BY <1>a, <1>b, <2>1, <2>2, <2>3 DEF JustOpened
  <2> QED
    BY <1>a, <2>4 DEF IsProcedureEvent
<1> QED
  BY <1>1, <1>2

LEMMA WorkingStack ==
  ASSUME TypeOK, RadioInv, Working, QueueGrows
  PROVE  Working'
PROOF
<1> SUFFICES ASSUME NEW i \in Apps, link'[i] \in {"up", "closing"}, ~Has("OPEN")',
                    NEW k \in Positions'
             PROVE  IsProcedureEvent(evq'[k])
  BY DEF Working, IsProcedureEvent
<1>a. link \in [Apps -> LinkStates]
  BY DEF TypeOK, StackTypeOK
<1>1. ~Connected(i)
  <2> SUFFICES ASSUME Connected(i) PROVE FALSE
    OBVIOUS
  <2>1. /\ Positions = 1 .. Len(evq) /\ Positions' = 1 .. Len(evq) + 1 /\ Len(evq) \in Nat
        /\ \A j \in Positions' : j \in Positions \/ evq'[j].type \in {"OPEN"}
    BY GrownAt DEF Connected, GrowsBy
  <2>2. Len(evq) + 1 \in Positions' /\ Len(evq) + 1 \notin Positions
    BY <2>1
  <2> QED
    BY <2>1, <2>2 DEF Has
<1>2. link[i] \in {"up", "closing"} /\ ~Ended(i) /\ link[i] # "down"
  BY <1>a, <1>1 DEF QueueGrows, Registered, Quiet, TimedOut, Advertised, Connected, Ended, Replied
<1>3. CASE Quiet
  BY <1>2, <1>3 DEF Quiet, Working, Positions, Has
<1>4. ASSUME NEW p \in Procedures, Replied(i, p) PROVE IsProcedureEvent(evq'[k])
  <2>1. PICK n \in 1 .. 2 : GrowsBy(n, ProcedureTypes)
    BY <1>4, RepliedTypes
  <2>2. /\ \A j \in Positions : j \in Positions' /\ evq'[j] = evq[j]
        /\ \A j \in Positions' : j \in Positions \/ evq'[j].type \in ProcedureTypes
    BY <2>1 DEF GrowsBy, Grows
  <2>3. ~Has("OPEN")
    BY <2>2 DEF Has
  <2>4. k \in Positions => IsProcedureEvent(evq[k])
    BY <1>2, <2>3 DEF Working
  <2> QED
    BY <2>2, <2>4 DEF IsProcedureEvent, ProcedureTypes
<1> QED
  BY <1>1, <1>2, <1>3, <1>4, BusyWithLink

-----------------------------------------------------------------------------
(* ReportsInTurn and PendingReports.                                       *)

LEMMA ReportsInTurnCallback ==
  ASSUME TypeOK, RadioInv, ReportsInTurn, Callback
  PROVE  ReportsInTurn'
PROOF
<1> SUFFICES ASSUME NEW j \in Positions', NEW k \in Positions', j < k
             PROVE  /\ evq'[j].type = "CFG_MTU" => evq'[k].type # "CFG_MTU"
                    /\ evq'[j].type \in ChainTypes /\ evq'[k].type \in ChainTypes =>
                         evq'[j].type = "SEARCH_RES" /\ evq'[k].type = "SEARCH_CMPL"
  BY DEF ReportsInTurn
<1>1. CASE evq'[j].type # "STOPPED" /\ evq'[k].type # "STOPPED"
  <2>1. /\ j \in Nat /\ j + 1 \in Positions /\ evq'[j] = evq[j + 1]
        /\ k \in Nat /\ k + 1 \in Positions /\ evq'[k] = evq[k + 1]
    BY <1>1, LeftBehind
  <2>2. j + 1 < k + 1
    BY <2>1
  <2> QED
    BY <2>1, <2>2 DEF ReportsInTurn
<1>2. CASE evq'[j].type = "STOPPED" \/ evq'[k].type = "STOPPED"
  BY <1>2 DEF ChainTypes
<1> QED
  BY <1>1, <1>2

\* What is added and is not a report of a procedure.
LEMMA NoReport ==
  ASSUME TypeOK, QueueGrows, NEW k \in Positions', k \notin Positions,
         ~\E i \in Apps : \E p \in Procedures : Replied(i, p)
  PROVE  evq'[k].type \notin ChainTypes /\ evq'[k].type # "CFG_MTU"
PROOF
<1>1. ~Quiet
  BY DEF Quiet, Positions
<1>2. evq'[k].type \in {"REG", "INQ_CMPL", "INQ_RES", "OPEN", "CLOSE", "DISCONNECT"}
  BY <1>1 DEF QueueGrows, Registered, TimedOut, Advertised, Connected, Ended, GrowsBy
<1> QED
  BY <1>2 DEF ChainTypes

LEMMA ReportsInTurnStack ==
  ASSUME TypeOK, RadioInv, ReportsInTurn, PendingReports, QueueGrows
  PROVE  ReportsInTurn'
PROOF
<1> SUFFICES ASSUME NEW j \in Positions', NEW k \in Positions', j < k
             PROVE  /\ evq'[j].type = "CFG_MTU" => evq'[k].type # "CFG_MTU"
                    /\ evq'[j].type \in ChainTypes /\ evq'[k].type \in ChainTypes =>
                         evq'[j].type = "SEARCH_RES" /\ evq'[k].type = "SEARCH_CMPL"
  BY DEF ReportsInTurn
<1>a. /\ Len(evq) \in Nat /\ Positions = 1 .. Len(evq) /\ j \in Nat /\ k \in Nat
      /\ j >= 1 /\ k >= 1
  BY DEF TypeOK, StackTypeOK, Positions
<1>b. \A m \in Positions : m \in Positions' /\ evq'[m] = evq[m]
  <2>1. \/ evq' = evq
        \/ \E n : Grows(n)
    BY DEF QueueGrows, Registered, Quiet, TimedOut, Advertised, Connected, Ended, Replied, GrowsBy
  <2> QED
    BY <2>1 DEF Grows, Positions
<1>1. k \in Positions => j \in Positions
  BY <1>a
<1>2. CASE k \in Positions
  BY <1>b, <1>1, <1>2 DEF ReportsInTurn
<1>3. CASE k \notin Positions /\ ~\E i \in Apps : \E p \in Procedures : Replied(i, p)
  BY <1>3, NoReport
<1>4. ASSUME NEW i \in Apps, NEW p \in Procedures, Replied(i, p), k \notin Positions
      PROVE  /\ evq'[j].type = "CFG_MTU" => evq'[k].type # "CFG_MTU"
             /\ evq'[j].type \in ChainTypes /\ evq'[k].type \in ChainTypes =>
                  evq'[j].type = "SEARCH_RES" /\ evq'[k].type = "SEARCH_CMPL"
  <2>1. /\ p = "mtu" => \A m \in Positions : evq[m].type # "CFG_MTU"
        /\ p # "mtu" => \A m \in Positions : evq[m].type \notin ChainTypes
    BY <1>4 DEF Replied, PendingReports, Has
  <2>2. CASE GrowsBy(1, {ReportOf[p]})
    <3>1. Positions' = 1 .. Len(evq) + 1
      BY <2>2, GrownAt DEF GrowsBy
    <3>2. j \in Positions
      BY <1>a, <1>4, <3>1
    <3>3. evq'[j] = evq[j] /\ evq'[k].type = ReportOf[p]
      BY <1>b, <1>4, <2>2, <3>2 DEF GrowsBy
    <3>4. CASE p = "mtu"
      <4>1. evq'[k].type = "CFG_MTU" /\ evq'[j].type # "CFG_MTU"
        BY <2>1, <3>2, <3>3, <3>4 DEF ReportOf
      <4> QED
        BY <4>1 DEF ChainTypes
    <3>5. CASE p # "mtu"
      <4>1. evq'[k].type # "CFG_MTU" /\ evq'[j].type \notin ChainTypes
        BY <2>1, <3>2, <3>3, <3>5 DEF ReportOf, Procedures
      <4> QED
        BY <4>1
    <3> QED
      BY <3>4, <3>5
  <2>3. CASE /\ p = "search" /\ Grows(2)
             /\ evq'[Len(evq) + 1].type = "SEARCH_RES" /\ evq'[Len(evq) + 2].type = "SEARCH_CMPL"
    <3>1. Positions' = 1 .. Len(evq) + 2
      BY <2>3, GrownAt
    <3>2. k = Len(evq) + 1 \/ k = Len(evq) + 2
      BY <1>a, <1>4, <3>1
    <3>3. j \in Positions \/ (j = Len(evq) + 1 /\ k = Len(evq) + 2)
      BY <1>a, <3>1, <3>2
    <3>4. CASE j \in Positions
      <4>1. evq'[j].type \notin ChainTypes /\ evq'[k].type # "CFG_MTU"
        BY <1>b, <2>1, <2>3, <3>2, <3>4
      <4> QED
        BY <4>1
    <3>5. CASE j = Len(evq) + 1 /\ k = Len(evq) + 2
      BY <2>3, <3>5
    <3> QED
      BY <3>3, <3>4, <3>5
  <2> QED
    BY <1>4, <2>2, <2>3 DEF Replied
<1> QED
  BY <1>2, <1>3, <1>4

\* What a callback leaves pending, and what it asks for next.
LEMMA PendingAsked ==
  ASSUME TypeOK, RadioInv, Callback
  PROVE  \/ \A i \in Apps : pend'[i] \subseteq pend[i]
         \/ \E p \in Procedures :
              /\ ev.id \in Apps /\ link[ev.id] = "up" /\ link' = link
              /\ pend' = [pend EXCEPT ![ev.id] = @ \cup {p}]
              /\ \/ ev.type = "OPEN" /\ p = "mtu"
                 \/ ev.type = "DIS_SRVC_CMPL" /\ p = "search"
                 \/ ev.type = "SEARCH_CMPL" /\ p = "read"
PROOF
<1>1. Asks /\ pend \in [Apps -> SUBSET Procedures]
  BY CallbackAsks DEF TypeOK, StackTypeOK
<1>2. CASE UNCHANGED pend
  BY <1>2
<1>3. CASE ClosesOwn
  <2>1. \A i \in Apps : pend'[i] \subseteq pend[i]
    BY <1>1, <1>3 DEF ClosesOwn, CloseReq
  <2> QED
    BY <2>1
<1>4. CASE AsksOwn /\ ~UNCHANGED pend
  BY <1>4 DEF AsksOwn, ProcedureReq
<1> QED
  BY <1>1, <1>2, <1>3, <1>4 DEF Asks, NoRequest, Scans, ScanReq, StopReq, LinkOpened

LEMMA PendingReportsCallback ==
  ASSUME TypeOK, TypeOK', RadioInv, JustOpened, ReportsInTurn, PendingReports, Callback
  PROVE  PendingReports'
PROOF
<1>a. /\ evq # << >> /\ 1 \in Positions /\ ev = evq[1]
      /\ pend \in [Apps -> SUBSET Procedures]
  BY CallbackShifts, HeadOfQueue DEF TypeOK, StackTypeOK
<1>b. ASSUME NEW k \in Positions', evq'[k].type \in ChainTypes \/ evq'[k].type = "CFG_MTU"
      PROVE  k + 1 \in Positions /\ k + 1 > 1 /\ evq'[k] = evq[k + 1]
  BY <1>b, LeftBehind DEF ChainTypes
<1>1. CASE \A i \in Apps : pend'[i] \subseteq pend[i]
  <2> SUFFICES ASSUME NEW i \in Apps
               PROVE  /\ "mtu" \in pend'[i] => ~Has("CFG_MTU")'
                      /\ \A p \in pend'[i] \ {"mtu"} :
                           /\ \A q \in pend'[i] \ {"mtu"} : q = p
                           /\ \A k \in Positions' : evq'[k].type \notin ChainTypes
    BY DEF PendingReports
  <2>1. ~Has("CFG_MTU") => ~Has("CFG_MTU")'
    BY <1>b DEF Has
  <2>2. (\A k \in Positions : evq[k].type \notin ChainTypes) =>
          \A k \in Positions' : evq'[k].type \notin ChainTypes
    BY <1>b
  <2>3. pend'[i] \subseteq pend[i]
    BY <1>1
  <2>4. ASSUME NEW p \in pend'[i] \ {"mtu"}
        PROVE  /\ \A q \in pend'[i] \ {"mtu"} : q = p
               /\ \A k \in Positions' : evq'[k].type \notin ChainTypes
    BY <2>2, <2>3, <2>4 DEF PendingReports
  <2>5. "mtu" \in pend'[i] => ~Has("CFG_MTU")'
    BY <2>1, <2>3 DEF PendingReports
  <2> QED
    BY <2>4, <2>5
<1>2. ASSUME NEW p \in Procedures,
             ev.id \in Apps, link[ev.id] = "up", pend' = [pend EXCEPT ![ev.id] = @ \cup {p}],
             \/ ev.type = "OPEN" /\ p = "mtu"
             \/ ev.type = "DIS_SRVC_CMPL" /\ p = "search"
             \/ ev.type = "SEARCH_CMPL" /\ p = "read"
      PROVE  PendingReports'
  <2> SUFFICES ASSUME NEW i \in Apps
               PROVE  /\ "mtu" \in pend'[i] => ~Has("CFG_MTU")'
                      /\ \A q \in pend'[i] \ {"mtu"} :
                           /\ \A r \in pend'[i] \ {"mtu"} : r = q
                           /\ \A k \in Positions' : evq'[k].type \notin ChainTypes
    BY DEF PendingReports
  <2>1. pend'[i] \subseteq pend[i] \cup {p}
    BY <1>a, <1>2
  <2>2. CASE p = "mtu" /\ ev.type = "OPEN"
    <3>1. \A k \in Positions : k > 1 => evq[k].type = "DIS_SRVC_CMPL"
      BY <1>a, <1>2, <2>2 DEF JustOpened
    <3>2. ~Has("CFG_MTU")'
      BY <1>b, <3>1 DEF Has
    <3>3. (\A k \in Positions : evq[k].type \notin ChainTypes) =>
            \A k \in Positions' : evq'[k].type \notin ChainTypes
      BY <1>b
    <3>4. pend'[i] \ {"mtu"} \subseteq pend[i] \ {"mtu"}
      BY <2>1, <2>2
    <3>5. ASSUME NEW q \in pend'[i] \ {"mtu"}
          PROVE  /\ \A r \in pend'[i] \ {"mtu"} : r = q
                 /\ \A k \in Positions' : evq'[k].type \notin ChainTypes
      BY <3>3, <3>4, <3>5 DEF PendingReports
    <3> QED
      BY <3>2, <3>5
  <2>3. CASE p # "mtu" /\ ev.type \in {"DIS_SRVC_CMPL", "SEARCH_CMPL"}
    <3>1. pend[i] \ {"mtu"} = {}
      BY <1>a, <2>3 DEF PendingReports, ChainTypes
    <3>2. pend'[i] \ {"mtu"} \subseteq {p} /\ ("mtu" \in pend'[i] => "mtu" \in pend[i])
      BY <2>1, <2>3, <3>1
    <3>3. \A k \in Positions : k > 1 => evq[k].type \notin ChainTypes
      <4> SUFFICES ASSUME NEW k \in Positions, k > 1, evq[k].type \in ChainTypes PROVE FALSE
        OBVIOUS
      <4>1. 1 < k
        BY DEF Positions
      <4>2. evq[1].type = "SEARCH_RES"
        BY <1>a, <2>3, <4>1 DEF ReportsInTurn, ChainTypes
      <4> QED
        BY <1>a, <2>3, <4>2
    <3>4. \A k \in Positions' : evq'[k].type \notin ChainTypes
      BY <1>b, <3>3
    <3>5. ~Has("CFG_MTU") => ~Has("CFG_MTU")'
      BY <1>b DEF Has
    <3>6. "mtu" \in pend'[i] => ~Has("CFG_MTU")'
      BY <3>2, <3>5 DEF PendingReports
    <3> QED
      BY <3>2, <3>4, <3>6
  <2> QED
    BY <1>2, <2>2, <2>3
<1> QED
  BY <1>1, <1>2, PendingAsked

LEMMA PendingReportsStack ==
  ASSUME TypeOK, RadioInv, OpenAhead, PendingReports, QueueGrows
  PROVE  PendingReports'
PROOF
<1> SUFFICES ASSUME NEW i \in Apps
             PROVE  /\ "mtu" \in pend'[i] => ~Has("CFG_MTU")'
                    /\ \A q \in pend'[i] \ {"mtu"} :
                         /\ \A r \in pend'[i] \ {"mtu"} : r = q
                         /\ \A k \in Positions' : evq'[k].type \notin ChainTypes
  BY DEF PendingReports
<1>a. /\ pend \in [Apps -> SUBSET Procedures] /\ link \in [Apps -> LinkStates]
      /\ Len(evq) \in Nat /\ Positions = 1 .. Len(evq)
  BY DEF TypeOK, StackTypeOK, Positions
<1>b. \A m \in Positions : m \in Positions' /\ evq'[m] = evq[m]
  <2>1. \/ evq' = evq
        \/ \E n : Grows(n)
    BY DEF QueueGrows, Registered, Quiet, TimedOut, Advertised, Connected, Ended, Replied, GrowsBy
  <2> QED
    BY <2>1 DEF Grows, Positions
<1>1. CASE ~\E j \in Apps : \E p \in Procedures : Replied(j, p)
  <2>1. ~Has("CFG_MTU") => ~Has("CFG_MTU")'
    BY <1>1, <1>b, NoReport DEF Has
  <2>2. (\A k \in Positions : evq[k].type \notin ChainTypes) =>
          \A k \in Positions' : evq'[k].type \notin ChainTypes
    BY <1>1, <1>b, NoReport
  <2>3. CASE pend'[i] \subseteq pend[i]
    <3>1. ASSUME NEW q \in pend'[i] \ {"mtu"}
          PROVE  /\ \A r \in pend'[i] \ {"mtu"} : r = q
                 /\ \A k \in Positions' : evq'[k].type \notin ChainTypes
      BY <2>2, <2>3, <3>1 DEF PendingReports
    <3>2. "mtu" \in pend'[i] => ~Has("CFG_MTU")'
      BY <2>1, <2>3 DEF PendingReports
    <3> QED
      BY <3>1, <3>2
  <2>4. CASE Connected(i)
    <3>1. pend'[i] = {"disc"}
      BY <1>a, <2>4 DEF Connected
    <3>2. \A k \in Positions : evq[k].type \notin ChainTypes
      BY <2>4 DEF Connected, OpenAhead, IsProcedureEvent, ChainTypes
    <3> QED
      BY <2>2, <3>1, <3>2
  <2>5. pend'[i] \subseteq pend[i] \/ Connected(i)
    BY <1>1, <1>a DEF QueueGrows, Registered, Quiet, TimedOut, Advertised, Connected, Ended
  <2> QED
    BY <2>3, <2>4, <2>5
<1>2. ASSUME NEW j \in Apps, NEW p \in Procedures, Replied(j, p)
      PROVE  /\ "mtu" \in pend'[i] => ~Has("CFG_MTU")'
             /\ \A q \in pend'[i] \ {"mtu"} :
                  /\ \A r \in pend'[i] \ {"mtu"} : r = q
                  /\ \A k \in Positions' : evq'[k].type \notin ChainTypes
  <2>1. link[j] # "down" /\ p \in pend[j]
    BY <1>2 DEF Replied, RadioInv, PendingUp
  <2>2. i # j => pend'[i] = {}
    <3>1. i # j => link[i] = "down" /\ pend[i] = {}
      BY <2>1, Linked DEF RadioInv, PendingUp
    <3> QED
      BY <1>2, <1>a, <3>1 DEF Replied
  <2>3. CASE i = j
    <3>1. pend'[i] = pend[i] \ {p}
      BY <1>2, <1>a, <2>3 DEF Replied
    <3>2. CASE p = "mtu"
      <4>1. GrowsBy(1, {"CFG_MTU"})
        BY <1>2, <3>2 DEF Replied, ReportOf
      <4>2. (\A k \in Positions : evq[k].type \notin ChainTypes) =>
              \A k \in Positions' : evq'[k].type \notin ChainTypes
        BY <1>b, <4>1 DEF GrowsBy, ChainTypes
      <4>3. pend'[i] \ {"mtu"} \subseteq pend[i] \ {"mtu"} /\ "mtu" \notin pend'[i]
        BY <3>1, <3>2
      <4>4. ASSUME NEW q \in pend'[i] \ {"mtu"}
            PROVE  /\ \A r \in pend'[i] \ {"mtu"} : r = q
                   /\ \A k \in Positions' : evq'[k].type \notin ChainTypes
        BY <4>2, <4>3, <4>4 DEF PendingReports
      <4> QED
        BY <4>3, <4>4
    <3>3. CASE p # "mtu"
      <4>1. pend'[i] \ {"mtu"} = {} /\ ("mtu" \in pend'[i] => "mtu" \in pend[i])
        BY <2>1, <2>3, <3>1, <3>3 DEF PendingReports
      <4>2. \A k \in Positions' : k \in Positions \/ evq'[k].type # "CFG_MTU"
        <5>1. CASE GrowsBy(1, {ReportOf[p]})
          BY <3>3, <5>1 DEF GrowsBy, ReportOf, Procedures
        <5>2. CASE /\ Grows(2)
                   /\ evq'[Len(evq) + 1].type = "SEARCH_RES" /\ evq'[Len(evq) + 2].type = "SEARCH_CMPL"
          <6>1. Positions' = 1 .. Len(evq) + 2
            BY <5>2, GrownAt
          <6>2. \A k \in Positions' : k \in Positions \/ k = Len(evq) + 1 \/ k = Len(evq) + 2
            BY <1>a, <6>1
          <6> QED
            BY <5>2, <6>2
        <5> QED
          BY <1>2, <5>1, <5>2 DEF Replied
      <4>3. ~Has("CFG_MTU") => ~Has("CFG_MTU")'
        BY <1>b, <4>2 DEF Has
      <4>4. "mtu" \in pend'[i] => ~Has("CFG_MTU")'
        BY <4>1, <4>3 DEF PendingReports
      <4> QED
        BY <4>1, <4>4
    <3> QED
      BY <3>2, <3>3
  <2> QED
    BY <2>2, <2>3
<1> QED
  BY <1>1, <1>2

\* A registration disturbs no connection.
LEMMA OpenAheadRegisters ==
  ASSUME TypeOK, RadioInv, OpenAhead, RegisterNext
  PROVE  OpenAhead'
PROOF
<1>1. CASE Quiet
  BY <1>1 DEF Quiet, OpenAhead, Positions, IsProcedureEvent
<1>2. CASE Registered
  <2>1. started < N /\ Grows(1)
    BY <1>2 DEF Registered, GrowsBy
  <2>2. \A k \in Positions : evq[k].type = "REG"
    BY <2>1 DEF RadioInv, Starting
  <2>3. \A k \in Positions' : evq'[k].type = "REG"
    BY <1>2, <2>1, <2>2, GrownAt DEF Registered, GrowsBy
  <2> QED
    BY <2>3 DEF OpenAhead, IsProcedureEvent
<1> QED
  BY <1>1, <1>2, RegisteredStep

-----------------------------------------------------------------------------
(* OthersFit.                                                              *)

LEMMA IntervalSize ==
  ASSUME NEW a \in Int, NEW b \in Int, a <= b
  PROVE  IsFiniteSet(a .. b) /\ Cardinality(a .. b) = b - a + 1
PROOF
<1>1. IsFiniteSet(a .. b) /\ Cardinality(a .. b) = IF a > b THEN 0 ELSE b - a + 1
  BY FS_Interval
<1> QED
  BY <1>1

\* Behind N other events whatever has two events behind it is a scan result.
LEMMA ScanTail ==
  ASSUME NEW q \in Seq(Events),
         \A k \in 1 .. Len(q) : q[k].type \notin GapTypes => k <= N,
         \A j, k \in 1 .. Len(q) : j < k => MayFollow(q[j], q[k]),
         NEW k \in N + 1 .. Len(q) - 2
  PROVE  k \in 1 .. Len(q) /\ q[k].type = "INQ_RES"
PROOF
<1>1. N \in Nat /\ Len(q) \in Nat
  BY AppsProperties
<1>2. /\ k \in 1 .. Len(q) /\ k + 1 \in 1 .. Len(q) /\ k + 2 \in 1 .. Len(q)
      /\ k < k + 1 /\ k + 1 < k + 2
      /\ ~(k <= N) /\ ~(k + 1 <= N) /\ ~(k + 2 <= N)
  BY <1>1
<1>3. q[k].type \in GapTypes /\ q[k + 1].type \in GapTypes /\ q[k + 2].type \in GapTypes
  BY <1>2
<1>4. MayFollow(q[k], q[k + 1]) /\ MayFollow(q[k + 1], q[k + 2])
  BY <1>2
<1> QED
  BY <1>2, <1>3, <1>4 DEF MayFollow, GapTypes

\* Without results they fit with the end of a scan and the end of its stop.
LEMMA ScanFits ==
  ASSUME NEW q \in Seq(Events),
         \A k \in 1 .. Len(q) : q[k].type \notin GapTypes => k <= N,
         \A j, k \in 1 .. Len(q) : j < k => MayFollow(q[j], q[k]),
         \A k \in 1 .. Len(q) : k > 1 => q[k].type # "INQ_RES"
  PROVE  Len(q) <= N + 2
PROOF
<1> SUFFICES ASSUME ~(Len(q) <= N + 2) PROVE FALSE
  OBVIOUS
<1>1. N \in Nat \ {0} /\ Len(q) \in Nat
  BY NAssumption
<1>2. N + 1 \in N + 1 .. Len(q) - 2 /\ N + 1 > 1
  BY <1>1
<1>3. N + 1 \in 1 .. Len(q) /\ q[N + 1].type = "INQ_RES"
  BY <1>2, ScanTail
<1> QED
  BY <1>2, <1>3

\* The reports of one connection.
LEMMA ReportsFit ==
  ASSUME TypeOK, ReportsInTurn, \A k \in Positions : IsProcedureEvent(evq[k])
  PROVE  Len(evq) <= 3
PROOF
<1> SUFFICES ASSUME ~(Len(evq) <= 3) PROVE FALSE
  OBVIOUS
<1>1. /\ 1 \in Positions /\ 2 \in Positions /\ 3 \in Positions /\ 4 \in Positions
      /\ 1 < 2 /\ 1 < 3 /\ 1 < 4 /\ 2 < 3 /\ 2 < 4 /\ 3 < 4
  BY DEF TypeOK, StackTypeOK, Positions
<1>2. \A k \in {1, 2, 3, 4} : evq[k].type = "CFG_MTU" \/ evq[k].type \in ChainTypes
  BY <1>1 DEF IsProcedureEvent, ChainTypes
<1>3. \A j, k \in {1, 2, 3, 4} : j < k =>
        /\ evq[j].type = "CFG_MTU" => evq[k].type # "CFG_MTU"
        /\ evq[j].type \in ChainTypes /\ evq[k].type \in ChainTypes =>
             evq[j].type = "SEARCH_RES" /\ evq[k].type = "SEARCH_CMPL"
  BY <1>1 DEF ReportsInTurn
<1> DEFINE chain(k) == evq[k].type \in ChainTypes
<1>4. \A a, b, c \in {1, 2, 3, 4} : a < b /\ b < c => ~(chain(a) /\ chain(b) /\ chain(c))
  <2> SUFFICES ASSUME NEW a \in {1, 2, 3, 4}, NEW b \in {1, 2, 3, 4}, NEW c \in {1, 2, 3, 4},
                      a < b, b < c, chain(a), chain(b), chain(c)
               PROVE  FALSE
    OBVIOUS
  <2>1. evq[b].type = "SEARCH_CMPL"
    BY <1>3
  <2>2. evq[b].type = "SEARCH_RES"
    BY <1>3
  <2> QED
    BY <2>1, <2>2
<1>5. \A j, k \in {1, 2, 3, 4} : j < k => chain(j) \/ chain(k)
  BY <1>2, <1>3
<1> HIDE DEF chain
<1> QED
  BY <1>1, <1>4, <1>5

\* The queue while a link is not down.
LEMMA LinkFits ==
  ASSUME TypeOK, RadioInv, BehindOpening, JustOpened, Working, ReportsInTurn,
         NEW i \in Apps, link[i] # "down"
  PROVE  Len(evq) <= N + 2
PROOF
<1>a. N \in Nat \ {0} /\ Len(evq) \in Nat /\ link[i] \in LinkStates
  BY NAssumption DEF TypeOK, StackTypeOK
<1>1. CASE link[i] = "opening"
  BY <1>a, <1>1 DEF BehindOpening
<1>2. CASE link[i] \in {"up", "closing"} /\ ~Has("OPEN")
  <2>1. Len(evq) <= 3
    BY <1>2, ReportsFit DEF Working
  <2> QED
    BY <1>a, <2>1
<1>3. CASE link[i] \in {"up", "closing"} /\ Has("OPEN")
  <2>1. PICK k \in Positions : evq[k].type = "OPEN"
    BY <1>3 DEF Has
  <2>2. link[i] = "up"
    BY <1>3 DEF RadioInv, OpenEvent
  <2>3. k <= N + 1 /\ Len(evq) <= k + 1 /\ k \in Nat
    BY <2>1, <2>2 DEF JustOpened, Positions
  <2> QED
    BY <1>a, <2>3
<1> QED
  BY <1>a, <1>1, <1>2, <1>3 DEF LinkStates

\* The order of the queue, as the lemmas on scans need it.
LEMMA Ordered ==
  ASSUME TypeOK, RadioInv
  PROVE  /\ evq \in Seq(Events) /\ Positions = 1 .. Len(evq)
         /\ \A j, k \in 1 .. Len(evq) : j < k => MayFollow(evq[j], evq[k])
PROOF
  BY DEF TypeOK, StackTypeOK, RadioInv, QueueOrder, Positions

LEMMA OthersFitCallback ==
  ASSUME TypeOK, RadioInv, BehindScan, OthersFit, Callback
  PROVE  OthersFit'
PROOF
<1> SUFFICES ASSUME ~Has("INQ_RES")' PROVE Len(evq') <= 2 * N + 3
  BY DEF OthersFit
<1>1. Len(evq') <= Len(evq) /\ Len(evq) \in Nat /\ N \in Nat /\ HeadHandled
  BY CallbackShifts, AppsProperties DEF TypeOK, StackTypeOK
<1>2. Len(evq') \in Nat
  BY CallbackShifts, <1>1 DEF TypeOK, StackTypeOK
<1>3. CASE ~Has("INQ_RES")
  BY <1>1, <1>2, <1>3 DEF OthersFit
<1>4. CASE Has("INQ_RES")
  <2>1. \A k \in Positions : evq[k].type \notin GapTypes => k <= N
    BY <1>4 DEF BehindScan, OthersWithin
  <2>2. \A k \in Positions : k > 1 => evq[k].type # "INQ_RES"
    BY <1>1 DEF HeadHandled, Has
  <2>3. Len(evq) <= N + 2
    BY <2>1, <2>2, Ordered, ScanFits
  <2> QED
    BY <1>1, <1>2, <2>3
<1> QED
  BY <1>3, <1>4

LEMMA OthersFitStack ==
  ASSUME TypeOK, TypeOK', RadioInv, RadioInv', RegistrationsQueued, BehindOpening, JustOpened,
         Working, ReportsInTurn, BehindScan', OthersFit, QueueGrows
  PROVE  OthersFit'
PROOF
<1>a. N \in Nat \ {0} /\ Len(evq) \in Nat
  BY NAssumption DEF TypeOK, StackTypeOK
<1>1. CASE Quiet
  BY <1>1 DEF Quiet, OthersFit, Has, Positions
<1>2. CASE Registered
  <2>1. Len(evq) <= started /\ started < N /\ Len(evq') = Len(evq) + 1 /\ started \in Nat
    BY <1>2 DEF Registered, GrowsBy, Grows, RegistrationsQueued, TypeOK, StackTypeOK
  <2> QED
    BY <1>a, <2>1 DEF OthersFit
<1>3. CASE TimedOut \/ Advertised
  <2>1. Has("INQ_CMPL")' \/ Has("INQ_RES")'
    <3>1. GrowsBy(1, {"INQ_CMPL"}) \/ GrowsBy(1, {"INQ_RES"})
      BY <1>3 DEF TimedOut, Advertised
    <3>2. Positions' = 1 .. Len(evq) + 1 /\ Positions = 1 .. Len(evq)
      BY <3>1, GrownAt DEF GrowsBy
    <3>3. Len(evq) + 1 \in Positions' /\ Len(evq) + 1 \notin Positions
      BY <1>a, <3>2
    <3> QED
      BY <3>1, <3>3 DEF GrowsBy, Has
  <2> DEFINE q == evq'
  <2>2. q \in Seq(Events) /\ Positions' = 1 .. Len(q) /\ Len(q) \in Nat
    BY DEF TypeOK, StackTypeOK, Positions
  <2>3. \A k \in 1 .. Len(q) : q[k].type \notin GapTypes => k <= N
    BY <2>1, <2>2 DEF BehindScan, OthersWithin
  <2>4. \A j, k \in 1 .. Len(q) : j < k => MayFollow(q[j], q[k])
    BY <2>2 DEF RadioInv, QueueOrder, MayFollow, IsError, IsProcedureEvent
  <2>5. ~Has("INQ_RES")' => \A k \in 1 .. Len(q) : k > 1 => q[k].type # "INQ_RES"
    BY <2>2 DEF Has
  <2>6. OthersFit' <=> (~Has("INQ_RES")' => Len(q) <= 2 * N + 3)
    BY DEF OthersFit
  <2> HIDE DEF q
  <2>7. ~Has("INQ_RES")' => Len(q) <= N + 2
    BY <2>2, <2>3, <2>4, <2>5, ScanFits
  <2> QED
    BY <1>a, <2>2, <2>6, <2>7
<1>4. ASSUME NEW i \in Apps, link[i] # "down" PROVE OthersFit'
  <2>1. Len(evq) <= N + 2
    BY <1>4, LinkFits
  <2>2. CASE Ended(i)
    BY <1>a, <2>1, <2>2 DEF Ended, GrowsBy, Grows, OthersFit
  <2>3. CASE Connected(i)
    <3>1. Len(evq) <= N /\ Len(evq') = Len(evq) + 1
      BY <2>3 DEF Connected, GrowsBy, Grows, BehindOpening
    <3> QED
      BY <1>a, <3>1 DEF OthersFit
  <2>4. ASSUME NEW p \in Procedures, Replied(i, p) PROVE OthersFit'
    <3>1. Len(evq') = Len(evq) + 1 \/ (p = "search" /\ Len(evq') = Len(evq) + 2)
      BY <2>4 DEF Replied, GrowsBy, Grows
    <3>2. link[i] = "up" /\ p \in pend[i]
      BY <2>4 DEF Replied, RadioInv, PendingUp
    <3>3. CASE Has("OPEN")
      <4>1. p = "disc"
        BY <3>2, <3>3 DEF JustOpened, Has
      <4> QED
        BY <1>a, <2>1, <3>1, <4>1 DEF OthersFit
    <3>4. CASE ~Has("OPEN")
      <4>1. Len(evq) <= 3
        BY <3>2, <3>4, ReportsFit DEF Working
      <4> QED
        BY <1>a, <3>1, <4>1 DEF OthersFit
    <3> QED
      BY <3>3, <3>4
  <2> QED
    BY <1>1, <1>4, <2>2, <2>3, <2>4, BusyWithLink
<1> QED
  BY <1>1, <1>2, <1>3, <1>4, BusyWithScan DEF Down

-----------------------------------------------------------------------------
(* The theorems.                                                           *)

\* The devices, the faults and the reader are no part of the invariant.
LEMMA QueueUnchanged ==
  ASSUME QueueInv, UNCHANGED vars
  PROVE  QueueInv'
PROOF
<1>1. UNCHANGED <<evq, link, pend, scan, started>>
  BY DEF vars, stackVars, envVars
<1> QED
  BY <1>1 DEF QueueInv, OpenAhead, RegistrationsQueued, BehindScan, OthersWithin,
    BehindEnd, BehindOpening, JustOpened, Working, ReportsInTurn, PendingReports, OthersFit,
    Has, IsError, IsProcedureEvent, Positions

LEMMA QueueInit ==
  ASSUME Init
  PROVE  QueueInv
PROOF
<1>1. Positions = {} /\ Len(evq) = 0 /\ started = 0 /\ N \in Nat
      /\ \A i \in Apps : link[i] = "down" /\ pend[i] = {}
  BY AppsProperties DEF Init, StackInit, Positions
<1>2. OpenAhead /\ RegistrationsQueued /\ BehindScan /\ BehindEnd
  BY <1>1 DEF OpenAhead, RegistrationsQueued, BehindScan, OthersWithin, BehindEnd
<1>3. BehindOpening /\ JustOpened /\ Working /\ ReportsInTurn /\ PendingReports
  BY <1>1 DEF BehindOpening, JustOpened, Working, ReportsInTurn, PendingReports
<1>4. OthersFit
  BY <1>1 DEF OthersFit
<1> QED
  BY <1>2, <1>3, <1>4 DEF QueueInv

LEMMA QueueCallback ==
  ASSUME TypeOK, TypeOK', RadioInv, QueueInv, Callback
  PROVE  QueueInv'
PROOF
<1>1. OpenAhead' /\ RegistrationsQueued'
  BY OpenAheadCallback, RegistrationsCallback DEF QueueInv
<1>2. BehindScan' /\ BehindEnd' /\ BehindOpening'
  BY BehindScanCallback, BehindEndCallback, BehindOpeningCallback DEF QueueInv
<1>3. JustOpened' /\ Working' /\ ReportsInTurn' /\ PendingReports'
  BY JustOpenedCallback, WorkingCallback, ReportsInTurnCallback, PendingReportsCallback DEF QueueInv
<1>4. OthersFit'
  BY OthersFitCallback DEF QueueInv
<1> QED
  BY <1>1, <1>2, <1>3, <1>4 DEF QueueInv

LEMMA QueueStack ==
  ASSUME TypeOK, TypeOK', RadioInv, RadioInv', QueueInv, StackNext
  PROVE  QueueInv'
PROOF
<1>a. QueueGrows
  BY QueueSteps
<1>1. OpenAhead'
  BY OpenAheadRegisters, StackSteps, OpenAheadStack DEF QueueInv
<1>2. RegistrationsQueued' /\ BehindScan' /\ BehindEnd' /\ BehindOpening'
  BY <1>a, RegistrationsStack, BehindScanStack, BehindEndStack, BehindOpeningStack
    DEF QueueInv
<1>3. JustOpened' /\ Working' /\ ReportsInTurn' /\ PendingReports'
  BY <1>a, JustOpenedStack, WorkingStack, ReportsInTurnStack, PendingReportsStack DEF QueueInv
<1>4. OthersFit'
  BY <1>a, <1>2, OthersFitStack DEF QueueInv
<1> QED
  BY <1>1, <1>2, <1>3, <1>4 DEF QueueInv

\* QueueInv is inductive, given that the radio is used for one thing at a time: what a
\* connection, its end and a scan report never comes on top of more than it allows.
THEOREM QueueInvariant == Spec => []QueueInv
PROOF
<1>1. Init => QueueInv
  BY QueueInit
<1>2. TypeOK /\ TypeOK' /\ RadioInv /\ RadioInv' /\ QueueInv /\ [Next]_vars => QueueInv'
  <2> SUFFICES ASSUME TypeOK, TypeOK', RadioInv, RadioInv', QueueInv, [Next]_vars PROVE QueueInv'
    OBVIOUS
  <2>1. CASE Callback
    BY <2>1, QueueCallback
  <2>2. CASE Outside(StackNext)
    BY <2>2, QueueStack DEF Outside
  <2>3. CASE UNCHANGED vars
    BY <2>3, QueueUnchanged
  <2> QED
    BY <2>1, <2>2, <2>3 DEF Next
<1> QED
  BY <1>1, <1>2, TypeCorrect, RadioInvariant, PTL DEF Spec

\* What is not a scan result is among the first N events or the last two.
LEMMA QueueFits ==
  ASSUME TypeOK, RadioInv, QueueInv
  PROVE  EventsFit
PROOF
<1> DEFINE others == {k \in DOMAIN evq : evq[k].type # "INQ_RES"}
           len == Len(evq)
<1>a. N \in Nat \ {0} /\ len \in Nat /\ DOMAIN evq = 1 .. len
  BY NAssumption DEF TypeOK, StackTypeOK
<1>1. Cardinality(others) <= 2 * N + 3
  <2>1. CASE ~Has("INQ_RES")
    <3>1. IsFiniteSet(1 .. len) /\ (len # 0 => Cardinality(1 .. len) = len)
      BY <1>a, FS_Interval
    <3>2. len = 0 => Cardinality(1 .. len) = 0
      BY <1>a, FS_Interval
    <3>3. others \subseteq 1 .. len
      BY <1>a
    <3> HIDE DEF others
    <3>4. Cardinality(others) <= Cardinality(1 .. len) /\ IsFiniteSet(others)
      BY <3>1, <3>3, FS_Subset
    <3>5. Cardinality(others) <= len
      BY <1>a, <3>1, <3>2, <3>4
    <3>6. len <= 2 * N + 3 /\ Cardinality(others) \in Nat
      BY <2>1, <3>4, FS_CardinalityType DEF QueueInv, OthersFit
    <3> QED
      BY <1>a, <3>5, <3>6
  <2>2. CASE Has("INQ_RES")
    <3> DEFINE most == (1 .. N \cup {len - 1}) \cup {len}
    <3>1. \A k \in 1 .. len : evq[k].type \notin GapTypes => k <= N
      BY <2>2, Ordered DEF QueueInv, BehindScan, OthersWithin
    <3>2. ASSUME NEW k \in others PROVE k \in most
      <4>1. k \in 1 .. len /\ evq[k].type # "INQ_RES"
        BY <1>a
      <4>2. k \notin N + 1 .. len - 2
        BY <3>1, <4>1, Ordered, ScanTail
      <4> QED
        BY <1>a, <4>1, <4>2
    <3>3. IsFiniteSet(1 .. N) /\ Cardinality(1 .. N) = N
      BY <1>a, FS_Interval
    <3> DEFINE more == 1 .. N \cup {len - 1}
    <3>4. IsFiniteSet(more) /\ Cardinality(more) \in {N, N + 1}
      BY <3>3, FS_AddElement
    <3>5. IsFiniteSet(most) /\ Cardinality(most) \in {N, N + 1, N + 2}
      <4>1. most = more \cup {len}
        OBVIOUS
      <4> HIDE DEF more, most
      <4>2. IsFiniteSet(most) /\ Cardinality(most) \in {Cardinality(more), Cardinality(more) + 1}
        BY <3>4, <4>1, FS_AddElement
      <4> QED
        BY <1>a, <3>4, <4>2
    <3>6. others \subseteq most
      BY <3>2
    <3> HIDE DEF others, more, most
    <3>7. Cardinality(others) <= Cardinality(most) /\ IsFiniteSet(others)
      BY <3>5, <3>6, FS_Subset
    <3>8. Cardinality(others) \in Nat
      BY <3>7, FS_CardinalityType
    <3> QED
      BY <1>a, <3>5, <3>7, <3>8
  <2> QED
    BY <2>1, <2>2
<1>2. \A i \in Apps : link[i] # "down" => Len(evq) <= N + 2
  BY LinkFits DEF QueueInv
<1> QED
  BY <1>1, <1>2 DEF EventsFit

\* However long a callback takes, whatever fails meanwhile and however many scan results
\* the stack reports, no more than 2 * N + 3 other events wait for the callbacks, and no
\* more than N + 2 in all once a connection is attempted.
THEOREM QueueBounded == Spec => []EventsFit
PROOF
<1>1. TypeOK /\ RadioInv /\ QueueInv => EventsFit
  BY QueueFits
<1> QED
  BY <1>1, TypeCorrect, RadioInvariant, QueueInvariant, PTL
=============================================================================
