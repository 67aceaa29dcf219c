-------------------------- MODULE EdgeDeviceProofs --------------------------
(***************************************************************************)
(* Theorems about the edge device, for every number of changes of what is  *)
(* measured and whatever fails: its safety properties, and that each of    *)
(* its steps is one of the remote the hub relies on, or a stutter.         *)
(***************************************************************************)
EXTENDS EdgeDevice, SequenceTheorems, TLAPS

-----------------------------------------------------------------------------
(* The inductive invariant.  What is queued tells how far the set-up or    *)
(* the connection has got; what is stored, copied and answered is ordered  *)
(* by age.                                                                 *)

SetupEvents == {"REG", "CREATE", "ADD_CHAR", "ADD_CHAR_DESCR", "ADV_DATA_SET_COMPLETE"}

SettingUp ==
  /\ ~link /\ ~adv /\ request = "none" /\ gatts_if = 0
  /\ \E e \in SetupEvents : evq = <<e>>

Advertising ==
  /\ ~link /\ adv /\ request = "none" /\ gatts_if = 0
  /\ evq = <<>>

Connected ==
  /\ link /\ ~adv
  /\ \/ gatts_if = 0 /\ request = "none" /\ evq = <<"CONNECT">>
     \/ gatts_if = 0 /\ request # "none" /\ evq = <<"CONNECT", request>>
     \/ gatts_if = 1 /\ request = "none" /\ evq = <<>>
     \/ gatts_if = 1 /\ request # "none" /\ evq = <<request>>

Ended ==
  /\ ~link /\ ~adv /\ request = "none"
  /\ \/ gatts_if = 0 /\ evq = <<"CONNECT", "DISCONNECT">>
     \/ gatts_if = 0 /\ \E r \in Requests : evq = <<"CONNECT", r, "DISCONNECT">>
     \/ gatts_if = 1 /\ evq = <<"DISCONNECT">>
     \/ gatts_if = 1 /\ \E r \in Requests : evq = <<r, "DISCONNECT">>

Phases == SettingUp \/ Advertising \/ Connected \/ Ended

\* A copy is under way only while the READ it serves is at the head.
Copying == copied # Nothing => evq # <<>> /\ Head(evq) = "read"

\* From the answers to what is measured, nothing is older than what comes before.
Ages ==
  /\ answer[1] <= attr_val /\ answer[2] <= attr_val
  /\ copied # Nothing => answer[1] <= copied /\ copied <= attr_val
  /\ attr_val <= now /\ res <= now
  /\ sampler = "test" /\ rc = 0 => attr_val <= res
  /\ sampler = "store" => attr_val <= res

EdgeInv == EdgeTypeOK /\ Phases /\ Copying /\ Ages

-----------------------------------------------------------------------------

(* Queues of up to three events.                                           *)

LEMMA One == \A a : <<a>> # <<>> /\ Head(<<a>>) = a /\ Tail(<<a>>) = <<>>
OBVIOUS

LEMMA Two == \A a, b : <<a, b>> # <<>> /\ Head(<<a, b>>) = a /\ Tail(<<a, b>>) = <<b>>
OBVIOUS

LEMMA Three ==
  \A a, b, c : <<a, b, c>> # <<>> /\ Head(<<a, b, c>>) = a /\ Tail(<<a, b, c>>) = <<b, c>>
OBVIOUS

LEMMA ToNone == \A c : Append(<<>>, c) = <<c>>
OBVIOUS

LEMMA AppendIs ==
  ASSUME NEW S, NEW s \in Seq(S), NEW c \in S, NEW t \in Seq(S),
         Len(t) = Len(s) + 1, t[Len(s) + 1] = c, \A i \in 1 .. Len(s) : t[i] = s[i]
  PROVE  Append(s, c) = t
<1>1. Append(s, c) \in Seq(S) /\ Len(Append(s, c)) = Len(t)
  BY AppendProperties
<1>2. \A i \in 1 .. Len(t) : Append(s, c)[i] = t[i]
  BY AppendProperties
<1> QED BY <1>1, <1>2, SeqEqual

LEMMA ToOne == \A a, c \in EventTypes : Append(<<a>>, c) = <<a, c>>
<1> SUFFICES ASSUME NEW a \in EventTypes, NEW c \in EventTypes PROVE Append(<<a>>, c) = <<a, c>>
  OBVIOUS
<1> DEFINE s == <<a>>
           t == <<a, c>>
<1>1. s \in Seq(EventTypes) /\ Len(s) = 1 /\ s[1] = a
  OBVIOUS
<1>2. t \in Seq(EventTypes) /\ Len(t) = 2 /\ t[1] = a /\ t[2] = c
  OBVIOUS
<1> HIDE DEF s, t
<1>3. \A i \in 1 .. Len(s) : t[i] = s[i]
  BY <1>1, <1>2
<1>4. Len(t) = Len(s) + 1 /\ t[Len(s) + 1] = c
  BY <1>1, <1>2
<1>5. Append(s, c) = t
  BY <1>1, <1>2, <1>3, <1>4, AppendIs, Zenon
<1> QED BY <1>5 DEF s, t

LEMMA ToTwo == \A a, b, c \in EventTypes : Append(<<a, b>>, c) = <<a, b, c>>
<1> SUFFICES ASSUME NEW a \in EventTypes, NEW b \in EventTypes, NEW c \in EventTypes
             PROVE  Append(<<a, b>>, c) = <<a, b, c>>
  OBVIOUS
<1> DEFINE s == <<a, b>>
           t == <<a, b, c>>
<1>1. s \in Seq(EventTypes) /\ Len(s) = 2 /\ s[1] = a /\ s[2] = b
  OBVIOUS
<1>2. t \in Seq(EventTypes) /\ Len(t) = 3 /\ t[1] = a /\ t[2] = b /\ t[3] = c
  OBVIOUS
<1> HIDE DEF s, t
<1>3. \A i \in 1 .. Len(s) : t[i] = s[i]
  BY <1>1, <1>2
<1>4. Len(t) = Len(s) + 1 /\ t[Len(s) + 1] = c
  BY <1>1, <1>2
<1>5. Append(s, c) = t
  BY <1>1, <1>2, <1>3, <1>4, AppendIs, Zenon
<1> QED BY <1>5 DEF s, t

-----------------------------------------------------------------------------

\* A task's step is none of the Bluetooth task, the radio or the central.
TaskStep ==
  StartTasks \/ Sample \/ SampleFails \/ TestConnected \/ StoreReading
  \/ NotifyTest \/ NotifySend \/ Changes

\* The tasks touch neither the queue nor the link.
LEMMA TasksKeepPhase == TaskStep => UNCHANGED <<gattVars, stackVars>>
BY DEF TaskStep, StartTasks, Sample, SampleFails, TestConnected, StoreReading, NotifyTest,
  NotifySend, Changes

LEMMA InitInv == EdgeInit => EdgeInv
<1> SUFFICES ASSUME EdgeInit PROVE EdgeInv
  OBVIOUS
<1> USE EdgeAssumption DEF EdgeInit, Statics, Placeholder, Nothing, Readings
<1>1. EdgeTypeOK
  <2>1. evq \in Seq(EventTypes) /\ Len(evq) <= 3
    BY DEF EventTypes
  <2>2. answer \in ({Nothing, Placeholder} \cup Readings) \X ({Nothing, Placeholder} \cup Readings)
    OBVIOUS
  <2>3. created \subseteq Attributes /\ request \in {"none"} \cup Requests
    OBVIOUS
  <2>4. now \in Readings
    OBVIOUS
  <2> QED BY <2>1, <2>2, <2>3, <2>4 DEF EdgeTypeOK
<1>2. Phases
  BY DEF Phases, SettingUp, SetupEvents
<1>3. Copying /\ Ages
  BY DEF Copying, Ages
<1> QED BY <1>1, <1>2, <1>3 DEF EdgeInv

\* What the event at the head tells of the phase.
LEMMA HeadTells ==
  ASSUME EdgeInv, evq # <<>>
  PROVE  /\ \A e \in SetupEvents : Head(evq) = e => SettingUp /\ evq = <<e>>
         /\ Head(evq) = "CONNECT" =>
              /\ gatts_if = 0
              /\ \/ Connected /\ (evq = <<"CONNECT">> \/ evq = <<"CONNECT", request>>)
                 \/ Ended
         /\ Head(evq) = "DISCONNECT" => Ended /\ gatts_if = 1 /\ evq = <<"DISCONNECT">>
         /\ Head(evq) \in Requests =>
              /\ gatts_if = 1
              /\ \/ Connected /\ request # "none" /\ evq = <<request>>
                 \/ Ended /\ evq = <<Head(evq), "DISCONNECT">>
<1> USE DEF EdgeInv, Requests, WriteRequests
<1>1. CASE SettingUp
  BY <1>1, One DEF SettingUp, SetupEvents
<1>2. CASE Advertising
  BY <1>2 DEF Advertising
<1>3. CASE Connected
  BY <1>3, One, Two DEF Connected, EdgeTypeOK, SetupEvents
<1>4. CASE Ended
  BY <1>4, One, Two, Three DEF Ended, SetupEvents
<1> QED BY <1>1, <1>2, <1>3, <1>4 DEF Phases

\* The phases follow each other as the events of the queue say.
LEMMA PhaseStep == EdgeInv /\ Next => Phases'
<1> SUFFICES ASSUME EdgeInv, Next PROVE Phases'
  OBVIOUS
<1> USE DEF Handling, Call, stackVars
<1>1. CASE HandleReg \/ HandleCreate \/ HandleAddChar \/ HandleAddCharDescr
  <2>1. PICK e \in SetupEvents, d \in SetupEvents :
          Head(evq) = e /\ evq # <<>> /\ evq' = Append(Tail(evq), d)
    BY <1>1 DEF HandleReg, HandleCreate, HandleAddChar, HandleAddCharDescr, SetupEvents
  <2>2. SettingUp /\ evq' = <<d>>
    BY <2>1, HeadTells, One, ToNone
  <2>3. ~link' /\ ~adv' /\ request' = "none" /\ gatts_if' = 0
    BY <1>1, <2>2 DEF HandleReg, HandleCreate, HandleAddChar, HandleAddCharDescr, SettingUp
  <2> QED BY <2>2, <2>3 DEF Phases, SettingUp
<1>5. CASE HandleAdvDataSet
  BY <1>5, HeadTells, One DEF HandleAdvDataSet, Phases, SettingUp, SetupEvents, Advertising
<1>6. CASE HandleConnect
  <2> USE <1>6 DEF HandleConnect
  <2>1. CASE Connected
    <3>1. gatts_if = 0 /\ evq' = Tail(evq)
      BY HeadTells
    <3>2. /\ evq = <<"CONNECT">> => Tail(evq) = <<>>
          /\ evq = <<"CONNECT", request>> => Tail(evq) = <<request>>
      BY One, Two, Zenon
    <3>3. IF request = "none" THEN evq' = <<>> ELSE evq' = <<request>>
      BY <2>1, <3>1, <3>2 DEF Connected
    <3> QED BY <2>1, <3>3 DEF Phases, Connected
  <2>2. CASE Ended
    <3>1. gatts_if = 0 /\ evq' = Tail(evq)
      BY HeadTells
    <3>2. evq = <<"CONNECT", "DISCONNECT">> => Tail(evq) = <<"DISCONNECT">>
      BY Two, Zenon
    <3>3. ASSUME NEW r \in Requests, evq = <<"CONNECT", r, "DISCONNECT">>
          PROVE  Tail(evq) = <<r, "DISCONNECT">>
      BY <3>3, Three, Zenon
    <3>4. evq' = <<"DISCONNECT">> \/ \E r \in Requests : evq' = <<r, "DISCONNECT">>
      BY <2>2, <3>1, <3>2, <3>3 DEF Ended
    <3> QED BY <2>2, <3>4 DEF Phases, Ended
  <2> QED BY <2>1, <2>2, HeadTells
<1>7. CASE HandleReadLow
  BY <1>7 DEF EdgeInv, HandleReadLow, Phases, SettingUp, Advertising, Connected, Ended
<1>8. CASE HandleReadHigh \/ HandleWrite
  <2>1. /\ evq # <<>> /\ Head(evq) \in Requests /\ evq' = Tail(evq) /\ request' = "none"
        /\ UNCHANGED <<gatts_if, created, link, adv>>
    BY <1>8 DEF HandleReadHigh, HandleWrite, Requests
  <2>2. CASE Connected
    <3>1. gatts_if = 1 /\ evq' = <<>>
      BY <2>1, <2>2, HeadTells, One DEF Connected, Ended
    <3> QED BY <2>1, <2>2, <3>1 DEF Phases, Connected
  <2>3. CASE Ended
    <3>1. gatts_if = 1 /\ evq' = <<"DISCONNECT">>
      BY <2>1, <2>3, HeadTells, Two DEF Connected, Ended
    <3> QED BY <2>1, <2>3, <3>1 DEF Phases, Ended
  <2> QED BY <2>1, <2>2, <2>3, HeadTells
<1>9. CASE HandleDisconnect
  BY <1>9, HeadTells, One DEF HandleDisconnect, Phases, Ended, Advertising
<1>10. CASE CentralConnects
  <2>1. Advertising
    BY <1>10 DEF EdgeInv, CentralConnects, Phases, SettingUp, Connected, Ended
  <2> QED BY <1>10, <2>1, ToNone DEF CentralConnects, Phases, Advertising, Connected
<1>11. CASE \E r \in Requests : CentralAsks(r)
  <2>1. Connected
    BY <1>11 DEF EdgeInv, CentralAsks, Phases, SettingUp, Advertising, Ended
  <2>2. "CONNECT" \in EventTypes /\ Requests \subseteq EventTypes /\ "none" \notin Requests
    BY DEF EventTypes, Requests, WriteRequests
  <2> PICK r \in Requests : CentralAsks(r)
    BY <1>11
  <2>3. /\ evq = <<>> => Append(evq, r) = <<r>>
        /\ evq = <<"CONNECT">> => Append(evq, r) = <<"CONNECT", r>>
    <3>1. r \in EventTypes
      BY <2>2
    <3> QED BY <2>2, <3>1, ToNone, ToOne, Zenon
  <2>4. IF gatts_if = 0 THEN evq' = <<"CONNECT", r>> ELSE evq' = <<r>>
    BY <2>1, <2>3 DEF CentralAsks, Connected
  <2> QED BY <2>1, <2>2, <2>4 DEF CentralAsks, Phases, Connected
<1>12. CASE LinkEnds
  <2>1. Connected
    BY <1>12 DEF EdgeInv, LinkEnds, Phases, SettingUp, Advertising, Ended
  <2>2. /\ "CONNECT" \in EventTypes /\ "DISCONNECT" \in EventTypes
        /\ request # "none" => request \in Requests /\ request \in EventTypes
    BY DEF EventTypes, EdgeInv, EdgeTypeOK
  <2>3. CASE request = "none"
    <3>1. /\ evq = <<>> => Append(evq, "DISCONNECT") = <<"DISCONNECT">>
          /\ evq = <<"CONNECT">> => Append(evq, "DISCONNECT") = <<"CONNECT", "DISCONNECT">>
      BY <2>2, ToNone, ToOne, Zenon
    <3>2. IF gatts_if = 0 THEN evq' = <<"CONNECT", "DISCONNECT">> ELSE evq' = <<"DISCONNECT">>
      BY <1>12, <2>1, <2>3, <3>1 DEF LinkEnds, Connected
    <3> QED BY <1>12, <2>1, <3>2 DEF LinkEnds, Phases, Connected, Ended
  <2>4. CASE request # "none"
    <3>1. /\ evq = <<request>> => Append(evq, "DISCONNECT") = <<request, "DISCONNECT">>
          /\ evq = <<"CONNECT", request>> =>
               Append(evq, "DISCONNECT") = <<"CONNECT", request, "DISCONNECT">>
      BY <2>2, <2>4, ToOne, ToTwo, Zenon
    <3>2. IF gatts_if = 0 THEN evq' = <<"CONNECT", request, "DISCONNECT">>
                          ELSE evq' = <<request, "DISCONNECT">>
      BY <1>12, <2>1, <2>4, <3>1 DEF LinkEnds, Connected
    <3> QED BY <1>12, <2>1, <2>2, <2>4, <3>2 DEF LinkEnds, Phases, Connected, Ended
  <2> QED BY <2>3, <2>4
<1>13. CASE TaskStep
  BY <1>13, TasksKeepPhase DEF EdgeInv, gattVars, Phases, SettingUp, Advertising,
    Connected, Ended
<1> QED
  BY <1>1, <1>5, <1>6, <1>7, <1>8, <1>9, <1>10, <1>11, <1>12, <1>13
    DEF Next, Callback, TaskStep

LEMMA CopyingStep == EdgeInv /\ Next => Copying'
<1> SUFFICES ASSUME EdgeInv, Next PROVE Copying'
  OBVIOUS
<1> USE DEF EdgeInv, Copying, Handling, Call
<1>1. CASE HandleReadLow
  BY <1>1 DEF HandleReadLow
<1>2. CASE HandleReadHigh
  BY <1>2 DEF HandleReadHigh
<1>3. CASE \/ HandleReg \/ HandleCreate \/ HandleAddChar \/ HandleAddCharDescr \/ HandleAdvDataSet
           \/ HandleConnect \/ HandleWrite \/ HandleDisconnect
  <2>1. Head(evq) # "read" /\ UNCHANGED copied
    BY <1>3 DEF HandleReg, HandleCreate, HandleAddChar, HandleAddCharDescr, HandleAdvDataSet,
      HandleConnect, HandleWrite, HandleDisconnect, WriteRequests
  <2> QED BY <2>1
<1>4. CASE CentralConnects \/ LinkEnds \/ \E r \in Requests : CentralAsks(r)
  <2>1. UNCHANGED copied /\ \E e \in EventTypes : evq' = Append(evq, e)
    BY <1>4 DEF CentralConnects, LinkEnds, CentralAsks, EventTypes
  <2>2. evq \in Seq(EventTypes)
    BY DEF EdgeTypeOK
  <2>3. evq # <<>> => evq' # <<>> /\ Head(evq') = Head(evq)
    BY <2>1, <2>2, HeadTailAppend, AppendProperties
  <2> QED BY <2>1, <2>3
<1>5. CASE TaskStep
  BY <1>5, TasksKeepPhase DEF gattVars
<1> QED
  BY <1>1, <1>2, <1>3, <1>4, <1>5 DEF Next, Callback, TaskStep

LEMMA Tuples ==
  \A a, b, c \in EventTypes :
    /\ <<a>> \in Seq(EventTypes) /\ Len(<<a>>) <= 3
    /\ <<a, b>> \in Seq(EventTypes) /\ Len(<<a, b>>) <= 3
    /\ <<a, b, c>> \in Seq(EventTypes) /\ Len(<<a, b, c>>) <= 3
OBVIOUS

LEMMA NoTuple == <<>> \in Seq(EventTypes) /\ Len(<<>>) <= 3
OBVIOUS

Typed(q) == q \in Seq(EventTypes) /\ Len(q) <= 3

\* A queue as the phases have it is typed and short.
LEMMA QueueTyped == Phases /\ request \in {"none"} \cup Requests => Typed(evq)
<1> SUFFICES ASSUME Phases, request \in {"none"} \cup Requests
             PROVE  Typed(evq)
  OBVIOUS
<1>1. /\ {"REG", "CREATE", "ADD_CHAR", "ADD_CHAR_DESCR", "ADV_DATA_SET_COMPLETE", "CONNECT",
           "DISCONNECT"} \subseteq EventTypes
      /\ Requests \subseteq EventTypes /\ "none" \notin Requests
  BY DEF EventTypes, Requests, WriteRequests
<1>2. Typed(<<>>)
  BY NoTuple DEF Typed
<1>3. \A a, b, c \in EventTypes : Typed(<<a>>) /\ Typed(<<a, b>>) /\ Typed(<<a, b, c>>)
  BY Tuples, Zenon DEF Typed
<1>4. CASE SettingUp
  <2>1. PICK e \in SetupEvents : evq = <<e>>
    BY <1>4 DEF SettingUp
  <2>2. e \in EventTypes
    BY DEF SetupEvents, EventTypes
  <2> QED BY <1>3, <2>1, <2>2
<1>5. CASE Advertising
  BY <1>2, <1>5 DEF Advertising
<1>6. CASE Connected
  <2>1. request # "none" => request \in EventTypes
    BY <1>1
  <2> QED BY <1>1, <1>2, <1>3, <1>6, <2>1 DEF Connected
<1>7. CASE Ended
  BY <1>1, <1>3, <1>7 DEF Ended
<1> QED BY <1>4, <1>5, <1>6, <1>7 DEF Phases

LEMMA TypeStep == EdgeInv /\ Next => EdgeTypeOK'
<1> SUFFICES ASSUME EdgeInv, Next PROVE EdgeTypeOK'
  OBVIOUS
<1>t. EdgeTypeOK /\ Phases
  BY DEF EdgeInv
<1>1. (request \in {"none"} \cup Requests)'
  BY <1>t DEF EdgeTypeOK, Next, Callback, HandleReg, HandleCreate, HandleAddChar,
    HandleAddCharDescr, HandleAdvDataSet, HandleConnect, HandleReadLow, HandleReadHigh,
    HandleWrite, HandleDisconnect, StartTasks, Sample, SampleFails, TestConnected, StoreReading,
    NotifyTest, NotifySend, CentralConnects, LinkEnds, CentralAsks, Changes, stackVars
<1>2. Phases'
  BY PhaseStep
<1>3. Typed(evq)'
  BY <1>1, <1>2, QueueTyped, PTL
<1>4. /\ gatts_if' \in {0, 1} /\ created' \subseteq Attributes
  <2>1. gatts_if' \in {0, 1}
    BY <1>2 DEF Phases, SettingUp, Advertising, Connected, Ended
  <2>2. created' = created \/ \E a \in Attributes : created' = created \cup {a}
    BY TasksKeepPhase DEF Next, Callback, HandleReg, HandleCreate, HandleAddChar,
      HandleAddCharDescr, HandleAdvDataSet, HandleConnect, HandleReadLow, HandleReadHigh,
      HandleWrite, HandleDisconnect, CentralConnects, LinkEnds, CentralAsks, TaskStep, gattVars,
      Reports, Attributes
  <2> QED BY <2>1, <2>2 DEF EdgeInv, EdgeTypeOK
<1>5. CASE Callback
  <2>1. UNCHANGED <<samplerVars, notifier, now>>
    BY <1>5 DEF Callback, HandleReg, HandleCreate, HandleAddChar, HandleAddCharDescr,
      HandleAdvDataSet, HandleConnect, HandleReadLow, HandleReadHigh, HandleWrite,
      HandleDisconnect, Handling
  <2>2. link' \in BOOLEAN /\ adv' \in BOOLEAN /\ attr_val' = attr_val
    BY <1>t, <1>5 DEF EdgeTypeOK, Callback, HandleReg, HandleCreate, HandleAddChar,
      HandleAddCharDescr, HandleAdvDataSet, HandleConnect, HandleReadLow, HandleReadHigh,
      HandleWrite, HandleDisconnect, stackVars
  <2>3. \/ copied' = copied /\ answer' = answer
        \/ copied' = attr_val /\ answer' = answer
        \/ /\ copied' = Nothing
           /\ answer' = answer \/ answer' = <<copied, attr_val>>
    BY <1>5 DEF Callback, HandleReg, HandleCreate, HandleAddChar, HandleAddCharDescr,
      HandleAdvDataSet, HandleConnect, HandleReadLow, HandleReadHigh, HandleWrite,
      HandleDisconnect, stackVars
  <2>4. copied' \in {Nothing, Placeholder} \cup Readings
    BY <1>t, <2>3 DEF EdgeTypeOK
  <2>5. answer' \in ({Nothing, Placeholder} \cup Readings) \X ({Nothing, Placeholder} \cup Readings)
    BY <1>t, <2>3 DEF EdgeTypeOK
  <2> QED BY <1>t, <1>1, <1>3, <1>4, <2>1, <2>2, <2>4, <2>5 DEF EdgeTypeOK, Typed, samplerVars
<1>6. CASE TaskStep
  <2>1. UNCHANGED <<gattVars, stackVars>>
    BY <1>6, TasksKeepPhase
  <2>2. /\ initialized' \in BOOLEAN /\ sampler' \in {"off", "delay", "test", "store"}
        /\ rc' \in {0, -1} /\ notifier' \in {"off", "delay", "send"}
        /\ res' \in {res, now}
    BY <1>t, <1>6 DEF EdgeTypeOK, TaskStep, StartTasks, SensorStarts, Sample, SampleFails,
      TestConnected, StoreReading, NotifyTest, NotifySend, Changes, samplerVars
  <2>3. now' = now \/ (now < MaxChange /\ now' = now + 1)
    BY <1>6 DEF TaskStep, StartTasks, Sample, SampleFails, TestConnected, StoreReading,
      NotifyTest, NotifySend, Changes
  <2>4. attr_val' = attr_val \/ (attr_val <= res /\ attr_val' = res)
    BY <1>6 DEF EdgeInv, Ages, TaskStep, StartTasks, Sample, SampleFails, TestConnected,
      StoreReading, NotifyTest, NotifySend, Changes
  <2>5. now' \in Readings
    BY <1>t, <2>3, EdgeAssumption DEF EdgeTypeOK, Readings
  <2>6. attr_val' \in {Placeholder} \cup Readings
    BY <1>t, <2>4, EdgeAssumption DEF EdgeTypeOK, Readings, Placeholder, Nothing
  <2>7. res' \in {Nothing} \cup Readings
    BY <1>t, <2>2 DEF EdgeTypeOK
  <2>8. /\ link' \in BOOLEAN /\ adv' \in BOOLEAN
        /\ copied' \in {Nothing, Placeholder} \cup Readings
        /\ answer' \in ({Nothing, Placeholder} \cup Readings) \X ({Nothing, Placeholder} \cup Readings)
    BY <1>t, <2>1 DEF EdgeTypeOK, gattVars, stackVars
  <2> QED BY <1>1, <1>3, <1>4, <2>2, <2>5, <2>6, <2>7, <2>8 DEF EdgeTypeOK, Typed
<1>7. CASE CentralConnects \/ LinkEnds \/ \E r \in Requests : CentralAsks(r)
  <2>1. /\ UNCHANGED <<copied, attr_val, samplerVars, notifier, now, answer>>
        /\ link' \in BOOLEAN /\ adv' \in BOOLEAN
    BY <1>t, <1>7 DEF EdgeTypeOK, CentralConnects, LinkEnds, CentralAsks
  <2> QED BY <1>t, <1>1, <1>3, <1>4, <2>1 DEF EdgeTypeOK, Typed, samplerVars
<1> QED BY <1>5, <1>6, <1>7 DEF Next, TaskStep

\* Readings are kept, copied and answered in the order they were taken.
LEMMA AgesStep == EdgeInv /\ Next => Ages'
<1> SUFFICES ASSUME EdgeInv, Next PROVE Ages'
  OBVIOUS
<1>t. EdgeTypeOK /\ Ages
  BY DEF EdgeInv
<1>n. /\ attr_val \in Int /\ res \in Int /\ now \in Int /\ copied \in Int
      /\ answer[1] \in Int /\ answer[2] \in Int /\ Nothing = -1
  BY <1>t, EdgeAssumption DEF EdgeTypeOK, Readings, Placeholder, Nothing
<1> USE DEF Ages
<1>1. CASE HandleReadLow
  <2>1. copied' = attr_val
    BY <1>1 DEF HandleReadLow
  <2>2. UNCHANGED <<answer, attr_val, samplerVars, now>>
    BY <1>1 DEF HandleReadLow, Handling, stackVars
  <2> QED BY <1>t, <1>n, <2>1, <2>2 DEF samplerVars
<1>2. CASE HandleReadHigh
  <2>1. copied # Nothing /\ copied' = Nothing /\ UNCHANGED <<attr_val, samplerVars, now>>
    BY <1>2 DEF HandleReadHigh, Handling
  <2>2. answer' = answer \/ answer' = <<copied, attr_val>>
    BY <1>2 DEF HandleReadHigh
  <2>3. answer'[1] <= attr_val /\ answer'[2] <= attr_val
    BY <1>t, <1>n, <2>1, <2>2
  <2> QED BY <1>t, <1>n, <2>1, <2>3 DEF samplerVars
<1>3. CASE \/ HandleReg \/ HandleCreate \/ HandleAddChar \/ HandleAddCharDescr \/ HandleAdvDataSet
           \/ HandleConnect \/ HandleWrite \/ HandleDisconnect
           \/ CentralConnects \/ LinkEnds \/ \E r \in Requests : CentralAsks(r)
  <2>1. UNCHANGED <<copied, answer, attr_val, samplerVars, now>>
    BY <1>3 DEF HandleReg, HandleCreate, HandleAddChar, HandleAddCharDescr, HandleAdvDataSet,
      HandleConnect, HandleWrite, HandleDisconnect, CentralConnects, LinkEnds, CentralAsks,
      Handling, stackVars
  <2> QED BY <1>t, <2>1 DEF samplerVars
<1>4. CASE TaskStep
  <2>1. UNCHANGED <<copied, answer>>
    BY <1>4, TasksKeepPhase DEF gattVars, stackVars
  <2>2. CASE Sample
    BY <1>t, <1>n, <2>1, <2>2 DEF Sample
  <2>3. CASE SampleFails
    BY <1>t, <2>1, <2>3 DEF SampleFails
  <2>4. CASE TestConnected
    BY <1>t, <2>1, <2>4 DEF TestConnected
  <2>5. CASE StoreReading
    BY <1>t, <1>n, <2>1, <2>5 DEF StoreReading
  <2>6. CASE Changes
    BY <1>t, <1>n, <2>1, <2>6 DEF Changes, samplerVars
  <2>7. CASE StartTasks
    BY <1>t, <2>1, <2>7 DEF StartTasks
  <2>8. CASE NotifyTest \/ NotifySend
    BY <1>t, <2>1, <2>8 DEF NotifyTest, NotifySend, samplerVars
  <2> QED BY <1>4, <2>2, <2>3, <2>4, <2>5, <2>6, <2>7, <2>8 DEF TaskStep
<1> QED BY <1>1, <1>2, <1>3, <1>4 DEF Next, Callback, TaskStep

LEMMA StutterInv == EdgeInv /\ UNCHANGED vars => EdgeInv'
BY DEF EdgeInv, EdgeTypeOK, Phases, SettingUp, Advertising, Connected, Ended, Copying,
  Ages, vars, gattVars, samplerVars, stackVars

-----------------------------------------------------------------------------

\* Whatever the order of events, tasks, failures and changes, what is queued for
\* the Bluetooth task (evq) tells the phase gatt_handler and gap_handler are in,
\* and attr_val, the copy READ makes of it and the answers are ordered by age.
THEOREM EdgeInvariant == EdgeSpec => []EdgeInv
<1>1. EdgeInit => EdgeInv
  BY InitInv
<1>2. EdgeInv /\ [Next]_vars => EdgeInv'
  BY TypeStep, PhaseStep, CopyingStep, AgesStep, StutterInv DEF EdgeInv
<1> QED BY <1>1, <1>2, PTL DEF EdgeSpec

\* service_def, attr_val, the locals of the tasks and the queue of events keep
\* their types; no more than three events ever wait for the Bluetooth task.
THEOREM EdgeTypes == EdgeSpec => []EdgeTypeOK
BY EdgeInvariant, PTL DEF EdgeInv

Holds(q, e) == \E k \in DOMAIN q : q[k] = e

\* What queues of up to three events hold.
LEMMA HeldByNone == \A e : ~Holds(<<>>, e)
BY DEF Holds

LEMMA HeldByOne == \A a, e : Holds(<<a>>, e) <=> a = e
<1> SUFFICES ASSUME NEW a, NEW e PROVE Holds(<<a>>, e) <=> a = e
  OBVIOUS
<1>1. DOMAIN <<a>> = {1} /\ <<a>>[1] = a
  OBVIOUS
<1> QED BY <1>1, Zenon DEF Holds

LEMMA HeldByTwo == \A a, b, e : Holds(<<a, b>>, e) <=> a = e \/ b = e
<1> SUFFICES ASSUME NEW a, NEW b, NEW e PROVE Holds(<<a, b>>, e) <=> a = e \/ b = e
  OBVIOUS
<1>1. DOMAIN <<a, b>> = {1, 2} /\ <<a, b>>[1] = a /\ <<a, b>>[2] = b
  OBVIOUS
<1> QED BY <1>1, Zenon DEF Holds

LEMMA HeldByThree == \A a, b, c, e : Holds(<<a, b, c>>, e) <=> a = e \/ b = e \/ c = e
<1> SUFFICES ASSUME NEW a, NEW b, NEW c, NEW e
             PROVE  Holds(<<a, b, c>>, e) <=> a = e \/ b = e \/ c = e
  OBVIOUS
<1>1. /\ DOMAIN <<a, b, c>> = {1, 2, 3}
      /\ <<a, b, c>>[1] = a /\ <<a, b, c>>[2] = b /\ <<a, b, c>>[3] = c
  OBVIOUS
<1> QED BY <1>1, Zenon DEF Holds

\* gatts_if, which read_temp_task and notify_task test without a lock, tells
\* whether a central is linked, up to the CONNECT or DISCONNECT that gatt_handler
\* has still to handle.
THEOREM InterfaceTruthful == EdgeSpec => []InterfaceMatches
<1>1. EdgeInv => InterfaceMatches
  <2> SUFFICES ASSUME EdgeInv PROVE InterfaceMatches
    OBVIOUS
  <2>1. \A e : QueuedEvent(e) <=> Holds(evq, e)
    BY Zenon DEF QueuedEvent, Holds
  <2>2. "CONNECT" \notin Requests /\ "DISCONNECT" \notin Requests
    BY DEF Requests, WriteRequests
  <2> DEFINE C == QueuedEvent("CONNECT")
             D == QueuedEvent("DISCONNECT")
  <2> HIDE DEF C, D
  <2>h. \A q : evq = q => (C <=> Holds(q, "CONNECT")) /\ (D <=> Holds(q, "DISCONNECT"))
    BY <2>1, Zenon DEF C, D
  <2>3. evq = <<>> => ~C /\ ~D
    BY <2>h, HeldByNone, Zenon
  <2>4. ASSUME NEW a, evq = <<a>> PROVE (C <=> a = "CONNECT") /\ (D <=> a = "DISCONNECT")
    <3>1. (C <=> Holds(<<a>>, "CONNECT")) /\ (D <=> Holds(<<a>>, "DISCONNECT"))
      BY <2>4, <2>h, Zenon
    <3> QED BY <3>1, HeldByOne, Zenon
  <2>5. ASSUME NEW a, NEW b, evq = <<a, b>>
        PROVE  (C <=> a = "CONNECT" \/ b = "CONNECT") /\ (D <=> a = "DISCONNECT" \/ b = "DISCONNECT")
    <3>1. (C <=> Holds(<<a, b>>, "CONNECT")) /\ (D <=> Holds(<<a, b>>, "DISCONNECT"))
      BY <2>5, <2>h, Zenon
    <3> QED BY <3>1, HeldByTwo, Zenon
  <2>6. ASSUME NEW a, NEW b, NEW c, evq = <<a, b, c>>
        PROVE  C <=> a = "CONNECT" \/ b = "CONNECT" \/ c = "CONNECT"
    <3>1. C <=> Holds(<<a, b, c>>, "CONNECT")
      BY <2>6, <2>h, Zenon
    <3> QED BY <3>1, HeldByThree, Zenon
  <2>7. CASE SettingUp
    <3>1. evq = <<"REG">> \/ evq = <<"CREATE">> \/ evq = <<"ADD_CHAR">>
          \/ evq = <<"ADD_CHAR_DESCR">> \/ evq = <<"ADV_DATA_SET_COMPLETE">>
      BY <2>7, Zenon DEF SettingUp, SetupEvents
    <3>2. ~C /\ ~D
      BY <2>4, <3>1
    <3> QED BY <2>7, <3>2 DEF InterfaceMatches, SettingUp, C, D
  <2>8. CASE Advertising
    BY <2>3, <2>8 DEF InterfaceMatches, Advertising, C, D
  <2>9. CASE Connected
    <3>1. request # "none" => request # "CONNECT"
      BY <2>2 DEF EdgeInv, EdgeTypeOK
    <3>2. link /\ IF gatts_if = 0 THEN C ELSE gatts_if = 1 /\ ~C
      BY <2>3, <2>4, <2>5, <2>9, <3>1 DEF Connected
    <3> QED BY <3>2 DEF InterfaceMatches, C, D
  <2>10. CASE Ended
    <3>1. ~link /\ IF gatts_if = 0 THEN C ELSE gatts_if = 1 /\ D /\ ~C
      BY <2>2, <2>4, <2>5, <2>6, <2>10 DEF Ended
    <3> QED BY <3>1 DEF InterfaceMatches, C, D
  <2> QED BY <2>7, <2>8, <2>9, <2>10 DEF EdgeInv, Phases
<1> QED BY <1>1, EdgeInvariant, PTL

\* gap_handler starts advertising only when gatt_handler has had the last attribute
\* reported: the table of a device that can be found or is linked grows no more,
\* whichever attributes could not be created.
THEOREM TableSettled == EdgeSpec => TableFinal
<1> DEFINE Settled == adv \/ link => created' = created
<1>1. ASSUME EdgeInv, [Next]_vars PROVE [Settled]_vars
  <2>1. CASE HandleCreate \/ HandleAddChar \/ HandleAddCharDescr
    <3>1. SettingUp
      BY <1>1, <2>1, HeadTells DEF HandleCreate, HandleAddChar, HandleAddCharDescr, Handling,
        SetupEvents
    <3> QED BY <3>1 DEF SettingUp
  <2>2. CASE Next /\ ~(HandleCreate \/ HandleAddChar \/ HandleAddCharDescr)
    <3>1. UNCHANGED created
      BY <2>2, TasksKeepPhase DEF Next, Callback, HandleReg, HandleAdvDataSet, HandleConnect,
        HandleReadLow, HandleReadHigh, HandleWrite, HandleDisconnect, CentralConnects,
        LinkEnds, CentralAsks, TaskStep, gattVars
    <3> QED BY <3>1
  <2>3. CASE UNCHANGED vars
    BY <2>3
  <2> QED BY <1>1, <2>1, <2>2, <2>3
<1> QED BY <1>1, EdgeInvariant, PTL DEF EdgeSpec, TableFinal

\* However the copy READ makes and the store of read_temp_task fall, no byte of
\* an answer is older than that byte of the answer before.
THEOREM AnswersOrdered == EdgeSpec => AnswersNeverOlder
<1> DEFINE Newer == answer'[1] >= answer[1] /\ answer'[2] >= answer[2]
<1>1. ASSUME EdgeInv, [Next]_vars PROVE [Newer]_vars
  <2>1. CASE HandleReadHigh
    <3>1. answer' = answer \/ answer' = <<copied, attr_val>>
      BY <2>1 DEF HandleReadHigh
    <3>2. /\ attr_val \in Int /\ copied \in Int /\ answer[1] \in Int /\ answer[2] \in Int
      BY <1>1, EdgeAssumption DEF EdgeInv, EdgeTypeOK, Readings, Placeholder, Nothing
    <3>3. answer[1] <= copied /\ answer[2] <= attr_val
      BY <1>1, <2>1 DEF EdgeInv, Ages, HandleReadHigh
    <3> QED BY <3>1, <3>2, <3>3
  <2>2. CASE Next /\ ~HandleReadHigh
    <3>1. UNCHANGED answer
      BY <2>2, TasksKeepPhase DEF Next, Callback, HandleReg, HandleCreate, HandleAddChar,
        HandleAddCharDescr, HandleAdvDataSet, HandleConnect, HandleReadLow, HandleWrite,
        HandleDisconnect, CentralConnects, LinkEnds, CentralAsks, TaskStep, stackVars
    <3>2. answer[1] \in Int /\ answer[2] \in Int
      BY <1>1, EdgeAssumption DEF EdgeInv, EdgeTypeOK, Readings, Placeholder, Nothing
    <3> QED BY <3>1, <3>2
  <2>3. CASE UNCHANGED vars
    BY <2>3
  <2> QED BY <1>1, <2>1, <2>2, <2>3
<1> QED BY <1>1, EdgeInvariant, PTL DEF EdgeSpec, AnswersNeverOlder

\* The device is, step by step, what the hub's model takes a remote to be: it
\* advertises, gets linked, is asked one thing at a time, answers or loses the
\* link, and nothing else; that it comes back and answers is liveness.
THEOREM DeviceStepsAsRemote == EdgeSpec => Remote!Init /\ [][Remote!Next]_(Remote!vars)
<1> DEFINE Reach == IF link THEN "linked" ELSE IF adv THEN "advertising" ELSE "quiet"
           Asked == request # "none"
<1>1. EdgeInit => Remote!Init
  BY DEF EdgeInit, Remote!Init
<1>2. ASSUME EdgeInv, [Next]_vars PROVE [Remote!Next]_(Remote!vars)
  <2> SUFFICES ASSUME Next PROVE Remote!Next \/ UNCHANGED <<Reach, Asked>>
    BY <1>2 DEF Remote!vars, vars, stackVars
  <2>t. EdgeTypeOK /\ Phases /\ "none" \notin Requests
    BY <1>2 DEF EdgeInv, Requests, WriteRequests
  <2>1. CASE HandleAdvDataSet \/ HandleDisconnect
    <3>1. /\ ~link /\ ~adv /\ evq # <<>>
          /\ adv' /\ UNCHANGED <<link, request>>
      BY <1>2, <2>1, HeadTells DEF HandleAdvDataSet, HandleDisconnect, Handling, SettingUp,
        SetupEvents, Ended
    <3> QED BY <3>1 DEF Remote!Next, Remote!Advertise
  <2>2. CASE HandleReadHigh \/ HandleWrite
    <3>1. request' = "none" /\ UNCHANGED <<link, adv>>
      BY <2>2 DEF HandleReadHigh, HandleWrite
    <3> QED BY <3>1 DEF Remote!Next, Remote!Answer
  <2>3. CASE CentralConnects
    <3>1. ~link /\ adv /\ link' /\ ~adv' /\ UNCHANGED request
      BY <2>3, <2>t DEF CentralConnects, Phases, SettingUp, Advertising, Connected, Ended
    <3> QED BY <3>1 DEF Remote!Next, Remote!Connect
  <2>4. CASE LinkEnds
    <3>1. link /\ ~adv /\ ~link' /\ ~adv' /\ request' = "none"
      BY <2>4, <2>t DEF LinkEnds, Phases, SettingUp, Advertising, Connected, Ended
    <3> QED BY <3>1 DEF Remote!Next, Remote!Leave
  <2>5. CASE \E r \in Requests : CentralAsks(r)
    <3>1. link /\ request = "none" /\ request' # "none" /\ UNCHANGED <<link, adv>>
      BY <2>5, <2>t DEF CentralAsks
    <3> QED BY <3>1 DEF Remote!Next, Remote!Ask
  <2>6. CASE \/ HandleReg \/ HandleCreate \/ HandleAddChar \/ HandleAddCharDescr
             \/ HandleConnect \/ HandleReadLow \/ TaskStep
    <3>1. UNCHANGED <<link, adv, request>>
      BY <2>6, TasksKeepPhase DEF HandleReg, HandleCreate, HandleAddChar, HandleAddCharDescr,
        HandleConnect, HandleReadLow, stackVars
    <3> QED BY <3>1
  <2> QED BY <2>1, <2>2, <2>3, <2>4, <2>5, <2>6 DEF Next, Callback, TaskStep
<1> QED BY <1>1, <1>2, EdgeInvariant, PTL DEF EdgeSpec
=============================================================================
