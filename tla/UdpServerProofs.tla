-------------------------- MODULE UdpServerProofs --------------------------
(***************************************************************************)
(* The UDP server, for every period, width of the clock, queue and client: *)
(* a call ends in time, serves its whole period and closes what it opened. *)
(***************************************************************************)
EXTENDS UdpServer, SequenceTheorems, TLAPS

\* The clock, read at the call and now, gives the ticks in between: also when
\* the counter wraps once.
LEMMA ElapsedTicks ==
  ASSUME TimeInv, pc # "idle", served < Period + 2 * MaxBusy, Tick
  PROVE  Elapsed' = served + 1 /\ served' = served + 1
BY TimeAssumption DEF TimeInv, Tick, Elapsed, MaxServed

\* A timed part of the call leaves the clock alone.
ClockKept == tick' = tick /\ start' = start /\ served' = served

\* The invariant bounds a call.
LEMMA InTime ==
  ASSUME TimeInv
  PROVE  EndsInTime
<1>1. CASE pc = "idle"
  BY <1>1, TimeAssumption DEF TimeInv, EndsInTime
<1>2. CASE pc = "loop"
  BY <1>2, TimeAssumption DEF TimeInv, EndsInTime
<1>3. CASE pc = "recv"
  <2>1. served <= Period + busy
    BY <1>3, TimeAssumption DEF TimeInv
  <2> QED
    BY <2>1, TimeAssumption DEF TimeInv, EndsInTime
<1>4. CASE pc = "handle"
  BY <1>4, TimeAssumption DEF TimeInv, EndsInTime
<1> QED
  BY <1>1, <1>2, <1>3, <1>4 DEF TimeInv

\* Rearm computes what has passed and what is left of the period.
LEMMA Rearmed ==
  ASSUME TimeInv, pc # "idle", served <= Period + MaxBusy, Rearm, ClockKept, pc' = "loop"
  PROVE  TimeInv'
<1>1. Elapsed = served /\ elapsed' = served /\ served \in Nat
  BY DEF TimeInv, Rearm
<1>2. Elapsed' = served'
  BY <1>1 DEF ClockKept, Elapsed
<1>3. timeout' = Remaining(elapsed)'
  BY <1>1 DEF Rearm, Remaining
<1> QED
  BY <1>1, <1>2, <1>3, TimeAssumption DEF TimeInv, ClockKept, Rearm

\* A call that returned has length 0, whatever happened in it.
LEMMA Returned ==
  ASSUME TimeInv, Return
  PROVE  TimeInv'
BY TimeAssumption DEF TimeInv, Return

LEMMA TimeInit ==
  ASSUME Init
  PROVE  TimeInv
BY TimeAssumption DEF Init, TimeInv

LEMMA TimePasses ==
  ASSUME TimeInv, Tick
  PROVE  TimeInv'
<1>1. tick' \in 0 .. Word - 1
  BY TimeAssumption DEF TimeInv, Tick
<1>2. CASE pc = "idle"
  BY <1>1, <1>2 DEF TimeInv, Tick
<1>3. CASE pc = "recv" /\ Waiting
  <2>1. left > 0 /\ left' = left - 1 /\ busy' = busy
    BY <1>3, TimeAssumption DEF TimeInv, Tick, Waiting
  <2>2. served < Period + 2 * MaxBusy
    BY <1>3, <2>1, TimeAssumption DEF TimeInv
  <2>3. Elapsed' = served + 1 /\ served' = served + 1
    BY <1>3, <2>2, ElapsedTicks
  <2> QED
    BY <1>1, <1>3, <2>1, <2>3, TimeAssumption DEF TimeInv, Tick
<1>4. CASE pc # "idle" /\ ~Waiting
  <2>1. busy < MaxBusy /\ busy' = busy + 1 /\ left' = left
    BY <1>4 DEF Tick
  <2>2. served < Period + 2 * MaxBusy
    <3>1. CASE pc = "loop"
      BY <3>1, <2>1, TimeAssumption DEF TimeInv
    <3>2. CASE pc = "recv"
      <4>1. served <= Period + busy
        BY <3>2, TimeAssumption DEF TimeInv
      <4> QED
        BY <2>1, <4>1, TimeAssumption DEF TimeInv
    <3>3. CASE pc = "handle"
      BY <3>3, <2>1, TimeAssumption DEF TimeInv
    <3> QED
      BY <1>4, <3>1, <3>2, <3>3 DEF TimeInv
  <2>3. Elapsed' = served + 1 /\ served' = served + 1
    BY <1>4, <2>2, ElapsedTicks
  <2>4. timeout' = timeout /\ elapsed' = elapsed /\ pc' = pc /\ start' = start
    BY DEF Tick
  <2>5. busy' \in 0 .. MaxBusy
    BY <2>1, TimeAssumption DEF TimeInv
  <2>6. Remaining(elapsed)' = Remaining(elapsed)
    BY <2>4 DEF Remaining
  <2> QED
    BY <1>1, <1>4, <2>1, <2>3, <2>4, <2>5, <2>6, TimeAssumption DEF TimeInv
<1> QED
  BY <1>2, <1>3, <1>4 DEF Waiting

\* Steps that change nothing TimeInv speaks of.
LEMMA TimeUntouched ==
  ASSUME TimeInv,
         UNCHANGED <<pc, tick, start, elapsed, timeout, left, busy, served>>
  PROVE  TimeInv'
BY DEF TimeInv, Elapsed, Remaining

LEMMA TimeInvNext ==
  ASSUME TimeInv, [Next]_vars
  PROVE  TimeInv'
<1>1. CASE Accept
  <2>1. Elapsed' = 0
    BY <1>1, TimeAssumption DEF TimeInv, Accept, Elapsed
  <2> QED
    BY <1>1, <2>1, TimeAssumption DEF TimeInv, Accept, Remaining
<1>2. CASE Refused
  BY <1>2, TimeUntouched DEF Refused, SocketFails, BindFails, localVars
<1>3. CASE EndOfPeriod
  BY <1>3, Returned DEF EndOfPeriod
<1>4. CASE CallRecv
  <2>1. elapsed < Period /\ timeout = Period - elapsed
    BY <1>4, TimeAssumption DEF TimeInv, CallRecv, Remaining
  <2>2. Elapsed' = Elapsed
    BY <1>4 DEF CallRecv, Elapsed
  <2> QED
    BY <1>4, <2>1, <2>2, TimeAssumption DEF TimeInv, CallRecv
<1>5. CASE Receive
  <2>1. Elapsed' = Elapsed
    BY <1>5 DEF Receive, Elapsed
  <2>2. served <= Period + busy
    BY <1>5, TimeAssumption DEF TimeInv, Receive
  <2> QED
    BY <1>5, <2>1, <2>2, TimeAssumption DEF TimeInv, Receive
<1>6. CASE RecvTimeout
  <2>1. served <= Period + MaxBusy
    BY <1>6, TimeAssumption DEF TimeInv, RecvTimeout, TimedOut
  <2> QED
    BY <1>6, <2>1, Rearmed DEF RecvTimeout, TimedOut, ClockKept
<1>7. CASE Answer
  <2>1. served <= Period + MaxBusy
    BY <1>7, TimeAssumption DEF TimeInv, Answer
  <2> QED
    BY <1>7, <2>1, Rearmed DEF Answer, ClockKept
<1>8. CASE CutShort
  BY <1>8, Returned DEF CutShort, RecvFails, SendFails
<1>9. CASE Tick
  BY <1>9, TimePasses
<1>10. CASE \E s \in Sensors : Store(s)
  BY <1>10, TimeUntouched DEF Store, serverVars, localVars
<1>11. CASE \E d \in Requests : Arrive(d)
  BY <1>11, TimeUntouched DEF Arrive, localVars
<1>12. CASE UNCHANGED vars
  BY <1>12, TimeUntouched DEF vars, serverVars, localVars
<1> QED
  BY <1>1, <1>2, <1>3, <1>4, <1>5, <1>6, <1>7, <1>8, <1>9, <1>10, <1>11, <1>12
  DEF Next, InCall

\* In every call the clock, the timeout and the time that really passed agree.
THEOREM TimesAgree == Spec => []TimeInv
BY TimeInit, TimeInvNext, PTL DEF Spec

\* Every call of udp_sensor_server_accept_requests ends in time, whatever
\* clients send and wherever the tick counter wraps.
THEOREM CallsEndInTime == Spec => []EndsInTime
BY TimesAgree, InTime, PTL

\* No call is over before its period is, unless a receive or a send failed.
THEOREM WholePeriodServed == Spec => ServesWholePeriod
<1>1. ASSUME TimeInv, [Next]_vars
      PROVE  [pc # "idle" /\ pc' = "idle" /\ ~CutShort => served >= Period]_vars
  <2>1. SUFFICES ASSUME Next, pc # "idle", pc' = "idle", ~CutShort
                 PROVE  served >= Period
    BY <1>1
  <2>2. EndOfPeriod
    BY <2>1 DEF Next, InCall, Accept, Refused, SocketFails, BindFails, CallRecv,
                Receive, RecvTimeout, Answer, Tick, Store, serverVars, Arrive
  <2> QED
    BY <1>1, <2>2, TimeAssumption DEF TimeInv, EndOfPeriod
<1> QED
  BY <1>1, TimesAgree, PTL DEF Spec, ServesWholePeriod

-----------------------------------------------------------------------------
\* SocketsBalanced with the types its sum needs.
SocketsInv == SocketsBalanced /\ open \in Nat /\ lost \in Nat

LEMMA SocketsNext ==
  ASSUME SocketsInv, [Next]_vars
  PROVE  SocketsInv'
<1>1. CASE Accept
  BY <1>1 DEF SocketsInv, SocketsBalanced, Accept
<1>2. CASE Refused
  BY <1>2, SocketsAssumption DEF SocketsInv, SocketsBalanced, Refused, SocketFails, BindFails
<1>3. CASE EndOfPeriod \/ CutShort
  BY <1>3 DEF SocketsInv, SocketsBalanced, EndOfPeriod, CutShort, RecvFails, SendFails,
              Return, CloseSocket
<1>4. CASE UNCHANGED <<sock, open, lost>> /\ (pc = "idle" <=> pc' = "idle")
  BY <1>4 DEF SocketsInv, SocketsBalanced
<1>5. CASE CallRecv \/ Receive \/ RecvTimeout \/ Answer
  BY <1>4, <1>5 DEF CallRecv, Receive, RecvTimeout, TimedOut, Answer
<1>6. CASE Tick \/ (\E s \in Sensors : Store(s)) \/ (\E d \in Requests : Arrive(d))
           \/ UNCHANGED vars
  BY <1>4, <1>6 DEF Tick, Store, Arrive, vars, serverVars
<1> QED
  BY <1>1, <1>2, <1>3, <1>5, <1>6 DEF Next, InCall

LEMMA SocketsInit == Init => SocketsInv
BY DEF Init, SocketsInv, SocketsBalanced

\* Every descriptor taken is given back, however a call ends, unless its bind
\* failed.
THEOREM NoSocketLost == Spec => []SocketsBalanced
<1>1. SocketsInv => SocketsBalanced
  BY DEF SocketsInv
<1> QED
  BY <1>1, SocketsInit, SocketsNext, PTL DEF Spec

-----------------------------------------------------------------------------
(* Types.  That no more descriptors are open or lost than there are, nor   *)
(* fewer than none, rests on the balance above.                            *)

TypeInv == TypeOK /\ SocketsInv

LEMMA TypeInit == Init => TypeInv
<1> SUFFICES ASSUME Init PROVE TypeInv
  OBVIOUS
<1>1. SocketsInv
  BY SocketsInit
<1>2. inbox \in Seq(Requests) /\ Len(inbox) <= MaxInbox
  BY InboxAssumption DEF Init
<1>3. cache \in [Sensors -> Values]
  BY SensorsAssumption DEF Init, CacheInit, Values
<1>4. 0 \in 0 .. Word - 1 /\ 0 \in 0 .. MaxBusy /\ 0 \in 0 .. MaxServed /\ 0 \in 0 .. MaxSockets
  BY TimeAssumption, SocketsAssumption DEF MaxServed
<1> QED
  BY <1>1, <1>2, <1>3, <1>4 DEF Init, TypeInv, TypeOK

\* The cache after a new sample.
LEMMA CacheTyped ==
  ASSUME cache \in [Sensors -> Values], NEW s \in Sensors, CacheSet(s)
  PROVE  cache' \in [Sensors -> Values] /\ cache'[s] = cache[s] + 1
BY SensorsAssumption DEF CacheSet, Values

\* The clock and the times computed from it stay within its width.
LEMMA TimesTyped ==
  ASSUME TypeOK
  PROVE  /\ Elapsed \in 0 .. Word - 1
         /\ \A e \in 0 .. Word - 1 : Remaining(e) \in 0 .. Word - 1
BY TimeAssumption DEF TypeOK, Elapsed, Remaining

\* What a call leaves alone, and what its end resets.
LEMMA Rearms ==
  ASSUME TypeOK, Rearm
  PROVE  elapsed' \in 0 .. Word - 1 /\ timeout' \in 0 .. Word - 1 /\ busy' \in 0 .. MaxBusy
BY TimesTyped, TimeAssumption DEF Rearm

LEMMA Resets ==
  ASSUME TypeInv, Return, pc # "idle"
  PROVE  TypeOK'
<1>1. open' \in 0 .. MaxSockets
  BY SocketsAssumption DEF TypeInv, TypeOK, SocketsInv, SocketsBalanced, Return, CloseSocket
<1>2. inbox' = <<>>
  BY DEF Return, CloseSocket
<1>3. inbox' \in Seq(Requests) /\ Len(inbox') <= MaxInbox
  BY <1>2, InboxAssumption
<1>4. lost' \in 0 .. MaxSockets /\ tick' \in 0 .. Word - 1 /\ cache' \in [Sensors -> Values]
  BY DEF TypeInv, TypeOK, Return
<1>5. 0 \in 0 .. Word - 1 /\ 0 \in 0 .. MaxBusy /\ 0 \in 0 .. MaxServed
  BY TimeAssumption DEF MaxServed
<1> QED
  BY <1>1, <1>3, <1>4, <1>5 DEF TypeOK, Return, CloseSocket

LEMMA TypeNext ==
  ASSUME TypeInv, [Next]_vars
  PROVE  TypeInv'
<1> SUFFICES TypeOK'
  BY SocketsNext DEF TypeInv
<1> USE DEF TypeInv
<1>1. CASE Accept
  BY <1>1, TimeAssumption, SocketsAssumption DEF TypeOK, Accept, MaxServed
<1>2. CASE Refused
  <2>1. CASE SocketFails
    BY <2>1 DEF TypeOK, SocketFails, localVars
  <2>2. CASE BindFails
    <3>1. open < MaxSockets /\ lost = open /\ open' = open + 1 /\ lost' = open + 1
      BY <2>2 DEF SocketsInv, SocketsBalanced, BindFails
    <3>2. open' \in 0 .. MaxSockets /\ lost' \in 0 .. MaxSockets
      BY <3>1, SocketsAssumption DEF SocketsInv
    <3> QED
      BY <2>2, <3>2 DEF TypeOK, BindFails, localVars
  <2> QED
    BY <1>2, <2>1, <2>2 DEF Refused
<1>3. CASE EndOfPeriod \/ CutShort
  BY <1>3, Resets DEF EndOfPeriod, CutShort, RecvFails, SendFails
<1>4. CASE CallRecv
  BY <1>4 DEF TypeOK, CallRecv
<1>5. CASE Receive
  <2>1. inbox # <<>> /\ req' = Head(inbox) /\ inbox' = Tail(inbox)
    BY <1>5 DEF Receive
  <2>2. Head(inbox) \in Requests /\ Tail(inbox) \in Seq(Requests)
        /\ Len(Tail(inbox)) = Len(inbox) - 1 /\ Len(inbox) \in Nat
    BY <2>1, HeadTailProperties DEF TypeOK
  <2>3. inbox' \in Seq(Requests) /\ Len(inbox') <= MaxInbox /\ req' \in Requests
    BY <2>1, <2>2, InboxAssumption DEF TypeOK
  <2> QED
    BY <1>5, <2>3 DEF TypeOK, Receive
<1>6. CASE RecvTimeout
  BY <1>6, Rearms, TimeAssumption DEF TypeOK, RecvTimeout
<1>7. CASE Answer
  BY <1>7, Rearms, TimeAssumption DEF TypeOK, Answer
<1>8. CASE Tick
  <2>1. tick' \in 0 .. Word - 1
    BY <1>8, TimeAssumption DEF TypeOK, Tick
  <2>2. served' \in 0 .. MaxServed /\ left' \in 0 .. Word - 1 /\ busy' \in 0 .. MaxBusy
    BY <1>8, TimeAssumption DEF TypeOK, Tick, MaxServed
  <2> QED
    BY <1>8, <2>1, <2>2 DEF TypeOK, Tick
<1>9. CASE \E s \in Sensors : Store(s)
  BY <1>9, CacheTyped DEF TypeOK, Store, serverVars, localVars
<1>10. ASSUME NEW d \in Requests, Arrive(d) PROVE TypeOK'
  <2>1. inbox' = Append(inbox, d) /\ Len(inbox) < MaxInbox
    BY <1>10 DEF Arrive
  <2>2. inbox' \in Seq(Requests) /\ Len(inbox') = Len(inbox) + 1 /\ Len(inbox) \in Nat
    BY <2>1, AppendProperties DEF TypeOK
  <2>3. Len(inbox') <= MaxInbox
    BY <2>1, <2>2, InboxAssumption
  <2> QED
    BY <1>10, <2>2, <2>3 DEF TypeOK, Arrive, localVars
<1>11. CASE UNCHANGED vars
  BY <1>11 DEF TypeOK, vars, serverVars, localVars
<1> QED
  BY <1>1, <1>2, <1>3, <1>4, <1>5, <1>6, <1>7, <1>8, <1>9, <1>10, <1>11 DEF Next, InCall

\* The variables of udp_sensor_server_accept_requests keep their types: every time
\* it computes fits the width of TickType_t, no more descriptors are taken than
\* the pool has, and the socket holds no more datagrams than its mailbox.
THEOREM ServerTypes == Spec => []TypeOK
<1>1. TypeInv => TypeOK
  BY DEF TypeInv
<1> QED
  BY <1>1, TypeInit, TypeNext, PTL DEF Spec
=============================================================================
