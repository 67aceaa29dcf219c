----------------------------- MODULE UdpServer -----------------------------
(***************************************************************************)
(* udp_sensor_server.c, called again and again by the task that also       *)
(* stores the sensors' values (ble_sensors_reader.c, app_main.c).          *)
(*                                                                         *)
(* The clock is the tick counter of FreeRTOS; it, and the times computed   *)
(* from it, wrap at Word.  All times are in ticks: the code's conversion   *)
(* to milliseconds multiplies each of them by the same number.             *)
(***************************************************************************)
EXTENDS SensorsCache, Sequences

CONSTANTS
  Period,     \* period_ms
  Word,       \* 2^32
  MaxBusy,    \* ticks one pass of the loop may take, waiting aside
  MaxSockets, \* CONFIG_LWIP_MAX_SOCKETS
  MaxInbox,   \* CONFIG_LWIP_UDP_RECVMBOX_SIZE
  Requests,   \* datagrams of clients: [from |-> address, byte |-> first byte]
  Faults      \* calls that may fail: "socket", "bind", "recv", "send"

ASSUME TimeAssumption ==
  /\ Period \in Nat \ {0}
  /\ MaxBusy \in Nat
  /\ Word \in Nat
  /\ Period + 2 * MaxBusy + 1 < Word
ASSUME SocketsAssumption == MaxSockets \in Nat \ {0}
ASSUME InboxAssumption == MaxInbox \in Nat

VARIABLES
  pc,      \* "idle", or in a call: "loop", "recv" (in recvfrom), "handle"
  sock,    \* udp_srvr->sock holds a descriptor
  open,    \* descriptors taken from the pool and not closed
  lost,    \* binds that failed so far; the code does not count them
  tick,    \* xTaskGetTickCount()
  start,   \* start_tick
  elapsed, \* elapsed_ms
  timeout, \* SO_RCVTIMEO of the socket; 0 waits for ever
  left,    \* what is left of it in recvfrom
  busy,    \* ticks spent in this pass of the loop, waiting aside
  served,  \* true length of the call so far, up to MaxServed
  inbox,   \* datagrams queued in the socket
  req      \* the datagram recvfrom returned

localVars == <<start, elapsed, timeout, left, busy, served, req>>
serverVars == <<pc, sock, open, lost, tick, localVars, inbox>>
vars == <<serverVars, cache>>

NoRequest == [from |-> "none", byte |-> 0]

\* Enough to see a call overrun.
MaxServed == Period + 2 * MaxBusy + 1

TypeOK ==
  /\ cache \in [Sensors -> Values]
  /\ pc \in {"idle", "loop", "recv", "handle"}
  /\ sock \in BOOLEAN
  /\ {open, lost} \subseteq 0 .. MaxSockets
  /\ {tick, start, elapsed, timeout, left} \subseteq 0 .. Word - 1
  /\ busy \in 0 .. MaxBusy
  /\ served \in 0 .. MaxServed
  /\ inbox \in Seq(Requests) /\ Len(inbox) <= MaxInbox
  /\ req \in Requests \cup {NoRequest}

Init ==
  /\ CacheInit
  /\ pc = "idle" /\ sock = FALSE /\ open = 0 /\ lost = 0
  /\ tick = 0 /\ start = 0 /\ elapsed = 0
  /\ timeout = 0 /\ left = 0 /\ busy = 0 /\ served = 0
  /\ inbox = <<>> /\ req = NoRequest

-----------------------------------------------------------------------------
(* Times.                                                                  *)

\* Mutant: computed in a signed type that does not wrap.
ElapsedSigned == tick - start

\* xTaskGetTickCount() - start_tick, in the width of TickType_t.
Elapsed == IF tick >= start THEN tick - start ELSE tick - start + Word

\* period_ms - elapsed_ms, in the width of uint32_t.
Remaining(e) == IF e <= Period THEN Period - e ELSE Period - e + Word

\* Mutant: the time that passed is not looked at after an answer.
RearmForgetsTime ==
  /\ timeout' = Remaining(elapsed)
  /\ busy' = 0
  /\ UNCHANGED elapsed

\* Mutant: the timeout of the socket stays what it was.
RearmKeepsTimeout ==
  /\ elapsed' = Elapsed
  /\ busy' = 0
  /\ UNCHANGED timeout

\* Mutant: the time since the start of the call is added up at every pass.
RearmAddsUp ==
  /\ elapsed' = elapsed + Elapsed
  /\ timeout' = Remaining(elapsed + Elapsed)
  /\ busy' = 0

\* The end of a pass: look at the clock and shorten the timeout.
Rearm ==
  /\ elapsed' = Elapsed
  /\ timeout' = Remaining(Elapsed)
  /\ busy' = 0

\* The task sleeps in recvfrom.
Waiting == pc = "recv" /\ inbox = <<>> /\ (timeout = 0 \/ left > 0)

\* Time passes, with the task asleep or at work.
Tick ==
  /\ tick' = IF tick = Word - 1 THEN 0 ELSE tick + 1
  /\ IF pc = "idle"
     THEN UNCHANGED <<served, left, busy>>
     ELSE /\ served' = IF served < MaxServed THEN served + 1 ELSE served
          /\ \/ Waiting /\ left' = (IF left > 0 THEN left - 1 ELSE 0) /\ UNCHANGED busy
             \/ ~Waiting /\ busy < MaxBusy /\ busy' = busy + 1 /\ UNCHANGED left
  /\ UNCHANGED <<pc, sock, open, lost, start, elapsed, timeout, inbox, req, cache>>

-----------------------------------------------------------------------------
(* The hub's task.                                                         *)

\* Between two calls the reader stores what it read.
Store(s) ==
  /\ pc = "idle"
  /\ CacheSet(s)
  /\ UNCHANGED serverVars

\* udp_sensor_server_get_socket succeeds and the clock is started.
Accept ==
  /\ pc = "idle" /\ open < MaxSockets
  /\ open' = open + 1 /\ sock' = TRUE
  /\ timeout' = Period
  /\ start' = tick /\ elapsed' = 0 /\ served' = 0 /\ busy' = 0
  /\ pc' = "loop"
  /\ UNCHANGED <<lost, tick, left, inbox, req, cache>>

\* No descriptor: socket() stores -1 and the call returns.
SocketFails ==
  /\ pc = "idle" /\ (open = MaxSockets \/ "socket" \in Faults)
  /\ sock' = FALSE
  /\ UNCHANGED <<pc, open, lost, tick, localVars, inbox, cache>>

\* The call returns with the descriptor in udp_srvr->sock, where the next call
\* overwrites it.
BindFails ==
  /\ pc = "idle" /\ open < MaxSockets /\ "bind" \in Faults
  /\ open' = open + 1 /\ sock' = TRUE
  /\ lost' = lost + 1
  /\ UNCHANGED <<pc, tick, localVars, inbox, cache>>

\* Mutant: the call returns without closing.
ReturnWithoutClose == inbox' = <<>> /\ UNCHANGED <<open, sock>>

\* udp_sensor_server_close_socket; what is queued is lost.
CloseSocket ==
  /\ IF sock THEN open' = open - 1 ELSE UNCHANGED open
  /\ sock' = FALSE
  /\ inbox' = <<>>

\* The call returns; its locals are gone.
Return ==
  /\ CloseSocket
  /\ pc' = "idle"
  /\ start' = 0 /\ elapsed' = 0 /\ timeout' = 0 /\ left' = 0
  /\ busy' = 0 /\ served' = 0 /\ req' = NoRequest
  /\ UNCHANGED <<lost, tick, cache>>

EndOfPeriod == pc = "loop" /\ elapsed >= Period /\ Return

CallRecv ==
  /\ pc = "loop" /\ elapsed < Period
  /\ pc' = "recv" /\ left' = timeout
  /\ UNCHANGED <<sock, open, lost, tick, start, elapsed, timeout, busy, served, inbox, req, cache>>

Receive ==
  /\ pc = "recv" /\ inbox # <<>>
  /\ req' = Head(inbox) /\ inbox' = Tail(inbox)
  /\ pc' = "handle"
  /\ UNCHANGED <<sock, open, lost, tick, start, elapsed, timeout, left, busy, served, cache>>

\* The wait may end within the tick in which it is due.
TimedOut == pc = "recv" /\ inbox = <<>> /\ timeout # 0 /\ left <= 1

\* EAGAIN: go round once more.
RecvTimeout ==
  /\ TimedOut
  /\ Rearm
  /\ pc' = "loop" /\ left' = 0
  /\ UNCHANGED <<sock, open, lost, tick, start, served, inbox, req, cache>>

RecvFails == pc = "recv" /\ "recv" \in Faults /\ Return

\* Mutant: the digit is taken for the identifier.
DecodeRaw(byte) == byte

\* The byte less '0', as uint8_t; an identifier out of range is answered 0.
Decode(byte) == (byte - 48) % 256

\* The value udp_sensor_server_handle_request answers r with.
Response(r) == IF Decode(r.byte) \in Sensors THEN CacheGet(Decode(r.byte)) ELSE 0

\* The answer is sent (by the composition: the transport is not in this module).
Answer ==
  /\ pc = "handle"
  /\ Rearm
  /\ pc' = "loop" /\ req' = NoRequest /\ left' = 0
  /\ UNCHANGED <<sock, open, lost, tick, start, served, inbox, cache>>

SendFails == pc = "handle" /\ "send" \in Faults /\ Return

-----------------------------------------------------------------------------
\* A datagram of a client reaches the bound socket.
Arrive(d) ==
  /\ pc # "idle" /\ Len(inbox) < MaxInbox
  /\ inbox' = Append(inbox, d)
  /\ UNCHANGED <<pc, sock, open, lost, tick, localVars, cache>>

InCall == EndOfPeriod \/ CallRecv \/ Receive \/ RecvTimeout \/ Answer
CutShort == RecvFails \/ SendFails
Refused == SocketFails \/ BindFails

Next ==
  \/ Accept \/ Refused
  \/ InCall \/ CutShort
  \/ Tick
  \/ \E s \in Sensors : Store(s)
  \/ \E d \in Requests : Arrive(d)

Spec == Init /\ [][Next]_vars

\* The task runs; time passes; the hub serves again and again (CyclesPublished
\* of ConnManager) and bind is not refused whenever it is tried.
Fairness == WF_vars(InCall) /\ SF_vars(Tick) /\ SF_vars(Accept)
FairSpec == Spec /\ Fairness

-----------------------------------------------------------------------------
(* Properties.                                                             *)

\* However requests, early wake-ups and the wrap of the tick counter fall, a
\* call is over Period ticks after its start, plus what the pass that crosses the
\* end and the exit take: the timeout is always what was left when it was set.
\* The hub does nothing else meanwhile.
EndsInTime == served <= Period + 2 * MaxBusy

\* What EndsInTime rests on.  In a call the clock tells its true length, and that
\* length is what was elapsed when the pass began, what was waited of the timeout
\* since, and the ticks the pass took; the timeout never reaches past Period.
TimeInv ==
  /\ pc \in {"idle", "loop", "recv", "handle"}
  /\ {tick, start} \subseteq 0 .. Word - 1
  /\ busy \in 0 .. MaxBusy
  /\ {served, elapsed} \subseteq Nat
  /\ pc = "idle" => served = 0
  /\ pc # "idle" => Elapsed = served
  /\ pc = "loop" =>
       /\ served = elapsed + busy
       /\ elapsed <= Period + MaxBusy
       /\ timeout = Remaining(elapsed)
  /\ pc = "recv" =>
       /\ elapsed < Period
       /\ timeout = Period - elapsed
       /\ left \in 0 .. timeout
       /\ served = elapsed + (timeout - left) + busy
  /\ pc = "handle" => elapsed < Period /\ served <= Period + busy

\* However a call ends, it gives its descriptor back: only those of failed binds
\* stay out of the pool.
SocketsBalanced ==
  /\ open = lost + IF pc = "idle" THEN 0 ELSE 1
  /\ pc # "idle" => sock

\* Unless a receive or a send fails, clients are served for the whole period
\* (udp_sensor_server.h: "during @p period_ms milliseconds").
ServesWholePeriod == [][pc # "idle" /\ pc' = "idle" /\ ~CutShort => served >= Period]_vars

\* Every call returns, even when requests never stop coming.
Returns == pc # "idle" ~> pc = "idle"

\* Clients are served again and again (README.md of the hub, line 7).
KeepsServing == []<>(pc = "loop")
=============================================================================
