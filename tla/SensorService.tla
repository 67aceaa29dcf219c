--------------------------- MODULE SensorService ---------------------------
(***************************************************************************)
(* From the hub's cache to the page: UdpServer and ClientApp with the      *)
(* datagrams between them.  The network loses, delays and reorders; it is  *)
(* taken not to duplicate.  The hub may lose its power and start again.    *)
(***************************************************************************)
EXTENDS UdpServer, ClientApp

CONSTANT MaxBoots \* how often the hub starts again (a bound of TLC's)

\* The client asks for the hub's sensors, by position; an identifier is one digit.
ASSUME RowsAssumption == NumRows = NumSensors /\ NumRows <= 10
ASSUME PortsAssumption == "none" \notin Ports
ASSUME RequestsAssumption == Requests = [from : Ports, byte : {48 + s : s \in Sensors}]
ASSUME BootsAssumption == MaxBoots \in Nat

VARIABLES
  net,  \* the datagrams in flight
  boots \* how often the hub started again

serviceVars == <<vars, clientVars, net, boots>>

\* str(sensor_id).encode() and its answer, which does not name the sensor: about
\* and boot are there for the properties alone.
Request(p, s) == [from |-> p, byte |-> 48 + s]
ServerAnswer(r) == [to |-> r.from, about |-> Decode(r.byte), value |-> Response(r), boot |-> boots]

Reports == [to : Ports, about : Sensors, value : Values, boot : 0 .. MaxBoots]
Readings == [about : Sensors, value : Values, boot : 0 .. MaxBoots]

Asked == {d \in net : "from" \in DOMAIN d}
Answers == {d \in net : "to" \in DOMAIN d}

ServiceTypeOK ==
  /\ TypeOK
  /\ ClientTypeOK
  /\ net \subseteq Requests \cup Reports
  /\ shown \in [Rows -> Readings \cup {NotRead}]
  /\ boots \in 0 .. MaxBoots

ServiceInit == Init /\ ClientInit /\ net = {} /\ boots = 0

\* A port no datagram and no queue remembers: the system gives one at random.
Fresh(p) ==
  /\ \A d \in Asked : d.from # p
  /\ \A d \in Answers : d.to # p
  /\ \A i \in DOMAIN inbox : inbox[i].from # p
  /\ req.from # p

-----------------------------------------------------------------------------
\* d is taken from the network.
Taken(d) == net' = net \ {d}

Lose(d) == Taken(d) /\ UNCHANGED <<vars, clientVars, boots>>

\* The hub's task, but for its answers, and the hub's clock.
HubStep ==
  /\ \/ Accept \/ Refused \/ EndOfPeriod \/ CallRecv \/ Receive \/ RecvTimeout
     \/ CutShort \/ Tick
     \/ \E s \in Sensors : Store(s)
  /\ UNCHANGED <<clientVars, net, boots>>

\* The hub starts again, whatever it was doing: nothing of it is kept.
HubRestarts ==
  /\ boots < MaxBoots /\ boots' = boots + 1
  /\ cache' = [s \in Sensors |-> 0]
  /\ pc' = "idle" /\ sock' = FALSE /\ open' = 0 /\ lost' = 0
  /\ tick' = 0 /\ start' = 0 /\ elapsed' = 0
  /\ timeout' = 0 /\ left' = 0 /\ busy' = 0 /\ served' = 0
  /\ inbox' = <<>> /\ req' = NoRequest
  /\ UNCHANGED <<clientVars, net>>

HubAnswers ==
  /\ Answer
  /\ net' = net \cup {ServerAnswer(req)}
  /\ UNCHANGED <<clientVars, boots>>

RequestArrives(d) == Arrive(d) /\ Taken(d) /\ UNCHANGED <<clientVars, boots>>

RunStarts == \E p \in Ports : Fresh(p) /\ StartRun(p) /\ UNCHANGED <<vars, net, boots>>

RunEnds == (RunFails \/ ThreadDies) /\ UNCHANGED <<vars, net, boots>>

ClientAsks ==
  /\ Ask
  /\ net' = net \cup {Request(port, asking)}
  /\ UNCHANGED <<vars, boots>>

\* A datagram to another port finds its socket closed and is lost.
AnswerArrives(a) ==
  /\ a.to = port
  /\ Stored([about |-> a.about, value |-> a.value, boot |-> a.boot])
  /\ Taken(a)
  /\ UNCHANGED <<vars, boots>>

PageStep == PageSteps /\ UNCHANGED <<vars, net, boots>>

ServiceNext ==
  \/ HubStep \/ HubAnswers \/ HubRestarts
  \/ \E d \in Asked : RequestArrives(d)
  \/ RunStarts \/ RunEnds \/ ClientAsks
  \/ \E a \in Answers : AnswerArrives(a)
  \/ PageStep
  \/ \E d \in net : Lose(d)

ServiceSpec == ServiceInit /\ [][ServiceNext]_serviceVars

-----------------------------------------------------------------------------
(* Properties.                                                             *)

\* What is shown for a sensor was read from that sensor, whatever was lost,
\* late or reordered: answers do not say what they are about, so this rests on
\* one request at a time per socket and one socket per run.
RightSensor == \A s \in Sensors : shown[s] # NotRead => shown[s].about = s

\* What RightSensor rests on.  A run has a port nobody else uses, and of what it
\* sent from there one thing at most is left, wherever that is: the request in
\* flight, in the socket of the hub or in the hands of its task, or the answer.
\* While the client waits, it is about the sensor asked for; when it asks, there is
\* none.
Sent(p) == \E d \in Asked : d.from = p
InSocket(p) == \E i \in DOMAIN inbox : inbox[i].from = p
InHand(p) == req.from = p
Answered(p) == \E a \in Answers : a.to = p

AboutAsked ==
  /\ \A d \in Asked : d.from = port => d = Request(port, asking)
  /\ \A i \in DOMAIN inbox : inbox[i].from = port => inbox[i] = Request(port, asking)
  /\ InHand(port) => req = Request(port, asking)
  /\ \A a \in Answers : a.to = port => a.about = asking

OnePlace ==
  /\ Sent(port) => ~InSocket(port) /\ ~InHand(port) /\ ~Answered(port)
  /\ InSocket(port) => ~InHand(port) /\ ~Answered(port)
  /\ InHand(port) => ~Answered(port)
  /\ \A i, j \in DOMAIN inbox : inbox[i].from = port /\ inbox[j].from = port => i = j
  /\ \A a, b \in Answers : a.to = port /\ b.to = port => a = b

OneExchange ==
  /\ poll = "send" => Fresh(port)
  /\ poll = "wait" => AboutAsked /\ OnePlace

\* x was read no later than y.
NotAfter(x, y) == x.boot < y.boot \/ (x.boot = y.boot /\ x.value <= y.value)

\* What NeverOlder rests on: from what is shown for a sensor over the answer under
\* way to what the hub holds, nothing was read later than what comes next.
AgesOrdered ==
  /\ \A s \in Sensors : NotAfter(shown[s], [boot |-> boots, value |-> cache[s]])
  /\ poll = "wait" =>
       \A a \in Answers : a.to = port =>
         NotAfter(shown[asking], a) /\ NotAfter(a, [boot |-> boots, value |-> cache[asking]])

\* What is shown for a sensor is never replaced by an older reading, and once the
\* hub started again by none from before.
NeverOlder == [][\A s \in Sensors : NotAfter(shown[s], shown'[s])]_serviceVars
=============================================================================
