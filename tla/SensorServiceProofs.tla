------------------------ MODULE SensorServiceProofs ------------------------
(***************************************************************************)
(* The way of a value from the hub's cache to the page, for every number   *)
(* of sensors of one digit, every set of ports and any loss, delay and     *)
(* reordering of datagrams: what the page shows for a sensor was read from *)
(* that sensor, and no older reading replaces a newer one.                 *)
(*                                                                         *)
(* Neither follows from what an answer says, which is a bare number.  Both *)
(* rest on OneExchange: of what a run of the client sent there is at most  *)
(* one thing left, and it is about the sensor asked for.                   *)
(***************************************************************************)
EXTENDS SensorService, UdpServerProofs

\* The task answers only what a client sent.
HandFull == pc = "handle" => req \in Requests

ServiceTyped == ServiceTypeOK /\ SocketsInv /\ HandFull

ServiceInv == ServiceTyped /\ OneExchange /\ RightSensor /\ AgesOrdered

-----------------------------------------------------------------------------
(* Datagrams.                                                              *)

LEMMA RowsAreSensors == Rows = Sensors /\ 0 \in Rows
BY RowsAssumption, SensorsAssumption DEF Rows, Sensors

\* One digit names every sensor.
LEMMA Decoded ==
  ASSUME NEW s \in Sensors
  PROVE  Decode(48 + s) = s
BY RowsAssumption, SensorsAssumption DEF Sensors, Decode

LEMMA RequestFields ==
  ASSUME NEW d \in Requests
  PROVE  /\ d.from \in Ports
         /\ Decode(d.byte) \in Sensors
         /\ d = Request(d.from, Decode(d.byte))
         /\ "from" \in DOMAIN d
         /\ "to" \notin DOMAIN d
<1>1. d \in [from : Ports, byte : {48 + s : s \in Sensors}]
  BY RequestsAssumption
<1>2. PICK s \in Sensors : d.byte = 48 + s
  BY <1>1
<1>3. Decode(d.byte) = s
  BY <1>2, Decoded
<1> QED
  BY <1>1, <1>2, <1>3 DEF Request

LEMMA RequestTyped ==
  ASSUME NEW p \in Ports, NEW s \in Sensors
  PROVE  /\ Request(p, s) \in Requests
         /\ Request(p, s).from = p
         /\ Decode(Request(p, s).byte) = s
BY RequestsAssumption, Decoded DEF Request

LEMMA ReportFields ==
  ASSUME NEW a \in Reports
  PROVE  /\ a.to \in Ports /\ a.about \in Sensors
         /\ a.value \in Values /\ a.boot \in 0 .. MaxBoots
         /\ "to" \in DOMAIN a
         /\ "from" \notin DOMAIN a
BY DEF Reports

LEMMA Kinds ==
  ASSUME ServiceTypeOK
  PROVE  /\ \A d : d \in Asked <=> d \in net /\ d \in Requests
         /\ \A a : a \in Answers <=> a \in net /\ a \in Reports
BY RequestFields, ReportFields DEF ServiceTypeOK, Asked, Answers

LEMMA KindsNext ==
  ASSUME ServiceTypeOK'
  PROVE  /\ \A d : d \in Asked' <=> d \in net' /\ d \in Requests
         /\ \A a : a \in Answers' <=> a \in net' /\ a \in Reports
BY RequestFields, ReportFields DEF ServiceTypeOK, Asked, Answers

\* The socket is no client.
LEMMA NoRequestFrom == \A p \in Ports : NoRequest.from # p
BY PortsAssumption DEF NoRequest

\* What the task answers with.
LEMMA AnswerFields ==
  ASSUME ServiceTypeOK, req \in Requests
  PROVE  /\ ServerAnswer(req) \in Reports
         /\ ServerAnswer(req).to = req.from
         /\ ServerAnswer(req).about = Decode(req.byte)
         /\ ServerAnswer(req).value = cache[Decode(req.byte)]
         /\ ServerAnswer(req).boot = boots
<1>1. req.from \in Ports /\ Decode(req.byte) \in Sensors
  BY RequestFields
<1>2. Response(req) = cache[Decode(req.byte)]
  BY <1>1 DEF Response, CacheGet
<1>3. cache[Decode(req.byte)] \in Values
  BY <1>1 DEF ServiceTypeOK, TypeOK
<1>4. boots \in 0 .. MaxBoots
  BY DEF ServiceTypeOK
<1> QED
  BY <1>1, <1>2, <1>3, <1>4 DEF ServerAnswer, Reports

-----------------------------------------------------------------------------
(* Types.                                                                  *)

\* What the service does to the hub, a step of UdpServer does, or the hub begins
\* again.
LEMMA HubSteps ==
  ASSUME ServiceTypeOK, [ServiceNext]_serviceVars
  PROVE  [Next]_vars \/ Init'
<1>1. CASE HubStep
  BY <1>1 DEF HubStep, Next, InCall
<1>2. CASE HubAnswers
  BY <1>2 DEF HubAnswers, Next, InCall
<1>3. CASE HubRestarts
  <2>1. CacheInit'
    BY <1>3 DEF HubRestarts, CacheInit
  <2> QED
    BY <1>3, <2>1 DEF HubRestarts, Init
<1>4. ASSUME NEW d \in Asked, RequestArrives(d)
      PROVE  [Next]_vars
  BY <1>4, Kinds DEF RequestArrives, Next
<1>5. CASE UNCHANGED vars
  BY <1>5
<1>6. CASE RunStarts \/ RunEnds \/ ClientAsks \/ PageStep \/ UNCHANGED serviceVars
  BY <1>5, <1>6 DEF RunStarts, RunEnds, ClientAsks, PageStep, serviceVars
<1>7. CASE (\E a \in Answers : AnswerArrives(a)) \/ (\E d \in net : Lose(d))
  BY <1>5, <1>7 DEF AnswerArrives, Lose
<1> QED
  BY <1>1, <1>2, <1>3, <1>4, <1>6, <1>7 DEF ServiceNext

LEMMA ServerTyped ==
  ASSUME ServiceTyped, [ServiceNext]_serviceVars
  PROVE  TypeInv'
<1>1. TypeInv
  BY DEF ServiceTyped, ServiceTypeOK, TypeInv
<1>2. Init' => TypeInv'
  BY TypeInit, PTL
<1> QED
  BY <1>1, <1>2, HubSteps, TypeNext DEF ServiceTyped

LEMMA HandNext ==
  ASSUME ServiceTyped, [ServiceNext]_serviceVars
  PROVE  HandFull'
<1>1. CASE Receive
  <2>1. Head(inbox) \in Requests
    BY <1>1, HeadTailProperties DEF ServiceTyped, ServiceTypeOK, TypeOK, Receive
  <2> QED
    BY <1>1, <2>1 DEF Receive, HandFull
<1>2. CASE Tick \/ (\E s \in Sensors : Store(s)) \/ (\E d \in Requests : Arrive(d))
           \/ UNCHANGED vars
  BY <1>2 DEF Tick, Store, Arrive, vars, serverVars, localVars, HandFull, ServiceTyped
<1>3. CASE Accept \/ Refused \/ CutShort
  BY <1>3 DEF Accept, Refused, SocketFails, BindFails, CutShort, RecvFails, SendFails, Return,
              HandFull
<1>4. CASE EndOfPeriod \/ CallRecv \/ RecvTimeout \/ Answer
  BY <1>4 DEF EndOfPeriod, CallRecv, RecvTimeout, Answer, Return, HandFull
<1>5. CASE Init'
  BY <1>5 DEF Init, HandFull
<1> QED
  BY <1>1, <1>2, <1>3, <1>4, <1>5, HubSteps DEF ServiceTyped, Next, InCall

\* The client's own variables.
ClientTyped == ClientTypeOK /\ shown \in [Rows -> Readings \cup {NotRead}]

LEMMA ClientNext ==
  ASSUME ServiceTyped, [ServiceNext]_serviceVars
  PROVE  ClientTyped'
<1>0. ClientTyped
  BY DEF ServiceTyped, ServiceTypeOK, ClientTyped
<1>1. CASE UNCHANGED clientVars
  BY <1>0, <1>1 DEF ClientTyped, ClientTypeOK, clientVars, pollVars, pageVars
<1>2. CASE RunStarts \/ RunEnds \/ ClientAsks
  BY <1>0, <1>2, RowsAreSensors
  DEF RunStarts, RunEnds, ClientAsks, StartRun, RunFails, ThreadDies, Ask, ClientTyped,
      ClientTypeOK, pageVars
<1>3. CASE PageStep
  BY <1>0, <1>3, RowsAssumption, SensorsAssumption
  DEF PageStep, PageSteps, StartPage, MakeRow, ClientTyped, ClientTypeOK, pollVars, Rows
<1>4. ASSUME NEW a \in Answers, AnswerArrives(a)
      PROVE  ClientTyped'
  <2>1. a \in Reports
    BY Kinds DEF ServiceTyped
  <2>2. [about |-> a.about, value |-> a.value, boot |-> a.boot] \in Readings
    BY <2>1, ReportFields DEF Readings
  <2>3. asking' \in Rows /\ poll' \in {"send", "sleep"}
    BY <1>4, RowsAreSensors DEF AnswerArrives, Stored
  <2>4. shown' \in [Rows -> Readings \cup {NotRead}]
    BY <1>0, <1>4, <2>2 DEF AnswerArrives, Stored, ClientTyped
  <2> QED
    BY <1>0, <1>4, <2>3, <2>4
    DEF AnswerArrives, Stored, ClientTyped, ClientTypeOK, pageVars
<1>5. CASE HubStep \/ HubAnswers \/ HubRestarts \/ UNCHANGED serviceVars
  BY <1>1, <1>5 DEF HubStep, HubAnswers, HubRestarts, serviceVars
<1>6. CASE (\E d \in Asked : RequestArrives(d)) \/ (\E d \in net : Lose(d))
  BY <1>1, <1>6 DEF RequestArrives, Lose
<1> QED
  BY <1>2, <1>3, <1>4, <1>5, <1>6 DEF ServiceNext

\* Only the client sends requests, and only the hub answers.
LEMMA NetNext ==
  ASSUME ServiceTyped, [ServiceNext]_serviceVars
  PROVE  net' \subseteq Requests \cup Reports /\ boots' \in 0 .. MaxBoots
<1>0. net \subseteq Requests \cup Reports /\ boots \in 0 .. MaxBoots
  BY DEF ServiceTyped, ServiceTypeOK
<1>1. CASE HubAnswers
  <2>1. ServerAnswer(req) \in Reports
    BY <1>1, AnswerFields DEF ServiceTyped, HandFull, HubAnswers, Answer
  <2> QED
    BY <1>0, <1>1, <2>1 DEF HubAnswers
<1>2. CASE ClientAsks
  <2>1. Request(port, asking) \in Requests
    BY RequestTyped, RowsAreSensors DEF ServiceTyped, ServiceTypeOK, ClientTypeOK
  <2> QED
    BY <1>0, <1>2, <2>1 DEF ClientAsks
<1>3. CASE HubRestarts
  BY <1>0, <1>3, BootsAssumption DEF HubRestarts
<1>4. CASE net' \subseteq net /\ boots' = boots
  BY <1>0, <1>4
<1>5. CASE HubStep \/ RunStarts \/ RunEnds \/ PageStep \/ UNCHANGED serviceVars
  BY <1>4, <1>5 DEF HubStep, RunStarts, RunEnds, PageStep, serviceVars
<1>6. CASE (\E d \in Asked : RequestArrives(d)) \/ (\E a \in Answers : AnswerArrives(a))
           \/ (\E d \in net : Lose(d))
  BY <1>4, <1>6 DEF RequestArrives, AnswerArrives, Lose, Taken
<1> QED
  BY <1>1, <1>2, <1>3, <1>5, <1>6 DEF ServiceNext

LEMMA ServiceTypedNext ==
  ASSUME ServiceTyped, [ServiceNext]_serviceVars
  PROVE  ServiceTyped'
BY ServerTyped, HandNext, ClientNext, NetNext
DEF ServiceTyped, ServiceTypeOK, TypeInv, ClientTyped

LEMMA ServiceTypedInit ==
  ASSUME ServiceInit
  PROVE  ServiceTyped
<1>1. TypeInv /\ HandFull
  BY TypeInit DEF ServiceInit, Init, HandFull
<1>2. ClientTypeOK /\ shown \in [Rows -> Readings \cup {NotRead}]
  BY RowsAreSensors, RowsAssumption, SensorsAssumption
  DEF ServiceInit, ClientInit, ClientTypeOK
<1>3. net = {} /\ boots \in 0 .. MaxBoots
  BY BootsAssumption DEF ServiceInit
<1> QED
  BY <1>1, <1>2, <1>3 DEF ServiceTyped, ServiceTypeOK, TypeInv

\* Every datagram under way is a request of a client's port for a sensor of the hub
\* or an answer to one, and what the client keeps is NotRead or came from an answer.
THEOREM ServiceTypes == ServiceSpec => []ServiceTypeOK
<1>1. ServiceTyped => ServiceTypeOK
  BY DEF ServiceTyped
<1> QED
  BY <1>1, ServiceTypedInit, ServiceTypedNext, PTL DEF ServiceSpec

-----------------------------------------------------------------------------
(* One exchange at a time.                                                 *)

\* The queue of the socket and the hands of the task, for a port.
LEMMA QueuedFrom ==
  ASSUME ServiceTyped
  PROVE  /\ Len(inbox) \in Nat /\ DOMAIN inbox = 1 .. Len(inbox)
         /\ \A i \in DOMAIN inbox : inbox[i] \in Requests
BY LenProperties, ElementOfSeq DEF ServiceTyped, ServiceTypeOK, TypeOK

\* Where no new datagram is, and the client did nothing, the exchange is as it was.
LEMMA ExchangeKept ==
  ASSUME ServiceTyped, ServiceTyped', OneExchange,
         UNCHANGED pollVars,
         net' \subseteq net,
         inbox' = inbox \/ inbox' = <<>>,
         req' = req \/ req' = NoRequest
  PROVE  OneExchange'
<1>1. poll' = poll /\ port' = port /\ asking' = asking /\ port \in Ports
  BY DEF pollVars, ServiceTyped, ServiceTypeOK, ClientTypeOK
<1>2. Asked' \subseteq Asked /\ Answers' \subseteq Answers
  BY DEF Asked, Answers
<1>3. \A i \in DOMAIN inbox' : i \in DOMAIN inbox /\ inbox'[i] = inbox[i]
  OBVIOUS
<1>4. req'.from = port => req' = req
  BY <1>1, NoRequestFrom
<1>5. Fresh(port) => Fresh(port)'
  BY <1>1, <1>2, <1>3, <1>4 DEF Fresh
<1>6. AboutAsked => AboutAsked'
  BY <1>1, <1>2, <1>3, <1>4 DEF AboutAsked, InHand, Request
<1>7. /\ Sent(port)' => Sent(port)
      /\ InSocket(port)' => InSocket(port)
      /\ InHand(port)' => InHand(port)
      /\ Answered(port)' => Answered(port)
  BY <1>1, <1>2, <1>3, <1>4 DEF Sent, InSocket, InHand, Answered
<1>8. OnePlace => OnePlace'
  BY <1>1, <1>2, <1>3, <1>7 DEF OnePlace
<1> QED
  BY <1>1, <1>5, <1>6, <1>8 DEF OneExchange

\* recvfrom takes the request from the socket into the hands of the task.
LEMMA ExchangeReceive ==
  ASSUME ServiceTyped, ServiceTyped', OneExchange, Receive, UNCHANGED <<clientVars, net>>
  PROVE  OneExchange'
<1>1. poll' = poll /\ port' = port /\ asking' = asking /\ net' = net
  BY DEF clientVars, pollVars
<1>2. inbox' = Tail(inbox) /\ req' = Head(inbox) /\ inbox # <<>> /\ inbox \in Seq(Requests)
  BY DEF Receive, ServiceTyped, ServiceTypeOK, TypeOK
<1>3. req' = inbox[1] /\ 1 \in DOMAIN inbox
  BY <1>2, QueuedFrom, EmptySeq
<1>4. \A i \in DOMAIN inbox' : i + 1 \in DOMAIN inbox /\ inbox'[i] = inbox[i + 1] /\ i + 1 # 1
                               /\ i \in Int
  BY <1>2, HeadTailProperties, QueuedFrom
<1>5. Asked' = Asked /\ Answers' = Answers
  BY <1>1 DEF Asked, Answers
<1>6. Fresh(port) => Fresh(port)'
  BY <1>1, <1>3, <1>4, <1>5 DEF Fresh
<1>7. AboutAsked => AboutAsked'
  BY <1>1, <1>3, <1>4, <1>5 DEF AboutAsked, InHand, Request
<1>8. /\ Sent(port)' <=> Sent(port)
      /\ Answered(port)' <=> Answered(port)
      /\ InSocket(port)' => InSocket(port)
      /\ InHand(port)' => InSocket(port)
  BY <1>1, <1>3, <1>4, <1>5 DEF Sent, InSocket, InHand, Answered
<1>9. ASSUME OnePlace PROVE OnePlace'
  <2>1. InHand(port)' => ~InSocket(port)'
    BY <1>1, <1>3, <1>4, <1>9 DEF OnePlace, InHand, InSocket
  <2>2. \A i, j \in DOMAIN inbox' : inbox'[i].from = port' /\ inbox'[j].from = port' => i = j
    BY <1>1, <1>4, <1>9 DEF OnePlace
  <2>3. \A a, b \in Answers' : a.to = port' /\ b.to = port' => a = b
    BY <1>1, <1>5, <1>9 DEF OnePlace
  <2> QED
    BY <1>1, <1>8, <1>9, <2>1, <2>2, <2>3 DEF OnePlace
<1> QED
  BY <1>1, <1>6, <1>7, <1>9 DEF OneExchange

\* sendto: the answer takes the place of the request it answers.
LEMMA ExchangeAnswer ==
  ASSUME ServiceTyped, ServiceTyped', OneExchange, HubAnswers
  PROVE  OneExchange'
<1>1. poll' = poll /\ port' = port /\ asking' = asking /\ port \in Ports
  BY DEF HubAnswers, clientVars, pollVars, ServiceTyped, ServiceTypeOK, ClientTypeOK
<1>2. inbox' = inbox /\ req' = NoRequest /\ req \in Requests
  BY DEF HubAnswers, Answer, ServiceTyped, HandFull
<1> DEFINE a == ServerAnswer(req)
<1>3. a \in Reports /\ a.to = req.from /\ a.about = Decode(req.byte)
  BY <1>2, AnswerFields DEF ServiceTyped
<1>4. Asked' = Asked /\ Answers' = Answers \cup {a}
  BY <1>3, ReportFields DEF HubAnswers, Asked, Answers
<1>5. req'.from # port
  BY <1>1, <1>2, NoRequestFrom
<1> HIDE DEF a
<1>6. Fresh(port) => Fresh(port)'
  BY <1>1, <1>2, <1>3, <1>4, <1>5 DEF Fresh
<1>7. ASSUME AboutAsked PROVE AboutAsked'
  <2>1. req.from = port => Decode(req.byte) = asking
    BY <1>7, RequestTyped, RowsAreSensors
    DEF AboutAsked, InHand, ServiceTyped, ServiceTypeOK, ClientTypeOK
  <2>2. \A b \in Answers' : b.to = port => b.about = asking
    BY <1>3, <1>4, <1>7, <2>1 DEF AboutAsked
  <2> QED
    BY <1>1, <1>2, <1>4, <1>5, <1>7, <2>2 DEF AboutAsked, InHand, Request
<1>8. /\ Sent(port)' <=> Sent(port)
      /\ InSocket(port)' <=> InSocket(port)
      /\ ~InHand(port)'
      /\ Answered(port)' => Answered(port) \/ InHand(port)
  BY <1>1, <1>2, <1>3, <1>4, <1>5 DEF Sent, InSocket, InHand, Answered
<1>9. ASSUME OnePlace PROVE OnePlace'
  <2>1. \A b, c \in Answers' : b.to = port /\ c.to = port => b = c
    BY <1>3, <1>4, <1>9 DEF OnePlace, InHand, Answered
  <2>2. \A i, j \in DOMAIN inbox' : inbox'[i].from = port' /\ inbox'[j].from = port' => i = j
    BY <1>1, <1>2, <1>9 DEF OnePlace
  <2> QED
    BY <1>1, <1>8, <1>9, <2>1, <2>2 DEF OnePlace
<1> QED
  BY <1>1, <1>6, <1>7, <1>9 DEF OneExchange

\* A request reaches the socket.
LEMMA ExchangeArrive ==
  ASSUME ServiceTyped, ServiceTyped', OneExchange, NEW d \in Asked, RequestArrives(d)
  PROVE  OneExchange'
<1>1. poll' = poll /\ port' = port /\ asking' = asking /\ req' = req
  BY DEF RequestArrives, Arrive, clientVars, pollVars, localVars
<1>2. inbox' = Append(inbox, d) /\ inbox \in Seq(Requests) /\ d \in Requests
  BY Kinds DEF RequestArrives, Arrive, ServiceTyped, ServiceTypeOK, TypeOK
<1>3. /\ DOMAIN inbox' = 1 .. Len(inbox) + 1 /\ inbox'[Len(inbox) + 1] = d
      /\ \A i \in DOMAIN inbox : i \in DOMAIN inbox' /\ inbox'[i] = inbox[i]
      /\ \A i \in DOMAIN inbox' : i \in DOMAIN inbox \/ i = Len(inbox) + 1
  BY <1>2, AppendProperties, QueuedFrom
<1>4. \A i \in DOMAIN inbox' : (i \in DOMAIN inbox /\ inbox'[i] = inbox[i]) \/ inbox'[i] = d
  BY <1>3
<1>5. /\ \A e : e \in Asked' <=> e \in Asked /\ e # d
      /\ \A e : e \in Answers' <=> e \in Answers /\ e # d
  BY DEF RequestArrives, Taken, Asked, Answers
<1>6. Fresh(port) => Fresh(port)'
  BY <1>1, <1>4, <1>5 DEF Fresh
<1>7. AboutAsked => AboutAsked'
  BY <1>1, <1>4, <1>5 DEF AboutAsked, InHand, Request
<1>8. ASSUME OnePlace, poll = "wait", AboutAsked PROVE OnePlace'
  <2>1. CASE d.from = port
    <3>1. ~InSocket(port) /\ ~InHand(port) /\ ~Answered(port)
      BY <1>8, <2>1 DEF OnePlace, Sent
    <3>2. ~InHand(port)' /\ ~Answered(port)'
      BY <1>1, <1>5, <3>1 DEF InHand, Answered
    <3>3. ~Sent(port)'
      BY <1>1, <1>5, <1>8, <2>1 DEF Sent, AboutAsked
    <3>4. \A i \in DOMAIN inbox' : inbox'[i].from = port => i = Len(inbox) + 1
      BY <1>3, <3>1 DEF InSocket
    <3> QED
      BY <1>1, <3>2, <3>3, <3>4 DEF OnePlace, Answered
  <2>2. CASE d.from # port
    <3>1. /\ Sent(port)' => Sent(port)
          /\ InSocket(port)' => InSocket(port)
          /\ InHand(port)' <=> InHand(port)
          /\ Answered(port)' => Answered(port)
      BY <1>1, <1>4, <1>5, <2>2 DEF Sent, InSocket, InHand, Answered
    <3>2. \A i \in DOMAIN inbox' : inbox'[i].from = port => i \in DOMAIN inbox /\ inbox[i].from = port
      BY <1>3, <2>2
    <3>3. \A a, b \in Answers' : a.to = port' /\ b.to = port' => a = b
      BY <1>1, <1>5, <1>8 DEF OnePlace
    <3> QED
      BY <1>1, <1>8, <3>1, <3>2, <3>3 DEF OnePlace
  <2> QED
    BY <2>1, <2>2
<1> QED
  BY <1>1, <1>6, <1>7, <1>8 DEF OneExchange

\* sendto of the client: nothing else is under way.
LEMMA ExchangeAsk ==
  ASSUME ServiceTyped, ServiceTyped', OneExchange, ClientAsks
  PROVE  OneExchange'
<1>1. /\ poll = "send" /\ poll' = "wait" /\ port' = port /\ asking' = asking
      /\ inbox' = inbox /\ req' = req
  BY DEF ClientAsks, Ask, vars, serverVars, localVars
<1>2. Fresh(port)
  BY <1>1 DEF OneExchange
<1> DEFINE d == Request(port, asking)
<1>3. d \in Requests
  BY RequestTyped, RowsAreSensors DEF ServiceTyped, ServiceTypeOK, ClientTypeOK
<1>4. Asked' = Asked \cup {d} /\ Answers' = Answers
  BY <1>3, RequestFields DEF ClientAsks, Asked, Answers
<1>5. \A e \in Asked' : e.from = port => e = d
  BY <1>2, <1>4 DEF Fresh
<1>6. ~InSocket(port)' /\ ~InHand(port)' /\ ~Answered(port)'
  BY <1>1, <1>2, <1>4 DEF Fresh, InSocket, InHand, Answered
<1>7. AboutAsked'
  BY <1>1, <1>5, <1>6 DEF AboutAsked, InSocket, InHand, Answered, Request
<1>8. OnePlace'
  BY <1>1, <1>6 DEF OnePlace, InSocket, Answered
<1> QED
  BY <1>1, <1>7, <1>8 DEF OneExchange

\* The answer was the only thing left: the next request has the port for itself.
LEMMA ExchangeStored ==
  ASSUME ServiceTyped, ServiceTyped', OneExchange, NEW a \in Answers, AnswerArrives(a)
  PROVE  OneExchange'
<1>1. /\ poll = "wait" /\ poll' # "wait" /\ port' = port /\ a.to = port
      /\ inbox' = inbox /\ req' = req
  BY DEF AnswerArrives, Stored, vars, serverVars, localVars
<1>2. OnePlace /\ Answered(port)
  BY <1>1 DEF OneExchange, Answered
<1>3. ~Sent(port) /\ ~InSocket(port) /\ ~InHand(port)
  BY <1>2 DEF OnePlace
<1>4. \A b \in Answers' : b \in Answers /\ b # a
  BY DEF AnswerArrives, Taken, Answers
<1>5. \A b \in Answers' : b.to # port
  BY <1>1, <1>2, <1>4 DEF OnePlace
<1>6. Asked' \subseteq Asked
  BY DEF AnswerArrives, Taken, Asked
<1>7. Fresh(port)'
  BY <1>1, <1>3, <1>5, <1>6 DEF Fresh, Sent, InSocket, InHand
<1> QED
  BY <1>1, <1>7 DEF OneExchange

LEMMA ExchangeNext ==
  ASSUME ServiceTyped, ServiceTyped', OneExchange, [ServiceNext]_serviceVars
  PROVE  OneExchange'
<1>1. CASE HubStep /\ ~Receive
  <2>1. inbox' = inbox \/ inbox' = <<>>
    BY <1>1 DEF HubStep, Accept, Refused, SocketFails, BindFails, EndOfPeriod, CallRecv,
      RecvTimeout, CutShort, RecvFails, SendFails, Return, CloseSocket, Tick, Store, serverVars
  <2>2. req' = req \/ req' = NoRequest
    BY <1>1 DEF HubStep, Accept, Refused, SocketFails, BindFails, EndOfPeriod, CallRecv,
      RecvTimeout, CutShort, RecvFails, SendFails, Return, Tick, Store, serverVars, localVars
  <2> QED
    BY <1>1, <2>1, <2>2, ExchangeKept DEF HubStep, clientVars
<1>2. CASE HubStep /\ Receive
  BY <1>2, ExchangeReceive DEF HubStep
<1>3. CASE HubAnswers
  BY <1>3, ExchangeAnswer
<1>4. CASE HubRestarts
  BY <1>4, ExchangeKept DEF HubRestarts, clientVars
<1>5. ASSUME NEW d \in Asked, RequestArrives(d) PROVE OneExchange'
  BY <1>5, ExchangeArrive
<1>6. CASE RunStarts
  <2>1. PICK p \in Ports : Fresh(p) /\ StartRun(p) /\ UNCHANGED <<vars, net, boots>>
    BY <1>6 DEF RunStarts
  <2>2. poll' = "send" /\ port' = p /\ inbox' = inbox /\ req' = req /\ net' = net
    BY <2>1 DEF StartRun, vars, serverVars, localVars
  <2>3. Fresh(port)'
    BY <2>1, <2>2 DEF Fresh, Asked, Answers
  <2> QED
    BY <2>2, <2>3 DEF OneExchange
<1>7. CASE RunEnds
  BY <1>7 DEF RunEnds, RunFails, ThreadDies, OneExchange
<1>8. CASE ClientAsks
  BY <1>8, ExchangeAsk
<1>9. ASSUME NEW a \in Answers, AnswerArrives(a) PROVE OneExchange'
  BY <1>9, ExchangeStored
<1>10. CASE PageStep \/ UNCHANGED serviceVars
  <2>1. UNCHANGED <<pollVars, net, inbox, req>>
    BY <1>10 DEF PageStep, PageSteps, StartPage, MakeRow, serviceVars, clientVars, vars, serverVars,
      localVars
  <2> QED
    BY <2>1, ExchangeKept
<1>11. ASSUME NEW d \in net, Lose(d) PROVE OneExchange'
  <2>1. UNCHANGED <<pollVars, inbox, req>> /\ net' \subseteq net
    BY <1>11 DEF Lose, Taken, clientVars, vars, serverVars, localVars
  <2> QED
    BY <2>1, ExchangeKept
<1> QED
  BY <1>1, <1>2, <1>3, <1>4, <1>5, <1>6, <1>7, <1>8, <1>9, <1>10, <1>11 DEF ServiceNext

-----------------------------------------------------------------------------
(* What is shown.                                                          *)

\* The one step that changes what is shown, and what it stores.
LEMMA ShownChanges ==
  ASSUME ServiceTyped, [ServiceNext]_serviceVars, shown' # shown
  PROVE  \E a \in Answers : AnswerArrives(a)
BY DEF ServiceNext, HubStep, HubAnswers, HubRestarts, RequestArrives, RunStarts, StartRun, RunEnds,
       RunFails, ThreadDies, ClientAsks, Ask, PageStep, PageSteps, StartPage, MakeRow, Lose,
       clientVars, serviceVars

LEMMA StoredFields ==
  ASSUME ServiceTyped, OneExchange, NEW a \in Answers, AnswerArrives(a)
  PROVE  /\ shown' = [shown EXCEPT ![asking] =
                        [about |-> a.about, value |-> a.value, boot |-> a.boot]]
         /\ a \in Reports /\ a.to = port /\ a.about = asking
         /\ poll = "wait" /\ poll' # "wait"
         /\ asking \in Sensors /\ shown \in [Sensors -> Readings \cup {NotRead}]
         /\ cache' = cache /\ boots' = boots
<1>1. /\ poll = "wait" /\ poll' # "wait" /\ a.to = port /\ cache' = cache /\ boots' = boots
      /\ shown' = [shown EXCEPT ![asking] =
                     [about |-> a.about, value |-> a.value, boot |-> a.boot]]
  BY DEF AnswerArrives, Stored, vars
<1>2. a.about = asking
  BY <1>1 DEF OneExchange, AboutAsked
<1>3. a \in Reports
  BY Kinds DEF ServiceTyped
<1>4. asking \in Sensors /\ shown \in [Sensors -> Readings \cup {NotRead}]
  BY RowsAreSensors DEF ServiceTyped, ServiceTypeOK, ClientTypeOK
<1> QED
  BY <1>1, <1>2, <1>3, <1>4

LEMMA RightNext ==
  ASSUME ServiceTyped, OneExchange, RightSensor, [ServiceNext]_serviceVars
  PROVE  RightSensor'
<1>1. CASE shown' = shown
  BY <1>1 DEF RightSensor
<1>2. ASSUME NEW a \in Answers, AnswerArrives(a)
      PROVE  RightSensor'
  BY <1>2, StoredFields DEF RightSensor
<1> QED
  BY <1>1, <1>2, ShownChanges

-----------------------------------------------------------------------------
(* Ages.                                                                   *)

\* What the hub holds of a sensor.
Held(s) == [boot |-> boots, value |-> cache[s]]

Dated(x) == x.boot \in Int /\ x.value \in Int

LEMMA AgesTransitive ==
  ASSUME NEW x, NEW y, NEW z, Dated(x), Dated(y), Dated(z), NotAfter(x, y), NotAfter(y, z)
  PROVE  NotAfter(x, z)
BY DEF Dated, NotAfter

AgesDated ==
  /\ \A s \in Sensors : Dated(shown[s]) /\ Dated(Held(s))
  /\ \A a \in Reports : Dated(a)

LEMMA AgesTyped == ServiceTyped => AgesDated
<1> SUFFICES ASSUME ServiceTyped PROVE AgesDated
  OBVIOUS
<1>1. Values \subseteq Int /\ 0 .. MaxBoots \subseteq Int
  BY SensorsAssumption, BootsAssumption DEF Values
<1>2. ASSUME NEW s \in Sensors
      PROVE  Dated(shown[s]) /\ Dated(Held(s))
  <2>1. shown[s] \in Readings \/ shown[s] = NotRead
    BY RowsAreSensors DEF ServiceTyped, ServiceTypeOK
  <2>2. Dated(shown[s])
    <3>1. CASE shown[s] \in Readings
      BY <1>1, <3>1 DEF Dated, Readings
    <3>2. CASE shown[s] = NotRead
      BY <3>2 DEF Dated, NotRead
    <3> QED
      BY <2>1, <3>1, <3>2
  <2>3. cache[s] \in Values /\ boots \in 0 .. MaxBoots
    BY DEF ServiceTyped, ServiceTypeOK, TypeOK
  <2> QED
    BY <1>1, <2>2, <2>3 DEF Dated, Held
<1>3. ASSUME NEW a \in Reports
      PROVE  Dated(a)
  BY <1>1, ReportFields DEF Dated
<1> QED
  BY <1>2, <1>3 DEF AgesDated

\* What the hub holds grows: within its life by the samples, and over its lives.
LEMMA HeldGrows ==
  ASSUME ServiceTyped, [ServiceNext]_serviceVars
  PROVE  \A s \in Sensors : NotAfter(Held(s), Held(s)')
<1>0. boots \in Int /\ \A s \in Sensors : cache[s] \in Int
  BY SensorsAssumption, BootsAssumption DEF ServiceTyped, ServiceTypeOK, TypeOK, Values
<1>1. CASE UNCHANGED <<cache, boots>>
  BY <1>0, <1>1 DEF Held, NotAfter
<1>2. ASSUME NEW t \in Sensors, Store(t), boots' = boots
      PROVE  \A s \in Sensors : NotAfter(Held(s), Held(s)')
  <2>1. cache \in [Sensors -> Values] /\ cache' = [cache EXCEPT ![t] = @ + 1]
    BY <1>2 DEF ServiceTyped, ServiceTypeOK, TypeOK, Store, CacheSet
  <2>2. \A s \in Sensors : cache'[s] = cache[s] \/ cache'[s] = cache[s] + 1
    BY <2>1
  <2> QED
    BY <1>0, <1>2, <2>2 DEF Held, NotAfter
<1>3. CASE HubRestarts
  BY <1>0, <1>3 DEF HubRestarts, Held, NotAfter
<1>4. CASE HubStep /\ ~(\E s \in Sensors : Store(s))
  BY <1>1, <1>4
  DEF HubStep, Accept, Refused, SocketFails, BindFails, EndOfPeriod, CallRecv, Receive, RecvTimeout,
      CutShort, RecvFails, SendFails, Return, Tick
<1>5. CASE HubAnswers \/ (\E d \in Asked : RequestArrives(d))
  BY <1>1, <1>5 DEF HubAnswers, Answer, RequestArrives, Arrive
<1>6. CASE UNCHANGED <<vars, boots>>
  BY <1>1, <1>6 DEF vars
<1>7. CASE RunStarts \/ RunEnds \/ ClientAsks \/ PageStep \/ UNCHANGED serviceVars
  BY <1>6, <1>7 DEF RunStarts, RunEnds, ClientAsks, PageStep, serviceVars
<1>8. CASE (\E a \in Answers : AnswerArrives(a)) \/ (\E d \in net : Lose(d))
  BY <1>6, <1>8 DEF AnswerArrives, Lose
<1>9. CASE HubStep /\ \E s \in Sensors : Store(s)
  BY <1>2, <1>9 DEF HubStep
<1> QED
  BY <1>3, <1>4, <1>5, <1>7, <1>8, <1>9 DEF ServiceNext

\* AgesOrdered, of the answers under way to the client.
Awaited(a) == poll = "wait" /\ a \in Answers /\ a.to = port

LEMMA AgesHeld ==
  AgesOrdered <=>
    /\ \A s \in Sensors : NotAfter(shown[s], Held(s))
    /\ \A a : Awaited(a) => NotAfter(shown[asking], a) /\ NotAfter(a, Held(asking))
BY DEF AgesOrdered, Held, Awaited

LEMMA AgesHeldNext ==
  AgesOrdered' <=>
    /\ \A s \in Sensors : NotAfter(shown'[s], Held(s)')
    /\ \A a : Awaited(a)' => NotAfter(shown'[asking'], a) /\ NotAfter(a, Held(asking)')
BY DEF AgesOrdered, Held, Awaited, NotAfter, Answers

\* An answer the client waits for was under way already, or the hub sends it now.
LEMMA AwaitedNext ==
  ASSUME ServiceTyped, ServiceTyped', OneExchange, [ServiceNext]_serviceVars, NEW a, Awaited(a)'
  PROVE  /\ asking' = asking /\ shown' = shown
         /\ Awaited(a) \/ (a \in Reports /\ a.boot = boots /\ a.value = cache[asking]
                             /\ boots' = boots /\ cache' = cache)
<1>1. CASE UNCHANGED clientVars /\ a \in Answers
  BY <1>1 DEF Awaited, clientVars, pollVars
<1>2. a \in Answers' /\ a \in Reports /\ poll' = "wait" /\ a.to = port'
  BY KindsNext DEF Awaited, ServiceTyped
<1>3. CASE net' \subseteq net /\ UNCHANGED clientVars
  <2>1. a \in Answers
    BY <1>2, <1>3 DEF Answers
  <2> QED
    BY <1>1, <1>3, <2>1
<1>4. CASE HubAnswers
  <2>1. req \in Requests /\ net' = net \cup {ServerAnswer(req)} /\ UNCHANGED <<clientVars, boots, cache>>
    BY <1>4 DEF HubAnswers, Answer, ServiceTyped, HandFull
  <2>2. CASE a \in Answers
    BY <1>1, <2>1, <2>2
  <2>3. CASE a \notin Answers
    <3>1. a = ServerAnswer(req)
      BY <1>2, <2>1, <2>3 DEF Answers
    <3>2. a.to = req.from /\ a.value = cache[Decode(req.byte)] /\ a.boot = boots
      BY <2>1, <3>1, AnswerFields DEF ServiceTyped
    <3>3. poll = "wait" /\ req.from = port /\ asking' = asking /\ shown' = shown
      BY <1>2, <2>1, <3>2 DEF clientVars, pollVars
    <3>4. req = Request(port, asking)
      BY <3>3 DEF OneExchange, AboutAsked, InHand
    <3>5. Decode(req.byte) = asking
      BY <3>4, RequestTyped, RowsAreSensors DEF ServiceTyped, ServiceTypeOK, ClientTypeOK
    <3> QED
      BY <1>2, <2>1, <3>2, <3>3, <3>5
  <2> QED
    BY <2>2, <2>3
<1>5. CASE HubStep \/ HubRestarts \/ UNCHANGED serviceVars
  BY <1>3, <1>5 DEF HubStep, HubRestarts, serviceVars
<1>6. CASE (\E d \in Asked : RequestArrives(d)) \/ (\E d \in net : Lose(d))
  BY <1>3, <1>6 DEF RequestArrives, Lose, Taken
<1>7. CASE RunStarts \/ RunEnds
  BY <1>2, <1>7 DEF RunStarts, StartRun, RunEnds, RunFails, ThreadDies
<1>8. CASE ClientAsks
  <2>1. poll = "send" /\ port' = port /\ net' = net \cup {Request(port, asking)}
    BY <1>8 DEF ClientAsks, Ask
  <2>2. Request(port, asking) \in Requests
    BY RequestTyped, RowsAreSensors DEF ServiceTyped, ServiceTypeOK, ClientTypeOK
  <2>3. a # Request(port, asking)
    BY <1>2, <2>2, RequestFields DEF Answers
  <2>4. a \in Answers
    BY <1>2, <2>1, <2>3 DEF Answers
  <2> QED
    BY <1>2, <2>1, <2>4 DEF OneExchange, Fresh
<1>9. CASE \E b \in Answers : AnswerArrives(b)
  BY <1>2, <1>9, StoredFields
<1>10. CASE PageStep
  <2>1. UNCHANGED <<pollVars, shown, net>>
    BY <1>10 DEF PageStep, PageSteps, StartPage, MakeRow
  <2> QED
    BY <1>2, <2>1 DEF Awaited, pollVars, Answers
<1> QED
  BY <1>4, <1>5, <1>6, <1>7, <1>8, <1>9, <1>10 DEF ServiceNext

\* What is shown changes to what was read no earlier.
LEMMA ShownGrows ==
  ASSUME ServiceTyped, OneExchange, AgesOrdered, [ServiceNext]_serviceVars
  PROVE  \A s \in Sensors : NotAfter(shown[s], shown'[s])
<1>1. CASE shown' = shown
  BY <1>1, AgesTyped DEF AgesDated, NotAfter, Dated
<1>2. ASSUME NEW a \in Answers, AnswerArrives(a)
      PROVE  \A s \in Sensors : NotAfter(shown[s], shown'[s])
  <2>1. NotAfter(shown[asking], a)
    BY <1>2, StoredFields, AgesHeld DEF Awaited
  <2>2. NotAfter(shown[asking], shown'[asking])
    BY <1>2, <2>1, StoredFields DEF NotAfter
  <2>3. \A s \in Sensors : s # asking => shown'[s] = shown[s]
    BY <1>2, StoredFields
  <2> QED
    BY <2>2, <2>3, AgesTyped DEF AgesDated, NotAfter, Dated
<1> QED
  BY <1>1, <1>2, ShownChanges

LEMMA AgesNext ==
  ASSUME ServiceTyped, ServiceTyped', OneExchange, AgesOrdered, [ServiceNext]_serviceVars
  PROVE  AgesOrdered'
<1>1. \A s \in Sensors : Dated(shown[s]) /\ Dated(Held(s)) /\ Dated(shown'[s]) /\ Dated(Held(s)')
  <2>1. ServiceTyped' => AgesDated'
    BY AgesTyped, PTL
  <2> QED
    BY <2>1, AgesTyped DEF AgesDated
<1>2. \A s \in Sensors : NotAfter(shown'[s], Held(s)')
  <2>1. CASE shown' = shown
    BY <1>1, <2>1, AgesHeld, HeldGrows, AgesTransitive
  <2>2. ASSUME NEW a \in Answers, AnswerArrives(a)
        PROVE  \A s \in Sensors : NotAfter(shown'[s], Held(s)')
    <3>1. NotAfter(a, Held(asking))
      BY <2>2, StoredFields, AgesHeld DEF Awaited
    <3>2. NotAfter(shown'[asking], Held(asking))
      BY <2>2, <3>1, StoredFields DEF NotAfter
    <3>3. \A s \in Sensors : s # asking => shown'[s] = shown[s]
      BY <2>2, StoredFields
    <3>4. \A s \in Sensors : NotAfter(shown'[s], Held(s))
      BY <3>2, <3>3, AgesHeld
    <3> QED
      BY <1>1, <3>4, HeldGrows, AgesTransitive
  <2> QED
    BY <2>1, <2>2, ShownChanges
<1>3. ASSUME NEW a, Awaited(a)'
      PROVE  NotAfter(shown'[asking'], a) /\ NotAfter(a, Held(asking)')
  <2>1. asking' = asking /\ shown' = shown /\ asking \in Sensors
    BY <1>3, AwaitedNext, RowsAreSensors DEF ServiceTyped, ServiceTypeOK, ClientTypeOK
  <2>2. Held(asking)' = [boot |-> boots', value |-> cache'[asking]]
    BY <2>1 DEF Held
  <2>3. CASE Awaited(a)
    <3>1. NotAfter(shown[asking], a) /\ NotAfter(a, Held(asking)) /\ Dated(a)
      BY <2>3, AgesHeld, AgesTyped, Kinds DEF AgesDated, Awaited, ServiceTyped
    <3>2. NotAfter(Held(asking), [boot |-> boots', value |-> cache'[asking]])
      BY <2>1, HeldGrows DEF Held
    <3>3. Dated([boot |-> boots', value |-> cache'[asking]]) /\ Dated(Held(asking))
      BY <1>1, <2>1 DEF Held
    <3> QED
      BY <2>1, <2>2, <3>1, <3>2, <3>3, AgesTransitive
  <2>4. CASE a \in Reports /\ a.boot = boots /\ a.value = cache[asking]
             /\ boots' = boots /\ cache' = cache
    <3>1. Dated(a) /\ NotAfter(shown[asking], Held(asking))
      BY <2>1, <2>4, AgesTyped, AgesHeld DEF AgesDated
    <3> QED
      BY <2>1, <2>2, <2>4, <3>1 DEF NotAfter, Held, Dated
  <2> QED
    BY <1>3, <2>3, <2>4, AwaitedNext
<1> QED
  BY <1>2, <1>3, AgesHeldNext

-----------------------------------------------------------------------------
LEMMA ServiceInvInit ==
  ASSUME ServiceInit
  PROVE  ServiceInv
<1>1. ServiceTyped
  BY ServiceTypedInit
<1>2. OneExchange /\ RightSensor
  BY RowsAreSensors DEF ServiceInit, ClientInit, OneExchange, RightSensor
<1>3. AgesOrdered
  BY RowsAreSensors DEF ServiceInit, ClientInit, Init, CacheInit, AgesOrdered, NotAfter, NotRead
<1> QED
  BY <1>1, <1>2, <1>3 DEF ServiceInv

LEMMA ServiceInvNext ==
  ASSUME ServiceInv, [ServiceNext]_serviceVars
  PROVE  ServiceInv'
BY ServiceTypedNext, ExchangeNext, RightNext, AgesNext DEF ServiceInv

LEMMA ServiceInvariant == ServiceSpec => []ServiceInv
BY ServiceInvInit, ServiceInvNext, PTL DEF ServiceSpec

\* Of what a run of the client sent, one thing at most is left anywhere, and it is
\* about the sensor asked for.
THEOREM OneAtATime == ServiceSpec => []OneExchange
<1>1. ServiceInv => OneExchange
  BY DEF ServiceInv
<1> QED
  BY <1>1, ServiceInvariant, PTL

\* The page never shows for a sensor what was read from another.
THEOREM SensorsTold == ServiceSpec => []RightSensor
<1>1. ServiceInv => RightSensor
  BY DEF ServiceInv
<1> QED
  BY <1>1, ServiceInvariant, PTL

\* From the page over the network to the hub's cache, nothing is older than what
\* it will be replaced by.
THEOREM AgesKept == ServiceSpec => []AgesOrdered
<1>1. ServiceInv => AgesOrdered
  BY DEF ServiceInv
<1> QED
  BY <1>1, ServiceInvariant, PTL

\* No step replaces what is shown by an older reading, also over a restart of the
\* hub.
THEOREM ReadingsGrow == ServiceSpec => NeverOlder
<1>1. ASSUME ServiceInv, [ServiceNext]_serviceVars
      PROVE  [\A s \in Sensors : NotAfter(shown[s], shown'[s])]_serviceVars
  BY <1>1, ShownGrows DEF ServiceInv
<1> QED
  BY <1>1, ServiceInvariant, PTL DEF ServiceSpec, NeverOlder
=============================================================================
