----------------------------- MODULE EdgeDevice -----------------------------
(***************************************************************************)
(* The firmware of an edge device (gatt_server_main.c, adc_sensor.c): the  *)
(* GATT server callbacks on the Bluetooth task, the task that samples the  *)
(* sensor and the task that notifies.  They run on two cores and share     *)
(* service_def and attr_val without a lock, so each access that another    *)
(* task can come between is a step of its own.                             *)
(*                                                                         *)
(* The stack serves one link at a time: advertising ends with a connection *)
(* and only the callbacks start it again.  The connection identifier is    *)
(* therefore always the same one, and client_write_conn is left out, as is *)
(* write_val, which nothing reads.                                         *)
(***************************************************************************)
EXTENDS Integers, Sequences

CONSTANTS
  MaxChange,  \* how often what the sensor measures changes (a bound of TLC's)
  EdgeFaults  \* "adc_init", "adc_read": calls of the ADC driver that may fail;
              \* "service", "char", "descr": attributes that may not be created

ASSUME EdgeAssumption == MaxChange \in Nat \ {0}

VARIABLES
  evq,         \* events queued for gatt_handler and gap_handler
  gatts_if,    \* service_def.gatts_if; 1 stands for the interface in use
  created,     \* the attributes in the stack's table
  copied,      \* the byte a READ in progress has copied
  attr_val,    \* the reading attr_val holds; Placeholder until the first
  initialized, \* sensor.initialized
  sampler,     \* read_temp_task: "off", "delay", "test" or "store"
  rc, res,     \* its locals
  notifier,    \* notify_task: "off", "delay" or "send"
  now,         \* what the sensor measures, told by how often it changed
  link,        \* a central is linked
  adv,         \* the radio advertises
  request,     \* what the linked central has asked and not got
  answer       \* the two bytes of the last reading it got

gattVars == <<evq, gatts_if, created, copied>>
samplerVars == <<initialized, sampler, rc, res>>
stackVars == <<link, adv, request, answer>>
vars == <<gattVars, attr_val, samplerVars, notifier, now, stackVars>>

Placeholder == 0          \* the initial 0x001f of sensor_val, no reading
Nothing == -1
Readings == 1 .. MaxChange
Attributes == {"service", "char", "descr"}
WriteRequests == {"write_descr", "write_char", "write_other"}
Requests == {"read"} \cup WriteRequests
EventTypes == {"REG", "CREATE", "ADD_CHAR", "ADD_CHAR_DESCR", "ADV_DATA_SET_COMPLETE",
               "CONNECT", "DISCONNECT"} \cup Requests

EdgeTypeOK ==
  /\ evq \in Seq(EventTypes) /\ Len(evq) <= 3
  /\ gatts_if \in {0, 1}
  /\ created \subseteq Attributes
  /\ copied \in {Nothing, Placeholder} \cup Readings
  /\ attr_val \in {Placeholder} \cup Readings
  /\ initialized \in BOOLEAN
  /\ sampler \in {"off", "delay", "test", "store"}
  /\ rc \in {0, -1}
  /\ res \in {Nothing} \cup Readings
  /\ notifier \in {"off", "delay", "send"}
  /\ now \in Readings
  /\ link \in BOOLEAN
  /\ adv \in BOOLEAN
  /\ request \in {"none"} \cup Requests
  /\ answer \in ({Nothing, Placeholder} \cup Readings) \X ({Nothing, Placeholder} \cup Readings)

\* service_def, attr_val and sensor as they are defined.
Statics ==
  /\ gatts_if = 0 /\ created = {}
  /\ attr_val = Placeholder
  /\ initialized = FALSE

\* app_main up to the registration.
EdgeInit ==
  /\ Statics
  /\ evq = <<"REG">> /\ copied = Nothing
  /\ sampler = "off" /\ rc = 0 /\ res = Nothing
  /\ notifier = "off"
  /\ now = 1
  /\ link = FALSE /\ adv = FALSE /\ request = "none" /\ answer = <<Nothing, Nothing>>

-----------------------------------------------------------------------------
(* The callbacks, on the Bluetooth task.                                   *)

Handling(type) == evq # <<>> /\ Head(evq) = type /\ UNCHANGED <<samplerVars, notifier, now>>

\* The handler's call ends in the event e.
Call(e) == evq' = Append(Tail(evq), e)

HandleReg ==
  /\ Handling("REG") /\ Call("CREATE")
  /\ UNCHANGED <<gatts_if, created, copied, attr_val, stackVars>>

\* The event reports whether attribute a was created.  The handlers do not look
\* at its status.
Reports(a, needed) ==
  \/ needed \subseteq created /\ created' = created \cup {a}
  \/ (a \in EdgeFaults \/ ~(needed \subseteq created)) /\ UNCHANGED created

\* Mutant: advertising is configured without waiting for the attributes.
HandleCreateEager ==
  /\ Handling("CREATE") /\ Reports("service", {})
  /\ evq' = Tail(evq) \o <<"ADV_DATA_SET_COMPLETE", "ADD_CHAR">>
  /\ UNCHANGED <<gatts_if, copied, attr_val, stackVars>>

HandleCreate ==
  /\ Handling("CREATE") /\ Reports("service", {})
  /\ Call("ADD_CHAR")
  /\ UNCHANGED <<gatts_if, copied, attr_val, stackVars>>

HandleAddChar ==
  /\ Handling("ADD_CHAR") /\ Reports("char", {"service"})
  /\ Call("ADD_CHAR_DESCR")
  /\ UNCHANGED <<gatts_if, copied, attr_val, stackVars>>

HandleAddCharDescr ==
  /\ Handling("ADD_CHAR_DESCR") /\ Reports("descr", {"service"})
  /\ Call("ADV_DATA_SET_COMPLETE")
  /\ UNCHANGED <<gatts_if, copied, attr_val, stackVars>>

\* gap_handler.
HandleAdvDataSet ==
  /\ Handling("ADV_DATA_SET_COMPLETE") /\ evq' = Tail(evq)
  /\ adv' = TRUE
  /\ UNCHANGED <<gatts_if, created, copied, attr_val, link, request, answer>>

\* Mutant: the interface of the connection is not noted.
HandleConnectUnnoted ==
  /\ Handling("CONNECT") /\ evq' = Tail(evq)
  /\ UNCHANGED <<gatts_if, created, copied, attr_val, stackVars>>

HandleConnect ==
  /\ Handling("CONNECT") /\ evq' = Tail(evq)
  /\ gatts_if' = 1
  /\ UNCHANGED <<created, copied, attr_val, stackVars>>

\* memcpy of the two bytes of the value, the low one first ...
HandleReadLow ==
  /\ Handling("read") /\ copied = Nothing
  /\ copied' = attr_val
  /\ UNCHANGED <<evq, gatts_if, created, attr_val, stackVars>>

\* ... and the response.  It reaches the central if the link is still up.
HandleReadHigh ==
  /\ Handling("read") /\ copied # Nothing
  /\ evq' = Tail(evq) /\ copied' = Nothing
  /\ answer' = IF request = "read" THEN <<copied, attr_val>> ELSE answer
  /\ request' = "none"
  /\ UNCHANGED <<gatts_if, created, attr_val, link, adv>>

\* Mutant: a write to another handle is not answered.
HandleWriteSilent ==
  /\ \E w \in WriteRequests : Handling(w)
  /\ evq' = Tail(evq)
  /\ request' = IF Head(evq) = "write_other" THEN request ELSE "none"
  /\ UNCHANGED <<gatts_if, created, copied, attr_val, link, adv, answer>>

\* gatt_handle_write: the value is not kept, whatever the handle, and each of
\* the three branches responds.
HandleWrite ==
  /\ \E w \in WriteRequests : Handling(w)
  /\ evq' = Tail(evq)
  /\ request' = "none"
  /\ UNCHANGED <<gatts_if, created, copied, attr_val, link, adv, answer>>

\* Mutant: ESP_GATT_IF_NONE, which is not 0, marks the end.
HandleDisconnectIfNone ==
  /\ Handling("DISCONNECT") /\ evq' = Tail(evq)
  /\ gatts_if' = 255 /\ adv' = TRUE
  /\ UNCHANGED <<created, copied, attr_val, link, request, answer>>

\* Mutant: the end of the connection is not noted.
HandleDisconnectUnnoted ==
  /\ Handling("DISCONNECT") /\ evq' = Tail(evq)
  /\ adv' = TRUE
  /\ UNCHANGED <<gatts_if, created, copied, attr_val, link, request, answer>>

HandleDisconnect ==
  /\ Handling("DISCONNECT") /\ evq' = Tail(evq)
  /\ gatts_if' = 0
  /\ adv' = TRUE
  /\ UNCHANGED <<created, copied, attr_val, link, request, answer>>

Callback ==
  \/ HandleReg \/ HandleCreate \/ HandleAddChar \/ HandleAddCharDescr \/ HandleAdvDataSet
  \/ HandleConnect \/ HandleReadLow \/ HandleReadHigh \/ HandleWrite \/ HandleDisconnect

-----------------------------------------------------------------------------
(* The main task after the registration, and the two tasks it starts.      *)

\* adc_sensor_init, which may fail at three calls of the driver.
SensorStarts == initialized' = TRUE \/ ("adc_init" \in EdgeFaults /\ UNCHANGED initialized)

\* The tasks are started whether or not the sensor is there.
StartTasks ==
  /\ sampler = "off"
  /\ SensorStarts
  /\ sampler' = "delay" /\ notifier' = "delay"
  /\ UNCHANGED <<gattVars, attr_val, rc, res, now, stackVars>>

\* read_temp_task, after its delay: the sensor is read.
Sample ==
  /\ sampler = "delay" /\ initialized
  /\ sampler' = "test" /\ rc' = 0 /\ res' = now
  /\ UNCHANGED <<gattVars, attr_val, initialized, notifier, now, stackVars>>

\* Mutant: the result of the driver's call is not kept, and res is 0.
SampleFailsUnnoted ==
  /\ sampler = "delay" /\ (~initialized \/ "adc_read" \in EdgeFaults)
  /\ sampler' = "test" /\ rc' = 0 /\ res' = 0
  /\ UNCHANGED <<gattVars, attr_val, initialized, notifier, now, stackVars>>

SampleFails ==
  /\ sampler = "delay" /\ (~initialized \/ "adc_read" \in EdgeFaults)
  /\ sampler' = "test" /\ rc' = -1
  /\ UNCHANGED <<gattVars, attr_val, initialized, res, notifier, now, stackVars>>

\* A reading is kept only if a central is connected at this moment.
TestConnected ==
  /\ sampler = "test"
  /\ sampler' = IF gatts_if > 0 /\ rc = 0 THEN "store" ELSE "delay"
  /\ UNCHANGED <<gattVars, attr_val, initialized, rc, res, notifier, now, stackVars>>

\* One aligned store of both bytes.
StoreReading ==
  /\ sampler = "store" /\ sampler' = "delay"
  /\ attr_val' = res
  /\ UNCHANGED <<gattVars, initialized, rc, res, notifier, now, stackVars>>

\* notify_task tests the interface ...
NotifyTest ==
  /\ notifier = "delay" /\ gatts_if > 0
  /\ notifier' = "send"
  /\ UNCHANGED <<gattVars, attr_val, samplerVars, now, stackVars>>

\* ... and reads it again for the call.  No device of this system subscribes to
\* what is sent.
NotifySend ==
  /\ notifier = "send" /\ notifier' = "delay"
  /\ UNCHANGED <<gattVars, attr_val, samplerVars, now, stackVars>>

-----------------------------------------------------------------------------
(* The central, the radio and the world.                                   *)

CentralConnects ==
  /\ adv
  /\ link' = TRUE /\ adv' = FALSE
  /\ evq' = Append(evq, "CONNECT")
  /\ UNCHANGED <<gatts_if, created, copied, attr_val, samplerVars, notifier, now, request, answer>>

\* The attributes a central can send r to.
AskedOf(r) == CASE r = "read" -> {"char", "descr"} [] r = "write_char" -> {"char"}
                [] r = "write_descr" -> {"descr"} [] OTHER -> Attributes

\* A central finds what there is in the table.
CentralAsks(r) ==
  /\ link /\ request = "none" /\ AskedOf(r) \cap created # {}
  /\ request' = r
  /\ evq' = Append(evq, r)
  /\ UNCHANGED <<gatts_if, created, copied, attr_val, samplerVars, notifier, now, link, adv, answer>>

\* The link is closed, or it breaks.
LinkEnds ==
  /\ link
  /\ link' = FALSE /\ request' = "none"
  /\ evq' = Append(evq, "DISCONNECT")
  /\ UNCHANGED <<gatts_if, created, copied, attr_val, samplerVars, notifier, now, adv, answer>>

Changes ==
  /\ now < MaxChange
  /\ now' = now + 1
  /\ UNCHANGED <<gattVars, attr_val, samplerVars, notifier, stackVars>>

Next ==
  \/ Callback
  \/ StartTasks \/ Sample \/ SampleFails \/ TestConnected \/ StoreReading
  \/ NotifyTest \/ NotifySend
  \/ CentralConnects \/ LinkEnds \/ Changes
  \/ \E r \in Requests : CentralAsks(r)

EdgeSpec == EdgeInit /\ [][Next]_vars

\* The three tasks run, and a reading succeeds again and again.
Fairness ==
  /\ WF_vars(Callback)
  /\ WF_vars(StartTasks) /\ SF_vars(Sample) /\ WF_vars(TestConnected) /\ WF_vars(StoreReading)
  /\ WF_vars(NotifyTest) /\ WF_vars(NotifySend)

EdgeFairSpec == EdgeSpec /\ Fairness

-----------------------------------------------------------------------------
(* Properties.                                                             *)

QueuedEvent(e) == \E k \in DOMAIN evq : evq[k] = e

\* gatts_if, which two other tasks test, tells whether a central is linked, up to
\* what the Bluetooth task has still to handle; no event finds it cleared by the
\* end of an earlier connection.
InterfaceMatches ==
  gatts_if > 0 <=> \/ link /\ ~QueuedEvent("CONNECT")
                   \/ ~link /\ QueuedEvent("DISCONNECT") /\ ~QueuedEvent("CONNECT")

\* A central never finds a table that still grows: the device is reachable only
\* at the end of the chain of set-up events, whichever of them report a failure.
TableFinal == [][adv \/ link => created' = created]_vars

\* What a central reads never goes back to an earlier reading, in either byte,
\* from one answer to the next and from one connection to the next, however the
\* copy of READ and the store of the sampling task fall.
AnswersNeverOlder ==
  [][answer'[1] >= answer[1] /\ answer'[2] >= answer[2]]_vars

\* While a central stays connected, the attribute comes to hold what the sensor
\* measures: a reading dropped for want of a connection is made good.
Published == <>[](link /\ initialized) => <>[](attr_val = now)

\* ... and, if it was created, it is notified again and again.
Notified ==
  <>[](link /\ "char" \in created) => []<><<NotifySend /\ gatts_if > 0>>_vars

\* The device is what the hub takes a remote to be.
Remote == INSTANCE RemoteDevice
            WITH reach <- IF link THEN "linked" ELSE IF adv THEN "advertising" ELSE "quiet",
                 asked <- request # "none"
RemoteSpec == Remote!Spec

\* README.md of the edge device, line 5: "Once the information is read, it
\* publishes it over BLE": with the sampling task in its delay, a central that
\* reads gets the last reading there was.
ReadingsPublished ==
  [][HandleReadLow /\ sampler = "delay" /\ res # Nothing => copied' = res]_vars
=============================================================================
