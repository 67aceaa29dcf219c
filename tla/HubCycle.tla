------------------------------ MODULE HubCycle ------------------------------
(***************************************************************************)
(* What the hub bridge promises, without its callbacks, flags and queues   *)
(* (README.md of ble_wifi_hub_bridge, lines 7-13): it uses its one radio   *)
(* for one thing at a time, reads the sensors one after the other and      *)
(* publishes a cycle once every sensor it knows was read again.            *)
(***************************************************************************)
CONSTANT Sensors

VARIABLES
  radio, \* what it is used for: nothing, a scan, or the link to one sensor
  known, \* the sensors read at least once
  fresh  \* the sensors read since the last published cycle

vars == <<radio, known, fresh>>

Idle == [use |-> "idle", sensors |-> Sensors]
Scan == [use |-> "scan", sensors |-> Sensors]
Link(s) == [use |-> "link", sensors |-> {s}]

Init == radio = Idle /\ known = {} /\ fresh = {}

\* From one use of the radio to another only through idleness.
RadioStep == radio' = radio \/ radio = Idle \/ radio' = Idle

Read(s) ==
  /\ radio \in {Link(s), Idle}
  /\ known' = known \cup {s}
  /\ fresh' = fresh \cup {s}

\* Serving the clients takes ten seconds; no connection is kept waiting.
PublishCycle ==
  /\ radio \in {Idle, Scan}
  /\ known \subseteq fresh
  /\ fresh' = {}
  /\ UNCHANGED known

Next ==
  /\ RadioStep
  /\ \/ \E s \in Sensors : Read(s)
     \/ PublishCycle
     \/ UNCHANGED <<known, fresh>>

Spec == Init /\ [][Next]_vars
=============================================================================
