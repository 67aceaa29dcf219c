--------------------------- MODULE SensorsReader ---------------------------
(***************************************************************************)
(* The GATTC functor of ble_sensors_reader.c, seen from the connection     *)
(* manager: which sensors were ever read, which were read in this cycle,   *)
(* and whether the callback in progress serves UDP clients.  The sensor of *)
(* remote i is sensor i (the tables of app_main.c).                        *)
(***************************************************************************)
EXTENDS ConnContext

VARIABLES
  sensor_found, \* remote_sensors[i].found: sensors read at least once
  polled,       \* remote_sensors[i].polled: sensors read in this cycle
  udp           \* which callback, if any, served UDP clients in the last step

readerVars == <<sensor_found, polled, udp>>

Launches == {"none", "after_close", "after_scan"}

ReaderTypeOK ==
  /\ sensor_found \subseteq Apps
  /\ polled \subseteq Apps
  /\ udp \in Launches

ReaderInit ==
  /\ sensor_found = {}
  /\ polled = {}
  /\ udp = "none"

\* Mutant: one polled sensor is enough.
AnyFoundSensorPolled == sensor_found = {} \/ \E i \in sensor_found : i \in polled

AllFoundSensorsPolled == \A i \in Apps : i \in sensor_found => i \in polled

\* Any other step: the functor is not called or changes nothing.
ReaderIdle == udp' = "none" /\ UNCHANGED <<sensor_found, polled>>

\* Mutant: the read does not count for the cycle.
ReaderStoreNotPolled(i) ==
  /\ sensor_found' = sensor_found \cup {i}
  /\ UNCHANGED polled
  /\ udp' = "none"

\* ble_sens_rd_handle_read_char, when the read succeeded.
ReaderStore(i) ==
  /\ sensor_found' = sensor_found \cup {i}
  /\ polled' = polled \cup {i}
  /\ udp' = "none"

\* ble_sens_rd_handle_close: a cycle that is complete is published.
ReaderClose ==
  /\ UNCHANGED sensor_found
  /\ IF AllFoundSensorsPolled
     THEN polled' = {} /\ udp' = "after_close"
     ELSE UNCHANGED polled /\ udp' = "none"

\* gap_ev_handler of app_main.c, the GAP functor: it publishes what there is.
ReaderScanEnded == udp' = "after_scan" /\ UNCHANGED <<sensor_found, polled>>
=============================================================================
