---------------------------- MODULE SensorsCache ----------------------------
(***************************************************************************)
(* sensors_cache.c and atomic.c: one value per sensor, read and written    *)
(* under one spinlock, so that a call is one step.  A value is the number  *)
(* of the sample; 0 is what the cache holds, and serves as a reading of    *)
(* 0 mV, until the sensor was read for the first time.                     *)
(***************************************************************************)
EXTENDS Integers

CONSTANTS
  NumSensors, \* SENSOR_NONE of enum sensor
  MaxValue    \* samples taken of each sensor in a run (a bound of TLC's)

ASSUME SensorsAssumption == NumSensors \in Nat \ {0} /\ MaxValue \in Nat

VARIABLE cache

Sensors == 0 .. NumSensors - 1
Values == 0 .. MaxValue

CacheInit == cache = [s \in Sensors |-> 0]

\* sensors_cache_set, by the reader of the hub, with a new sample.
CacheSet(s) ==
  /\ cache[s] < MaxValue
  /\ cache' = [cache EXCEPT ![s] = @ + 1]

\* sensors_cache_get.
CacheGet(s) == cache[s]
=============================================================================
