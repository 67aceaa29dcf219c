------------------------- MODULE SensorConversions -------------------------
(***************************************************************************)
(* sensors.py: what the page says of a reading.  The code computes with    *)
(* floating-point volts; here every formula is one of integers, from the   *)
(* millivolts of a reading (mv), cleared of its denominators and exact.    *)
(***************************************************************************)
EXTENDS Integers

\* Positions in SENSOR_NAMES.
MagneticField == 0
Photocell == 1
Temperature == 2
Infrared == 3

\* _sens_photocell_estimate_resistance, in ohms: 10 kOhm * (3.3 V - u) / v, where
\* u is the reading scaled to volts twice and v the reading in volts.
Resistance(mv) == (10 * (3300000 - mv)) \div mv

LightDetected(mv) == Resistance(mv) < 30000

\* _sens_temp_denormalize, twice its value.
TwiceVout(mv) == mv + 2 * 1646

\* sens_temp_estimate_temp, in hundredths of a degree rounded down: on the line
\* through 3277 mV at -50 degrees and 538 mV at 150.
CentiDegrees(mv) ==
  -5000 + (20000 * (2 * 3277 - TwiceVout(mv))) \div (2 * (3277 - 538))

\* The photocell's formula has no result for 0 mV; the others always have one.
Convertible(s, mv) == s = Photocell => mv # 0
=============================================================================
