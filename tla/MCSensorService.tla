-------------------------- MODULE MCSensorService --------------------------
(* Two sensors are asked for from two ports.                      *)
EXTENDS SensorService

CONSTANTS p1, p2
TwoPorts == {p1, p2}
MCRequests == [from : Ports, byte : {48, 49}]
NoFaults == {}
HubFaults == {"bind", "recv", "send"}
NoSocket == {"socket"}

-----------------------------------------------------------------------------
(* The conversions of sensors.py, for every reading of twelve bits.        *)

Millivolts == 0 .. 4095

\* The temperature is the one at which the sensor's line gives the voltage: at
\* that many hundredths of a degree or up to one more.
TwiceLine(t) == 2 * 3277 * 20000 - 2 * (3277 - 538) * (t + 5000)
ASSUME TemperatureOnLine ==
  \A mv \in Millivolts :
    /\ TwiceLine(CentiDegrees(mv)) >= 20000 * TwiceVout(mv)
    /\ TwiceLine(CentiDegrees(mv) + 1) < 20000 * TwiceVout(mv)

\* The light threshold of 30 kOhm is crossed at 1.1 V (a voltage divider of
\* 10 kOhm at 3.3 V gives 0.825 V).
ASSUME LightFromElevenHundred == \A mv \in Millivolts \ {0} : LightDetected(mv) <=> mv >= 1100

\* Every reading but one can be put into words.
ASSUME OneHole ==
  \A s \in {MagneticField, Photocell, Temperature, Infrared}, mv \in Millivolts :
    ~Convertible(s, mv) <=> s = Photocell /\ mv = 0
=============================================================================
