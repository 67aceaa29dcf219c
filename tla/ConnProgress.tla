---------------------------- MODULE ConnProgress ----------------------------
(***************************************************************************)
(* Why the hub goes on: inductive invariants of ConnManager behind         *)
(* FlagsEnd, NoForgottenConnection and EventComing.                        *)
(*                                                                         *)
(* The program is only driven by events, has no timer and looks at no      *)
(* result of most of its calls: it goes on because whatever it waits for   *)
(* is under way, and whatever the handler of an event relies on was        *)
(* brought about before that event was queued.                             *)
(***************************************************************************)
EXTENDS ConnManagerInv

\* Refusals and results for which the code has no second attempt: what FlagsEnd,
\* and beyond it NoForgottenConnection and EventComing, need not to happen.
FlagFaults == {"register", "scan_start"}
LinkFaults == {"close", "service"}
StartFaults == {"open", "scan"}

\* An application main() has started has its interface before anything but a
\* registration is handled.
Registering ==
  /\ \A i \in Apps : i < started => i \in registered \/ Queued("REG", i)
  /\ \A k \in Positions : evq[k].type = "REG" => evq[k].ok

IsWork(e) == IsProcedureEvent(e) \/ (e.type = "OPEN" /\ e.ok)

\* The events of a connection are handled while it lasts or before its CLOSE is: a
\* handler that closes it waits for an event that comes.
WorkOwned ==
  \A k \in Positions : IsWork(evq[k]) =>
    \/ link[evq[k].id] \in {"up", "closing"}
    \/ \E j \in Positions : k < j /\ evq[j].type = "CLOSE" /\ evq[j].id = evq[k].id

\* The end of an attempt is handled before what the connection reports, and after
\* the end of the one before.
OpenAhead ==
  /\ \A j, k \in Positions :
       j < k /\ evq[k].type = "OPEN" => ~IsProcedureEvent(evq[j]) /\ evq[j].type # "CLOSE"
  /\ \A i \in Apps : link[i] = "opening" => \A k \in Positions : ~IsProcedureEvent(evq[k])

\* The search for the service ends after the service was found.
SearchFinds ==
  \A k \in Positions : evq[k].type = "SEARCH_CMPL" =>
    \/ evq[k].id \in service_found
    \/ \E j \in Positions : j < k /\ evq[j] = Event("SEARCH_RES", evq[k].id, TRUE)

\* The chain of an open connection: discovery, search, read.
Chain ==
  \A i \in Apps : link[i] = "up" =>
    \/ pend[i] \cap {"disc", "search", "read"} # {}
    \/ Queued("DIS_SRVC_CMPL", i) \/ Queued("SEARCH_CMPL", i) \/ Queued("READ_CHAR", i)

LinksFound == \A i \in Apps : link[i] # "down" => i \in found

\* The connection to a remote broke that is still noted as found.
ToBeNoted == \E k \in Positions : IsError(evq[k]) /\ evq[k].id \in found

\* What a connection or an attempt leads to: its end, which starts the next step.
LinkDriven == ~Down \/ Has("CLOSE") \/ ToBeNoted

OpeningDriven == opening => LinkDriven

ScanDriven == scan \/ Has("INQ_CMPL") \/ Has("STOPPED")

\* There is always something to start the next step of the cycle.
Driven == started < N \/ Has("REG") \/ ScanDriven \/ LinkDriven

FlagInv == Registering /\ WorkOwned /\ FlagsEnd
LinkInv == OpenAhead /\ SearchFinds /\ Chain
StartInv == LinksFound /\ OpeningDriven /\ Driven

ProgressInv == FlagInv /\ LinkInv /\ StartInv
=============================================================================
