--------------------------- MODULE ConnManagerInv ---------------------------
(***************************************************************************)
(* Why the hub's radio is used for one thing at a time: an inductive       *)
(* invariant of ConnManager.                                               *)
(*                                                                         *)
(* The flags of the context protect a scan, an opening and a closing, but  *)
(* not an open connection, during which all three are FALSE.  What keeps   *)
(* the manager from starting something else then is that no event is left  *)
(* in the queue whose handler would: the events that start something are   *)
(* queued only while no link exists, and in an order in which the last of  *)
(* them is consumed before the next link is up.                            *)
(***************************************************************************)
EXTENDS ConnManager

Positions == 1 .. Len(evq)

Has(type) == \E k \in Positions : evq[k].type = type

\* A disconnection this host did not ask for.
IsError(e) == e.type = "DISCONNECT" /\ ~e.ok
HasError == \E k \in Positions : IsError(evq[k])

Down == \A i \in Apps : link[i] = "down"

IsProcedureEvent(e) ==
  e.type \in {"CFG_MTU", "DIS_SRVC_CMPL", "SEARCH_RES", "SEARCH_CMPL", "READ_CHAR"}

\* Which event may wait behind which.
MayFollow(a, b) ==
  /\ b.type = "REG" => a.type = "REG"
  /\ a.type = "REG" => b.type \in {"REG"} \cup GapTypes
  /\ a.type = "INQ_RES" => b.type \in GapTypes
  /\ a.type = "INQ_CMPL" => b.type = "STOPPED"
  /\ b.type = "STOPPED" => a.type \in {"INQ_RES", "INQ_CMPL"}
  /\ a.type = "STOPPED" => b.type \notin GapTypes
  /\ a.type = "OPEN" => b.type # "OPEN"
  /\ a.type = "CLOSE" \/ IsError(a) => ~IsProcedureEvent(b)

QueueOrder == \A j, k \in Positions : j < k => MayFollow(evq[j], evq[k])

\* Until the last registration is handled nothing but a scan is started.
Starting ==
  /\ started < N => \A k \in Positions : evq[k].type = "REG"
  /\ started < N \/ Has("REG") => found = {} /\ Down /\ ~opening /\ ~closing

\* Scan results and the end of a scan find the radio idle otherwise, and are
\* covered by the flag unless the scan was stopped.
ScanEvents ==
  /\ scan \/ Has("INQ_RES") \/ Has("INQ_CMPL") =>
       Down /\ ~opening /\ ~closing /\ (scanning \/ Has("STOPPED"))
  /\ Has("INQ_CMPL") => ~scan

\* The stop of a scan that had timed out may be reported while the next link
\* is opened, but not later.
StopEvent ==
  Has("STOPPED") =>
    /\ ~scan /\ ~scanning /\ ~closing
    /\ AllRemotesFound(found)
    /\ ~opening => Down /\ \A k \in Positions : evq[k].type \in GapTypes

\* The end of a link leaves no link behind.
EndEvents ==
  /\ Has("CLOSE") \/ HasError => Down
  /\ \A k \in Positions : evq[k].type = "CLOSE" => evq[k].id \in registered

\* A broken link was, or is about to be, noted as a remote to look for ...
BrokenLinks ==
  \A k \in Positions : evq[k].type = "CLOSE" /\ ~evq[k].ok =>
    \/ evq[k].id \notin found
    \/ \E j \in Positions : j < k /\ IsError(evq[j]) /\ evq[j].id = evq[k].id

\* ... and a link closed by this host is the only one that ends.
ClosedLinks ==
  \A k \in Positions : evq[k].type = "CLOSE" /\ evq[k].ok =>
    \A j \in Positions : j # k => evq[j].type \notin {"OPEN", "CLOSE"} /\ ~IsError(evq[j])

OpenEvent ==
  Has("OPEN") => \A i \in Apps : /\ link[i] \notin {"opening", "closing"}
                                 /\ link[i] = "up" => opening

\* What a connection's procedures report is handled before the radio is used
\* for anything else.
ProcedureEvents ==
  \A k \in Positions : IsProcedureEvent(evq[k]) =>
    ~scan /\ \A i \in Apps : i # evq[k].id => link[i] = "down"

PendingUp == \A i \in Apps : pend[i] # {} => link[i] = "up"

LinksRegistered == \A i \in Apps : link[i] # "down" => i \in registered

RadioInv ==
  /\ FlagsCoverRadio
  /\ OneUseOfTheRadio
  /\ QueueOrder
  /\ Starting
  /\ ScanEvents
  /\ StopEvent
  /\ EndEvents
  /\ BrokenLinks
  /\ ClosedLinks
  /\ OpenEvent
  /\ ProcedureEvents
  /\ PendingUp
  /\ LinksRegistered
=============================================================================
