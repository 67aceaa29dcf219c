----------------------------- MODULE ConnQueue -----------------------------
(***************************************************************************)
(* What waits in the queue of ConnManager: an inductive invariant behind   *)
(* EventsFit, whatever fails.                                              *)
(*                                                                         *)
(* A callback that serves clients takes ten seconds, during which the      *)
(* stack goes on reporting.  A scan may fill the queue with its results,   *)
(* but no connection is attempted before they are handled; the rest stays  *)
(* short as whatever reports much - the end of a connection to every       *)
(* application - happens only when what was reported last has mostly been  *)
(* handled.                                                                *)
(***************************************************************************)
EXTENDS ConnProgress

ChainTypes == {"DIS_SRVC_CMPL", "SEARCH_RES", "SEARCH_CMPL", "READ_CHAR"}

\* The positions of events other than scan results and the ends of scans are at most n.
OthersWithin(n) == \A k \in Positions : evq[k].type \notin GapTypes => k <= n

\* The main task queues one event for each application it starts.
RegistrationsQueued == started < N => Len(evq) <= started

\* What a scan finds in the queue is what was left of registrations or of one broadcast.
BehindScan ==
  scan \/ Has("INQ_RES") \/ Has("INQ_CMPL") \/ Has("REG") => OthersWithin(N)

\* Behind the end of a connection or an attempt waits at most the rest of its broadcast.
BehindEnd ==
  \A k \in Positions : evq[k].type = "CLOSE" \/ IsError(evq[k]) => OthersWithin(k + N)

BehindOpening == \A i \in Apps : link[i] = "opening" => Len(evq) <= N

\* Until its OPEN is handled a connection reports only that its services are known.
JustOpened ==
  \A i \in Apps, k \in Positions : link[i] = "up" /\ evq[k].type = "OPEN" =>
    /\ k <= N + 1 /\ Len(evq) <= k + 1
    /\ pend[i] \subseteq {"disc"}
    /\ pend[i] # {} => Len(evq) = k
    /\ \A j \in Positions : j > k => evq[j].type = "DIS_SRVC_CMPL"

\* From then on there are only its reports.
Working ==
  \A i \in Apps : link[i] \in {"up", "closing"} /\ ~Has("OPEN") =>
    \A k \in Positions : IsProcedureEvent(evq[k])

\* These come one at a time, but for the result of a search and its end.
ReportsInTurn ==
  \A j, k \in Positions : j < k =>
    /\ evq[j].type = "CFG_MTU" => evq[k].type # "CFG_MTU"
    /\ evq[j].type \in ChainTypes /\ evq[k].type \in ChainTypes =>
         evq[j].type = "SEARCH_RES" /\ evq[k].type = "SEARCH_CMPL"

PendingReports ==
  \A i \in Apps :
    /\ "mtu" \in pend[i] => ~Has("CFG_MTU")
    /\ \A p \in pend[i] \ {"mtu"} :
         /\ \A q \in pend[i] \ {"mtu"} : q = p
         /\ \A k \in Positions : evq[k].type \notin ChainTypes

\* Without scan results the queue is short.
OthersFit == ~Has("INQ_RES") => Len(evq) <= 2 * N + 3

QueueInv ==
  /\ OpenAhead
  /\ RegistrationsQueued
  /\ BehindScan /\ BehindEnd /\ BehindOpening
  /\ JustOpened /\ Working /\ ReportsInTurn /\ PendingReports
  /\ OthersFit
=============================================================================
