--------------------------- MODULE MCConnManager ---------------------------
(***************************************************************************)
(* Fault sets for model checking ConnManager.                              *)
(***************************************************************************)
EXTENDS ConnQueue

\* Refusals and negative results after which a handler has a way on.
Survivable == {"stop", "mtu", "search", "attr", "read", "mtu_status", "read_status"}

\* Refusals and results for which the code has no second attempt.
Fatal == {"open", "close", "scan", "register", "service", "scan_start"}

Moving == {"departure", "return", "glitch"}

SurvivableFaults == Survivable \cup Moving \cup {"stranger"}
AllFaults == SurvivableFaults \cup Fatal
=============================================================================
