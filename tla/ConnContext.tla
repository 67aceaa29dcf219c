---------------------------- MODULE ConnContext ----------------------------
(***************************************************************************)
(* The search helpers of the hub bridge's connection manager               *)
(* (ble_conn_manager_context.c): the table of GATTC applications, the      *)
(* question whether every target remote has been discovered, and the       *)
(* round-robin choice of the next application to connect.                  *)
(*                                                                         *)
(* Application i has its own target remote (app_main.c declares them in    *)
(* pairs), so "remote i" and "application i" are the same number.  The set *)
(* `found' holds the i whose target_remote->found flag is true.            *)
(***************************************************************************)
EXTENDS Integers, FiniteSetsExt

CONSTANT N                       \* ctx->apps_cnt
ASSUME NAssumption == N \in Nat \ {0}

Apps == 0 .. N - 1

AllRemotesFound(found) == \A i \in Apps : i \in found

\* The target remotes with the name an advertiser gives: its own, or none.
RemotesNamed(device) == {device} \cap Apps

\* Mutant: the search always starts at the head of the table.
NextPrfFromHead(found, cur) == Min(found)

(***************************************************************************)
(* The two loops of ble_conn_mngr_next_prf: the first found application    *)
(* after the cursor, else the first found one from the start of the table  *)
(* (which may be the cursor itself).  Defined for found # {}; with no      *)
(* found remote the function returns NULL and leaves the cursor alone.     *)
(***************************************************************************)
NextPrf(found, cur) ==
  LET after == {i \in found : i > cur}
  IN  IF after # {} THEN Min(after) ELSE Min({i \in found : i <= cur})
=============================================================================
