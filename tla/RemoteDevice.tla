---------------------------- MODULE RemoteDevice ----------------------------
(***************************************************************************)
(* What the hub relies on in a remote device (Advertise, OpenSucceeds,     *)
(* Report and LinkLoss of BleStack, seen from the remote): it advertises   *)
(* unless it is linked, its central asks one thing at a time, and every    *)
(* question is answered unless the link ends first.                        *)
(***************************************************************************)
VARIABLES
  reach, \* "quiet", "advertising" or "linked"
  asked  \* a request of the central is to be answered

vars == <<reach, asked>>

Init == reach = "quiet" /\ asked = FALSE

Advertise == reach = "quiet" /\ reach' = "advertising" /\ UNCHANGED asked
Connect == reach = "advertising" /\ reach' = "linked" /\ UNCHANGED asked
Ask == reach = "linked" /\ ~asked /\ asked' = TRUE /\ UNCHANGED reach
Answer == asked /\ asked' = FALSE /\ UNCHANGED reach
Leave == reach = "linked" /\ reach' = "quiet" /\ asked' = FALSE

Next == Advertise \/ Connect \/ Ask \/ Answer \/ Leave

\* It comes back after every connection, and it answers.
Fairness == WF_vars(Advertise) /\ WF_vars(Answer)

Spec == Init /\ [][Next]_vars /\ Fairness
=============================================================================
