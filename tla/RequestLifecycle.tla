-------------------------- MODULE RequestLifecycle --------------------------
(***************************************************************************)
(* What the consent flow promises about one request, with no handlers, no  *)
(* clock and no database: a request is verified before it is approved, an  *)
(* approval grants one consent in the same step that closes the request,   *)
(* and a closed request never opens again.                                 *)
(***************************************************************************)
EXTENDS Naturals

CONSTANT Request

VARIABLES
    status,   \* status of each request
    granted   \* how many consents were granted on each request

vars == <<status, granted>>

Open   == {"Pending", "Verified"}
Closed == {"Approved", "Denied", "Expired"}

Init ==
    /\ status = [r \in Request |-> "None"]
    /\ granted = [r \in Request |-> 0]

Move(r, from, to) ==
    /\ status[r] \in from
    /\ status' = [status EXCEPT ![r] = to]

Create(r) == Move(r, {"None"}, "Pending") /\ UNCHANGED granted

Verify(r) == Move(r, {"Pending"}, "Verified") /\ UNCHANGED granted

Approve(r) ==
    /\ Move(r, {"Verified"}, "Approved")
    /\ granted' = [granted EXCEPT ![r] = granted[r] + 1]

Deny(r) == Move(r, Open, "Denied") /\ UNCHANGED granted

(* Lapsing closes an open request; it also relabels a decided one. *)
Lapse(r) == Move(r, Open \cup {"Approved", "Denied"}, "Expired") /\ UNCHANGED granted

Purge(S) ==
    /\ \A r \in S : status[r] \in Open \cup Closed
    /\ status' = [r \in Request |-> IF r \in S THEN "Deleted" ELSE status[r]]
    /\ UNCHANGED granted

Next ==
    \/ \E r \in Request : Create(r) \/ Verify(r) \/ Approve(r) \/ Deny(r) \/ Lapse(r)
    \/ \E S \in SUBSET Request : Purge(S)

Spec == Init /\ [][Next]_vars
=============================================================================
