----------------------------- MODULE DataSubject -----------------------------
(***************************************************************************)
(* The rows the database keeps about one candidate, and their erasure on   *)
(* request of a tenant (DsrService.DeleteAsync): while approvals insert    *)
(* new ones, agents submit applications, and retention removes requests.   *)
(*                                                                         *)
(* A delete reads the candidate, lists the rows in the tenant's scope one  *)
(* table after the other, removes what it listed in one transaction, and   *)
(* removes the candidate if two more queries find nothing left.  It locks  *)
(* nothing; what holds the result together are the foreign keys:           *)
(*   Consent -> Candidate, Application -> Consent   delete cascades;       *)
(*   ConsentRequest -> Consent                      delete is refused.     *)
(* A saved delete of a row that is gone throws, and so does an insertion   *)
(* without its parent, or a second candidate with the same EmailHash.      *)
(*                                                                         *)
(* A request is approved once here, and a consent carries the name of its  *)
(* request; ConsentRequests has the approvals that overlap on one request. *)
(* The list of applications is left out: those it names, and those it      *)
(* misses, go with their consents.                                         *)
(***************************************************************************)
EXTENDS Naturals, FiniteSets

CONSTANTS
    Request,   \* consent requests for the candidate's address
    Tenant,    \* tenants that may ask for the erasure
    Scope,     \* the requests a tenant sees: an agent's own, or those for a board
    MaxRow,    \* bound: ids drawn for candidate rows
    MaxDelete  \* bound: deletes that overlap

ASSUME DataSubjectConstants ==
    /\ Scope \in [Tenant -> SUBSET Request]
    /\ MaxRow \in Nat \ {0}
    /\ MaxDelete \in Nat

VARIABLES
    candidate,  \* id of the candidate's row, 0 for none
    drawn,      \* ids drawn for candidate rows so far
    requests,   \* table ConsentRequests
    consents,   \* table Consents
    apps,       \* table Applications, those of each consent
    approval,   \* the handler that approves a request
    erasure,    \* the delete a tenant has asked for
    claimed,    \* observation: consents whose erasure a tenant in scope has
                \* asked for while they existed or were being approved
    orphaned    \* observation: something ended without tidying up after it

vars == <<candidate, drawn, requests, consents, apps, approval, erasure, claimed, orphaned>>

-----------------------------------------------------------------------------
(* Rows and handlers.                                                      *)

Approval == [stage : {"loaded"}] \cup
            [stage : {"issuing", "saving"},
             candidate : 1..MaxRow,   \* row found, or inserted by the handler
             new : BOOLEAN]           \* still to be inserted

Listing == {"found", "consents"}
Checking == {"saved", "unused", "removing"}

Erasure == [stage : Listing \cup {"listed"} \cup Checking,
            candidate : 1..MaxRow,
            consents : SUBSET Request,  \* tracked, to be removed
            requests : SUBSET Request,
            seen : SUBSET Request,         \* observation: consents at the start,
            dueRequests : SUBSET Request]  \* and requests in scope

Idle == [stage |-> "idle"]

Stored == {r \in Request : requests[r] \in {"open", "approved"}}
Active == {r \in Request : consents[r] = "live"}

TypeOK ==
    /\ candidate \in 0..MaxRow /\ drawn \in 0..MaxRow
    /\ requests \in [Request -> {"none", "open", "approved", "gone"}]
    /\ consents \in [Request -> {"none", "live", "gone"}]
    /\ apps \in [Request -> {"none", "live", "gone"}]
    /\ approval \in [Request -> Approval \cup {Idle}]
    /\ erasure \in [Tenant -> Erasure \cup {Idle}]
    /\ claimed \subseteq Request
    /\ orphaned \in BOOLEAN

Init ==
    /\ candidate = 0 /\ drawn = 0
    /\ requests = [r \in Request |-> "none"]
    /\ consents = [r \in Request |-> "none"]
    /\ apps = [r \in Request |-> "none"]
    /\ approval = [r \in Request |-> Idle]
    /\ erasure = [t \in Tenant |-> Idle]
    /\ claimed = {}
    /\ orphaned = FALSE

Erasing(t) == erasure[t] # Idle

-----------------------------------------------------------------------------
(* Requests, applications, retention.                                      *)

CreateRequest(r) ==
    /\ requests[r] = "none"
    /\ requests' = [requests EXCEPT ![r] = "open"]
    /\ UNCHANGED <<candidate, drawn, consents, apps, approval, erasure, claimed, orphaned>>

Submit(r) ==
    /\ consents[r] = "live" /\ apps[r] = "none"
    /\ apps' = [apps EXCEPT ![r] = "live"]
    /\ UNCHANGED <<candidate, drawn, requests, consents, approval, erasure, claimed, orphaned>>

(* Retention deletes a request days after it could be decided: no approval  *)
(* of it runs, and every delete that runs began after it was approved.      *)
RetentionDelete(r) ==
    /\ r \in Stored /\ approval[r] = Idle
    /\ r \in Active => \A t \in Tenant : Erasing(t) => r \in erasure[t].seen
    /\ requests' = [requests EXCEPT ![r] = "gone"]
    /\ orphaned' = TRUE
    /\ UNCHANGED <<candidate, drawn, consents, apps, approval, erasure, claimed>>

-----------------------------------------------------------------------------
(* Approval (Approve.OnPost).                                              *)

ApprovalAt(r, stage) == approval[r].stage = stage

LoadRequest(r) ==
    /\ approval[r] = Idle
    /\ requests[r] = "open"
    /\ approval' = [approval EXCEPT ![r] = [stage |-> "loaded"]]
    /\ UNCHANGED <<candidate, drawn, requests, consents, apps, erasure, claimed, orphaned>>

(* Variant: the row the query returned is used, if there is one or not. *)
Drawn_Never == drawn

(* A handler that finds no candidate draws the id of a new one. *)
Drawn == IF candidate = 0 THEN drawn + 1 ELSE drawn

LoadCandidate(r) ==
    /\ ApprovalAt(r, "loaded")
    /\ candidate = 0 => drawn < MaxRow
    /\ drawn' = Drawn
    /\ approval' = [approval EXCEPT ![r] =
                      [stage |-> "issuing", new |-> candidate = 0,
                       candidate |-> IF candidate = 0 THEN Drawn ELSE candidate]]
    /\ UNCHANGED <<candidate, requests, consents, apps, erasure, claimed, orphaned>>

(* Issuing the token may rotate the key, whose audit event saves a new      *)
(* candidate ahead of the consent.                                          *)
FlushCandidate(r) ==
    /\ ApprovalAt(r, "issuing")
    /\ approval[r].new /\ candidate = 0
    /\ candidate' = approval[r].candidate
    /\ approval' = [approval EXCEPT ![r].stage = "saving", ![r].new = FALSE]
    /\ UNCHANGED <<drawn, requests, consents, apps, erasure, claimed, orphaned>>

(* Variant: a consent does not refer to its candidate in the database. *)
CanSaveApproval_NoReference(r) == r \in Stored /\ (approval[r].new => candidate = 0)

(* The request's row is still there; the candidate's is, or can be inserted. *)
CanSaveApproval(r) ==
    /\ r \in Stored
    /\ candidate = IF approval[r].new THEN 0 ELSE approval[r].candidate

SaveApproval(r) ==
    /\ approval[r].stage \in {"issuing", "saving"}
    /\ CanSaveApproval(r)
    /\ candidate' = IF approval[r].new THEN approval[r].candidate ELSE candidate
    /\ requests' = [requests EXCEPT ![r] = "approved"]
    /\ consents' = [consents EXCEPT ![r] = "live"]
    /\ approval' = [approval EXCEPT ![r] = Idle]
    /\ claimed' = IF \E t \in Tenant : Erasing(t) /\ r \in Scope[t]
                  THEN claimed \cup {r} ELSE claimed
    /\ UNCHANGED <<drawn, apps, erasure, orphaned>>

(* The save throws, as it must when its rows are gone, or the process ends. *)
ApprovalFails(r) ==
    /\ approval[r] # Idle
    /\ approval' = [approval EXCEPT ![r] = Idle]
    /\ orphaned' = (orphaned \/ ApprovalAt(r, "saving"))
    /\ UNCHANGED <<candidate, drawn, requests, consents, apps, erasure, claimed>>

-----------------------------------------------------------------------------
(* Erasure (DeleteAsync).                                                  *)

At(t, stage) == erasure[t].stage = stage

Continue(t, h) == erasure' = [erasure EXCEPT ![t] = h]

(* Without a candidate's row it returns at once. *)
StartErasure(t) ==
    /\ erasure[t] = Idle
    /\ candidate # 0
    /\ Cardinality({u \in Tenant : Erasing(u)}) < MaxDelete
    /\ Continue(t, [stage |-> "found", candidate |-> candidate, consents |-> {},
                    requests |-> {}, seen |-> Active,
                    dueRequests |-> Stored \cap Scope[t]])
    /\ claimed' = claimed \cup (Active \cap Scope[t])
    /\ UNCHANGED <<candidate, drawn, requests, consents, apps, approval, orphaned>>

(* A live consent belongs to the candidate's row; it is listed when that is *)
(* still the one the delete has loaded.                                     *)
ConsentsOf(id) == IF candidate = id THEN Active ELSE {}

ListConsents(t) ==
    /\ At(t, "found")
    /\ Continue(t, [erasure[t] EXCEPT !.stage = "consents",
                      !.consents = ConsentsOf(erasure[t].candidate) \cap Scope[t]])
    /\ UNCHANGED <<candidate, drawn, requests, consents, apps, approval, claimed, orphaned>>

(* Variant: only requests with a consent are listed. *)
Listed_Approved(t) == Stored \cap erasure[t].consents

Listed(t) == Stored \cap Scope[t]

ListRequests(t) ==
    /\ At(t, "consents")
    /\ Continue(t, [erasure[t] EXCEPT !.stage = "listed", !.requests = Listed(t)])
    /\ UNCHANGED <<candidate, drawn, requests, consents, apps, approval, claimed, orphaned>>

Without(table, S) == [r \in Request |-> IF r \in S /\ table[r] # "none" THEN "gone"
                                                                        ELSE table[r]]

(* Every row to remove is still there. *)
CanRemove(h) ==
    /\ h.consents \subseteq Active
    /\ h.requests \subseteq Stored

SaveErasure(t) ==
    LET h == erasure[t]
    IN  /\ At(t, "listed")
        /\ CanRemove(h)
        /\ consents' = Without(consents, h.consents)
        /\ apps' = Without(apps, h.consents)
        /\ requests' = Without(requests, h.requests)
        /\ Continue(t, [h EXCEPT !.stage = "saved"])
        /\ UNCHANGED <<candidate, drawn, approval, claimed, orphaned>>

NoConsentLeft(t) == ConsentsOf(erasure[t].candidate) = {}

CheckConsents(t) ==
    /\ At(t, "saved")
    /\ IF NoConsentLeft(t) THEN Continue(t, [erasure[t] EXCEPT !.stage = "unused"])
                           ELSE Continue(t, Idle)
    /\ UNCHANGED <<candidate, drawn, requests, consents, apps, approval, claimed, orphaned>>

(* Variant: the list read before the removal is consulted again. *)
NoRequestLeft_AsListed(t) == erasure[t].requests = {}

NoRequestLeft(t) == Stored = {}

CheckRequests(t) ==
    /\ At(t, "unused")
    /\ IF NoRequestLeft(t) THEN Continue(t, [erasure[t] EXCEPT !.stage = "removing"])
                           ELSE Continue(t, Idle)
    /\ UNCHANGED <<candidate, drawn, requests, consents, apps, approval, claimed, orphaned>>

(* Variant: the request does not refer to its consent in the database. *)
CanRemoveCandidate_NoReference(t) == candidate = erasure[t].candidate

(* The row is still there, and no request refers to a consent that would go *)
(* with it.                                                                 *)
CanRemoveCandidate(t) ==
    /\ candidate = erasure[t].candidate
    /\ Stored \cap Active = {}

RemoveCandidate(t) ==
    /\ At(t, "removing")
    /\ CanRemoveCandidate(t)
    /\ candidate' = 0
    /\ consents' = Without(consents, Active)
    /\ apps' = Without(apps, Active)
    /\ Continue(t, Idle)
    /\ UNCHANGED <<drawn, requests, approval, claimed, orphaned>>

(* The row a delete wants to remove is not the candidate's any more.       *)
Replaced(t) == candidate # 0 /\ candidate # erasure[t].candidate

(* The save throws; a save is one transaction. *)
ErasureFails(t) ==
    /\ \/ At(t, "listed") /\ ~CanRemove(erasure[t])
       \/ At(t, "removing") /\ ~CanRemoveCandidate(t)
    /\ Continue(t, Idle)
    /\ orphaned' = (orphaned \/ (At(t, "removing") /\ Replaced(t)))
    /\ UNCHANGED <<candidate, drawn, requests, consents, apps, approval, claimed>>

(* The tenant gives up its call, or the process ends. *)
ErasureInterrupted(t) ==
    /\ Erasing(t)
    /\ Continue(t, Idle)
    /\ orphaned' = (orphaned \/ erasure[t].stage \in Checking)
    /\ UNCHANGED <<candidate, drawn, requests, consents, apps, approval, claimed>>

-----------------------------------------------------------------------------
Approve(r) ==
    LoadRequest(r) \/ LoadCandidate(r) \/ FlushCandidate(r) \/ SaveApproval(r)
    \/ ApprovalFails(r)

Delete(t) ==
    \/ StartErasure(t) \/ ListConsents(t) \/ ListRequests(t) \/ SaveErasure(t)
    \/ CheckConsents(t) \/ CheckRequests(t) \/ RemoveCandidate(t)
    \/ ErasureFails(t) \/ ErasureInterrupted(t)

Next ==
    \/ \E r \in Request : CreateRequest(r) \/ Submit(r) \/ RetentionDelete(r) \/ Approve(r)
    \/ \E t \in Tenant : Delete(t)

Spec == Init /\ [][Next]_vars

-----------------------------------------------------------------------------
(* Properties.                                                             *)

(* A consent disappears only when a tenant that sees it asked for it: the   *)
(* removal of the candidate takes no consent along that another agent got   *)
(* between the two checks and the removal.                                  *)
ErasedOnlyOnRequest == \A r \in Request : consents[r] = "gone" => r \in claimed

(* A delete that got through to its checks has removed whatever was in the  *)
(* tenant's scope when it started, with the applications made since.        *)
ErasureReachesAll ==
    \A t \in Tenant : erasure[t] # Idle /\ erasure[t].stage \in Checking =>
        /\ \A r \in erasure[t].seen \cap Scope[t] : consents[r] = "gone" /\ apps[r] # "live"
        /\ \A r \in erasure[t].dueRequests : requests[r] = "gone"

(* No application outlives its consent, nor a consent its candidate.        *)
NothingDangles ==
    /\ \A r \in Request : apps[r] = "live" => consents[r] = "live"
    /\ Active # {} => candidate # 0

(* Of several deletes that together leave nothing, the last one removes the *)
(* candidate, however their removals and checks overlap: when nothing runs  *)
(* and nothing was cut short, a candidate's row has a request or a consent. *)
(* Cut short is also a delete that outlived the candidate's row: it cannot  *)
(* remove the row that has taken its place.                                 *)
LastEraserRemovesCandidate ==
    /\ ~orphaned /\ candidate # 0
    /\ \A r \in Request : approval[r] = Idle
    /\ \A t \in Tenant : erasure[t] = Idle
    => Stored # {} \/ Active # {}
=============================================================================
