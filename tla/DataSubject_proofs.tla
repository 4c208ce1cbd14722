------------------------- MODULE DataSubject_proofs -------------------------
(***************************************************************************)
(* Erasure takes away what was asked for and nothing else, for any number  *)
(* of requests, tenants and overlapping deletes, and any scopes.           *)
(***************************************************************************)
EXTENDS DataSubject, TLAPS

USE DataSubjectConstants

-----------------------------------------------------------------------------
(* Type correctness.                                                       *)

LEMMA ApprovalType ==
  ASSUME TypeOK, NEW r \in Request, Approve(r) PROVE TypeOK'
  <1>1. CASE LoadRequest(r)
    BY <1>1 DEF TypeOK, LoadRequest, Approval
  <1>2. CASE LoadCandidate(r)
    <2>1. drawn' \in 0..MaxRow
      BY <1>2 DEF TypeOK, LoadCandidate, Drawn
    <2>2. [stage |-> "issuing", new |-> candidate = 0,
           candidate |-> IF candidate = 0 THEN Drawn ELSE candidate] \in Approval
      BY <1>2, <2>1 DEF TypeOK, LoadCandidate, Approval, Drawn
    <2>3. QED  BY <1>2, <2>1, <2>2 DEF TypeOK, LoadCandidate
  <1>3. CASE FlushCandidate(r)
    BY <1>3 DEF TypeOK, FlushCandidate, ApprovalAt, Approval, Idle
  <1>4. CASE SaveApproval(r)
    <2>1. candidate' \in 0..MaxRow
      BY <1>4 DEF TypeOK, SaveApproval, Approval, Idle
    <2>2. QED  BY <1>4, <2>1 DEF TypeOK, SaveApproval
  <1>5. CASE ApprovalFails(r)
    BY <1>5 DEF TypeOK, ApprovalFails, ApprovalAt
  <1>6. QED  BY <1>1, <1>2, <1>3, <1>4, <1>5 DEF Approve

LEMMA DeleteType ==
  ASSUME TypeOK, NEW t \in Tenant, Delete(t) PROVE TypeOK'
  <1> DEFINE h == erasure[t]
  <1>1. CASE StartErasure(t)
    BY <1>1 DEF TypeOK, StartErasure, Continue, Erasure, Listing, Active, Stored
  <1>2. ASSUME h # Idle PROVE h \in Erasure
    BY <1>2 DEF TypeOK
  <1>3. CASE ListConsents(t) \/ ListRequests(t)
    <2>1. h \in Erasure
      BY <1>2, <1>3 DEF ListConsents, ListRequests, At, Idle
    <2>2. ConsentsOf(h.candidate) \cap Scope[t] \subseteq Request /\ Listed(t) \subseteq Request
      BY DEF ConsentsOf, Active, Listed, Stored
    <2>3. \A S \in SUBSET Request : /\ [h EXCEPT !.stage = "consents", !.consents = S] \in Erasure
                                   /\ [h EXCEPT !.stage = "listed", !.requests = S] \in Erasure
      BY <2>1 DEF Erasure, Listing
    <2>4. PICK g \in Erasure : Continue(t, g)
      BY <1>3, <2>2, <2>3 DEF ListConsents, ListRequests
    <2>5. QED  BY <1>3, <2>4 DEF TypeOK, ListConsents, ListRequests, Continue
  <1>4. CASE SaveErasure(t)
    <2>1. h \in Erasure
      BY <1>2, <1>4 DEF SaveErasure, At, Idle
    <2>2. [h EXCEPT !.stage = "saved"] \in Erasure
      BY <2>1 DEF Erasure, Checking
    <2>3. erasure' \in [Tenant -> Erasure \cup {Idle}]
      BY <1>4, <2>2 DEF TypeOK, SaveErasure, Continue
    <2>4. QED  BY <1>4, <2>3 DEF TypeOK, SaveErasure, Without
  <1>5. CASE CheckConsents(t) \/ CheckRequests(t)
    BY <1>2, <1>5 DEF TypeOK, CheckConsents, CheckRequests, Continue, Erasure, Checking, At, Idle
  <1>6. CASE RemoveCandidate(t)
    BY <1>6 DEF TypeOK, RemoveCandidate, Continue, Without
  <1>7. CASE ErasureFails(t) \/ ErasureInterrupted(t)
    BY <1>7 DEF TypeOK, ErasureFails, ErasureInterrupted, Continue
  <1>8. QED  BY <1>1, <1>3, <1>4, <1>5, <1>6, <1>7 DEF Delete

LEMMA TypeStep == TypeOK /\ [Next]_vars => TypeOK'
  <1> SUFFICES ASSUME TypeOK, [Next]_vars PROVE TypeOK'
    OBVIOUS
  <1>1. CASE \E r \in Request : CreateRequest(r) \/ Submit(r) \/ RetentionDelete(r)
    <2>1. CASE \E r \in Request : CreateRequest(r)
      BY <2>1 DEF TypeOK, CreateRequest
    <2>2. CASE \E r \in Request : Submit(r)
      BY <2>2 DEF TypeOK, Submit
    <2>3. CASE \E r \in Request : RetentionDelete(r)
      BY <2>3 DEF TypeOK, RetentionDelete
    <2>4. QED  BY <1>1, <2>1, <2>2, <2>3
  <1>2. CASE UNCHANGED vars
    BY <1>2 DEF TypeOK, vars
  <1>3. QED  BY <1>1, <1>2, ApprovalType, DeleteType DEF Next

LEMMA TypeStart == Init => TypeOK
  <1>1. 0 \in 0..MaxRow
    OBVIOUS
  <1>2. QED  BY <1>1 DEF Init, TypeOK

(* Every state has its types: a handler that has its candidate has a row's  *)
(* id, and the id of a row is one that was drawn.                           *)
THEOREM DsrTypeCorrect == Spec => []TypeOK
  BY TypeStart, TypeStep, PTL DEF Spec

-----------------------------------------------------------------------------
(* The invariant.                                                          *)

HasNew(r) == approval[r] # Idle /\ approval[r].stage # "loaded" /\ approval[r].new

(* The id of a candidate still to be inserted is nobody else's. *)
FreshIds ==
    /\ candidate <= drawn
    /\ \A t \in Tenant : Erasing(t) => erasure[t].candidate <= drawn
    /\ \A r \in Request : HasNew(r) =>
          /\ approval[r].candidate <= drawn /\ approval[r].candidate # candidate
          /\ \A q \in Request :
               HasNew(q) /\ approval[q].candidate = approval[r].candidate => q = r
          /\ \A t \in Tenant : Erasing(t) => erasure[t].candidate # approval[r].candidate

(* A request that is not approved, or just being, never had a consent. *)
ApprovedOnce ==
    \A r \in Request : approval[r] # Idle \/ requests[r] \in {"none", "open"}
        => consents[r] = "none"

(* What a delete in progress sees is claimed, what it lists it sees. *)
InScope ==
    \A t \in Tenant : Erasing(t) =>
        /\ Scope[t] \cap Active \subseteq claimed
        /\ erasure[t].consents \subseteq claimed
        /\ erasure[t].requests \subseteq Scope[t]
        /\ erasure[t].dueRequests \subseteq Scope[t]

(* A consent a delete saw when it started was issued, and stays so. *)
SeenIssued ==
    \A t \in Tenant : Erasing(t) => \A r \in erasure[t].seen : consents[r] # "none"

(* Between the checks and the removal, a consent nobody claimed still has   *)
(* its request, which keeps the candidate.                                  *)
Removing(t) ==
    /\ Erasing(t) /\ erasure[t].stage \in {"unused", "removing"}
    /\ candidate = erasure[t].candidate

KeptByRequest ==
    \A t \in Tenant : Removing(t) => Active \ claimed \subseteq Stored

(* ... and came after the delete started. *)
NewSinceCheck == \A t \in Tenant : Removing(t) => Active \cap erasure[t].seen = {}

(* How far a delete is with what it started for in its scope S. *)
Progress(h, S) ==
    /\ h.stage = "found" => \A r \in h.seen \cap S :
          consents[r] = "gone" \/ (consents[r] = "live" /\ candidate = h.candidate)
    /\ h.stage \in {"consents", "listed"} => \A r \in h.seen \cap S :
          consents[r] = "gone" \/ r \in h.consents
    /\ h.stage \in Listing => \A r \in h.dueRequests : requests[r] # "none"
    /\ h.stage = "listed" => \A r \in h.dueRequests : requests[r] = "gone" \/ r \in h.requests
    /\ h.stage \in Checking =>
          /\ \A r \in h.seen \cap S : consents[r] = "gone"
          /\ \A r \in h.dueRequests : requests[r] = "gone"

AllProgress == \A t \in Tenant : Erasing(t) => Progress(erasure[t], Scope[t])

DsrInv ==
    /\ TypeOK /\ FreshIds /\ ApprovedOnce /\ InScope /\ KeptByRequest /\ AllProgress
    /\ SeenIssued /\ NewSinceCheck /\ NothingDangles /\ ErasedOnlyOnRequest

LEMMA InvTypes ==
  ASSUME DsrInv
  PROVE  /\ TypeOK /\ FreshIds /\ ApprovedOnce /\ InScope /\ KeptByRequest /\ AllProgress
         /\ SeenIssued /\ NewSinceCheck /\ NothingDangles /\ ErasedOnlyOnRequest
  BY DEF DsrInv

(* A delete in progress is the one of before the step, or just started. *)
LEMMA DeleteKeeps ==
  ASSUME TypeOK, NEW t \in Tenant, Delete(t)
  PROVE  /\ \A u \in Tenant : u # t => erasure'[u] = erasure[u]
         /\ erasure'[t] # Idle => erasure'[t] \in Erasure
         /\ erasure'[t] # Idle /\ ~StartErasure(t) =>
               /\ Erasing(t)
               /\ erasure'[t].candidate = erasure[t].candidate
               /\ erasure'[t].seen = erasure[t].seen
               /\ erasure'[t].dueRequests = erasure[t].dueRequests
               /\ erasure'[t].consents = erasure[t].consents \/ ListConsents(t)
               /\ erasure'[t].requests = erasure[t].requests \/ ListRequests(t)
         /\ UNCHANGED <<drawn, approval>>
  <1> DEFINE h == erasure[t]
  <1>1. UNCHANGED <<drawn, approval>> /\ TypeOK'
    BY DeleteType
       DEF Delete, StartErasure, ListConsents, ListRequests, SaveErasure, CheckConsents,
           CheckRequests, RemoveCandidate, ErasureFails, ErasureInterrupted
  <1>2. ASSUME h # Idle PROVE h \in Erasure
    BY <1>2 DEF TypeOK
  <1>3. \E g : Continue(t, g)
    BY DEF Delete, StartErasure, ListConsents, ListRequests, SaveErasure, CheckConsents,
           CheckRequests, RemoveCandidate, ErasureFails, ErasureInterrupted
  <1>4. CASE StartErasure(t)
    BY <1>1, <1>3, <1>4 DEF Continue, TypeOK
  <1>5. CASE ListConsents(t) \/ ListRequests(t)
    <2>1. h \in Erasure
      BY <1>2, <1>5 DEF ListConsents, ListRequests, At, Idle
    <2>2. /\ ListConsents(t) => erasure'[t] = [h EXCEPT !.stage = "consents",
                                   !.consents = ConsentsOf(h.candidate) \cap Scope[t]]
          /\ ListRequests(t) => erasure'[t] = [h EXCEPT !.stage = "listed",
                                   !.requests = Listed(t)]
          /\ \A u \in Tenant : u # t => erasure'[u] = erasure[u]
          /\ h # Idle /\ ~StartErasure(t)
      BY <1>5 DEF ListConsents, ListRequests, StartErasure, Continue, TypeOK, Idle, At
    <2>3. CASE ListConsents(t)
      <3>1. /\ erasure'[t].candidate = h.candidate /\ erasure'[t].seen = h.seen
            /\ erasure'[t].dueRequests = h.dueRequests /\ erasure'[t].requests = h.requests
        BY <2>1, <2>2, <2>3 DEF Erasure
      <3>2. QED  BY <1>1, <2>2, <2>3, <3>1 DEF Erasing, TypeOK
    <2>4. CASE ListRequests(t)
      <3>1. /\ erasure'[t].candidate = h.candidate /\ erasure'[t].seen = h.seen
            /\ erasure'[t].dueRequests = h.dueRequests /\ erasure'[t].consents = h.consents
        BY <2>1, <2>2, <2>4 DEF Erasure
      <3>2. QED  BY <1>1, <2>2, <2>4, <3>1 DEF Erasing, TypeOK
    <2>5. QED  BY <1>5, <2>3, <2>4
  <1>6. CASE SaveErasure(t) \/ CheckConsents(t) \/ CheckRequests(t)
    <2>1. h \in Erasure
      BY <1>2, <1>6 DEF SaveErasure, CheckConsents, CheckRequests, At, Idle
    <2>2. QED
      BY <1>1, <1>3, <1>6, <2>1
         DEF SaveErasure, CheckConsents, CheckRequests, Continue, Erasure, Erasing, Idle, At, TypeOK
  <1>7. CASE RemoveCandidate(t) \/ ErasureFails(t) \/ ErasureInterrupted(t)
    BY <1>1, <1>3, <1>7
       DEF RemoveCandidate, ErasureFails, ErasureInterrupted, Continue, Idle, TypeOK
  <1>8. QED  BY <1>4, <1>5, <1>6, <1>7 DEF Delete

LEMMA DeleteStarts ==
  ASSUME TypeOK, NEW t \in Tenant, StartErasure(t)
  PROVE  /\ erasure'[t].stage = "found" /\ erasure'[t].candidate = candidate
         /\ erasure'[t].consents = {} /\ erasure'[t].requests = {}
         /\ erasure'[t].seen = Active
         /\ erasure'[t].dueRequests = Stored \cap Scope[t]
         /\ candidate # 0
         /\ claimed' = claimed \cup (Active \cap Scope[t])
         /\ UNCHANGED <<candidate, drawn, requests, consents, apps, approval, orphaned>>
  BY DEF StartErasure, Continue, TypeOK

(* The tables that the reading steps of a delete leave alone. *)
LEMMA DeleteReads ==
  ASSUME NEW t \in Tenant, Delete(t), ~SaveErasure(t), ~RemoveCandidate(t)
  PROVE  UNCHANGED <<candidate, requests, consents, apps>>
  BY DEF Delete, StartErasure, ListConsents, ListRequests, CheckConsents, CheckRequests,
         ErasureFails, ErasureInterrupted

-----------------------------------------------------------------------------
(* The parts of the invariant, one after the other.                        *)

LEMMA FreshStep == ASSUME DsrInv, [Next]_vars PROVE FreshIds'
  <1>0. TypeOK /\ TypeOK' /\ FreshIds
    BY InvTypes, TypeStep
  <1>1. CASE \/ UNCHANGED vars
             \/ \E r \in Request : CreateRequest(r) \/ Submit(r) \/ RetentionDelete(r)
    BY <1>0, <1>1 DEF FreshIds, HasNew, Erasing, vars, CreateRequest, Submit, RetentionDelete
  <1>2. ASSUME NEW r \in Request, LoadRequest(r) \/ ApprovalFails(r) PROVE FreshIds'
    BY <1>0, <1>2 DEF FreshIds, HasNew, Erasing, LoadRequest, ApprovalFails, Idle, TypeOK
  <1>3. ASSUME NEW r \in Request, LoadCandidate(r) PROVE FreshIds'
    <2>1. CASE candidate # 0
      BY <1>0, <1>3, <2>1 DEF FreshIds, HasNew, Erasing, LoadCandidate, Drawn, TypeOK
    <2>2. CASE candidate = 0
      <3>1. /\ drawn' = drawn + 1 /\ candidate' = 0 /\ erasure' = erasure
            /\ approval' = [approval EXCEPT ![r] = [stage |-> "issuing", new |-> TRUE,
                                                   candidate |-> drawn + 1]]
        BY <1>3, <2>2 DEF LoadCandidate, Drawn
      <3>2. \A q \in Request : HasNew(q) => approval[q] \in Approval /\ approval[q].candidate <= drawn
        BY <1>0 DEF FreshIds, HasNew, TypeOK
      <3>3. QED  BY <1>0, <2>2, <3>1, <3>2 DEF FreshIds, HasNew, Erasing, Erasure, Approval, TypeOK
    <2>3. QED  BY <2>1, <2>2
  <1>4. ASSUME NEW r \in Request, FlushCandidate(r) PROVE FreshIds'
    <2>1. approval[r] \in Approval /\ HasNew(r)
      BY <1>0, <1>4 DEF FlushCandidate, ApprovalAt, HasNew, Idle, TypeOK
    <2>2. /\ ~HasNew(r)' /\ UNCHANGED <<drawn, erasure>> /\ candidate' = approval[r].candidate
          /\ \A q \in Request : q # r => approval'[q] = approval[q]
      BY <1>0, <1>4, <2>1 DEF FlushCandidate, Approval, HasNew, TypeOK
    <2>3. QED  BY <1>0, <2>1, <2>2 DEF FreshIds, HasNew, Erasing
  <1>5. ASSUME NEW r \in Request, SaveApproval(r) PROVE FreshIds'
    <2>1. approval[r] \in Approval /\ approval[r] # Idle /\ approval[r].stage # "loaded"
      BY <1>0, <1>5 DEF SaveApproval, Idle, TypeOK
    <2>2. /\ ~HasNew(r)' /\ UNCHANGED <<drawn, erasure>>
          /\ \A q \in Request : q # r => approval'[q] = approval[q]
          /\ candidate' = IF approval[r].new THEN approval[r].candidate ELSE candidate
      BY <1>0, <1>5 DEF SaveApproval, HasNew, TypeOK
    <2>3. QED  BY <1>0, <2>1, <2>2 DEF FreshIds, HasNew, Erasing
  <1>6. ASSUME NEW t \in Tenant, Delete(t) PROVE FreshIds'
    <2>1. candidate' = candidate \/ candidate' = 0
      BY <1>6, DeleteReads DEF SaveErasure, RemoveCandidate
    <2>2. ASSUME NEW u \in Tenant, Erasing(u)'
          PROVE  \/ Erasing(u) /\ erasure'[u].candidate = erasure[u].candidate
                 \/ erasure'[u].candidate = candidate
      <3>1. CASE u # t
        BY <1>0, <1>6, <2>2, <3>1, DeleteKeeps DEF Erasing
      <3>2. CASE u = t /\ StartErasure(t)
        BY <1>0, <3>2, DeleteStarts
      <3>3. CASE u = t /\ ~StartErasure(t)
        BY <1>0, <1>6, <2>2, <3>3, DeleteKeeps DEF Erasing
      <3>4. QED  BY <3>1, <3>2, <3>3
    <2>3. /\ UNCHANGED <<drawn, approval>>
          /\ \A q \in Request : HasNew(q) => approval[q].candidate # 0
      BY <1>0, <1>6, DeleteKeeps DEF HasNew, TypeOK, Approval
    <2>4. QED  BY <1>0, <2>1, <2>2, <2>3 DEF FreshIds, HasNew, TypeOK
  <1>7. QED  BY <1>1, <1>2, <1>3, <1>4, <1>5, <1>6 DEF Next, Approve

LEMMA OnceStep == ASSUME DsrInv, [Next]_vars PROVE ApprovedOnce'
  <1>0. TypeOK /\ ApprovedOnce
    BY InvTypes
  <1>1. CASE \/ UNCHANGED vars
             \/ \E r \in Request : CreateRequest(r) \/ Submit(r) \/ RetentionDelete(r)
    BY <1>0, <1>1 DEF ApprovedOnce, vars, CreateRequest, Submit, RetentionDelete, TypeOK, Stored
  <1>2. ASSUME NEW r \in Request, Approve(r) PROVE ApprovedOnce'
    BY <1>0, <1>2 DEF ApprovedOnce, Approve, LoadRequest, LoadCandidate, FlushCandidate,
                      SaveApproval, ApprovalFails, ApprovalAt, TypeOK, Idle
  <1>3. ASSUME NEW t \in Tenant, Delete(t) PROVE ApprovedOnce'
    <2>1. UNCHANGED approval
      BY <1>0, <1>3, DeleteKeeps
    <2>2. CASE SaveErasure(t)
      BY <1>0, <2>1, <2>2 DEF ApprovedOnce, SaveErasure, Without, TypeOK
    <2>3. CASE RemoveCandidate(t)
      BY <1>0, <2>1, <2>3 DEF ApprovedOnce, RemoveCandidate, Without, TypeOK
    <2>4. CASE ~SaveErasure(t) /\ ~RemoveCandidate(t)
      BY <1>0, <1>3, <2>1, <2>4, DeleteReads DEF ApprovedOnce
    <2>5. QED  BY <2>2, <2>3, <2>4
  <1>4. QED  BY <1>1, <1>2, <1>3 DEF Next

LEMMA ScopeStep == ASSUME DsrInv, [Next]_vars PROVE InScope'
  <1>0. TypeOK /\ InScope
    BY InvTypes
  <1>1. CASE \/ UNCHANGED vars
             \/ \E r \in Request : CreateRequest(r) \/ Submit(r) \/ RetentionDelete(r)
    BY <1>0, <1>1 DEF InScope, Active, Erasing, vars, CreateRequest, Submit, RetentionDelete
  <1>2. ASSUME NEW r \in Request, Approve(r), ~SaveApproval(r) PROVE InScope'
    BY <1>0, <1>2 DEF InScope, Active, Erasing, Approve, LoadRequest, LoadCandidate,
                      FlushCandidate, ApprovalFails
  <1>3. ASSUME NEW r \in Request, SaveApproval(r) PROVE InScope'
    <2>1. /\ erasure' = erasure /\ Active' \subseteq Active \cup {r}
          /\ claimed \subseteq claimed'
          /\ \A t \in Tenant : Erasing(t) /\ r \in Scope[t] => r \in claimed'
      BY <1>0, <1>3 DEF SaveApproval, Active, TypeOK
    <2>2. QED  BY <1>0, <2>1 DEF InScope, Erasing
  <1>4. ASSUME NEW t \in Tenant, Delete(t) PROVE InScope'
    <2>1. claimed \subseteq claimed'
      BY <1>4 DEF Delete, StartErasure, ListConsents, ListRequests, SaveErasure, CheckConsents,
           CheckRequests, RemoveCandidate, ErasureFails, ErasureInterrupted
    <2>2. Active' \subseteq Active
      <3>1. CASE SaveErasure(t) \/ RemoveCandidate(t)
        BY <1>0, <3>1 DEF SaveErasure, RemoveCandidate, Without, Active, TypeOK
      <3>2. CASE ~SaveErasure(t) /\ ~RemoveCandidate(t)
        BY <1>4, <3>2, DeleteReads DEF Active
      <3>3. QED  BY <3>1, <3>2
    <2>3. ASSUME NEW u \in Tenant, u # t, Erasing(u)'
          PROVE  Erasing(u) /\ erasure'[u] = erasure[u]
      BY <1>0, <1>4, <2>3, DeleteKeeps DEF Erasing
    <2> DEFINE g == erasure'[t]
    <2>4. ASSUME Erasing(t)'
          PROVE  /\ Scope[t] \cap Active' \subseteq claimed' /\ g.consents \subseteq claimed'
                 /\ g.requests \subseteq Scope[t]
                 /\ g.dueRequests \subseteq Scope[t]
      <3>1. CASE StartErasure(t)
        BY <1>0, <2>2, <3>1, DeleteStarts
      <3>2. CASE ~StartErasure(t)
        <4>1. /\ Erasing(t) /\ g.dueRequests = erasure[t].dueRequests
              /\ g.consents = erasure[t].consents \/ ListConsents(t)
              /\ g.requests = erasure[t].requests \/ ListRequests(t)
          BY <1>0, <1>4, <2>4, <3>2, DeleteKeeps DEF Erasing
        <4>2. Scope[t] \cap Active \subseteq claimed /\ erasure[t] \in Erasure
          BY <1>0, <4>1 DEF InScope, Erasing, TypeOK
        <4>3. ListConsents(t) => g.consents \subseteq Scope[t] \cap Active
          BY <1>0, <4>2 DEF ListConsents, Continue, ConsentsOf, Erasure, TypeOK
        <4>4. ListRequests(t) => g.requests \subseteq Scope[t]
          BY <1>0, <4>2 DEF ListRequests, Continue, Listed, Erasure, TypeOK
        <4>5. QED  BY <1>0, <2>1, <2>2, <4>1, <4>2, <4>3, <4>4 DEF InScope
      <3>3. QED  BY <3>1, <3>2
    <2>5. QED
      <3>1. ASSUME NEW u \in Tenant, u # t, Erasing(u)'
            PROVE  /\ Scope[u] \cap Active' \subseteq claimed'
                   /\ erasure'[u].consents \subseteq claimed'
                   /\ erasure'[u].requests \subseteq Scope[u]
                   /\ erasure'[u].dueRequests \subseteq Scope[u]
        BY <1>0, <2>1, <2>2, <2>3, <3>1 DEF InScope
      <3>2. QED  BY <2>4, <3>1 DEF InScope
  <1>5. QED  BY <1>1, <1>2, <1>3, <1>4 DEF Next, Approve

(* A save of a delete takes only consents and requests in scope.            *)
LEMMA SavedErasure ==
  ASSUME DsrInv, NEW t \in Tenant, SaveErasure(t)
  PROVE  /\ Erasing(t) /\ erasure[t] \in Erasure /\ erasure[t].stage = "listed"
         /\ erasure[t].consents \subseteq Active /\ erasure[t].requests \subseteq Stored
         /\ \A r \in Request :
              /\ consents'[r] = IF r \in erasure[t].consents /\ consents[r] # "none"
                                THEN "gone" ELSE consents[r]
              /\ apps'[r] = IF r \in erasure[t].consents /\ apps[r] # "none"
                            THEN "gone" ELSE apps[r]
              /\ requests'[r] = IF r \in erasure[t].requests /\ requests[r] # "none"
                                THEN "gone" ELSE requests[r]
         /\ UNCHANGED <<candidate, claimed>>
  <1>1. Erasing(t) /\ erasure[t] \in Erasure /\ erasure[t].stage = "listed"
    BY InvTypes DEF SaveErasure, At, Erasing, Idle, TypeOK
  <1>2. QED  BY <1>1 DEF SaveErasure, CanRemove, Without

LEMMA RemovedCandidate ==
  ASSUME DsrInv, NEW t \in Tenant, RemoveCandidate(t)
  PROVE  /\ Erasing(t) /\ erasure[t].stage = "removing"
         /\ candidate = erasure[t].candidate /\ candidate' = 0 /\ Stored \cap Active = {}
         /\ \A r \in Request :
              /\ consents'[r] = IF consents[r] = "live" THEN "gone" ELSE consents[r]
              /\ apps'[r] = IF consents[r] = "live" /\ apps[r] # "none" THEN "gone" ELSE apps[r]
         /\ UNCHANGED <<requests, claimed>>
  <1>1. Erasing(t) /\ erasure[t].stage = "removing"
    BY InvTypes DEF RemoveCandidate, At, Erasing, Idle
  <1>2. QED  BY <1>1 DEF RemoveCandidate, CanRemoveCandidate, Without, Active

LEMMA DanglesStep == ASSUME DsrInv, [Next]_vars PROVE NothingDangles'
  <1>0. TypeOK /\ NothingDangles
    BY InvTypes
  <1>1. CASE \/ UNCHANGED vars
             \/ \E r \in Request : CreateRequest(r) \/ Submit(r) \/ RetentionDelete(r)
    BY <1>0, <1>1 DEF NothingDangles, Active, vars, CreateRequest, Submit, RetentionDelete, TypeOK
  <1>2. ASSUME NEW r \in Request, LoadRequest(r) \/ LoadCandidate(r) \/ ApprovalFails(r)
        PROVE  NothingDangles'
    BY <1>0, <1>2 DEF NothingDangles, Active, LoadRequest, LoadCandidate, ApprovalFails
  <1>3. ASSUME NEW r \in Request, FlushCandidate(r) \/ SaveApproval(r) PROVE NothingDangles'
    <2>1. approval[r] \in Approval /\ approval[r].candidate \in 1..MaxRow
      BY <1>0, <1>3 DEF FlushCandidate, SaveApproval, ApprovalAt, Idle, Approval, TypeOK
    <2>2. candidate' # 0
      BY <1>0, <1>3, <2>1 DEF FlushCandidate, SaveApproval, CanSaveApproval
    <2>3. apps' = apps /\ \A q \in Request : consents[q] = "live" => consents'[q] = "live"
      BY <1>0, <1>3 DEF FlushCandidate, SaveApproval, TypeOK
    <2>4. QED  BY <1>0, <2>2, <2>3 DEF NothingDangles
  <1>4. ASSUME NEW t \in Tenant, Delete(t) PROVE NothingDangles'
    <2>1. CASE SaveErasure(t)
      BY <1>0, <2>1, SavedErasure DEF NothingDangles, Active
    <2>2. CASE RemoveCandidate(t)
      BY <1>0, <2>2, RemovedCandidate DEF NothingDangles, Active
    <2>3. CASE ~SaveErasure(t) /\ ~RemoveCandidate(t)
      BY <1>0, <1>4, <2>3, DeleteReads DEF NothingDangles, Active
    <2>4. QED  BY <2>1, <2>2, <2>3
  <1>5. QED  BY <1>1, <1>2, <1>3, <1>4 DEF Next, Approve

LEMMA ClaimsGrow == ASSUME [Next]_vars PROVE claimed \subseteq claimed'
  <1>1. CASE UNCHANGED claimed
    BY <1>1
  <1>2. ASSUME NEW t \in Tenant, Delete(t) PROVE claimed \subseteq claimed'
    BY <1>2 DEF Delete, StartErasure, ListConsents, ListRequests, SaveErasure, CheckConsents,
         CheckRequests, RemoveCandidate, ErasureFails, ErasureInterrupted
  <1>3. ASSUME NEW r \in Request, Approve(r) PROVE claimed \subseteq claimed'
    BY <1>3 DEF Approve, LoadRequest, LoadCandidate, FlushCandidate, SaveApproval, ApprovalFails
  <1>4. QED
    BY <1>1, <1>2, <1>3 DEF Next, vars, CreateRequest, Submit, RetentionDelete

(* How a delete comes to its last two stages. *)
LEMMA CheckStages ==
  ASSUME DsrInv, NEW t \in Tenant, Delete(t), erasure'[t] # Idle,
         erasure'[t].stage \in {"unused", "removing"}
  PROVE  /\ UNCHANGED <<candidate, requests, consents>>
         /\ erasure'[t].candidate = erasure[t].candidate
         /\ \/ ConsentsOf(erasure[t].candidate) = {}
            \/ Erasing(t) /\ erasure[t].stage = "unused"
  <1>0. TypeOK
    BY InvTypes
  <1>1. CASE StartErasure(t)
    BY <1>0, <1>1, DeleteStarts
  <1>2. CASE ~StartErasure(t)
    <2>1. /\ Erasing(t) /\ erasure[t] \in Erasure
          /\ erasure'[t].candidate = erasure[t].candidate
      BY <1>0, <1>2, DeleteKeeps DEF Erasing, TypeOK
    <2>2. CASE CheckConsents(t)
      BY <1>0, <2>1, <2>2 DEF CheckConsents, Continue, NoConsentLeft, TypeOK
    <2>3. CASE CheckRequests(t)
      BY <1>0, <2>1, <2>3 DEF CheckRequests, At
    <2>4. ASSUME ListConsents(t) \/ ListRequests(t) \/ SaveErasure(t) PROVE FALSE
      <3>1. CASE ListConsents(t)
        BY <1>0, <2>1, <3>1 DEF ListConsents, Continue, Erasure, TypeOK
      <3>2. CASE ListRequests(t)
        BY <1>0, <2>1, <3>2 DEF ListRequests, Continue, Erasure, TypeOK
      <3>3. CASE SaveErasure(t)
        BY <1>0, <2>1, <3>3 DEF SaveErasure, Continue, Erasure, TypeOK
      <3>4. QED  BY <2>4, <3>1, <3>2, <3>3
    <2>5. CASE RemoveCandidate(t) \/ ErasureFails(t) \/ ErasureInterrupted(t)
      BY <1>0, <2>5 DEF RemoveCandidate, ErasureFails, ErasureInterrupted, Continue, TypeOK
    <2>6. QED  BY <1>2, <2>2, <2>3, <2>4, <2>5 DEF Delete
  <1>3. QED  BY <1>1, <1>2

LEMMA KeptStep == ASSUME DsrInv, [Next]_vars PROVE KeptByRequest'
  <1>0. TypeOK /\ FreshIds /\ InScope /\ KeptByRequest /\ NewSinceCheck /\ claimed \subseteq claimed'
    BY InvTypes, ClaimsGrow
  <1> SUFFICES ASSUME NEW u \in Tenant, erasure'[u] # Idle,
                      erasure'[u].stage \in {"unused", "removing"},
                      candidate' = erasure'[u].candidate
               PROVE  Active' \ claimed' \subseteq Stored'
    BY DEF KeptByRequest, Removing, Erasing
  <1>1. ASSUME erasure'[u] = erasure[u], candidate' = candidate
        PROVE  Active \ claimed \subseteq Stored
    BY <1>0, <1>1 DEF KeptByRequest, Removing, Erasing
  <1>2. CASE UNCHANGED vars \/ \E r \in Request : CreateRequest(r) \/ Submit(r)
    BY <1>0, <1>1, <1>2 DEF Active, Stored, vars, CreateRequest, Submit, TypeOK
  <1>9. ASSUME NEW r \in Request, RetentionDelete(r) PROVE Active' \ claimed' \subseteq Stored'
    <2>1. /\ UNCHANGED <<candidate, consents, erasure, claimed>>
          /\ Stored \ {r} \subseteq Stored'
      BY <1>0, <1>9 DEF RetentionDelete, Stored, TypeOK
    <2>2. Removing(u) /\ Erasing(u)
      BY <2>1 DEF Removing, Erasing
    <2>3. r \notin Active
      BY <1>0, <1>9, <2>2 DEF RetentionDelete, NewSinceCheck
    <2>4. QED  BY <1>1, <2>1, <2>3 DEF Active
  <1>3. ASSUME NEW r \in Request, LoadRequest(r) \/ LoadCandidate(r) \/ ApprovalFails(r)
        PROVE  Active' \ claimed' \subseteq Stored'
    BY <1>0, <1>1, <1>3 DEF Active, Stored, LoadRequest, LoadCandidate, ApprovalFails
  <1>4. ASSUME NEW r \in Request, FlushCandidate(r) PROVE FALSE
    <2>1. HasNew(r) /\ candidate' = approval[r].candidate /\ erasure' = erasure
      BY <1>4 DEF FlushCandidate, ApprovalAt, HasNew, Idle
    <2>2. QED  BY <1>0, <2>1 DEF FreshIds, Erasing
  <1>5. ASSUME NEW r \in Request, SaveApproval(r) PROVE Active' \ claimed' \subseteq Stored'
    <2>1. /\ erasure' = erasure /\ r \in Stored' /\ Stored \subseteq Stored'
          /\ Active' \subseteq Active \cup {r}
          /\ approval[r].stage # "loaded" /\ approval[r] # Idle
          /\ candidate' = IF approval[r].new THEN approval[r].candidate ELSE candidate
      BY <1>0, <1>5 DEF SaveApproval, Active, Stored, Idle, TypeOK
    <2>2. ~approval[r].new
      BY <1>0, <2>1 DEF FreshIds, HasNew, Erasing
    <2>3. QED  BY <1>0, <1>1, <2>1, <2>2
  <1>6. ASSUME NEW t \in Tenant, Delete(t), t # u PROVE Active' \ claimed' \subseteq Stored'
    <2>1. erasure'[u] = erasure[u] /\ erasure[u].candidate \in 1..MaxRow
      BY <1>0, <1>6, DeleteKeeps DEF TypeOK, Erasure
    <2>2. CASE SaveErasure(t)
      <3>1. /\ candidate' = candidate /\ Erasing(t) /\ Active' \subseteq Active
            /\ Stored \ erasure[t].requests \subseteq Stored'
        BY <2>2, SavedErasure DEF Active, Stored
      <3>2. /\ erasure[t].requests \subseteq Scope[t]
            /\ Scope[t] \cap Active \subseteq claimed
        BY <1>0, <3>1 DEF InScope
      <3>3. Active \ claimed \subseteq Stored
        BY <1>1, <2>1, <3>1
      <3>4. QED  BY <1>0, <3>1, <3>2, <3>3
    <2>3. CASE RemoveCandidate(t)
      BY <2>1, <2>3, RemovedCandidate
    <2>4. CASE ~SaveErasure(t) /\ ~RemoveCandidate(t)
      BY <1>0, <1>1, <1>6, <2>1, <2>4, DeleteReads DEF Active, Stored
    <2>5. QED  BY <2>2, <2>3, <2>4
  <1>7. CASE Delete(u)
    <2>1. /\ UNCHANGED <<candidate, requests, consents>>
          /\ erasure'[u].candidate = erasure[u].candidate
          /\ \/ ConsentsOf(erasure[u].candidate) = {}
             \/ Erasing(u) /\ erasure[u].stage = "unused"
      BY <1>7, CheckStages
    <2>2. Active \ claimed \subseteq Stored
      BY <1>0, <2>1 DEF KeptByRequest, Removing, ConsentsOf
    <2>3. QED  BY <1>0, <2>1, <2>2 DEF Active, Stored
  <1>8. QED  BY <1>2, <1>3, <1>4, <1>5, <1>6, <1>7, <1>9 DEF Next, Approve

(* What is gone stays gone, and a consent keeps its candidate's row. *)
LEMMA Forward ==
  ASSUME DsrInv, [Next]_vars, NEW r \in Request
  PROVE  /\ consents[r] = "gone" => consents'[r] = "gone"
         /\ consents[r] = "live" => \/ consents'[r] = "gone"
                                    \/ consents'[r] = "live" /\ candidate' = candidate
         /\ requests[r] = "gone" => requests'[r] = "gone"
         /\ requests[r] # "none" => requests'[r] # "none"
  <1>0. TypeOK /\ ApprovedOnce /\ NothingDangles
    BY InvTypes
  <1>1. CASE \/ UNCHANGED vars
             \/ \E q \in Request : CreateRequest(q) \/ Submit(q) \/ RetentionDelete(q)
    BY <1>0, <1>1 DEF vars, CreateRequest, Submit, RetentionDelete, TypeOK
  <1>2. ASSUME NEW q \in Request, LoadRequest(q) \/ LoadCandidate(q) \/ ApprovalFails(q)
        PROVE  UNCHANGED <<candidate, consents, requests>>
    BY <1>2 DEF LoadRequest, LoadCandidate, ApprovalFails
  <1>3. ASSUME NEW q \in Request, FlushCandidate(q)
        PROVE  UNCHANGED <<consents, requests>> /\ consents[r] # "live"
    BY <1>0, <1>3 DEF FlushCandidate, NothingDangles, Active
  <1>4. ASSUME NEW q \in Request, SaveApproval(q)
        PROVE  /\ consents' = [consents EXCEPT ![q] = "live"] /\ consents[q] = "none"
               /\ requests' = [requests EXCEPT ![q] = "approved"] /\ requests[q] # "gone"
               /\ consents[r] = "live" => candidate' = candidate
    BY <1>0, <1>4 DEF SaveApproval, CanSaveApproval, Stored, NothingDangles, Active,
                      ApprovedOnce, Idle
  <1>5. ASSUME NEW t \in Tenant, SaveErasure(t)
        PROVE  /\ consents[r] = "live" => consents'[r] \in {"live", "gone"}
               /\ consents[r] = "gone" => consents'[r] = "gone"
               /\ requests'[r] \in {requests[r], "gone"} /\ candidate' = candidate
    BY <1>5, SavedErasure
  <1>6. ASSUME NEW t \in Tenant, RemoveCandidate(t)
        PROVE  /\ consents[r] \in {"live", "gone"} => consents'[r] = "gone"
               /\ requests' = requests
    BY <1>6, RemovedCandidate
  <1>7. ASSUME NEW t \in Tenant, Delete(t), ~SaveErasure(t), ~RemoveCandidate(t)
        PROVE  UNCHANGED <<candidate, consents, requests>>
    BY <1>7, DeleteReads
  <1>8. CASE \E q \in Request : SaveApproval(q)
    BY <1>0, <1>4, <1>8 DEF TypeOK
  <1>9. QED  BY <1>1, <1>2, <1>3, <1>5, <1>6, <1>7, <1>8 DEF Next, Approve

LEMMA SeenStep == ASSUME DsrInv, [Next]_vars PROVE SeenIssued'
  <1>0. TypeOK /\ SeenIssued
    BY InvTypes
  <1> SUFFICES ASSUME NEW u \in Tenant, erasure'[u] # Idle, NEW r \in erasure'[u].seen
               PROVE  consents'[r] # "none"
    BY DEF SeenIssued, Erasing
  <1>1. TypeOK'
    BY <1>0, TypeStep
  <1>2. r \in Request
    BY <1>1 DEF TypeOK, Erasure
  <1>3. consents[r] # "none" => consents'[r] # "none"
    BY <1>0, <1>2, Forward DEF TypeOK
  <1>4. ASSUME erasure'[u] = erasure[u] PROVE consents[r] # "none"
    BY <1>0, <1>4 DEF SeenIssued, Erasing
  <1>5. CASE UNCHANGED erasure
    BY <1>3, <1>4, <1>5
  <1>6. ASSUME NEW t \in Tenant, Delete(t), t # u PROVE consents[r] # "none"
    BY <1>0, <1>4, <1>6, DeleteKeeps
  <1>7. CASE StartErasure(u)
    BY <1>0, <1>3, <1>7, DeleteStarts DEF Active
  <1>8. CASE Delete(u) /\ ~StartErasure(u)
    BY <1>0, <1>3, <1>8, DeleteKeeps DEF SeenIssued
  <1>9. UNCHANGED erasure \/ \E t \in Tenant : Delete(t)
    BY DEF Next, vars, CreateRequest, Submit, RetentionDelete, Approve, LoadRequest,
           LoadCandidate, FlushCandidate, SaveApproval, ApprovalFails
  <1>10. QED  BY <1>3, <1>5, <1>6, <1>7, <1>8, <1>9

LEMMA SinceStep == ASSUME DsrInv, [Next]_vars PROVE NewSinceCheck'
  <1>0. TypeOK /\ FreshIds /\ ApprovedOnce /\ SeenIssued /\ NewSinceCheck
    BY InvTypes
  <1> SUFFICES ASSUME NEW u \in Tenant, erasure'[u] # Idle,
                      erasure'[u].stage \in {"unused", "removing"},
                      candidate' = erasure'[u].candidate
               PROVE  Active' \cap erasure'[u].seen = {}
    BY DEF NewSinceCheck, Removing, Erasing
  <1>1. ASSUME erasure'[u] = erasure[u], candidate' = candidate
        PROVE  Active \cap erasure'[u].seen = {}
    BY <1>0, <1>1 DEF NewSinceCheck, Removing, Erasing
  <1>2. CASE UNCHANGED <<candidate, consents, erasure>>
    BY <1>1, <1>2 DEF Active
  <1>3. ASSUME NEW r \in Request, FlushCandidate(r) PROVE FALSE
    <2>1. HasNew(r) /\ candidate' = approval[r].candidate /\ erasure' = erasure
      BY <1>3 DEF FlushCandidate, ApprovalAt, HasNew, Idle
    <2>2. QED  BY <1>0, <2>1 DEF FreshIds, Erasing
  <1>4. ASSUME NEW r \in Request, SaveApproval(r) PROVE Active' \cap erasure'[u].seen = {}
    <2>1. /\ erasure' = erasure /\ Active' \subseteq Active \cup {r}
          /\ approval[r].stage # "loaded" /\ approval[r] # Idle
          /\ candidate' = IF approval[r].new THEN approval[r].candidate ELSE candidate
      BY <1>0, <1>4 DEF SaveApproval, Active, Idle, TypeOK
    <2>2. ~approval[r].new
      BY <1>0, <2>1 DEF FreshIds, HasNew, Erasing
    <2>3. r \notin erasure[u].seen
      BY <1>0, <2>1 DEF ApprovedOnce, SeenIssued, Erasing
    <2>4. QED  BY <1>1, <2>1, <2>2, <2>3
  <1>5. ASSUME NEW t \in Tenant, Delete(t), t # u PROVE Active' \cap erasure'[u].seen = {}
    <2>1. erasure'[u] = erasure[u] /\ erasure[u].candidate \in 1..MaxRow
      BY <1>0, <1>5, DeleteKeeps DEF TypeOK, Erasure
    <2>2. CASE SaveErasure(t)
      BY <1>1, <2>1, <2>2, SavedErasure DEF Active
    <2>3. CASE RemoveCandidate(t)
      BY <2>1, <2>3, RemovedCandidate
    <2>4. CASE ~SaveErasure(t) /\ ~RemoveCandidate(t)
      BY <1>1, <1>5, <2>1, <2>4, DeleteReads DEF Active
    <2>5. QED  BY <2>2, <2>3, <2>4
  <1>6. CASE Delete(u)
    <2>1. /\ UNCHANGED <<candidate, consents>>
          /\ erasure'[u].candidate = erasure[u].candidate
          /\ \/ ConsentsOf(erasure[u].candidate) = {}
             \/ Erasing(u) /\ erasure[u].stage = "unused"
      BY <1>6, CheckStages
    <2>2. ~StartErasure(u)
      BY <1>0, DeleteStarts
    <2>3. erasure'[u].seen = erasure[u].seen
      BY <1>0, <1>6, <2>2, DeleteKeeps
    <2>4. Active \cap erasure[u].seen = {}
      BY <1>0, <2>1 DEF NewSinceCheck, Removing, ConsentsOf
    <2>5. QED  BY <2>1, <2>3, <2>4 DEF Active
  <1>7. \/ UNCHANGED <<candidate, consents, erasure>>
        \/ \E r \in Request : FlushCandidate(r) \/ SaveApproval(r)
        \/ \E t \in Tenant : Delete(t)
    BY DEF Next, vars, CreateRequest, Submit, RetentionDelete, Approve, LoadRequest,
           LoadCandidate, ApprovalFails
  <1>8. QED  BY <1>2, <1>3, <1>4, <1>5, <1>6, <1>7

LEMMA ProgressKept ==
  ASSUME DsrInv, [Next]_vars, NEW t \in Tenant, Erasing(t), erasure'[t] = erasure[t]
  PROVE  Progress(erasure[t], Scope[t])'
  <1>1. Progress(erasure[t], Scope[t]) /\ erasure[t] \in Erasure
    BY InvTypes DEF AllProgress, Erasing, TypeOK
  <1>2. QED  BY <1>1, Forward DEF Progress, Erasure, Checking

LEMMA ProgressMade ==
  ASSUME DsrInv, [Next]_vars, NEW t \in Tenant, Delete(t), erasure'[t] # Idle
  PROVE  Progress(erasure[t], Scope[t])'
  <1> DEFINE h == erasure[t]
  <1> DEFINE g == erasure'[t]
  <1>0. TypeOK /\ InScope /\ AllProgress
    BY InvTypes
  <1>1. CASE StartErasure(t)
    <2>1. /\ g.stage = "found" /\ g.candidate = candidate
          /\ g.seen = Active /\ g.dueRequests = Stored \cap Scope[t]
          /\ UNCHANGED <<candidate, requests, consents>>
      BY <1>0, <1>1, DeleteStarts
    <2>2. QED  BY <2>1 DEF Progress, Active, Stored, Checking, Listing
  <1>2. CASE ~StartErasure(t)
    <2>1. /\ h \in Erasure /\ Progress(h, Scope[t]) /\ Erasing(t)
          /\ g.candidate = h.candidate /\ g.seen = h.seen /\ g.dueRequests = h.dueRequests
          /\ h.dueRequests \subseteq Scope[t]
      BY <1>0, <1>2, DeleteKeeps DEF InScope, AllProgress, Erasing, TypeOK
    <2>2. CASE ListConsents(t)
      <3>1. /\ h.stage = "found" /\ g.stage = "consents"
            /\ g.consents = ConsentsOf(h.candidate) \cap Scope[t]
            /\ UNCHANGED <<consents, requests>>
        BY <1>0, <2>1, <2>2 DEF ListConsents, At, Continue, Erasure, TypeOK
      <3>2. ASSUME NEW r \in h.seen \cap Scope[t] PROVE consents[r] = "gone" \/ r \in g.consents
        BY <1>0, <2>1, <3>1, <3>2 DEF Progress, ConsentsOf, Active, Erasure
      <3>3. QED  BY <2>1, <3>1, <3>2 DEF Progress, Listing, Checking
    <2>3. CASE ListRequests(t)
      <3>1. /\ h.stage = "consents" /\ g.stage = "listed" /\ g.consents = h.consents
            /\ g.requests = Stored \cap Scope[t] /\ UNCHANGED <<consents, requests>>
        BY <1>0, <2>1, <2>3 DEF ListRequests, Listed, At, Continue, Erasure, TypeOK
      <3>2. ASSUME NEW r \in h.dueRequests PROVE requests[r] = "gone" \/ r \in g.requests
        BY <1>0, <2>1, <3>1 DEF Progress, Stored, Erasure, Listing, TypeOK
      <3>3. QED  BY <2>1, <3>1, <3>2 DEF Progress, Listing, Checking
    <2>4. CASE SaveErasure(t)
      <3>1. g.stage = "saved"
        BY <1>0, <2>1, <2>4 DEF SaveErasure, Continue, Erasure, TypeOK
      <3>2. /\ h.stage = "listed" /\ h.consents \subseteq Active /\ h.requests \subseteq Stored
            /\ \A r \in Request :
                 /\ r \in h.consents \/ consents[r] = "gone" => consents'[r] = "gone"
                 /\ r \in h.requests \/ requests[r] = "gone" => requests'[r] = "gone"
        BY <2>4, SavedErasure DEF Active, Stored
      <3>3. QED  BY <2>1, <3>1, <3>2 DEF Progress, Listing, Checking, Erasure
    <2>5. CASE CheckConsents(t) \/ CheckRequests(t)
      <3>1. h.stage \in Checking /\ g.stage \in Checking /\ UNCHANGED <<consents, requests>>
        BY <1>0, <2>1, <2>5 DEF CheckConsents, CheckRequests, At, Continue, Erasure, Checking, TypeOK
      <3>2. QED  BY <2>1, <3>1 DEF Progress, Listing, Checking
    <2>6. CASE RemoveCandidate(t) \/ ErasureFails(t) \/ ErasureInterrupted(t)
      BY <1>0, <2>6 DEF RemoveCandidate, ErasureFails, ErasureInterrupted, Continue, TypeOK
    <2>7. QED  BY <1>2, <2>2, <2>3, <2>4, <2>5, <2>6 DEF Delete
  <1>3. QED  BY <1>1, <1>2

LEMMA ProgressStep == ASSUME DsrInv, [Next]_vars PROVE AllProgress'
  <1>0. TypeOK
    BY InvTypes
  <1> SUFFICES ASSUME NEW u \in Tenant, erasure'[u] # Idle PROVE Progress(erasure[u], Scope[u])'
    BY DEF AllProgress, Erasing
  <1>1. ASSUME erasure'[u] = erasure[u] PROVE Progress(erasure[u], Scope[u])'
    BY <1>1, ProgressKept DEF Erasing
  <1>2. ASSUME NEW t \in Tenant, Delete(t), t # u PROVE erasure'[u] = erasure[u]
    BY <1>0, <1>2, DeleteKeeps
  <1>3. CASE UNCHANGED erasure
    BY <1>1, <1>3
  <1>4. CASE Delete(u)
    BY <1>4, ProgressMade
  <1>5. UNCHANGED erasure \/ \E t \in Tenant : Delete(t)
    BY DEF Next, vars, CreateRequest, Submit, RetentionDelete, Approve, LoadRequest,
           LoadCandidate, FlushCandidate, SaveApproval, ApprovalFails
  <1>6. QED  BY <1>1, <1>2, <1>3, <1>4, <1>5

LEMMA ErasedStep == ASSUME DsrInv, [Next]_vars PROVE ErasedOnlyOnRequest'
  <1>0. /\ TypeOK /\ InScope /\ KeptByRequest /\ ErasedOnlyOnRequest
        /\ claimed \subseteq claimed'
    BY InvTypes, ClaimsGrow
  <1> SUFFICES ASSUME NEW r \in Request, consents'[r] = "gone", consents[r] # "gone"
               PROVE  r \in claimed
    BY <1>0 DEF ErasedOnlyOnRequest
  <1>1. CASE UNCHANGED consents
    BY <1>1
  <1>2. ASSUME NEW q \in Request, SaveApproval(q) PROVE FALSE
    BY <1>0, <1>2 DEF SaveApproval, TypeOK
  <1>3. ASSUME NEW t \in Tenant, SaveErasure(t) PROVE r \in claimed
    BY <1>0, <1>3, SavedErasure DEF InScope
  <1>4. ASSUME NEW t \in Tenant, RemoveCandidate(t) PROVE r \in claimed
    <2>1. r \in Active /\ Stored \cap Active = {} /\ Removing(t)
      BY <1>4, RemovedCandidate DEF Active, Removing
    <2>2. QED  BY <1>0, <2>1 DEF KeptByRequest
  <1>5. ASSUME NEW t \in Tenant, Delete(t), ~SaveErasure(t), ~RemoveCandidate(t)
        PROVE  UNCHANGED consents
    BY <1>5, DeleteReads
  <1>6. QED
    BY <1>1, <1>2, <1>3, <1>4, <1>5
       DEF Next, vars, CreateRequest, Submit, RetentionDelete, Approve, LoadRequest,
           LoadCandidate, FlushCandidate, ApprovalFails

LEMMA DsrInductive == DsrInv /\ [Next]_vars => DsrInv'
  <1> SUFFICES ASSUME DsrInv, [Next]_vars PROVE DsrInv'
    OBVIOUS
  <1>1. TypeOK'
    BY InvTypes, TypeStep
  <1>2. QED
    BY <1>1, FreshStep, OnceStep, ScopeStep, KeptStep, ProgressStep, SeenStep, SinceStep,
       DanglesStep, ErasedStep
       DEF DsrInv

LEMMA DsrStarts == Init => DsrInv
  <1> SUFFICES ASSUME Init PROVE DsrInv
    OBVIOUS
  <1>1. TypeOK
    BY TypeStart
  <1>2. FreshIds
    BY DEF Init, FreshIds, HasNew, Erasing
  <1>3. ApprovedOnce /\ NothingDangles /\ ErasedOnlyOnRequest
    BY DEF Init, ApprovedOnce, NothingDangles, ErasedOnlyOnRequest, Active
  <1>4. InScope /\ KeptByRequest /\ AllProgress /\ SeenIssued /\ NewSinceCheck
    BY DEF Init, InScope, KeptByRequest, Removing, AllProgress, SeenIssued, NewSinceCheck, Erasing
  <1>5. QED  BY <1>1, <1>2, <1>3, <1>4 DEF DsrInv

(* No consent is erased that no tenant in its scope asked to erase, also    *)
(* when approvals come between the checks and the removal of the candidate. *)
THEOREM ErasureIsAsked == Spec => []ErasedOnlyOnRequest
  <1>1. DsrInv => ErasedOnlyOnRequest
    BY InvTypes
  <1>2. QED  BY <1>1, DsrStarts, DsrInductive, PTL DEF Spec

(* A delete that has come to its checks has taken away all that was in its  *)
(* scope when it started.                                                   *)
THEOREM ErasureIsComplete == Spec => []ErasureReachesAll
  <1>1. DsrInv => ErasureReachesAll
    <2> SUFFICES ASSUME DsrInv, NEW t \in Tenant, erasure[t] # Idle,
                        erasure[t].stage \in Checking
                 PROVE  /\ \A r \in erasure[t].seen \cap Scope[t] : consents[r] = "gone" /\ apps[r] # "live"
                        /\ \A r \in erasure[t].dueRequests : requests[r] = "gone"
      BY DEF ErasureReachesAll
    <2>1. Progress(erasure[t], Scope[t]) /\ NothingDangles /\ erasure[t] \in Erasure
      BY InvTypes DEF AllProgress, Erasing, TypeOK
    <2>2. QED  BY <2>1 DEF Progress, NothingDangles, Erasure
  <1>2. QED  BY <1>1, DsrStarts, DsrInductive, PTL DEF Spec

(* No application is without its consent, and no consent without its        *)
(* candidate, however approvals and deletes overlap.                        *)
THEOREM NoDanglingRows == Spec => []NothingDangles
  <1>1. DsrInv => NothingDangles
    BY InvTypes
  <1>2. QED  BY <1>1, DsrStarts, DsrInductive, PTL DEF Spec

-----------------------------------------------------------------------------
(* The candidate's row.                                                    *)

(* A row that nothing refers to is about to get its consent, or a delete    *)
(* that will find so is on its way to remove it.                            *)
Tidied ==
    \/ \E r \in Request : ApprovalAt(r, "saving")
    \/ \E t \in Tenant : Erasing(t) /\ erasure[t].stage \in Checking

LastInv == ~orphaned /\ candidate # 0 /\ Stored = {} /\ Active = {} => Tidied

(* What was cut short stays so. *)
LEMMA OrphanedStays == ASSUME [Next]_vars, orphaned PROVE orphaned'
  BY DEF Next, vars, CreateRequest, Submit, RetentionDelete, Approve, LoadRequest,
         LoadCandidate, FlushCandidate, SaveApproval, ApprovalFails, Delete, StartErasure,
         ListConsents, ListRequests, SaveErasure, CheckConsents, CheckRequests,
         RemoveCandidate, ErasureFails, ErasureInterrupted

(* A step of a request leaves LastInv as it is, ends with something orphaned *)
(* or gives the candidate something to hold.                                *)
LEMMA RequestTidies ==
  ASSUME TypeOK, LastInv, NEW r \in Request,
         CreateRequest(r) \/ Submit(r) \/ RetentionDelete(r) \/ Approve(r),
         ~orphaned, ~orphaned', candidate' # 0, Stored' = {}, Active' = {}
  PROVE  Tidied'
  <1>1. CASE CreateRequest(r)
    BY <1>1 DEF CreateRequest, Stored, TypeOK
  <1>2. CASE Submit(r)
    BY <1>2 DEF Submit, LastInv, Tidied, Stored, Active, ApprovalAt, Erasing
  <1>3. CASE RetentionDelete(r)
    BY <1>3 DEF RetentionDelete
  <1>4. CASE LoadRequest(r) \/ LoadCandidate(r) \/ ApprovalFails(r)
    <2>1. /\ UNCHANGED <<candidate, requests, consents, erasure>>
          /\ ~ApprovalAt(r, "saving")
          /\ \A q \in Request \ {r} : approval'[q] = approval[q]
      <3>1. CASE LoadRequest(r) \/ LoadCandidate(r)
        BY <3>1 DEF LoadRequest, LoadCandidate, ApprovalAt, Idle, TypeOK
      <3>2. CASE ApprovalFails(r)
        <4>1. ~ApprovalAt(r, "saving")
          BY <3>2, Zenon DEF ApprovalFails
        <4>2. QED  BY <3>2, <4>1 DEF ApprovalFails, TypeOK
      <3>3. QED  BY <1>4, <3>1, <3>2
    <2>2. Tidied
      BY <2>1 DEF LastInv, Stored, Active
    <2>3. QED  BY <2>1, <2>2 DEF Tidied, ApprovalAt, Erasing
  <1>5. CASE FlushCandidate(r)
    <2>1. ApprovalAt(r, "saving")'
      <3>1. approval[r] \in Approval
        BY <1>5 DEF FlushCandidate, ApprovalAt, Idle, TypeOK
      <3>2. QED  BY <1>5, <3>1 DEF FlushCandidate, ApprovalAt, Approval, TypeOK
    <2>2. QED  BY <2>1 DEF Tidied
  <1>6. CASE SaveApproval(r)
    BY <1>6 DEF SaveApproval, Stored, TypeOK
  <1>7. QED  BY <1>1, <1>2, <1>3, <1>4, <1>5, <1>6 DEF Approve

(* Neither does a step of a delete: when nothing is left, its checks succeed *)
(* and the candidate goes, unless the row is not the one it has loaded.     *)
LEMMA DeleteTidies ==
  ASSUME TypeOK, LastInv, NEW t \in Tenant, Delete(t),
         ~orphaned, ~orphaned', candidate' # 0, Stored' = {}, Active' = {}
  PROVE  Tidied'
  <1> DEFINE h == erasure[t]
  <1>0. ASSUME UNCHANGED <<candidate, requests, consents>>, ~(Erasing(t) /\ h.stage \in Checking)
        PROVE  Tidied'
    <2>1. Tidied
      BY <1>0 DEF LastInv, Stored, Active
    <2>2. /\ approval' = approval
          /\ \A u \in Tenant : u # t => erasure'[u] = erasure[u]
      BY DeleteKeeps
    <2>3. QED  BY <1>0, <2>1, <2>2 DEF Tidied, ApprovalAt, Erasing
  <1>1. CASE StartErasure(t) \/ ListConsents(t) \/ ListRequests(t)
    <2>1. UNCHANGED <<candidate, requests, consents>>
      BY <1>1 DEF StartErasure, ListConsents, ListRequests
    <2>2. ~(Erasing(t) /\ h.stage \in Checking)
      BY <1>1 DEF StartErasure, ListConsents, ListRequests, Erasing, Checking, At
    <2>3. QED  BY <1>0, <2>1, <2>2
  <1>2. ASSUME Erasing(t), NEW s \in Checking, Continue(t, [h EXCEPT !.stage = s]) PROVE Tidied'
    <2>1. h \in Erasure
      BY <1>2 DEF Erasing, TypeOK
    <2>2. erasure'[t] # Idle /\ erasure'[t].stage \in Checking
      BY <1>2, <2>1 DEF Continue, Erasure, Checking, Idle, TypeOK
    <2>3. QED  BY <2>2 DEF Tidied, Erasing
  <1>3. CASE SaveErasure(t)
    BY <1>2, <1>3 DEF SaveErasure, At, Erasing, Idle, Checking
  <1>4. CASE CheckConsents(t)
    <2>1. NoConsentLeft(t)
      BY <1>4 DEF CheckConsents, NoConsentLeft, ConsentsOf, Active
    <2>2. QED  BY <1>2, <1>4, <2>1 DEF CheckConsents, At, Erasing, Idle, Checking
  <1>5. CASE CheckRequests(t)
    <2>1. NoRequestLeft(t)
      BY <1>5 DEF CheckRequests, NoRequestLeft, Stored
    <2>2. QED  BY <1>2, <1>5, <2>1 DEF CheckRequests, At, Erasing, Idle, Checking
  <1>6. CASE RemoveCandidate(t)
    BY <1>6 DEF RemoveCandidate
  <1>7. CASE ErasureFails(t)
    <2>1. UNCHANGED <<candidate, requests, consents>> /\ ~(At(t, "removing") /\ Replaced(t))
      BY <1>7, Zenon DEF ErasureFails
    <2>2. At(t, "removing") => CanRemoveCandidate(t)
      BY <2>1 DEF Replaced, CanRemoveCandidate, Stored, Active
    <2>3. At(t, "listed")
      BY <1>7, <2>2 DEF ErasureFails
    <2>4. QED  BY <1>0, <2>1, <2>3 DEF At, Checking
  <1>8. CASE ErasureInterrupted(t)
    <2>1. UNCHANGED <<candidate, requests, consents>> /\ h.stage \notin Checking
      BY <1>8, Zenon DEF ErasureInterrupted
    <2>2. QED  BY <1>0, <2>1
  <1>9. QED  BY <1>1, <1>3, <1>4, <1>5, <1>6, <1>7, <1>8 DEF Delete

LEMMA LastStep == ASSUME TypeOK, LastInv, [Next]_vars PROVE LastInv'
  <1> SUFFICES ASSUME ~orphaned', candidate' # 0, Stored' = {}, Active' = {} PROVE Tidied'
    BY DEF LastInv
  <1>1. ~orphaned
    BY OrphanedStays
  <1>2. CASE UNCHANGED vars
    BY <1>1, <1>2 DEF LastInv, Tidied, Stored, Active, ApprovalAt, Erasing, vars
  <1>3. QED  BY <1>1, <1>2, RequestTidies, DeleteTidies DEF Next

(* The last of several deletes that together leave nothing removes the      *)
(* candidate's row, for any number of requests, tenants and overlapping     *)
(* deletes: at rest, a row that nothing refers to was left by something     *)
(* that was cut short, or by a delete that outlived the row it had loaded.  *)
THEOREM LastEraserCleansUp == Spec => []LastEraserRemovesCandidate
  <1>1. Init => LastInv
    BY DEF Init, LastInv
  <1>2. LastInv => LastEraserRemovesCandidate
    <2>1. ASSUME \A r \in Request : approval[r] = Idle, \A t \in Tenant : erasure[t] = Idle
          PROVE  ~Tidied
      BY <2>1 DEF Tidied, ApprovalAt, Erasing, Idle
    <2>2. QED  BY <2>1 DEF LastInv, LastEraserRemovesCandidate
  <1>3. TypeOK /\ LastInv /\ [Next]_vars => LastInv'
    BY LastStep
  <1>4. QED  BY <1>1, <1>2, <1>3, DsrTypeCorrect, PTL DEF Spec

=============================================================================
