-------------------------- MODULE MCConsentRequests --------------------------
(***************************************************************************)
(* Instances of ConsentRequests for TLC: every request is made for the     *)
(* same candidate, which is where approvals meet (the unique index).       *)
(***************************************************************************)
EXTENDS ConsentRequests, TLC

CONSTANT TheCandidate

OneCandidate == {TheCandidate}
SameCandidate == [r \in Request |-> TheCandidate]

Symmetry == Permutations(Consent) \cup Permutations(Worker) \cup Permutations(Request)
=============================================================================
