---------------------------- MODULE MCAuditChain ----------------------------
(***************************************************************************)
(* Instances of AuditChain for TLC: every event reads the same, or each    *)
(* reads differently (Text is then the set of events, and an edited event  *)
(* may come to read like another one).                                     *)
(***************************************************************************)
EXTENDS AuditChain, TLC

SameText == [e \in Event |-> CHOOSE t \in Text : TRUE]

OwnText == [e \in Event |-> e]

Symmetry == Permutations(Event) \cup Permutations(Worker)
=============================================================================
