--------------------------- MODULE MCConsentTokens ---------------------------
(***************************************************************************)
(* Instances of ConsentTokens for TLC.  The ids are interchangeable.       *)
(***************************************************************************)
EXTENDS ConsentTokens, TLC

Symmetry == Permutations(Token) \cup Permutations(Key) \cup Permutations(Worker)
=============================================================================
