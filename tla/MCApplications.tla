--------------------------- MODULE MCApplications ---------------------------
(***************************************************************************)
(* Instances of Applications for TLC: every submission presents the token  *)
(* of the same consent.                                                    *)
(***************************************************************************)
EXTENDS Applications, TLC

SameConsent == [a \in Application |-> CHOOSE c \in Consent : TRUE]
=============================================================================
