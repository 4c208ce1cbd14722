---------------------------- MODULE MCDataSubject ----------------------------
(***************************************************************************)
(* Instances of DataSubject for TLC: two requests, of two agents, for the  *)
(* same board; each of the three tenants may ask for the erasure.          *)
(***************************************************************************)
EXTENDS DataSubject, TLC

CONSTANTS r1, r2, agent1, agent2, boardTenant

Scopes == agent1 :> {r1} @@ agent2 :> {r2} @@ boardTenant :> {r1, r2}
=============================================================================
