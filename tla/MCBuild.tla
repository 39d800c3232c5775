------------------------------ MODULE MCBuild ------------------------------
(* Two build processes over a plan whose tickets allow one and two retries. *)
EXTENDS Build

Budgets == <<2, 3>>
BuilderSymmetry == Permutations(Builders)
=============================================================================
