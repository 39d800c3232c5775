----------------------------- MODULE MCDelivery -----------------------------
(* Two builds of the same run, a branch somebody else moves.               *)
EXTENDS Delivery, TLC

CallerSymmetry == Permutations(Callers)
=============================================================================
