-------------------------- MODULE MCAttemptRunner --------------------------
(* A tree that passes everything, one that leaves part of the ticket undone, *)
(* one with a banned construct and one outside the scope.                   *)
EXTENDS AttemptRunner

MCTrees == {"good", "better", "partial", "banned", "outside"}
MCInScope == MCTrees \ {"outside"}
MCClean == {"good", "better", "partial"}
MCComplete == {"good", "better", "banned"}
=============================================================================
