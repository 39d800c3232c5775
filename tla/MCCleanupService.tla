------------------------- MODULE MCCleanupService -------------------------
(* Two slots and two executors: one may belong to the generation that      *)
(* expired and the other to its successor, or both to the same.            *)
EXTENDS CleanupService

MCProcessSlots == {"process_group"}
MCWorkspaceSlots == {"worktree"}
MCSlots == MCProcessSlots \cup MCWorkspaceSlots

=============================================================================
