------------------------ MODULE MCAttemptOwnership ------------------------
(* Two slots, one of each kind that provisioning and launching advance.    *)
EXTENDS AttemptOwnership

MCProcessSlots == {"process_group"}
MCWorkspaceSlots == {"worktree"}
MCSlots == MCProcessSlots \cup MCWorkspaceSlots

=============================================================================
