---------------------------- MODULE MCCronenberg -----------------------------
(* Two subsystems, microverse owning one of them. *)
EXTENDS Cronenberg

SubsystemOrder == <<"a", "b">>
==============================================================================
