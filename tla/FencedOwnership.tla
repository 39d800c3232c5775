-------------------------- MODULE FencedOwnership --------------------------
(***************************************************************************)
(* What the ownership of an attempt promises, without leases, claims or    *)
(* clocks: resources are used by the first owner only, every later owner   *)
(* is a newer generation that can only clean up, and nothing is used again *)
(* once cleanup has begun.                                                 *)
(***************************************************************************)
CONSTANTS Generations, Resources

VARIABLES
  granted,  \* the generations that were ever granted the attempt
  phase,    \* "free", "working", "cleaning" or "closed"
  busy      \* the resources that exist and may be in use

vars == <<granted, phase, busy>>

Init == granted = {} /\ phase = "free" /\ busy = {}

Grant ==
  /\ phase = "free"
  /\ phase' = "working"
  /\ \E g \in Generations : granted' = {g}
  /\ UNCHANGED busy

Use ==
  /\ phase = "working"
  /\ busy \subseteq busy' /\ busy' \subseteq Resources
  /\ UNCHANGED <<granted, phase>>

Drain ==
  /\ phase = "working"
  /\ phase' = "cleaning"
  /\ busy' = {}
  /\ UNCHANGED granted

TakeOver ==
  /\ phase \in {"working", "cleaning"}
  /\ phase' = "cleaning"
  /\ busy' = {}
  /\ \E g \in Generations \ granted : granted' = granted \cup {g}

Close ==
  /\ phase = "cleaning"
  /\ phase' = "closed"
  /\ UNCHANGED <<granted, busy>>

Next == Grant \/ Use \/ Drain \/ TakeOver \/ Close

Spec == Init /\ [][Next]_vars

=============================================================================
