--------------------------- MODULE DeliveryPromise ---------------------------
(***************************************************************************)
(* What the delivery service promises of one run, without saying how: the  *)
(* commit is published, then independently observed on the remote branch,  *)
(* then on the head of a pull request, and the run ends once, delivered    *)
(* only at the end of that chain.                                          *)
(***************************************************************************)
VARIABLES
  published,   \* the remote branch has carried the delivery commit
  observed,    \* a durable observation says so
  requested,   \* a durable observation says so of a pull request's head
  outcome      \* "open", "delivered" or "delivery_failed"

promise == <<published, observed, requested, outcome>>

Init ==
  /\ published \in BOOLEAN      \* the branch may carry the commit already
  /\ observed = FALSE
  /\ requested = FALSE
  /\ outcome = "open"

Publish ==
  /\ ~published
  /\ published' = TRUE
  /\ UNCHANGED <<observed, requested, outcome>>

Observe ==
  /\ published /\ ~observed /\ outcome = "open"
  /\ observed' = TRUE
  /\ UNCHANGED <<published, requested, outcome>>

Request ==
  /\ observed /\ ~requested /\ outcome = "open"
  /\ requested' = TRUE
  /\ UNCHANGED <<published, observed, outcome>>

Conclude ==
  /\ outcome = "open"
  /\ \/ requested /\ outcome' = "delivered"
     \/ ~requested /\ outcome' = "delivery_failed"
  /\ UNCHANGED <<published, observed, requested>>

Next == Publish \/ Observe \/ Request \/ Conclude

Spec == Init /\ [][Next]_promise
=============================================================================
