--------------------------- MODULE MCRunLifecycle ---------------------------
(* Retry budgets for instances of RunLifecycle.                            *)
EXTENDS RunLifecycle

OneRetry == [t \in Tickets |-> 2]
NoRetry == [t \in Tickets |-> 1]
=============================================================================
