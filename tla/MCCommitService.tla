-------------------------- MODULE MCCommitService --------------------------
(* Two processes call, again and again.  Tree t1 was reviewed, t2 is in    *)
(* contract and was not, t3 is out of it: a foreign path, kind or mode.    *)
EXTENDS CommitService

CONSTANTS t1, t2, t3

MCTrees == {t1, t2, t3}
MCLegible == {t1, t2}
MCScoped == {t1, t2}

=============================================================================
