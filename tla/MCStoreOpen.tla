----------------------------- MODULE MCStoreOpen -----------------------------
(***************************************************************************)
(* StoreOpen on three processes and one legacy artifact, over every kind of  *)
(* database an opener may find.                                            *)
(***************************************************************************)
EXTENDS StoreOpen, TLC

CONSTANTS p1, p2, p3

\* No database, every released version, a newer release, and the three ways
\* to be damaged.
MCOrigins ==
    {NoDb} \cup {Released(v) : v \in 1 .. Latest + 1}
           \cup {[Released(0) EXCEPT !.repo = FALSE],
                 [Released(3) EXCEPT !.rows = 2],
                 [Released(2) EXCEPT !.drift = TRUE],
                 [Released(6) EXCEPT !.drift = TRUE]}

ProcSymmetry == Permutations({p1, p2, p3})
=============================================================================
