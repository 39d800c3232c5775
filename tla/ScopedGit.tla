------------------------------ MODULE ScopedGit ------------------------------
(***************************************************************************)
(* The git commands with which microverse, szechuan and anatomy keep or    *)
(* throw away an agent's work, on the caller's own repository.             *)
(*                                                                         *)
(* A tree is the set of edits it holds: an edit has an id, a path and a    *)
(* maker.  A repository has a working tree, an index and a HEAD tree.      *)
(***************************************************************************)
EXTENDS Naturals, FiniteSets

CONSTANTS
  Subsystems,  \* anatomy's subsystems, which are top-level directories
  MaxEdits     \* bound: edits of all agents

ASSUME EditAssumption == MaxEdits \in Nat

Paths == Subsystems \cup {"out"}

Makers == {"user", "agent", "stray", "catalog"}
Edits == [id : 0 .. MaxEdits, at : Paths, by : Makers]
Repos == [wt : SUBSET Edits, ix : SUBSET Edits, hd : SUBSET Edits]

Under(t, owned) == {e \in t : e.at \in owned}

\* git status --porcelain over the owned paths
Dirty(r, owned) == Under((r.wt \cup r.ix) \ r.hd, owned)

\* Mutant: git add -A.
StageAll(r, owned) == [r EXCEPT !.ix = r.wt]

\* git add -- p, for every owned path
Stage(r, owned) ==
  [r EXCEPT !.ix = (@ \ Under(@, owned)) \cup Under(r.wt, owned)]

\* git commit: the whole index, whoever staged it
Commit(r) == [r EXCEPT !.hd = r.ix]

Staged(r) == r.ix # r.hd

\* git reset HEAD .
UnstageAll(r) == [r EXCEPT !.ix = r.hd]

\* git checkout -- p (out of the index, not out of HEAD), then git clean -f -d
RestoreScoped(r, owned) ==
  [r EXCEPT !.wt = (@ \ Under(@, owned)) \cup Under(r.ix, owned)]
==============================================================================
