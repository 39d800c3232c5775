----------------------------- MODULE AnatomyPark -----------------------------
(***************************************************************************)
(* The anatomy command: REVIEW, FIX and VERIFY by three agents on one      *)
(* subsystem at a time, a scope preflight, a commit of what VERIFY passed, *)
(* and a state file after every iteration.                                 *)
(***************************************************************************)
EXTENDS MetricLoop

CONSTANTS
  Order,     \* discoverSubsystems: the subsystems, sorted
  MaxPasses  \* --max-iterations of anatomy

ASSUME PassAssumption == MaxPasses \in Nat

ASSUME OrderAssumption ==
  /\ Order \in Seq(Subsystems) /\ Order # <<>>
  /\ ToSet(Order) = Subsystems /\ Len(Order) = Cardinality(Subsystems)

subsystems == Order

initState == [clean |-> [s \in Subsystems |-> 0], stall |-> [s \in Subsystems |-> 0], cur |-> 1]
NoPark == [it |-> 0, state |-> initState]

Sub == subsystems[park.state.cur]

allClean(st) == \A s \in Subsystems : st.clean[s] >= 2
allStalled(st) == \A s \in Subsystems : st.stall[s] >= StallLimit
checkConvergence(st) == allClean(st) \/ allStalled(st)

\* the first subsystem from current_index on, wrapping around, that is
\* neither clean nor stalled
Reviewable(st) == {i \in DOMAIN subsystems : /\ st.clean[subsystems[i]] < 2
                                             /\ st.stall[subsystems[i]] < StallLimit}
selectNextSubsystem(st) ==
  LET ahead == {i \in Reviewable(st) : i >= st.cur}
      some == IF ahead # {} THEN ahead ELSE Reviewable(st)
  IN  CHOOSE i \in some : \A j \in some : i <= j

advanceRotation(st) ==
  IF Reviewable(st) = {} THEN st ELSE [st EXCEPT !.cur = selectNextSubsystem(st)]

-----------------------------------------------------------------------------
(* The command and its state file *)

\* failLifecycleCommand: the iteration in memory is lost.
ParkFails == pc' = "exit" /\ exit' = 1 /\ park' = NoPark

RefuseAnatomy ==
  /\ pc = "start" /\ cmd.c = "anatomy"
  /\ ParkFails
  /\ UNCHANGED <<repo, env, cmd, loop, disk, seen, history, truth, crashes>>

StartAnatomy ==
  /\ pc = "start" /\ cmd.c = "anatomy"
  /\ cmd.resume => disk.anatomy # <<>>
  /\ park' = [it |-> 0, state |-> IF cmd.resume THEN Head(disk.anatomy) ELSE initState]
  /\ pc' = IF cmd.dry THEN "dry" ELSE "select"
  /\ UNCHANGED <<repo, env, cmd, exit, loop, disk, seen, history, truth, crashes>>

Writes(st) == disk' = [disk EXCEPT !.anatomy = <<st>>]

\* --dry-run: one review per subsystem, and the state file whatever it found.
DryRun ==
  /\ pc = "dry"
  /\ Writes(park.state)
  /\ pc' = "exit" /\ exit' = 0 /\ park' = NoPark
  /\ UNCHANGED <<repo, env, cmd, loop, seen, history, truth, crashes>>

-----------------------------------------------------------------------------
(* One iteration *)

\* The cap, convergence, or nothing left to review: subsystems of which some
\* are clean and the others stalled have not converged.
Verdict ==
  /\ pc = "select"
  /\ \/ park.it = MaxPasses
     \/ checkConvergence(park.state)
     \/ Reviewable(park.state) = {}
  /\ Writes(park.state)
  /\ pc' = "exit" /\ exit' = IF checkConvergence(park.state) THEN 0 ELSE 1
  /\ park' = NoPark
  /\ UNCHANGED <<repo, env, cmd, loop, seen, history, truth, crashes>>

SelectSubsystem ==
  /\ pc = "select" /\ park.it < MaxPasses
  /\ ~checkConvergence(park.state) /\ Reviewable(park.state) # {}
  /\ park' = [it |-> park.it + 1, state |-> [park.state EXCEPT !.cur = selectNextSubsystem(park.state)]]
  /\ pc' = "review"
  /\ UNCHANGED <<repo, env, cmd, exit, loop, disk, seen, history, truth, crashes>>

\* An agent that cannot be spawned or runs into its timeout ends the command;
\* after a review with findings that review is not on disk.
AgentFails ==
  /\ pc \in {"dry", "review", "fix", "verify"}
  /\ truth' = IF pc \in {"fix", "verify"} THEN [truth EXCEPT !.lapsed = @ \cup {Sub}] ELSE truth
  /\ strays' = TRUE
  /\ ParkFails
  /\ UNCHANGED <<repo, made, cmd, loop, disk, seen, history, crashes>>

\* The end of an iteration: rotation and the state file.
RecordPass(st) ==
  /\ Writes(advanceRotation(st))
  /\ park' = [park EXCEPT !.state = advanceRotation(st)]
  /\ pc' = "select"

\* No finding of confidence 80 or more, or output that does not parse.
CleanReview ==
  /\ pc = "review"
  /\ RecordPass([park.state EXCEPT !.clean[Sub] = @ + 1, !.stall[Sub] = 0])
  /\ truth' = [truth EXCEPT !.streak[Sub] = IF @ = 2 THEN 2 ELSE @ + 1]
  /\ UNCHANGED <<repo, env, cmd, exit, loop, seen, history, crashes>>

ReviewWithFindings ==
  /\ pc = "review"
  /\ park' = [park EXCEPT !.state.clean[Sub] = 0]
  /\ truth' = [truth EXCEPT !.streak[Sub] = 0]
  /\ pc' = "fix"
  /\ UNCHANGED <<repo, env, cmd, exit, loop, disk, seen, history, crashes>>

\* Mutant: what was staged for VERIFY stays staged.
RevertWorktree == RestoreScoped(repo, {Sub})

\* gitUnstageAll and gitRestoreScoped
Revert == RestoreScoped(UnstageAll(repo), {Sub})

\* A failed fix, a write out of scope or a failed verification: the subsystem
\* is restored, staged or not, a file out of scope stays as it is, and the
\* stall counts.
GiveUp ==
  /\ repo' = Revert
  /\ rejected' = rejected \cup Dirty(repo, {Sub}) /\ held' = held \ Dirty(repo, {Sub})
  /\ RecordPass([park.state EXCEPT !.stall[Sub] = @ + 1])
  /\ truth' = [truth EXCEPT !.lapsed = @ \ {Sub}]
  /\ UNCHANGED <<env, cmd, exit, loop, seen, crashes>>

FixFails == pc = "fix" /\ GiveUp

FixApplied ==
  /\ pc = "fix" /\ pc' = "preflight"
  /\ UNCHANGED <<repo, env, cmd, exit, loop, park, disk, seen, history, truth, crashes>>

\* checkScopePreflight
InScope == Dirty(repo, Paths \ {Sub}) = {}

OutOfScope == pc = "preflight" /\ ~InScope /\ GiveUp

StageFix ==
  /\ pc = "preflight" /\ InScope
  /\ repo' = Stage(repo, {Sub}) /\ pc' = "verify"
  /\ UNCHANGED <<env, cmd, exit, loop, park, disk, seen, history, truth, crashes>>

VerifyFails == pc = "verify" /\ GiveUp

VerifyPasses ==
  /\ pc = "verify"
  /\ seen' = repo.wt /\ pc' = "commit"
  /\ UNCHANGED <<repo, env, cmd, exit, loop, park, disk, history, truth, crashes>>

\* gitCommit may fail; the stall count is reset all the same.
CommitFix ==
  /\ pc = "commit"
  /\ \/ repo' = Commit(repo) /\ held' = held
     \/ repo' = repo /\ held' = held \cup (repo.ix \ repo.hd)
  /\ park' = [park EXCEPT !.state.stall[Sub] = 0]
  /\ pc' \in {"catalog", "record"}
  /\ UNCHANGED <<env, cmd, exit, loop, disk, seen, rejected, truth, crashes>>

\* writeTrapDoorsToClaude: the subsystem's CLAUDE.md, added and committed with
\* whatever else is staged; a failure is ignored.
CatalogTrapDoors ==
  /\ pc = "catalog"
  /\ LET e == [id |-> made, at |-> Sub, by |-> "catalog"]
         r == [repo EXCEPT !.wt = @ \cup {e}, !.ix = @ \cup {e}]
     IN  \/ repo' = Commit(r) /\ held' = held
         \/ repo' = r /\ held' = held \cup (r.ix \ r.hd)
  /\ pc' = "record"
  /\ UNCHANGED <<env, cmd, exit, loop, park, disk, seen, rejected, truth, crashes>>

RecordIteration ==
  /\ pc = "record"
  /\ RecordPass(park.state)
  /\ truth' = [truth EXCEPT !.lapsed = @ \ {Sub}] /\ seen' = {}
  /\ UNCHANGED <<repo, env, cmd, exit, loop, history, crashes>>

ParkStep ==
  \/ RefuseAnatomy \/ StartAnatomy \/ DryRun \/ Verdict \/ SelectSubsystem \/ AgentFails
  \/ CleanReview \/ ReviewWithFindings \/ FixFails \/ FixApplied \/ OutOfScope \/ StageFix
  \/ VerifyFails \/ VerifyPasses \/ CommitFix \/ CatalogTrapDoors \/ RecordIteration
==============================================================================
