----------------------------- MODULE MetricLoop ------------------------------
(***************************************************************************)
(* MicroverseLoop and the two commands that run it, microverse (higher or  *)
(* lower is better) and szechuan (violations: lower is better, target 0).  *)
(* Workers and judges are agents with a shell in the caller's repository:  *)
(* they may write anywhere, stage, unstage and commit, and a judge may     *)
(* answer any number or none.                                              *)
(***************************************************************************)
EXTENDS ScopedGit, Integers, Sequences, SequencesExt

CONSTANTS
  MicroverseOwned, \* --owned-paths; szechuan owns the whole repository
  MaxScore,        \* judges answer 0 .. MaxScore, or no number
  Epsilon,         \* a smaller delta is diminishing
  Window,          \* diminishing deltas that make a plateau
  StallLimit,      \* --stall-limit, of the loop and of anatomy
  Threshold,       \* createBreakerState: equal errors that open the breaker
  MaxIterations,   \* --max-iterations of microverse and szechuan
  MaxCrashes       \* bound: crashes of a command

ASSUME LoopAssumption ==
  /\ MicroverseOwned \subseteq Paths /\ MicroverseOwned # {}
  /\ {MaxScore, Window, StallLimit, Threshold, MaxIterations} \subseteq Nat \ {0}
  /\ Epsilon \in Nat /\ MaxCrashes \in Nat

VARIABLES
  repo,     \* the caller's repository
  made,     \* edits made so far
  strays,   \* processes of an agent may have outlived the call that ran it (that
            \* they end is that they do nothing more)
  pc,       \* where the running command is, "idle" when none runs
  cmd,      \* the running command and its flags
  exit,     \* exit code of the last command
  loop,     \* MicroverseLoop.run's variables
  park,     \* anatomy's variables
  disk,     \* microverse.json, szechuan.json, anatomy-park.json
  seen,     \* the tree the last judge saw
  held,     \* edits that got into the index without this command's staging
            \* them for a commit: staged before it began, by an agent, or by
            \* a commit of its own that failed
  rejected, \* edits an iteration gave up
  truth,    \* what the verdicts are about: last committed score of a series,
            \* clean reviews in a row, and the series and the reviews that an
            \* interruption tore
  crashes

env == <<made, strays>>
history == <<held, rejected>>

Kinds == {"microverse", "szechuan"}
Scores == 0 .. MaxScore
Unreadable == -1
Signatures == {"stall", "regression", "uncommitted"}
NoCmd == [c |-> "none", resume |-> FALSE, dry |-> FALSE, dir |-> "higher"]
NoLoop == [it |-> 0, acc |-> <<>>, own |-> 0, stall |-> 0, score |-> Unreadable,
           errors |-> [s \in Signatures |-> 0], status |-> "none"]

OwnedBy(c) == IF c = "microverse" THEN MicroverseOwned ELSE Paths
Owned == OwnedBy(cmd.c)

Better(a, b) == IF cmd.dir = "higher" THEN a > b ELSE a < b
Deltas(acc) == [i \in 1 .. Len(acc) - 1 |->
                  IF cmd.dir = "higher" THEN acc[i + 1] - acc[i] ELSE acc[i] - acc[i + 1]]

\* --target of microverse is optional and left out; szechuan's is 0
MeetsTarget(score) == cmd.c = "szechuan" /\ score <= 0

LastAll(s, n, P(_)) == Len(s) >= n /\ \A i \in Len(s) - n + 1 .. Len(s) : P(s[i])

classifyConvergence(acc) ==
  LET NotAbove(d) == d <= 0
      Diminishing(d) == d < Epsilon
  IN  IF acc = <<>> THEN "improving"
      ELSE IF MeetsTarget(Last(acc)) THEN "converged"
      ELSE IF LastAll(Deltas(acc), StallLimit, NotAbove) THEN "stalled"
      ELSE IF LastAll(Deltas(acc), Window, Diminishing) THEN "converged"
      ELSE "improving"

canExecute == \A s \in Signatures : loop.errors[s] < Threshold

-----------------------------------------------------------------------------
(* The command: flags, prior state, baseline *)

\* failLifecycleCommand and the exit code
Exits(code) ==
  /\ pc' = "exit" /\ exit' = code /\ loop' = NoLoop

\* Missing task, goal, agent or repository, a bad catalog, an unavailable
\* capability, or --resume without readable state.
RefuseLoop ==
  /\ pc = "start" /\ cmd.c \in Kinds
  /\ Exits(1)
  /\ UNCHANGED <<repo, env, cmd, park, disk, seen, history, truth, crashes>>

\* Mutant: the accepted scores of earlier runs are forgotten on --resume.
BaselineOnly(c) == SubSeq(disk[c], 1, 1)

\* baseline_score and the improved entries of the history
ResumedScores(c) == disk[c]

\* --resume continues the accepted scores of the state file; nothing is
\* measured, and direction, goal and target are those of the new command.
ResumeLoop ==
  /\ pc = "start" /\ cmd.c \in Kinds /\ cmd.resume /\ ~cmd.dry
  /\ disk[cmd.c] # <<>>
  /\ LET acc == ResumedScores(cmd.c)
     IN  loop' = [NoLoop EXCEPT !.acc = acc, !.own = Len(acc)]
  /\ pc' = "guard"
  /\ UNCHANGED <<repo, env, cmd, exit, park, disk, seen, history, truth, crashes>>

\* The judge of the baseline, before any state is written or worker spawned.
MeasureBaseline(s) ==
  /\ pc = "start" /\ cmd.c \in Kinds /\ (cmd.dry \/ ~cmd.resume)
  /\ loop' = [NoLoop EXCEPT !.acc = <<s>>, !.own = 1]
  /\ IF cmd.dry THEN pc' = "persist" ELSE pc' = "guard"
  /\ truth' = [truth EXCEPT !.last[cmd.c] = s, !.torn = @ \ {cmd.c}]
  /\ UNCHANGED <<repo, env, cmd, exit, park, disk, seen, history, crashes>>

-----------------------------------------------------------------------------
(* MicroverseLoop.run *)

Ends(status) ==
  /\ pc' = "persist"
  /\ loop' = [NoLoop EXCEPT !.acc = loop.acc, !.own = loop.own, !.status = status]

LoopGuard ==
  /\ pc = "guard"
  /\ IF loop.it = MaxIterations THEN Ends("max-iterations")
     ELSE IF ~canExecute THEN Ends("breaker-tripped")
     ELSE pc' = "worker" /\ loop' = [loop EXCEPT !.it = @ + 1]
  /\ UNCHANGED <<repo, env, cmd, exit, park, disk, seen, history, truth, crashes>>

\* The worker's pipes close before the deadline; a descendant may live on.
WorkerExits ==
  /\ pc = "worker"
  /\ pc' = "measure" /\ strays' = TRUE
  /\ UNCHANGED <<repo, made, cmd, exit, loop, park, disk, seen, history, truth, crashes>>

\* The deadline: SIGTERM, and SIGKILL only after GRACE_MS, while the loop has
\* already archived the dirty owned paths (salvage moves nothing) and ended.
Deadline ==
  /\ pc = "worker"
  /\ Ends("deadline-salvaged") /\ strays' = TRUE
  /\ UNCHANGED <<repo, made, cmd, exit, park, disk, seen, history, truth, crashes>>

Measure(s) ==
  /\ pc = "measure"
  /\ loop' = [loop EXCEPT !.score = s] /\ seen' = repo.wt /\ pc' = "decide"
  /\ UNCHANGED <<repo, env, cmd, exit, park, disk, history, truth, crashes>>

Improved == loop.score # Unreadable /\ Better(loop.score, Last(loop.acc))
Regressed == loop.score # Unreadable /\ Better(Last(loop.acc), loop.score)

Counted(s) == [loop.errors EXCEPT ![s] = @ + 1]

\* rollbackScoped, and the error of the iteration in the breaker
RollBack(r, s) ==
  /\ repo' = RestoreScoped(r, Owned)
  /\ rejected' = rejected \cup Dirty(r, Owned)
  /\ loop' = [loop EXCEPT !.errors[s] = @ + 1, !.score = Unreadable,
                          !.stall = IF s = "stall" THEN @ + 1 ELSE @]
  /\ pc' = "classify" /\ seen' = {}

\* commitInScope lands: the score is accepted with the tree behind it.
CommitImprovement ==
  /\ pc = "decide" /\ Improved
  /\ LET staged == Stage(repo, Owned)
     IN  Staged(staged) /\ repo' = Commit(staged)
  /\ loop' = [loop EXCEPT !.acc = Append(@, loop.score), !.stall = 0,
                          !.errors = NoLoop.errors, !.score = Unreadable]
  /\ truth' = [truth EXCEPT !.last[cmd.c] = loop.score]
  /\ pc' = "classify" /\ seen' = {}
  /\ UNCHANGED <<env, cmd, exit, park, disk, history, crashes>>

\* Nothing to stage, or git refuses to add or to commit: a failed commit
\* leaves the index staged, and the rollback restores out of that index.
ImprovementWithoutCommit ==
  /\ pc = "decide" /\ Improved
  /\ \E r \in {repo, Stage(repo, Owned)} :
       /\ held' = held \cup (r.ix \ r.hd)
       /\ RollBack(r, "uncommitted")
  /\ UNCHANGED <<env, cmd, exit, park, disk, truth, crashes>>

Regress ==
  /\ pc = "decide" /\ Regressed
  /\ RollBack(repo, "regression")
  /\ UNCHANGED <<env, cmd, exit, park, disk, held, truth, crashes>>

\* An equal or unreadable score: a stall.  At the limit the dirty owned paths
\* are archived and the loop ends; before it they are thrown away.
Stall ==
  /\ pc = "decide" /\ ~Improved /\ ~Regressed /\ loop.stall + 1 < StallLimit
  /\ RollBack(repo, "stall")
  /\ UNCHANGED <<env, cmd, exit, park, disk, held, truth, crashes>>

Attrition ==
  /\ pc = "decide" /\ ~Improved /\ ~Regressed /\ loop.stall + 1 >= StallLimit
  /\ Ends("attrition") /\ seen' = {}
  /\ UNCHANGED <<repo, env, cmd, exit, park, disk, history, truth, crashes>>

Classify ==
  /\ pc = "classify"
  /\ LET status == classifyConvergence(loop.acc)
     IN  CASE status = "converged" -> Ends("converged")
           [] status = "stalled" -> Ends("attrition")
           [] OTHER -> pc' = "guard" /\ loop' = loop
  /\ UNCHANGED <<repo, env, cmd, exit, park, disk, seen, history, truth, crashes>>

-----------------------------------------------------------------------------
(* The state file and the exit code *)

\* The history is written only now: its baseline and its improved entries are
\* the accepted scores.
Saved == [disk EXCEPT ![cmd.c] = loop.acc]

\* microverse succeeds whatever the loop found
ExitCode == IF cmd.c = "microverse" \/ cmd.dry \/ loop.status = "converged" THEN 0 ELSE 1

Persist ==
  /\ pc = "persist"
  /\ disk' = Saved
  /\ Exits(ExitCode)
  /\ UNCHANGED <<repo, env, cmd, park, seen, history, truth, crashes>>

LoopStep ==
  \/ RefuseLoop \/ ResumeLoop \/ LoopGuard
  \/ \E s \in Scores : MeasureBaseline(s)
  \/ WorkerExits \/ Deadline
  \/ \E s \in Scores \cup {Unreadable} : Measure(s)
  \/ CommitImprovement \/ ImprovementWithoutCommit \/ Regress \/ Stall \/ Attrition
  \/ Classify \/ Persist
==============================================================================
