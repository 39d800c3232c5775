--------------------------- MODULE AttemptRunner ---------------------------
(***************************************************************************)
(* One attempt driven by AttemptRunner.runAttempt: acquisition, workspace, *)
(* target start gate, contained dispatch, review and bounded remediation,  *)
(* verification, commit attribution, cleanup eligibility, oracle, and the  *)
(* promotion or failure disposition.  runAttempt may throw or die between  *)
(* any two of its durable steps; the next invocation re-enters at the step *)
(* that recoverAttempt derives from the rows alone.                        *)
(*                                                                         *)
(* Every row the runner writes is a variable; what runAttempt holds in     *)
(* memory is the record r and is lost by a throw or a crash.  A candidate  *)
(* is the tree at the head of the attempt's worktree, named by a commit or *)
(* by the tree itself.  AttemptOwnership models leases and process proofs  *)
(* in full; here a lease is its state and the key its cleanup began under. *)
(***************************************************************************)
EXTENDS Integers, Sequences, FiniteSets

CONSTANTS
  Trees,             \* trees a worker or a remediator may leave at HEAD
  InScope,           \* those whose delta stays within the contract's scope
  Clean,             \* those without a banned construct
  Complete,          \* those whose delta covers every declared scope entry
  MaxReviewCycles,   \* budgets.max_review_cycles of the contract
  RemediationLimit,  \* budgets.remediation_limit of the contract
  Verifications,     \* number of verifications the contract seals
  MaxWrites,         \* bound on the trees written at HEAD
  MaxCrashes         \* bound on the deaths of the orchestrator

Base == "base"       \* the delivery baseline: no change at all

ASSUME RunnerAssumption ==
  /\ Base \notin Trees
  /\ InScope \subseteq Trees /\ Clean \subseteq Trees /\ Complete \subseteq Trees
  /\ MaxReviewCycles \in Nat \ {0} /\ RemediationLimit \in Nat
  /\ Verifications \in Nat \ {0}
  /\ MaxWrites \in Nat /\ MaxCrashes \in Nat

VARIABLES
  phase,       \* attempts.state
  ticket,      \* run_tickets.state of the attempt's ticket
  lease,       \* attempt_ownership_leases: state, and the key of its cleanup
  gate,        \* target_start_gates.state
  chain,       \* launch, death and terminal receipt of the dispatch
  identity,    \* identity evidence: three receipts, then their oracle binding
  reviews,     \* review_records by cycle
  fixes,       \* remediation_records: rejected cycle and resulting tree
  gates,       \* gate_results in the order of the verifications
  attribution, \* commit_attributions: the candidate
  sealed,      \* attempt_target_proof_sets: a sealed_complete row exists
  eligibility, \* cleanup_eligibility_records: the candidate
  oracle,      \* oracle_decisions.result
  intent,      \* promotion_intents has the attempt's row
  terminal,    \* which of promotion_ and failure_cleanup_records exist
  workspace,   \* the attempt's worktree and policy directories exist on disk
  tree,        \* tree at the head of the attempt's worktree
  worker,      \* the contained target process
  starts,      \* times target code was started
  writes,      \* trees written so far
  reviewer,    \* receipts of the reviewer, as the distinction check reads them
  r,           \* what runAttempt holds in memory
  crashes      \* deaths of the orchestrator so far

owned == <<phase, ticket, lease>>
started == <<gate, chain, identity>>
work == <<reviews, fixes, gates, attribution>>
decided == <<sealed, eligibility, oracle, intent, terminal>>
world == <<workspace, tree, worker, starts, writes, reviewer, crashes>>
vars == <<owned, started, work, decided, world, r>>

NoTree == "no_tree"
NoCandidate == [tree |-> NoTree, kind |-> "none"]
Candidates == [tree : Trees \cup {Base}, kind : {"commit", "tree"}] \cup {NoCandidate}

\* GATE_STATUSES: what a run may come to, and what is decided before any run.
RunStatuses == {"passed", "failed", "missing", "infrastructure_error"}
Refusals == {"null", "skipped", "unavailable", "stale", "conflicting"}

\* The declared attempt states this path can take, in forward order.
ForwardPhases == <<"planned", "implementing", "implementation_captured", "reviewing",
                   "remediating", "remediation_captured", "verification_queued",
                   "verifying", "converging">>
Phases == {ForwardPhases[i] : i \in 1 .. 9} \cup {"cleanup_pending"}

\* PHASE_TRANSITION_TABLE as far as this path takes it.
Edges ==
  {<<"planned", "implementing">>, <<"implementing", "implementation_captured">>,
   <<"implementation_captured", "reviewing">>, <<"reviewing", "remediating">>,
   <<"remediating", "remediation_captured">>, <<"remediation_captured", "reviewing">>,
   <<"reviewing", "verification_queued">>, <<"verification_queued", "verifying">>,
   <<"verifying", "converging">>}
  \cup {<<ForwardPhases[i], "cleanup_pending">> : i \in 1 .. 9}

\* Resume steps that skip, in turn, provisioning, containment and dispatch.
PastDispatch == {"attribute", "begin-review", "begin-verification-queued", "oracle",
                 "cleanup-eligibility"}
PastContainment == PastDispatch \cup {"dispatch"}
PastPrepare == PastContainment \cup {"containment"}
ResumeSteps == PastPrepare \cup {"acquire", "recover"}

Pcs == {"idle", "acquire", "provision", "context", "gate", "boundary", "release",
        "implement", "dispatch", "running", "persist", "identity", "branch", "capture",
        "begin-review", "review", "remediate", "remed-begin", "remed-record", "remed-captured",
        "remed-review", "loop-review", "queue", "verify", "gates", "converge", "finalize",
        "begin-cleanup", "ticket", "lease", "kill", "seal", "eligibility", "oracle", "evaluate",
        "intent", "receipt", "failure"}
Causes == {"none", "promotion", "infrastructure", "timeout", "cancellation", "ordinary",
           "oracle_rejected"}
Results == {"none", "threw", "crashed", "recovered", "succeeded", "failed_clean",
            "infrastructure_failed", "timed_out", "cancelled"}

\* What one invocation knows: where it is and where it entered, its boundary,
\* outcome and receipts, the candidate, the last fix, the tree the gates saw.
Memory ==
  [pc : Pcs, from : ResumeSteps \cup {"none"}, boundary : BOOLEAN,
   outcome : {"none", "exited", "timed_out", "spawn_error", "infrastructure_error"},
   identity : BOOLEAN, cand : Candidates, fix : Trees \cup {Base, NoTree},
   seen : Trees \cup {Base, NoTree}, cycle : Nat, used : Nat,
   persisted : BOOLEAN, cause : Causes, result : Results]

RunnerTypeOK ==
  /\ phase \in Phases /\ ticket \in {"planned", "active", "cleanup_pending"}
  /\ lease \in [state : {"none", "live", "cleanup_pending"},
                key : {"none", "workspace", "failure", "promotion"}]
  /\ gate \in {"absent", "held", "released", "closed_never_released"}
  /\ chain \in {"none", "exited", "timed_out"}
  /\ identity \in {"none", "recorded", "bound"}
  /\ reviews \in Seq([verdict : {"accepted", "rejected"}, tree : Trees])
  /\ fixes \subseteq [cycle : Nat, tree : Trees]
  /\ gates \in Seq([status : RunStatuses \cup Refusals, tree : Trees]) /\ Len(gates) <= Verifications
  /\ attribution \in Candidates /\ eligibility \in Candidates
  /\ oracle \in {"none", "accepted", "rejected"}
  /\ sealed \in BOOLEAN /\ intent \in BOOLEAN
  /\ terminal \subseteq {"promotion", "failure"}
  /\ workspace \in BOOLEAN /\ tree \in Trees \cup {Base}
  /\ worker \in {"none", "running", "dead"}
  /\ starts \in Nat /\ writes \in 0 .. MaxWrites /\ crashes \in 0 .. MaxCrashes
  /\ reviewer \in {"unasked", "absent", "permitted", "denied"}
  /\ r \in Memory

\* No runAttempt in progress; the last one ended with result.
Idle(result) ==
  [pc |-> "idle", from |-> "none", boundary |-> FALSE, outcome |-> "none",
   identity |-> FALSE,
   cand |-> NoCandidate, fix |-> NoTree, seen |-> NoTree, cycle |-> 1, used |-> 0,
   persisted |-> FALSE,
   cause |-> "none", result |-> result]

Init ==
  /\ phase = "planned" /\ ticket = "planned"
  /\ lease = [state |-> "none", key |-> "none"]
  /\ gate = "absent" /\ chain = "none" /\ identity = "none"
  /\ reviews = <<>> /\ fixes = {} /\ gates = <<>> /\ attribution = NoCandidate
  /\ sealed = FALSE /\ eligibility = NoCandidate /\ oracle = "none" /\ intent = FALSE
  /\ terminal = {}
  /\ workspace = FALSE /\ tree = Base /\ worker = "none" /\ starts = 0 /\ writes = 0
  /\ reviewer = "unasked"
  /\ r = Idle("none") /\ crashes = 0

-----------------------------------------------------------------------------
(* Control: where runAttempt goes next, how it leaves, how it fails.       *)

Goto(pc) == r' = [r EXCEPT !.pc = pc]
Throw == r' = Idle("threw")
Return(result) == r' = Idle(result)
\* The failure state machines all begin with #beginCleanupPhase.
Fail(cause) == r' = [r EXCEPT !.pc = "begin-cleanup", !.cause = cause]

Rank(p) == CHOOSE i \in 1 .. 9 : ForwardPhases[i] = p
AtOrPast(p) == phase # "cleanup_pending" /\ Rank(phase) >= Rank(p)

\* advanceAttemptState: a compare-and-set of the attempt's state.
AdvanceAttemptState(from, to) == phase = from /\ phase' = to

\* LifecycleEngine.transitionAttempt: a declared edge only; a forward edge is a
\* no-op at or past its target, the edges of the remediation cycle never are.
Transition(from, to) ==
  /\ <<from, to>> \in Edges
  /\ IF phase = to \/ (Rank(from) < Rank(to) /\ AtOrPast(to)) THEN UNCHANGED phase
     ELSE AdvanceAttemptState(from, to)

\* shouldTransition: a resumed runner whose attempt is in cleanup skips it.
ForwardTo(from, to) ==
  IF r.from # "recover" /\ phase = "cleanup_pending"
  THEN UNCHANGED phase ELSE Transition(from, to)

LastVerdict == IF reviews = <<>> THEN "none" ELSE reviews[Len(reviews)].verdict

\* recoverAttempt: the step to re-enter at, from the receipts alone.
NextStep ==
  IF terminal # {} THEN "complete"
  ELSE IF oracle = "none" /\ eligibility # NoCandidate THEN "oracle"
  ELSE IF eligibility = NoCandidate /\ gate = "released" /\ attribution # NoCandidate
    THEN "cleanup-eligibility"
  ELSE IF attribution # NoCandidate /\ LastVerdict = "accepted"
    THEN "begin-verification-queued"
  ELSE IF attribution # NoCandidate THEN "begin-review"
  ELSE IF chain # "none" THEN "attribute"
  ELSE IF gate = "released" THEN "dispatch"
  ELSE IF gate # "closed_never_released" /\ lease.state = "live" THEN "containment"
  ELSE IF lease.state = "live" THEN "acquire"
  ELSE "recover"

\* A build calls runAttempt, with the recovered step when it is a resume.
Enter ==
  /\ r.pc = "idle" /\ NextStep # "complete"
  /\ r' = [Idle("none") EXCEPT !.pc = "acquire", !.from = NextStep]
  /\ UNCHANGED <<owned, started, work, decided, world>>

\* The attempt has its disposition: nothing is left to run.
Recover ==
  /\ r.pc = "idle" /\ NextStep = "complete"
  /\ Return("recovered")
  /\ UNCHANGED <<owned, started, work, decided, world>>

Crash ==
  /\ r.pc # "idle" /\ crashes < MaxCrashes
  /\ crashes' = crashes + 1
  /\ r' = Idle("crashed")
  /\ UNCHANGED <<owned, started, work, decided, workspace, tree, worker, starts, writes,
                 reviewer>>

-----------------------------------------------------------------------------
(* Acquisition, workspace, context.                                        *)

\* activateTicketForRunner leaves an active ticket alone and refuses others.
Activatable == ticket \in {"planned", "active"}

\* prepareAcquisition reads the same token for the same key, so acquire replays.
AcquireLease ==
  lease' = IF lease.state = "none" THEN [lease EXCEPT !.state = "live"] ELSE lease

\* A runner that does not resume activates the ticket first; an acquisition
\* with the same idempotency key returns the lease that exists.
Acquire ==
  /\ r.pc = "acquire"
  /\ IF r.from = "recover" /\ ~Activatable
     THEN Throw /\ UNCHANGED <<ticket, lease>>
     ELSE /\ ticket' = IF r.from = "recover" THEN "active" ELSE ticket
          /\ AcquireLease
          /\ Goto(IF r.from \in PastPrepare THEN "context" ELSE "provision")
  /\ UNCHANGED <<phase, started, work, decided, world>>

ProvisionAttemptWorkspace ==
  /\ r.pc = "provision" /\ lease.state = "live"
  /\ workspace' = TRUE
  /\ Goto("context")
  /\ UNCHANGED <<owned, started, work, decided, tree, worker, starts, writes, reviewer,
                 crashes>>

\* A foreign resource, an expired lease, a changed caller: the lease goes to
\* cleanup under the workspace's own key, unless that fails too.
ContainFailure ==
  /\ r.pc = "provision"
  /\ lease' \in {lease} \cup (IF lease.state = "live"
                              THEN {[state |-> "cleanup_pending", key |-> "workspace"]}
                              ELSE {})
  /\ Throw
  /\ UNCHANGED <<phase, ticket, started, work, decided, world>>

\* The execution context binds to the realpath of the attempt's worktree.
ContextResolvable == workspace

ResolveExecutionContext ==
  /\ r.pc = "context"
  /\ IF ~ContextResolvable THEN Throw
     ELSE Goto(IF r.from \in PastContainment THEN "implement" ELSE "gate")
  /\ UNCHANGED <<owned, started, work, decided, world>>

-----------------------------------------------------------------------------
(* Target start gate and containment.                                      *)

\* Mutant: an existing row is overwritten.
CreateHeldGateUpsert ==
  /\ r.pc = "gate" /\ gate' = "held" /\ Goto("boundary")
  /\ UNCHANGED <<owned, chain, identity, work, decided, world>>

\* createHeldTargetStartGate: a row in any other state than held conflicts.
HeldGateRow == gate \in {"absent", "held"} /\ gate' = "held"

CreateHeldGate ==
  /\ r.pc = "gate"
  /\ IF gate \in {"absent", "held"}
     THEN HeldGateRow /\ Goto("boundary")
     ELSE Throw /\ UNCHANGED gate
  /\ UNCHANGED <<owned, chain, identity, work, decided, world>>

CreateBoundary ==
  /\ r.pc = "boundary"
  /\ r' = [r EXCEPT !.pc = "release", !.boundary = TRUE]
  /\ UNCHANGED <<owned, started, work, decided, world>>

\* The two edges out of held, each a replay when it was already taken.
MintTargetReleased == gate \in {"held", "released"} /\ gate' = "released"
MintTargetNeverReleased ==
  gate \in {"held", "closed_never_released"} /\ gate' = "closed_never_released"

\* releaseTarget with an authoritative membership of the boundary.
ReleaseTargetStartGate ==
  /\ r.pc = "release" /\ r.boundary
  /\ MintTargetReleased
  /\ Goto("implement")
  /\ UNCHANGED <<owned, chain, identity, work, decided, world>>

\* No boundary, no membership, or no durable release.
CloseNeverReleased ==
  /\ r.pc \in {"boundary", "release"}
  /\ MintTargetNeverReleased
  /\ r' = [r EXCEPT !.pc = "begin-cleanup", !.cause = "infrastructure",
                    !.boundary = FALSE, !.outcome = "infrastructure_error"]
  /\ UNCHANGED <<owned, chain, identity, work, decided, world>>

BeginImplementing ==
  /\ r.pc = "implement"
  /\ ForwardTo("planned", "implementing")
  /\ Goto("dispatch")
  /\ UNCHANGED <<ticket, lease, started, work, decided, world>>

-----------------------------------------------------------------------------
(* Dispatch and supervision.                                               *)

\* Resumed past the dispatch: the terminal row of an ordinary exit says
\* exit_zero or exit_nonzero, never "exited".
ReconstructSupervised ==
  /\ r.pc = "dispatch" /\ r.from \in PastDispatch
  /\ IF chain = "none" THEN Throw
     ELSE r' = [r EXCEPT !.pc = "identity",
                         !.outcome = IF chain = "timed_out" THEN "timed_out"
                                     ELSE "infrastructure_error"]
  /\ UNCHANGED <<owned, started, work, decided, world>>

\* Mutant: a resumed runner finds its container again and starts the target.
StartTargetReattached ==
  /\ r.pc = "dispatch" /\ r.from \notin PastDispatch
  /\ worker' = "running" /\ starts' = starts + 1
  /\ r' = [r EXCEPT !.pc = "running", !.boundary = TRUE]
  /\ UNCHANGED <<owned, started, work, decided, workspace, tree, writes, reviewer, crashes>>

StartTarget ==
  /\ r.pc = "dispatch" /\ r.from \notin PastDispatch /\ r.boundary
  /\ worker' = "running" /\ starts' = starts + 1
  /\ Goto("running")
  /\ UNCHANGED <<owned, started, work, decided, workspace, tree, writes, reviewer, crashes>>

\* The backend refuses, or a resumed runner holds no boundary any more.
SpawnError ==
  /\ r.pc = "dispatch" /\ r.from \notin PastDispatch
  /\ r' = [r EXCEPT !.pc = "identity", !.outcome = "spawn_error"]
  /\ UNCHANGED <<owned, started, work, decided, world>>

\* The contained processes write while any of them lives, the runner's wait
\* over or not.
WorkerWrites ==
  /\ worker = "running" /\ writes < MaxWrites
  /\ tree' \in Trees \ {tree}
  /\ writes' = writes + 1
  /\ UNCHANGED <<owned, started, work, decided, workspace, worker, starts, reviewer, crashes, r>>

\* The launch ends by exit or deadline; a failing awaitEmpty is swallowed, and
\* then descendants may live on.
TargetEnds ==
  /\ r.pc = "running"
  /\ worker' \in {"running", "dead"}
  /\ \E o \in {"exited", "timed_out", "infrastructure_error"} :
       r' = [r EXCEPT !.pc = "persist", !.outcome = o]
  /\ UNCHANGED <<owned, started, work, decided, workspace, tree, starts, writes, reviewer, crashes>>

PersistProcessChain ==
  /\ r.pc = "persist"
  /\ chain' = IF r.outcome = "timed_out" THEN "timed_out" ELSE "exited"
  /\ Goto("identity")
  /\ UNCHANGED <<owned, gate, identity, work, decided, world>>

\* A failing insert is swallowed too: the dispatch counts as observed.
ChainPersistenceSwallowed ==
  /\ r.pc = "persist"
  /\ Goto("identity")
  /\ UNCHANGED <<owned, started, work, decided, world>>

\* The conversations the dispatch added to its isolated chat.db: which harness
\* and model each new root names.  No conversation, a row without the columns
\* or without an override, and a missing or unreadable database are possible.
ChatDbs == [1 .. 2 -> {"none", "asked", "other", "unnamed"}]
NewRoots(db) == {i \in DOMAIN db : db[i] # "none"}

\* The requested and the invoked identity are both read from the argv.
RequestedIdentity == "asked"
InvokedIdentity == "asked"

\* captureObservedIdentity: the one new root conversation.
ObservedIdentity(db) ==
  IF Cardinality(NewRoots(db)) = 1 THEN db[CHOOSE i \in NewRoots(db) : TRUE] ELSE "unnamed"

\* verifyIdentityReceipts: none is missing, all three agree.
IdentitiesAgree(db) ==
  /\ ObservedIdentity(db) # "unnamed"
  /\ RequestedIdentity = InvokedIdentity /\ RequestedIdentity = ObservedIdentity(db)

\* Receipts are taken of a process that ran to its end in this invocation.
IdentityWanted == r.outcome \in {"exited", "timed_out"} /\ r.from \notin PastDispatch

\* persistIdentityReceipts: three evidence rows.
PersistIdentityReceipts(db) == IdentitiesAgree(db) /\ identity' = "recorded"

CaptureIdentity ==
  /\ r.pc = "identity"
  /\ IF IdentityWanted
     THEN /\ \E db \in ChatDbs : PersistIdentityReceipts(db)
          /\ r' = [r EXCEPT !.pc = "branch", !.identity = TRUE]
     ELSE Goto("branch") /\ UNCHANGED identity
  /\ UNCHANGED <<owned, gate, chain, work, decided, world>>

\* An identity that cannot be verified fails the attempt.
IdentityFails ==
  /\ r.pc = "identity" /\ IdentityWanted
  /\ \E db \in ChatDbs : ~IdentitiesAgree(db)
  /\ Fail("infrastructure")
  /\ UNCHANGED <<owned, started, work, decided, world>>

\* The caller may have asked for cancellation; then timeout, then errors.
SupervisedBranch ==
  /\ r.pc = "branch"
  /\ \/ Fail("cancellation")
     \/ r.outcome = "timed_out" /\ Fail("timeout")
     \/ r.outcome \in {"spawn_error", "infrastructure_error"} /\ Fail("infrastructure")
     \/ r.outcome = "exited" /\ Goto("capture")
  /\ UNCHANGED <<owned, started, work, decided, world>>

-----------------------------------------------------------------------------
(* Attribution, review, remediation.                                       *)

\* observeCandidateOid: the commit at the head of the attempt's worktree.
ObservedCandidate == [tree |-> tree, kind |-> "commit"]

CaptureImplementation ==
  /\ r.pc = "capture"
  /\ Transition("implementing", "implementation_captured")
  /\ r' = [r EXCEPT !.pc = "begin-review", !.cand = ObservedCandidate]
  /\ UNCHANGED <<ticket, lease, started, work, decided, world>>

BeginReview ==
  /\ r.pc = "begin-review"
  /\ Transition("implementation_captured", "reviewing")
  /\ Goto("review")
  /\ UNCHANGED <<ticket, lease, started, work, decided, world>>

\* Mutant: the delta under review may be empty or out of scope.
ReviewableAnyDelta(cycle, t) ==
  phase = "reviewing" /\ cycle <= MaxReviewCycles /\ cycle = Len(reviews) + 1

\* What the store demands of a review record.
Reviewable(cycle, t) ==
  /\ phase = "reviewing" /\ cycle <= MaxReviewCycles
  /\ cycle = Len(reviews) + 1 /\ t \in InScope

\* What the two sets of evidence say of worker and reviewer; null is "none".
\* The worker's receipts agree with each other, on everything but the vendor,
\* which chat.db may not report.
WorkerReceipts ==
  [role : {"worker"}, harness : {"claude", "other"}, model : {"claude", "other"},
   vendor : {"anthropic", "other", "none"}, conversation : {"c1"}]

\* dispatchProductionReview refuses an observation that is not the Claude it
\* invoked, in a data root of its own.
ReviewerReceipts ==
  [role : {"reviewer"}, harness : {"claude"}, model : {"claude"},
   vendor : {"anthropic"}, conversation : {"c1", "c2"}]

\* Observed from chat.db, with nothing missing.
Observed(i) == i.harness # "none" /\ i.model # "none" /\ i.conversation # "none"

\* Another role, conversation, harness, model and vendor.
GenuinelyDistinct(i, j) ==
  /\ \A f \in {"role", "conversation", "harness", "model"} : i[f] # j[f]
  /\ i.vendor # "none" /\ j.vendor # "none" /\ i.vendor # j.vendor

EvaluateDistinction(i, j) ==
  IF Observed(i) /\ Observed(j) /\ GenuinelyDistinct(i, j) THEN "permitted" ELSE "denied"

\* The review provider dispatches the reviewer once per attempt, if one is
\* configured, and records its receipts before the distinction is evaluated.
DispatchReviewer ==
  /\ r.pc = "review" /\ reviewer = "unasked"
  /\ reviewer' \in {"absent"} \cup {EvaluateDistinction(i, j) :
                                     i \in WorkerReceipts, j \in ReviewerReceipts}
  /\ UNCHANGED <<owned, started, work, decided, workspace, tree, worker, starts, writes,
                 crashes, r>>

\* No Claude, a timeout, another identity than the invoked one.
ReviewerFails ==
  /\ r.pc = "review" /\ reviewer = "unasked"
  /\ Throw
  /\ UNCHANGED <<owned, started, work, decided, world>>

\* Evidence of worker and reviewer exists and tells them apart.
DistinctReviewer == identity # "none" /\ reviewer = "permitted"

\* The deterministic reviewer hook finds no banned construct in the diff.
HookAccepts(t) == t \in Clean

\* performReview fails closed.
PerformReview(t) == IF HookAccepts(t) THEN "accepted" ELSE "rejected"

\* A denied distinction blocks the review: a rejected record.
Verdict(t) == IF DistinctReviewer THEN PerformReview(t) ELSE "rejected"

RecordReview(cycle, t) ==
  reviews' = Append(reviews, [verdict |-> Verdict(t), tree |-> t])

\* The first review: a refused record throws out of runAttempt.
Review ==
  /\ r.pc = "review" /\ reviewer # "unasked"
  /\ IF Reviewable(1, r.cand.tree)
     THEN /\ RecordReview(1, r.cand.tree)
          /\ Goto(IF Verdict(r.cand.tree) = "accepted" THEN "queue" ELSE "remediate")
     ELSE Throw /\ UNCHANGED reviews
  /\ UNCHANGED <<owned, started, fixes, gates, attribution, decided, world>>

\* The remediator leaves a new head; before the loop it is dispatched whatever
\* the budget, and no new commit is an error.
Remediate ==
  /\ r.pc = "remediate" /\ writes < MaxWrites
  /\ tree' \in Trees \ {tree}
  /\ writes' = writes + 1
  /\ r' = [r EXCEPT !.pc = "remed-begin", !.fix = tree',
                    !.used = IF r.cycle = 1 THEN 0 ELSE r.used + 1]
  /\ UNCHANGED <<owned, started, work, decided, workspace, worker, starts, reviewer, crashes>>

\* A failed remediation throws the first time and fails the loop later.
RemediationFails ==
  /\ r.pc = "remediate"
  /\ IF r.cycle = 1 THEN Throw ELSE Fail("ordinary")
  /\ UNCHANGED <<owned, started, work, decided, world>>

\* persistRemediationRecord, whose errors are swallowed: on to the re-review.
Swallowed == Goto("loop-review")

BeginRemediation ==
  /\ r.pc = "remed-begin"
  /\ IF phase = "reviewing" THEN Transition("reviewing", "remediating") /\ Goto("remed-record")
     ELSE Swallowed /\ UNCHANGED phase
  /\ UNCHANGED <<ticket, lease, started, work, decided, world>>

\* Mutant: a remediation may answer a review that was never rejected, and the
\* budget is not looked at.
RemediableUnbudgeted(cycle, t) == phase = "remediating" /\ t \in InScope

Remediable(cycle, t) ==
  /\ phase = "remediating" /\ cycle <= RemediationLimit /\ t \in InScope
  /\ cycle \in DOMAIN reviews /\ reviews[cycle].verdict = "rejected"

RecordRemediation ==
  /\ r.pc = "remed-record"
  /\ IF Remediable(r.cycle, r.fix)
     THEN fixes' = fixes \cup {[cycle |-> r.cycle, tree |-> r.fix]} /\ Goto("remed-captured")
     ELSE Swallowed /\ UNCHANGED fixes
  /\ UNCHANGED <<owned, started, reviews, gates, attribution, decided, world>>

CaptureRemediation ==
  /\ r.pc = "remed-captured"
  /\ Transition("remediating", "remediation_captured")
  /\ Goto("remed-review")
  /\ UNCHANGED <<ticket, lease, started, work, decided, world>>

ReviewAfterRemediation ==
  /\ r.pc = "remed-review"
  /\ Transition("remediation_captured", "reviewing")
  /\ r' = [r EXCEPT !.pc = "loop-review", !.persisted = TRUE]
  /\ UNCHANGED <<ticket, lease, started, work, decided, world>>

\* The budget of runBoundedRemediationLoop, whose own cycles start at the
\* second review.
BudgetExhausted(cycle) == cycle - 1 >= MaxReviewCycles \/ r.used >= RemediationLimit

\* An accepted re-review replaces the candidate by the remediated tree, but
\* only if some remediation record was written.
LoopReview ==
  LET cycle == r.cycle + 1 IN
  /\ r.pc = "loop-review"
  /\ IF Reviewable(cycle, r.fix)
     THEN /\ RecordReview(cycle, r.fix)
          /\ IF Verdict(r.fix) = "accepted"
             THEN r' = [r EXCEPT !.pc = "queue", !.cycle = cycle,
                          !.cand = IF r.persisted THEN [tree |-> r.fix, kind |-> "tree"] ELSE @]
             ELSE IF BudgetExhausted(cycle) THEN Fail("ordinary")
             ELSE r' = [r EXCEPT !.pc = "remediate", !.cycle = cycle]
     ELSE Fail("ordinary") /\ UNCHANGED reviews
  /\ UNCHANGED <<owned, started, fixes, gates, attribution, decided, world>>

-----------------------------------------------------------------------------
(* Verification and attribution.                                           *)

BeginVerification ==
  /\ r.pc = "queue"
  /\ Transition("reviewing", "verification_queued")
  /\ Goto("verify")
  /\ UNCHANGED <<ticket, lease, started, work, decided, world>>

\* What the store demands of a gate result: a nonempty delta within scope.
GateRecordable(t) == t \in InScope

\* The checks before execution that the provider's request arms: it passes a
\* verification and no skip flag, no sandbox verdict, no expected tree and no
\* prior digest, so runGateVerification refuses nothing.
ArmedChecks == {}
RefusedStatuses == Refusals \cap ArmedChecks

\* superviseVerificationSync: what spawnSync reports; it never throws.
SupervisorReceipts ==
  [exit : {"expected", "unexpected", "none"}, error : {"none", "ENOENT", "other"}]

\* runGateVerification, supervised: an error first, then the exit code, and
\* neither of them is no pass.
GateStatus(receipt) ==
  CASE receipt.error = "ENOENT" -> "missing"
    [] receipt.error = "other" -> "infrastructure_error"
    [] receipt.error = "none" /\ receipt.exit = "expected" -> "passed"
    [] receipt.error = "none" /\ receipt.exit = "unexpected" -> "failed"
    [] OTHER -> "missing"

GateOutcomes ==
  IF RefusedStatuses # {} THEN RefusedStatuses ELSE {GateStatus(c) : c \in SupervisorReceipts}

\* The provider's overall status: infrastructure error, then failure, then pass.
OverallStatus(rows) ==
  LET statuses == {rows[i].status : i \in DOMAIN rows} IN
  IF statuses \cap {"missing", "unavailable", "infrastructure_error"} # {} THEN "infrastructure_error"
  ELSE IF statuses \subseteq {"passed"} THEN "pass" ELSE "fail"

\* The candidate is observed once, before the first gate runs.
Verify ==
  /\ r.pc = "verify"
  /\ Transition("verification_queued", "verifying")
  /\ r' = [r EXCEPT !.pc = "gates", !.seen = tree]
  /\ UNCHANGED <<ticket, lease, started, work, decided, world>>

\* The row names the candidate that was observed before the gates.
RecordGateResult(status) == gates' = Append(gates, [status |-> status, tree |-> r.seen])

\* All gates run, whatever the earlier ones came to, each in the worktree as it
\* is by then; a refused row throws.
RunGate ==
  /\ r.pc = "gates"
  /\ IF GateRecordable(r.seen)
     THEN \E status \in GateOutcomes :
            /\ RecordGateResult(status)
            /\ IF Len(gates') < Verifications THEN UNCHANGED r
               ELSE CASE OverallStatus(gates') = "pass" -> Goto("converge")
                      [] OverallStatus(gates') = "fail" -> Fail("ordinary")
                      [] OTHER -> Fail("infrastructure")
     ELSE Throw /\ UNCHANGED gates
  /\ UNCHANGED <<owned, started, reviews, fixes, attribution, decided, world>>

BeginConverging ==
  /\ r.pc = "converge"
  /\ Transition("verifying", "converging")
  /\ Goto("finalize")
  /\ UNCHANGED <<ticket, lease, started, work, decided, world>>

\* persistAuthorityCommitAttribution: an existing row is returned as it is.
PersistCommitAttribution ==
  attribution' = IF attribution = NoCandidate THEN r.cand ELSE attribution

\* The commit intent names the launch row of the dispatch.
FinalizeAttribution ==
  /\ r.pc = "finalize"
  /\ IF chain = "none" THEN Throw /\ UNCHANGED attribution
     ELSE /\ PersistCommitAttribution
          /\ r' = [r EXCEPT !.pc = "begin-cleanup", !.cause = "promotion"]
  /\ UNCHANGED <<owned, started, reviews, fixes, gates, decided, world>>

-----------------------------------------------------------------------------
(* Cleanup: attempt, ticket, lease, then the worker and its proof.         *)

CleanupKey == IF r.cause = "promotion" THEN "promotion" ELSE "failure"

\* #beginCleanupPhase, the attempt: out of verifying only with gate results in
\* the runner's hands, which a resumed runner does not have.
BeginAttemptCleanup ==
  /\ r.pc = "begin-cleanup"
  /\ IF phase = "cleanup_pending" THEN Goto("lease") /\ UNCHANGED phase
     ELSE IF phase = "verifying" /\ r.from \in PastDispatch
     THEN Throw /\ UNCHANGED phase
     ELSE phase' = "cleanup_pending" /\ Goto("ticket")
  /\ UNCHANGED <<ticket, lease, started, work, decided, world>>

AdvanceTicketToCleanupPending ==
  /\ r.pc = "ticket"
  /\ ticket' = "cleanup_pending"
  /\ Goto("lease")
  /\ UNCHANGED <<phase, lease, started, work, decided, world>>

\* Mutant: a repeated beginCleanup is refused like a foreign one.
BeginLeaseCleanupOnce ==
  /\ r.pc = "lease"
  /\ IF lease.state = "live"
     THEN /\ lease' = [state |-> "cleanup_pending", key |-> CleanupKey]
          /\ Goto(IF r.cause = "promotion" THEN "seal" ELSE "kill")
     ELSE Throw /\ UNCHANGED lease
  /\ UNCHANGED <<phase, ticket, started, work, decided, world>>

\* LeaseAuthority.beginCleanup: from live, or a replay under the same key.
BeginLeaseCleanup ==
  /\ r.pc = "lease"
  /\ IF lease.state = "live" \/ lease.key = CleanupKey
     THEN /\ lease' = [state |-> "cleanup_pending", key |-> CleanupKey]
          /\ Goto(IF r.cause = "promotion" \/ gate = "closed_never_released"
                  THEN "seal" ELSE "kill")
     ELSE Throw /\ UNCHANGED lease
  /\ UNCHANGED <<phase, ticket, started, work, decided, world>>

\* Without a boundary nothing is killed; a failing kill is swallowed.
KillAndMintDeath ==
  /\ r.pc = "kill"
  /\ worker' \in {worker} \cup (IF r.boundary /\ worker = "running" THEN {"dead"} ELSE {})
  /\ Goto("seal")
  /\ UNCHANGED <<owned, started, work, decided, workspace, tree, starts, writes, reviewer, crashes>>

\* Mutant: a proof set is sealed whatever the process rows say.
ProofRowsExistAssumed == TRUE

\* The rows a sealed proof set refers to: the released gate and the chain of
\* the very launch.  A never-released member names an evidence id that the gate
\* does not hold, so that set is refused.
ProofRowsExist == gate = "released" /\ chain # "none" /\ r.outcome # "spawn_error"

\* createAndSealAuthorityTargetProofSet: collecting, one member, sealed, in one
\* transaction; a sealed set is returned as it is.
CreateAndSealProofSet == (sealed \/ ProofRowsExist) /\ sealed' = TRUE

SealTargetProofSet ==
  /\ r.pc = "seal"
  /\ IF sealed \/ ProofRowsExist
     THEN CreateAndSealProofSet /\ Goto(IF r.cause = "promotion" THEN "eligibility" ELSE "failure")
     ELSE Throw /\ UNCHANGED sealed
  /\ UNCHANGED <<owned, started, work, eligibility, oracle, intent, terminal, world>>

FailureResult ==
  CASE r.cause = "timeout" -> "timed_out"
    [] r.cause = "cancellation" -> "cancelled"
    [] r.cause = "infrastructure" -> "infrastructure_failed"
    [] OTHER -> "failed_clean"

\* What every disposition record demands of attempt and lease.
CleanupDispositionPreimage == phase = "cleanup_pending" /\ lease.state = "cleanup_pending"

\* A disposition record is inserted once and replayed with the same content.
PersistDispositionReceipt(kind) == terminal' = terminal \cup {kind}

FailureCleanupRow ==
  CleanupDispositionPreimage /\ sealed /\ PersistDispositionReceipt("failure")

\* terminalizeAttemptDisposition mints the same receipt again: a replay.
MintFailureCleanup ==
  /\ r.pc = "failure"
  /\ FailureCleanupRow
  /\ Return(FailureResult)
  /\ UNCHANGED <<owned, started, work, sealed, eligibility, oracle, intent, world>>

-----------------------------------------------------------------------------
(* Eligibility, oracle, promotion.                                         *)

CleanupEligibilityRow ==
  CleanupDispositionPreimage /\ sealed /\ eligibility' = r.cand

MintCleanupEligibility ==
  /\ r.pc = "eligibility"
  /\ CleanupEligibilityRow
  /\ Goto("oracle")
  /\ UNCHANGED <<owned, started, work, sealed, oracle, intent, terminal, world>>

\* The oracle provider: with receipts in hand, the row that binds them to the
\* evaluation, then on to the completion service.
BindIdentity ==
  /\ r.pc = "oracle"
  /\ identity' = IF r.identity THEN "bound" ELSE identity
  /\ Goto("evaluate")
  /\ UNCHANGED <<owned, gate, chain, work, decided, world>>

\* #resolveAttemptOracleProjection: the references by input class, each empty
\* when its row is missing.  A binding is projected if its receipts cohere.
ReceiptsCohere == identity = "bound"
ProjectedProofSet == IF sealed THEN {gate} ELSE {}
ProjectedEligibility == {eligibility} \ {NoCandidate}
ProjectedSnapshots == IF eligibility # NoCandidate THEN {lease.state} ELSE {}
Projection ==
  [required_gates |-> DOMAIN gates,
   independent_review |-> DOMAIN reviews,
   commit_attribution |-> {attribution} \ {NoCandidate},
   complete_target_proof_set |-> ProjectedProofSet,
   cleanup_eligibility |-> ProjectedEligibility,
   lease_snapshots |-> ProjectedSnapshots,
   remediation_cycles |-> {f.cycle : f \in fixes},
   identity_binding |-> IF ReceiptsCohere THEN {"coherent"} ELSE {}]

\* A sealed set proves the end of the very launch the gate released; an
\* eligibility names that set; the snapshots it pins are the current rows.
\* Otherwise the projection throws.
ProofSetExact == sealed => gate = "released" /\ chain # "none"
EligibilityExact == Projection.cleanup_eligibility # {} => sealed
SnapshotsCurrent == Projection.lease_snapshots \subseteq {"cleanup_pending"}
ProjectionResolves == ProofSetExact /\ EligibilityExact /\ SnapshotsCurrent

\* The input classes without which nothing is accepted.
RequiredClasses == DOMAIN Projection \ {"remediation_cycles"}
ClassesPresent == \A c \in RequiredClasses : Projection[c] # {}

\* Evidence without an identity binding, a contract without a review cycle:
\* references that are not exact are never persisted, not even as a rejection.
IdentityBound == Projection.identity_binding # {}
ContractSealed == MaxReviewCycles >= 1 /\ RemediationLimit >= 0
IntegrityExact == IdentityBound /\ ContractSealed
Materializable == IntegrityExact

Rejected == {c \in DOMAIN reviews : reviews[c].verdict = "rejected"}

\* The parts of evaluateAttemptOracle's decision.
GatesPassed == Len(gates) = Verifications /\ \A i \in DOMAIN gates : gates[i].status = "passed"
ProcessesProven ==
  Cardinality(Projection.complete_target_proof_set) = 1
  /\ Cardinality(Projection.cleanup_eligibility) = 1
ReviewsConverge ==
  reviews # <<>> /\ Len(reviews) <= MaxReviewCycles /\ LastVerdict = "accepted"
RejectionsRemediated ==
  Rejected = Projection.remediation_cycles /\ Cardinality(Rejected) <= RemediationLimit
\* Every change is declared and every declared change is made.
ScopeMatches(t) == t \in Complete \cap InScope
EligibleCandidate == attribution = eligibility /\ ScopeMatches(attribution.tree)
\* Mutant: the oracle does not compare the tree the gates saw.
SameTreeReviewed == reviews[Len(reviews)].tree = attribution.tree

SameTree ==
  /\ \A i \in DOMAIN gates : gates[i].tree = attribution.tree
  /\ reviews[Len(reviews)].tree = attribution.tree

OracleAccepts ==
  /\ ClassesPresent
  /\ GatesPassed /\ ProcessesProven /\ ReviewsConverge /\ RejectionsRemediated
  /\ EligibleCandidate /\ SameTree

\* evaluateAndPersistAttemptOracle: the decision on a projection of the rows as
\* they are in the same transaction, for an attempt in cleanup.
Decidable == ProjectionResolves /\ Materializable /\ phase = "cleanup_pending"
PersistOracleDecision == oracle' = IF OracleAccepts THEN "accepted" ELSE "rejected"

EvaluateOracle ==
  /\ r.pc = "evaluate"
  /\ IF Decidable
     THEN /\ PersistOracleDecision
          /\ r' = IF OracleAccepts THEN [r EXCEPT !.pc = "intent"]
                  ELSE [r EXCEPT !.pc = "kill", !.cause = "oracle_rejected"]
     ELSE Throw /\ UNCHANGED oracle
  /\ UNCHANGED <<owned, started, work, sealed, eligibility, intent, terminal, world>>

\* createIntent demands that the candidate object is a commit.
PromotableCandidate == oracle = "accepted" /\ r.cand.kind = "commit"

CreatePromotionIntent ==
  /\ r.pc = "intent"
  /\ IF PromotableCandidate THEN intent' = TRUE /\ Goto("receipt")
     ELSE Throw /\ UNCHANGED intent
  /\ UNCHANGED <<owned, started, work, sealed, eligibility, oracle, terminal, world>>

\* Mutant: the success path runs on into the failure disposition.
MintPromotionCleanupFallsThrough ==
  /\ r.pc = "receipt" /\ terminal' = terminal \cup {"promotion"} /\ Goto("failure")
  /\ UNCHANGED <<owned, started, work, sealed, eligibility, oracle, intent, world>>

PromotionPreimage ==
  /\ CleanupDispositionPreimage
  /\ oracle = "accepted" /\ eligibility.tree = r.cand.tree /\ intent

PromotionCleanupRow == PromotionPreimage /\ PersistDispositionReceipt("promotion")

MintPromotionCleanup ==
  /\ r.pc = "receipt"
  /\ PromotionCleanupRow
  /\ Return("succeeded")
  /\ UNCHANGED <<owned, started, work, sealed, eligibility, oracle, intent, world>>

-----------------------------------------------------------------------------
\* What runAttempt does without a choice of the environment.
Runner ==
  \/ Acquire \/ ProvisionAttemptWorkspace \/ ContainFailure \/ ResolveExecutionContext
  \/ CreateHeldGate \/ CreateBoundary \/ ReleaseTargetStartGate \/ CloseNeverReleased
  \/ BeginImplementing \/ ReconstructSupervised \/ StartTarget \/ SpawnError
  \/ TargetEnds \/ PersistProcessChain \/ ChainPersistenceSwallowed
  \/ CaptureIdentity \/ IdentityFails \/ SupervisedBranch
  \/ CaptureImplementation \/ BeginReview \/ DispatchReviewer \/ ReviewerFails \/ Review
  \/ Remediate \/ RemediationFails
  \/ BeginRemediation \/ RecordRemediation \/ CaptureRemediation
  \/ ReviewAfterRemediation \/ LoopReview
  \/ BeginVerification \/ Verify \/ RunGate \/ BeginConverging \/ FinalizeAttribution
  \/ BeginAttemptCleanup \/ AdvanceTicketToCleanupPending \/ BeginLeaseCleanup
  \/ KillAndMintDeath \/ SealTargetProofSet \/ MintFailureCleanup
  \/ MintCleanupEligibility \/ BindIdentity \/ EvaluateOracle \/ CreatePromotionIntent
  \/ MintPromotionCleanup

Next == Enter \/ Recover \/ Crash \/ WorkerWrites \/ Runner

\* runAttempt goes on until it returns, throws or dies (every wait in it has a
\* deadline), and somebody resumes the build.
Spec == Init /\ [][Next]_vars /\ WF_vars(Runner) /\ WF_vars(Enter)

-----------------------------------------------------------------------------
(* Properties.                                                             *)

\* However often the attempt is resumed, target code is started at most once:
\* only the invocation that moved the gate from held holds a boundary.
TargetStartedOnce == starts <= 1

\* A disposition record rests on the durable death of the very process that was
\* released, and only an attempt and a lease in cleanup have one.
DispositionRestsOnProcessProof ==
  terminal # {} => /\ sealed /\ gate = "released" /\ chain # "none"
                   /\ phase = "cleanup_pending" /\ lease.state = "cleanup_pending"

\* What is promoted is one tree: the last review, by a reviewer of another
\* vendor, accepted it, every sealed gate has a passed row for it, attribution
\* and eligibility name it, and the identity of the model that made it is
\* bound, whatever a surviving worker wrote meanwhile.
PromotedTreeIsProven ==
  "promotion" \in terminal =>
     /\ LastVerdict = "accepted" /\ reviewer = "permitted"
     /\ reviews[Len(reviews)].tree = attribution.tree
     /\ Len(gates) = Verifications
     /\ \A i \in DOMAIN gates : gates[i] = [status |-> "passed", tree |-> attribution.tree]
     /\ eligibility = attribution /\ attribution.tree \in Complete \cap Clean \cap InScope
     /\ identity = "bound"

\* An attempt never has two dispositions: a resumed runner cannot fail what was
\* promoted nor promote what failed.
OneDisposition == ~ ({"promotion", "failure"} \subseteq terminal)

\* Remediation records answer rejected reviews within the budget, each cycle
\* once, whatever was swallowed on the way.
RemediationsAnswerRejections ==
  /\ \A f \in fixes : f.cycle <= RemediationLimit /\ f.cycle \in Rejected
  /\ \A f, g \in fixes : f.cycle = g.cycle => f = g

\* A decision once taken is final: no resume rewrites the attribution, the
\* oracle's result, the gate's release or a review.
DecisionsFinal ==
  [][/\ attribution # NoCandidate => attribution' = attribution
     /\ oracle # "none" => oracle' = oracle
     /\ gate \in {"released", "closed_never_released"} => gate' = gate
     /\ Len(reviews') >= Len(reviews)
     /\ \A i \in DOMAIN reviews : reviews'[i] = reviews[i]]_vars

\* A lease put into cleanup by the failure path, over a durable process chain,
\* gets its failure record although the runner dies in between.
FailureCleanupCompletes ==
  (lease.key = "failure" /\ chain # "none") ~> ("failure" \in terminal)
=============================================================================
