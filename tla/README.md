# Rickgent: a TLA+ development of its orchestrator

Rickgent drives coding agents through tickets: a *run* works through *tickets*, a ticket is tried in
*attempts*, an attempt owns a Git worktree, runs a worker (and reviewers, remediators and verification
gates), and is either promoted to the run's delivery ref or cleaned up and salvaged. The orchestrator
(`orchestrator/src`, TypeScript) keeps everything it must not lose in one SQLite database, and it may
die between any two transactions. All paths below are relative to the repository; `store.ts` is
`orchestrator/src/state/store.ts`.

## 1. Inventory

| Component | State it keeps | Operations | Talks to | What is hard |
|---|---|---|---|---|
| **Attempt ownership** (`state/leases.ts`, `store.ts` 8140-10140) | lease generations, resource claims, salvage records | acquire, heartbeat, advance_resource, begin_cleanup, record_salvage, finalize_cleanup, stale_recovery, quarantine | everything that touches an attempt's resources | expiry against a wall clock, recovery by another process, replay, two-transaction quarantine |
| **Process supervision** (`process/supervisor.ts`, `posix.ts`, `containment.ts`) | launch, observations and terminal receipt of the worker | launch behind a start gate, follow, observe death, commit terminal; container create / release / awaitEmpty | ownership, attempt runner | the orchestrator dies and the detached worker does not; how much a death observation proves |
| **Salvage and cleanup** (`lifecycle/salvage.ts`, `cleanup.ts`, `git/attempt-workspace.ts`) | attempt ref, worktree, allocation root, archive | provision, capture, execute | ownership, Git | check and effect are separate; partial cleanup and retry |
| **Lifecycle transitions** (`state/transitions.ts`, `lifecycle/phase.ts`, `engine.ts`) | versions and states of runs, tickets and attempts | guarded transitions by compare-and-set, with one-shot receipts | every phase | guards that consume evidence; three aggregates moved in separate transactions |
| **Allocation, retry, resume** (`store.ts`, `lifecycle/registry.ts`) | attempt numbers, current attempt of a ticket | allocate, retry, resume | lifecycle | a retry while the previous attempt is not clean |
| **Promotion** (`store.ts` 5193-5503) | promotion intents, delivery OID, promotion sequence | record intent, observe ref, finalize | lifecycle, oracle, Git | the ref moves between observation and finalization |
| **Delivery** (`delivery/push.ts`, `pull-request.ts`) | delivery intents, remote ref, pull request | push, open pull request, reconcile | remote Git host | lost answers, duplicated effects |
| **AttemptRunner** (`lifecycle/attempt-runner.ts`) | the step it resumes from | 26 steps of an attempt, quarantine, recover | all of the above | a crash at any step |
| **Target start gate, dispositions** (`lifecycle/target-start-gate.ts`, `disposition*.ts`) | gate record, disposition receipts | hold, release, never-released; eligibility, failure, promotion, quarantine | attempt runner | a target that was released or not when the orchestrator died |
| **Commit attribution** (`git/commit-service.ts`, `store.ts` 6000-6530) | commit intent, attribution row, attempt ref and its reflog | build candidate, prepare intent, compare-and-swap the ref, finalize, contain a failure | Git, store, ownership | Git and SQLite share no transaction; retries; foreign writers of ref and worktree |
| **Completion oracle** (`state/oracle.ts`) | decision over the evidence of an attempt | evaluate | promotion | one missing or stale piece of evidence |
| **Store opening** (`store.ts` 700-1377, `state/migrations.ts`, `legacy-quarantine.ts`) | database file, migration ledger, legacy inventory | open, bootstrap, publish, migrate, validate, observe | file system | several openers at once; a crash between two migrations |
| **Build pipeline** (`lifecycle/build.ts`, `cli.ts`) | ticket loop, outcome | build, resume, abandon | attempt runner, promotion | aggregation of partial results |
| **Recovery, reaper, reconcile** (`lifecycle/recovery.ts`, `orphan-reaper.ts`, `reconcile.ts`) | recovery plan | plan, reap, reconcile | ownership, processes | process identifiers reused |
| **Dispatch, queue** (`dispatch/`) | queue of work, evidence of model identity | enqueue, drain, dispatch, kill, poll for death | worker hosts | stop of the drain; deadline against exit and close |
| **Run workspace, fixture build** (`git/run-workspace.ts`, legacy half of `build.ts`) | run worktree and ref, capture receipts | provision, dispatch, capture, retain or remove | dispatch, policy bundle | workers that outlive their deadline or leave their process group |
| **Policies** (`policy/policy-bundle.ts`, `rickgent-policies/`) | bundle, its lease, receipts | issue, decide an event, close | fixture build, agent host | authority that outlives the dispatch |
| **Microverse, szechuan, anatomy park, cronenberg** (`lifecycle/`) | the caller's repository and index, three state files | measure, commit or roll back, review/fix/verify, chain of commands | Git, agents | rollback, stale state after a crash, stray processes |
| **Core algorithms** (`core/`) | error counts | breaker, convergence, completion, scope, salvage | fixture build, microverse | boundaries and zero |
| **Review, remediation, verification** (`lifecycle/review.ts`, `remediation.ts`, `verification/`) | cycle counter, verdicts | review, remediate, gates | attempt runner | verdict of a stale tree |

Parsing, prompts, installation, diagnostics and release artefacts keep no protocol state; the
`components` list of `PROJECT.json` names them with the reason they are left out.

What makes the system correct, component by component:

* *Ownership*: one open generation per attempt; claims and leases agree; nothing is handed over,
  salvaged or released while the worker may run; rows never change without a larger version; a
  crashed owner can be replaced.
* *Supervision*: a supervisor that returns leaves either a proof of death or a lease in cleanup;
  a receipt that claims a death is true.
* *Cleanup*: no work deleted before it was salvaged; a released lease leaves nothing behind; crashes
  between the effects do not wedge it.
* *Lifecycle and promotion*: a lease is open only for the newest attempt of its ticket, and older attempts are
  clean; the ticket follows its attempt into cleanup; the delivery ref names a candidate only under its intent, and no
  attempt's promotion runs into another's; a receipt states what was observed.
* *Delivery*: publish, observe, request, conclude, in that order and each once, with records that are true although
  answers are lost; nothing is written under a concluded delivery.
* *AttemptRunner*: the target is started once however often the attempt is resumed; a disposition rests on a durable
  proof of death and there is only one; what is promoted is one tree that was reviewed, gated, attributed and whose
  model identity is bound; failure cleanup is finished by somebody.
* *Commit attribution*: what is attributed is the reviewed tree, put on the ref by the service itself; an intent has one tree and
  is completed or contained; a failed call leaves no live ownership, or says that it could not contain it.
* *Build*: the verdict is founded on the rows; tickets are kept apart; racing resumes open one attempt.
* *Fixture build and policies*: work of a killed worker survives, a capture lists no killed worker's writes, authority
  ends with the dispatch, and a dispatch ends.
* *Microverse and its relatives*: what is committed was judged and in scope, what was rejected stays out, a verdict was
  earned by the work it is about.
* *Store opening*: whoever gets a store has the one canonical and complete database; what is refused is untouched.

## 2. Modules and the code they model

### `AttemptOwnership`

One attempt. The tables are variables: `lease` (generation → state, version, heartbeat, expiry), `claim`
(slot → owner, state, version), `launch`, `terminal`, `salvage`. `sup` and `death` are what the supervisor
holds in memory and loses in a crash; `worker` is the real process group; `attemptRef` and `delivery` are
what Git says; `lineage` is what the run/ticket/attempt rows admit.

Every action is one `BEGIN IMMEDIATE` transaction of the store, so atomicity is SQLite's, or one step of the
process that follows the worker:

| Code | Action |
|---|---|
| `#acquireAttemptOwnership` | `Acquire` |
| `#heartbeatAttemptOwnership`, called by the supervisor's interval only | `Heartbeat` |
| `#advanceAttemptResourceClaim` | `AdvanceResource` |
| `#beginAttemptOwnershipCleanup` (no expiry check) | `BeginCleanup`, and inside `CloseSupervision` |
| `#recordAuthorizedSalvage` | `RecordSalvage` |
| `#finalizeAttemptOwnershipCleanup` | `Finalize` |
| `#recoverStaleAttemptOwnership` | `StaleRecovery` (`RecoveryProof`, `RecoveredLeases`, `HandedOver`) |
| `advanceClaimsToQuarantined`, then `finalizeQuarantineOwnership` | two actions of the same names |
| `#commitProcessLaunch`, `ProcessSupervisor.run` | `Launch`, `ReleaseStartGate`, `ObserveDeath`, `CommitTerminal`, `CloseSupervision`, `SupervisorCrash` |
| container dispatch of `AttemptRunner` | `ReleaseTarget`, `AwaitEmpty`, `PersistAuthorityProcessChain` |

Abstractions. Tokens, digests and resource names identify the row they belong to and are the generation or
the slot itself. An idempotent replay returns the sealed result and changes nothing: it is a stutter, as is
every refused command. A compare-and-set on version and state is a guard on the current row, because the
transaction reads and writes under one lock; what remains racy, a grant read in one transaction and used in
another, is kept (`CheckFresh` and the effect after it, `ObserveDeath` and `CommitTerminal`, the two quarantine
steps). How thoroughly the process table was sampled is reduced to the *basis* of the death observation:
`none`, `sampled` or `authoritative`.

### `FencedOwnership`

What ownership promises, in five actions without leases or clocks: the first owner works, every later owner
is a new generation that can only clean, nothing is used once cleanup began. `AttemptOwnership` implements
it under the mapping in `Fenced`.

### `CleanupService`

Extends `AttemptOwnership` with the physical side: provisioning (allocation root, attempt ref, worktree; in
that order, each under a fresh lease), salvage of the worktree, and `CleanupService.execute` cut at every
`assertFresh`, so that each executor first obtains permission and acts on it later. Executors crash, race with
each other and may belong to different generations.

### `RunLifecycle`

One run with its tickets and their attempts. The variables are the mutable tables (`run`, `ticket`, `attempt`,
`intent`), what the guards ask of the others (`lease`, the state of an attempt's newest generation; `context`,
`work`, `record`, `receipt`), the delivery `ref` of Git, and `mirroring`, the runners between the two
transactions of `#beginCleanupPhase`.

| Code | Action |
|---|---|
| `#allocateAttempt`, `#retrySelectionFromRows` | `AllocateInitialAttempt`, `AllocateRetryAttempt` |
| `activateRunForRunner`, `activateTicketForRunner`, `activateRetryTicket` | `ActivateRun`, `ActivateTicket`, `ActivateRetryTicket` |
| `persistDurableExecutionContext`, ownership admission, `advanceAttemptState`, commit attribution | `PersistContext`, `Acquire`, `StartAttempt`, `FinalizeCommit` |
| `beginCleanup` of the lease; `#beginCleanupPhase` of the runner | `BeginLeaseCleanup`; `BeginAttemptCleanup`, then `AdvanceTicketToCleanupPending`, or `RunnerCrash` |
| `finalizeCleanup` of the lease with its record, `finalizeQuarantineOwnership`, `#recordCleanup` | `FinalizeLease`, `QuarantineLease`, `RecordCleanup` |
| `TransitionAuthority`, one method each with the guard of `#validateTransitionGuard` | `BeginTicketCleanup`, `MarkAttemptFailedClean`, `QuarantineAttempt`, `FailTicket`, `QuarantineTicket`, `BeginRunCleanup`, `ReactivateRun`, `FailRun`, `FinalizeReadyRun` |
| `recoverOrphanedPlannedAttempt` | `RecoverOrphanedPlannedAttempt` |
| oracle, `createAuthorizedPromotionIntent`, `mintPromotionCleanup`, `commitAuthorizedPromotion` | `EvaluateOracle`, `CreatePromotionIntent`, `MintPromotionCleanup`, `ObservePromotion`, `FinalizePromotion` |
| Git | `UpdateRef`, `RefMoves` |

Several methods (`activateRetryTicket`, `markAttemptFailedClean`, `failTicket`, `#recordCleanup` and others) have no
caller in the orchestrator outside its tests; the model calls them whenever their guards hold, so that the
invariants hold for any caller. The eight attempt states between planned and cleanup are one state, `working`:
no guard modelled here tells them apart. Of the cleanup records the outcomes are kept, and the delivery OID of the
one that the end of a lease is bound to; the OID of any other is never read, because an attempt with an intent
has work, which is recorded under a lease. `FullNext` adds `FinalizePromotion` and `FinalizeReadyRun` to `Next`: they are separate
because they can never fire, which `FinalizationIsUnreachable` proves.

### `AttemptRunner`

One attempt under `AttemptRunner.runAttempt` with the production providers. Every row the runner writes is a variable
(phase, ticket, lease, gate, chain, identity, reviews, remediations, gate results, attribution, proof set, eligibility,
oracle decision, intent, terminal records); what the call holds in memory is `r`, with a program counter, and a throw or
a crash loses it. `NextStep` is `recoverAttempt`: the step a resume enters at, derived from the rows alone.

| Code | Definitions |
|---|---|
| `recoverAttempt`, entry of `runAttempt` | `NextStep`, `Enter`, `Recover`, `Crash` |
| acquisition, provisioning, durable context | `Acquire`, `ProvisionAttemptWorkspace`, `ContainFailure` |
| target start gate: held, released, closed as never released | `CreateHeldGate`, `StartTarget` and the `gate` to `release` steps |
| contained dispatch and its process chain (a failed persistence is swallowed) | the `dispatch`, `running` and `persist` steps |
| model identity: requested, invoked and observed | `RequestedIdentity`, `InvokedIdentity`, `ObservedIdentity`, `PersistIdentityReceipts`, `BindIdentity` |
| `dispatchProductionReview`, `evaluateCrossVendorDistinction` | `ReviewerReceipts`, `DispatchReviewer`, `ReviewerFails`, `EvaluateDistinction`, `DistinctReviewer` |
| review, remediation, attribution | the `review`, `remediate`, `finalize` steps |
| `runGateVerification`, one gate after the other | `Verify`, `GateStatus`, `RecordGateResult`, `OverallStatus`, `RunGate` |
| `projectOracleEvidence`, `evaluateOracle`, `CompletionService` | `Projection`, `ProjectionResolves`, `IntegrityExact`, `Decidable`, `PersistOracleDecision` |
| cleanup phase, eligibility, promotion and failure dispositions | the `begin-cleanup` to `failure` steps |

A tree is one of five values that differ in what the checks tell apart: complete, in scope, free of banned constructs,
and two good ones so that a tree can be exchanged after it was reviewed. A surviving worker may write at any time
(`WorkerWrites`). Leases are reduced to their state and the key of their cleanup; their detail is in `AttemptOwnership`.
Requested and invoked identity are both computed from the same argument vector, so only the observed one can disagree.
The candidate is observed once, before the first gate; every gate then runs in the worktree as it is by then, and its row names
the tree observed before. `PromotedTreeIsProven` is about the tree the rows name. Of the nine gate statuses five are decided
by optional fields of the gate request; the provider sets none of them (`ArmedChecks`), so a tree that changes between two gates
is not reported as stale.

### `CommitService`

`CommitService.run` by any number of callers for one attempt, cut at its barriers and at every check of Git, worktree or lease:
`Begin`, `Build`, `RestoreIndex`, `Prepare` (the intent row), `CreateCommit`, `Rebuild`, `RestoreBeforeRef`, `SignTransaction`,
`RefTransaction` (compare-and-swap of the attempt ref with a reflog entry only the owner can sign), `AfterRef`, `Prove`, `Finalize`
(the attribution row), `Return`; `GitFails`, `Contain` (the catch block) and `Crash`. Containment begins the cleanup of the lease; the
store may throw, and refuses a grant older than the lease (the version preimage), and then the call answers `uncontained`, the
infrastructure error "cleanup containment failed", under a live lease. Between any two steps others write into
the worktree, move a ref (also to the very candidate), renew the lease, let it expire, begin its cleanup or recover it (`Disturb`). A tree
stands for the one candidate commit it determines, because parent, author, dates and message are fixed; encoding, paths and modes are
reduced to *legible*, *in scope* and *reviewed*. Nothing in the orchestrator constructs the service yet (`attempt-runner.ts`
3124); the attribution that the runner's provider records (`store.ts` 3601) is part of `AttemptRunner`.

### `Delivery`, `DeliveryPromise`

`executeDeliveryFlow` and the services it is made of. Each store command is an action, and each `git` or `gh` command is
one whose effect and whose answer are chosen apart; a killed push may still arrive (`LatePush`), and somebody else may move the
branch (`ForeignMove`). A caller is the build, another user of the flow, or a client of the services that pins the evidence
a decision needs. `DeliveryPromise` is the four-step promise without callers, remotes or answers; `Delivery` implements it
with `published` mapped to what the branch has ever carried.

### `Build`

`rickgent build`: plan, policy and state gates, the fresh or the resumed run, `planTicketRecovery` over a snapshot that may
be stale, the queue and its stop (a dispatch that throws before its runner is called does not stop it, `DispatchThrows`), accounting, the delivery condition, aggregation of issues by precedence and the verdict.
Several builds at once, each of which may die. What the runner leaves in the rows is chosen freely among what
`AttemptRunner` can leave (`RunnerWrites`).

### `WorkerPolicy`, `FixtureBuild`

`WorkerPolicy` has the policy functions of `rickgent-policies` as operators over a bundle, the caller's claim and an event.
`FixtureBuild` is the fixture profile of the build: run workspace, queue, `Dispatcher` with deadline, SIGTERM, grace period, SIGKILL
and the poll for the death of the group, capture of the tree, breaker, retention or removal. A worker has a leader, a
group, and descendants that left the group. A member of the group may belong to another user: signals do not reach it, the probe answers
EPERM, which counts as alive, and the poll goes on for ever. Tool calls pass through `WorkerPolicy`, with every tool, phase and
lifecycle stage a policy asks about, those on which all policies abstain and the host allows included; raw writes do not. Checks that the code makes in
order, the first that applies deciding, are IF chains: the arms of a CASE must exclude each other.

### `ScopedGit`, `MetricLoop`, `AnatomyPark`, `Cronenberg`

A chain of EXTENDS, because the commands share one repository. `ScopedGit` is a repository as three sets of edits with the
very git commands the loops use. `MetricLoop` is `MicroverseLoop` for microverse and szechuan, `AnatomyPark` the
REVIEW/FIX/VERIFY rotation, `Cronenberg` the plan of a chain and its execution, with users' own commands, crashes and resumes
between. `held`, `rejected`, `seen` and `truth` are history variables: what sat in the index, what was given up, what the
judge saw, and what a verdict is about (with `torn`, the series, and `lapsed`, the subsystems, whose last step an interruption kept
from the state file). Refine, build, pipeline and citadel are children that exit 0 or 1.

Agents have a shell: they write any path (`AgentWrites`), stage and unstage any uncommitted work and commit the index (`AgentUsesGit`), and so do
processes that outlive them (`StrayWrites`, `StrayUsesGit`), at any moment; the prompts only ask them not to (`microverse-cli.ts` 152,
`anatomy.ts` 260). What an agent stages is `held`. Undoing an edit is a further edit, and no agent rewrites or rewinds HEAD.

### `StoreOpen`

`openStateStore` and `observeState` by any number of processes, statement by statement: existence, sidecars, candidate,
publication by `link`, the separate reads of version, ledger and schema, one transaction per migration, registration, and the inventory
of legacy artefacts. A database is its inode, `user_version`, ledger length, drift and repository row.

### The proof modules and the MC modules

`AttemptOwnershipProofs` (also of `CleanupService`), `RunLifecycleProofs` (also of `CommitService`), `AttemptRunnerProofs`, `DeliveryProofs`,
`BuildProofs`, `FixtureBuildProofs`, `CronenbergProofs` and `StoreOpenProofs` hold the theorems of section 4. The MC modules give slot sets, budgets, trees, origins and
symmetry sets.

## 3. Runs

| Run | Checks | Result |
|---|---|---|
| `ownership` | `TypeOK`, `SingleOpenGeneration`, `ClaimsFollowOwner`, `DeadBeforeHandover`, `NoUnprovenLiveLease`, `RowVersionsAdvance`, `ImplementsFencedOwnership` | holds, 1.4 million states |
| `cleanup` | `WorkPreserved`, `ReleasedMeansGone`, `CleanupCompletes` | holds, 0.6 million states |
| `lifecycle` | `LifecycleTypeOK`, `OpenLeaseIsCurrent`, `PromotionOwnsRef` | holds, 0.4 million states |
| `attempt_runner` | `RunnerTypeOK`, `TargetStartedOnce`, `DispositionRestsOnProcessProof`, `PromotedTreeIsProven`, `OneDisposition`, `RemediationsAnswerRejections`, `DecisionsFinal`, `FailureCleanupCompletes` | holds, 1.5 million states |
| `delivery` | `DeliveryTypeOK`, `RecordsAreTrue`, `ImplementsPromise`, `DeliveryRowsFrozen` | holds, 1.2 million states |
| `build` | `VerdictIsFounded`, `SequentialIsolation`, `OneOpenAttempt` | holds, 1.0 million states |
| `fixture_build` | `KilledWorkSurvives`, `CaptureIsOwn`, `AuthorityIsBounded`, `DispatchEnds` | holds, 0.9 million states |
| `cronenberg` | `VerdictIsEarned`, `CommitsAreJudged`, `RejectedStaysOut` | holds, 7.8 million states |
| `store_open` | `OneAuthority` | holds, 1.7 million states |
| `commit_service` | `AttributionIsProven`, `FailureIsContained`, `IntentIsFinal`, `CommitSettles` | holds, 2.4 million states |
| `resume_verdict` | `ResumeManufacturesNothing` | violated: finding 1 |
| `delivery_flow` | `VerifiedFlowIsRecorded` | violated: finding 2 |

Some properties state an exception, and the exception is what the code really does: `KilledWorkSurvives` and `CaptureIsOwn` speak
of killed or failed workers, because a descendant that left the group of a worker that exited cleanly is not waited for; `DispatchEnds`
excepts a descendant that holds the pipes and a group member no signal reaches; `SequentialIsolation` excepts an attempt whose dispatch threw
before its runner was called; `FailureIsContained` and `IntentIsFinal` except the answer that says containment failed; `CommitsAreJudged` is about the
commands' own commits, and excepts from the scope what somebody else put into the index, because both commit paths take the whole index;
`RejectedStaysOut` excepts what sat in the index, which the rollback of the loops restores from;
`VerdictIsFounded` is about fresh builds, a resumed one being finding 1.

**Bounds.** *Ownership*: `MaxGen = 2` has one handover, the only one the code can perform; `MaxTime = 2` with `Ttl = 1` lets a
lease be fresh, expire, and the clock step back to before it was granted. One process slot and one workspace slot are the two
classes the transactions treat differently; `MaxHeartbeats = 1` separates a renewed lease from a new one. *Cleanup*: two
executors (two generations, or a race within one), one crash, a clock of two values, which is what expiry between permission and
effect needs. *Lifecycle*: one ticket with two attempts, which compete for the delivery ref because a failed
attempt leaves its intent behind; the theorems cover any number of tickets and attempts. *Attempt runner*: two crashes, so that a
resume is itself resumed; three review cycles with one remediation, so that both budgets can be the one that ends the loop; two verifications, so that their statuses can differ; three
writes, so that a remediated tree can be overwritten after its review. *Delivery*: two callers and three calls (a race, and a
retry after it), one foreign move, two pull requests. *Build*: two builders, three builds, two tickets with budgets 2 and 3, one
crash: a fresh build, and two resumes that race. *Fixture build*: two tickets (a worker and the one
spawned after it, one of which is already in the baseline), one raw write, and a breaker of 2, which opens after both: that it defers a third
ticket is outside the bound, and no property is about it. *Cronenberg*: two subsystems, one edit, one crash, two chains
or commands, so that a resume follows a crash or another command works on what it left; three iterations of a loop with limits of 2
reach every verdict, and two of anatomy in each of two commands make both subsystems clean; scores 0 and 1 can improve, regress and
stay, and with `Epsilon` above the improvement a plateau is reached too. *Store*: three processes, four
calls, one crash, every released version from 1 to one newer than this code, and three kinds of damage. *Commit service*: two callers
that may call again and again (a race, and a retry by another process), one crash, two disturbances (one before and one after the
ref moves), three trees: reviewed, in scope but not reviewed, and out of scope.

Deadlock is checked in `attempt_runner`, where an attempt with its disposition may always be looked at again. Elsewhere it is
not: an attempt that is released or quarantined stops, builds and deliveries end, and the numbers of calls, builds and chains are
bounded. Symmetry is used for builders, callers and processes, which are interchangeable in every property of their runs; none of
these runs checks liveness.

**Fairness.** Most specifications have none. `CleanupSpec` is weakly fair to each executor's steps, which run to completion
synchronously in `execute` and are retried by its callers; the clock, the worker, recovery and Git are not assumed to do anything.
`CleanupCompletes` therefore promises only what the code does: ready to be cleaned leads to released, or to expiry, or to a
delivery ref that moved. `AttemptRunner` is weakly fair to the runner's next step (every wait in it has a deadline) and to a resume
of an unfinished attempt. `FixtureBuild` is weakly fair to the build's own steps and to the callbacks and timers of the dispatcher,
which the event loop runs; nothing is assumed of workers. `CommitSpec` is weakly fair to the next step of the callers together, a new call
after a death or a failure included: `run` is synchronous, and its contract is that of an exact retry. Nothing is assumed of one caller
in particular, and Git may fail each time, which contains the attempt.

**Findings.**

1. A build that died between the allocation of its run and of its first attempt reports success when it is resumed:
   `planTicketRecovery` plans a ticket without an attempt as `complete` (`recovery.ts` 192-203) and `build.ts` 932 counts it as
   done. The header of `build.ts` (12-13) says that nothing can manufacture completion.
2. A delivery that was pushed, requested and verified cannot be concluded: `executeDeliveryFlow` passes no transition evidence
   (`pr-flow.ts` 138 and 192) and the transition demands it (`store.ts` 7208-7211), although the header of `pr-flow.ts` (17-20) says
   that the decision is persisted.

**Divergences noted while modelling**, which no run is spent on:

* A recovery generation can never be recovered: stale recovery demands a death chain launched by the expired generation
  (`store.ts` 9924), a launch demands a live lease that is not a recovery (8264). The contract (286) says that it can.
* The container path persists an authoritative death of every descendant when `awaitEmpty` or `mintDeathReceipt` failed
  (`attempt-runner.ts` 2770-2777), which `containment.ts` 1539 forbids. `DeadBeforeHandover` is about the supervisor for that reason.
* A conflicted promotion intent keeps the sequence number the next intent must have (`migrations.ts` 594, `store.ts` 5287); the
  contract (535) says that it does not block.
* A promotion can never be finalized: the cleanup record must have observed the candidate (`store.ts` 5418), and the release that
  writes it demands the commit the run still records (9763). Proved: `FinalizationIsUnreachable`. The tests write the record with SQL.
* A crash between an attempt's step to cleanup and its ticket's leaves the ticket active for good (`attempt-runner.ts` 2687-2701).
* The promotion receipt's observed commit is a copy of the candidate (`attempt-runner.ts` 2246), not the observation that the
  comment at 2225 speaks of.
* When containment is unavailable the attempt never gets its failure record: the proof set names an evidence row
  (`store.ts` 3732) that the gate stores under another name (3777), and `runAttempt` throws on every resume.
* A resume can be stuck: after a crash between acquisition and provisioning it skips the provisioning (`attempt-runner.ts` 919);
  after one in verification the engine refuses the failure path; after one in the promotion's cleanup it asks for the failure's. A
  retry never runs, because its ticket stays in `cleanup_pending` (`store.ts` 1832).
* Evidence without a bound identity makes the oracle throw, where `completion-service.ts` speaks of a `rejected` result; the build
  always supplies what the binding needs.
* The build passes a provider digest that is not one (`build.ts`, the call of the delivery flow), so its own intent is always
  refused; and a resumed delivery observes the remote anew and conflicts with its own intent.
* `scope_fence` denies every shell event, so `autonomous_pr_flow` never authorises a push; an altered bundle keeps its lease.
* An intact database of schema version 4 or 5 is refused as corrupt: `validateReleasedSchema` (`store.ts` 1143-1177) has no branch
  for version 5 and asks version 4 for the latest tables. Migrations commit one by one (`store.ts` 1214-1221), so a crash in the
  middle of an upgrade leaves such a database and every later open refuses it. The contract
  (`docs/architecture/reliability/state-and-lifecycle-contract.md` 124-127) reserves the answer for damage. `SchemaOk` models it.
* Validation reads version, ledger and schema in separate statements (`store.ts` 1180), so an opener that races a migration may
  answer corrupt; so may one that looks for sidecars after another created the database.
* An agent that commits its own work defeats the metric loop's decision: there is nothing left to stage, so an improvement counts as uncommitted,
  nothing is dirty, so the rollback removes nothing, and rejected work stays in HEAD (`microverse.ts` 645-700). An agent that only stages
  keeps rejected work in index and tree, and a later commit takes it; anatomy resets the index first.
* A begin of cleanup that throws leaves the lease live after a failed attribution (`commit-service.ts` 576-592).
* `advanceRotation` of anatomy park stays where it is while the current subsystem is reviewable; a mix of clean and stalled
  subsystems never converges; a resumed microverse with another `--direction` judges old scores by the new one.

## 4. Proofs

`AttemptOwnershipProofs` proves, for every set of slots, every bound and every time to live:

| Theorem | Statement |
|---|---|
| `TypeCorrect` | `Spec => []TypeOK` |
| `TablesConsistent` | `Spec => [](SingleOpenGeneration /\ ClaimsFollowOwner)` |
| `HandoverIsSafe` | `Spec => []DeadBeforeHandover` |
| `SupervisionCloses` | `Spec => []NoUnprovenLiveLease` |
| `VersionsOnlyGrow` | `Spec => RowVersionsAdvance` |
| `OneOpenGeneration` | `Spec => []SingleOpenGeneration` |
| `OwnershipIsFenced` | `Spec => ImplementsFencedOwnership` |

The assumptions are `SlotsAssumption` (process and workspace slots are disjoint sets of slots) and
`BoundsAssumption` (the bounds are naturals, at least one generation, a positive time to live).

*The tables.* `SingleOpenGeneration` and `ClaimsFollowOwner` are not inductive alone: recovery could otherwise
overwrite an existing row `g + 1`, and finalization needs every claim to belong to the one open lease. The
inductive invariant `Tables` is their conjunction, over `TypeOK`. The order of the generations is what makes
it go through: an open generation says that everything newer is absent.

*The process chain.* `DeadBeforeHandover` is about the world, and the code only sees receipts. `Chain` says, for
each place the supervisor may stand, what the launch, the observation in memory, the stored terminal and the
worker have to do with each other: an observation in memory of authoritative basis means a dead worker, a
stored terminal is the observation that was made, and a handover needs a stored terminal. Both theorems about
supervision follow from it.

*Versions.* An action property that follows from the shape of each row update and from typing, action by action.

`RunLifecycleProofs` proves, for every set of tickets and every retry budget (`BudgetAssumption`: at least one
attempt for each ticket):

| Theorem | Statement |
|---|---|
| `LifecycleTypeCorrect` | `Spec => []LifecycleTypeOK` |
| `LeasesAreCurrent` | `Spec => []OpenLeaseIsCurrent` |
| `PromotionsOwnRef` | `Spec => []PromotionOwnsRef` |
| `FinalizationIsUnreachable` | `FullSpec => Spec /\ []NothingPromoted` |

*Leases.* `OpenLeaseIsCurrent` is inductive over the types because of its second half, that every older attempt is
failed_clean: it is what makes the planned attempt of `Acquire` the newest one. The proof has one step for each way
of changing an attempt or a lease, and the actions are instances of those.

*Promotions.* `PromotionInv`: an intent is for accepted work, has the sequence number and the base of a run that has not moved
(`IntentsGrounded`, `RunUnmoved`), there is one at most over all tickets (`SoleIntent`, because the number is taken), and the ref carries a
candidate only under its intent (`RefClaimed`).

*Finalization.* `NothingPromoted` says that the run, and the record of every ended lease, show the initial commit. It
is preserved by every step, and it contradicts the guard of `FinalizePromotion`; so every step of `FullNext` is a step of
`Next`, and the theorem is a refinement of `Spec` by `FullSpec`.

`AttemptOwnershipProofs` goes on with the physical side of `CleanupService`, for any number of executors, generations and crashes
(`CrashAssumption`: the bound is a natural):

| Theorem | Statement |
|---|---|
| `CleanupTypes` | `CleanupSpec => []CleanupTypeOK` |
| `WorkIsPreserved` | `CleanupSpec => []WorkPreserved` |
| `ReleaseIsComplete` | `CleanupSpec => []ReleasedMeansGone` |
| `CleanupKeepsOwnership` | `CleanupSpec => Spec` |

An executor is told by `assertAttemptCleanupReady` that the worker is dead and the work salvaged, and acts later, when another
generation may hold the lease. `CleanupInv` therefore does not speak of the lease an executor holds: it says that what it was told can
never become false (`ExecutorsInformed`, by the lemma `ProofsGrow` over every step of the tables). Every step of the tables is a
step of `AttemptOwnership`, which is the theorem `CleanupKeepsOwnership` and carries `Tables` and `Chain` over.

`AttemptRunnerProofs`, for any set of trees, any budgets and any number of verifications, crashes and writes (`RunnerAssumption`):

| Theorem | Statement |
|---|---|
| `RunnerTypes` | `Spec => []RunnerTypeOK` |
| `StartedOnce` | `Spec => []TargetStartedOnce` |
| `ProcessProven` | `Spec => []DispositionRestsOnProcessProof` |
| `DisposedOnce` | `Spec => []OneDisposition` |
| `PromotionProven` | `Spec => []PromotedTreeIsProven` |
| `RejectionsAnswered` | `Spec => []RemediationsAnswerRejections` |
| `FinalDecisions` | `Spec => DecisionsFinal` |

One fact carries all of them: only the invocation that moved the start gate from held to released holds a boundary, so the forward
path is walked once and over empty tables, and whoever resumes can only clean up. `RunnerInv` is the typing with what the gate says of
the tables (`GateInv`), of the starts (`StartInv`), what the forward path finds in the tables at each step (`ForwardInv`), what a
sealed proof set and a disposition rest on (`SealInv`, `TerminalInv`), the cycles of review and remediation (`CycleInv`, `ReviewInv`)
and that what the oracle accepted stays what it accepted (`AcceptedInv`).

`RunLifecycleProofs`, about `CommitService`, for any number of callers, trees, crashes and disturbances (`CommitAssumption`: baseline, foreign commit and
trees are different, the reviewed tree is one of them):

| Theorem | Statement |
|---|---|
| `CommitTypes` | `CommitSpec => []CommitTypeOK` |
| `AttributionProven` | `CommitSpec => []AttributionIsProven` |
| `FailuresContained` | `CommitSpec => []FailureIsContained` |
| `IntentsFinal` | `CommitSpec => IntentIsFinal` |

What a call asserts at its end it learnt at earlier steps, between which everything may have changed that is not durable. `CommitInv`
lists the durable facts and who rests on them: the rows (`RowsFounded`, in which a reflog entry of the service names a commit the
service moved the ref to), the memory of each call by its step (`CallFounded`), the outcomes (`OutcomeFounded`). `Lasting` says that
no step takes one of these facts back, so only the caller that moves needs a look.

`DeliveryProofs`, for any number of callers, calls, foreign moves and pull requests (`DeliveryAssumption`):

| Theorem | Statement |
|---|---|
| `DeliveryTypes` | `Spec => []DeliveryTypeOK` |
| `RecordsTrue` | `Spec => []RecordsAreTrue` |
| `RowsFrozen` | `Spec => DeliveryRowsFrozen` |
| `DeliveryKeepsPromise` | `Spec => ImplementsPromise` |

`RecordsAreTrue` speaks of rows; a caller writes what it saw in an earlier step. `DeliveryInv` adds what a call has seen and not yet
written (`CallTrue`), in terms of what the branch has *ever* carried, which no later push takes back. The refinement goes step by step:
a push that reaches the branch is the abstract publication, a row is its observation, request or conclusion, everything else stutters.

`BuildProofs`, for any number of builds, tickets and attempts (`BuildAssumption`):

| Theorem | Statement |
|---|---|
| `OneAttemptOpen` | `Spec => []OneOpenAttempt` |
| `VerdictFounded` | `Spec => []VerdictIsFounded` |
| `DrainIsIsolated` | `Spec => []SequentialIsolation` |
| `BuildTypes` | `Spec => []BuildTypeOK` |

*Attempts.* `AttemptsInv` is the property with the type of the rows alone: nothing is assumed of what a build remembers, so a
stale number, or a ticket of another build's snapshot, changes nothing that is not failed clean.

*Verdict and drain.* A build decides from its queue, numbers and totals, read from rows that other builds go on writing. `Founded(m, a)`
says what the memory `m` of a build at each step has to do with the attempts `a`: where its two loops stand (`Positioned`), what it
planned and queued (`PlanMade`, `QueueMade`), what the totals count (`Counted`: at least the tickets planned complete or found whole),
which entries are promoted and recorded (`Drained`), and what the verdict rests on (`Judged`). It is stable when the rows change,
because rows only `Grow`: attempts are appended, and a terminal record is never taken back (`FoundedLasts`). So each action needs a
proof only for the build that takes it. `BuildInv` is `AttemptsInv` with `Founded` of every build.

`FixtureBuildProofs`, for any plan, baseline, breaker threshold and number of writes (`FixtureAssumption`):

| Theorem | Statement |
|---|---|
| `KilledWorkKept` | `Spec => []KilledWorkSurvives` |
| `CapturesAreOwn` | `Spec => []CaptureIsOwn` |
| `AuthorityBounded` | `Spec => AuthorityIsBounded` |

Two facts carry the first two. Whoever wrote into the tree, or has a descendant that may still write, is the worker being waited for, or
closed cleanly, or its ownership is unreleased (`WritersAnswered`); and from a dispatch to its end ownership is released
(`UnreleasedHolds`), so nobody works in the tree of a worker that was killed. For `AuthorityBounded` an active lease belongs to the
dispatch under way or to a ticket whose entry says that ownership was kept (`LeaseIsAnswered`); the rest are lemmas about the operators
of `WorkerPolicy`: what an authenticated claim proves (`AuthenticatedClaim`), what `scope_fence` lets through, for changes (`FencedChange`) and for paths of any tool
(`FencedPath`), what an event looks like (`EventShape`), and that an allowed call is one of these (`AllowedCall`).

`CronenbergProofs`, for any layout of the repository, any limits, scores, chains and number of crashes (`EditAssumption`,
`ChainAssumption`; `LoopAssumption`: the limits are positive and epsilon is not negative, as `NUMERIC_OPTION_RULES` demands;
`OrderAssumption`: the order lists the subsystems, each once, and there is one; `PassAssumption`):

| Theorem | Statement |
|---|---|
| `VerdictEarned` | `Spec => []VerdictIsEarned` |
| `CommitsJudged` | `Spec => CommitsAreJudged` |
| `RejectedOut` | `Spec => RejectedStaysOut` |
| `CronenbergTypes` | `Spec => []CronenbergTypeOK` |

`CronInv` is the control (which command is where, the breaker, the subsystem under review) with three arguments. *The trees*
(`TreesInv`): HEAD is inside the index, the index inside the working tree; while a judgement waits to be used, whatever it has not seen is a
stray's or the catalogue's; what is staged is held (the user, an agent or a failed commit put it there), or is the subsystem under repair between
VERIFY and its commit; and what was given up is out of the tree unless held. Lemmas about `Stage`, `Commit` and `RestoreScoped` reduce the steps
to four kinds: giving up, landing, writing, and an agent's use of git. *The series* (`SeriesEarned`): memory while a loop runs, and the state file between runs, end with the last committed
score, unless torn. *The reviews* (`ReviewsEarned`): neither memory nor file counts more clean reviews of a subsystem than were made in
a row; while a repair is under way the file may, for the one subsystem, and an interruption there is what makes it `lapsed`. That
the rotation picks a subsystem with reviews left (`PicksReviewable`) needs the least element of a set of indices, which is the
well-foundedness of the naturals.

`StoreOpenProofs`, for any number of openers, observers, calls, deaths and artifacts, any latest version above 4 and any origin
(`StoreOpenAssumption`; `OriginAssumption`: what the run finds at the path is nothing or a file that none of its processes made):

| Theorem | Statement |
|---|---|
| `StoreTypes` | `Spec => []StoreTypeOK` |
| `AuthorityIsOne` | `Spec => []OneAuthority` |

An opener validates with several statements between which others migrate. `StoreInv` says what it has established at each step
(`ProcFounded`) in facts that are stable under `Grows`, the only ways the database changes: it comes into being intact, or an intact one
gains versions or its repository row. The case that needs care is the check of the ledger: what it compared is true of the moment, and
stays true or the database is intact (`db.rows = m.seen \/ Intact(db)`), because one that is not intact is never written (`DbFounded`).

Three of the results are refinements: `OwnershipIsFenced` (the tables implement `FencedOwnership`: each of its five actions is the image
of one kind of lease step, and claims are in use only under a live lease), `DeliveryKeepsPromise` and `CleanupKeepsOwnership`.

**Checked by TLC only.** Liveness (`CleanupCompletes`, `FailureCleanupCompletes`, `DispatchEnds`, `CommitSettles`): the proof system
has no support for fairness and `ENABLED`. Every other property of a passing run is proved. The first creation of a store is proved for
every latest version, but that the SQL of the six migrations makes the schema of the checksums is outside the model.

## 5. Plan

Done: ownership and cleanup, lifecycle and promotion, attempt runner with gate, identity, review, attribution and oracle,
commit service, delivery with its abstract specification, build and resume, fixture build with dispatcher and policies, the metric loops, store
opening; every safety and action property of the passing runs proved. Left: the escalation of the orphan reaper, and
`ProcessSupervisor`'s signal handling, as detail below `AttemptOwnership`.

Not modelled and not planned: text processing (PRD parsing, prompts, refinement, reports, the citadel's analysers, szechuan's contract
discovery), installation, diagnostics and metrics, sandbox and container set-up, output streaming, the offline release proof and
protected release, the content of archives and digests, `--metric` (it needs a capability that is not enabled), and methods without a
caller (`AttemptRunner.quarantineAttempt`, `TicketLock`, `captureDurableSalvageArchive`).
