------------------------ MODULE AttemptRunnerProofs ------------------------
(***************************************************************************)
(* Proofs about one attempt, for any set of trees, any budgets and any     *)
(* number of verifications, crashes and writes: the rows stay well typed,  *)
(* target code starts at most once, a disposition rests on the end of the  *)
(* very process that was released, an attempt has one disposition, what is *)
(* promoted is proven, remediations answer rejections, and decisions are   *)
(* final.                                                                  *)
(*                                                                         *)
(* One fact carries all of it: only the invocation that moved the start    *)
(* gate from held to released holds a boundary, so the forward path is     *)
(* walked once, over empty tables; whoever resumes can only clean up.      *)
(***************************************************************************)
EXTENDS AttemptRunner, SequenceTheorems, TLAPS

\* Where runAttempt is once the target was released.
PastRelease ==
  {"implement", "dispatch", "running", "persist", "identity", "branch", "capture",
   "begin-review", "review", "remediate", "remed-begin", "remed-record", "remed-captured",
   "remed-review", "loop-review", "queue", "verify", "gates", "converge", "finalize"}

NothingDecided ==
  /\ attribution = NoCandidate /\ sealed = FALSE /\ eligibility = NoCandidate
  /\ oracle = "none" /\ terminal = {}

NothingRecorded == reviews = <<>> /\ fixes = {} /\ gates = <<>> /\ NothingDecided

\* The start gate: what it says of the tables and of the invocation.
GateInv ==
  /\ r.pc \in {"boundary", "release"} => gate = "held"
  /\ gate # "released" => starts = 0 /\ chain = "none" /\ NothingRecorded
  /\ r.pc \in PastRelease => gate = "released"
  /\ r.pc # "idle" /\ r.from \in PastContainment => gate = "released"

\* The invocation that released the target has not started it before; nobody
\* holds a boundary ahead of the gate.
StartInv ==
  /\ r.pc \in {"idle", "acquire", "provision", "context", "gate", "boundary"}
     => r.boundary = FALSE
  /\ starts <= 1
  /\ r.boundary /\ r.pc \in {"implement", "dispatch"} => starts = 0
  /\ r.pc \in {"running", "persist"} => r.from \notin PastDispatch
  /\ r.outcome = "exited" => r.from \notin PastDispatch

\* What the forward path finds in the tables, step by step.
ForwardInv ==
  /\ \/ r.pc \in {"running", "persist", "capture", "begin-review", "review"}
     \/ r.boundary /\ r.pc \in {"implement", "dispatch"}
     \/ /\ r.pc \in {"identity", "branch"} /\ r.from \notin PastDispatch
        /\ r.outcome \in {"exited", "timed_out"}
     => NothingRecorded
  /\ r.pc \in {"remediate", "remed-begin", "remed-record", "remed-captured", "remed-review",
               "loop-review", "queue", "verify"} => gates = <<>> /\ NothingDecided
  /\ r.pc = "gates" => Len(gates) < Verifications /\ NothingDecided
  /\ r.pc \in {"converge", "finalize"} => NothingDecided
  /\ r.cause = "promotion" /\ r.pc \in {"begin-cleanup", "ticket", "lease", "seal"}
     => oracle = "none"
  /\ r.pc = "kill" => r.cause # "promotion"
  /\ r.pc \in {"eligibility", "oracle", "evaluate"} => oracle = "none"

\* A sealed proof set rests on the released gate and the chain.
SealInv ==
  /\ sealed => gate = "released" /\ chain # "none"
  /\ r.pc \in {"eligibility", "oracle", "evaluate", "intent", "receipt", "failure"} => sealed

\* Only an invocation that returned left a disposition behind.
TerminalInv ==
  /\ r.pc # "idle" => terminal = {}
  /\ "promotion" \in terminal => oracle = "accepted"
  /\ OneDisposition /\ DispositionRestsOnProcessProof

\* Remediation records are of earlier cycles than the one at work.
CycleInv ==
  /\ r.pc \in {"remediate", "remed-begin", "remed-record"} => \A f \in fixes : f.cycle < r.cycle
  /\ r.pc \in {"remed-captured", "remed-review", "loop-review"}
     => \A f \in fixes : f.cycle <= r.cycle
  /\ RemediationsAnswerRejections

\* An accepted review was a distinct reviewer's, of a clean tree.
ReviewInv ==
  \A i \in DOMAIN reviews :
     reviews[i].verdict = "accepted" => reviewer = "permitted" /\ reviews[i].tree \in Clean

\* What the oracle accepted stays what it accepted.
AcceptedTree ==
  /\ LastVerdict = "accepted" /\ reviewer = "permitted"
  /\ reviews[Len(reviews)].tree = attribution.tree
  /\ Len(gates) = Verifications
  /\ \A i \in DOMAIN gates : gates[i] = [status |-> "passed", tree |-> attribution.tree]
  /\ eligibility = attribution /\ attribution.tree \in Complete \cap Clean \cap InScope
  /\ identity = "bound"
AcceptedInv == oracle = "accepted" => AcceptedTree

CoreInv ==
  RunnerTypeOK /\ GateInv /\ StartInv /\ ForwardInv /\ SealInv /\ TerminalInv

RunnerInv == CoreInv /\ CycleInv /\ ReviewInv /\ AcceptedInv

-----------------------------------------------------------------------------
(* What a step does to the invocation's memory.                            *)

\* The invocation goes on at p, in the same entry and with the same boundary.
Moves(p) ==
  /\ r' \in Memory /\ r'.pc = p
  /\ r'.from = r.from /\ r'.boundary = r.boundary /\ r'.outcome = r.outcome

\* The invocation is over and remembers nothing.
Ends ==
  /\ r' \in Memory /\ r'.pc = "idle" /\ r'.from = "none" /\ r'.boundary = FALSE
  /\ r'.outcome = "none" /\ r'.cause = "none"
\* The declared attempt states, spelled out.
LEMMA PhasesAre ==
  Phases = {"planned", "implementing", "implementation_captured", "reviewing", "remediating",
            "remediation_captured", "verification_queued", "verifying", "converging",
            "cleanup_pending"}
<1>1. 1 .. 9 = {1, 2, 3, 4, 5, 6, 7, 8, 9}
  OBVIOUS
<1> QED
  BY <1>1 DEF Phases, ForwardPhases

\* Going on to the next step leaves the rest of the memory alone.
LEMMA GotoFacts ==
  ASSUME r \in Memory, NEW p \in Pcs, Goto(p)
  PROVE  Moves(p) /\ r'.cycle = r.cycle /\ r'.cause = r.cause
  BY DEF Goto, Memory, Moves

\* A failure goes to cleanup and remembers its cause.
LEMMA FailFacts ==
  ASSUME r \in Memory, NEW c \in Causes, Fail(c)
  PROVE  Moves("begin-cleanup") /\ r'.cause = c
  BY DEF Fail, Memory, Pcs, Moves

\* An invocation that ended remembers nothing.
LEMMA IdleFacts ==
  ASSUME NEW result \in Results, r' = Idle(result)
  PROVE  Ends
  BY DEF Ends, Idle, Memory, Pcs, Candidates, NoTree, NoCandidate, Causes

\* A throw ends the invocation.
LEMMA ThrowFacts ==
  ASSUME Throw
  PROVE  Ends
  BY IdleFacts DEF Throw, Results

\* Recovery answers with a step to enter at, or that nothing is left.
LEMMA NextStepType == NextStep \in ResumeSteps \cup {"complete"}
  BY DEF NextStep, ResumeSteps, PastPrepare, PastContainment, PastDispatch

\* The steps that remember something new, one by one.
LEMMA EnterFacts ==
  ASSUME Enter
  PROVE  /\ r' \in Memory /\ r'.pc = "acquire" /\ r'.from = NextStep /\ r'.boundary = FALSE
         /\ r'.outcome = "none" /\ r'.cause = "none"
<1>1. NextStep \in ResumeSteps
  BY NextStepType DEF Enter
<1> QED
  BY <1>1 DEF Enter, Idle, Memory, Pcs, Candidates, NoTree, NoCandidate, Causes, Results

\* What supervision reports is remembered as the outcome.
LEMMA SuperviseFacts ==
  ASSUME r \in Memory, NEW p \in Pcs,
         NEW o \in {"none", "exited", "timed_out", "spawn_error", "infrastructure_error"},
         r' = [r EXCEPT !.pc = p, !.outcome = o]
  PROVE  /\ r' \in Memory /\ r'.pc = p /\ r'.outcome = o
         /\ r'.from = r.from /\ r'.boundary = r.boundary /\ r'.cause = r.cause
  BY DEF Memory

\* The launch, and the refusal of it.
LEMMA LaunchFacts ==
  ASSUME r \in Memory, StartTarget \/ SpawnError
  PROVE  \/ StartTarget /\ Moves("running") /\ r'.cause = r.cause
         \/ /\ SpawnError /\ r' \in Memory /\ r'.pc = "identity"
            /\ r'.outcome = "spawn_error" /\ r'.from = r.from
            /\ r'.boundary = r.boundary /\ r'.cause = r.cause
<1>1. CASE StartTarget BY <1>1, GotoFacts DEF StartTarget, Pcs
<1>2. CASE SpawnError BY <1>2, SuperviseFacts DEF SpawnError, Pcs
<1> QED BY <1>1, <1>2

\* The end of a launch, as supervision reports it.
LEMMA EndedFacts ==
  ASSUME r \in Memory, TargetEnds
  PROVE  /\ r' \in Memory /\ r'.pc = "persist" /\ r'.from = r.from
         /\ r'.outcome \in {"exited", "timed_out", "infrastructure_error"}
         /\ r'.boundary = r.boundary /\ r'.cause = r.cause
<1>1. PICK o \in {"exited", "timed_out", "infrastructure_error"} :
           r' = [r EXCEPT !.pc = "persist", !.outcome = o]
  BY DEF TargetEnds
<1> QED BY <1>1, SuperviseFacts DEF Pcs

\* A gate that was never opened leaves an infrastructure failure.
LEMMA ClosedFacts ==
  ASSUME r \in Memory, CloseNeverReleased
  PROVE  /\ r' \in Memory /\ r'.pc = "begin-cleanup" /\ r'.outcome = "infrastructure_error"
         /\ r'.from = r.from /\ r'.boundary = FALSE /\ r'.cause = "infrastructure"
  BY DEF Memory, CloseNeverReleased, Pcs, Causes

\* The boundary is held from its creation on.
LEMMA BoundaryFacts ==
  ASSUME r \in Memory, CreateBoundary
  PROVE  /\ r' \in Memory /\ r'.pc = "release" /\ r'.outcome = r.outcome
         /\ r'.from = r.from /\ r'.boundary = TRUE /\ r'.cause = r.cause
  BY DEF Memory, CreateBoundary, Pcs

\* The receipts of the identity are in hand.
LEMMA IdentifiedFacts ==
  ASSUME r \in Memory, r' = [r EXCEPT !.pc = "branch", !.identity = TRUE]
  PROVE  Moves("branch") /\ r'.cause = r.cause
  BY DEF Memory, Pcs, Moves

\* The candidate is the head of the worktree.
LEMMA CapturedFacts ==
  ASSUME RunnerTypeOK, CaptureImplementation
  PROVE  Moves("begin-review") /\ r'.cause = r.cause
<1>1. ObservedCandidate \in Candidates
  BY DEF ObservedCandidate, Candidates, RunnerTypeOK
<1> QED
  BY <1>1 DEF RunnerTypeOK, CaptureImplementation, Memory, Pcs, Moves

\* The remediator's tree is at hand, in the same cycle.
LEMMA RemediatedFacts ==
  ASSUME r \in Memory, Remediate
  PROVE  Moves("remed-begin") /\ r'.fix = tree' /\ r'.cycle = r.cycle /\ r'.cause = r.cause
<1>1. tree' \in Trees
  BY DEF Remediate
<1>2. (IF r.cycle = 1 THEN 0 ELSE r.used + 1) \in Nat
  BY DEF Memory
<1> QED
  BY <1>1, <1>2 DEF Remediate, Memory, Pcs, Moves

\* A remediation record was written.
LEMMA ReviewAgainFacts ==
  ASSUME r \in Memory, r' = [r EXCEPT !.pc = "loop-review", !.persisted = TRUE]
  PROVE  Moves("loop-review") /\ r'.cause = r.cause /\ r'.cycle = r.cycle
  BY DEF Memory, Pcs, Moves

\* An accepted re-review may replace the candidate.
LEMMA AcceptedReviewFacts ==
  ASSUME r \in Memory, r.fix \in Trees, NEW cycle \in Nat,
         r' = [r EXCEPT !.pc = "queue", !.cycle = cycle,
                  !.cand = IF r.persisted THEN [tree |-> r.fix, kind |-> "tree"] ELSE @]
  PROVE  Moves("queue") /\ r'.cause = r.cause
<1>1. (IF r.persisted THEN [tree |-> r.fix, kind |-> "tree"] ELSE r.cand) \in Candidates
  BY DEF Candidates, Memory
<1> QED
  BY <1>1 DEF Memory, Pcs, Moves

\* A rejected re-review begins another cycle.
LEMMA RejectedReviewFacts ==
  ASSUME r \in Memory, NEW cycle \in Nat, r' = [r EXCEPT !.pc = "remediate", !.cycle = cycle]
  PROVE  Moves("remediate") /\ r'.cycle = cycle /\ r'.cause = r.cause
  BY DEF Memory, Pcs, Moves

\* A re-review throws nothing away but the invocation's place, cause and cycle,
\* and records at most one review, of the remediated tree.
LEMMA LoopReviewFacts ==
  ASSUME RunnerTypeOK, LoopReview
  PROVE  /\ \/ Moves("queue") /\ r'.cause = r.cause
            \/ Moves("begin-cleanup") /\ r'.cause = "ordinary"
            \/ Moves("remediate") /\ r'.cause = r.cause /\ r'.cycle = r.cycle + 1
         /\ \/ UNCHANGED reviews
            \/ r.fix \in InScope /\ RecordReview(r.cycle + 1, r.fix)
<1> r \in Memory
  BY DEF RunnerTypeOK
<1>1. PICK cycle \in Nat : cycle = r.cycle + 1
  BY DEF Memory
<1>2. CASE Reviewable(cycle, r.fix)
  <2>1. r.fix \in InScope /\ r.fix \in Trees /\ RecordReview(r.cycle + 1, r.fix)
    BY <1>1, <1>2, RunnerAssumption DEF LoopReview, Reviewable
  <2>2. CASE Verdict(r.fix) = "accepted"
    <3>1. r' = [r EXCEPT !.pc = "queue", !.cycle = cycle,
                  !.cand = IF r.persisted THEN [tree |-> r.fix, kind |-> "tree"] ELSE @]
      BY <1>1, <1>2, <2>2 DEF LoopReview
    <3> QED
      BY <1>1, <2>1, <3>1, AcceptedReviewFacts
  <2>3. CASE Verdict(r.fix) # "accepted" /\ BudgetExhausted(cycle)
    BY <1>1, <1>2, <2>1, <2>3, FailFacts DEF LoopReview, Causes
  <2>4. CASE Verdict(r.fix) # "accepted" /\ ~BudgetExhausted(cycle)
    <3>1. r' = [r EXCEPT !.pc = "remediate", !.cycle = cycle]
      BY <1>1, <1>2, <2>4 DEF LoopReview
    <3> QED
      BY <1>1, <2>1, <3>1, RejectedReviewFacts
  <2> QED
    BY <2>2, <2>3, <2>4
<1>3. CASE ~Reviewable(cycle, r.fix)
  BY <1>1, <1>3, FailFacts DEF LoopReview, Causes
<1> QED
  BY <1>2, <1>3

\* The gates will name the tree that is observed now.
LEMMA VerifyFacts ==
  ASSUME RunnerTypeOK, Verify
  PROVE  Moves("gates") /\ r'.cause = r.cause
  BY DEF Memory, Pcs, Verify, RunnerTypeOK, Moves

\* An update of the place alone.
LEMMA AdvancedFacts ==
  ASSUME r \in Memory, NEW p \in Pcs, r' = [r EXCEPT !.pc = p]
  PROVE  Moves(p) /\ r'.cause = r.cause
  BY DEF Memory, Moves

\* An update of place and cause.
LEMMA DecidedFacts ==
  ASSUME r \in Memory, NEW p \in Pcs, NEW c \in Causes, r' = [r EXCEPT !.pc = p, !.cause = c]
  PROVE  Moves(p) /\ r'.cause = c
  BY DEF Memory, Moves

\* A review record is a verdict on a tree; it is the last of the reviews.
LEMMA RecordReviewFacts ==
  ASSUME RunnerTypeOK, NEW cycle \in Nat, NEW t \in InScope, RecordReview(cycle, t)
  PROVE  /\ reviews' \in Seq([verdict : {"accepted", "rejected"}, tree : Trees])
         /\ Len(reviews') = Len(reviews) + 1
         /\ \A i \in 1 .. Len(reviews) : reviews'[i] = reviews[i]
         /\ reviews'[Len(reviews) + 1] = [verdict |-> Verdict(t), tree |-> t]
<1>1. Verdict(t) \in {"accepted", "rejected"}
  BY DEF Verdict, PerformReview
<1> QED
  BY <1>1, RunnerAssumption DEF RunnerTypeOK, RecordReview

\* What a gate can come to.
LEMMA GateOutcomesAre == GateOutcomes \subseteq RunStatuses
<1>1. RefusedStatuses = {}
  BY DEF RefusedStatuses, ArmedChecks
<1>2. \A c \in SupervisorReceipts : GateStatus(c) \in RunStatuses
  BY DEF SupervisorReceipts, GateStatus, RunStatuses
<1> QED
  BY <1>1, <1>2 DEF GateOutcomes

\* A gate result is the last of the rows and names the tree observed before.
LEMMA RecordGateFacts ==
  ASSUME RunnerTypeOK, GateRecordable(r.seen), NEW status \in GateOutcomes,
         RecordGateResult(status)
  PROVE  /\ gates' \in Seq([status : RunStatuses \cup Refusals, tree : Trees])
         /\ Len(gates') = Len(gates) + 1
         /\ \A i \in 1 .. Len(gates) : gates'[i] = gates[i]
         /\ gates'[Len(gates) + 1] = [status |-> status, tree |-> r.seen]
<1>1. status \in RunStatuses
  BY GateOutcomesAre
<1> QED
  BY <1>1, RunnerAssumption DEF RunnerTypeOK, RecordGateResult, GateRecordable

\* Every failure cause has its result.
LEMMA FailureResultIs == FailureResult \in Results
  BY DEF FailureResult, Results

\* Whoever finds the rows past containment finds the gate released.
LEMMA NextStepReleased ==
  ASSUME RunnerTypeOK, GateInv
  PROVE  NextStep \in PastContainment => gate = "released"
  BY DEF GateInv, NextStep, PastContainment, PastDispatch, NothingRecorded, NothingDecided

\* Whoever enters finds an attempt without a disposition.
LEMMA NextStepOpen ==
  NextStep # "complete" => terminal = {}
  BY DEF NextStep

-----------------------------------------------------------------------------
(* The core: start gate, forward path, proof set, disposition.             *)

\* An invocation that ends, by a return, a throw or a crash, leaves the tables
\* to the next one; it may have put the lease of an undecided attempt into cleanup.
LEMMA EndStep ==
  ASSUME CoreInv,
         NEW result \in Results, r' = Idle(result),
         UNCHANGED <<phase, ticket, started, work, decided, workspace, tree, worker, starts,
                     writes, reviewer>>,
         lease' \in [state : {"none", "live", "cleanup_pending"},
                     key : {"none", "workspace", "failure", "promotion"}],
         terminal = {} \/ UNCHANGED lease,
         crashes' \in 0 .. MaxCrashes
  PROVE  CoreInv'
<1>1. Ends
  BY IdleFacts
<1> USE DEF CoreInv, Ends, started, work, decided
<1>2. RunnerTypeOK'
  BY <1>1 DEF RunnerTypeOK
<1>3. GateInv'
  BY <1>1 DEF GateInv, NothingRecorded, NothingDecided, PastRelease
<1>4. StartInv'
  BY <1>1 DEF StartInv, PastDispatch
<1>5. ForwardInv'
  BY <1>1 DEF ForwardInv
<1>6. SealInv'
  BY <1>1 DEF SealInv
<1>7. TerminalInv'
  BY <1>1 DEF TerminalInv, OneDisposition, DispositionRestsOnProcessProof
<1> QED
  BY <1>2, <1>3, <1>4, <1>5, <1>6, <1>7

\* A throw that wrote nothing preserves the core.
LEMMA ThrowStep ==
  ASSUME CoreInv, Throw, UNCHANGED <<owned, started, work, decided, world>>
  PROVE  CoreInv'
  BY EndStep DEF CoreInv, Throw, Results, owned, world, RunnerTypeOK

\* The core of the invariant is inductive, action by action.
LEMMA CoreStep ==
  ASSUME CoreInv, Next
  PROVE  CoreInv'
<1> r \in Memory
  BY DEF CoreInv, RunnerTypeOK
<1> USE RunnerAssumption, PhasesAre
    DEF CoreInv, RunnerTypeOK, GateInv, StartInv, ForwardInv, SealInv, TerminalInv,
        Moves, Ends, NothingRecorded, NothingDecided, PastRelease, OneDisposition,
        DispositionRestsOnProcessProof, owned, started, work, decided, world, PastPrepare,
        PastContainment, PastDispatch
<1>1. CASE Enter
  <2>1. /\ r' \in Memory /\ r'.pc = "acquire" /\ r'.boundary = FALSE /\ r'.outcome = "none"
        /\ r'.cause = "none"
    BY <1>1, EnterFacts
  <2>2. terminal = {} /\ (r'.from \in PastContainment => gate = "released")
    BY <1>1, EnterFacts, NextStepReleased, NextStepOpen DEF Enter
  <2> QED
    BY <1>1, <2>1, <2>2 DEF Enter
<1>2. CASE Recover
  BY <1>2, EndStep DEF Recover, Return, Results
<1>3. CASE Crash
  <2>1. crashes' \in 0 .. MaxCrashes
    BY <1>3 DEF Crash
  <2> QED
    BY <1>3, <2>1, EndStep DEF Crash, Results
<1>4. CASE WorkerWrites
  BY <1>4
  DEF WorkerWrites, Pcs, Causes, Results
<1>5. CASE Acquire
  <2>1. CASE r.from = "recover" /\ ~Activatable
    BY <1>5, <2>1, ThrowStep DEF Acquire, Activatable, AcquireLease
  <2>2. CASE ~(r.from = "recover" /\ ~Activatable) /\ Goto("context")
    BY <1>5, <2>2, GotoFacts DEF Acquire, Activatable, AcquireLease, Pcs, Causes, Results
  <2>3. CASE ~(r.from = "recover" /\ ~Activatable) /\ Goto("provision")
    BY <1>5, <2>3, GotoFacts DEF Acquire, Activatable, AcquireLease, Pcs, Causes, Results
  <2> QED
    BY <1>5, <2>1, <2>2, <2>3 DEF Acquire
<1>6. CASE ProvisionAttemptWorkspace
  BY <1>6, GotoFacts
  DEF ProvisionAttemptWorkspace, Pcs, Causes, Results
<1>7. CASE ContainFailure
  <2>1. lease' \in [state : {"none", "live", "cleanup_pending"},
                    key : {"none", "workspace", "failure", "promotion"}]
    BY <1>7 DEF ContainFailure
  <2>2. terminal = {}
    BY <1>7 DEF ContainFailure
  <2> QED
    BY <1>7, <2>1, <2>2, EndStep DEF ContainFailure, Throw, Results
<1>8. CASE ResolveExecutionContext
  <2>1. CASE ~ContextResolvable
    BY <1>8, <2>1, ThrowStep DEF ResolveExecutionContext, ContextResolvable
  <2>2. CASE ContextResolvable /\ r.from \in PastContainment
    BY <1>8, <2>2, GotoFacts
    DEF ResolveExecutionContext, ContextResolvable, Pcs, Causes, Results
  <2>3. CASE ContextResolvable /\ r.from \notin PastContainment
    BY <1>8, <2>3, GotoFacts
    DEF ResolveExecutionContext, ContextResolvable, Pcs, Causes, Results
  <2> QED
    BY <1>8, <2>1, <2>2, <2>3 DEF ResolveExecutionContext
<1>9. CASE CreateHeldGate
  <2>1. CASE gate \in {"absent", "held"}
    BY <1>9, <2>1, GotoFacts DEF CreateHeldGate, HeldGateRow, Pcs, Causes, Results
  <2>2. CASE gate \notin {"absent", "held"}
    BY <1>9, <2>2, ThrowStep DEF CreateHeldGate, HeldGateRow
  <2> QED
    BY <1>9, <2>1, <2>2 DEF CreateHeldGate
<1>10. CASE CreateBoundary
  BY <1>10, BoundaryFacts
  DEF CreateBoundary, Pcs, Causes, Results
<1>11. CASE ReleaseTargetStartGate
  BY <1>11, GotoFacts
  DEF ReleaseTargetStartGate, MintTargetReleased, Pcs, Causes, Results
<1>12. CASE CloseNeverReleased
  BY <1>12, ClosedFacts
  DEF CloseNeverReleased, MintTargetNeverReleased, Pcs, Causes, Results
<1>13. CASE BeginImplementing
  BY <1>13, GotoFacts
  DEF BeginImplementing, ForwardTo, Transition, AdvanceAttemptState, Pcs, Causes, Results
<1>14. CASE ReconstructSupervised
  <2>1. CASE chain = "none"
    BY <1>14, <2>1, ThrowStep DEF ReconstructSupervised
  <2>2. CASE chain = "timed_out"
    BY <1>14, <2>2, SuperviseFacts DEF ReconstructSupervised, Pcs, Causes, Results
  <2>3. CASE chain = "exited"
    BY <1>14, <2>3, SuperviseFacts DEF ReconstructSupervised, Pcs, Causes, Results
  <2> QED
    BY <1>14, <2>1, <2>2, <2>3
<1>15. CASE StartTarget \/ SpawnError
  <2>1. CASE StartTarget /\ Moves("running") /\ r'.cause = r.cause
    BY <2>1 DEF StartTarget
  <2>2. CASE /\ SpawnError /\ r' \in Memory /\ r'.pc = "identity"
             /\ r'.outcome = "spawn_error" /\ r'.from = r.from
             /\ r'.boundary = r.boundary /\ r'.cause = r.cause
    BY <2>2 DEF SpawnError
  <2> QED BY <1>15, <2>1, <2>2, LaunchFacts
<1>16. CASE TargetEnds
  <2>1. /\ r' \in Memory /\ r'.pc = "persist" /\ r'.from = r.from
        /\ r'.outcome \in {"exited", "timed_out", "infrastructure_error"}
        /\ r'.boundary = r.boundary /\ r'.cause = r.cause
    BY <1>16, EndedFacts
  <2> QED BY <1>16, <2>1 DEF TargetEnds
<1>17. CASE PersistProcessChain \/ ChainPersistenceSwallowed
  BY <1>17, GotoFacts
  DEF PersistProcessChain, Pcs, Causes, Results, ChainPersistenceSwallowed
<1>18. CASE CaptureIdentity
  <2>1. Moves("branch") /\ r'.cause = r.cause
    <3>1. CASE IdentityWanted
      BY <1>18, <3>1, IdentifiedFacts DEF CaptureIdentity
    <3>2. CASE ~IdentityWanted
      BY <1>18, <3>2, GotoFacts DEF CaptureIdentity, Pcs
    <3> QED
      BY <3>1, <3>2
  <2>2. identity' \in {"none", "recorded", "bound"}
    BY <1>18 DEF CaptureIdentity, PersistIdentityReceipts
  <2> QED
    BY <1>18, <2>1, <2>2 DEF CaptureIdentity
<1>19. CASE IdentityFails
  BY <1>19, FailFacts
  DEF IdentityFails, IdentityWanted, Pcs, Causes, Results
<1>20. CASE SupervisedBranch
  BY <1>20, GotoFacts, FailFacts
  DEF SupervisedBranch, Pcs, Causes, Results
<1>21. CASE CaptureImplementation \/ BeginReview
  BY <1>21, CapturedFacts, GotoFacts
  DEF CaptureImplementation, Transition, ObservedCandidate, AdvanceAttemptState, Pcs, Causes,
      Results, BeginReview
<1>22. CASE DispatchReviewer
  <2>1. reviewer' \in {"absent", "permitted", "denied"}
    BY <1>22 DEF DispatchReviewer, EvaluateDistinction
  <2> QED
    BY <1>22, <2>1 DEF DispatchReviewer
<1>23. CASE ReviewerFails
  BY <1>23, ThrowStep DEF ReviewerFails
<1>24. CASE Review
  <2>1. CASE Reviewable(1, r.cand.tree)
    <3>1. PICK p \in {"queue", "remediate"} : Goto(p)
      BY <1>24, <2>1 DEF Review
    <3>2. Moves(p) /\ r'.cause = r.cause
      BY <3>1, GotoFacts DEF Pcs
    <3>3. reviews' \in Seq([verdict : {"accepted", "rejected"}, tree : Trees])
      BY <1>24, <2>1, RecordReviewFacts DEF Review, Reviewable
    <3> QED
      BY <1>24, <2>1, <3>2, <3>3 DEF Review
  <2>2. CASE ~Reviewable(1, r.cand.tree)
    BY <1>24, <2>2, ThrowStep DEF Review
  <2> QED
    BY <2>1, <2>2
<1>25. CASE Remediate
  BY <1>25, RemediatedFacts
  DEF Remediate, Pcs, Causes, Results
<1>26. CASE RemediationFails
  <2>1. CASE Throw
    BY <1>26, <2>1, ThrowStep DEF RemediationFails
  <2>2. CASE Fail("ordinary")
    BY <1>26, <2>2, FailFacts DEF RemediationFails, Pcs, Causes, Results
  <2> QED
    BY <1>26, <2>1, <2>2 DEF RemediationFails
<1>27. CASE BeginRemediation
  BY <1>27, GotoFacts
  DEF BeginRemediation, Transition, Swallowed, AdvanceAttemptState, Pcs, Causes, Results
<1>28. CASE RecordRemediation
  <2>1. PICK p \in {"remed-captured", "loop-review"} : Goto(p)
    BY <1>28 DEF RecordRemediation, Swallowed
  <2>2. Moves(p) /\ r'.cause = r.cause
    BY <2>1, GotoFacts DEF Pcs
  <2>3. fixes' \subseteq [cycle : Nat, tree : Trees]
    BY <1>28 DEF RecordRemediation, Remediable, Memory
  <2> QED
    BY <1>28, <2>2, <2>3 DEF RecordRemediation
<1>29. CASE CaptureRemediation \/ ReviewAfterRemediation
  <2>1. CASE CaptureRemediation
    <3>1. Moves("remed-review") /\ r'.cause = r.cause
      BY <2>1, GotoFacts DEF CaptureRemediation, Pcs
    <3>2. phase' \in {phase, "remediation_captured"}
      BY <2>1 DEF CaptureRemediation, Transition, AdvanceAttemptState
    <3> QED BY <2>1, <3>1, <3>2 DEF CaptureRemediation
  <2>2. CASE ReviewAfterRemediation
    <3>1. Moves("loop-review") /\ r'.cause = r.cause
      BY <2>2, ReviewAgainFacts DEF ReviewAfterRemediation
    <3>2. phase' \in {phase, "reviewing"}
      BY <2>2 DEF ReviewAfterRemediation, Transition, AdvanceAttemptState
    <3> QED BY <2>2, <3>1, <3>2 DEF ReviewAfterRemediation
  <2> QED BY <1>29, <2>1, <2>2
<1>30. CASE LoopReview
  <2>1. reviews' \in Seq([verdict : {"accepted", "rejected"}, tree : Trees])
    <3>1. r.cycle + 1 \in Nat
      BY DEF Memory
    <3> QED
      BY <1>30, <3>1, LoopReviewFacts, RecordReviewFacts
  <2>2. \/ Moves("queue") /\ r'.cause = r.cause
        \/ Moves("begin-cleanup") /\ r'.cause = "ordinary"
        \/ Moves("remediate") /\ r'.cause = r.cause
    BY <1>30, LoopReviewFacts
  <2> QED
    BY <1>30, <2>1, <2>2 DEF LoopReview
<1>31. CASE BeginVerification
  BY <1>31, GotoFacts DEF BeginVerification, Transition, AdvanceAttemptState, Pcs
<1>46. CASE Verify
  BY <1>46, VerifyFacts DEF Transition, AdvanceAttemptState, Verify
<1>32. CASE RunGate
  <2>1. CASE GateRecordable(r.seen)
    <3>1. PICK status \in GateOutcomes :
            /\ RecordGateResult(status)
            /\ IF Len(gates') < Verifications THEN UNCHANGED r
               ELSE CASE OverallStatus(gates') = "pass" -> Goto("converge")
                      [] OverallStatus(gates') = "fail" -> Fail("ordinary")
                      [] OTHER -> Fail("infrastructure")
      BY <1>32, <2>1 DEF RunGate
    <3>2. /\ gates' \in Seq([status : RunStatuses \cup Refusals, tree : Trees])
          /\ Len(gates') = Len(gates) + 1
      BY <2>1, <3>1, RecordGateFacts
    <3>3. /\ r' \in Memory
          /\ \/ r' = r /\ Len(gates') < Verifications
             \/ r'.pc = "converge" /\ r'.cause = r.cause
             \/ r'.pc = "begin-cleanup" /\ r'.cause \in {"ordinary", "infrastructure"}
          /\ r'.from = r.from /\ r'.boundary = r.boundary /\ r'.outcome = r.outcome
      <4>1. CASE Len(gates') < Verifications
        BY <3>1, <4>1
      <4>2. CASE Goto("converge")
        BY <4>2, GotoFacts DEF Pcs
      <4>3. CASE Fail("ordinary")
        BY <4>3, FailFacts DEF Causes
      <4>4. CASE Fail("infrastructure")
        BY <4>4, FailFacts DEF Causes
      <4> QED
        BY <3>1, <4>1, <4>2, <4>3, <4>4
    <3>4. Len(gates') <= Verifications /\ NothingDecided
      BY <1>32, <3>2 DEF RunGate
    <3> QED
      BY <1>32, <2>1, <3>2, <3>3, <3>4 DEF RunGate
  <2>2. CASE ~GateRecordable(r.seen)
    BY <1>32, <2>2, ThrowStep DEF RunGate
  <2> QED
    BY <2>1, <2>2
<1>33. CASE BeginConverging
  BY <1>33, GotoFacts
  DEF BeginConverging, Transition, AdvanceAttemptState, Pcs, Causes, Results
<1>34. CASE FinalizeAttribution
  <2>1. CASE chain # "none"
    <3>1. Moves("begin-cleanup") /\ r'.cause = "promotion"
      BY <1>34, <2>1, DecidedFacts DEF FinalizeAttribution, Pcs, Causes
    <3>2. attribution' \in Candidates
      BY <1>34, <2>1 DEF FinalizeAttribution, PersistCommitAttribution, Memory
    <3> QED
      BY <1>34, <2>1, <3>1, <3>2 DEF FinalizeAttribution
  <2>2. CASE chain = "none"
    BY <1>34, <2>2, ThrowStep DEF FinalizeAttribution
  <2> QED
    BY <2>1, <2>2
<1>35. CASE BeginAttemptCleanup
  <2>1. CASE phase = "cleanup_pending"
    BY <1>35, <2>1, GotoFacts DEF BeginAttemptCleanup, Pcs, Causes, Results
  <2>2. CASE phase = "verifying" /\ r.from \in PastDispatch
    BY <1>35, <2>2, ThrowStep DEF BeginAttemptCleanup
  <2>3. CASE phase # "cleanup_pending" /\ ~(phase = "verifying" /\ r.from \in PastDispatch)
    BY <1>35, <2>3, GotoFacts DEF BeginAttemptCleanup, Pcs, Causes, Results
  <2> QED
    BY <1>35, <2>1, <2>2, <2>3 DEF BeginAttemptCleanup
<1>36. CASE AdvanceTicketToCleanupPending
  BY <1>36, GotoFacts
  DEF AdvanceTicketToCleanupPending, Pcs, Causes, Results
<1>37. CASE BeginLeaseCleanup
  <2>1. CASE (lease.state = "live" \/ lease.key = CleanupKey) /\ Goto("seal")
    BY <1>37, <2>1, GotoFacts DEF BeginLeaseCleanup, CleanupKey, Pcs, Causes, Results
  <2>2. CASE (lease.state = "live" \/ lease.key = CleanupKey) /\ Goto("kill")
    BY <1>37, <2>2, GotoFacts DEF BeginLeaseCleanup, CleanupKey, Pcs, Causes, Results
  <2>3. CASE ~(lease.state = "live" \/ lease.key = CleanupKey)
    BY <1>37, <2>3, ThrowStep DEF BeginLeaseCleanup
  <2> QED
    BY <1>37, <2>1, <2>2, <2>3 DEF BeginLeaseCleanup
<1>38. CASE KillAndMintDeath
  <2>1. Moves("seal") /\ r'.cause = r.cause
    BY <1>38, GotoFacts DEF KillAndMintDeath, Pcs
  <2>2. worker' \in {"none", "running", "dead"}
    BY <1>38 DEF KillAndMintDeath
  <2>3. /\ r.pc = "kill"
        /\ UNCHANGED <<owned, started, work, decided, workspace, tree, starts, writes,
                       reviewer, crashes>>
    BY <1>38 DEF KillAndMintDeath
  <2> QED
    BY <1>38, <2>1, <2>2, <2>3
<1>39. CASE SealTargetProofSet
  <2>1. CASE sealed \/ ProofRowsExist
    <3>1. sealed' = TRUE /\ gate = "released" /\ chain # "none" /\ r.pc = "seal"
      BY <1>39, <2>1 DEF SealTargetProofSet, CreateAndSealProofSet, ProofRowsExist
    <3>2. CASE r.cause = "promotion"
      <4>1. Moves("eligibility") /\ r'.cause = r.cause
        BY <1>39, <2>1, <3>2, GotoFacts DEF SealTargetProofSet, Pcs
      <4> QED
        BY <1>39, <3>1, <3>2, <4>1 DEF SealTargetProofSet
    <3>3. CASE r.cause # "promotion"
      <4>1. Moves("failure") /\ r'.cause = r.cause
        BY <1>39, <2>1, <3>3, GotoFacts DEF SealTargetProofSet, Pcs
      <4> QED
        BY <1>39, <3>1, <3>3, <4>1 DEF SealTargetProofSet
    <3> QED
      BY <3>2, <3>3
  <2>2. CASE ~(sealed \/ ProofRowsExist)
    BY <1>39, <2>2, ThrowStep DEF SealTargetProofSet
  <2> QED
    BY <2>1, <2>2
<1>40. CASE MintFailureCleanup
  <2>1. Ends
    BY <1>40, IdleFacts, FailureResultIs DEF MintFailureCleanup, Return
  <2>2. terminal' = {"failure"}
    BY <1>40 DEF MintFailureCleanup, FailureCleanupRow, PersistDispositionReceipt
  <2> QED
    BY <1>40, <2>1, <2>2 DEF MintFailureCleanup, FailureCleanupRow, CleanupDispositionPreimage
<1>41. CASE MintCleanupEligibility
  <2>1. Moves("oracle") /\ r'.cause = r.cause
    BY <1>41, GotoFacts DEF MintCleanupEligibility, Pcs
  <2>2. eligibility' \in Candidates
    BY <1>41 DEF MintCleanupEligibility, CleanupEligibilityRow, Memory
  <2> QED
    BY <1>41, <2>1, <2>2 DEF MintCleanupEligibility
<1>42. CASE BindIdentity
  <2>1. Moves("evaluate") /\ r'.cause = r.cause
    BY <1>42, GotoFacts DEF BindIdentity, Pcs
  <2> QED
    BY <1>42, <2>1 DEF BindIdentity
<1>43. CASE EvaluateOracle
  <2>1. CASE Decidable
    <3>1. /\ r' \in Memory /\ r'.from = r.from /\ r'.boundary = r.boundary /\ r'.outcome = r.outcome
          /\ \/ r'.pc = "intent" /\ r'.cause = r.cause
             \/ r'.pc = "kill" /\ r'.cause = "oracle_rejected"
      <4>1. CASE OracleAccepts
        BY <1>43, <2>1, <4>1, AdvancedFacts DEF EvaluateOracle, Pcs
      <4>2. CASE ~OracleAccepts
        BY <1>43, <2>1, <4>2, DecidedFacts DEF EvaluateOracle, Pcs, Causes
      <4> QED
        BY <4>1, <4>2
    <3>2. oracle' \in {"accepted", "rejected"}
      BY <1>43, <2>1 DEF EvaluateOracle, PersistOracleDecision
    <3> QED
      BY <1>43, <2>1, <3>1, <3>2 DEF EvaluateOracle
  <2>2. CASE ~Decidable
    BY <1>43, <2>2, ThrowStep DEF EvaluateOracle
  <2> QED
    BY <2>1, <2>2
<1>44. CASE CreatePromotionIntent
  <2>1. CASE intent' = TRUE /\ Goto("receipt")
    BY <1>44, <2>1, GotoFacts DEF CreatePromotionIntent, Pcs, Causes, Results
  <2>2. CASE Throw /\ UNCHANGED intent
    BY <1>44, <2>2, ThrowStep DEF CreatePromotionIntent
  <2> QED
    BY <1>44, <2>1, <2>2 DEF CreatePromotionIntent
<1>45. CASE MintPromotionCleanup
  <2>1. Ends
    BY <1>45, IdleFacts DEF MintPromotionCleanup, Return, Results
  <2>2. terminal' = {"promotion"} /\ oracle = "accepted"
    BY <1>45
    DEF MintPromotionCleanup, PromotionCleanupRow, PromotionPreimage, PersistDispositionReceipt
  <2> QED
    BY <1>45, <2>1, <2>2
    DEF MintPromotionCleanup, PromotionCleanupRow, PromotionPreimage, CleanupDispositionPreimage
<1> QED
  BY <1>1, <1>2, <1>3, <1>4, <1>5, <1>6, <1>7, <1>8, <1>9, <1>10, <1>11, <1>12, <1>13, <1>14,
     <1>15, <1>16, <1>17, <1>18, <1>19, <1>20, <1>21, <1>22, <1>23, <1>24, <1>25, <1>26, <1>27,
     <1>28, <1>29, <1>30, <1>31, <1>32, <1>33, <1>34, <1>35, <1>36, <1>37, <1>38, <1>39, <1>40,
     <1>41, <1>42, <1>43, <1>44, <1>45, <1>46
  DEF Next, Runner

-----------------------------------------------------------------------------
(* Reviews, remediations and what the oracle accepts.                      *)

\* Where runAttempt is in the remediation cycle.
Remediating ==
  {"remediate", "remed-begin", "remed-record", "remed-captured", "remed-review", "loop-review"}

\* Who writes reviews and remediations or takes the runner through the cycle.
LEMMA RemediationFrame ==
  ASSUME RunnerTypeOK, Next
  PROVE  \/ UNCHANGED <<reviews, fixes>> /\ r'.pc \notin Remediating
         \/ Review \/ LoopReview \/ Remediate \/ BeginRemediation \/ RecordRemediation
         \/ CaptureRemediation \/ ReviewAfterRemediation
         \/ UNCHANGED <<reviews, fixes, r>>
<1> r \in Memory
  BY DEF RunnerTypeOK
<1> USE DEF Moves, Ends, Pcs, Causes, Results, Remediating, owned, started, work, decided, world
<1>1. CASE Enter \/ Recover \/ Crash \/ WorkerWrites
  BY <1>1, EnterFacts, IdleFacts
  DEF Enter, Recover, Return, Crash, WorkerWrites
<1>2. CASE \/ Acquire \/ ProvisionAttemptWorkspace \/ ContainFailure
           \/ ResolveExecutionContext \/ CreateHeldGate \/ CreateBoundary
           \/ ReleaseTargetStartGate \/ CloseNeverReleased
  BY <1>2, GotoFacts, ThrowFacts, BoundaryFacts, ClosedFacts
  DEF Acquire, ProvisionAttemptWorkspace, ContainFailure, ResolveExecutionContext,
      CreateHeldGate, CreateBoundary, ReleaseTargetStartGate, CloseNeverReleased
<1>3. CASE \/ BeginImplementing \/ ReconstructSupervised \/ StartTarget \/ SpawnError
           \/ TargetEnds \/ PersistProcessChain \/ ChainPersistenceSwallowed
  BY <1>3, GotoFacts, ThrowFacts, SuperviseFacts
  DEF BeginImplementing, ReconstructSupervised, StartTarget, SpawnError, TargetEnds,
      PersistProcessChain, ChainPersistenceSwallowed
<1>4. CASE CaptureIdentity
  BY <1>4, GotoFacts, IdentifiedFacts
  DEF CaptureIdentity
<1>5. CASE IdentityFails \/ SupervisedBranch \/ CaptureImplementation \/ BeginReview
  BY <1>5, FailFacts, GotoFacts, CapturedFacts
  DEF IdentityFails, SupervisedBranch, CaptureImplementation, BeginReview
<1>6. CASE DispatchReviewer
  BY <1>6
  DEF DispatchReviewer
<1>7. CASE ReviewerFails
  BY <1>7, ThrowFacts
  DEF ReviewerFails
<1>8. CASE RemediationFails
  BY <1>8, FailFacts, ThrowFacts
  DEF RemediationFails
<1>9. CASE BeginVerification \/ Verify \/ RunGate \/ BeginConverging \/ FinalizeAttribution
  BY <1>9, GotoFacts, VerifyFacts, FailFacts, ThrowFacts, DecidedFacts
  DEF BeginVerification, Verify, RunGate, BeginConverging, FinalizeAttribution
<1>10. CASE \/ BeginAttemptCleanup \/ AdvanceTicketToCleanupPending \/ BeginLeaseCleanup
            \/ KillAndMintDeath \/ SealTargetProofSet \/ MintFailureCleanup
  BY <1>10, GotoFacts, ThrowFacts, IdleFacts, FailureResultIs
  DEF BeginAttemptCleanup, AdvanceTicketToCleanupPending, BeginLeaseCleanup,
      KillAndMintDeath, SealTargetProofSet, MintFailureCleanup, Return
<1>11. CASE \/ MintCleanupEligibility \/ BindIdentity \/ EvaluateOracle
            \/ CreatePromotionIntent \/ MintPromotionCleanup
  BY <1>11, GotoFacts, ThrowFacts, DecidedFacts, AdvancedFacts, IdleFacts
  DEF MintCleanupEligibility, BindIdentity, EvaluateOracle, CreatePromotionIntent,
      MintPromotionCleanup, Return
<1> QED
  BY <1>1, <1>2, <1>3, <1>4, <1>5, <1>6, <1>7, <1>8, <1>9, <1>10, <1>11 DEF Next, Runner

\* Who writes what the oracle decides on, and its decision.
LEMMA DecisionFrame ==
  ASSUME Next
  PROVE  \/ UNCHANGED <<reviews, reviewer, gates, attribution, eligibility, identity, oracle>>
         \/ DispatchReviewer \/ Review \/ LoopReview \/ CaptureIdentity \/ RunGate
         \/ FinalizeAttribution \/ MintCleanupEligibility \/ BindIdentity \/ EvaluateOracle
  BY DEF Next, Runner, Enter, Recover, Crash, WorkerWrites, Acquire, ProvisionAttemptWorkspace,
     ContainFailure, ResolveExecutionContext, CreateHeldGate, CreateBoundary,
     ReleaseTargetStartGate, CloseNeverReleased, BeginImplementing, ReconstructSupervised,
     StartTarget, SpawnError, TargetEnds, PersistProcessChain, ChainPersistenceSwallowed,
     IdentityFails, SupervisedBranch, CaptureImplementation, BeginReview, ReviewerFails,
     Remediate, RemediationFails, BeginRemediation, RecordRemediation, CaptureRemediation,
     ReviewAfterRemediation, BeginVerification, Verify, BeginConverging, BeginAttemptCleanup,
     AdvanceTicketToCleanupPending, BeginLeaseCleanup, KillAndMintDeath, SealTargetProofSet,
     MintFailureCleanup, CreatePromotionIntent, MintPromotionCleanup, owned, started, work,
     decided, world

\* Every step keeps remediations within their cycles: the runner leaves a cycle
\* only over its own record.
LEMMA CycleStep ==
  ASSUME RunnerInv, Next
  PROVE  CycleInv'
<1> r \in Memory
  BY DEF RunnerInv, CoreInv, RunnerTypeOK
<1>0. RunnerTypeOK /\ CycleInv /\ RunnerAssumption
  BY RunnerAssumption DEF RunnerInv, CoreInv
<1>a. fixes \subseteq [cycle : Nat, tree : Trees] /\ r.cycle \in Nat
  BY <1>0 DEF RunnerTypeOK, Memory
<1>1. CASE UNCHANGED <<reviews, fixes>> /\ r'.pc \notin Remediating
  BY <1>0, <1>1 DEF CycleInv, Remediating, RemediationsAnswerRejections, Rejected
<1>2. CASE UNCHANGED <<reviews, fixes, r>>
  BY <1>0, <1>2 DEF CycleInv, RemediationsAnswerRejections, Rejected
<1>3. ASSUME UNCHANGED fixes, NEW cycle \in Nat, NEW t \in InScope, RecordReview(cycle, t)
      PROVE  RemediationsAnswerRejections'
  <2>0. /\ reviews \in Seq([verdict : {"accepted", "rejected"}, tree : Trees])
        /\ reviews' \in Seq([verdict : {"accepted", "rejected"}, tree : Trees])
        /\ Len(reviews') = Len(reviews) + 1
        /\ \A i \in 1 .. Len(reviews) : reviews'[i] = reviews[i]
    BY <1>0, <1>3, RecordReviewFacts DEF RunnerTypeOK
  <2>1. Rejected \subseteq Rejected'
    BY <2>0 DEF Rejected
  <2> QED
    BY <1>0, <1>3, <2>1 DEF CycleInv, RemediationsAnswerRejections
<1>4. CASE Review
  <2>1. CASE Reviewable(1, r.cand.tree)
    <3>1. RemediationsAnswerRejections'
      BY <1>3, <1>4, <2>1 DEF Review, Reviewable
    <3>2. fixes' = {}
      BY <1>4 DEF Review, RunnerInv, CoreInv, ForwardInv, NothingRecorded
    <3> QED
      BY <3>1, <3>2 DEF CycleInv
  <2>2. CASE ~Reviewable(1, r.cand.tree)
    BY <1>0, <1>4, <2>2, ThrowFacts
    DEF Ends, Review, CycleInv, RemediationsAnswerRejections, Rejected
  <2> QED
    BY <2>1, <2>2
<1>5. CASE LoopReview
  <2>1. RemediationsAnswerRejections'
    <3>1. CASE UNCHANGED reviews
      BY <1>0, <1>5, <3>1 DEF LoopReview, CycleInv, RemediationsAnswerRejections, Rejected
    <3>2. CASE r.fix \in InScope /\ RecordReview(r.cycle + 1, r.fix)
      <4>1. r.cycle + 1 \in Nat
        BY <1>a
      <4> QED
        BY <1>3, <1>5, <3>2, <4>1 DEF LoopReview
    <3> QED
      BY <1>0, <1>5, <3>1, <3>2, LoopReviewFacts
  <2>2. \A f \in fixes : f.cycle < r.cycle + 1
    BY <1>0, <1>a, <1>5 DEF LoopReview, CycleInv
  <2>3. \/ r'.pc \in {"queue", "begin-cleanup"}
        \/ r'.pc = "remediate" /\ r'.cycle = r.cycle + 1
    BY <1>0, <1>5, LoopReviewFacts DEF Moves
  <2> QED
    BY <1>5, <2>1, <2>2, <2>3 DEF LoopReview, CycleInv
<1>6. CASE Remediate
  BY <1>0, <1>6, RemediatedFacts
  DEF Moves, Remediate, work, CycleInv, RemediationsAnswerRejections, Rejected
<1>7. CASE BeginRemediation
  <2>1. PICK p \in {"remed-record", "loop-review"} : Goto(p)
    BY <1>7 DEF BeginRemediation, Swallowed
  <2>2. r'.pc = p /\ r'.cycle = r.cycle
    BY <2>1, GotoFacts DEF Moves, Pcs
  <2> QED
    BY <1>0, <1>a, <1>7, <2>2
    DEF BeginRemediation, work, CycleInv, RemediationsAnswerRejections, Rejected
<1>8. CASE RecordRemediation
  <2>1. CASE Remediable(r.cycle, r.fix)
    <3>1. r'.pc = "remed-captured" /\ r'.cycle = r.cycle
      BY <1>8, <2>1, GotoFacts DEF RecordRemediation, Moves, Pcs
    <3>2. fixes' = fixes \cup {[cycle |-> r.cycle, tree |-> r.fix]} /\ UNCHANGED reviews
      BY <1>8, <2>1 DEF RecordRemediation
    <3>3. \A f \in fixes : f.cycle < r.cycle
      BY <1>0, <1>8 DEF RecordRemediation, CycleInv
    <3>4. r.cycle <= RemediationLimit /\ r.cycle \in Rejected
      BY <2>1 DEF Remediable, Rejected
    <3>5. RemediationsAnswerRejections'
      BY <1>0, <1>a, <3>2, <3>3, <3>4 DEF RemediationsAnswerRejections, CycleInv, Rejected
    <3> QED
      BY <1>a, <3>1, <3>2, <3>3, <3>5 DEF CycleInv
  <2>2. CASE ~Remediable(r.cycle, r.fix)
    BY <1>0, <1>a, <1>8, <2>2, GotoFacts
    DEF RecordRemediation, Swallowed, Moves, Pcs, CycleInv, RemediationsAnswerRejections, Rejected
  <2> QED
    BY <2>1, <2>2
<1>9. CASE CaptureRemediation
  BY <1>0, <1>9, GotoFacts
  DEF CaptureRemediation, Moves, Pcs, work, CycleInv, RemediationsAnswerRejections, Rejected
<1>10. CASE ReviewAfterRemediation
  BY <1>0, <1>10, ReviewAgainFacts
  DEF Moves, ReviewAfterRemediation, work, CycleInv, RemediationsAnswerRejections, Rejected
<1> QED
  BY <1>0, <1>1, <1>2, <1>4, <1>5, <1>6, <1>7, <1>8, <1>9, <1>10, RemediationFrame

\* An accepted review is recorded with a permitted reviewer and a clean tree, and
\* the reviewer is asked before the first of them.
LEMMA ReviewStep ==
  ASSUME RunnerInv, Next
  PROVE  ReviewInv'
<1>0. RunnerTypeOK /\ ReviewInv
  BY DEF RunnerInv, CoreInv
<1>1. CASE UNCHANGED <<reviews, reviewer>>
  BY <1>0, <1>1 DEF ReviewInv
<1>2. CASE DispatchReviewer
  <2>1. reviews' = <<>>
    BY <1>2 DEF DispatchReviewer, work, RunnerInv, CoreInv, ForwardInv, NothingRecorded
  <2> QED
    BY <2>1 DEF ReviewInv
<1>3. ASSUME NEW cycle \in Nat, NEW t \in InScope, RecordReview(cycle, t), UNCHANGED reviewer
      PROVE  ReviewInv'
  <2>1. Verdict(t) = "accepted" => reviewer = "permitted" /\ t \in Clean
    BY DEF Verdict, PerformReview, DistinctReviewer, HookAccepts
  <2>2. /\ reviews \in Seq([verdict : {"accepted", "rejected"}, tree : Trees])
        /\ reviews' \in Seq([verdict : {"accepted", "rejected"}, tree : Trees])
        /\ Len(reviews') = Len(reviews) + 1
        /\ \A i \in 1 .. Len(reviews) : reviews'[i] = reviews[i]
        /\ reviews'[Len(reviews) + 1] = [verdict |-> Verdict(t), tree |-> t]
    BY <1>0, <1>3, RecordReviewFacts DEF RunnerTypeOK
  <2>3. DOMAIN reviews = 1 .. Len(reviews) /\ DOMAIN reviews' = 1 .. (Len(reviews) + 1)
    BY <2>2
  <2>4. \A i \in DOMAIN reviews' : i \in DOMAIN reviews \/ i = Len(reviews) + 1
    BY <2>2, <2>3
  <2> QED
    BY <1>0, <1>3, <2>1, <2>2, <2>3, <2>4 DEF ReviewInv
<1>4. CASE Review
  BY <1>1, <1>3, <1>4 DEF Review, Reviewable, world
<1>5. CASE LoopReview
  <2>1. r.cycle + 1 \in Nat
    BY <1>0 DEF RunnerTypeOK, Memory
  <2> QED
    BY <1>0, <1>1, <1>3, <1>5, <2>1, LoopReviewFacts DEF LoopReview, world
<1> QED
  BY <1>1, <1>2, <1>4, <1>5, DecisionFrame
  DEF CaptureIdentity, RunGate, FinalizeAttribution, MintCleanupEligibility, BindIdentity,
      EvaluateOracle, work, world

\* An element of a sequence over S is in S.
LEMMA SeqElement ==
  ASSUME NEW S, NEW s \in Seq(S)
  PROVE  \A i \in DOMAIN s : s[i] \in S
  OBVIOUS

\* What the oracle accepts is one proven tree.
LEMMA AcceptsProven ==
  ASSUME RunnerInv, Decidable, OracleAccepts
  PROVE  AcceptedTree
<1>1. identity = "bound"
  BY DEF Decidable, Materializable, IntegrityExact, IdentityBound, Projection, ReceiptsCohere
<1>2. Len(gates) = Verifications
      /\ \A i \in DOMAIN gates : gates[i] = [status |-> "passed", tree |-> attribution.tree]
  <2>1. /\ \A i \in DOMAIN gates :
             gates[i] \in [status : RunStatuses \cup Refusals, tree : Trees]
        /\ \A i \in DOMAIN gates : gates[i].status = "passed" /\ gates[i].tree = attribution.tree
    <3>1. gates \in Seq([status : RunStatuses \cup Refusals, tree : Trees])
      BY DEF RunnerInv, CoreInv, RunnerTypeOK
    <3>3. \A i \in DOMAIN gates :
             gates[i] \in [status : RunStatuses \cup Refusals, tree : Trees]
      BY <3>1, SeqElement
    <3>4. GatesPassed /\ SameTree
      BY DEF OracleAccepts
    <3> QED
      BY <3>3, <3>4 DEF GatesPassed, SameTree
  <2> QED
    BY <2>1 DEF OracleAccepts, GatesPassed
<1>3. /\ LastVerdict = "accepted" /\ reviewer = "permitted"
      /\ reviews[Len(reviews)].tree = attribution.tree /\ attribution.tree \in Clean
  <2>1. /\ reviews # <<>> /\ LastVerdict = "accepted"
        /\ reviews[Len(reviews)].tree = attribution.tree
    BY DEF OracleAccepts, ReviewsConverge, SameTree
  <2>2. Len(reviews) \in DOMAIN reviews
    BY <2>1 DEF RunnerInv, CoreInv, RunnerTypeOK
  <2>3. reviews[Len(reviews)].verdict = "accepted"
    BY <2>1 DEF LastVerdict
  <2> QED
    BY <2>1, <2>2, <2>3 DEF RunnerInv, CoreInv, ReviewInv
<1>4. eligibility = attribution /\ attribution.tree \in Complete \cap InScope
  BY DEF OracleAccepts, EligibleCandidate, ScopeMatches
<1> QED
  BY <1>1, <1>2, <1>3, <1>4 DEF AcceptedTree

\* What was accepted is not written to any more: every writer stands where the
\* oracle has not decided.
LEMMA AcceptedStep ==
  ASSUME RunnerInv, Next
  PROVE  AcceptedInv'
<1>0. RunnerTypeOK /\ AcceptedInv /\ ForwardInv
  BY DEF RunnerInv, CoreInv
<1>1. CASE UNCHANGED <<reviews, reviewer, gates, attribution, eligibility, identity, oracle>>
  BY <1>0, <1>1 DEF AcceptedInv, AcceptedTree, LastVerdict
<1>2. CASE oracle' = oracle /\ oracle = "none"
  BY <1>2 DEF AcceptedInv
<1>3. CASE DispatchReviewer \/ Review \/ LoopReview \/ RunGate \/ FinalizeAttribution
  BY <1>0, <1>2, <1>3
  DEF DispatchReviewer, Review, LoopReview, RunGate, FinalizeAttribution, ForwardInv,
      NothingRecorded, NothingDecided, decided
<1>4. CASE MintCleanupEligibility \/ BindIdentity
  BY <1>0, <1>2, <1>4 DEF MintCleanupEligibility, BindIdentity, ForwardInv, decided
<1>5. CASE CaptureIdentity
  <2>1. CASE IdentityWanted
    BY <1>0, <1>2, <1>5, <2>1
    DEF IdentityWanted, CaptureIdentity, ForwardInv, NothingRecorded, NothingDecided, decided
  <2>2. CASE ~IdentityWanted
    BY <1>1, <1>5, <2>2 DEF CaptureIdentity, work, decided, world
  <2> QED
    BY <2>1, <2>2
<1>6. CASE EvaluateOracle
  <2>1. CASE Decidable /\ OracleAccepts
    <3>1. AcceptedTree
      BY <2>1, AcceptsProven
    <3> QED
      BY <1>6, <3>1
      DEF EvaluateOracle, AcceptedInv, AcceptedTree, LastVerdict, started, work, world
  <2>2. CASE Decidable /\ ~OracleAccepts
    BY <1>6, <2>2 DEF EvaluateOracle, PersistOracleDecision, AcceptedInv
  <2>3. CASE ~Decidable
    BY <1>1, <1>6, <2>3 DEF EvaluateOracle, started, work, world
  <2> QED
    BY <2>1, <2>2, <2>3
<1> QED
  BY <1>1, <1>3, <1>4, <1>5, <1>6, DecisionFrame

-----------------------------------------------------------------------------
(* The theorems.                                                           *)

\* The invariant holds of an attempt nobody has touched.
LEMMA InitRunner == Init => RunnerInv
<1> SUFFICES ASSUME Init PROVE RunnerInv
  OBVIOUS
<1>0. /\ r \in Memory /\ r.pc = "idle" /\ r.from = "none" /\ r.boundary = FALSE
      /\ r.outcome = "none" /\ r.cause = "none"
  BY DEF Init, Idle, Memory, Moves, Pcs, Candidates, NoTree, NoCandidate, Causes, Results
<1>1. RunnerTypeOK
  <2>1. /\ reviews \in Seq([verdict : {"accepted", "rejected"}, tree : Trees])
        /\ gates \in Seq([status : RunStatuses \cup Refusals, tree : Trees])
        /\ Len(gates) <= Verifications
    BY RunnerAssumption DEF Init
  <2>2. attribution \in Candidates /\ eligibility \in Candidates
    BY DEF Init, Candidates
  <2>3. /\ phase \in Phases /\ ticket \in {"planned", "active", "cleanup_pending"}
        /\ lease \in [state : {"none", "live", "cleanup_pending"},
                      key : {"none", "workspace", "failure", "promotion"}]
        /\ fixes \subseteq [cycle : Nat, tree : Trees]
        /\ terminal \subseteq {"promotion", "failure"}
    BY PhasesAre DEF Init
  <2>4. /\ starts \in Nat /\ writes \in 0 .. MaxWrites /\ crashes \in 0 .. MaxCrashes
        /\ tree \in Trees \cup {Base}
    BY RunnerAssumption DEF Init
  <2>5. /\ gate = "absent" /\ chain = "none" /\ identity = "none" /\ oracle = "none"
        /\ sealed = FALSE /\ intent = FALSE /\ workspace = FALSE
        /\ worker = "none" /\ reviewer = "unasked"
    BY DEF Init
  <2> QED
    BY <1>0, <2>1, <2>2, <2>3, <2>4, <2>5 DEF RunnerTypeOK
<1>2. GateInv
  BY <1>0 DEF Init, GateInv, NothingRecorded, NothingDecided, PastRelease
<1>3. StartInv /\ ForwardInv /\ SealInv
  BY <1>0 DEF Init, StartInv, ForwardInv, SealInv, PastDispatch
<1>4. TerminalInv
  BY <1>0 DEF Init, TerminalInv, OneDisposition, DispositionRestsOnProcessProof
<1>5. CycleInv /\ ReviewInv /\ AcceptedInv
  BY <1>0 DEF Init, CycleInv, RemediationsAnswerRejections, ReviewInv, AcceptedInv
<1> QED
  BY <1>1, <1>2, <1>3, <1>4, <1>5 DEF RunnerInv, CoreInv

\* The invariant is inductive.
LEMMA NextRunner == RunnerInv /\ [Next]_vars => RunnerInv'
<1> SUFFICES ASSUME RunnerInv, [Next]_vars PROVE RunnerInv'
  OBVIOUS
<1>1. CASE Next
  BY <1>1, CoreStep, CycleStep, ReviewStep, AcceptedStep DEF RunnerInv, CoreInv
<1>2. CASE UNCHANGED vars
  <2>0. UNCHANGED <<phase, ticket, lease, gate, chain, identity, reviews, fixes, gates,
                    attribution, sealed, eligibility, oracle, intent, terminal, workspace, tree,
                    worker, starts, writes, reviewer, crashes, r>>
    BY <1>2 DEF vars, owned, started, work, decided, world
  <2>1. RunnerTypeOK'
    BY <2>0 DEF RunnerInv, CoreInv, RunnerTypeOK
  <2>2. GateInv' /\ StartInv' /\ ForwardInv' /\ SealInv'
    BY <2>0
    DEF RunnerInv, CoreInv, GateInv, StartInv, ForwardInv, SealInv, NothingRecorded,
        NothingDecided
  <2>3. TerminalInv' /\ CycleInv'
    BY <2>0
    DEF RunnerInv, CoreInv, TerminalInv, OneDisposition, DispositionRestsOnProcessProof, CycleInv,
        RemediationsAnswerRejections, Rejected
  <2>4. ReviewInv' /\ AcceptedInv'
    BY <2>0 DEF RunnerInv, CoreInv, ReviewInv, AcceptedInv, AcceptedTree, LastVerdict
  <2> QED
    BY <2>1, <2>2, <2>3, <2>4 DEF RunnerInv, CoreInv
<1> QED
  BY <1>1, <1>2

\* It holds in every reachable state.
LEMMA RunnerInvariant == Spec => []RunnerInv
  BY InitRunner, NextRunner, PTL DEF Spec

\* The rows and the invocation's memory are always well typed.
THEOREM RunnerTypes == Spec => []RunnerTypeOK
<1>1. RunnerInv => RunnerTypeOK
  BY DEF RunnerInv, CoreInv
<1> QED
  BY <1>1, RunnerInvariant, PTL

\* However often an attempt is resumed, its target is started at most once.
THEOREM StartedOnce == Spec => []TargetStartedOnce
<1>1. RunnerInv => TargetStartedOnce
  BY DEF RunnerInv, CoreInv, StartInv, TargetStartedOnce
<1> QED
  BY <1>1, RunnerInvariant, PTL

\* A disposition rests on the durable end of the process that was released.
THEOREM ProcessProven == Spec => []DispositionRestsOnProcessProof
<1>1. RunnerInv => DispositionRestsOnProcessProof
  BY DEF RunnerInv, CoreInv, TerminalInv
<1> QED
  BY <1>1, RunnerInvariant, PTL

\* An attempt is never both promoted and failed.
THEOREM DisposedOnce == Spec => []OneDisposition
<1>1. RunnerInv => OneDisposition
  BY DEF RunnerInv, CoreInv, TerminalInv
<1> QED
  BY <1>1, RunnerInvariant, PTL

\* What is promoted is one reviewed, verified, attributed and identified tree.
THEOREM PromotionProven == Spec => []PromotedTreeIsProven
<1>1. RunnerInv => PromotedTreeIsProven
  BY DEF RunnerInv, CoreInv, TerminalInv, AcceptedInv, AcceptedTree, PromotedTreeIsProven
<1> QED
  BY <1>1, RunnerInvariant, PTL

\* Remediation records answer rejected reviews, within the budget, once each.
THEOREM RejectionsAnswered == Spec => []RemediationsAnswerRejections
<1>1. RunnerInv => RemediationsAnswerRejections
  BY DEF RunnerInv, CoreInv, CycleInv
<1> QED
  BY <1>1, RunnerInvariant, PTL

\* Who writes the start gate.
LEMMA GateMoves ==
  ASSUME Next
  PROVE  UNCHANGED gate \/ CreateHeldGate \/ ReleaseTargetStartGate \/ CloseNeverReleased
  BY DEF Next, Runner, Enter, Recover, Crash, WorkerWrites, Acquire, ProvisionAttemptWorkspace,
     ContainFailure, ResolveExecutionContext, CreateBoundary, BeginImplementing,
     ReconstructSupervised, StartTarget, SpawnError, TargetEnds, PersistProcessChain,
     ChainPersistenceSwallowed, CaptureIdentity, IdentityFails, SupervisedBranch,
     CaptureImplementation, BeginReview, DispatchReviewer, ReviewerFails, Review, Remediate,
     RemediationFails, BeginRemediation, RecordRemediation, CaptureRemediation,
     ReviewAfterRemediation, LoopReview, BeginVerification, Verify, RunGate, BeginConverging,
     FinalizeAttribution, BeginAttemptCleanup, AdvanceTicketToCleanupPending, BeginLeaseCleanup,
     KillAndMintDeath, SealTargetProofSet, MintFailureCleanup, MintCleanupEligibility,
     BindIdentity, EvaluateOracle, CreatePromotionIntent, MintPromotionCleanup, owned, started,
     work, decided, world

\* What one step leaves alone of the decisions taken.
Final ==
  /\ attribution # NoCandidate => attribution' = attribution
  /\ oracle # "none" => oracle' = oracle
  /\ gate \in {"released", "closed_never_released"} => gate' = gate
  /\ Len(reviews') >= Len(reviews)
  /\ \A i \in DOMAIN reviews : reviews'[i] = reviews[i]

\* No step rewrites an attribution, a decision of the oracle, a release or a review.
THEOREM FinalDecisions == Spec => DecisionsFinal
<1>1. ASSUME RunnerInv, [Next]_vars
      PROVE  [Final]_vars
  <2> SUFFICES ASSUME Next PROVE Final
    BY <1>1
  <2>0. /\ reviews \in Seq([verdict : {"accepted", "rejected"}, tree : Trees]) /\ RunnerTypeOK
        /\ ForwardInv /\ GateInv
    BY <1>1 DEF RunnerInv, CoreInv, RunnerTypeOK
  <2>a. Len(reviews) \in Nat /\ DOMAIN reviews = 1 .. Len(reviews)
    BY <2>0
  <2>1. attribution # NoCandidate => attribution' = attribution
    BY DecisionFrame
    DEF DispatchReviewer, Review, LoopReview, CaptureIdentity, RunGate, FinalizeAttribution,
        PersistCommitAttribution, MintCleanupEligibility, BindIdentity, EvaluateOracle, work
  <2>2. oracle # "none" => oracle' = oracle
    BY <2>0, DecisionFrame
    DEF DispatchReviewer, Review, LoopReview, CaptureIdentity, RunGate, FinalizeAttribution,
        MintCleanupEligibility, BindIdentity, EvaluateOracle, ForwardInv, decided
  <2>3. gate \in {"released", "closed_never_released"} => gate' = gate
    BY <2>0, GateMoves DEF CreateHeldGate, ReleaseTargetStartGate, CloseNeverReleased, GateInv
  <2>4. Len(reviews') >= Len(reviews) /\ \A i \in DOMAIN reviews : reviews'[i] = reviews[i]
    <3>1. CASE UNCHANGED reviews
      BY <2>a, <3>1
    <3>2. ASSUME NEW cycle \in Nat, NEW t \in InScope, RecordReview(cycle, t)
          PROVE  /\ Len(reviews') >= Len(reviews)
                 /\ \A i \in DOMAIN reviews : reviews'[i] = reviews[i]
      <4>1. /\ Len(reviews') = Len(reviews) + 1
            /\ \A i \in 1 .. Len(reviews) : reviews'[i] = reviews[i]
        BY <2>0, <3>2, RecordReviewFacts
      <4> QED
        BY <2>a, <4>1
    <3>3. CASE Review
      BY <3>1, <3>2, <3>3 DEF Review, Reviewable
    <3>4. CASE LoopReview
      <4>1. r.cycle + 1 \in Nat
        BY <2>0 DEF RunnerTypeOK, Memory
      <4> QED
        BY <2>0, <3>1, <3>2, <3>4, <4>1, LoopReviewFacts
    <3> QED
      BY <3>1, <3>3, <3>4, DecisionFrame
      DEF DispatchReviewer, CaptureIdentity, RunGate, FinalizeAttribution,
          MintCleanupEligibility, BindIdentity, EvaluateOracle, work
  <2> QED
    BY <2>1, <2>2, <2>3, <2>4 DEF Final
<1>2. DecisionsFinal <=> [][Final]_vars
  BY DEF DecisionsFinal, Final
<1> QED
  BY <1>1, <1>2, RunnerInvariant, PTL DEF Spec
=============================================================================
