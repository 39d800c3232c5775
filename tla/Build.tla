------------------------------- MODULE Build -------------------------------
(***************************************************************************)
(* rickgent build and rickgent pipeline: the gates, the allocation of a    *)
(* run or the resumption of the latest one, the queue that hands each      *)
(* ticket's attempt to the AttemptRunner, the accounting, the delivery     *)
(* condition and the verdict.  Several builds of one repository may run at *)
(* once, and each may die at any step; only the rows survive.              *)
(*                                                                         *)
(* One run is followed: a fresh build that finds a run would allocate      *)
(* another one, whose tickets are its own.  Of the AttemptRunner only what *)
(* it leaves in the rows is kept: a lease, cleanup, one terminal record.   *)
(***************************************************************************)
EXTENDS Integers, Sequences, FiniteSets, TLC

CONSTANTS
  Builders,     \* processes that may run a build
  N,            \* tickets of the plan
  MaxAttempts,  \* budgets.max_attempts of each ticket
  MaxBuilds,    \* bound: builds started
  MaxCrashes    \* bound: builds that die

ASSUME BuildAssumption ==
  /\ N \in Nat \ {0} /\ MaxAttempts \in [1 .. N -> Nat \ {0}]
  /\ MaxBuilds \in Nat /\ MaxCrashes \in Nat

Tickets == 1 .. N   \* in plan order

VARIABLES
  run,       \* the run: none, or allocated
  ticket,    \* run_tickets.state
  attempts,  \* the attempts of each ticket: state, terminal record
  b,         \* what each build holds in memory
  starts,    \* builds started
  crashes    \* builds that died

rows == <<run, ticket, attempts>>
vars == <<rows, b, starts, crashes>>

\* Issue classes by precedence.
PRIMARY_PRECEDENCE ==
  <<"cleanup", "infrastructure", "verification", "execution",
    "capability_unavailable", "input_contract">>

Classes == {PRIMARY_PRECEDENCE[i] : i \in DOMAIN PRIMARY_PRECEDENCE}

\* aggregateRunOutcome: success without an issue, else the first class.
AggregateRunOutcome(issues) ==
  IF issues = {} THEN "success"
  ELSE LET i == CHOOSE i \in DOMAIN PRIMARY_PRECEDENCE :
                  /\ PRIMARY_PRECEDENCE[i] \in issues
                  /\ \A j \in 1 .. i - 1 : PRIMARY_PRECEDENCE[j] \notin issues
       IN PRIMARY_PRECEDENCE[i]

\* An attempt in state "working" owns a lease; "planned" has no side effect.
AttemptStates == {"planned", "working", "cleanup_pending", "failed_clean"}
Records == {"none", "promotion", "failure"}
Planned == [state |-> "planned", record |-> "none"]

Actions == {"none", "complete", "resume_attempt", "allocate_retry",
            "await_reconciliation"}
NoRow == [n |-> 0, state |-> "none", ticket |-> "planned"]

Ended == [pc |-> "idle", resume |-> FALSE, i |-> 1, seen |-> [t \in Tickets |-> NoRow],
          plan |-> [t \in Tickets |-> "none"], n |-> [t \in Tickets |-> 0],
          activates |-> {}, queue |-> <<>>, entry |-> [t \in Tickets |-> "none"],
          whole |-> {}, done |-> 0, failed |-> 0, recovered |-> 0, issues |-> {},
          delivering |-> FALSE, verdict |-> "none"]

BuildTypeOK ==
  /\ run \in {"none", "allocated"}
  /\ ticket \in [Tickets -> {"planned", "active", "cleanup_pending"}]
  /\ \A t \in Tickets :
       /\ Len(attempts[t]) <= MaxAttempts[t]
       /\ \A k \in DOMAIN attempts[t] :
            attempts[t][k] \in [state : AttemptStates, record : Records]
  /\ \A p \in Builders :
       /\ b[p].pc \in {"idle", "gates", "plan", "orphan", "retry", "probe", "enqueue",
                       "drain", "running", "account", "deliver", "finish", "cleanup"}
       /\ b[p].plan \in [Tickets -> Actions]
       /\ \A t \in Tickets : b[p].n[t] \in 0 .. Len(attempts[t])
       /\ b[p].entry \in [Tickets -> {"none", "completed", "failed", "unrun"}]
       /\ b[p].done + b[p].failed + b[p].recovered <= 2 * N
       /\ b[p].issues \subseteq Classes
       /\ b[p].verdict \in Classes \cup {"none", "success", "threw"}
  /\ starts \in 0 .. MaxBuilds /\ crashes \in 0 .. MaxCrashes

Init ==
  /\ run = "none"
  /\ ticket = [t \in Tickets |-> "planned"]
  /\ attempts = [t \in Tickets |-> <<>>]
  /\ b = [p \in Builders |-> Ended]
  /\ starts = 0 /\ crashes = 0


-----------------------------------------------------------------------------
(* Starting, ending, dying.                                                *)

\* What the build holds in memory from now on.
Becomes(p, m) == b' = [b EXCEPT ![p] = m]

\* finishBuild: the verdict is the primary class of the issues.
FinishBuild(p, issues) ==
  Becomes(p, [Ended EXCEPT !.resume = b[p].resume, !.delivering = b[p].delivering,
                           !.verdict = AggregateRunOutcome(issues)])

\* A fresh build needs no run in this model; --resume takes whatever there is.
StartBuild(p, resume) ==
  /\ b[p].pc = "idle" /\ starts < MaxBuilds
  /\ resume \/ run = "none"
  /\ starts' = starts + 1
  /\ Becomes(p, [Ended EXCEPT !.pc = "gates", !.resume = resume])
  /\ UNCHANGED <<rows, crashes>>

Crash(p) ==
  /\ b[p].pc # "idle" /\ crashes < MaxCrashes
  /\ crashes' = crashes + 1
  /\ Becomes(p, [Ended EXCEPT !.verdict = "threw"])
  /\ UNCHANGED <<rows, starts>>

\* The ticket contract, PRD and plan gates: refused before anything is stored.
PlanRefused(p) ==
  /\ b[p].pc = "gates"
  /\ \E class \in {"input_contract", "infrastructure", "execution"} : FinishBuild(p, {class})
  /\ UNCHANGED <<rows, starts, crashes>>

\* verifyPolicyAttachment: a template that lacks a required policy.
PolicyAttachmentRefused(p) ==
  /\ b[p].pc = "gates"
  /\ FinishBuild(p, {"verification"})
  /\ UNCHANGED <<rows, starts, crashes>>

\* The store does not open, legacy state blocks it, or HEAD is unreadable.
StateAuthorityRefused(p) ==
  /\ b[p].pc = "gates"
  /\ \E class \in {"input_contract", "infrastructure"} : FinishBuild(p, {class})
  /\ UNCHANGED <<rows, starts, crashes>>

AllocateFreshRun(p) ==
  /\ b[p].pc = "gates" /\ ~b[p].resume /\ run = "none"
  /\ run' = "allocated"
  /\ Becomes(p, [b[p] EXCEPT !.pc = "probe"])
  /\ UNCHANGED <<ticket, attempts, starts, crashes>>

\* Another build was first: this one allocates a run of its own, not followed.
OtherRun(p) ==
  /\ b[p].pc = "gates" /\ ~b[p].resume /\ run # "none"
  /\ Becomes(p, Ended)
  /\ UNCHANGED <<rows, starts, crashes>>

-----------------------------------------------------------------------------
(* Resume: one snapshot of the rows, then a plan per ticket.               *)

Latest(t) ==
  IF attempts[t] = <<>> THEN [NoRow EXCEPT !.ticket = ticket[t]]
  ELSE [n |-> Len(attempts[t]), state |-> attempts[t][Len(attempts[t])].state,
        ticket |-> ticket[t]]

\* selectCompatibleResume of the latest run; without one the resume gate is hit.
SelectCompatibleResume(p) ==
  /\ b[p].pc = "gates" /\ b[p].resume
  /\ IF run = "none" THEN FinishBuild(p, {"input_contract"})
     ELSE Becomes(p, [b[p] EXCEPT !.pc = "plan", !.seen = [t \in Tickets |-> Latest(t)]])
  /\ UNCHANGED <<rows, starts, crashes>>

\* The plan of ticket b[p].i is settled: go to the next one.
Decide(p, action, n) ==
  Becomes(p, [b[p] EXCEPT !.pc = IF b[p].i = N THEN "probe" ELSE "plan",
                          !.i = IF @ = N THEN 1 ELSE @ + 1,
                          !.seen[b[p].i] = NoRow,
                          !.plan[b[p].i] = action,
                          !.n[b[p].i] = n])

\* No context, no lease, no process: planned, or an orphan already cleaned up.
NoSideEffects(a) ==
  \/ a.state = "planned"
  \/ a.state = "failed_clean" /\ a.record = "none"

\* detectOrphanedPlannedAttempt: the snapshot's planned retry, the rows of now.
DetectOrphanedPlannedAttempt(t, s) ==
  s.state = "planned" /\ s.n > 1 /\ NoSideEffects(attempts[t][s.n])

\* A failed attempt of a ticket in cleanup leads to a retry.
Retryable(s) == s.state = "failed_clean" /\ s.ticket = "cleanup_pending"

\* planTicketRecovery, for the branches that write nothing.  A ticket without an
\* attempt is "complete", and so is one whose attempt is terminal.
PlanTicketRecovery(p) ==
  LET t == b[p].i  s == b[p].seen[t] IN
  /\ b[p].pc = "plan"
  /\ \/ /\ s.n > 0 /\ DetectOrphanedPlannedAttempt(t, s)
        /\ Becomes(p, [b[p] EXCEPT !.pc = "orphan"])
     \/ /\ s.n > 0 /\ ~DetectOrphanedPlannedAttempt(t, s) /\ Retryable(s)
        /\ IF Len(attempts[t]) > s.n THEN Decide(p, "resume_attempt", s.n)
           ELSE Becomes(p, [b[p] EXCEPT !.pc = "retry"])
     \/ /\ s.n = 0 \/ (s.state = "failed_clean" /\ ~Retryable(s))
        /\ Decide(p, "complete", 0)
     \/ /\ s.n > 0 /\ ~DetectOrphanedPlannedAttempt(t, s) /\ s.state # "failed_clean"
        /\ Decide(p, "resume_attempt", s.n)
  /\ UNCHANGED <<rows, starts, crashes>>

\* recoverOrphanedPlannedAttempt: planned to cleanup_pending to failed_clean in
\* one transaction; it replays, and refuses an attempt that was activated since.
RecoverOrphan(p) ==
  LET t == b[p].i  n == b[p].seen[t].n IN
  /\ b[p].pc = "orphan"
  /\ IF NoSideEffects(attempts[t][n])
     THEN /\ attempts' = [attempts EXCEPT ![t][n].state = "failed_clean"]
          /\ ticket' = IF attempts[t][n].state = "planned" /\ ticket[t] = "active"
                       THEN [ticket EXCEPT ![t] = "cleanup_pending"] ELSE ticket
          /\ Becomes(p, [b[p] EXCEPT !.pc = "retry"])
     ELSE FinishBuild(p, {"infrastructure"}) /\ UNCHANGED <<ticket, attempts>>
  /\ UNCHANGED <<run, starts, crashes>>

\* Mutant: whatever the latest attempt's state, a retry may follow it.
RetryOfAnything(t) ==
  /\ attempts[t] # <<>> /\ Len(attempts[t]) < MaxAttempts[t]
  /\ ticket[t] = "cleanup_pending"

\* allocateRetryAttempt selects the ticket's latest attempt again.
RetrySelection(t) ==
  /\ attempts[t] # <<>> /\ Len(attempts[t]) < MaxAttempts[t]
  /\ ticket[t] = "cleanup_pending"
  /\ attempts[t][Len(attempts[t])].state = "failed_clean"

\* A refused retry leaves an orphan's ticket to reconciliation, any other done.
AllocateRetry(p) ==
  LET t == b[p].i  s == b[p].seen[t] IN
  /\ b[p].pc = "retry"
  /\ IF RetrySelection(t)
     THEN /\ attempts' = [attempts EXCEPT ![t] = Append(@, Planned)]
          /\ Decide(p, "allocate_retry", Len(attempts[t]) + 1)
     ELSE /\ Decide(p, IF s.state = "planned" THEN "await_reconciliation" ELSE "complete", 0)
          /\ UNCHANGED attempts
  /\ UNCHANGED <<run, ticket, starts, crashes>>

-----------------------------------------------------------------------------
(* The containment probe, after the rows were written, and the queue.      *)

ProbeContainment(p) ==
  /\ b[p].pc = "probe"
  /\ \/ Becomes(p, [b[p] EXCEPT !.pc = "enqueue"])
     \/ FinishBuild(p, {"infrastructure"})
  /\ UNCHANGED <<rows, starts, crashes>>

\* The next ticket of the loop over the tickets, with memory m.
Next1(p, m) ==
  Becomes(p, [m EXCEPT !.pc = IF m.i = N THEN "drain" ELSE "enqueue",
                       !.i = IF @ = N THEN 1 ELSE @ + 1])

Enqueue(p, n, activates) ==
  Next1(p, [b[p] EXCEPT !.queue = Append(@, b[p].i), !.n[b[p].i] = n,
                        !.activates = IF activates THEN @ \cup {b[p].i} ELSE @])

EnqueueInitial(p) ==
  /\ b[p].pc = "enqueue" /\ ~b[p].resume
  /\ attempts[b[p].i] = <<>>
  /\ attempts' = [attempts EXCEPT ![b[p].i] = <<Planned>>]
  /\ Enqueue(p, 1, TRUE)
  /\ UNCHANGED <<run, ticket, starts, crashes>>

\* recoverAttempt: an attempt with a terminal record of any kind is complete; one
\* without a lease starts over; any other re-enters behind the acquisition.
EnqueueResumed(p) ==
  LET t == b[p].i  n == b[p].n[t] IN
  /\ b[p].pc = "enqueue" /\ b[p].resume
  /\ \/ /\ b[p].plan[t] = "complete"
        /\ Next1(p, [b[p] EXCEPT !.done = @ + 1])
     \/ /\ b[p].plan[t] = "await_reconciliation"
        /\ Next1(p, b[p])
     \/ /\ b[p].plan[t] = "allocate_retry"
        /\ Enqueue(p, n, TRUE)
     \/ /\ b[p].plan[t] = "resume_attempt" /\ attempts[t][n].record # "none"
        /\ Next1(p, [b[p] EXCEPT !.done = @ + 1, !.whole = @ \cup {t}])
     \/ /\ b[p].plan[t] = "resume_attempt" /\ attempts[t][n].record = "none"
        /\ Enqueue(p, n, attempts[t][n].state \in {"planned", "failed_clean"})
     \/ /\ b[p].plan[t] = "resume_attempt"   \* the database could not be read
        /\ Next1(p, [b[p] EXCEPT !.failed = @ + 1, !.issues = @ \cup {"infrastructure"}])
  /\ UNCHANGED <<rows, starts, crashes>>

-----------------------------------------------------------------------------
(* The drain: one runAttempt at a time.                                    *)

Head1(p) == b[p].queue[b[p].i]

\* Mutant: the drain goes on after an entry whose ownership is not released.
DrainAll(p, result, released) ==
  LET last == b[p].i = Len(b[p].queue) IN
  Becomes(p, [b[p] EXCEPT !.pc = IF last THEN "account" ELSE "drain",
                          !.i = IF last THEN 1 ELSE @ + 1,
                          !.entry[Head1(p)] = result])

\* An entry settles; the drain stops when ownership is not proven released.
Settle(p, result, released) ==
  LET last == b[p].i = Len(b[p].queue) \/ ~released IN
  Becomes(p, [b[p] EXCEPT !.pc = IF last THEN "account" ELSE "drain",
                          !.i = IF last THEN 1 ELSE @ + 1,
                          !.entry[Head1(p)] = result])

DrainEmpty(p) ==
  /\ b[p].pc = "drain" /\ b[p].queue = <<>>
  /\ Becomes(p, [b[p] EXCEPT !.pc = "account"])
  /\ UNCHANGED <<rows, starts, crashes>>

\* dispatchFn throws before it calls the runner, for instance over a directory
\* that is gone: the queue's own entry says nothing of the ownership of the
\* attempt, which may be a resumed one, and the drain goes on.
DispatchThrows(p) ==
  /\ b[p].pc = "drain" /\ b[p].queue # <<>>
  /\ Settle(p, "unrun", TRUE)
  /\ UNCHANGED <<rows, starts, crashes>>

\* runAttempt activates run and ticket unless it re-enters behind that step; a
\* ticket in cleanup is refused, the runner throws and the entry fails.
Dispatch(p) ==
  LET t == Head1(p) IN
  /\ b[p].pc = "drain" /\ b[p].queue # <<>>
  /\ IF t \in b[p].activates /\ ticket[t] \notin {"planned", "active"}
     THEN Settle(p, "failed", FALSE) /\ UNCHANGED ticket
     ELSE /\ ticket' = IF t \in b[p].activates THEN [ticket EXCEPT ![t] = "active"]
                       ELSE ticket
          /\ Becomes(p, [b[p] EXCEPT !.pc = "running"])
  /\ UNCHANGED <<run, attempts, starts, crashes>>

\* The runner's effects on the rows of its attempt, one transaction each: the
\* lease, the attempt's cleanup, the ticket's cleanup, the terminal record.
RunnerWrites(p) ==
  LET t == Head1(p)  n == b[p].n[t]  a == attempts[t][n] IN
  /\ b[p].pc = "running"
  /\ \/ /\ a.state = "planned"
        /\ attempts' = [attempts EXCEPT ![t][n].state = "working"]
        /\ UNCHANGED ticket
     \/ /\ a.state = "working"
        /\ attempts' = [attempts EXCEPT ![t][n].state = "cleanup_pending"]
        /\ UNCHANGED ticket
     \/ /\ a.state = "cleanup_pending" /\ ticket[t] = "active"
        /\ ticket' = [ticket EXCEPT ![t] = "cleanup_pending"]
        /\ UNCHANGED attempts
     \/ /\ a.state = "cleanup_pending" /\ ticket[t] = "cleanup_pending"
        /\ a.record = "none"
        /\ \E kind \in {"promotion", "failure"} :
             attempts' = [attempts EXCEPT ![t][n].record = kind]
        /\ UNCHANGED ticket
  /\ UNCHANGED <<run, b, starts, crashes>>

\* ownershipReleased of the entry.
OwnershipReleased(result) == result \in {"succeeded", "failed_clean"}

\* The runner returns with the record it left, or throws anywhere.
RunnerReturns(p) ==
  LET t == Head1(p)  a == attempts[t][b[p].n[t]] IN
  /\ b[p].pc = "running"
  /\ \E result \in {"succeeded", "failed_clean", "infrastructure_failed", "threw"} :
       /\ result = "succeeded" => a.record = "promotion"
       /\ result \in {"failed_clean", "infrastructure_failed"} => a.record = "failure"
       /\ Settle(p, IF result = "succeeded" THEN "completed" ELSE "failed",
                 OwnershipReleased(result))
  /\ UNCHANGED <<rows, starts, crashes>>

-----------------------------------------------------------------------------
(* Accounting, delivery, verdict.                                          *)

Queued(p) == {b[p].queue[k] : k \in DOMAIN b[p].queue}

\* Mutant: a ticket the drain never reached is not counted.
SkippedFailure(p) ==
  {t \in Tickets : t \notin Queued(p) /\ b[p].plan[t] \in {"resume_attempt", "allocate_retry"}
                   /\ t \notin b[p].whole} \cup
  {t \in Queued(p) : b[p].entry[t] = "failed"}

\* Tickets counted as failed after the drain: failed ones, queued ones without
\* an entry, and unqueued ones that no branch explains.
CountedFailed(p) ==
  {t \in Tickets : t \notin Queued(p) /\ b[p].plan[t] \in {"resume_attempt", "allocate_retry"}
                   /\ t \notin b[p].whole} \cup
  {t \in Queued(p) : b[p].entry[t] # "completed"}

Account(p) ==
  LET bad == Cardinality(CountedFailed(p))
      done == b[p].done + Cardinality({t \in Queued(p) : b[p].entry[t] = "completed"})
      failed == b[p].failed + bad
      awaiting == {t \in Tickets \ Queued(p) : b[p].plan[t] = "await_reconciliation"}
  IN
  /\ b[p].pc = "account"
  /\ Becomes(p, [Ended EXCEPT
       !.pc = "deliver", !.resume = b[p].resume,
       !.done = done, !.failed = failed, !.recovered = Cardinality(awaiting),
       !.issues = b[p].issues
                    \cup (IF bad > 0 THEN {"infrastructure"} ELSE {})
                    \cup (IF done = 0 \/ failed > 0 THEN {"execution"} ELSE {})])
  /\ UNCHANGED <<rows, starts, crashes>>

\* The delivery flow runs when it is configured, something is done and nothing
\* failed; what it throws is an issue, what it reports as incomplete is not.
Deliver(p) ==
  /\ b[p].pc = "deliver"
  /\ \/ /\ b[p].done > 0 /\ b[p].failed = 0
        /\ \E thrown \in {{}, {"infrastructure"}} :
             Becomes(p, [b[p] EXCEPT !.pc = "finish", !.delivering = TRUE,
                                     !.issues = @ \cup thrown])
     \/ Becomes(p, [b[p] EXCEPT !.pc = "finish"])   \* not configured, or not to be delivered
  /\ UNCHANGED <<rows, starts, crashes>>

\* A build ends here; a pipeline runs the cleanup chain first.
Finish(p) ==
  /\ b[p].pc = "finish"
  /\ \/ FinishBuild(p, b[p].issues)
     \/ Becomes(p, [b[p] EXCEPT !.pc = "cleanup"])
  /\ UNCHANGED <<rows, starts, crashes>>

\* reapOrphanedWorkerProcs and reconcile write no row: only their errors count.
RunCleanup(p) ==
  /\ b[p].pc = "cleanup"
  /\ \E errors \in {{}, {"cleanup"}} : FinishBuild(p, b[p].issues \cup errors)
  /\ UNCHANGED <<rows, starts, crashes>>

-----------------------------------------------------------------------------
(* The store's own services, which no build calls.                         *)

\* A client of CleanupService settles a failed attempt: markAttemptFailedClean.
SettleFailure(t) ==
  /\ attempts[t] # <<>>
  /\ LET n == Len(attempts[t]) IN
     /\ attempts[t][n].state = "cleanup_pending" /\ attempts[t][n].record = "failure"
     /\ attempts' = [attempts EXCEPT ![t][n].state = "failed_clean"]
  /\ UNCHANGED <<run, ticket, b, starts, crashes>>

Step(p) ==
  \/ PlanRefused(p) \/ PolicyAttachmentRefused(p) \/ StateAuthorityRefused(p)
  \/ AllocateFreshRun(p) \/ OtherRun(p)
  \/ SelectCompatibleResume(p) \/ PlanTicketRecovery(p)
  \/ RecoverOrphan(p) \/ AllocateRetry(p)
  \/ ProbeContainment(p) \/ EnqueueInitial(p) \/ EnqueueResumed(p)
  \/ DrainEmpty(p) \/ DispatchThrows(p) \/ Dispatch(p) \/ RunnerReturns(p)
  \/ Account(p) \/ Deliver(p) \/ Finish(p) \/ RunCleanup(p)

Next ==
  \/ \E p \in Builders :
       \/ \E resume \in BOOLEAN : StartBuild(p, resume)
       \/ Crash(p) \/ Step(p) \/ RunnerWrites(p)
  \/ \E t \in Tickets : SettleFailure(t)

Spec == Init /\ [][Next]_vars

-----------------------------------------------------------------------------
(* Properties.                                                             *)

Promoted(t) == \E k \in DOMAIN attempts[t] : attempts[t][k].record = "promotion"

\* The verdict of a fresh build is founded on the rows: it counts every planned
\* ticket, and it reports success, or starts the delivery flow, only when every
\* ticket has a promotion record, also when resumed builds of the same run write
\* between its steps (the accounting loop of executeBuildViaRunner).
VerdictIsFounded ==
  \A p \in Builders :
    /\ b[p].pc \in {"deliver", "finish", "cleanup"} =>
         b[p].done + b[p].failed + b[p].recovered >= N
    /\ ~b[p].resume /\ (b[p].verdict = "success" \/ b[p].delivering) =>
         \A t \in Tickets : Promoted(t)

\* While a build runs an attempt, every attempt whose runner it called before in
\* this drain has its terminal record: the queue stops at the first entry whose
\* ownership is not proven released (DispatchQueue.drain).
SequentialIsolation ==
  \A p \in Builders :
    b[p].pc = "running" =>
      \A k \in 1 .. b[p].i - 1 : b[p].entry[b[p].queue[k]] # "unrun" =>
        attempts[b[p].queue[k]][b[p].n[b[p].queue[k]]].record # "none"

\* A ticket has at most one attempt that is not failed clean, the latest: two
\* resumed builds that plan from the same snapshot cannot both retry a ticket
\* (planTicketRecovery against allocateRetryAttempt).
OneOpenAttempt ==
  \A t \in Tickets : \A k \in 1 .. Len(attempts[t]) - 1 :
    attempts[t][k].state = "failed_clean"

\* A resumed build that reports success has a promotion record for every ticket:
\* what the header of build.ts says of resuming (no completion is manufactured).
ResumeManufacturesNothing ==
  \A p \in Builders :
    b[p].resume /\ b[p].verdict = "success" => \A t \in Tickets : Promoted(t)
=============================================================================
