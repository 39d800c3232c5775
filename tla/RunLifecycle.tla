---------------------------- MODULE RunLifecycle ----------------------------
(***************************************************************************)
(* The rows of one run: the run, its tickets, their attempts, and the      *)
(* promotion intents that would move the run's delivery ref.  Every action *)
(* is one BEGIN IMMEDIATE transaction of StateStore, called by the         *)
(* AttemptRunner, by recovery, or by a holder of TransitionAuthority or    *)
(* PromotionAuthority; several processes may call at once.                 *)
(*                                                                         *)
(* The eight states of an attempt between planned and cleanup_pending are  *)
(* one state, "working".  Of an attempt's ownership only the state of the  *)
(* newest lease is kept: AttemptOwnership models the rest.  Versions,      *)
(* idempotency keys and evidence references are left out: a replayed or    *)
(* refused command is a stuttering step.                                   *)
(***************************************************************************)
EXTENDS Integers

CONSTANTS
  Tickets,      \* the tickets planned for the run
  MaxAttempts   \* budgets.max_attempts of each ticket's contract

ASSUME BudgetAssumption == MaxAttempts \in [Tickets -> Nat \ {0}]

\* An attempt is its ticket and its number.
Attempts == UNION {{t} \X (1 .. MaxAttempts[t]) : t \in Tickets}
TicketOf(a) == a[1]
Number(a) == a[2]

\* Commits the delivery ref may name: the run's baseline, the candidate of an
\* attempt, and a commit of somebody else.
Initial == <<"initial">>
Elsewhere == <<"foreign">>
Candidate(a) == <<"candidate", TicketOf(a), Number(a)>>
Oids == {Initial, Elsewhere} \cup {Candidate(a) : a \in Attempts}

VARIABLES
  run,       \* runs: state, current_delivery_oid, promotion_sequence
  ticket,    \* run_tickets.state
  attempt,   \* attempts: state, delivery_baseline_oid
  lease,     \* state of the attempt's newest ownership generation
  context,   \* execution_contexts of the attempt: none, some, one for cleanup
  work,      \* commit attribution and oracle decision of the attempt
  record,    \* cleanup_records of the attempt, and the delivery OID that the
             \* record of its lease's end observed
  intent,    \* promotion_intents: state, promotion_sequence, expected_old_oid
  receipt,   \* attempts with a promotion_cleanup_records row
  mirroring, \* runners between the attempt's cleanup step and the ticket's
  ref        \* what Git says of the delivery ref

rows == <<run, ticket, attempt, lease, context, work, record, intent, receipt>>
vars == <<rows, mirroring, ref>>

Terminal == {"failed_clean", "quarantined", "verified"}
OpenAttempt == {"planned", "working"}
OpenLease == {"live", "cleanup_pending"}
InFlight == {"intent_recorded", "ref_observed_old", "ref_observed_candidate"}

\* Cleanup records by outcome (failed_clean is "released"); a partial one does
\* not allow the release.
RecordKinds == {"partial", "released", "quarantined", "verified"}
NoRecord == [kinds |-> {}, oid |-> Initial]
NoIntent == [state |-> "none", seq |-> 0, old |-> Initial]

LifecycleTypeOK ==
  /\ run \in [state : {"planned", "active", "cleanup_pending", "failed",
                       "ready_for_delivery"},
              oid : Oids, seq : Nat]
  /\ ticket \in [Tickets -> {"planned", "active", "cleanup_pending", "failed",
                             "quarantined", "ready_for_delivery"}]
  /\ attempt \in [Attempts -> [state : OpenAttempt \cup Terminal \cup
                                       {"absent", "cleanup_pending"},
                               base : Oids]]
  /\ lease \in [Attempts -> OpenLease \cup {"none", "released", "quarantined"}]
  /\ context \in [Attempts -> {"none", "some", "cleanup"}]
  /\ work \in [Attempts -> {"none", "committed", "accepted"}]
  /\ record \in [Attempts -> [kinds : SUBSET RecordKinds, oid : Oids]]
  /\ intent \in [Attempts -> [state : InFlight \cup {"none", "conflicted", "finalized"},
                              seq : Nat, old : Oids]]
  /\ receipt \subseteq Attempts
  /\ mirroring \subseteq Attempts
  /\ ref \in Oids

Init ==
  /\ run = [state |-> "planned", oid |-> Initial, seq |-> 0]
  /\ ticket = [t \in Tickets |-> "planned"]
  /\ attempt = [a \in Attempts |-> [state |-> "absent", base |-> Initial]]
  /\ lease = [a \in Attempts |-> "none"]
  /\ context = [a \in Attempts |-> "none"]
  /\ work = [a \in Attempts |-> "none"]
  /\ record = [a \in Attempts |-> NoRecord]
  /\ intent = [a \in Attempts |-> NoIntent]
  /\ receipt = {}
  /\ mirroring = {}
  /\ ref = Initial

-----------------------------------------------------------------------------
(* Allocation and activation.                                              *)

Allocated(t) == {a \in Attempts : TicketOf(a) = t /\ attempt[a].state # "absent"}
Latest(a) == /\ attempt[a].state # "absent"
             /\ \A b \in Allocated(TicketOf(a)) : Number(b) <= Number(a)

NewAttempt(a) ==
  attempt' = [attempt EXCEPT ![a] = [state |-> "planned", base |-> run.oid]]

AllocateInitialAttempt(t) ==
  /\ run.state \in {"planned", "active"}
  /\ ticket[t] = "planned" /\ Allocated(t) = {}
  /\ NewAttempt(<<t, 1>>)
  /\ UNCHANGED <<run, ticket, lease, context, work, record, intent, receipt,
                 mirroring, ref>>

\* Mutant: any closed latest attempt may be retried.
RetrySelectionOfClosed(a) ==
  /\ Latest(a) /\ attempt[a].state \notin OpenAttempt
  /\ ticket[TicketOf(a)] = "cleanup_pending"
  /\ Number(a) < MaxAttempts[TicketOf(a)]

\* The attempt a retry follows.
RetrySelection(a) ==
  /\ Latest(a) /\ attempt[a].state = "failed_clean"
  /\ ticket[TicketOf(a)] = "cleanup_pending"
  /\ \A b \in Allocated(TicketOf(a)) : attempt[b].state # "quarantined"
  /\ Number(a) < MaxAttempts[TicketOf(a)]

AllocateRetryAttempt(a) ==
  /\ run.state \in {"active", "cleanup_pending"}
  /\ RetrySelection(a)
  /\ NewAttempt(<<TicketOf(a), Number(a) + 1>>)
  /\ UNCHANGED <<run, ticket, lease, context, work, record, intent, receipt,
                 mirroring, ref>>

ActivateRun(a) ==
  /\ run.state = "planned" /\ attempt[a].state # "absent"
  /\ run' = [run EXCEPT !.state = "active"]
  /\ UNCHANGED <<ticket, attempt, lease, context, work, record, intent, receipt,
                 mirroring, ref>>

ActivateTicket(a) ==
  /\ ticket[TicketOf(a)] = "planned" /\ attempt[a].state # "absent"
  /\ ticket' = [ticket EXCEPT ![TicketOf(a)] = "active"]
  /\ UNCHANGED <<run, attempt, lease, context, work, record, intent, receipt,
                 mirroring, ref>>

ActivateRetryTicket(a) ==
  /\ ticket[TicketOf(a)] = "cleanup_pending"
  /\ attempt[a].state = "planned" /\ Number(a) > 1
  /\ ticket' = [ticket EXCEPT ![TicketOf(a)] = "active"]
  /\ UNCHANGED <<run, attempt, lease, context, work, record, intent, receipt,
                 mirroring, ref>>

-----------------------------------------------------------------------------
(* The attempt at work.                                                    *)

\* Neither a terminal attempt nor a run past active can mint a context.
PersistContext(a, kind) ==
  /\ attempt[a].state \notin Terminal \cup {"absent"}
  /\ run.state \in {"planned", "active"}
  /\ context[a] # "cleanup"
  /\ context' = [context EXCEPT ![a] = kind]
  /\ UNCHANGED <<run, ticket, attempt, lease, work, record, intent, receipt,
                 mirroring, ref>>

Acquire(a) ==
  /\ run.state = "active" /\ ticket[TicketOf(a)] = "active"
  /\ attempt[a].state = "planned" /\ attempt[a].base = run.oid
  /\ lease[a] = "none"
  /\ lease' = [lease EXCEPT ![a] = "live"]
  /\ UNCHANGED <<run, ticket, attempt, context, work, record, intent, receipt,
                 mirroring, ref>>

\* The runner starts what it acquired; the engine's compare-and-set looks at
\* the attempt's state only.
StartAttempt(a) ==
  /\ attempt[a].state = "planned" /\ lease[a] # "none"
  /\ attempt' = [attempt EXCEPT ![a].state = "working"]
  /\ UNCHANGED <<run, ticket, lease, context, work, record, intent, receipt,
                 mirroring, ref>>

FinalizeCommit(a) ==
  /\ attempt[a].state = "working" /\ work[a] = "none"
  /\ run.state = "active" /\ ticket[TicketOf(a)] = "active"
  /\ lease[a] = "live" /\ context[a] # "none"
  /\ ref = attempt[a].base
  /\ work' = [work EXCEPT ![a] = "committed"]
  /\ UNCHANGED <<run, ticket, attempt, lease, context, record, intent, receipt,
                 mirroring, ref>>

-----------------------------------------------------------------------------
(* Cleanup of an attempt and of its ticket.                                *)

\* beginCleanup by the owner, or the generation that stale recovery opens.
BeginLeaseCleanup(a) ==
  /\ lease[a] = "live"
  /\ lease' = [lease EXCEPT ![a] = "cleanup_pending"]
  /\ UNCHANGED <<run, ticket, attempt, context, work, record, intent, receipt,
                 mirroring, ref>>

\* First half of #beginCleanupPhase, skipped by a runner that finds the
\* attempt in cleanup_pending.
BeginAttemptCleanup(a) ==
  /\ attempt[a].state \in OpenAttempt /\ context[a] # "none"
  /\ attempt' = [attempt EXCEPT ![a].state = "cleanup_pending"]
  /\ mirroring' = mirroring \cup {a}
  /\ UNCHANGED <<run, ticket, lease, context, work, record, intent, receipt, ref>>

\* The update of a ticket that asks only whether it is active.
TicketToCleanup(t) ==
  ticket' = IF ticket[t] = "active" THEN [ticket EXCEPT ![t] = "cleanup_pending"]
                                    ELSE ticket

\* Second half of #beginCleanupPhase.
AdvanceTicketToCleanupPending(a) ==
  /\ a \in mirroring
  /\ TicketToCleanup(TicketOf(a))
  /\ mirroring' = mirroring \ {a}
  /\ UNCHANGED <<run, attempt, lease, context, work, record, intent, receipt, ref>>

\* The orchestrator dies between the two halves.
RunnerCrash(a) ==
  /\ a \in mirroring
  /\ mirroring' = mirroring \ {a}
  /\ UNCHANGED <<rows, ref>>

\* TransitionAuthority.beginTicketCleanup.
BeginTicketCleanup(a) ==
  /\ ticket[TicketOf(a)] = "active" /\ attempt[a].state = "cleanup_pending"
  /\ ticket' = [ticket EXCEPT ![TicketOf(a)] = "cleanup_pending"]
  /\ UNCHANGED <<run, attempt, lease, context, work, record, intent, receipt,
                 mirroring, ref>>

\* finalizeCleanup of the ownership, to released or to quarantined, writes the
\* record that the end of the lease is bound to.
FinalizeLease(a, end) ==
  /\ lease[a] = "cleanup_pending" /\ context[a] = "cleanup"
  /\ ref = run.oid
  /\ lease' = [lease EXCEPT ![a] = end]
  /\ record' = [record EXCEPT ![a] = [kinds |-> @.kinds \cup {end}, oid |-> run.oid]]
  /\ UNCHANGED <<run, ticket, attempt, context, work, intent, receipt, mirroring, ref>>

\* finalizeQuarantineOwnership writes no cleanup record.
QuarantineLease(a) ==
  /\ lease[a] = "cleanup_pending"
  /\ lease' = [lease EXCEPT ![a] = "quarantined"]
  /\ UNCHANGED <<run, ticket, attempt, context, work, record, intent, receipt,
                 mirroring, ref>>

\* A record that allows the release must agree with the newest lease, if any,
\* and be bound to its end: a released lease has that record already.
RecordCleanup(a, kind) ==
  /\ attempt[a].state = "cleanup_pending" /\ context[a] = "cleanup"
  /\ kind \notin record[a].kinds
  /\ kind \in {"released", "verified"} => lease[a] = "none"
  /\ kind = "quarantined" => lease[a] \in {"none", "quarantined"}
  /\ record' = [record EXCEPT ![a].kinds = @ \cup {kind}]
  /\ UNCHANGED <<run, ticket, attempt, lease, context, work, intent, receipt,
                 mirroring, ref>>

\* #validateTerminalAttemptOwnership for "released" and for "quarantined".
Releasable(a) == record[a].kinds \ {"partial"} # {}
CleanAttempt(a) == Releasable(a) /\ lease[a] \in {"none", "released"}
QuarantinedAttempt(a) == Releasable(a) /\ lease[a] \in {"none", "quarantined"}

MarkAttemptFailedClean(a) ==
  /\ attempt[a].state = "cleanup_pending"
  /\ CleanAttempt(a) /\ "released" \in record[a].kinds
  /\ attempt' = [attempt EXCEPT ![a].state = "failed_clean"]
  /\ UNCHANGED <<run, ticket, lease, context, work, record, intent, receipt,
                 mirroring, ref>>

QuarantineAttempt(a) ==
  /\ attempt[a].state = "cleanup_pending"
  /\ QuarantinedAttempt(a) /\ "quarantined" \in record[a].kinds
  /\ attempt' = [attempt EXCEPT ![a].state = "quarantined"]
  /\ UNCHANGED <<run, ticket, lease, context, work, record, intent, receipt,
                 mirroring, ref>>

\* No execution context, lease or process receipt was ever persisted.
NoSideEffects(a) == context[a] = "none" /\ lease[a] = "none"

\* A planned attempt whose allocation was committed and whose caller never heard
\* of it.  That planTicketRecovery calls this for retries only, is its matter.
RecoverOrphanedPlannedAttempt(a) ==
  /\ attempt[a].state = "planned" /\ NoSideEffects(a)
  /\ attempt' = [attempt EXCEPT ![a].state = "failed_clean"]
  /\ TicketToCleanup(TicketOf(a))
  /\ UNCHANGED <<run, lease, context, work, record, intent, receipt, mirroring, ref>>

FailTicket(a) ==
  /\ ticket[TicketOf(a)] = "cleanup_pending"
  /\ attempt[a].state = "failed_clean" /\ CleanAttempt(a)
  /\ ticket' = [ticket EXCEPT ![TicketOf(a)] = "failed"]
  /\ UNCHANGED <<run, attempt, lease, context, work, record, intent, receipt,
                 mirroring, ref>>

QuarantineTicket(a) ==
  /\ ticket[TicketOf(a)] = "cleanup_pending"
  /\ attempt[a].state = "quarantined" /\ QuarantinedAttempt(a)
  /\ ticket' = [ticket EXCEPT ![TicketOf(a)] = "quarantined"]
  /\ UNCHANGED <<run, attempt, lease, context, work, record, intent, receipt,
                 mirroring, ref>>

-----------------------------------------------------------------------------
(* The run.                                                                *)

RunMoves(from, to) ==
  /\ run.state \in from
  /\ run' = [run EXCEPT !.state = to]
  /\ UNCHANGED <<ticket, attempt, lease, context, work, record, intent, receipt,
                 mirroring, ref>>

BeginRunCleanup(a) ==
  attempt[a].state = "cleanup_pending" /\ RunMoves({"active"}, "cleanup_pending")

ReactivateRun(a) == CleanAttempt(a) /\ RunMoves({"cleanup_pending"}, "active")

\* Any cleanup record of any attempt of the run will do.
FailRun(a) ==
  record[a].kinds # {} /\ RunMoves({"active", "cleanup_pending"}, "failed")

-----------------------------------------------------------------------------
(* Promotion.                                                              *)

\* The oracle accepts a committed attempt whose cleanup eligibility was sealed
\* while its lease was in cleanup; a rejection changes nothing here.
EvaluateOracle(a) ==
  /\ attempt[a].state = "cleanup_pending" /\ work[a] = "committed"
  /\ lease[a] \notin {"none", "live"}
  /\ work' = [work EXCEPT ![a] = "accepted"]
  /\ UNCHANGED <<run, ticket, attempt, lease, context, record, intent, receipt,
                 mirroring, ref>>

\* The lineage createAuthorizedPromotionIntent requires of a new intent.
PromotionScope(a) ==
  /\ run.state = "active"
  /\ ticket[TicketOf(a)] = "cleanup_pending" /\ attempt[a].state = "cleanup_pending"
  /\ work[a] = "accepted" /\ attempt[a].base = run.oid
  /\ intent[a].state = "none"

\* The unique indexes of promotion_intents.
SequenceFree == \A b \in Attempts : intent[b].state # "none" => intent[b].seq # run.seq + 1
NoneInFlight == \A b \in Attempts : intent[b].state \notin InFlight

\* Mutant: the table without its unique indexes on the run.
PromotionIndexesDropped(a) == \A b \in Attempts : b = a => intent[b].state = "none"

PromotionIndexes(a) == SequenceFree /\ NoneInFlight

CreatePromotionIntent(a) ==
  /\ PromotionScope(a) /\ PromotionIndexes(a)
  /\ intent' = [intent EXCEPT
       ![a] = [state |-> "intent_recorded", seq |-> run.seq + 1, old |-> run.oid]]
  /\ UNCHANGED <<run, ticket, attempt, lease, context, work, record, receipt,
                 mirroring, ref>>

\* The runner's last step: the receipt states that the delivery ref was
\* observed at the candidate and that every resource is gone.
MintPromotionCleanup(a) ==
  /\ attempt[a].state = "cleanup_pending" /\ lease[a] = "cleanup_pending"
  /\ work[a] = "accepted" /\ intent[a].state # "none"
  /\ a \notin receipt
  /\ receipt' = receipt \cup {a}
  /\ UNCHANGED <<run, ticket, attempt, lease, context, work, record, intent,
                 mirroring, ref>>

\* Mutant: a third commit is stored under the name of the observation.
ObservedByName(a) ==
  IF ref = intent[a].old THEN "ref_observed_old"
  ELSE IF ref = Candidate(a) THEN "ref_observed_candidate"
  ELSE "ref_observed_other"

\* What an observation of the ref makes of an intent in flight.
Observed(a) ==
  IF ref = intent[a].old THEN "ref_observed_old"
  ELSE IF ref = Candidate(a) THEN "ref_observed_candidate"
  ELSE "conflicted"

ObservePromotion(a) ==
  /\ \/ intent[a].state = "intent_recorded"
     \/ intent[a].state = "ref_observed_old" /\ Observed(a) # "ref_observed_old"
     \/ intent[a].state = "ref_observed_candidate" /\ Observed(a) = "conflicted"
  /\ intent' = [intent EXCEPT ![a].state = Observed(a)]
  /\ UNCHANGED <<run, ticket, attempt, lease, context, work, record, receipt,
                 mirroring, ref>>

\* What finalization asks for before it looks at the cleanup record.
PromotionObserved(a) ==
  /\ intent[a].state = "ref_observed_candidate" /\ ref = Candidate(a)
  /\ run.state = "active" /\ run.oid = intent[a].old /\ run.seq = intent[a].seq - 1
  /\ ticket[TicketOf(a)] = "cleanup_pending" /\ attempt[a].state = "cleanup_pending"
  /\ CleanAttempt(a)

FinalizePromotion(a) ==
  /\ PromotionObserved(a)
  /\ record[a].oid = Candidate(a)
  /\ run' = [run EXCEPT !.oid = Candidate(a), !.seq = intent[a].seq]
  /\ intent' = [intent EXCEPT ![a].state = "finalized"]
  /\ attempt' = [attempt EXCEPT ![a].state = "verified"]
  /\ ticket' = [ticket EXCEPT ![TicketOf(a)] = "ready_for_delivery"]
  /\ UNCHANGED <<lease, context, work, record, receipt, mirroring, ref>>

FinalizeReadyRun ==
  /\ \A t \in Tickets : ticket[t] = "ready_for_delivery"
  /\ Tickets # {} /\ ref = run.oid
  /\ RunMoves({"active"}, "ready_for_delivery")

-----------------------------------------------------------------------------
(* Git.                                                                    *)

\* update-ref <delivery-ref> <candidate> <expected old>.
UpdateRef(a) ==
  /\ intent[a].state \in InFlight /\ ref = intent[a].old
  /\ ref' = Candidate(a)
  /\ UNCHANGED <<rows, mirroring>>

\* Somebody else moves the delivery ref, or puts it back.
RefMoves ==
  /\ ref' \in {Elsewhere, run.oid} \ {ref}
  /\ UNCHANGED <<rows, mirroring>>

-----------------------------------------------------------------------------
AttemptStep(a) ==
  \/ AllocateRetryAttempt(a)
  \/ ActivateRun(a)
  \/ ActivateTicket(a)
  \/ ActivateRetryTicket(a)
  \/ \E kind \in {"some", "cleanup"} : PersistContext(a, kind)
  \/ Acquire(a)
  \/ StartAttempt(a)
  \/ FinalizeCommit(a)
  \/ BeginLeaseCleanup(a)
  \/ BeginAttemptCleanup(a)
  \/ AdvanceTicketToCleanupPending(a)
  \/ RunnerCrash(a)
  \/ BeginTicketCleanup(a)
  \/ \E end \in {"released", "quarantined"} : FinalizeLease(a, end)
  \/ QuarantineLease(a)
  \/ \E kind \in RecordKinds : RecordCleanup(a, kind)
  \/ MarkAttemptFailedClean(a)
  \/ QuarantineAttempt(a)
  \/ RecoverOrphanedPlannedAttempt(a)
  \/ FailTicket(a)
  \/ QuarantineTicket(a)
  \/ BeginRunCleanup(a)
  \/ ReactivateRun(a)
  \/ FailRun(a)
  \/ EvaluateOracle(a)
  \/ CreatePromotionIntent(a)
  \/ MintPromotionCleanup(a)
  \/ ObservePromotion(a)
  \/ UpdateRef(a)

Next ==
  \/ \E t \in Tickets : AllocateInitialAttempt(t)
  \/ \E a \in Attempts : AttemptStep(a)
  \/ RefMoves

Spec == Init /\ [][Next]_vars

\* With the commands that would complete a promotion.
FullNext == Next \/ (\E a \in Attempts : FinalizePromotion(a)) \/ FinalizeReadyRun

FullSpec == Init /\ [][FullNext]_vars

-----------------------------------------------------------------------------
(* Properties.                                                             *)

\* Whoever races a retry, an orphan's recovery, a quarantine and a late
\* cleanup: an open lease belongs to the newest attempt of its ticket, and that
\* attempt is not terminal.  Every older attempt is failed_clean.
OpenLeaseIsCurrent ==
  \A a \in Attempts :
    /\ lease[a] \in OpenLease => Latest(a) /\ attempt[a].state \notin Terminal
    /\ attempt[a].state # "absent" /\ ~Latest(a) => attempt[a].state = "failed_clean"

\* Attempts of a run compete for its delivery ref, and a failed attempt leaves
\* its intent behind when the retry is accepted.  The ref names a candidate only
\* under a durable intent for accepted work; and while a promotion is in flight
\* the ref is where its intent found it, at its own candidate, or at a commit
\* from outside the run: no attempt's promotion is called conflicted because of
\* another's.
PromotionOwnsRef ==
  \A a \in Attempts :
    /\ ref = Candidate(a) => intent[a].state # "none" /\ work[a] = "accepted"
    /\ intent[a].state \in InFlight => ref \in {intent[a].old, Candidate(a), Elsewhere}
=============================================================================
