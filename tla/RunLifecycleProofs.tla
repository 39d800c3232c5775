------------------------- MODULE RunLifecycleProofs -------------------------
(***************************************************************************)
(* Proofs, for any set of tickets and any retry budgets, that the rows of  *)
(* a run stay well typed, that an open lease belongs to the newest attempt *)
(* of its ticket, that promotions do not get in each other's way, and no   *)
(* promotion is ever finalized; and, for any number of callers, trees,     *)
(* crashes and disturbances, that the attribution of an attempt's commit,  *)
(* on which its promotion rests, is proven and final.                      *)
(***************************************************************************)
EXTENDS RunLifecycle, CommitService, TLAPS

\* An attempt is the pair of a ticket and a number within its budget.
LEMMA AttemptFacts ==
  ASSUME NEW a \in Attempts
  PROVE  /\ TicketOf(a) \in Tickets
         /\ Number(a) \in Nat
         /\ Number(a) \in 1 .. MaxAttempts[TicketOf(a)]
         /\ a = <<TicketOf(a), Number(a)>>
         /\ Candidate(a) \in Oids
  BY BudgetAssumption DEF Attempts, TicketOf, Number, Oids

\* Every ticket has a first attempt, and a budget not used up has a next one.
LEMMA FirstExists == ASSUME NEW t \in Tickets PROVE <<t, 1>> \in Attempts
  BY BudgetAssumption DEF Attempts

\* A budget that is not used up has a next attempt.
LEMMA RetryExists ==
  ASSUME NEW a \in Attempts, Number(a) < MaxAttempts[TicketOf(a)]
  PROVE  <<TicketOf(a), Number(a) + 1>> \in Attempts
<1>1. Number(a) + 1 \in 1 .. MaxAttempts[TicketOf(a)]
  BY AttemptFacts, BudgetAssumption
<1> QED BY <1>1, AttemptFacts DEF Attempts

\* The first rows of a run are well typed.
LEMMA InitialType == Init => LifecycleTypeOK
  BY DEF Init, LifecycleTypeOK, Oids, NoRecord, NoIntent

\* The type of the attempt rows.
AttemptRows ==
  [Attempts -> [state : OpenAttempt \cup Terminal \cup {"absent", "cleanup_pending"},
                base : Oids]]

\* One attempt moves to a state of the machine.
LEMMA AttemptMoves ==
  ASSUME attempt \in AttemptRows, NEW a \in Attempts,
         NEW s \in Terminal \cup {"working", "cleanup_pending"},
         attempt' = [attempt EXCEPT ![a].state = s]
  PROVE  attempt' \in AttemptRows
<1> DEFINE S == OpenAttempt \cup Terminal \cup {"absent", "cleanup_pending"}
<1>1. s \in S BY DEF OpenAttempt
<1>2. attempt \in [Attempts -> [state : S, base : Oids]] BY DEF AttemptRows
<1> HIDE DEF S
<1>3. attempt' \in [Attempts -> [state : S, base : Oids]] BY <1>1, <1>2
<1> QED BY <1>3 DEF S, AttemptRows

\* No step, the commands that complete a promotion included, breaks the types.
LEMMA TypeStep == LifecycleTypeOK /\ [FullNext]_vars => LifecycleTypeOK'
<1> SUFFICES ASSUME LifecycleTypeOK, [FullNext]_vars PROVE LifecycleTypeOK'
  OBVIOUS
<1> USE DEF LifecycleTypeOK
<1>i. {Initial, Elsewhere} \subseteq Oids
  BY DEF Oids
<1>1. ASSUME NEW t \in Tickets, AllocateInitialAttempt(t) PROVE LifecycleTypeOK'
  BY <1>1, FirstExists DEF AllocateInitialAttempt, NewAttempt, OpenAttempt
<1>2. ASSUME NEW a \in Attempts, AttemptStep(a) PROVE LifecycleTypeOK'
  <2>0. TicketOf(a) \in Tickets /\ Candidate(a) \in Oids
    BY AttemptFacts
  <2>1. CASE AllocateRetryAttempt(a)
    <3>1. <<TicketOf(a), Number(a) + 1>> \in Attempts
      BY <2>1, AttemptFacts, RetryExists DEF AllocateRetryAttempt, RetrySelection
    <3> QED BY <2>1, <3>1 DEF AllocateRetryAttempt, NewAttempt, OpenAttempt
  <2>2. CASE ActivateRun(a)
    BY <2>2, <2>0 DEF ActivateRun
  <2>3. CASE ActivateTicket(a)
    BY <2>3, <2>0 DEF ActivateTicket
  <2>4. CASE ActivateRetryTicket(a)
    BY <2>4, <2>0 DEF ActivateRetryTicket
  <2>5. ASSUME NEW kind \in {"some", "cleanup"}, PersistContext(a, kind) PROVE LifecycleTypeOK'
    BY <2>5, <2>0 DEF PersistContext
  <2>6. CASE Acquire(a)
    BY <2>6, <2>0 DEF Acquire, OpenLease
  <2>7. CASE StartAttempt(a)
    BY <2>7, <2>0 DEF StartAttempt, OpenAttempt
  <2>8. CASE FinalizeCommit(a)
    BY <2>8, <2>0 DEF FinalizeCommit
  <2>9. CASE BeginLeaseCleanup(a)
    BY <2>9, <2>0 DEF BeginLeaseCleanup, OpenLease
  <2>10. CASE BeginAttemptCleanup(a)
    <3>1. mirroring' \subseteq Attempts
      BY <2>10 DEF BeginAttemptCleanup
    <3>2. attempt' = [attempt EXCEPT ![a].state = "cleanup_pending"]
      BY <2>10 DEF BeginAttemptCleanup
    <3>3. attempt' \in [Attempts -> [state : OpenAttempt \cup Terminal \cup
                                            {"absent", "cleanup_pending"},
                                    base : Oids]]
      BY <3>2
    <3> QED BY <2>10, <3>1, <3>3 DEF BeginAttemptCleanup
  <2>11. CASE AdvanceTicketToCleanupPending(a)
    BY <2>11, <2>0 DEF AdvanceTicketToCleanupPending, TicketToCleanup
  <2>12. CASE RunnerCrash(a)
    BY <2>12, <2>0 DEF RunnerCrash, rows
  <2>13. CASE BeginTicketCleanup(a)
    BY <2>13, <2>0 DEF BeginTicketCleanup
  <2>14. ASSUME NEW end \in {"released", "quarantined"}, FinalizeLease(a, end) PROVE LifecycleTypeOK'
    BY <2>14, <2>0 DEF FinalizeLease, RecordKinds
  <2>15. CASE QuarantineLease(a)
    BY <2>15, <2>0 DEF QuarantineLease
  <2>16. ASSUME NEW kind \in RecordKinds, RecordCleanup(a, kind) PROVE LifecycleTypeOK'
    BY <2>16, <2>0 DEF RecordCleanup
  <2>17. CASE MarkAttemptFailedClean(a)
    <3>1. attempt' = [attempt EXCEPT ![a].state = "failed_clean"] BY <2>17 DEF MarkAttemptFailedClean
    <3>2. attempt \in AttemptRows BY DEF AttemptRows
    <3>3. "failed_clean" \in Terminal BY DEF Terminal
    <3>4. attempt' \in AttemptRows BY <3>1, <3>2, <3>3, AttemptMoves
    <3>5. attempt' \in [Attempts -> [state : OpenAttempt \cup Terminal \cup
                                            {"absent", "cleanup_pending"},
                                    base : Oids]]
      BY <3>4 DEF AttemptRows
    <3> QED BY <2>17, <2>0, <3>5 DEF MarkAttemptFailedClean
  <2>18. CASE QuarantineAttempt(a)
    <3>1. attempt' = [attempt EXCEPT ![a].state = "quarantined"] BY <2>18 DEF QuarantineAttempt
    <3>2. attempt \in AttemptRows BY DEF AttemptRows
    <3>3. "quarantined" \in Terminal BY DEF Terminal
    <3>4. attempt' \in AttemptRows BY <3>1, <3>2, <3>3, AttemptMoves
    <3>5. attempt' \in [Attempts -> [state : OpenAttempt \cup Terminal \cup
                                            {"absent", "cleanup_pending"},
                                    base : Oids]]
      BY <3>4 DEF AttemptRows
    <3> QED BY <2>18, <2>0, <3>5 DEF QuarantineAttempt
  <2>19. CASE RecoverOrphanedPlannedAttempt(a)
    <3>1. attempt' = [attempt EXCEPT ![a].state = "failed_clean"] BY <2>19 DEF RecoverOrphanedPlannedAttempt
    <3>2. attempt \in AttemptRows BY DEF AttemptRows
    <3>3. "failed_clean" \in Terminal BY DEF Terminal
    <3>4. attempt' \in AttemptRows BY <3>1, <3>2, <3>3, AttemptMoves
    <3>5. attempt' \in [Attempts -> [state : OpenAttempt \cup Terminal \cup
                                            {"absent", "cleanup_pending"},
                                    base : Oids]]
      BY <3>4 DEF AttemptRows
    <3> QED BY <2>19, <2>0, <3>5 DEF RecoverOrphanedPlannedAttempt, TicketToCleanup
  <2>20. CASE FailTicket(a)
    BY <2>20, <2>0 DEF FailTicket
  <2>21. CASE QuarantineTicket(a)
    BY <2>21, <2>0 DEF QuarantineTicket
  <2>22. CASE BeginRunCleanup(a)
    BY <2>22, <2>0 DEF BeginRunCleanup, RunMoves
  <2>23. CASE ReactivateRun(a)
    BY <2>23, <2>0 DEF ReactivateRun, RunMoves
  <2>24. CASE FailRun(a)
    BY <2>24, <2>0 DEF FailRun, RunMoves
  <2>25. CASE EvaluateOracle(a)
    BY <2>25, <2>0 DEF EvaluateOracle
  <2>26. CASE CreatePromotionIntent(a)
    BY <2>26, <2>0 DEF CreatePromotionIntent, InFlight
  <2>27. CASE MintPromotionCleanup(a)
    BY <2>27, <2>0 DEF MintPromotionCleanup
  <2>28. CASE ObservePromotion(a)
    BY <2>28, <2>0 DEF ObservePromotion, Observed, InFlight
  <2>29. CASE UpdateRef(a)
    BY <2>29, <2>0 DEF UpdateRef, rows
  <2> QED BY <1>2, <2>1, <2>2, <2>3, <2>4, <2>5, <2>6, <2>7, <2>8, <2>9, <2>10, <2>11,
           <2>12, <2>13, <2>14, <2>15, <2>16, <2>17, <2>18, <2>19, <2>20, <2>21, <2>22,
           <2>23, <2>24, <2>25, <2>26, <2>27, <2>28, <2>29
        DEF AttemptStep
<1>3. CASE RefMoves
  BY <1>3, <1>i DEF RefMoves, rows
<1>4. ASSUME NEW a \in Attempts, FinalizePromotion(a) PROVE LifecycleTypeOK'
  <2>0. TicketOf(a) \in Tickets /\ Candidate(a) \in Oids
    BY AttemptFacts
  <2>1. run' \in [state : {"planned", "active", "cleanup_pending", "failed",
                          "ready_for_delivery"},
                 oid : Oids, seq : Nat]
    BY <1>4, <2>0 DEF FinalizePromotion
  <2>2. attempt' \in [Attempts -> [state : OpenAttempt \cup Terminal \cup
                                          {"absent", "cleanup_pending"},
                                  base : Oids]]
    <3>1. attempt' = [attempt EXCEPT ![a].state = "verified"] BY <1>4 DEF FinalizePromotion
    <3>2. attempt \in AttemptRows BY DEF AttemptRows
    <3>3. "verified" \in Terminal BY DEF Terminal
    <3> HIDE DEF LifecycleTypeOK
    <3>4. attempt' \in AttemptRows BY <3>1, <3>2, <3>3, AttemptMoves
    <3> QED BY <3>4 DEF AttemptRows
  <2>3. intent' \in [Attempts -> [state : InFlight \cup {"none", "conflicted", "finalized"},
                                 seq : Nat, old : Oids]]
    BY <1>4 DEF FinalizePromotion
  <2>4. ticket' \in [Tickets -> {"planned", "active", "cleanup_pending", "failed",
                                "quarantined", "ready_for_delivery"}]
    BY <1>4, <2>0 DEF FinalizePromotion
  <2> QED BY <1>4, <2>1, <2>2, <2>3, <2>4 DEF FinalizePromotion
<1>5. CASE FinalizeReadyRun
  BY <1>5 DEF FinalizeReadyRun, RunMoves
<1>6. CASE UNCHANGED vars
  BY <1>6 DEF vars, rows
<1> QED BY <1>1, <1>2, <1>3, <1>4, <1>5, <1>6 DEF FullNext, Next

\* The rows are well typed in every reachable state.
THEOREM LifecycleTypeCorrect == Spec => []LifecycleTypeOK
<1>1. LifecycleTypeOK /\ [Next]_vars => LifecycleTypeOK'
  BY TypeStep DEF FullNext
<1> QED BY InitialType, <1>1, PTL DEF Spec

-----------------------------------------------------------------------------
\* A step that changes the state of one allocated attempt, and does not remove
\* it, leaves every ticket's newest attempt what it was.
LEMMA LatestStable ==
  ASSUME LifecycleTypeOK, NEW a \in Attempts, NEW s,
         attempt[a].state # "absent", s # "absent",
         attempt' = [attempt EXCEPT ![a].state = s]
  PROVE  \A b \in Attempts : /\ Latest(b)' <=> Latest(b)
                             /\ b # a => attempt'[b] = attempt[b]
                             /\ attempt'[b].state # "absent" <=> attempt[b].state # "absent"
<1>1. \A b \in Attempts : /\ b # a => attempt'[b] = attempt[b]
                          /\ attempt'[a].state = s
  BY DEF LifecycleTypeOK
<1> QED BY <1>1 DEF Latest, Allocated

\* The actions that touch neither the attempts nor the leases.
QuietStep(a) ==
  \/ ActivateRun(a)
  \/ ActivateTicket(a)
  \/ ActivateRetryTicket(a)
  \/ \E kind \in {"some", "cleanup"} : PersistContext(a, kind)
  \/ FinalizeCommit(a)
  \/ AdvanceTicketToCleanupPending(a)
  \/ RunnerCrash(a)
  \/ BeginTicketCleanup(a)
  \/ \E kind \in RecordKinds : RecordCleanup(a, kind)
  \/ FailTicket(a)
  \/ QuarantineTicket(a)
  \/ BeginRunCleanup(a)
  \/ ReactivateRun(a)
  \/ FailRun(a)
  \/ EvaluateOracle(a)
  \/ CreatePromotionIntent(a)
  \/ MintPromotionCleanup(a)
  \/ ObservePromotion(a)
  \/ UpdateRef(a)

\* A quiet step changes neither an attempt nor a lease.
LEMMA QuietStepIsQuiet ==
  ASSUME NEW a \in Attempts, QuietStep(a) PROVE UNCHANGED <<attempt, lease>>
  BY DEF QuietStep, ActivateRun, ActivateTicket, ActivateRetryTicket, PersistContext,
     FinalizeCommit, AdvanceTicketToCleanupPending, RunnerCrash, BeginTicketCleanup,
     RecordCleanup, FailTicket, QuarantineTicket, BeginRunCleanup, ReactivateRun, FailRun,
     RunMoves, EvaluateOracle, CreatePromotionIntent, MintPromotionCleanup,
     ObservePromotion, UpdateRef, rows

\* An open lease stays with the newest attempt of its ticket.
LEMMA LeaseStep ==
  LifecycleTypeOK /\ OpenLeaseIsCurrent /\ [FullNext]_vars => OpenLeaseIsCurrent'
<1> SUFFICES ASSUME LifecycleTypeOK, OpenLeaseIsCurrent, [FullNext]_vars
             PROVE  OpenLeaseIsCurrent'
  OBVIOUS
<1>u. ASSUME UNCHANGED <<attempt, lease>> PROVE OpenLeaseIsCurrent'
  BY <1>u DEF OpenLeaseIsCurrent, Latest, Allocated
\* The end of an attempt whose lease is not open.
<1>t. ASSUME NEW a \in Attempts, attempt[a].state # "absent", lease[a] \notin OpenLease,
             NEW s \in Terminal, Latest(a) \/ s = "failed_clean",
             attempt' = [attempt EXCEPT ![a].state = s], lease' = lease
      PROVE  OpenLeaseIsCurrent'
  <2>1. s # "absent"
    BY DEF Terminal
  <2>2. attempt'[a].state = s
    BY <1>t DEF LifecycleTypeOK
  <2> QED BY <1>t, <2>1, <2>2, LatestStable DEF OpenLeaseIsCurrent
\* A move of an attempt that is neither the first nor the last.
<1>m. ASSUME NEW a \in Attempts, attempt[a].state \notin Terminal \cup {"absent"},
             NEW s, s \notin Terminal \cup {"absent"},
             attempt' = [attempt EXCEPT ![a].state = s], lease' = lease
      PROVE  OpenLeaseIsCurrent'
  <2>1. attempt'[a].state = s
    BY <1>m DEF LifecycleTypeOK
  <2>2. Latest(a)
    BY <1>m DEF OpenLeaseIsCurrent, Terminal
  <2> QED BY <1>m, <2>1, <2>2, LatestStable DEF OpenLeaseIsCurrent
\* A new attempt after which every older one is failed_clean.
<1>n. ASSUME NEW a \in Attempts, attempt[a].state = "absent",
             \A b \in Allocated(TicketOf(a)) :
                /\ Number(b) < Number(a)
                /\ attempt[b].state = "failed_clean",
             NewAttempt(a), lease' = lease
      PROVE  OpenLeaseIsCurrent'
  <2>1. /\ attempt'[a].state = "planned"
        /\ \A b \in Attempts : b # a => attempt'[b] = attempt[b]
    BY <1>n DEF LifecycleTypeOK, NewAttempt
  <2>2. \A b \in Attempts : TicketOf(b) = TicketOf(a) /\ b # a => lease[b] \notin OpenLease
    BY <1>n DEF OpenLeaseIsCurrent, Allocated, Latest, Terminal
  <2>3. \A b \in Attempts : TicketOf(b) # TicketOf(a) => (Latest(b)' <=> Latest(b))
    BY <2>1 DEF Latest, Allocated
  <2>4. Latest(a)'
    BY <1>n, <2>1, AttemptFacts DEF Latest, Allocated
  <2>5. ASSUME NEW b \in Attempts
        PROVE  /\ lease'[b] \in OpenLease => Latest(b)' /\ attempt'[b].state \notin Terminal
               /\ attempt'[b].state # "absent" /\ ~Latest(b)' => attempt'[b].state = "failed_clean"
    <3>1. CASE b = a
      BY <2>1, <2>4, <3>1 DEF Terminal
    <3>2. CASE b # a /\ TicketOf(b) = TicketOf(a)
      BY <1>n, <2>1, <2>2, <3>2 DEF Allocated
    <3>3. CASE TicketOf(b) # TicketOf(a)
      BY <1>n, <2>1, <2>3, <3>3 DEF OpenLeaseIsCurrent
    <3> QED BY <3>1, <3>2, <3>3
  <2> QED BY <2>5 DEF OpenLeaseIsCurrent
\* A change of the lease of an attempt.
<1>l. ASSUME NEW a \in Attempts, NEW s,
             s \in OpenLease => Latest(a) /\ attempt[a].state \notin Terminal,
             lease' = [lease EXCEPT ![a] = s], attempt' = attempt
      PROVE  OpenLeaseIsCurrent'
  <2>1. \A b \in Attempts : lease'[b] = IF b = a THEN s ELSE lease[b]
    BY <1>l DEF LifecycleTypeOK
  <2> QED BY <1>l, <2>1 DEF OpenLeaseIsCurrent, Latest, Allocated
<1>1. ASSUME NEW t \in Tickets, AllocateInitialAttempt(t) PROVE OpenLeaseIsCurrent'
  <2>1. /\ <<t, 1>> \in Attempts /\ TicketOf(<<t, 1>>) = t
        /\ attempt[<<t, 1>>].state = "absent"
    BY <1>1, FirstExists DEF AllocateInitialAttempt, Allocated, TicketOf
  <2> QED BY <1>1, <1>n, <2>1 DEF AllocateInitialAttempt
<1>2. ASSUME NEW a \in Attempts, AttemptStep(a) PROVE OpenLeaseIsCurrent'
  <2>1. CASE AllocateRetryAttempt(a)
    <3> DEFINE b == <<TicketOf(a), Number(a) + 1>>
    <3>1. b \in Attempts /\ TicketOf(b) = TicketOf(a) /\ Number(b) = Number(a) + 1
      BY <2>1, RetryExists DEF AllocateRetryAttempt, RetrySelection, TicketOf, Number
    <3>2. attempt[b].state = "absent"
      BY <2>1, <3>1, AttemptFacts DEF AllocateRetryAttempt, RetrySelection, Latest, Allocated
    <3>3. ASSUME NEW c \in Allocated(TicketOf(b))
          PROVE  Number(c) < Number(b) /\ attempt[c].state = "failed_clean"
      <4>1. c \in Attempts /\ TicketOf(c) = TicketOf(a) /\ attempt[c].state # "absent"
        BY <3>1 DEF Allocated
      <4>2. Number(c) <= Number(a) /\ Number(c) \in Nat /\ Number(a) \in Nat
        BY <2>1, <3>1, <4>1, AttemptFacts
           DEF AllocateRetryAttempt, RetrySelection, Latest
      <4>3. CASE c = a
        BY <2>1, <3>1, <4>2, <4>3 DEF AllocateRetryAttempt, RetrySelection
      <4>4. CASE c # a
        <5>1. Number(c) # Number(a)
          BY <4>1, <4>4, AttemptFacts
        <5>2. ~Latest(c)
          BY <2>1, <4>1, <4>2, <5>1 DEF AllocateRetryAttempt, RetrySelection, Latest, Allocated
        <5> QED BY <3>1, <4>1, <4>2, <5>2 DEF OpenLeaseIsCurrent
      <4> QED BY <4>3, <4>4
    <3> HIDE DEF b
    <3>4. NewAttempt(b) /\ lease' = lease
      BY <2>1 DEF AllocateRetryAttempt, b
    <3> QED BY <1>n, <3>1, <3>2, <3>3, <3>4
  <2>2. CASE Acquire(a)
    <3>1. Latest(a) /\ attempt[a].state \notin Terminal
      BY <2>2 DEF Acquire, OpenLeaseIsCurrent, Terminal
    <3> QED BY <1>l, <2>2, <3>1 DEF Acquire
  <2>3. CASE BeginLeaseCleanup(a)
    <3>1. Latest(a) /\ attempt[a].state \notin Terminal
      BY <2>3 DEF BeginLeaseCleanup, OpenLeaseIsCurrent, OpenLease
    <3> QED BY <1>l, <2>3, <3>1 DEF BeginLeaseCleanup
  <2>4. ASSUME NEW end \in {"released", "quarantined"}, FinalizeLease(a, end)
        PROVE  OpenLeaseIsCurrent'
    BY <1>l, <2>4 DEF FinalizeLease, OpenLease
  <2>5. CASE QuarantineLease(a)
    BY <1>l, <2>5 DEF QuarantineLease, OpenLease
  <2>6. CASE StartAttempt(a)
    BY <1>m, <2>6 DEF StartAttempt, Terminal
  <2>7. CASE BeginAttemptCleanup(a)
    BY <1>m, <2>7 DEF BeginAttemptCleanup, OpenAttempt, Terminal
  <2>8. CASE MarkAttemptFailedClean(a)
    BY <1>t, <2>8 DEF MarkAttemptFailedClean, CleanAttempt, OpenLease, Terminal
  <2>9. CASE QuarantineAttempt(a)
    <3>1. Latest(a)
      BY <2>9 DEF QuarantineAttempt, OpenLeaseIsCurrent
    <3> QED BY <1>t, <2>9, <3>1 DEF QuarantineAttempt, QuarantinedAttempt, OpenLease, Terminal
  <2>10. CASE RecoverOrphanedPlannedAttempt(a)
    BY <1>t, <2>10 DEF RecoverOrphanedPlannedAttempt, NoSideEffects, OpenLease, Terminal
  <2>11. CASE QuietStep(a)
    BY <1>u, <2>11, QuietStepIsQuiet
  <2> QED BY <1>2, <2>1, <2>2, <2>3, <2>4, <2>5, <2>6, <2>7, <2>8, <2>9, <2>10, <2>11
          DEF AttemptStep, QuietStep
<1>3. CASE RefMoves
  BY <1>u, <1>3 DEF RefMoves, rows
<1>4. ASSUME NEW a \in Attempts, FinalizePromotion(a) PROVE OpenLeaseIsCurrent'
  <2>1. Latest(a)
    BY <1>4 DEF FinalizePromotion, PromotionObserved, OpenLeaseIsCurrent
  <2> QED BY <1>4, <1>t, <2>1 DEF FinalizePromotion, PromotionObserved, CleanAttempt,
          OpenLease, Terminal
<1>5. CASE FinalizeReadyRun
  BY <1>u, <1>5 DEF FinalizeReadyRun, RunMoves
<1>6. CASE UNCHANGED vars
  BY <1>u, <1>6 DEF vars, rows
<1> QED BY <1>1, <1>2, <1>3, <1>4, <1>5, <1>6 DEF FullNext, Next

\* Retries, orphan recovery, quarantine and late cleanups may race as they
\* like: an open lease belongs to the newest attempt of its ticket, which is
\* not terminal, and every older attempt is failed_clean.
THEOREM LeasesAreCurrent == Spec => []OpenLeaseIsCurrent
<1>1. Init => OpenLeaseIsCurrent
  BY DEF Init, OpenLeaseIsCurrent, OpenLease
<1>2. LifecycleTypeOK /\ OpenLeaseIsCurrent /\ [Next]_vars => OpenLeaseIsCurrent'
  BY LeaseStep DEF FullNext
<1> QED BY <1>1, <1>2, LifecycleTypeCorrect, PTL DEF Spec

-----------------------------------------------------------------------------
(* Competing promotions.  PromotionOwnsRef is not inductive: that a second  *)
(* attempt gets no intent follows from the sequence number that the first   *)
(* one holds, also when it is conflicted, while the run's does not advance. *)

\* An intent is for accepted work, from the run's first OID, under number 1.
IntentsGrounded ==
  \A a \in Attempts : intent[a].state # "none" =>
    work[a] = "accepted" /\ intent[a].seq = 1 /\ intent[a].old = Initial

\* Over all tickets there is one intent at most.
SoleIntent ==
  \A a, b \in Attempts : intent[a].state # "none" /\ intent[b].state # "none" => a = b

\* A candidate is on the ref only under its intent.
RefClaimed ==
  \/ ref \in {Initial, Elsewhere}
  \/ \E a \in Attempts : ref = Candidate(a) /\ intent[a].state # "none"

\* The run has not advanced.
RunUnmoved == run.oid = Initial /\ run.seq = 0

PromotionInv ==
  /\ LifecycleTypeOK /\ RunUnmoved
  /\ IntentsGrounded /\ SoleIntent /\ RefClaimed

\* Candidates of different attempts differ, and from the other commits.
LEMMA CandidatesDiffer ==
  /\ \A a, b \in Attempts : Candidate(a) = Candidate(b) => a = b
  /\ \A a \in Attempts : Candidate(a) # Initial /\ Candidate(a) # Elsewhere
<1>1. ASSUME NEW a \in Attempts, NEW b \in Attempts, Candidate(a) = Candidate(b)
      PROVE  a = b
  <2>1. PICK t \in Tickets : a \in {t} \X (1 .. MaxAttempts[t]) BY DEF Attempts
  <2>2. PICK u \in Tickets : b \in {u} \X (1 .. MaxAttempts[u]) BY DEF Attempts
  <2>3. a = <<a[1], a[2]>> /\ b = <<b[1], b[2]>> BY <2>1, <2>2
  <2>4. a[1] = b[1] /\ a[2] = b[2]
    <3>1. Candidate(a)[2] = a[1] /\ Candidate(a)[3] = a[2]
          /\ Candidate(b)[2] = b[1] /\ Candidate(b)[3] = b[2]
      BY DEF Candidate, TicketOf, Number
    <3> QED BY <1>1, <3>1
  <2> QED BY <2>3, <2>4
<1>2. ASSUME NEW a \in Attempts PROVE Candidate(a) # Initial /\ Candidate(a) # Elsewhere
  <2>1. "candidate" # "initial" /\ "candidate" # "foreign" OBVIOUS
  <2>2. Candidate(a)[1] = "candidate" /\ Initial[1] = "initial" /\ Elsewhere[1] = "foreign"
    BY DEF Candidate, Initial, Elsewhere
  <2> QED BY <2>1, <2>2
<1> QED BY <1>1, <1>2

\* The actions that change neither the work, nor the intents, nor the ref.
IdleStep(a) ==
  \/ AllocateRetryAttempt(a)
  \/ ActivateRun(a)
  \/ ActivateTicket(a)
  \/ ActivateRetryTicket(a)
  \/ \E kind \in {"some", "cleanup"} : PersistContext(a, kind)
  \/ Acquire(a)
  \/ StartAttempt(a)
  \/ BeginLeaseCleanup(a)
  \/ BeginAttemptCleanup(a)
  \/ AdvanceTicketToCleanupPending(a)
  \/ RunnerCrash(a)
  \/ BeginTicketCleanup(a)
  \/ \E end \in {"released", "quarantined"} : FinalizeLease(a, end)
  \/ QuarantineLease(a)
  \/ \E kind \in RecordKinds : RecordCleanup(a, kind)
  \/ MarkAttemptFailedClean(a)
  \/ QuarantineAttempt(a)
  \/ RecoverOrphanedPlannedAttempt(a)
  \/ FailTicket(a)
  \/ QuarantineTicket(a)
  \/ BeginRunCleanup(a)
  \/ ReactivateRun(a)
  \/ FailRun(a)
  \/ MintPromotionCleanup(a)

\* An idle step changes neither recorded work, nor an intent, nor the ref, and of
\* the run only its state.
LEMMA IdleStepIsIdle ==
  ASSUME NEW a \in Attempts, IdleStep(a), run.oid = Initial, run.seq = 0,
         LifecycleTypeOK
  PROVE  UNCHANGED <<work, intent, ref>> /\ RunUnmoved'
  BY DEF RunUnmoved, LifecycleTypeOK, IdleStep, AllocateRetryAttempt, ActivateRun, ActivateTicket, ActivateRetryTicket,
     PersistContext, Acquire, StartAttempt, BeginLeaseCleanup, BeginAttemptCleanup,
     AdvanceTicketToCleanupPending, RunnerCrash, BeginTicketCleanup, FinalizeLease,
     QuarantineLease, RecordCleanup, MarkAttemptFailedClean, QuarantineAttempt,
     RecoverOrphanedPlannedAttempt, FailTicket, QuarantineTicket, BeginRunCleanup,
     ReactivateRun, FailRun, RunMoves, MintPromotionCleanup, rows

\* Every step keeps the invariant.
LEMMA PromotionStep == PromotionInv /\ [Next]_vars => PromotionInv'
<1> SUFFICES ASSUME PromotionInv, [Next]_vars PROVE PromotionInv'
  OBVIOUS
<1>0. /\ LifecycleTypeOK /\ LifecycleTypeOK' /\ RunUnmoved
      /\ IntentsGrounded /\ SoleIntent /\ RefClaimed
  BY TypeStep DEF PromotionInv, FullNext
<1>u. ASSUME UNCHANGED <<work, intent, ref>>, RunUnmoved' PROVE PromotionInv'
  BY <1>0, <1>u DEF PromotionInv, IntentsGrounded, SoleIntent, RefClaimed
<1>1. ASSUME NEW a \in Attempts, AttemptStep(a) PROVE PromotionInv'
  <2>1. CASE FinalizeCommit(a)
    <3>1. /\ \A b \in Attempts : b # a => work'[b] = work[b]
          /\ work[a] = "none" /\ UNCHANGED <<run, intent, ref>>
      BY <1>0, <2>1 DEF FinalizeCommit, LifecycleTypeOK
    <3> QED BY <1>0, <3>1
            DEF PromotionInv, RunUnmoved, IntentsGrounded, SoleIntent, RefClaimed
  <2>2. CASE EvaluateOracle(a)
    <3>1. /\ \A b \in Attempts : work'[b] = IF b = a THEN "accepted" ELSE work[b]
          /\ UNCHANGED <<run, intent, ref>>
      BY <1>0, <2>2 DEF EvaluateOracle, LifecycleTypeOK
    <3> QED BY <1>0, <3>1
            DEF PromotionInv, RunUnmoved, IntentsGrounded, SoleIntent, RefClaimed
  <2>3. CASE CreatePromotionIntent(a)
    <3> DEFINE new == [state |-> "intent_recorded", seq |-> run.seq + 1, old |-> run.oid]
    <3>1. /\ intent' = [intent EXCEPT ![a] = new]
          /\ work[a] = "accepted" /\ UNCHANGED <<run, work, ref>> /\ SequenceFree
      BY <2>3 DEF CreatePromotionIntent, PromotionScope, PromotionIndexes
    <3>2. new.state # "none" /\ new.seq = 1 /\ new.old = Initial
      BY <1>0 DEF RunUnmoved
    <3> HIDE DEF new
    <3>3. \A b \in Attempts : intent'[b] = IF b = a THEN new ELSE intent[b]
      BY <1>0, <3>1 DEF LifecycleTypeOK
    <3>4. \A b \in Attempts : intent[b].state = "none"
      BY <1>0, <3>1 DEF SequenceFree, IntentsGrounded, RunUnmoved
    <3>5. IntentsGrounded' BY <3>1, <3>2, <3>3, <3>4 DEF IntentsGrounded
    <3>6. SoleIntent' BY <3>3, <3>4 DEF SoleIntent
    <3>7. RefClaimed' BY <1>0, <3>1, <3>4 DEF RefClaimed
    <3> QED BY <1>0, <3>1, <3>5, <3>6, <3>7 DEF PromotionInv, RunUnmoved
  <2>4. CASE ObservePromotion(a)
    <3>1. /\ intent' = [intent EXCEPT ![a].state = Observed(a)]
          /\ UNCHANGED <<run, work, ref>>
          /\ intent[a].state # "none" /\ Observed(a) # "none"
      BY <2>4 DEF ObservePromotion, Observed
    <3>2. \A b \in Attempts : /\ intent'[b].seq = intent[b].seq
                              /\ intent'[b].old = intent[b].old
                              /\ intent'[b].state # "none" <=> intent[b].state # "none"
      BY <1>0, <3>1 DEF LifecycleTypeOK
    <3> QED BY <1>0, <3>1, <3>2
            DEF PromotionInv, RunUnmoved, IntentsGrounded, SoleIntent, RefClaimed
  <2>5. CASE UpdateRef(a)
    <3>1. /\ ref' = Candidate(a) /\ intent[a].state # "none"
          /\ UNCHANGED <<run, work, intent>>
      BY <2>5 DEF UpdateRef, InFlight, rows
    <3> QED BY <1>0, <3>1
            DEF PromotionInv, RunUnmoved, IntentsGrounded, SoleIntent, RefClaimed
  <2>6. CASE IdleStep(a)
    BY <1>0, <1>u, <2>6, IdleStepIsIdle DEF RunUnmoved
  <2> QED BY <1>1, <2>1, <2>2, <2>3, <2>4, <2>5, <2>6 DEF AttemptStep, IdleStep
<1>2. CASE \E t \in Tickets : AllocateInitialAttempt(t)
  BY <1>0, <1>u, <1>2 DEF AllocateInitialAttempt, RunUnmoved
<1>3. CASE RefMoves
  <2>1. UNCHANGED <<run, work, intent>> /\ ref' \in {Initial, Elsewhere}
    BY <1>0, <1>3 DEF RefMoves, rows, RunUnmoved
  <2> QED BY <1>0, <2>1
          DEF PromotionInv, RunUnmoved, IntentsGrounded, SoleIntent, RefClaimed
<1>4. CASE UNCHANGED vars
  BY <1>0, <1>u, <1>4 DEF vars, rows, RunUnmoved
<1> QED BY <1>1, <1>2, <1>3, <1>4 DEF Next

\* PromotionOwnsRef for any number of tickets and attempts: a promotion in
\* flight finds the ref at its own commits or at one from outside, never at the
\* candidate of another attempt of the run.
THEOREM PromotionsOwnRef == Spec => []PromotionOwnsRef
<1>1. Init => PromotionInv
  BY InitialType
     DEF Init, PromotionInv, RunUnmoved, IntentsGrounded, SoleIntent, RefClaimed, NoIntent
<1>2. PromotionInv => PromotionOwnsRef
  <2> SUFFICES ASSUME PromotionInv, NEW a \in Attempts
               PROVE  /\ ref = Candidate(a) => intent[a].state # "none" /\ work[a] = "accepted"
                      /\ intent[a].state \in InFlight =>
                           ref \in {intent[a].old, Candidate(a), Elsewhere}
    BY DEF PromotionOwnsRef
  <2>1. ref = Candidate(a) => intent[a].state # "none" /\ work[a] = "accepted"
    BY CandidatesDiffer DEF PromotionInv, RefClaimed, IntentsGrounded
  <2>2. intent[a].state \in InFlight => ref \in {intent[a].old, Candidate(a), Elsewhere}
    BY DEF PromotionInv, RefClaimed, IntentsGrounded, SoleIntent, InFlight
  <2> QED BY <2>1, <2>2
<1> QED BY <1>1, <1>2, PromotionStep, PTL DEF Spec

-----------------------------------------------------------------------------
\* While nothing was promoted, the record of every lease's end shows the
\* baseline, because the end of a lease asks that the ref be where the run says.
NothingPromoted ==
  /\ run.oid = Initial
  /\ \A a \in Attempts : record[a].oid = Initial
  /\ \A t \in Tickets : ticket[t] # "ready_for_delivery"

\* The candidate of an attempt is not the commit the run began with.
LEMMA CandidateIsNew == ASSUME NEW a PROVE Candidate(a) # Initial
<1>1. "candidate" # "initial"
  OBVIOUS
<1>2. Candidate(a)[1] = "candidate" /\ Initial[1] = "initial"
  BY DEF Candidate, Initial
<1> QED BY <1>1, <1>2

\* A step of the full system from such a state is one of Next, and leads to
\* such a state.
LEMMA NothingPromotedStep ==
  LifecycleTypeOK /\ NothingPromoted /\ [FullNext]_vars
    => [Next]_vars /\ NothingPromoted'
<1> SUFFICES ASSUME LifecycleTypeOK, NothingPromoted, [FullNext]_vars
             PROVE  [Next]_vars /\ NothingPromoted'
  OBVIOUS
<1>1. ~\E a \in Attempts : FinalizePromotion(a)
  BY CandidateIsNew DEF FinalizePromotion, NothingPromoted
<1>2. ~FinalizeReadyRun
  BY DEF FinalizeReadyRun, NothingPromoted
<1>3. [Next]_vars
  BY <1>1, <1>2 DEF FullNext
<1> SUFFICES NothingPromoted'
  BY <1>3
<1>4. ASSUME NEW a \in Attempts, AttemptStep(a) PROVE NothingPromoted'
  <2> USE DEF NothingPromoted, LifecycleTypeOK
  <2>0. TicketOf(a) \in Tickets
    BY AttemptFacts
  <2>1. CASE AllocateRetryAttempt(a)
    BY <2>1, <2>0 DEF AllocateRetryAttempt
  <2>2. CASE ActivateRun(a)
    BY <2>2, <2>0 DEF ActivateRun
  <2>3. CASE ActivateTicket(a)
    BY <2>3, <2>0 DEF ActivateTicket
  <2>4. CASE ActivateRetryTicket(a)
    BY <2>4, <2>0 DEF ActivateRetryTicket
  <2>5. ASSUME NEW kind \in {"some", "cleanup"}, PersistContext(a, kind) PROVE NothingPromoted'
    BY <2>5, <2>0 DEF PersistContext
  <2>6. CASE Acquire(a)
    BY <2>6, <2>0 DEF Acquire
  <2>7. CASE StartAttempt(a)
    BY <2>7, <2>0 DEF StartAttempt
  <2>8. CASE FinalizeCommit(a)
    BY <2>8, <2>0 DEF FinalizeCommit
  <2>9. CASE BeginLeaseCleanup(a)
    BY <2>9, <2>0 DEF BeginLeaseCleanup
  <2>10. CASE BeginAttemptCleanup(a)
    BY <2>10, <2>0 DEF BeginAttemptCleanup
  <2>11. CASE AdvanceTicketToCleanupPending(a)
    BY <2>11, <2>0 DEF AdvanceTicketToCleanupPending, TicketToCleanup
  <2>12. CASE RunnerCrash(a)
    BY <2>12, <2>0 DEF RunnerCrash, rows
  <2>13. CASE BeginTicketCleanup(a)
    BY <2>13, <2>0 DEF BeginTicketCleanup
  <2>14. ASSUME NEW end \in {"released", "quarantined"}, FinalizeLease(a, end) PROVE NothingPromoted'
    BY <2>14, <2>0 DEF FinalizeLease
  <2>15. CASE QuarantineLease(a)
    BY <2>15, <2>0 DEF QuarantineLease
  <2>16. ASSUME NEW kind \in RecordKinds, RecordCleanup(a, kind) PROVE NothingPromoted'
    BY <2>16, <2>0 DEF RecordCleanup
  <2>17. CASE MarkAttemptFailedClean(a)
    BY <2>17, <2>0 DEF MarkAttemptFailedClean
  <2>18. CASE QuarantineAttempt(a)
    BY <2>18, <2>0 DEF QuarantineAttempt
  <2>19. CASE RecoverOrphanedPlannedAttempt(a)
    BY <2>19, <2>0 DEF RecoverOrphanedPlannedAttempt, TicketToCleanup
  <2>20. CASE FailTicket(a)
    BY <2>20, <2>0 DEF FailTicket
  <2>21. CASE QuarantineTicket(a)
    BY <2>21, <2>0 DEF QuarantineTicket
  <2>22. CASE BeginRunCleanup(a)
    BY <2>22, <2>0 DEF BeginRunCleanup, RunMoves
  <2>23. CASE ReactivateRun(a)
    BY <2>23, <2>0 DEF ReactivateRun, RunMoves
  <2>24. CASE FailRun(a)
    BY <2>24, <2>0 DEF FailRun, RunMoves
  <2>25. CASE EvaluateOracle(a)
    BY <2>25, <2>0 DEF EvaluateOracle
  <2>26. CASE CreatePromotionIntent(a)
    BY <2>26, <2>0 DEF CreatePromotionIntent
  <2>27. CASE MintPromotionCleanup(a)
    BY <2>27, <2>0 DEF MintPromotionCleanup
  <2>28. CASE ObservePromotion(a)
    BY <2>28, <2>0 DEF ObservePromotion, Observed
  <2>29. CASE UpdateRef(a)
    BY <2>29, <2>0 DEF UpdateRef, rows
  <2> QED BY <1>4, <2>1, <2>2, <2>3, <2>4, <2>5, <2>6, <2>7, <2>8, <2>9, <2>10, <2>11,
           <2>12, <2>13, <2>14, <2>15, <2>16, <2>17, <2>18, <2>19, <2>20, <2>21, <2>22,
           <2>23, <2>24, <2>25, <2>26, <2>27, <2>28, <2>29
        DEF AttemptStep
<1>5. CASE \E t \in Tickets : AllocateInitialAttempt(t)
  BY <1>5 DEF AllocateInitialAttempt, NothingPromoted
<1>6. CASE RefMoves \/ UNCHANGED vars
  BY <1>6 DEF RefMoves, vars, rows, NothingPromoted
<1> QED BY <1>3, <1>4, <1>5, <1>6 DEF Next

\* With the commands that complete a promotion in the system, none of them ever
\* takes effect: the full system does nothing that the one without them cannot
\* do.  finalizePromotion asks for a cleanup record that observed the candidate,
\* and finalizeCleanup writes one only while the ref is where the run still says.
THEOREM FinalizationIsUnreachable == FullSpec => Spec /\ []NothingPromoted
<1>1. Init => LifecycleTypeOK /\ NothingPromoted
  BY InitialType DEF Init, NothingPromoted, NoRecord
<1>2. LifecycleTypeOK /\ [FullNext]_vars => LifecycleTypeOK'
  BY TypeStep
<1> QED BY <1>1, <1>2, NothingPromotedStep, PTL DEF FullSpec, Spec

-----------------------------------------------------------------------------
(* The commit attribution.  What a call may assert at the end it learnt at *)
(* several earlier steps, between which everything but the durable facts   *)
(* may have changed: the invariant says, step by step, which facts these   *)
(* are.                                                                    *)

\* A call past these steps built the reviewed tree, saw a durable intent, saw
\* the service's own reflog entry.
BuiltSteps == {"built", "candidate", "prepared", "committed", "rebuilt", "before_ref",
               "fresh", "ref_moved", "refound", "proven", "finalized"}
IntentSteps == BuiltSteps \ {"built", "candidate"}
ServedSteps == {"refound", "proven", "finalized"}

\* What the memory of a call rests on.
CallFounded(m) ==
  /\ m.at \in BuiltSteps => /\ m.tree = Reviewed
                            /\ Reviewed \in Scoped \cap Legible
  /\ m.saw # Baseline => commitIntent.state # "none"
  /\ m.at \in IntentSteps => commitIntent.state # "none"
  /\ m.at \in ServedSteps => Reviewed \in served
  /\ m.at = "finalized" => commitIntent.state = "finalized"
  /\ m.seen # "live" => ownership.state # "live"

\* What the durable rows rest on.
RowsFounded ==
  /\ commitIntent.state # "none" => /\ commitIntent.tree = Reviewed
                                    /\ Reviewed \in Scoped \cap Legible
  /\ commitIntent.state = "finalized" => Reviewed \in served
  /\ served # {} => commitIntent.state # "none"
  /\ reflog.by = "service" => reflog.to \in served

\* What the outcomes rest on.
OutcomeFounded(c) ==
  /\ result[c] = "accepted" => commitIntent.state = "finalized"
  /\ result[c] \in Failures => ownership.state # "live"

CommitInv ==
  /\ CommitTypeOK
  /\ RowsFounded
  /\ \A c \in Callers : CallFounded(call[c]) /\ OutcomeFounded(c)

-----------------------------------------------------------------------------
(* The facts a call or an outcome rests on are never taken back.           *)

\* Intents only advance, the lease never becomes live again, and the service's
\* entries stay in the history.
Lasting ==
  /\ commitIntent.state # "none" => commitIntent'.state # "none"
  /\ commitIntent.state = "finalized" => commitIntent'.state = "finalized"
  /\ served \subseteq served'
  /\ ownership.state # "live" => ownership'.state # "live"

\* So the memory of a call that does not move stays founded, and so do the
\* outcomes.
LEMMA FoundedLasts ==
  ASSUME NEW c \in Callers, Lasting, CallFounded(call[c]), call'[c] = call[c]
  PROVE  CallFounded(call[c])'
BY DEF CallFounded, Lasting

\* An outcome that is already there stays founded.
LEMMA OutcomeLasts ==
  ASSUME NEW c \in Callers, Lasting, OutcomeFounded(c), result'[c] = result[c]
  PROVE  OutcomeFounded(c)'
BY DEF OutcomeFounded, Lasting

\* When one caller moves and the facts last, the others need no look.
LEMMA OneMoves ==
  ASSUME CommitInv, Lasting, NEW c \in Callers,
         \A d \in Callers \ {c} : call'[d] = call[d] /\ result'[d] = result[d],
         CallFounded(call[c])', OutcomeFounded(c)'
  PROVE  (\A d \in Callers : CallFounded(call[d]) /\ OutcomeFounded(d))'
<1>1. SUFFICES ASSUME NEW d \in Callers
               PROVE  (CallFounded(call[d]) /\ OutcomeFounded(d))'
  OBVIOUS
<1>2. CASE d = c BY <1>2
<1>3. CASE d # c BY <1>3, FoundedLasts, OutcomeLasts DEF CommitInv
<1> QED BY <1>2, <1>3

-----------------------------------------------------------------------------
(* The memory of a call.                                                   *)

\* How a step moves its call: on, with what it remembers, or to its failure.
Advanced(c, next) ==
  /\ call'[c].at = next
  /\ call'[c].tree = call[c].tree /\ call'[c].saw = call[c].saw
  /\ call'[c].cas = call[c].cas /\ call'[c].seen = call[c].seen

FailedNow(c) ==
  /\ call'[c].at = "failing"
  /\ call'[c].saw = Baseline /\ call'[c].seen = call[c].seen

\* The memory a call starts from and ends with.
LEMMA IdleType == Idle \in Memory
BY CommitAssumption DEF Idle, Memory, Steps, Commits, Contents, LeaseStates, Failures

\* Failed gives a memory, of which the grant is kept.
LEMMA FailedType ==
  ASSUME NEW c \in Callers, call \in [Callers -> Memory], NEW f \in Failures
  PROVE  /\ Failed(c, f) \in Memory
         /\ Failed(c, f).at = "failing" /\ Failed(c, f).saw = Baseline
         /\ Failed(c, f).seen = call[c].seen
BY CommitAssumption DEF Failed, Idle, Memory, Steps, Commits, Contents, LeaseStates, Failures

\* What Check does to the calls.
LEMMA CheckMoves ==
  ASSUME NEW c \in Callers, call \in [Callers -> Memory],
         NEW ok \in BOOLEAN, NEW next \in Steps, NEW f \in Failures,
         call' = [call EXCEPT ![c] = IF ok THEN [@ EXCEPT !.at = next] ELSE Failed(c, f)]
  PROVE  /\ call' \in [Callers -> Memory]
         /\ \A d \in Callers \ {c} : call'[d] = call[d]
         /\ ok => Advanced(c, next)
         /\ ~ok => FailedNow(c)
<1> DEFINE on == [call[c] EXCEPT !.at = next]
<1>1. call[c] \in Memory OBVIOUS
<1>2. on \in Memory /\ on.at = next /\ on.tree = call[c].tree /\ on.saw = call[c].saw
      /\ on.cas = call[c].cas /\ on.seen = call[c].seen
  BY <1>1 DEF Memory
<1>3. call' = [call EXCEPT ![c] = IF ok THEN on ELSE Failed(c, f)] OBVIOUS
<1> HIDE DEF on
<1>4. CASE ok
  <2>1. call' = [call EXCEPT ![c] = on] BY <1>3, <1>4
  <2> QED BY <2>1, <1>2, <1>4 DEF Advanced
<1>5. CASE ~ok
  <2>1. call' = [call EXCEPT ![c] = Failed(c, f)] BY <1>3, <1>5
  <2> QED BY <2>1, <1>5, FailedType DEF FailedNow
<1> QED BY <1>4, <1>5

\* A failed call rests on what its grant rests on.
LEMMA FailedIsFounded ==
  ASSUME NEW c \in Callers, Lasting, CallFounded(call[c]), FailedNow(c)
  PROVE  CallFounded(call[c])'
BY DEF FailedNow, CallFounded, Lasting, BuiltSteps, IntentSteps, ServedSteps

\* A call that went on rests on what it rested on, and on what its new step
\* adds.
LEMMA AdvancedIsFounded ==
  ASSUME NEW c \in Callers, Lasting, CallFounded(call[c]), NEW next, Advanced(c, next),
         next \in BuiltSteps => call[c].at \in BuiltSteps,
         next \in IntentSteps => commitIntent'.state # "none",
         next \in ServedSteps => Reviewed \in served',
         next = "finalized" => commitIntent'.state = "finalized"
  PROVE  CallFounded(call[c])'
BY DEF Advanced, CallFounded, Lasting

\* Materializing a worktree writes what can be read, or the baseline.
LEMMA MaterializedReads ==
  ASSUME NEW i, i \in Materialized(worktree)
  PROVE  i \in Legible \cup {Baseline}
BY DEF Materialized, Readable

-----------------------------------------------------------------------------
(* Initially nothing is claimed.                                           *)

\* CommitInit establishes the invariant.
LEMMA CommitInvInit == CommitInit => CommitInv
<1> SUFFICES ASSUME CommitInit PROVE CommitInv OBVIOUS
<1>1. Idle.at = "idle" /\ Idle.saw = Baseline /\ Idle.seen = "live" BY DEF Idle
<1>2. CommitTypeOK
  BY CommitAssumption, IdleType
     DEF CommitInit, CommitTypeOK, Contents, Commits, Writers, LeaseStates, IntentRows,
         Leases, Outcomes
<1>3. RowsFounded BY DEF CommitInit, RowsFounded
<1>4. ASSUME NEW c \in Callers PROVE CallFounded(call[c]) /\ OutcomeFounded(c)
  BY <1>1 DEF CommitInit, CallFounded, OutcomeFounded, BuiltSteps, IntentSteps,
              ServedSteps, Failures
<1> QED BY <1>2, <1>3, <1>4 DEF CommitInv

-----------------------------------------------------------------------------
(* The steps of a call.                                                    *)

\* A step that neither writes a row, nor a ref, nor a lease, nor an outcome:
\* what is left to show is its call.
Inward(c) ==
  /\ index' \in Legible \cup {Baseline}
  /\ UNCHANGED <<worktree, deliveryRef, attemptRef, reflog, served, touched, store,
                 result, disturbances, crashes>>

\* Such a step preserves the invariant if its call stays founded.
LEMMA InwardPreserves ==
  ASSUME CommitInv, NEW c \in Callers, Inward(c),
         call' \in [Callers -> Memory],
         \A d \in Callers \ {c} : call'[d] = call[d],
         CallFounded(call[c])'
  PROVE  CommitInv'
<1>1. Lasting BY DEF Inward, Lasting, store
<1>2. CommitTypeOK' BY DEF CommitInv, CommitTypeOK, Inward, store
<1>3. RowsFounded' BY DEF CommitInv, RowsFounded, Inward, store
<1>4. OutcomeFounded(c)' BY <1>1, OutcomeLasts DEF CommitInv, Inward
<1>5. (\A d \in Callers : CallFounded(call[d]) /\ OutcomeFounded(d))'
  BY <1>1, <1>4, OneMoves DEF Inward
<1> QED BY <1>2, <1>3, <1>5 DEF CommitInv

\* The same for a step that is a check: its new step is justified by what the
\* check found.
LEMMA InwardCheck ==
  ASSUME CommitInv, NEW c \in Callers, Inward(c),
         NEW ok \in BOOLEAN, NEW next \in Steps, NEW f \in Failures, Check(c, ok, next, f),
         ok => /\ next \in BuiltSteps => call[c].at \in BuiltSteps
               /\ next \in IntentSteps => commitIntent.state # "none"
               /\ next \in ServedSteps => Reviewed \in served
               /\ next # "finalized"
  PROVE  CommitInv'
<1>1. Lasting BY DEF Inward, Lasting, store
<1>2. call \in [Callers -> Memory] /\ CallFounded(call[c]) BY DEF CommitInv, CommitTypeOK
<1>3. /\ call' \in [Callers -> Memory]
      /\ \A d \in Callers \ {c} : call'[d] = call[d]
      /\ ok => Advanced(c, next)
      /\ ~ok => FailedNow(c)
  BY <1>2, CheckMoves DEF Check
<1>4. commitIntent' = commitIntent /\ served' = served BY DEF Inward, store
<1>5. CASE ok
  <2>1. CallFounded(call[c])' BY <1>1, <1>2, <1>3, <1>4, <1>5, AdvancedIsFounded
  <2> QED BY <2>1, <1>3, InwardPreserves
<1>6. CASE ~ok
  <2>1. CallFounded(call[c])' BY <1>1, <1>2, <1>3, <1>6, FailedIsFounded
  <2> QED BY <2>1, <1>3, InwardPreserves
<1> QED BY <1>5, <1>6

\* A call comes with a grant that is not live only if the lease is not.
LEMMA CallStep == ASSUME CommitInv, NEW c \in Callers, Call(c) PROVE CommitInv'
<1> DEFINE on == [Idle EXCEPT !.at = "called", !.seen = ownership.state,
                              !.version = ownership.version]
           answer == IF result[c] = "uncontained" THEN "none" ELSE result[c]
<1>1. /\ CommitTypeOK /\ RowsFounded /\ OutcomeFounded(c)
      /\ call \in [Callers -> Memory] /\ result \in [Callers -> Outcomes]
      /\ ownership.state \in LeaseStates /\ ownership.version \in Nat
  BY DEF CommitInv, CommitTypeOK, Leases
<1>2. /\ on \in Memory /\ on.at = "called" /\ on.saw = Baseline
      /\ on.seen = ownership.state
  BY <1>1, IdleType DEF Idle, Memory, Steps
<1>3. /\ call' = [call EXCEPT ![c] = on]
      /\ result' = [result EXCEPT ![c] = answer]
      /\ UNCHANGED <<git, store, disturbances, crashes>>
  BY DEF Call
<1>4. /\ answer \in Outcomes
      /\ answer = "accepted" => result[c] = "accepted"
      /\ answer \in Failures => result[c] \in Failures
  BY <1>1 DEF Outcomes, Failures
<1> HIDE DEF on, answer
<1>5. /\ call'[c] = on /\ call' \in [Callers -> Memory]
      /\ result'[c] = answer /\ result' \in [Callers -> Outcomes]
      /\ \A d \in Callers \ {c} : call'[d] = call[d] /\ result'[d] = result[d]
  BY <1>1, <1>2, <1>3, <1>4
<1>6. Lasting BY <1>3 DEF Lasting, git, store
<1>7. CommitTypeOK' BY <1>1, <1>3, <1>5 DEF CommitTypeOK, git, store
<1>8. RowsFounded' BY <1>1, <1>3 DEF RowsFounded, git, store
<1>9. CallFounded(call[c])'
  BY <1>2, <1>3, <1>5 DEF CallFounded, BuiltSteps, IntentSteps, ServedSteps, store
<1>10. OutcomeFounded(c)' BY <1>1, <1>3, <1>4, <1>5 DEF OutcomeFounded, store
<1>11. (\A d \in Callers : CallFounded(call[d]) /\ OutcomeFounded(d))'
  BY <1>5, <1>6, <1>9, <1>10, OneMoves
<1> QED BY <1>7, <1>8, <1>11 DEF CommitInv

\* A new call rests on what it found: an attempt ref that is not at the
\* baseline on the intent, a grant that is not live on the lease.
LEMMA BeginStep == ASSUME CommitInv, NEW c \in Callers, Begin(c) PROVE CommitInv'
<1> DEFINE on == [Idle EXCEPT !.at = "observed", !.saw = attemptRef,
                              !.version = ownership.version]
           seen == IF Fresh THEN ownership.state ELSE call[c].seen
           version == IF Fresh THEN ownership.version ELSE call[c].version
           why == IF Fresh THEN "rejected" ELSE StaleFailure
           off == [Idle EXCEPT !.at = "failing", !.seen = seen, !.version = version,
                               !.failure = why]
<1>1. /\ attemptRef \in Commits /\ call \in [Callers -> Memory]
      /\ ownership.state \in LeaseStates /\ ownership.version \in Nat
      /\ call[c].seen \in LeaseStates /\ call[c].version \in Nat
      /\ CallFounded(call[c])
  BY DEF CommitInv, CommitTypeOK, Leases, Memory
<1>2. seen \in LeaseStates /\ version \in Nat /\ why \in Failures
  BY <1>1 DEF Failures, StaleFailure
<1>3. on \in Memory /\ on.at = "observed" /\ on.saw = attemptRef /\ on.seen = "live"
  BY <1>1, IdleType DEF Idle, Memory, Steps
<1>4. off \in Memory /\ off.at = "failing" /\ off.saw = Baseline /\ off.seen = seen
  <2> HIDE DEF seen, version, why
  <2> QED BY <1>2, IdleType DEF Idle, Memory, Steps
<1>5. seen # "live" => ownership.state # "live" BY <1>1 DEF CallFounded
<1>6. call' = [call EXCEPT ![c] = IF AsAllocated THEN on ELSE off] BY DEF Begin
<1>7. Inward(c) BY DEF Begin, Inward, git, CommitInv, CommitTypeOK
<1> HIDE DEF on, off, seen, version, why
<1>8. CASE AsAllocated
  <2>1. call' = [call EXCEPT ![c] = on] BY <1>6, <1>8
  <2>2. call'[c] = on /\ call' \in [Callers -> Memory]
        /\ \A d \in Callers \ {c} : call'[d] = call[d]
    BY <2>1, <1>1, <1>3
  <2>3. attemptRef # Baseline => commitIntent.state # "none"
    BY <1>8 DEF AsAllocated, IntentReplay
  <2>4. CallFounded(call[c])'
    BY <2>2, <2>3, <1>3, <1>7
       DEF CallFounded, BuiltSteps, IntentSteps, ServedSteps, Inward, store
  <2> QED BY <2>2, <2>4, <1>7, InwardPreserves
<1>9. CASE ~AsAllocated
  <2>1. call' = [call EXCEPT ![c] = off] BY <1>6, <1>9
  <2>2. call'[c] = off /\ call' \in [Callers -> Memory]
        /\ \A d \in Callers \ {c} : call'[d] = call[d]
    BY <2>1, <1>1, <1>4
  <2>3. CallFounded(call[c])'
    BY <2>2, <1>4, <1>5, <1>7
       DEF CallFounded, BuiltSteps, IntentSteps, ServedSteps, Inward, store
  <2> QED BY <2>2, <2>3, <1>7, InwardPreserves
<1> QED BY <1>8, <1>9

\* Build admits the reviewed tree only, and reads it.
LEMMA BuildStep == ASSUME CommitInv, NEW c \in Callers, Build(c) PROVE CommitInv'
<1>1. /\ call \in [Callers -> Memory] /\ call[c] \in Memory /\ CallFounded(call[c])
      /\ index \in Legible \cup {Baseline}
  BY DEF CommitInv, CommitTypeOK
<1>2. CASE Check(c, FALSE, "built", "rejected") /\ UNCHANGED index
  <2>1. Inward(c) BY <1>1, <1>2 DEF Build, Inward
  <2> QED BY <2>1, <1>2, InwardCheck DEF Steps, Failures
<1>3. CASE /\ index' \in Materialized(worktree)
           /\ call' = [call EXCEPT ![c] =
                IF index' # Baseline /\ ExactScope(index') /\ Preparation(index')
                THEN [@ EXCEPT !.at = "built", !.tree = index']
                ELSE Failed(c, "rejected")]
  <2>1. Inward(c) BY <1>3, MaterializedReads DEF Build, Inward
  <2>2. CASE index' # Baseline /\ ExactScope(index') /\ Preparation(index')
    <3>1. index' = Reviewed /\ Reviewed \in Scoped \cap Legible
      BY <2>1, <2>2 DEF Inward, ExactScope, Preparation
    <3> DEFINE on == [call[c] EXCEPT !.at = "built", !.tree = Reviewed]
    <3>2. on \in Memory /\ on.at = "built" /\ on.tree = Reviewed
          /\ on.saw = call[c].saw /\ on.seen = call[c].seen
      BY <1>1, CommitAssumption DEF Memory, Steps
    <3>3. call' = [call EXCEPT ![c] = on] BY <1>3, <2>2, <3>1
    <3> HIDE DEF on
    <3>4. call'[c] = on /\ call' \in [Callers -> Memory]
          /\ \A d \in Callers \ {c} : call'[d] = call[d]
      BY <3>2, <3>3, <1>1
    <3>5. CallFounded(call[c])'
      BY <3>1, <3>2, <3>4, <1>1, <2>1
         DEF CallFounded, BuiltSteps, IntentSteps, ServedSteps, Inward, store
    <3> QED BY <2>1, <3>4, <3>5, InwardPreserves
  <2>3. CASE ~(index' # Baseline /\ ExactScope(index') /\ Preparation(index'))
    <3>1. Check(c, FALSE, "built", "rejected") BY <1>3, <2>3 DEF Check
    <3> QED BY <2>1, <3>1, InwardCheck DEF Steps, Failures
  <2> QED BY <2>2, <2>3
<1> QED BY <1>2, <1>3 DEF Build

\* The checks that only read: the paths again, the commit object, the owner
\* before the ref transaction, a failing command.
LEMMA ReadingStep ==
  ASSUME CommitInv, NEW c \in Callers,
         \/ RestoreIndex(c) \/ CreateCommit(c) \/ SignTransaction(c) \/ Prove(c)
  PROVE  CommitInv'
<1>1. index \in Legible \cup {Baseline} /\ CallFounded(call[c])
  BY DEF CommitInv, CommitTypeOK
<1> USE DEF Steps, Failures, BuiltSteps, IntentSteps, ServedSteps
<1>2. CASE RestoreIndex(c)
  <2>1. PICK same \in BOOLEAN :
          /\ Check(c, SamePaths(c, same), "candidate", "rejected")
          /\ index' = IF SamePaths(c, same) THEN Baseline ELSE index
    BY <1>2 DEF RestoreIndex
  <2>2. Inward(c) BY <1>1, <1>2, <2>1 DEF RestoreIndex, Inward
  <2>3. SamePaths(c, same) \in BOOLEAN BY DEF SamePaths
  <2>4. call[c].at = "built" BY <1>2 DEF RestoreIndex
  <2> QED BY <2>1, <2>2, <2>3, <2>4, InwardCheck
<1>3. CASE CreateCommit(c)
  <2>1. Inward(c) BY <1>1, <1>3 DEF CreateCommit, Inward, git
  <2>2. call[c].at = "prepared" /\ commitIntent.state # "none"
    BY <1>1, <1>3 DEF CreateCommit, CallFounded
  <2> DEFINE ok == call[c].saw \in {Baseline, call[c].tree}
  <2>3. Check(c, ok, "committed", "rejected") BY <1>3 DEF CreateCommit
  <2>4. ok \in BOOLEAN OBVIOUS
  <2> HIDE DEF ok
  <2> QED BY <2>1, <2>2, <2>3, <2>4, InwardCheck
<1>4. CASE SignTransaction(c)
  <2>1. Inward(c) BY <1>1, <1>4 DEF SignTransaction, Inward, git
  <2>2. call[c].at = "before_ref" /\ commitIntent.state # "none"
    BY <1>1, <1>4 DEF SignTransaction, CallFounded
  <2>3. Check(c, Fresh, "fresh", StaleFailure) BY <1>4 DEF SignTransaction
  <2>4. Fresh \in BOOLEAN /\ StaleFailure \in Failures BY DEF Fresh, StaleFailure
  <2> QED BY <2>1, <2>2, <2>3, <2>4, InwardCheck
<1>5. CASE Prove(c)
  <2>1. PICK same \in BOOLEAN :
          /\ index' = IF SamePaths(c, same) THEN Baseline ELSE index
          /\ Check(c, SamePaths(c, same) /\ HeadIntact /\ CallerIntact, "proven", "rejected")
    BY <1>5 DEF Prove
  <2>2. Inward(c) BY <1>1, <1>5, <2>1 DEF Prove, Inward
  <2>3. (SamePaths(c, same) /\ HeadIntact /\ CallerIntact) \in BOOLEAN OBVIOUS
  <2>4. call[c].at = "refound" /\ commitIntent.state # "none" /\ Reviewed \in served
    BY <1>1, <1>5 DEF Prove, CallFounded
  <2> QED BY <2>1, <2>2, <2>3, <2>4, InwardCheck
<1> QED BY <1>2, <1>3, <1>4, <1>5

\* A candidate that is built again moves its call on only when the step before
\* found what the new one claims.
LEMMA RebuiltStep ==
  ASSUME CommitInv, NEW c \in Callers, NEW ok \in BOOLEAN, NEW next \in Steps,
         NEW f \in Failures, Rebuilt(c, ok, next, f),
         ok => /\ next \in BuiltSteps => call[c].at \in BuiltSteps
               /\ next \in IntentSteps => commitIntent.state # "none"
               /\ next \in ServedSteps => Reviewed \in served
               /\ next # "finalized"
  PROVE  CommitInv'
<1>1. index \in Legible \cup {Baseline} BY DEF CommitInv, CommitTypeOK
<1>2. Inward(c)
  <2>1. CASE ok BY <2>1, MaterializedReads DEF Rebuilt, Inward
  <2>2. CASE ~ok BY <1>1, <2>2 DEF Rebuilt, Inward
  <2> QED BY <2>1, <2>2
<1> DEFINE all == ok /\ Readable(worktree) /\ index' = call[c].tree
           why == IF ok THEN "rejected" ELSE f
<1>3. Check(c, all, next, why) BY DEF Rebuilt
<1>4. all \in BOOLEAN /\ why \in Failures BY DEF Failures
<1>5. all => ok OBVIOUS
<1> HIDE DEF all, why
<1> QED BY <1>2, <1>3, <1>4, <1>5, InwardCheck

\* Before the ref moves, and after: the reflog entry is what shows that the
\* service moved it.
LEMMA RebuildingStep ==
  ASSUME CommitInv, NEW c \in Callers, Rebuild(c) \/ AfterRef(c)
  PROVE  CommitInv'
<1>1. CallFounded(call[c]) /\ RowsFounded BY DEF CommitInv
<1> USE DEF Steps, Failures, BuiltSteps, IntentSteps, ServedSteps
<1>2. CASE Rebuild(c)
  <2>1. Rebuilt(c, CallerIntact, "rebuilt", "rejected") /\ call[c].at = "committed"
    BY <1>2 DEF Rebuild
  <2>2. commitIntent.state # "none" BY <1>1, <2>1 DEF CallFounded
  <2>3. CallerIntact \in BOOLEAN BY DEF CallerIntact
  <2> QED BY <2>1, <2>2, <2>3, RebuiltStep
<1>3. CASE AfterRef(c)
  <2> DEFINE refs == deliveryRef = Baseline /\ attemptRef = call[c].tree
             ok == Fresh /\ refs /\ ReflogProof(c)
             why == IF ~Fresh THEN StaleFailure
                    ELSE IF ~refs THEN "infrastructure_error" ELSE "rejected"
  <2>1. Rebuilt(c, ok, "refound", why) /\ call[c].at = "ref_moved" BY <1>3 DEF AfterRef
  <2>2. ok \in BOOLEAN /\ why \in Failures BY DEF StaleFailure
  <2>3. commitIntent.state # "none" /\ call[c].tree = Reviewed BY <1>1, <2>1 DEF CallFounded
  <2>4. ok => Reviewed \in served BY <1>1, <2>3 DEF ReflogProof, RowsFounded
  <2> HIDE DEF ok, why
  <2> QED BY <2>1, <2>2, <2>3, <2>4, RebuiltStep
<1> QED BY <1>2, <1>3

\* The preimage of the swap is remembered.
LEMMA RestoreBeforeRefStep ==
  ASSUME CommitInv, NEW c \in Callers, RestoreBeforeRef(c)
  PROVE  CommitInv'
<1>1. /\ call \in [Callers -> Memory] /\ call[c] \in Memory /\ CallFounded(call[c])
      /\ index \in Legible \cup {Baseline} /\ attemptRef \in Commits
  BY DEF CommitInv, CommitTypeOK
<1>2. PICK same \in BOOLEAN :
        /\ index' = IF SamePaths(c, same) THEN Baseline ELSE index
        /\ call' = [call EXCEPT ![c] =
             IF /\ SamePaths(c, same)
                /\ deliveryRef = Baseline /\ attemptRef \in {Baseline, call[c].tree}
             THEN [@ EXCEPT !.at = "before_ref", !.cas = attemptRef]
             ELSE Failed(c, "rejected")]
  BY DEF RestoreBeforeRef
<1>3. Inward(c) BY <1>1, <1>2 DEF RestoreBeforeRef, Inward
<1>4. call[c].at = "rebuilt" BY DEF RestoreBeforeRef
<1> DEFINE on == [call[c] EXCEPT !.at = "before_ref", !.cas = attemptRef]
<1>5. on \in Memory /\ on.at = "before_ref" /\ on.tree = call[c].tree
      /\ on.saw = call[c].saw /\ on.seen = call[c].seen
  BY <1>1 DEF Memory, Steps
<1>6. CASE call' = [call EXCEPT ![c] = on]
  <2> HIDE DEF on
  <2>1. call'[c] = on /\ call' \in [Callers -> Memory]
        /\ \A d \in Callers \ {c} : call'[d] = call[d]
    BY <1>1, <1>5, <1>6
  <2>2. CallFounded(call[c])'
    BY <2>1, <1>1, <1>3, <1>4, <1>5
       DEF CallFounded, BuiltSteps, IntentSteps, ServedSteps, Inward, store
  <2> QED BY <2>1, <2>2, <1>3, InwardPreserves
<1>7. CASE call' = [call EXCEPT ![c] = Failed(c, "rejected")]
  <2>1. Check(c, FALSE, "built", "rejected") BY <1>7 DEF Check
  <2> QED BY <2>1, <1>3, InwardCheck DEF Steps, Failures
<1> QED BY <1>2, <1>6, <1>7

\* The intent is recorded for the reviewed tree, or found: either way it is
\* durable when the call goes on.
LEMMA PrepareStep == ASSUME CommitInv, NEW c \in Callers, Prepare(c) PROVE CommitInv'
<1> DEFINE prepares == call[c].saw = Baseline
           ok == prepares => Preparable(c)
<1>1. /\ CommitTypeOK /\ call \in [Callers -> Memory] /\ commitIntent \in IntentRows
      /\ CallFounded(call[c]) /\ RowsFounded /\ OutcomeFounded(c)
  BY DEF CommitInv, CommitTypeOK
<1>2. /\ call[c].at = "candidate" /\ Check(c, ok, "prepared", "rejected")
      /\ commitIntent' = IF prepares /\ Preparable(c) THEN PreparedIntent(c) ELSE commitIntent
      /\ UNCHANGED <<git, ownership, converging, result, disturbances, crashes>>
  BY DEF Prepare
<1>3. call[c].tree = Reviewed /\ Reviewed \in Scoped \cap Legible
  BY <1>1, <1>2 DEF CallFounded, BuiltSteps
<1>4. /\ commitIntent' \in IntentRows
      /\ commitIntent.state # "none" => commitIntent' = commitIntent
      /\ commitIntent'.state # "none" => commitIntent'.tree = Reviewed
      /\ commitIntent'.state = "finalized" => commitIntent = commitIntent'
  <2>1. CASE commitIntent' = commitIntent BY <1>1, <2>1 DEF RowsFounded
  <2>2. CASE commitIntent' = PreparedIntent(c) /\ ~IntentReplay
    <3>1. call[c].version \in Nat BY <1>1 DEF Memory
    <3> QED BY <1>3, <2>2, <3>1, CommitAssumption
            DEF PreparedIntent, NewIntent, IntentReplay, IntentRows
  <2>3. CASE commitIntent' = PreparedIntent(c) /\ IntentReplay
    BY <2>1, <2>3 DEF PreparedIntent
  <2> QED BY <1>2, <2>1, <2>2, <2>3
<1>5. ok => commitIntent'.state # "none"
  <2>1. CASE ~prepares BY <1>1, <1>2, <2>1 DEF CallFounded
  <2>2. CASE prepares /\ Preparable(c) /\ IntentReplay
    BY <1>2, <2>2 DEF PreparedIntent, IntentReplay
  <2>3. CASE prepares /\ Preparable(c) /\ ~IntentReplay
    BY <1>2, <2>3 DEF PreparedIntent, NewIntent
  <2> QED BY <2>1, <2>2, <2>3
<1>6. Lasting BY <1>2, <1>4 DEF Lasting, git
<1>7. ok \in BOOLEAN OBVIOUS
<1> HIDE DEF ok, prepares
<1>8. /\ call' \in [Callers -> Memory]
      /\ \A d \in Callers \ {c} : call'[d] = call[d]
      /\ ok => Advanced(c, "prepared")
      /\ ~ok => FailedNow(c)
  BY <1>1, <1>2, <1>7, CheckMoves DEF Check, Steps, Failures
<1>9. CommitTypeOK' BY <1>1, <1>2, <1>4, <1>8 DEF CommitTypeOK, git
<1>10. RowsFounded' BY <1>1, <1>2, <1>3, <1>4 DEF RowsFounded, git
<1>11. CallFounded(call[c])'
  <2>1. CASE ok
    BY <1>1, <1>2, <1>5, <1>6, <1>8, <2>1, AdvancedIsFounded
       DEF BuiltSteps, IntentSteps, ServedSteps
  <2>2. CASE ~ok BY <1>1, <1>6, <1>8, <2>2, FailedIsFounded
  <2> QED BY <2>1, <2>2
<1>12. OutcomeFounded(c)' BY <1>1, <1>2, <1>6, OutcomeLasts
<1>13. (\A d \in Callers : CallFounded(call[d]) /\ OutcomeFounded(d))'
  BY <1>2, <1>6, <1>8, <1>11, <1>12, OneMoves
<1> QED BY <1>9, <1>10, <1>13 DEF CommitInv

\* The ref is moved under a durable intent, and what it is moved to is kept in
\* the history together with the service's own entry.
LEMMA RefTransactionStep ==
  ASSUME CommitInv, NEW c \in Callers, RefTransaction(c)
  PROVE  CommitInv'
<1> DEFINE t == call[c].tree
           ok == deliveryRef = Baseline /\ attemptRef = call[c].cas
           moves == ok /\ call[c].cas = Baseline
<1>1. /\ CommitTypeOK /\ call \in [Callers -> Memory]
      /\ CallFounded(call[c]) /\ RowsFounded /\ OutcomeFounded(c)
  BY DEF CommitInv, CommitTypeOK
<1>2. /\ call[c].at = "fresh" /\ Check(c, ok, "ref_moved", "infrastructure_error")
      /\ attemptRef' = IF moves THEN t ELSE attemptRef
      /\ reflog' = IF moves THEN [to |-> t, by |-> "service"] ELSE reflog
      /\ served' = IF moves THEN served \cup {t} ELSE served
      /\ UNCHANGED <<worktree, index, deliveryRef, touched, store,
                     result, disturbances, crashes>>
  BY DEF RefTransaction
<1>3. t = Reviewed /\ commitIntent.state # "none"
  BY <1>1, <1>2 DEF CallFounded, BuiltSteps, IntentSteps
<1>4. Reviewed \in Trees /\ Reviewed \in Commits
  BY CommitAssumption DEF Commits, Contents
<1>5. ok \in BOOLEAN OBVIOUS
<1> HIDE DEF ok, moves, t
<1>6. /\ attemptRef' \in Commits /\ reflog' \in [to : Commits, by : Writers]
      /\ served' \subseteq Trees
  BY <1>1, <1>2, <1>3, <1>4 DEF CommitTypeOK, Writers
<1>7. Lasting BY <1>2 DEF Lasting, store
<1>8. /\ call' \in [Callers -> Memory]
      /\ \A d \in Callers \ {c} : call'[d] = call[d]
      /\ ok => Advanced(c, "ref_moved")
      /\ ~ok => FailedNow(c)
  BY <1>1, <1>2, <1>5, CheckMoves DEF Check, Steps, Failures
<1>9. CommitTypeOK' BY <1>1, <1>2, <1>6, <1>8 DEF CommitTypeOK, store
<1>10. RowsFounded'
  <2>1. CASE moves BY <1>1, <1>2, <1>3, <2>1 DEF RowsFounded, store
  <2>2. CASE ~moves BY <1>1, <1>2, <2>2 DEF RowsFounded, store
  <2> QED BY <2>1, <2>2
<1>11. CallFounded(call[c])'
  <2>1. CASE ok
    <3>1. commitIntent' = commitIntent BY <1>2 DEF store
    <3> QED BY <1>1, <1>2, <1>3, <1>7, <1>8, <2>1, <3>1, AdvancedIsFounded
               DEF BuiltSteps, IntentSteps, ServedSteps
  <2>2. CASE ~ok BY <1>1, <1>7, <1>8, <2>2, FailedIsFounded
  <2> QED BY <2>1, <2>2
<1>12. OutcomeFounded(c)' BY <1>1, <1>2, <1>7, OutcomeLasts
<1>13. (\A d \in Callers : CallFounded(call[d]) /\ OutcomeFounded(d))'
  BY <1>2, <1>7, <1>8, <1>11, <1>12, OneMoves
<1> QED BY <1>9, <1>10, <1>13 DEF CommitInv

\* The row is finalized by a call that saw the service's own reflog entry.
LEMMA FinalizeStep == ASSUME CommitInv, NEW c \in Callers, Finalize(c) PROVE CommitInv'
<1>1. /\ CommitTypeOK /\ call \in [Callers -> Memory] /\ commitIntent \in IntentRows
      /\ CallFounded(call[c]) /\ RowsFounded /\ OutcomeFounded(c)
  BY DEF CommitInv, CommitTypeOK
<1>2. /\ call[c].at = "proven" /\ Check(c, Finalizable(c), "finalized", "rejected")
      /\ commitIntent' = IF Finalizable(c) THEN [commitIntent EXCEPT !.state = "finalized"] ELSE commitIntent
      /\ UNCHANGED <<git, ownership, converging, result, disturbances, crashes>>
  BY DEF Finalize
<1>3. call[c].tree = Reviewed /\ Reviewed \in served /\ commitIntent.state # "none"
  BY <1>1, <1>2 DEF CallFounded, BuiltSteps, IntentSteps, ServedSteps
<1>4. /\ commitIntent' \in IntentRows /\ commitIntent'.tree = commitIntent.tree /\ commitIntent'.state # "none"
      /\ commitIntent.state = "finalized" => commitIntent'.state = "finalized"
      /\ Finalizable(c) => commitIntent'.state = "finalized"
  <2>1. CASE Finalizable(c) BY <1>1, <1>2, <2>1 DEF IntentRows
  <2>2. CASE ~Finalizable(c) BY <1>1, <1>2, <1>3, <2>2
  <2> QED BY <2>1, <2>2
<1>5. Lasting BY <1>2, <1>4 DEF Lasting, git
<1>6. Finalizable(c) \in BOOLEAN BY DEF Finalizable
<1>7. /\ call' \in [Callers -> Memory]
      /\ \A d \in Callers \ {c} : call'[d] = call[d]
      /\ Finalizable(c) => Advanced(c, "finalized")
      /\ ~Finalizable(c) => FailedNow(c)
  BY <1>1, <1>2, <1>6, CheckMoves DEF Check, Steps, Failures
<1>8. CommitTypeOK' BY <1>1, <1>2, <1>4, <1>7 DEF CommitTypeOK, git
<1>9. RowsFounded' BY <1>1, <1>2, <1>3, <1>4 DEF RowsFounded, git
<1>10. CallFounded(call[c])'
  <2>1. CASE Finalizable(c)
    <3>1. served' = served BY <1>2 DEF git
    <3> QED BY <1>1, <1>2, <1>3, <1>4, <1>5, <1>7, <2>1, <3>1, AdvancedIsFounded
               DEF BuiltSteps, IntentSteps, ServedSteps
  <2>2. CASE ~Finalizable(c) BY <1>1, <1>5, <1>7, <2>2, FailedIsFounded
  <2> QED BY <2>1, <2>2
<1>11. OutcomeFounded(c)' BY <1>1, <1>2, <1>5, OutcomeLasts
<1>12. (\A d \in Callers : CallFounded(call[d]) /\ OutcomeFounded(d))'
  BY <1>2, <1>5, <1>7, <1>10, <1>11, OneMoves
<1> QED BY <1>8, <1>9, <1>12 DEF CommitInv

\* The memory of a finished or died call claims nothing.
LEMMA IdleIsFounded ==
  ASSUME NEW c \in Callers, call'[c] = Idle
  PROVE  CallFounded(call[c])'
BY DEF Idle, CallFounded, BuiltSteps, IntentSteps, ServedSteps

\* A call answers accepted once the row is finalized; one that failed leaves no
\* live lease, whichever grant it came with; one that died claims nothing.
LEMMA EndingStep ==
  ASSUME CommitInv, NEW c \in Callers, Return(c) \/ Contain(c) \/ Crash(c)
  PROVE  CommitInv'
<1>1. /\ CommitTypeOK /\ CallFounded(call[c]) /\ RowsFounded /\ OutcomeFounded(c)
      /\ call \in [Callers -> Memory] /\ call[c] \in Memory
      /\ result \in [Callers -> Outcomes] /\ ownership \in Leases
  BY DEF CommitInv, CommitTypeOK
<1>2. call' = [call EXCEPT ![c] = Idle] BY DEF Return, Contain, Crash
<1>3. /\ call' \in [Callers -> Memory] /\ call'[c] = Idle
      /\ \A d \in Callers \ {c} : call'[d] = call[d]
  BY <1>1, <1>2, IdleType
<1>4. UNCHANGED <<git, converging, commitIntent>>
  BY DEF Return, Contain, Crash, store
<1>5. /\ Lasting /\ OutcomeFounded(c)' /\ CommitTypeOK'
      /\ \A d \in Callers \ {c} : result'[d] = result[d]
  <2>1. CASE Return(c)
    <3>1. ownership' = ownership /\ result' = [result EXCEPT ![c] = "accepted"]
          /\ UNCHANGED <<disturbances, crashes>>
      BY <2>1 DEF Return, store
    <3>2. result' \in [Callers -> Outcomes]
          /\ result'[c] = "accepted" /\ "accepted" \notin Failures
      BY <1>1, <3>1 DEF Failures, Outcomes
    <3>3. commitIntent.state = "finalized" BY <1>1, <2>1 DEF Return, CallFounded
    <3>4. Lasting BY <3>1, <1>4 DEF Lasting, git
    <3>5. OutcomeFounded(c)' BY <3>2, <3>3, <1>4 DEF OutcomeFounded
    <3>6. CommitTypeOK' BY <1>1, <1>3, <1>4, <3>1, <3>2 DEF CommitTypeOK, git
    <3> QED BY <1>1, <3>1, <3>4, <3>5, <3>6
  <2>2. CASE Contain(c)
    <3> DEFINE begun == [ownership EXCEPT !.state = "cleanup_pending", !.by = "service"]
    <3>1. PICK thrown \in BOOLEAN :
            /\ thrown => disturbances < MaxDisturbances
            /\ disturbances' = IF thrown THEN disturbances + 1 ELSE disturbances
            /\ ownership' = IF ~thrown /\ Begins(c) THEN begun ELSE ownership
            /\ result' = [result EXCEPT ![c] = Outcome(c, thrown)]
            /\ crashes' = crashes
      BY <2>2 DEF Contain
    <3>2. begun \in Leases /\ begun.state = "cleanup_pending"
      BY <1>1 DEF Leases, LeaseStates, Writers
    <3> HIDE DEF begun
    <3>3. ownership' \in Leases /\ (ownership.state # "live" => ownership'.state # "live")
      BY <3>1, <3>2, <1>1
    <3>4. Outcome(c, thrown) \in Outcomes /\ Outcome(c, thrown) # "accepted"
      BY <1>1 DEF Outcome, Outcomes, Memory, Failures
    <3>5. Outcome(c, thrown) \in Failures => ownership'.state # "live"
      <4> SUFFICES ASSUME Outcome(c, thrown) \in Failures PROVE ownership'.state # "live"
        OBVIOUS
      <4>1. ~thrown /\ (Begins(c) \/ Replays(c)) BY DEF Outcome, Failures
      <4>2. CASE Begins(c) BY <3>1, <3>2, <4>1, <4>2
      <4>3. CASE ~Begins(c) /\ Replays(c)
        BY <3>1, <4>3 DEF Begins, Replays
      <4> QED BY <4>1, <4>2, <4>3
    <3>6. /\ result'[c] = Outcome(c, thrown) /\ result' \in [Callers -> Outcomes]
          /\ \A d \in Callers \ {c} : result'[d] = result[d]
      BY <3>1, <3>4, <1>1
    <3>7. Lasting BY <1>4, <3>3 DEF Lasting, git
    <3>8. OutcomeFounded(c)' BY <3>4, <3>5, <3>6 DEF OutcomeFounded
    <3>9. disturbances' \in 0 .. MaxDisturbances
      BY <1>1, <3>1, CommitAssumption DEF CommitTypeOK
    <3>10. CommitTypeOK' BY <1>1, <1>3, <1>4, <3>1, <3>3, <3>6, <3>9 DEF CommitTypeOK, git
    <3> QED BY <3>6, <3>7, <3>8, <3>10
  <2>3. CASE Crash(c)
    <3>1. ownership' = ownership /\ result' = result /\ disturbances' = disturbances
          /\ crashes < MaxCrashes /\ crashes' = crashes + 1
      BY <2>3 DEF Crash, store
    <3>2. Lasting BY <3>1, <1>4 DEF Lasting, git
    <3>3. OutcomeFounded(c)' BY <3>1, <3>2, <1>1, OutcomeLasts
    <3>4. crashes' \in 0 .. MaxCrashes BY <1>1, <3>1, CommitAssumption DEF CommitTypeOK
    <3>5. CommitTypeOK' BY <1>1, <1>3, <1>4, <3>1, <3>4 DEF CommitTypeOK, git
    <3> QED BY <3>1, <3>2, <3>3, <3>5
  <2> QED BY <2>1, <2>2, <2>3
<1>6. RowsFounded' BY <1>1, <1>4 DEF RowsFounded, git
<1>7. (\A d \in Callers : CallFounded(call[d]) /\ OutcomeFounded(d))'
  BY <1>3, <1>5, IdleIsFounded, OneMoves
<1> QED BY <1>5, <1>6, <1>7 DEF CommitInv

\* A command that fails is the failure of its call.
LEMMA GitFailsStep == ASSUME CommitInv, NEW c \in Callers, GitFails(c) PROVE CommitInv'
<1>1. /\ CommitTypeOK /\ CallFounded(call[c]) /\ RowsFounded /\ OutcomeFounded(c)
      /\ call \in [Callers -> Memory]
  BY DEF CommitInv, CommitTypeOK
<1>2. /\ Check(c, FALSE, "failing", "infrastructure_error")
      /\ disturbances < MaxDisturbances /\ disturbances' = disturbances + 1
      /\ UNCHANGED <<git, store, result, crashes>>
  BY DEF GitFails
<1>3. Lasting BY <1>2 DEF Lasting, git, store
<1>4. /\ call' \in [Callers -> Memory]
      /\ \A d \in Callers \ {c} : call'[d] = call[d]
      /\ FailedNow(c)
  BY <1>1, <1>2, CheckMoves DEF Check, Steps, Failures
<1>5. disturbances' \in 0 .. MaxDisturbances
  BY <1>1, <1>2, CommitAssumption DEF CommitTypeOK
<1>6. CommitTypeOK' BY <1>1, <1>2, <1>4, <1>5 DEF CommitTypeOK, git, store
<1>7. RowsFounded' BY <1>1, <1>2 DEF RowsFounded, git, store
<1>8. CallFounded(call[c])' BY <1>1, <1>3, <1>4, FailedIsFounded
<1>9. OutcomeFounded(c)' BY <1>1, <1>2, <1>3, OutcomeLasts
<1>10. (\A d \in Callers : CallFounded(call[d]) /\ OutcomeFounded(d))'
  BY <1>2, <1>3, <1>4, <1>8, <1>9, OneMoves
<1> QED BY <1>6, <1>7, <1>10 DEF CommitInv

\* Nobody else writes the intent or the history, makes the lease live again, or
\* signs a reflog entry as the service.
LEMMA DisturbStep == ASSUME CommitInv, Disturb PROVE CommitInv'
<1>1. /\ CommitTypeOK /\ RowsFounded
      /\ \A c \in Callers : CallFounded(call[c]) /\ OutcomeFounded(c)
      /\ ownership \in Leases
  BY DEF CommitInv, CommitTypeOK
<1>2. /\ disturbances < MaxDisturbances /\ disturbances' = disturbances + 1
      /\ UNCHANGED <<call, result, crashes>>
  BY DEF Disturb
<1>3. disturbances' \in 0 .. MaxDisturbances
  BY <1>1, <1>2, CommitAssumption DEF CommitTypeOK
<1>4. /\ index' = index /\ served' = served /\ commitIntent' = commitIntent
      /\ worktree' \in Contents /\ deliveryRef' \in Commits /\ attemptRef' \in Commits
      /\ touched' \subseteq {"head", "caller"}
      /\ reflog' \in [to : Commits, by : Writers]
      /\ reflog' = reflog \/ reflog'.by = "other"
      /\ ownership' \in Leases
      /\ ownership.state # "live" => ownership'.state # "live"
      /\ converging' \in BOOLEAN
  <2>1. CASE RepositoryChanges
    <3>1. index' = index /\ served' = served /\ commitIntent' = commitIntent /\ ownership' = ownership
          /\ converging' = converging
      BY <2>1 DEF RepositoryChanges, store
    <3>2. /\ worktree' \in Contents /\ deliveryRef' \in Commits /\ attemptRef' \in Commits
          /\ touched' \subseteq {"head", "caller"}
          /\ reflog' = reflog \/ reflog' = [to |-> attemptRef', by |-> "other"]
      BY <1>1, <2>1, CommitAssumption DEF RepositoryChanges, CommitTypeOK, Commits, Contents
    <3>3. reflog' \in [to : Commits, by : Writers]
          /\ (reflog' = reflog \/ reflog'.by = "other")
      BY <1>1, <3>2 DEF CommitTypeOK, Writers
    <3> QED BY <1>1, <3>1, <3>2, <3>3 DEF CommitTypeOK
  <2>2. CASE LeaseClock \/ Heartbeat \/ AttemptLeaves \/ OtherCleanup \/ StaleRecovery
    <3>1. UNCHANGED git /\ commitIntent' = commitIntent /\ converging' \in BOOLEAN
      BY <1>1, <2>2 DEF LeaseClock, Heartbeat, AttemptLeaves, OtherCleanup, StaleRecovery, CommitTypeOK
    <3>2. /\ ownership' \in Leases
          /\ ownership.state # "live" => ownership'.state # "live"
      <4>1. CASE LeaseClock BY <1>1, <4>1 DEF LeaseClock, Leases
      <4>5. CASE Heartbeat BY <1>1, <4>5 DEF Heartbeat, Leases
      <4>2. CASE AttemptLeaves BY <1>1, <4>2 DEF AttemptLeaves
      <4>3. CASE OtherCleanup BY <1>1, <4>3 DEF OtherCleanup, Leases, LeaseStates, Writers
      <4>4. CASE StaleRecovery BY <1>1, <4>4 DEF StaleRecovery, Leases, LeaseStates
      <4> QED BY <2>2, <4>1, <4>2, <4>3, <4>4, <4>5
    <3> QED BY <1>1, <3>1, <3>2 DEF git, CommitTypeOK
  <2> QED BY <2>1, <2>2 DEF Disturb
<1>5. Lasting BY <1>4 DEF Lasting
<1>6. CommitTypeOK' BY <1>1, <1>2, <1>3, <1>4 DEF CommitTypeOK
<1>7. RowsFounded' BY <1>1, <1>4 DEF RowsFounded
<1>8. ASSUME NEW c \in Callers PROVE (CallFounded(call[c]) /\ OutcomeFounded(c))'
  BY <1>1, <1>2, <1>5, FoundedLasts, OutcomeLasts
<1> QED BY <1>6, <1>7, <1>8 DEF CommitInv

-----------------------------------------------------------------------------
(* The theorems.                                                           *)

\* No step of CommitService, and none of anybody else, takes the invariant away.
LEMMA CommitInvStep == CommitInv /\ [CommitNext]_commitVars => CommitInv'
<1> SUFFICES ASSUME CommitInv, [CommitNext]_commitVars PROVE CommitInv' OBVIOUS
<1>1. CASE Disturb BY <1>1, DisturbStep
<1>2. ASSUME NEW c \in Callers, Advance(c) PROVE CommitInv'
  BY <1>2, CallStep, BeginStep, BuildStep, ReadingStep, RebuildingStep, RestoreBeforeRefStep,
     PrepareStep, RefTransactionStep, FinalizeStep, EndingStep DEF Advance
<1>3. ASSUME NEW c \in Callers, GitFails(c) PROVE CommitInv' BY <1>3, GitFailsStep
<1>4. ASSUME NEW c \in Callers, Crash(c) PROVE CommitInv' BY <1>4, EndingStep
<1>5. CASE UNCHANGED commitVars
  BY <1>5 DEF commitVars, git, store, CommitInv, CommitTypeOK, RowsFounded,
              CallFounded, OutcomeFounded
<1> QED BY <1>1, <1>2, <1>3, <1>4, <1>5 DEF CommitNext

\* CommitInv holds in every state.
LEMMA CommitInvAlways == CommitSpec => []CommitInv
BY CommitInvInit, CommitInvStep, PTL DEF CommitSpec

\* Types: in particular the isolated index only ever holds content the service
\* was willing to read.
THEOREM CommitTypes == CommitSpec => []CommitTypeOK
<1>1. CommitInv => CommitTypeOK BY DEF CommitInv
<1> QED BY <1>1, CommitInvAlways, PTL

\* AttributionIsProven: a finalized attribution is of the reviewed tree, in
\* contract, that the service itself put on the attempt ref under a durable
\* intent, whoever else moves the ref and however often a call dies.
THEOREM AttributionProven == CommitSpec => []AttributionIsProven
<1>1. CommitInv => AttributionIsProven
  BY DEF CommitInv, RowsFounded, OutcomeFounded, AttributionIsProven
<1> QED BY <1>1, CommitInvAlways, PTL

\* FailureIsContained: a call that answers with its failure leaves no live
\* lease, expired, renewed or recovered though it may have been when the call
\* failed; a begin of cleanup that was refused or thrown is never passed over.
THEOREM FailuresContained == CommitSpec => []FailureIsContained
<1>1. CommitInv => FailureIsContained BY DEF CommitInv, OutcomeFounded, FailureIsContained
<1> QED BY <1>1, CommitInvAlways, PTL

\* IntentIsFinal: a step that changes the row records it or finalizes it, keeps
\* its tree and the lease's version, and is taken under a live lease of that
\* version, which no call that answered with its failure leaves.
THEOREM IntentsFinal == CommitSpec => IntentIsFinal
<1> DEFINE Final ==
      commitIntent' # commitIntent =>
        /\ \/ commitIntent.state = "none" /\ commitIntent'.state = "intent_recorded"
           \/ /\ commitIntent.state = "intent_recorded" /\ commitIntent'.state = "finalized"
              /\ commitIntent'.tree = commitIntent.tree
        /\ commitIntent'.version = ownership.version
        /\ \A c \in Callers : result[c] \notin Failures
<1>1. CommitInv /\ [CommitNext]_commitVars => Final
  <2> SUFFICES ASSUME CommitInv, [CommitNext]_commitVars, commitIntent' # commitIntent PROVE Final
    OBVIOUS
  <2>1. /\ commitIntent \in IntentRows
        /\ \A c \in Callers : OutcomeFounded(c) /\ CallFounded(call[c])
    BY DEF CommitInv, CommitTypeOK
  <2>2. PICK c \in Callers : Prepare(c) \/ Finalize(c)
    BY DEF CommitNext, commitVars, git, store, Disturb, RepositoryChanges, LeaseClock,
           Heartbeat, AttemptLeaves, OtherCleanup, StaleRecovery, Advance, Call, Begin, Build, RestoreIndex,
           CreateCommit, Rebuild, Rebuilt, RestoreBeforeRef, SignTransaction, RefTransaction,
           AfterRef, Prove, Return, Contain, GitFails, Crash
  <2>3. CASE Prepare(c)
    <3>1. ~IntentReplay /\ Preparable(c) /\ commitIntent' = PreparedIntent(c)
      BY <2>3 DEF Prepare, PreparedIntent
    <3>2. /\ ownership.state = "live" /\ commitIntent.state = "none"
          /\ commitIntent'.state = "intent_recorded" /\ commitIntent'.version = ownership.version
      BY <3>1 DEF Preparable, PreparedIntent, NewIntent, LiveOwner, IntentReplay
    <3> QED BY <2>1, <3>2 DEF OutcomeFounded
  <2>4. CASE Finalize(c)
    <3>1. Finalizable(c) /\ commitIntent' = [commitIntent EXCEPT !.state = "finalized"]
      BY <2>4 DEF Finalize
    <3>2. commitIntent'.state = "finalized" /\ commitIntent'.tree = commitIntent.tree
          /\ commitIntent'.version = commitIntent.version
      BY <2>1, <3>1 DEF IntentRows
    <3>3. commitIntent.state # "finalized" BY <2>1, <3>1 DEF IntentRows
    <3>4. commitIntent.state = "intent_recorded" /\ ownership.state = "live"
          /\ ownership.version = commitIntent.version
      BY <2>1, <3>1, <3>3 DEF Finalizable, IntentReplay, LiveOwner, IntentRows
    <3> QED BY <2>1, <3>2, <3>4 DEF OutcomeFounded
  <2> QED BY <2>2, <2>3, <2>4
<1>2. CommitSpec => [][Final]_commitVars
  BY <1>1, CommitInvAlways, PTL DEF CommitSpec
<1> QED BY <1>2 DEF IntentIsFinal

=============================================================================
