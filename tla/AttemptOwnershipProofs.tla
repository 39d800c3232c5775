----------------------- MODULE AttemptOwnershipProofs -----------------------
(***************************************************************************)
(* Proofs, for any set of slots, any number of generations and any clock,  *)
(* that the lease table and the claim table of AttemptOwnership stay       *)
(* consistent and that nothing is handed over before the worker is dead;   *)
(* and, for any number of executors and crashes besides, that the physical *)
(* cleanup of CleanupService loses no work and that a released lease leaves*)
(* nothing behind.                                                         *)
(***************************************************************************)
EXTENDS CleanupService, TLAPS

\* A lease row moved to another state stays well typed and gains a version.
LEMMA LeaseMovedType ==
  ASSUME NEW l \in [state : LeaseStates, version : Nat, heartbeat : Nat, expires : Nat],
         NEW t \in LeaseStates
  PROVE  /\ LeaseMoved(l, t) \in [state : LeaseStates, version : Nat,
                                  heartbeat : Nat, expires : Nat]
         /\ LeaseMoved(l, t).state = t
         /\ LeaseMoved(l, t).version = l.version + 1
  BY DEF LeaseMoved

\* The same for a claim, whose owner does not change.
LEMMA ClaimMovedType ==
  ASSUME NEW c \in [owner : 0 .. MaxGen, state : ClaimStates, version : Nat],
         NEW t \in ClaimStates
  PROVE  /\ ClaimMoved(c, t) \in [owner : 0 .. MaxGen, state : ClaimStates, version : Nat]
         /\ ClaimMoved(c, t).state = t
         /\ ClaimMoved(c, t).owner = c.owner
         /\ ClaimMoved(c, t).version = c.version + 1
  BY DEF ClaimMoved

\* A fresh lease row is well typed: expiry follows the heartbeat by the TTL.
LEMMA NewLeaseType ==
  ASSUME now \in Nat, NEW t \in LeaseStates
  PROVE  /\ NewLease(t) \in [state : LeaseStates, version : Nat,
                             heartbeat : Nat, expires : Nat]
         /\ NewLease(t).state = t
  BY BoundsAssumption DEF NewLease

\* The empty tables are well typed.
LEMMA TypeInit == Init => TypeOK
  BY BoundsAssumption DEF Init, TypeOK, NoLease, NoClaim, NoLaunch, NoDeath, NoTerminal,
     LeaseStates, ClaimStates, OpenStates, ClosedStates, HeldStates, UsableStates

\* Every step writes well-typed rows.
LEMMA TypeStep == TypeOK /\ [Next]_vars => TypeOK'
<1> SUFFICES ASSUME TypeOK, [Next]_vars PROVE TypeOK'
  OBVIOUS
<1> USE DEF TypeOK
<1>s. /\ {"live", "cleanup_pending", "quarantined", "released"} \subseteq LeaseStates
      /\ {"reserved", "allocated", "active", "cleanup_pending",
          "quarantined", "released"} \subseteq ClaimStates
      /\ ClosedStates \subseteq LeaseStates /\ ClosedStates \subseteq ClaimStates
  BY DEF LeaseStates, ClaimStates, OpenStates, ClosedStates, HeldStates, UsableStates
<1>b. ASSUME NEW g \in Gens, CleanupBegun(g)
      PROVE  /\ lease' \in [Gens -> [state : LeaseStates, version : Nat,
                                     heartbeat : Nat, expires : Nat]]
             /\ claim' \in [Slots -> [owner : 0 .. MaxGen, state : ClaimStates,
                                      version : Nat]]
  BY <1>b, <1>s, LeaseMovedType, ClaimMovedType DEF CleanupBegun
<1>1. CASE Acquire
  BY <1>1, <1>s, NewLeaseType, BoundsAssumption DEF Acquire, Gens, world
<1>2. ASSUME NEW g \in Gens, GenerationStep(g) PROVE TypeOK'
  <2>0. g \in 1 .. MaxGen /\ g \in Nat
    BY BoundsAssumption DEF Gens
  <2>1. CASE Heartbeat(g)
    BY <2>1, BoundsAssumption DEF Heartbeat, world
  <2>2. ASSUME NEW s \in WorkspaceSlots, AdvanceResource(g, s) PROVE TypeOK'
    BY <2>2, <1>s, ClaimMovedType, SlotsAssumption DEF AdvanceResource, world
  <2>3. CASE BeginCleanup(g)
    BY <2>3, <1>b DEF BeginCleanup, world
  <2>4. ASSUME NEW d \in Dispositions, RecordSalvage(g, d) PROVE TypeOK'
    BY <2>0, <2>4 DEF RecordSalvage, world
  <2>5. ASSUME NEW d \in Dispositions, NEW t \in ClosedStates, Finalize(g, d, t) PROVE TypeOK'
    BY <2>5, <1>s, LeaseMovedType, ClaimMovedType DEF Finalize, world
  <2>6. CASE StaleRecovery(g)
    <3>1. lease' \in [Gens -> [state : LeaseStates, version : Nat,
                               heartbeat : Nat, expires : Nat]]
      BY <2>6, <1>s, LeaseMovedType, NewLeaseType DEF StaleRecovery, RecoveredLeases
    <3>2. claim' \in [Slots -> [owner : 0 .. MaxGen, state : ClaimStates, version : Nat]]
      <4>1. g + 1 \in 0 .. MaxGen
        BY <2>0, <2>6, BoundsAssumption DEF StaleRecovery, Gens
      <4>2. ASSUME NEW s \in Slots
            PROVE ClaimHandedOver(claim[s], g + 1)
                    \in [owner : 0 .. MaxGen, state : ClaimStates, version : Nat]
        BY <4>1, <1>s DEF ClaimHandedOver
      <4> QED BY <2>6, <4>2 DEF StaleRecovery, HandedOver
    <3> QED BY <2>6, <3>1, <3>2 DEF StaleRecovery, world
  <2>7. CASE AdvanceClaimsToQuarantined(g)
    BY <2>7, <1>s, ClaimMovedType DEF AdvanceClaimsToQuarantined, world
  <2>8. CASE FinalizeQuarantineOwnership(g)
    BY <2>8, <1>s, LeaseMovedType DEF FinalizeQuarantineOwnership, world
  <2>9. CASE Launch(g)
    BY <2>0, <2>9, <1>s DEF Launch
  <2>10. CASE ReleaseStartGate(g)
    BY <2>10 DEF ReleaseStartGate, store
  <2>11. CASE ReleaseTarget(g)
    BY <2>0, <2>11 DEF ReleaseTarget
  <2> QED BY <1>2, <2>1, <2>2, <2>3, <2>4, <2>5, <2>6, <2>7, <2>8, <2>9, <2>10, <2>11
          DEF GenerationStep
<1>3. CASE ProcessStep
  <2>1. CASE WorkerDies
    BY <2>1 DEF WorkerDies, store
  <2>2. CASE ObserveDeath
    BY <2>2 DEF ObserveDeath, store, world
  <2>3. CASE CommitTerminal
    BY <2>3 DEF CommitTerminal, world
  <2>4. CASE CloseSupervision
    <3>1. CASE \E g \in Gens : g = launch.gen /\ lease[g].state = "live"
      BY <2>4, <3>1, <1>b DEF CloseSupervision, world
    <3>2. CASE ~\E g \in Gens : g = launch.gen /\ lease[g].state = "live"
      BY <2>4, <3>2 DEF CloseSupervision, world
    <3> QED BY <3>1, <3>2
  <2>5. CASE SupervisorCrash
    BY <2>5 DEF SupervisorCrash, store, world
  <2>6. CASE AwaitEmpty
    BY <2>6 DEF AwaitEmpty, store, NoDeath
  <2>7. CASE PersistAuthorityProcessChain
    BY <2>7 DEF PersistAuthorityProcessChain, world
  <2> QED BY <1>3, <2>1, <2>2, <2>3, <2>4, <2>5, <2>6, <2>7 DEF ProcessStep
<1>4. CASE EnvironmentStep
  BY <1>4, BoundsAssumption DEF EnvironmentStep, LineageStep, RepositoryStep, ClockStep,
     store, world
<1>5. CASE UNCHANGED vars
  BY <1>5 DEF vars, store, world
<1> QED BY <1>1, <1>2, <1>3, <1>4, <1>5 DEF Next

\* The tables hold well-typed rows in every reachable state.
THEOREM TypeCorrect == Spec => []TypeOK
  BY TypeInit, TypeStep, PTL DEF Spec

-----------------------------------------------------------------------------
(* The tables.  SingleOpenGeneration and ClaimsFollowOwner are inductive    *)
(* only together: recovery needs the successor's row to be absent, so that  *)
(* no claim can belong to it yet.                                           *)

Tables == SingleOpenGeneration /\ ClaimsFollowOwner

\* Steps that leave both tables alone preserve whatever is said of them.
LEMMA TablesUnchanged ==
  ASSUME Tables, UNCHANGED <<lease, claim>> PROVE Tables'
  BY DEF Tables, SingleOpenGeneration, ClaimsFollowOwner, Open

\* A claim that exists names an existing generation as its owner.
LEMMA OwnerIsGeneration ==
  ASSUME TypeOK, NEW s \in Slots, claim[s].owner # 0
  PROVE  claim[s].owner \in Gens
  BY DEF TypeOK, Gens

\* A step that only closes the open generation g, or moves it to cleanup,
\* leaves at most one generation open.
LEMMA StillSingle ==
  ASSUME SingleOpenGeneration, NEW g \in Gens, Open(g),
         \A h \in Gens \ {g} : lease'[h] = lease[h]
  PROVE  SingleOpenGeneration'
  BY DEF SingleOpenGeneration, Open, OpenStates

\* begin_cleanup, whoever calls it.
LEMMA TablesCleanupBegun ==
  ASSUME TypeOK, Tables, NEW g \in Gens, CleanupBegun(g) PROVE Tables'
<1>1. /\ \A h \in Gens \ {g} : lease'[h] = lease[h]
      /\ lease'[g].state = "cleanup_pending"
  BY DEF CleanupBegun, TypeOK, LeaseMoved
<1>2. SingleOpenGeneration'
  BY <1>1, StillSingle DEF Tables, CleanupBegun, Open, OpenStates
<1>3. ASSUME NEW s \in Slots PROVE FollowsOwner(claim'[s], lease')
  <2>1. /\ claim'[s].owner = claim[s].owner
        /\ claim'[s].state = IF Owns(g, s) /\ claim[s].state \in UsableStates
                             THEN "cleanup_pending" ELSE claim[s].state
    BY DEF CleanupBegun, TypeOK, ClaimMoved
  <2>2. FollowsOwner(claim[s], lease)
    BY DEF Tables, ClaimsFollowOwner
  <2> QED BY <1>1, <2>1, <2>2, OwnerIsGeneration
          DEF FollowsOwner, CleanupBegun, Owns, UsableStates
<1> QED BY <1>2, <1>3 DEF Tables, ClaimsFollowOwner

\* finalizeCleanup closes the lease and every claim in one transaction.
LEMMA TablesFinalize ==
  ASSUME TypeOK, Tables, NEW g \in Gens, NEW d \in Dispositions,
         NEW t \in ClosedStates, Finalize(g, d, t)
  PROVE  Tables'
<1>1. /\ \A h \in Gens \ {g} : lease'[h] = lease[h]
      /\ lease'[g].state = t
  BY DEF Finalize, TypeOK, LeaseMoved
<1>2. SingleOpenGeneration'
  BY <1>1, StillSingle DEF Tables, Finalize, Open, OpenStates
<1>3. ASSUME NEW s \in Slots PROVE FollowsOwner(claim'[s], lease')
  <2>1. claim'[s].owner = g /\ claim'[s].state = t
    BY DEF Finalize, TypeOK, ClaimMoved, Owns
  <2>2. g # 0
    BY BoundsAssumption DEF Gens
  <2> QED BY <1>1, <2>1, <2>2 DEF FollowsOwner, UsableStates, ClosedStates
<1> QED BY <1>2, <1>3 DEF Tables, ClaimsFollowOwner

\* Stale recovery: the successor's row is new, so no claim names it yet, and
\* every claim the expired owner still holds moves to it.
LEMMA TablesStaleRecovery ==
  ASSUME TypeOK, Tables, NEW g \in Gens, StaleRecovery(g) PROVE Tables'
<1>0. /\ g + 1 \in Gens /\ g \in Nat /\ g # 0
      /\ \A h \in Gens \ {g} : lease[h].state = IF h < g THEN "quarantined" ELSE "absent"
  BY BoundsAssumption DEF StaleRecovery, Tables, SingleOpenGeneration, Gens
<1>1. /\ lease'[g].state = "quarantined"
      /\ lease'[g + 1].state = "cleanup_pending"
      /\ \A h \in Gens \ {g, g + 1} : lease'[h] = lease[h]
  BY <1>0 DEF StaleRecovery, RecoveredLeases, TypeOK, LeaseMoved, NewLease
<1>2. SingleOpenGeneration'
  <2> SUFFICES ASSUME NEW h \in Gens, Open(h)', NEW k \in Gens \ {h}
               PROVE  lease'[k].state = IF k < h THEN "quarantined" ELSE "absent"
    BY DEF SingleOpenGeneration
  <2>1. h = g + 1
    BY <1>0, <1>1 DEF Open, OpenStates
  <2>2. k \in Nat /\ h \in Nat
    BY BoundsAssumption DEF Gens
  <2> QED BY <1>0, <1>1, <2>1, <2>2
<1>3. ASSUME NEW s \in Slots PROVE FollowsOwner(claim'[s], lease')
  <2>1. FollowsOwner(claim[s], lease)
    BY DEF Tables, ClaimsFollowOwner
  <2>2. CASE Owns(g, s) /\ claim[s].state \in HeldStates
    <3>1. claim'[s].owner = g + 1 /\ claim'[s].state = "cleanup_pending"
      BY <2>2 DEF StaleRecovery, HandedOver, ClaimHandedOver
    <3> QED BY <1>0, <1>1, <3>1 DEF FollowsOwner, UsableStates
  <2>3. CASE Owns(g, s) /\ claim[s].state \notin HeldStates
    <3>1. claim'[s] = claim[s]
      BY <2>3 DEF StaleRecovery, HandedOver
    <3>2. lease[g].state \in OpenStates
      BY DEF StaleRecovery, Open
    <3>3. claim[s].state \in ClaimStates
      BY DEF TypeOK
    <3> QED BY <1>0, <1>1, <2>1, <2>3, <3>1, <3>2, <3>3
            DEF FollowsOwner, Owns, UsableStates, HeldStates, ClosedStates, ClaimStates, OpenStates
  <2>4. CASE ~Owns(g, s)
    <3>1. claim'[s] = claim[s]
      BY <2>4 DEF StaleRecovery, HandedOver
    <3>2. claim[s].owner # g + 1
      <4> SUFFICES ASSUME claim[s].owner = g + 1 PROVE FALSE
        OBVIOUS
      <4>1. lease[g + 1].state = "absent"
        BY <1>0
      <4>2. claim[s].state \in ClaimStates /\ claim[s].owner # 0
        BY <1>0 DEF TypeOK
      <4> QED BY <2>1, <4>1, <4>2
              DEF FollowsOwner, UsableStates, HeldStates, ClosedStates, ClaimStates
    <3> QED BY <1>1, <2>1, <2>4, <3>1, <3>2, OwnerIsGeneration DEF FollowsOwner, Owns
  <2> QED BY <2>2, <2>3, <2>4
<1> QED BY <1>2, <1>3 DEF Tables, ClaimsFollowOwner

\* The empty tables are consistent.
LEMMA TablesInit == Init => Tables
  BY DEF Init, Tables, SingleOpenGeneration, ClaimsFollowOwner, FollowsOwner,
     Open, OpenStates, NoLease, NoClaim, UsableStates

\* Every step keeps the two tables consistent.
LEMMA TablesStep == TypeOK /\ Tables /\ [Next]_vars => Tables'
<1> SUFFICES ASSUME TypeOK, Tables, [Next]_vars PROVE Tables'
  OBVIOUS
<1>0. \A s \in Slots : FollowsOwner(claim[s], lease)
  BY DEF Tables, ClaimsFollowOwner
<1>1. CASE Acquire
  <2>1. 1 \in Gens
    BY BoundsAssumption DEF Gens
  <2>2. lease'[1].state = "live" /\ \A h \in Gens \ {1} : lease'[h].state = "absent"
    BY <1>1, <2>1 DEF Acquire, TypeOK, NewLease
  <2>3. SingleOpenGeneration'
    BY <2>1, <2>2, BoundsAssumption DEF SingleOpenGeneration, Open, OpenStates, Gens
  <2>4. ClaimsFollowOwner'
    BY <1>1, <2>2 DEF Acquire, ClaimsFollowOwner, FollowsOwner, UsableStates
  <2> QED BY <2>3, <2>4 DEF Tables
<1>2. ASSUME NEW g \in Gens, GenerationStep(g) PROVE Tables'
  <2>0. g # 0
    BY BoundsAssumption DEF Gens
  <2>1. CASE Heartbeat(g)
    <3>1. lease'[g].state = lease[g].state /\ \A h \in Gens \ {g} : lease'[h] = lease[h]
      BY <2>1 DEF Heartbeat, TypeOK
    <3>2. SingleOpenGeneration'
      BY <3>1 DEF Tables, SingleOpenGeneration, Open
    <3>3. ClaimsFollowOwner'
      BY <1>0, <2>1, <3>1, OwnerIsGeneration DEF Heartbeat, ClaimsFollowOwner, FollowsOwner
    <3> QED BY <3>2, <3>3 DEF Tables
  <2>2. ASSUME NEW s \in WorkspaceSlots, AdvanceResource(g, s) PROVE Tables'
    <3>1. SingleOpenGeneration'
      BY <2>2 DEF AdvanceResource, Tables, SingleOpenGeneration, Open
    <3>2. ASSUME NEW r \in Slots PROVE FollowsOwner(claim'[r], lease')
      <4>1. CASE r = s
        <5>1. claim'[r].owner = g /\ claim'[r].state \in {"allocated", "active"}
          BY <2>2, <4>1 DEF AdvanceResource, ClaimMoved, Owns, TypeOK
        <5> QED BY <2>0, <2>2, <5>1 DEF AdvanceResource, FollowsOwner, UsableStates
      <4>2. CASE r # s
        BY <1>0, <2>2, <4>2 DEF AdvanceResource, TypeOK
      <4> QED BY <4>1, <4>2
    <3> QED BY <3>1, <3>2 DEF Tables, ClaimsFollowOwner
  <2>3. CASE BeginCleanup(g)
    BY <2>3, TablesCleanupBegun DEF BeginCleanup
  <2>4. ASSUME NEW d \in Dispositions, RecordSalvage(g, d) PROVE Tables'
    BY <2>4, TablesUnchanged DEF RecordSalvage
  <2>5. ASSUME NEW d \in Dispositions, NEW t \in ClosedStates, Finalize(g, d, t) PROVE Tables'
    BY <2>5, TablesFinalize
  <2>6. CASE StaleRecovery(g)
    BY <2>6, TablesStaleRecovery
  <2>7. CASE AdvanceClaimsToQuarantined(g)
    <3>1. SingleOpenGeneration'
      BY <2>7 DEF AdvanceClaimsToQuarantined, Tables, SingleOpenGeneration, Open
    <3>2. ASSUME NEW s \in Slots PROVE FollowsOwner(claim'[s], lease')
      <4>1. CASE Owns(g, s) /\ claim[s].state = "cleanup_pending"
        <5>1. claim'[s].owner = g /\ claim'[s].state = "quarantined"
          BY <2>7, <4>1 DEF AdvanceClaimsToQuarantined, ClaimMoved, Owns
        <5>2. lease[g].state = "cleanup_pending"
          BY <1>0, <2>0, <4>1 DEF FollowsOwner, Owns
        <5> QED BY <2>0, <2>7, <5>1, <5>2
                DEF AdvanceClaimsToQuarantined, FollowsOwner, UsableStates
      <4>2. CASE ~(Owns(g, s) /\ claim[s].state = "cleanup_pending")
        BY <1>0, <2>7, <4>2 DEF AdvanceClaimsToQuarantined
      <4> QED BY <4>1, <4>2
    <3> QED BY <3>1, <3>2 DEF Tables, ClaimsFollowOwner
  <2>8. CASE FinalizeQuarantineOwnership(g)
    <3>1. /\ \A h \in Gens \ {g} : lease'[h] = lease[h]
          /\ lease'[g].state = "quarantined"
      BY <2>8 DEF FinalizeQuarantineOwnership, TypeOK, LeaseMoved
    <3>2. SingleOpenGeneration'
      BY <2>8, <3>1, StillSingle DEF FinalizeQuarantineOwnership, Tables, Open, OpenStates
    <3>3. ClaimsFollowOwner'
      BY <2>0, <2>8, <3>1
         DEF FinalizeQuarantineOwnership, ClaimsFollowOwner, FollowsOwner, UsableStates, Owns
    <3> QED BY <3>2, <3>3 DEF Tables
  <2>9. CASE Launch(g)
    <3>1. SingleOpenGeneration'
      BY <2>9 DEF Launch, Tables, SingleOpenGeneration, Open
    <3>2. ASSUME NEW s \in Slots PROVE FollowsOwner(claim'[s], lease')
      BY <1>0, <2>0, <2>9 DEF Launch, FollowsOwner, UsableStates
    <3> QED BY <3>1, <3>2 DEF Tables, ClaimsFollowOwner
  <2>10. CASE ReleaseStartGate(g)
    BY <2>10, TablesUnchanged DEF ReleaseStartGate, store
  <2>11. CASE ReleaseTarget(g)
    BY <2>11, TablesUnchanged DEF ReleaseTarget
  <2> QED BY <1>2, <2>1, <2>2, <2>3, <2>4, <2>5, <2>6, <2>7, <2>8, <2>9, <2>10, <2>11
          DEF GenerationStep
<1>3. CASE ProcessStep
  <2>1. CASE CloseSupervision
    <3>1. CASE \E g \in Gens : g = launch.gen /\ lease[g].state = "live"
      BY <2>1, <3>1, TablesCleanupBegun DEF CloseSupervision
    <3>2. CASE ~\E g \in Gens : g = launch.gen /\ lease[g].state = "live"
      BY <2>1, <3>2, TablesUnchanged DEF CloseSupervision
    <3> QED BY <3>1, <3>2
  <2>2. CASE ~CloseSupervision
    BY <1>3, <2>2, TablesUnchanged
       DEF ProcessStep, WorkerDies, ObserveDeath, CommitTerminal, SupervisorCrash,
           AwaitEmpty, PersistAuthorityProcessChain, store
  <2> QED BY <2>1, <2>2
<1>4. CASE EnvironmentStep
  BY <1>4, TablesUnchanged
     DEF EnvironmentStep, LineageStep, RepositoryStep, ClockStep, store
<1>5. CASE UNCHANGED vars
  BY <1>5, TablesUnchanged DEF vars, store
<1> QED BY <1>1, <1>2, <1>3, <1>4, <1>5 DEF Next

\* At every moment at most one generation owns the attempt, and each claim
\* is in a state its owner's lease allows.
THEOREM TablesConsistent == Spec => [](SingleOpenGeneration /\ ClaimsFollowOwner)
<1>1. Tables => SingleOpenGeneration /\ ClaimsFollowOwner
  BY DEF Tables
<1> QED BY <1>1, TablesInit, TablesStep, TypeCorrect, PTL DEF Spec

\* Never do two generations own the attempt: the ones before the open one
\* are quarantined, and there is none after it.
THEOREM OneOpenGeneration == Spec => []SingleOpenGeneration
  BY TablesConsistent, PTL

-----------------------------------------------------------------------------
(* The worker.  The receipts tell the truth only because a chain is written *)
(* once and a supervisor never goes back to an earlier stage.               *)

Chain ==
  /\ sup = "idle" => worker = "none" /\ terminal.source = "none"
  /\ sup # "idle" => launch.gen \in Gens /\ lease[launch.gen].state # "absent"
  /\ sup \in {"gated", "following", "observed"} => terminal.source = "none"
  /\ terminal.source = "none" => terminal.basis # "authoritative"
  /\ sup \in {"idle", "gated", "following"} => death.basis = "none"
  /\ backend = "supervisor" =>
       /\ death.basis = "authoritative" => worker = "dead"
       /\ terminal.basis = "authoritative" => worker = "dead"
       /\ terminal.source # "container"
       /\ sup = "done" => \/ lease[launch.gen].state # "live"
                          \/ terminal.basis = "authoritative"
  /\ Handover => CleanupProcessProof

\* Cleanup of a live lease is no handover and revives nothing.
LEMMA CleanupBegunStates ==
  ASSUME TypeOK, NEW g \in Gens, CleanupBegun(g)
  PROVE  /\ \A h \in Gens : h # g => lease'[h] = lease[h]
         /\ lease'[g].state = "cleanup_pending" /\ lease[g].state = "live"
  BY DEF CleanupBegun, TypeOK, LeaseMoved

\* Before a launch there is nothing to be untrue about.
LEMMA ChainInit == Init => Chain
  BY DEF Init, Chain, Handover, CleanupProcessProof, NoLease, NoLaunch, NoDeath, NoTerminal

\* Every step keeps the chain truthful.
LEMMA ChainStep == TypeOK /\ Chain /\ [Next]_vars => Chain'
<1> SUFFICES ASSUME TypeOK, Chain, [Next]_vars PROVE Chain'
  OBVIOUS
<1> USE DEF TypeOK, Chain
<1>1. CASE Acquire
  <2>1. sup = "idle"
    BY <1>1 DEF Acquire
  <2>2. lease'[1].state = "live" /\ \A h \in Gens \ {1} : lease'[h] = lease[h]
    BY <1>1, BoundsAssumption DEF Acquire, NewLease, Gens
  <2> QED BY <1>1, <2>1, <2>2 DEF Acquire, world, Handover, CleanupProcessProof, Recovered
<1>2. ASSUME NEW g \in Gens, GenerationStep(g) PROVE Chain'
  <2>1. CASE Heartbeat(g)
    <3>1. \A h \in Gens : lease'[h].state = lease[h].state
      BY <2>1 DEF Heartbeat
    <3> QED BY <2>1, <3>1 DEF Heartbeat, world, Handover, CleanupProcessProof
  <2>2. ASSUME NEW s \in WorkspaceSlots, AdvanceResource(g, s) PROVE Chain'
    BY <2>2 DEF AdvanceResource, world, Handover, CleanupProcessProof
  <2>3. CASE BeginCleanup(g)
    <3>1. CleanupBegun(g)
      BY <2>3 DEF BeginCleanup
    <3> QED BY <2>3, <3>1, CleanupBegunStates DEF BeginCleanup, world, Handover, CleanupProcessProof
  <2>4. ASSUME NEW d \in Dispositions, RecordSalvage(g, d) PROVE Chain'
    BY <2>4 DEF RecordSalvage, world, CleanupProcessProof
  <2>5. ASSUME NEW d \in Dispositions, NEW t \in ClosedStates, Finalize(g, d, t) PROVE Chain'
    <3>1. /\ \A h \in Gens : h # g => lease'[h] = lease[h]
          /\ lease'[g].state = t /\ t # "live" /\ t # "absent"
      BY <2>5 DEF Finalize, LeaseMoved, ClosedStates
    <3> QED BY <2>5, <3>1 DEF Finalize, world, CleanupProcessProof
  <2>6. CASE StaleRecovery(g)
    <3>1. /\ \A h \in Gens : h # g /\ h # g + 1 => lease'[h] = lease[h]
          /\ lease'[g].state = "quarantined" \/ g = g + 1
          /\ lease'[g + 1].state = "cleanup_pending"
      BY <2>6 DEF StaleRecovery, RecoveredLeases, LeaseMoved, NewLease
    <3>2. g # g + 1
      BY BoundsAssumption DEF Gens
    <3> QED BY <2>6, <3>1, <3>2 DEF StaleRecovery, RecoveryProof, world, CleanupProcessProof
  <2>7. CASE AdvanceClaimsToQuarantined(g)
    BY <2>7 DEF AdvanceClaimsToQuarantined, world, Handover, CleanupProcessProof
  <2>8. CASE FinalizeQuarantineOwnership(g)
    <3>1. /\ \A h \in Gens : h # g => lease'[h] = lease[h]
          /\ lease'[g].state = "quarantined" /\ lease[g].state = "cleanup_pending"
      BY <2>8 DEF FinalizeQuarantineOwnership, LeaseMoved
    <3> QED BY <2>8, <3>1 DEF FinalizeQuarantineOwnership, world, Handover, CleanupProcessProof
  <2>9. CASE Launch(g)
    BY <2>9 DEF Launch, Handover, CleanupProcessProof
  <2>10. CASE ReleaseStartGate(g)
    BY <2>10 DEF ReleaseStartGate, store, Handover, CleanupProcessProof
  <2>11. CASE ReleaseTarget(g)
    BY <2>11 DEF ReleaseTarget, Handover, CleanupProcessProof
  <2> QED BY <1>2, <2>1, <2>2, <2>3, <2>4, <2>5, <2>6, <2>7, <2>8, <2>9, <2>10, <2>11
          DEF GenerationStep
<1>3. CASE ProcessStep
  <2>1. CASE WorkerDies
    BY <2>1 DEF WorkerDies, store, Handover, CleanupProcessProof
  <2>2. CASE ObserveDeath
    BY <2>2 DEF ObserveDeath, store, world, Handover, CleanupProcessProof
  <2>3. CASE CommitTerminal
    BY <2>3 DEF CommitTerminal, RequiresCleanup, world, Handover, CleanupProcessProof
  <2>4. CASE CloseSupervision
    <3>1. CASE \E g \in Gens : g = launch.gen /\ lease[g].state = "live"
      <4>1. launch.gen \in Gens /\ CleanupBegun(launch.gen)
        BY <2>4, <3>1 DEF CloseSupervision
      <4> QED BY <2>4, <4>1, CleanupBegunStates
              DEF CloseSupervision, world, Handover, CleanupProcessProof
    <3>2. CASE ~\E g \in Gens : g = launch.gen /\ lease[g].state = "live"
      BY <2>4, <3>2 DEF CloseSupervision, world, Handover, CleanupProcessProof
    <3> QED BY <3>1, <3>2
  <2>5. CASE SupervisorCrash
    BY <2>5 DEF SupervisorCrash, store, world, Handover, CleanupProcessProof
  <2>6. CASE AwaitEmpty
    BY <2>6 DEF AwaitEmpty, store, Handover, CleanupProcessProof
  <2>7. CASE PersistAuthorityProcessChain
    BY <2>7 DEF PersistAuthorityProcessChain, world, Handover, CleanupProcessProof
  <2> QED BY <1>3, <2>1, <2>2, <2>3, <2>4, <2>5, <2>6, <2>7 DEF ProcessStep
<1>4. CASE EnvironmentStep
  BY <1>4 DEF EnvironmentStep, LineageStep, RepositoryStep, ClockStep, store, world,
     Handover, CleanupProcessProof
<1>5. CASE UNCHANGED vars
  BY <1>5 DEF vars, store, world, Handover, CleanupProcessProof
<1> QED BY <1>1, <1>2, <1>3, <1>4, <1>5 DEF Next

\* The chain is truthful in every reachable state.
LEMMA ChainHolds == Spec => []Chain
  BY ChainInit, ChainStep, TypeCorrect, PTL DEF Spec

\* No successor generation, salvage record or released lease is ever built on
\* a worker that ProcessSupervisor has not seen dead.
THEOREM HandoverIsSafe == Spec => []DeadBeforeHandover
<1>1. Chain => DeadBeforeHandover
  BY DEF Chain, DeadBeforeHandover, CleanupProcessProof
<1> QED BY <1>1, ChainHolds, PTL

\* A supervisor that returned leaves a live lease only with the proof stored.
THEOREM SupervisionCloses == Spec => []NoUnprovenLiveLease
<1>1. TypeOK /\ Chain => NoUnprovenLiveLease
  BY DEF TypeOK, Chain, NoUnprovenLiveLease
<1> QED BY <1>1, TypeCorrect, ChainHolds, PTL

-----------------------------------------------------------------------------
(* Versions.                                                               *)

\* One step changes no existing row without giving it a larger version.
LEMMA VersionsStep ==
  ASSUME TypeOK, Tables, [Next]_vars
  PROVE  /\ \A g \in Gens : lease[g].state # "absent" /\ lease'[g] # lease[g]
                              => lease'[g].version > lease[g].version
         /\ \A s \in Slots : claim[s].state # "absent" /\ claim'[s] # claim[s]
                              => claim'[s].version > claim[s].version
<1> USE DEF TypeOK
<1> DEFINE Versions ==
      /\ \A g \in Gens : lease[g].state # "absent" /\ lease'[g] # lease[g]
                          => lease'[g].version > lease[g].version
      /\ \A s \in Slots : claim[s].state # "absent" /\ claim'[s] # claim[s]
                          => claim'[s].version > claim[s].version
<1>c. ASSUME NEW g \in Gens, CleanupBegun(g) PROVE Versions
  BY <1>c DEF CleanupBegun, LeaseMoved, ClaimMoved
<1>1. CASE Acquire
  <2>1. ASSUME NEW s \in Slots PROVE claim[s].state = "absent"
    <3>1. FollowsOwner(claim[s], lease) /\ claim[s].state \in ClaimStates
      BY DEF Tables, ClaimsFollowOwner
    <3>2. claim[s].owner # 0 => lease[claim[s].owner].state = "absent"
      BY <1>1, OwnerIsGeneration DEF Acquire
    <3> QED BY <3>1, <3>2
            DEF FollowsOwner, ClaimStates, HeldStates, UsableStates, ClosedStates
  <2> QED BY <1>1, <2>1 DEF Acquire
<1>2. ASSUME NEW g \in Gens, GenerationStep(g) PROVE Versions
  <2>1. CASE Heartbeat(g)
    BY <2>1 DEF Heartbeat
  <2>2. ASSUME NEW s \in WorkspaceSlots, AdvanceResource(g, s) PROVE Versions
    BY <2>2, SlotsAssumption DEF AdvanceResource, ClaimMoved
  <2>3. CASE BeginCleanup(g)
    BY <2>3, <1>c DEF BeginCleanup
  <2>4. ASSUME NEW d \in Dispositions, RecordSalvage(g, d) PROVE Versions
    BY <2>4 DEF RecordSalvage
  <2>5. ASSUME NEW d \in Dispositions, NEW t \in ClosedStates, Finalize(g, d, t) PROVE Versions
    BY <2>5 DEF Finalize, LeaseMoved, ClaimMoved
  <2>6. CASE StaleRecovery(g)
    <3>1. lease[g + 1].state = "absent"
      BY <2>6, BoundsAssumption DEF StaleRecovery, Tables, SingleOpenGeneration, Gens
    <3>2. ASSUME NEW h \in Gens, h # g + 1, lease'[h] # lease[h]
          PROVE  lease'[h].version > lease[h].version
      BY <2>6, <3>2 DEF StaleRecovery, RecoveredLeases, LeaseMoved
    <3>3. ASSUME NEW s \in Slots, claim'[s] # claim[s]
          PROVE  claim'[s].version > claim[s].version
      BY <2>6, <3>3 DEF StaleRecovery, HandedOver, ClaimHandedOver
    <3> QED BY <3>1, <3>2, <3>3
  <2>7. CASE AdvanceClaimsToQuarantined(g)
    BY <2>7 DEF AdvanceClaimsToQuarantined, ClaimMoved
  <2>8. CASE FinalizeQuarantineOwnership(g)
    BY <2>8 DEF FinalizeQuarantineOwnership, LeaseMoved
  <2>9. CASE Launch(g)
    BY <2>9 DEF Launch
  <2>10. CASE ReleaseStartGate(g)
    BY <2>10 DEF ReleaseStartGate, store
  <2>11. CASE ReleaseTarget(g)
    BY <2>11 DEF ReleaseTarget
  <2> QED BY <1>2, <2>1, <2>2, <2>3, <2>4, <2>5, <2>6, <2>7, <2>8, <2>9, <2>10, <2>11
          DEF GenerationStep
<1>3. CASE ProcessStep
  BY <1>3, <1>c DEF ProcessStep, WorkerDies, ObserveDeath, CommitTerminal, CloseSupervision,
     SupervisorCrash, AwaitEmpty, PersistAuthorityProcessChain, store
<1>4. CASE EnvironmentStep
  BY <1>4 DEF EnvironmentStep, LineageStep, RepositoryStep, ClockStep, store
<1>5. CASE UNCHANGED vars
  BY <1>5 DEF vars, store
<1> QED BY <1>1, <1>2, <1>3, <1>4, <1>5 DEF Next

\* Compare-and-set on a version is sound: no row of the two tables changes
\* without a larger version.
THEOREM VersionsOnlyGrow == Spec => RowVersionsAdvance
<1>1. TypeOK /\ Tables /\ [Next]_vars =>
        [/\ \A g \in Gens : lease[g].state # "absent" /\ lease'[g] # lease[g]
                             => lease'[g].version > lease[g].version
         /\ \A s \in Slots : claim[s].state # "absent" /\ claim'[s] # claim[s]
                             => claim'[s].version > claim[s].version]_vars
  BY VersionsStep
<1>2. SingleOpenGeneration /\ ClaimsFollowOwner => Tables
  BY DEF Tables
<1> QED BY <1>1, <1>2, TypeCorrect, TablesConsistent, PTL DEF Spec, RowVersionsAdvance

-----------------------------------------------------------------------------
(* The refinement of FencedOwnership.                                      *)

\* The phase, read off an open generation: SingleOpenGeneration makes it the
\* state of that one lease.
LEMMA PhaseOfOpen ==
  ASSUME SingleOpenGeneration, NEW g \in Gens
  PROVE  /\ lease[g].state = "live" => Phase = "working"
         /\ lease[g].state = "cleanup_pending" => Phase = "cleaning"
  BY DEF SingleOpenGeneration, Open, OpenStates, Phase

\* The only claims in use are those of a live lease.
LEMMA BusyOwner ==
  ASSUME TypeOK, Tables, NEW s \in Slots, claim[s].state \in {"allocated", "active"}
  PROVE  /\ claim[s].owner \in Gens
         /\ lease[claim[s].owner].state = "live"
<1>1. FollowsOwner(claim[s], lease)
  BY DEF Tables, ClaimsFollowOwner
<1>2. claim[s].owner # 0
  BY <1>1 DEF FollowsOwner
<1> QED BY <1>1, <1>2, OwnerIsGeneration DEF FollowsOwner, UsableStates

\* Out of "working" nothing is in use.
LEMMA IdleOutsideWork == TypeOK /\ Tables /\ Phase # "working" => Busy = {}
  BY BusyOwner DEF Busy, Phase

\* And so after a step.
LEMMA IdleOutsideWorkNext == (TypeOK /\ Tables /\ Phase # "working" => Busy = {})'
  BY IdleOutsideWork, PTL

\* A step that moves no lease between states and takes no claim out of use is
\* a Use of the abstract owner, or no step of it at all.
LEMMA UseStep ==
  ASSUME TypeOK, Tables, Tables', TypeOK',
         \A g \in Gens : lease'[g].state = lease[g].state,
         Busy \subseteq Busy'
  PROVE  [Fenced!Next]_(Fenced!vars)
<1>1. Granted' = Granted /\ Phase' = Phase
  BY DEF Granted, Phase
<1>2. Busy' \subseteq Slots
  BY DEF Busy
<1>3. CASE Phase = "working"
  BY <1>1, <1>2, <1>3 DEF Fenced!Next, Fenced!Use
<1>4. CASE Phase # "working"
  <2>1. Busy = {} /\ Busy' = {}
    BY <1>1, <1>4, IdleOutsideWork, IdleOutsideWorkNext
  <2> QED BY <1>1, <2>1 DEF Fenced!vars
<1> QED BY <1>3, <1>4

\* begin_cleanup is the abstract Drain.
LEMMA DrainStep ==
  ASSUME TypeOK, Tables, TypeOK', Tables', NEW g \in Gens, CleanupBegun(g)
  PROVE  Fenced!Next
<1>1. /\ \A h \in Gens : h # g => lease'[h] = lease[h]
      /\ lease'[g].state = "cleanup_pending" /\ lease[g].state = "live"
  BY CleanupBegunStates
<1>2. Phase = "working" /\ Granted' = Granted
  BY <1>1, PhaseOfOpen DEF Tables, Granted
<1>3. Phase' = "cleaning"
  BY <1>1 DEF Tables, SingleOpenGeneration, Open, OpenStates, Phase
<1>4. Busy' = {}
  BY <1>3, IdleOutsideWorkNext
<1> QED BY <1>2, <1>3, <1>4 DEF Fenced!Next, Fenced!Drain

\* The last state of an open generation is the abstract Close.
LEMMA CloseStep ==
  ASSUME TypeOK, Tables, TypeOK', Tables', NEW g \in Gens,
         lease[g].state = "cleanup_pending", lease'[g].state \in ClosedStates,
         \A h \in Gens : h # g => lease'[h] = lease[h]
  PROVE  Fenced!Next
<1>1. Phase = "cleaning" /\ Granted' = Granted
  BY PhaseOfOpen DEF Tables, Granted, ClosedStates
<1>2. Phase' = "closed"
  BY DEF Tables, SingleOpenGeneration, Open, OpenStates, ClosedStates, Phase
<1>3. Busy = {} /\ Busy' = {}
  BY <1>1, <1>2, IdleOutsideWork, IdleOutsideWorkNext
<1> QED BY <1>1, <1>2, <1>3 DEF Fenced!Next, Fenced!Close

\* Stale recovery is the abstract TakeOver by a generation never granted.
LEMMA TakeOverStep ==
  ASSUME TypeOK, Tables, TypeOK', Tables', NEW g \in Gens, StaleRecovery(g)
  PROVE  Fenced!Next
<1>0. g + 1 \in Gens /\ g \in Nat /\ lease[g].state \in OpenStates
  BY BoundsAssumption DEF StaleRecovery, Open, Gens
<1>1. /\ lease'[g].state = "quarantined"
      /\ lease'[g + 1].state = "cleanup_pending"
      /\ lease[g + 1].state = "absent"
      /\ \A h \in Gens \ {g, g + 1} : lease'[h] = lease[h]
  BY <1>0 DEF StaleRecovery, RecoveredLeases, TypeOK, LeaseMoved, NewLease,
     Tables, SingleOpenGeneration, Open
<1>2. Phase \in {"working", "cleaning"}
  BY <1>0, PhaseOfOpen DEF Tables, OpenStates
<1>3. Phase' = "cleaning"
  BY <1>0, <1>1 DEF Tables, SingleOpenGeneration, Open, OpenStates, Phase
<1>4. g + 1 \in Gens \ Granted /\ Granted' = Granted \cup {g + 1}
  BY <1>0, <1>1 DEF Granted, OpenStates
<1>5. Busy' = {}
  BY <1>3, IdleOutsideWorkNext
<1> QED BY <1>2, <1>3, <1>4, <1>5 DEF Fenced!Next, Fenced!TakeOver

\* Every step of the tables is a step of the abstract ownership, or none.
LEMMA FencedStep ==
  ASSUME TypeOK, Tables, [Next]_vars PROVE [Fenced!Next]_(Fenced!vars)
<1>0. TypeOK' /\ Tables'
  BY TypeStep, TablesStep
<1>1. CASE Acquire
  <2>0. 1 \in Gens
    BY BoundsAssumption DEF Gens
  <2>1. lease'[1].state = "live" /\ \A h \in Gens \ {1} : lease'[h] = lease[h]
    BY <1>1, <2>0 DEF Acquire, TypeOK, NewLease
  <2>2. Phase = "free" /\ Phase' = "working" /\ Granted' = {1}
    BY <1>1, <2>0, <2>1 DEF Acquire, Phase, Granted
  <2>3. Busy = {} /\ Busy' = {}
    BY <1>1, <2>2, IdleOutsideWork DEF Acquire, Busy
  <2> QED BY <2>0, <2>2, <2>3 DEF Fenced!Next, Fenced!Grant
<1>2. ASSUME NEW g \in Gens, GenerationStep(g) PROVE [Fenced!Next]_(Fenced!vars)
  <2>1. CASE Heartbeat(g)
    <3>1. \A h \in Gens : lease'[h].state = lease[h].state
      BY <2>1 DEF Heartbeat, TypeOK
    <3> QED BY <1>0, <2>1, <3>1, UseStep DEF Heartbeat, Busy
  <2>2. ASSUME NEW s \in WorkspaceSlots, AdvanceResource(g, s)
        PROVE  [Fenced!Next]_(Fenced!vars)
    <3>1. s \in Slots /\ claim'[s].state \in {"allocated", "active"}
          /\ \A r \in Slots : r # s => claim'[r] = claim[r]
      BY <2>2, SlotsAssumption DEF AdvanceResource, TypeOK, ClaimMoved
    <3> QED BY <1>0, <2>2, <3>1, UseStep DEF AdvanceResource, Busy
  <2>3. CASE BeginCleanup(g)
    BY <1>0, <2>3, DrainStep DEF BeginCleanup
  <2>4. ASSUME NEW d \in Dispositions, RecordSalvage(g, d) PROVE [Fenced!Next]_(Fenced!vars)
    BY <1>0, <2>4, UseStep DEF RecordSalvage, Busy
  <2>5. ASSUME NEW d \in Dispositions, NEW t \in ClosedStates, Finalize(g, d, t)
        PROVE  [Fenced!Next]_(Fenced!vars)
    <3>1. /\ \A h \in Gens : h # g => lease'[h] = lease[h]
          /\ lease'[g].state = t /\ lease[g].state = "cleanup_pending"
      BY <2>5 DEF Finalize, TypeOK, LeaseMoved
    <3> QED BY <1>0, <3>1, CloseStep
  <2>6. CASE StaleRecovery(g)
    BY <1>0, <2>6, TakeOverStep
  <2>7. CASE AdvanceClaimsToQuarantined(g)
    BY <1>0, <2>7, UseStep DEF AdvanceClaimsToQuarantined, Busy, ClaimMoved
  <2>8. CASE FinalizeQuarantineOwnership(g)
    <3>1. /\ \A h \in Gens : h # g => lease'[h] = lease[h]
          /\ lease'[g].state = "quarantined" /\ lease[g].state = "cleanup_pending"
      BY <2>8 DEF FinalizeQuarantineOwnership, TypeOK, LeaseMoved
    <3> QED BY <1>0, <3>1, CloseStep DEF ClosedStates
  <2>9. CASE Launch(g)
    <3>1. Busy \subseteq Busy'
      BY <2>9 DEF Launch, Busy
    <3> QED BY <1>0, <2>9, <3>1, UseStep DEF Launch
  <2>10. CASE ReleaseStartGate(g)
    BY <1>0, <2>10, UseStep DEF ReleaseStartGate, store, Busy
  <2>11. CASE ReleaseTarget(g)
    BY <1>0, <2>11, UseStep DEF ReleaseTarget, Busy
  <2> QED BY <1>2, <2>1, <2>2, <2>3, <2>4, <2>5, <2>6, <2>7, <2>8, <2>9, <2>10, <2>11
          DEF GenerationStep
<1>3. CASE ProcessStep
  <2>1. CASE CloseSupervision /\ \E g \in Gens : g = launch.gen /\ lease[g].state = "live"
    BY <1>0, <2>1, DrainStep DEF CloseSupervision
  <2>2. CASE ~(CloseSupervision /\ \E g \in Gens : g = launch.gen /\ lease[g].state = "live")
    <3>1. UNCHANGED <<lease, claim>>
      BY <1>3, <2>2 DEF ProcessStep, WorkerDies, ObserveDeath, CommitTerminal,
         CloseSupervision, SupervisorCrash, AwaitEmpty, PersistAuthorityProcessChain, store
    <3> QED BY <1>0, <3>1, UseStep DEF Busy
  <2> QED BY <2>1, <2>2
<1>4. CASE EnvironmentStep
  BY <1>0, <1>4, UseStep
     DEF EnvironmentStep, LineageStep, RepositoryStep, ClockStep, store, Busy
<1>5. CASE UNCHANGED vars
  BY <1>0, <1>5, UseStep DEF vars, store, Busy
<1> QED BY <1>1, <1>2, <1>3, <1>4, <1>5 DEF Next

\* The lease and claim tables implement the ownership that FencedOwnership
\* promises: one working owner, successors that only ever clean up, and no
\* resource used after cleanup began.
THEOREM OwnershipIsFenced == Spec => ImplementsFencedOwnership
<1>1. Init => Fenced!Init
  BY DEF Init, Fenced!Init, Granted, Phase, Busy, NoLease, NoClaim
<1>2. TypeOK /\ SingleOpenGeneration /\ ClaimsFollowOwner /\ [Next]_vars
        => [Fenced!Next]_(Fenced!vars)
  BY FencedStep DEF Tables
<1> QED BY <1>1, <1>2, TypeCorrect, TablesConsistent, PTL
        DEF Spec, ImplementsFencedOwnership, Fenced!Spec

-----------------------------------------------------------------------------
(* The physical cleanup.  Its tables change only by steps of               *)
(* AttemptOwnership, so the lemmas above carry over.                       *)

\* The part of the type that AttemptOwnership does not know.
PhysicalOK ==
  /\ worktree \in {"never", "present", "removed"}
  /\ allocation \in {"never", "present", "removed"}
  /\ exec \in [Executors -> [at : Steps, gen : 0 .. MaxGen, sawRef : BOOLEAN,
                             d : Dispositions]]
  /\ crashes \in 0 .. MaxCrashes

\* An executor under way was told that the worker is dead and its work
\* salvaged; neither answer can go stale, whoever holds the lease by now.
ExecutorsInformed ==
  \A e \in Executors : exec[e].at # "idle" =>
    exec[e].gen \in Gens /\ CleanupProcessProof /\ salvage[exec[e].d] # 0

\* The worktree goes only after an executor was told so.
RemovalInformed ==
  worktree = "removed" => CleanupProcessProof /\ \E d \in Dispositions : salvage[d] # 0

CleanupInv ==
  /\ TypeOK /\ Tables /\ Chain /\ backend = "supervisor"
  /\ PhysicalOK
  /\ ExecutorsInformed
  /\ RemovalInformed
  /\ ReleasedMeansGone

-----------------------------------------------------------------------------
(* What the steps of the tables preserve.                                  *)

\* A proof of death and a salvage record are never taken back, and the
\* attempt keeps the backend it was given.
LEMMA ProofsGrow ==
  ASSUME TypeOK, Chain, backend = "supervisor", [Next]_vars
  PROVE  /\ backend' = "supervisor"
         /\ CleanupProcessProof => CleanupProcessProof'
         /\ \A d \in Dispositions : salvage[d] # 0 => salvage'[d] # 0
<1> DEFINE Grown ==
      /\ backend' = "supervisor"
      /\ CleanupProcessProof => CleanupProcessProof'
      /\ \A d \in Dispositions : salvage[d] # 0 => salvage'[d] # 0
<1> USE DEF CleanupProcessProof
<1>1. CASE Acquire
  BY <1>1 DEF Acquire
<1>2. ASSUME NEW g \in Gens, GenerationStep(g) PROVE Grown
  <2>1. ASSUME NEW d \in Dispositions, RecordSalvage(g, d) PROVE Grown
    <3>1. g # 0
      BY BoundsAssumption DEF Gens
    <3> QED BY <2>1, <3>1 DEF RecordSalvage, TypeOK
  <2>2. CASE \A d \in Dispositions : ~RecordSalvage(g, d)
    BY <1>2, <2>2 DEF GenerationStep, Heartbeat, AdvanceResource, BeginCleanup, Finalize,
       StaleRecovery, AdvanceClaimsToQuarantined, FinalizeQuarantineOwnership, Launch,
       ReleaseStartGate, ReleaseTarget, store
  <2> QED BY <2>1, <2>2
<1>3. CASE ProcessStep
  <2>1. CASE CommitTerminal
    BY <2>1 DEF CommitTerminal, Chain
  <2>2. CASE ~CommitTerminal
    BY <1>3, <2>2 DEF ProcessStep, WorkerDies, ObserveDeath, CloseSupervision,
       SupervisorCrash, AwaitEmpty, PersistAuthorityProcessChain, store
  <2> QED BY <2>1, <2>2
<1>4. CASE EnvironmentStep
  BY <1>4 DEF EnvironmentStep, LineageStep, RepositoryStep, ClockStep, store
<1>5. CASE UNCHANGED vars
  BY <1>5 DEF vars, store
<1> QED BY <1>1, <1>2, <1>3, <1>4, <1>5 DEF Next

\* Outside FinishCleanup no transaction releases a lease.
LEMMA OwnershipReleasesNothing ==
  ASSUME TypeOK, OwnershipStep, NEW g \in Gens, lease'[g].state = "released"
  PROVE  lease[g].state = "released"
<1> USE DEF TypeOK
<1>c. ASSUME NEW h \in Gens, CleanupBegun(h) PROVE lease[g].state = "released"
  BY <1>c, CleanupBegunStates
<1>1. CASE Acquire
  BY <1>1 DEF Acquire, NewLease
<1>2. ASSUME NEW h \in Gens, Heartbeat(h) PROVE lease[g].state = "released"
  BY <1>2 DEF Heartbeat
<1>3. ASSUME NEW h \in Gens, StaleRecovery(h) PROVE lease[g].state = "released"
  BY <1>3 DEF StaleRecovery, RecoveredLeases, LeaseMoved, NewLease
<1>4. CASE lease' = lease
  BY <1>4
<1> QED BY <1>c, <1>1, <1>2, <1>3, <1>4
        DEF OwnershipStep, BeginCleanup, ReleaseStartGate, WorkerDies, ObserveDeath,
            CommitTerminal, CloseSupervision, SupervisorCrash, ClockStep, RepositoryStep, store

-----------------------------------------------------------------------------
(* The steps of provisioning, of the tables and of the executors.          *)

\* Provisioning under a live lease, each of its steps.
ProvisioningStep ==
  \E g \in Gens : \/ CreateAllocation(g) \/ CreateRef(g) \/ CreateWorktree(g)
                  \/ ClaimWorkspace(g) \/ LaunchInWorkspace(g) \/ Salvage(g)

\* Whatever happens around a cleanup, the tables see a step of their own.
LEMMA TablesSeeNext ==
  ASSUME TypeOK, PhysicalOK, ExecutorsInformed, [CleanupNext]_cleanupVars
  PROVE  [Next]_vars
<1>1. CASE ProvisioningStep
  <2> PICK g \in Gens : \/ CreateAllocation(g) \/ CreateRef(g) \/ CreateWorktree(g)
                        \/ ClaimWorkspace(g) \/ LaunchInWorkspace(g) \/ Salvage(g)
    BY <1>1 DEF ProvisioningStep
  <2>1. CASE CreateRef(g)
    BY <2>1 DEF CreateRef, Next, EnvironmentStep, RepositoryStep
  <2>2. CASE CreateAllocation(g) \/ CreateWorktree(g)
    BY <2>2 DEF CreateAllocation, CreateWorktree
  <2>3. CASE ClaimWorkspace(g) \/ LaunchInWorkspace(g) \/ Salvage(g)
    BY <2>3 DEF ClaimWorkspace, LaunchInWorkspace, Salvage, Next, GenerationStep
  <2> QED BY <2>1, <2>2, <2>3
<1>2. CASE OwnershipStep
  BY <1>2 DEF OwnershipStep, Next, GenerationStep, ProcessStep, EnvironmentStep
<1>3. ASSUME NEW e \in Executors, ExecutorStep(e) \/ ExecutorCrash(e) PROVE [Next]_vars
  <2>1. CASE DeleteRef(e)
    BY <2>1 DEF DeleteRef, Next, EnvironmentStep, RepositoryStep, vars, world, TypeOK
  <2>2. CASE FinishCleanup(e)
    <3>1. exec[e].gen \in Gens /\ exec[e].d \in Dispositions
      BY <2>2 DEF FinishCleanup, ExecutorsInformed, PhysicalOK
    <3>2. Finalize(exec[e].gen, exec[e].d, "released") => Next
      BY <3>1 DEF Next, GenerationStep, ClosedStates
    <3> QED BY <2>2, <3>2 DEF FinishCleanup
  <2>3. CASE ~DeleteRef(e) /\ ~FinishCleanup(e)
    BY <1>3, <2>3 DEF ExecutorStep, StartCleanup, CheckFresh, RemoveWorktree, RemovePaths,
       ExecutorCrash
  <2> QED BY <2>1, <2>2, <2>3
<1>4. CASE UNCHANGED cleanupVars
  BY <1>4 DEF cleanupVars
<1> QED BY <1>1, <1>2, <1>3, <1>4 DEF CleanupNext, ProvisioningStep

\* A released lease excludes a live one: provisioning is over for good.
LEMMA NoProvisioningAfterRelease ==
  ASSUME Tables, NEW g \in Gens, Provisioning(g), NEW h \in Gens
  PROVE  lease[h].state # "released"
  BY DEF Provisioning, Tables, SingleOpenGeneration, Open, OpenStates

\* One executor moves to another step of the same cleanup, or gives up.
LEMMA ExecutorMoves ==
  ASSUME TypeOK, PhysicalOK, Chain, backend = "supervisor", ExecutorsInformed,
         NEW e \in Executors, [Next]_vars,
         \/ \E step \in Steps : Goto(e, step) /\ exec[e].at # "idle"
         \/ Abort(e)
  PROVE  /\ exec' \in [Executors -> [at : Steps, gen : 0 .. MaxGen, sawRef : BOOLEAN,
                                     d : Dispositions]]
         /\ ExecutorsInformed'
<1>0. /\ CleanupProcessProof => CleanupProcessProof'
      /\ \A d \in Dispositions : salvage[d] # 0 => salvage'[d] # 0
  BY ProofsGrow
<1>1. CASE Abort(e)
  <2>1. Idle \in [at : Steps, gen : 0 .. MaxGen, sawRef : BOOLEAN, d : Dispositions]
        /\ Idle.at = "idle"
    BY BoundsAssumption DEF Idle, Steps, Dispositions
  <2> QED BY <1>0, <1>1, <2>1 DEF Abort, PhysicalOK, ExecutorsInformed
<1>2. ASSUME NEW step \in Steps, Goto(e, step), exec[e].at # "idle"
      PROVE  /\ exec' \in [Executors -> [at : Steps, gen : 0 .. MaxGen, sawRef : BOOLEAN,
                                         d : Dispositions]]
             /\ ExecutorsInformed'
  <2>1. exec' \in [Executors -> [at : Steps, gen : 0 .. MaxGen, sawRef : BOOLEAN,
                                d : Dispositions]]
    BY <1>2 DEF Goto, PhysicalOK
  <2>2. \A f \in Executors : /\ exec'[f].gen = exec[f].gen /\ exec'[f].d = exec[f].d
                             /\ exec'[f].at # "idle" => exec[f].at # "idle"
    BY <1>2 DEF Goto, PhysicalOK
  <2> QED BY <1>0, <2>1, <2>2 DEF PhysicalOK, ExecutorsInformed
<1> QED BY <1>1, <1>2

\* Every step keeps the executors informed, the worktree behind the salvage
\* and a released lease empty.
LEMMA CleanupInvStep == CleanupInv /\ [CleanupNext]_cleanupVars => CleanupInv'
<1> SUFFICES ASSUME CleanupInv, [CleanupNext]_cleanupVars PROVE CleanupInv'
  OBVIOUS
<1> USE DEF CleanupInv
<1>n. [Next]_vars
  BY TablesSeeNext
<1>t. TypeOK' /\ Tables' /\ Chain' /\ backend' = "supervisor"
  BY <1>n, TypeStep, TablesStep, ChainStep, ProofsGrow
<1>g. /\ CleanupProcessProof => CleanupProcessProof'
      /\ \A d \in Dispositions : salvage[d] # 0 => salvage'[d] # 0
  BY <1>n, ProofsGrow
<1>k. ASSUME exec' = exec PROVE ExecutorsInformed'
  BY <1>g, <1>k DEF ExecutorsInformed, PhysicalOK
<1>w. ASSUME worktree' = "removed" => worktree = "removed" PROVE RemovalInformed'
  BY <1>g, <1>w DEF RemovalInformed
<1>r. ASSUME \A g \in Gens : lease'[g].state = "released" => lease[g].state = "released",
             \/ worktree' = worktree /\ allocation' = allocation /\ attemptRef' = attemptRef
             \/ \E g \in Gens : Provisioning(g)
             \/ /\ worktree' = worktree \/ worktree' = "removed"
                /\ allocation' = allocation \/ allocation' = "removed"
                /\ attemptRef' = attemptRef \/ attemptRef' = "absent"
      PROVE  ReleasedMeansGone'
  BY <1>r, NoProvisioningAfterRelease DEF ReleasedMeansGone
<1>1. CASE ProvisioningStep
  <2> PICK g \in Gens : \/ CreateAllocation(g) \/ CreateRef(g) \/ CreateWorktree(g)
                        \/ ClaimWorkspace(g) \/ LaunchInWorkspace(g) \/ Salvage(g)
    BY <1>1 DEF ProvisioningStep
  <2>1. CASE CreateAllocation(g) \/ CreateRef(g) \/ CreateWorktree(g)
    <3>1. PhysicalOK' /\ exec' = exec /\ Provisioning(g) /\ lease' = lease
          /\ (worktree' = "removed" => worktree = "removed")
      BY <2>1 DEF CreateAllocation, CreateRef, CreateWorktree, PhysicalOK, physical, vars, store
    <3> QED BY <1>t, <1>k, <1>w, <1>r, <3>1
  <2>2. CASE ClaimWorkspace(g) \/ LaunchInWorkspace(g) \/ Salvage(g)
    <3>1. PhysicalOK' /\ exec' = exec /\ UNCHANGED <<lease, worktree, allocation, attemptRef>>
      BY <2>2 DEF ClaimWorkspace, AdvanceResource, LaunchInWorkspace, Launch, Salvage,
         RecordSalvage, PhysicalOK, physical, world
    <3> QED BY <1>t, <1>k, <1>w, <1>r, <3>1
  <2> QED BY <2>1, <2>2
<1>2. CASE OwnershipStep
  <2>1. PhysicalOK' /\ exec' = exec /\ UNCHANGED <<worktree, allocation, attemptRef>>
    BY <1>2 DEF OwnershipStep, Acquire, Heartbeat, BeginCleanup, StaleRecovery,
       ReleaseStartGate, WorkerDies, ObserveDeath, CommitTerminal, CloseSupervision,
       SupervisorCrash, ClockStep, PhysicalOK, physical, world
  <2> QED BY <1>2, <1>t, <1>k, <1>w, <1>r, <2>1, OwnershipReleasesNothing
<1>3. ASSUME NEW e \in Executors, ExecutorStep(e) \/ ExecutorCrash(e) PROVE CleanupInv'
  <2>m. ASSUME (\E step \in Steps : Goto(e, step) /\ exec[e].at # "idle") \/ Abort(e),
               UNCHANGED crashes \/ ExecutorCrash(e),
               worktree' \in {"never", "present", "removed"},
               allocation' \in {"never", "present", "removed"}
        PROVE  PhysicalOK' /\ ExecutorsInformed'
    <3>1. crashes' \in 0 .. MaxCrashes
      BY <2>m, CrashAssumption DEF PhysicalOK, ExecutorCrash
    <3> QED BY <2>m, <1>n, <3>1, ExecutorMoves DEF PhysicalOK
  <2>1. ASSUME NEW g \in Gens, NEW d \in Dispositions, StartCleanup(e, g, d)
        PROVE  CleanupInv'
    <3>1. [at |-> "ready", gen |-> g, sawRef |-> attemptRef = "present", d |-> d]
            \in [at : Steps, gen : 0 .. MaxGen, sawRef : BOOLEAN, d : Dispositions]
      BY BoundsAssumption DEF Steps, Gens
    <3>2. PhysicalOK' /\ UNCHANGED <<lease, worktree, allocation, attemptRef>>
      BY <2>1, <3>1 DEF StartCleanup, PhysicalOK, physical, vars, store, world
    <3>3. ExecutorsInformed'
      BY <2>1, <1>g DEF StartCleanup, AssertCleanupReady, ExecutorsInformed, PhysicalOK
    <3> QED BY <1>t, <1>w, <1>r, <3>2, <3>3
  <2>2. ASSUME NEW before \in Steps \ {"idle"}, NEW after \in Steps,
               CheckFresh(e, before, after)
        PROVE  CleanupInv'
    <3>1. UNCHANGED <<lease, worktree, allocation, attemptRef, crashes>>
          /\ ((\E step \in Steps : Goto(e, step) /\ exec[e].at # "idle") \/ Abort(e))
      BY <2>2 DEF CheckFresh, physical, vars, store, world
    <3>2. PhysicalOK' /\ ExecutorsInformed'
      BY <2>m, <3>1 DEF PhysicalOK
    <3> QED BY <1>t, <1>w, <1>r, <3>1, <3>2
  <2>3. CASE RemoveWorktree(e)
    <3>0. exec[e].at # "idle" /\ {"worktree_gone", "ref_gone"} \subseteq Steps
      BY <2>3 DEF RemoveWorktree, Steps
    <3>1. /\ UNCHANGED <<lease, allocation, attemptRef, crashes>>
          /\ worktree' = worktree \/ worktree' = "removed"
          /\ \E step \in Steps : Goto(e, step)
      BY <2>3, <3>0 DEF RemoveWorktree, vars, store, world
    <3>2. PhysicalOK' /\ ExecutorsInformed'
      BY <2>m, <3>0, <3>1 DEF PhysicalOK
    <3>3. RemovalInformed'
      BY <1>g, <3>0 DEF ExecutorsInformed, RemovalInformed, PhysicalOK
    <3> QED BY <1>t, <1>r, <3>1, <3>2, <3>3
  <2>4. CASE DeleteRef(e)
    <3>0. exec[e].at # "idle" /\ "ref_gone" \in Steps
      BY <2>4 DEF DeleteRef, Steps
    <3>1. /\ UNCHANGED <<lease, worktree, allocation, crashes>>
          /\ attemptRef' = attemptRef \/ attemptRef' = "absent"
          /\ Goto(e, "ref_gone") \/ Abort(e)
      BY <2>4 DEF DeleteRef, physical, store
    <3>2. PhysicalOK' /\ ExecutorsInformed'
      BY <2>m, <3>0, <3>1 DEF PhysicalOK
    <3> QED BY <1>t, <1>w, <1>r, <3>1, <3>2
  <2>5. CASE RemovePaths(e)
    <3>0. exec[e].at # "idle" /\ "paths_gone" \in Steps
      BY <2>5 DEF RemovePaths, Steps
    <3>1. /\ UNCHANGED <<lease, worktree, attemptRef, crashes>>
          /\ allocation' = "removed"
          /\ Goto(e, "paths_gone")
      BY <2>5 DEF RemovePaths, vars, store, world
    <3>2. PhysicalOK' /\ ExecutorsInformed'
      BY <2>m, <3>0, <3>1 DEF PhysicalOK
    <3> QED BY <1>t, <1>w, <1>r, <3>1, <3>2
  <2>6. CASE FinishCleanup(e)
    <3>1. UNCHANGED <<worktree, allocation, attemptRef, crashes>> /\ Abort(e)
      BY <2>6 DEF FinishCleanup, Finalize, physical, vars, world
    <3>2. PhysicalOK' /\ ExecutorsInformed'
      BY <2>m, <3>1 DEF PhysicalOK
    <3>3. EffectsAbsent \/ lease' = lease
      BY <2>6 DEF FinishCleanup, vars, store
    <3>4. ReleasedMeansGone'
      BY <1>r, <3>1, <3>3 DEF EffectsAbsent, ReleasedMeansGone
    <3> QED BY <1>t, <1>w, <3>1, <3>2, <3>4
  <2>7. CASE ExecutorCrash(e)
    <3>1. UNCHANGED <<lease, worktree, allocation, attemptRef>> /\ Abort(e)
      BY <2>7 DEF ExecutorCrash, physical, vars, store, world
    <3>2. PhysicalOK' /\ ExecutorsInformed'
      BY <2>m, <2>7, <3>1 DEF PhysicalOK
    <3> QED BY <1>t, <1>w, <1>r, <3>1, <3>2
  <2>s. /\ {"ready", "worktree_gone", "ref_gone"} \subseteq Steps \ {"idle"}
        /\ {"may_remove_worktree", "may_delete_ref", "may_remove_paths"} \subseteq Steps
    BY DEF Steps
  <2> QED BY <1>3, <2>s, <2>1, <2>2, <2>3, <2>4, <2>5, <2>6, <2>7 DEF ExecutorStep
<1>4. CASE UNCHANGED cleanupVars
  <2>1. PhysicalOK' /\ exec' = exec /\ UNCHANGED <<lease, worktree, allocation, attemptRef>>
    BY <1>4 DEF cleanupVars, vars, store, world, physical, PhysicalOK
  <2> QED BY <1>t, <1>k, <1>w, <1>r, <2>1
<1> QED BY <1>1, <1>2, <1>3, <1>4 DEF CleanupNext, ProvisioningStep

\* So every reachable state satisfies the invariant.
LEMMA CleanupInvariant == CleanupSpec => []CleanupInv
<1>1. CleanupInit => CleanupInv
  <2> SUFFICES ASSUME CleanupInit PROVE CleanupInv
    OBVIOUS
  <2>1. TypeOK /\ Tables /\ Chain
    BY TypeInit, TablesInit, ChainInit DEF CleanupInit
  <2>2. Idle \in [at : Steps, gen : 0 .. MaxGen, sawRef : BOOLEAN, d : Dispositions]
        /\ Idle.at = "idle"
    BY BoundsAssumption DEF Idle, Steps, Dispositions
  <2>3. PhysicalOK /\ ExecutorsInformed
    BY <2>2, CrashAssumption DEF CleanupInit, PhysicalOK, ExecutorsInformed
  <2>4. RemovalInformed /\ ReleasedMeansGone
    BY DEF CleanupInit, Init, NoLease, RemovalInformed, ReleasedMeansGone
  <2> QED BY <2>1, <2>3, <2>4 DEF CleanupInit, CleanupInv
<1> QED BY <1>1, CleanupInvStep, PTL DEF CleanupSpec

\* Leases, claims, paths and executors are well typed in every state.
THEOREM CleanupTypes == CleanupSpec => []CleanupTypeOK
<1>1. CleanupInv => CleanupTypeOK
  BY DEF CleanupInv, PhysicalOK, CleanupTypeOK
<1> QED BY <1>1, CleanupInvariant, PTL

\* No executor, however late it acts on an old answer, removes a worktree
\* whose worker lives or whose content was not salvaged.
THEOREM WorkIsPreserved == CleanupSpec => []WorkPreserved
<1>1. CleanupInv => WorkPreserved
  BY DEF CleanupInv, RemovalInformed, Chain, CleanupProcessProof, WorkPreserved
<1> QED BY <1>1, CleanupInvariant, PTL

\* A lease is released only when the worktree, the allocation and the attempt
\* ref are gone, and nothing brings them back.
THEOREM ReleaseIsComplete == CleanupSpec => []ReleasedMeansGone
<1>1. CleanupInv => ReleasedMeansGone
  BY DEF CleanupInv
<1> QED BY <1>1, CleanupInvariant, PTL

\* The tables of a cleaned attempt are a run of AttemptOwnership: whatever is
\* proved of the ownership holds while executors race and crash.
THEOREM CleanupKeepsOwnership == CleanupSpec => Spec
<1>1. CleanupInit => Init
  BY DEF CleanupInit
<1>2. CleanupInv /\ [CleanupNext]_cleanupVars => [Next]_vars
  BY TablesSeeNext DEF CleanupInv
<1> QED BY <1>1, <1>2, CleanupInvariant, PTL DEF CleanupSpec, Spec

=============================================================================
