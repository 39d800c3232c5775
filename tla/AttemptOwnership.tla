-------------------------- MODULE AttemptOwnership --------------------------
(***************************************************************************)
(* The ownership of one attempt: the lease generations of the table        *)
(* attempt_ownership_leases, the resource claims they own, and the process *)
(* chain (launch, death observation, terminal receipt) that the worker of  *)
(* the attempt leaves behind.  Every action below is one BEGIN IMMEDIATE   *)
(* transaction of StateStore (orchestrator/src/state/store.ts), or one     *)
(* step of the supervisor of the worker.  A command whose compare-and-set  *)
(* fails, or that replays a sealed idempotency key, leaves the tables as   *)
(* they are and is a stuttering step.                                      *)
(*                                                                         *)
(* Clocks are Date.now() of the orchestrator: they may step backwards.     *)
(***************************************************************************)
EXTENDS Integers

CONSTANTS
  Slots,           \* the resource slots of the attempt's ownership plan
  ProcessSlots,    \* process_group, stdout and stderr: activated by a launch
  WorkspaceSlots,  \* the slots for which provisioning mints receipts
  MaxGen,          \* bound on lease generations
  MaxTime,         \* bound on the wall clock
  MaxHeartbeats,   \* bound on the heartbeats of a generation
  Ttl              \* the lease's time to live

ASSUME SlotsAssumption ==
  /\ ProcessSlots \subseteq Slots
  /\ WorkspaceSlots \subseteq Slots
  /\ ProcessSlots \cap WorkspaceSlots = {}
ASSUME BoundsAssumption ==
  /\ MaxGen \in Nat \ {0}
  /\ MaxTime \in Nat
  /\ MaxHeartbeats \in Nat
  /\ Ttl \in Nat \ {0}

VARIABLES
  now,        \* the wall clock
  backend,    \* who runs the worker: ProcessSupervisor, or a container
  lineage,    \* does the run/ticket/attempt admit this attempt's ownership?
  lease,      \* attempt_ownership_leases, by generation
  claim,      \* attempt_resource_claims, by slot
  launch,     \* attempt_process_launches
  terminal,   \* attempt_process_terminal_receipts and its death observation
  salvage,    \* salvage_records: the generation that recorded a disposition
  sup,        \* where the supervisor of the worker stands
  death,      \* the death observation the supervisor holds in memory
  worker,     \* the worker's process group
  attemptRef, \* does the attempt ref exist in Git?
  delivery    \* is the delivery ref at runs.current_delivery_oid?

store == <<lease, claim, launch, terminal, salvage>>
world == <<worker, attemptRef, delivery>>
vars == <<now, backend, lineage, store, sup, death, world>>

Gens == 1 .. MaxGen
OpenStates == {"live", "cleanup_pending"}
ClosedStates == {"released", "quarantined"}
LeaseStates == OpenStates \cup ClosedStates \cup {"absent"}
UsableStates == {"reserved", "allocated", "active"}
HeldStates == UsableStates \cup {"cleanup_pending"}
ClaimStates == HeldStates \cup ClosedStates \cup {"absent"}
Dispositions == {"captured", "empty"}

NoLease == [state |-> "absent", version |-> 0, heartbeat |-> 0, expires |-> 0]
NoClaim == [owner |-> 0, state |-> "absent", version |-> 0]
NoLaunch == [gen |-> 0, at |-> 0]
NoDeath == [basis |-> "none", at |-> 0]
NoTerminal == [source |-> "none", basis |-> "none", deathAt |-> 0, at |-> 0]

TypeOK ==
  /\ now \in Nat
  /\ backend \in {"supervisor", "container"}
  /\ lineage \in {"planned", "running", "closed"}
  /\ lease \in [Gens -> [state : LeaseStates, version : Nat,
                         heartbeat : Nat, expires : Nat]]
  /\ claim \in [Slots -> [owner : 0 .. MaxGen, state : ClaimStates, version : Nat]]
  /\ launch \in [gen : 0 .. MaxGen, at : Nat]
  /\ terminal \in [source : {"none", "supervisor", "container"},
                   basis : {"none", "sampled", "authoritative"},
                   deathAt : Nat, at : Nat]
  /\ salvage \in [Dispositions -> 0 .. MaxGen]
  /\ sup \in {"idle", "gated", "following", "observed", "closing", "done", "crashed"}
  /\ death \in [basis : {"none", "sampled", "authoritative"}, at : Nat]
  /\ worker \in {"none", "gated", "running", "dead"}
  /\ attemptRef \in {"present", "absent"}
  /\ delivery \in {"exact", "moved"}

Init ==
  /\ now = 0
  /\ backend \in {"supervisor", "container"}
  /\ lineage = "planned"
  /\ lease = [g \in Gens |-> NoLease]
  /\ claim = [s \in Slots |-> NoClaim]
  /\ launch = NoLaunch
  /\ terminal = NoTerminal
  /\ salvage = [d \in Dispositions |-> 0]
  /\ sup = "idle"
  /\ death = NoDeath
  /\ worker = "none"
  /\ attemptRef = "absent"
  /\ delivery = "exact"

-----------------------------------------------------------------------------
(* Reading the lease table.                                                *)

Open(g) == lease[g].state \in OpenStates
Expired(g) == lease[g].expires <= now
Recovered(g) == g > 1                \* recovered_from_ownership_id IS NOT NULL
Owns(g, s) == claim[s].owner = g

\* What assertFresh establishes about the caller's grant of generation g.
AssertCurrent(g) ==
  /\ Open(g)
  /\ ~Expired(g)
  /\ lease[g].state = "live" =>
       /\ ~Recovered(g)
       /\ lineage # "closed"
       /\ \A s \in Slots : Owns(g, s) /\ claim[s].state \in UsableStates
  /\ lease[g].state = "cleanup_pending" =>
       \A s \in Slots : Owns(g, s) /\ claim[s].state = "cleanup_pending"

\* Cleanup accepts a terminal receipt launched by any generation of the
\* lineage whose group-death observation is an authoritative one.
CleanupProcessProof == terminal.source # "none" /\ terminal.basis = "authoritative"

\* Mutant: the worktree may go before what it holds was archived.
AssertCleanupReadyUnsalvaged(g, d) ==
  lease[g].state = "cleanup_pending" /\ AssertCurrent(g) /\ CleanupProcessProof

\* What assertCleanupReady establishes, next to AssertCurrent.
AssertCleanupReady(g, d) ==
  /\ lease[g].state = "cleanup_pending"
  /\ AssertCurrent(g)
  /\ CleanupProcessProof
  /\ salvage[d] # 0

-----------------------------------------------------------------------------
(* Rows as the transactions write them.                                    *)

\* Mutant: a lease stamped with the time it ran out.
BackdatedLease(state) ==
  [state |-> state, version |-> 0, heartbeat |-> now - Ttl, expires |-> now]

NewLease(state) ==
  [state |-> state, version |-> 0, heartbeat |-> now, expires |-> now + Ttl]

LeaseMoved(l, state) ==
  [state |-> state, version |-> l.version + 1,
   heartbeat |-> l.heartbeat, expires |-> l.expires]

\* Mutant: the state moves and the version the next writer compares does not.
ClaimMovedUnversioned(c, state) ==
  [owner |-> c.owner, state |-> state, version |-> c.version]

ClaimMoved(c, state) ==
  [owner |-> c.owner, state |-> state, version |-> c.version + 1]

\* A claim in cleanup under another generation.
ClaimHandedOver(c, g) ==
  [owner |-> g, state |-> "cleanup_pending", version |-> c.version + 1]

\* Mutant: recovery forgets the claims that were already in cleanup.
HandedOverUsableOnly(g) ==
  [s \in Slots |->
    IF Owns(g, s) /\ claim[s].state \in UsableStates
    THEN ClaimHandedOver(claim[s], g + 1)
    ELSE claim[s]]

\* The claims of g after recovery: two updates, of the usable claims and of
\* those in cleanup.  Quarantined and released claims stay where they are.
HandedOver(g) ==
  [s \in Slots |->
    IF Owns(g, s) /\ claim[s].state \in HeldStates
    THEN ClaimHandedOver(claim[s], g + 1)
    ELSE claim[s]]

-----------------------------------------------------------------------------
(* Lease operations.                                                       *)

Acquire ==
  /\ lineage = "planned"
  /\ \A g \in Gens : lease[g].state = "absent"
  /\ lease' = [lease EXCEPT ![1] = NewLease("live")]
  /\ claim' = [s \in Slots |-> [owner |-> 1, state |-> "reserved", version |-> 0]]
  /\ UNCHANGED <<now, backend, lineage, launch, terminal, salvage, sup, death, world>>

\* The only caller is the heartbeat interval of the supervisor that follows
\* the worker; nobody renews the lease of a containerised worker.
Heartbeat(g) ==
  LET beat == IF now > lease[g].heartbeat THEN now ELSE lease[g].heartbeat + 1
  IN  /\ backend = "supervisor" /\ sup = "following" /\ launch.gen = g
      /\ lease[g].state = "live" /\ ~Recovered(g) /\ ~Expired(g)
      /\ lease[g].version < MaxHeartbeats
      /\ lease' = [lease EXCEPT ![g] =
           [state |-> "live", version |-> lease[g].version + 1,
            heartbeat |-> beat, expires |-> beat + Ttl]]
      /\ UNCHANGED <<now, backend, lineage, claim, launch, terminal, salvage,
                     sup, death, world>>

AdvanceResource(g, s) ==
  /\ lease[g].state = "live" /\ ~Recovered(g) /\ ~Expired(g)
  /\ Owns(g, s)
  /\ \/ /\ claim[s].state = "reserved"
        /\ claim' = [claim EXCEPT ![s] = ClaimMoved(@, "allocated")]
     \/ /\ claim[s].state = "allocated"
        /\ claim' = [claim EXCEPT ![s] = ClaimMoved(@, "active")]
  /\ UNCHANGED <<now, backend, lineage, lease, launch, terminal, salvage, sup, death, world>>

\* The two tables after begin_cleanup of generation g: an expired lease may
\* still begin cleanup.
CleanupBegun(g) ==
  /\ lease[g].state = "live"
  /\ lease' = [lease EXCEPT ![g] = LeaseMoved(@, "cleanup_pending")]
  /\ claim' = [s \in Slots |->
       IF Owns(g, s) /\ claim[s].state \in UsableStates
       THEN ClaimMoved(claim[s], "cleanup_pending") ELSE claim[s]]

\* Any holder of the grant: the runner, the workspace, the commit service.
BeginCleanup(g) ==
  /\ CleanupBegun(g)
  /\ UNCHANGED <<now, backend, lineage, launch, terminal, salvage, sup, death, world>>

RecordSalvage(g, d) ==
  /\ lease[g].state = "cleanup_pending" /\ AssertCurrent(g)
  /\ CleanupProcessProof
  /\ terminal.at <= now /\ terminal.deathAt <= now
  /\ salvage[d] = 0
  /\ salvage' = [salvage EXCEPT ![d] = g]
  /\ UNCHANGED <<now, backend, lineage, lease, claim, launch, terminal, sup, death, world>>

\* finalizeCleanup to t = "released" or "quarantined".
Finalize(g, d, t) ==
  /\ lease[g].state = "cleanup_pending" /\ ~Expired(g)
  /\ \A s \in Slots : Owns(g, s) /\ claim[s].state = "cleanup_pending"
  /\ CleanupProcessProof
  /\ salvage[d] # 0
  /\ delivery = "exact" /\ attemptRef = "absent"
  /\ lease' = [lease EXCEPT ![g] = LeaseMoved(@, t)]
  /\ claim' = [s \in Slots |-> ClaimMoved(claim[s], t)]
  /\ UNCHANGED <<now, backend, lineage, launch, terminal, salvage, sup, death, world>>

\* Mutant: recovery trusts any terminal receipt of the owner.
RecoveryProofOfTerminal(g) ==
  terminal.source = "supervisor" /\ launch.gen = g /\ terminal.deathAt <= now

\* The death chain stale recovery demands.  Only a supervisor's terminal has
\* the digest it compares, and the launch must be of the expired generation.
RecoveryProof(g) ==
  /\ terminal.source = "supervisor" /\ terminal.basis = "authoritative"
  /\ launch.gen = g
  /\ lease[g].heartbeat <= terminal.deathAt /\ terminal.deathAt <= now

\* Mutant: recovery leaves the expired owner open.
RecoveredLeasesUnfenced(g) == [lease EXCEPT ![g + 1] = NewLease("cleanup_pending")]

\* Mutant: the successor may go on working.
RecoveredLeasesLive(g) ==
  [lease EXCEPT ![g] = LeaseMoved(@, "quarantined"), ![g + 1] = NewLease("live")]

\* The expired owner is quarantined and its successor only ever cleans up.
RecoveredLeases(g) ==
  [lease EXCEPT ![g] = LeaseMoved(@, "quarantined"),
                ![g + 1] = NewLease("cleanup_pending")]

StaleRecovery(g) ==
  /\ g + 1 \in Gens
  /\ Open(g) /\ Expired(g)
  /\ RecoveryProof(g)
  /\ lease' = RecoveredLeases(g)
  /\ claim' = HandedOver(g)
  /\ UNCHANGED <<now, backend, lineage, launch, terminal, salvage, sup, death, world>>

\* The quarantine of AttemptRunner: two transactions, the claims first.
AdvanceClaimsToQuarantined(g) ==
  /\ \E s \in Slots : Owns(g, s) /\ claim[s].state = "cleanup_pending"
  /\ claim' = [s \in Slots |->
       IF Owns(g, s) /\ claim[s].state = "cleanup_pending"
       THEN ClaimMoved(claim[s], "quarantined") ELSE claim[s]]
  /\ UNCHANGED <<now, backend, lineage, lease, launch, terminal, salvage, sup, death, world>>

\* The runner comes here with the quarantined claims the step above returned.
FinalizeQuarantineOwnership(g) ==
  /\ lease[g].state = "cleanup_pending"
  /\ \A s \in Slots : Owns(g, s) /\ claim[s].state = "quarantined"
  /\ lease' = [lease EXCEPT ![g] = LeaseMoved(@, "quarantined")]
  /\ UNCHANGED <<now, backend, lineage, claim, launch, terminal, salvage, sup, death, world>>

-----------------------------------------------------------------------------
(* The worker under ProcessSupervisor.run.                                 *)

Launch(g) ==
  /\ backend = "supervisor"
  /\ sup = "idle"
  /\ lease[g].state = "live" /\ ~Recovered(g) /\ ~Expired(g)
  /\ \A s \in ProcessSlots : Owns(g, s) /\ claim[s].state \in {"reserved", "allocated"}
  /\ claim' = [s \in Slots |->
       IF s \in ProcessSlots
       THEN [owner |-> g, state |-> "active",
             version |-> claim[s].version + (IF claim[s].state = "reserved" THEN 2 ELSE 1)]
       ELSE claim[s]]
  /\ launch' = [gen |-> g, at |-> now]
  /\ worker' = "gated"
  /\ sup' = "gated"
  /\ UNCHANGED <<now, backend, lineage, lease, terminal, salvage, death, attemptRef, delivery>>

\* assertFresh after the launch is durable: the start gate is released, or
\* the bootstrap is killed and no terminal receipt is ever written.
ReleaseStartGate(g) ==
  /\ sup = "gated" /\ launch.gen = g
  /\ IF AssertCurrent(g)
     THEN worker' = "running" /\ sup' = "following"
     ELSE worker' = "dead" /\ sup' = "closing"
  /\ UNCHANGED <<now, backend, lineage, store, death, attemptRef, delivery>>

\* The group is gone: it exited, or was signalled after a timeout, a lost
\* heartbeat or a failed descendant capture.  A bootstrap whose supervisor
\* died sees its start gate close and exits.
WorkerDies ==
  /\ worker = "running" \/ (worker = "gated" /\ sup = "crashed")
  /\ worker' = "dead"
  /\ UNCHANGED <<now, backend, lineage, store, sup, death, attemptRef, delivery>>

\* waitForDeath: only an authoritative controller confirms every descendant,
\* and it does so only for a group that is gone.
ObserveDeath ==
  /\ backend = "supervisor" /\ sup = "following"
  /\ \E basis \in {"none", "sampled", "authoritative"} :
       /\ basis = "authoritative" => worker = "dead"
       /\ death' = [basis |-> basis, at |-> now]
  /\ sup' = "observed"
  /\ UNCHANGED <<now, backend, lineage, store, world>>

\* Mutant: a zero exit alone excuses the supervisor from cleanup.
RequiresCleanupOnExit(persisted, exitZero) == ~exitZero

RequiresCleanup(persisted, exitZero) ==
  ~persisted \/ ~exitZero \/ death.basis # "authoritative"

\* commitAuthorizedProcessTerminal refuses observations outside the interval
\* from launch to terminal: after a backward clock step nothing is persisted.
CommitTerminal ==
  LET ordered == launch.at <= now
                 /\ death.basis # "none" => launch.at <= death.at /\ death.at <= now
  IN  /\ backend = "supervisor" /\ sup = "observed"
      /\ terminal' = IF ordered
                     THEN [source |-> "supervisor", basis |-> death.basis,
                           deathAt |-> death.at, at |-> now]
                     ELSE terminal
      /\ \E exitZero \in BOOLEAN :
           sup' = IF RequiresCleanup(ordered, exitZero) THEN "closing" ELSE "done"
      /\ UNCHANGED <<now, backend, lineage, lease, claim, launch, salvage, death, world>>

\* The supervisor's own beginCleanup, whose failure it swallows.
CloseSupervision ==
  /\ sup = "closing"
  /\ sup' = "done"
  /\ IF \E g \in Gens : g = launch.gen /\ lease[g].state = "live"
     THEN CleanupBegun(launch.gen)
     ELSE UNCHANGED <<lease, claim>>
  /\ UNCHANGED <<now, backend, lineage, launch, terminal, salvage, death, world>>

\* The orchestrator process dies; the detached worker does not.
SupervisorCrash ==
  /\ sup \in {"gated", "following", "observed", "closing"}
  /\ sup' = "crashed"
  /\ UNCHANGED <<now, backend, lineage, store, death, world>>

-----------------------------------------------------------------------------
(* The worker in a container, under AttemptRunner.                         *)

\* The default dispatch provider releases the target right after the attempt
\* moved to implementing under the live_lease guard.
ReleaseTarget(g) ==
  /\ backend = "container"
  /\ sup = "idle" /\ lease[g].state = "live" /\ AssertCurrent(g)
  /\ launch' = [gen |-> g, at |-> now]
  /\ worker' = "running"
  /\ sup' = "following"
  /\ UNCHANGED <<now, backend, lineage, lease, claim, terminal, salvage, death, attemptRef, delivery>>

\* awaitEmpty after the exec client returned: the container is killed and
\* seen empty, or an inspection throws and the death receipt is null.
AwaitEmpty ==
  /\ backend = "container" /\ sup = "following"
  /\ \/ worker' = "dead" /\ death' = [basis |-> "authoritative", at |-> now]
     \/ worker' = worker /\ death' = NoDeath
  /\ sup' = "observed"
  /\ UNCHANGED <<now, backend, lineage, store, attemptRef, delivery>>

\* persistAuthorityProcessChain: launch, group death and terminal in one
\* transaction, whatever awaitEmpty found; its failure is swallowed.
PersistAuthorityProcessChain ==
  /\ backend = "container" /\ sup = "observed"
  /\ \/ terminal' = [source |-> "container", basis |-> "authoritative",
                      deathAt |-> now, at |-> now]
     \/ terminal' = terminal
  /\ sup' = "done"
  /\ UNCHANGED <<now, backend, lineage, lease, claim, launch, salvage, death, world>>

-----------------------------------------------------------------------------
(* The environment.                                                        *)

\* The attempt leaves planned, and later its continuation ends.
LineageStep ==
  /\ \/ lineage = "planned" /\ lineage' = "running"
     \/ lineage # "closed" /\ lineage' = "closed"
  /\ UNCHANGED <<now, backend, store, sup, death, world>>

\* Git: the attempt ref is created or deleted, the delivery ref moves away
\* from, or back to, the recorded OID.
RepositoryStep ==
  /\ \/ attemptRef' \in {"present", "absent"} \ {attemptRef} /\ delivery' = delivery
     \/ delivery' \in {"exact", "moved"} \ {delivery} /\ attemptRef' = attemptRef
  /\ UNCHANGED <<now, backend, lineage, store, sup, death, worker>>

ClockStep ==
  /\ now' \in (0 .. MaxTime) \ {now}
  /\ UNCHANGED <<backend, lineage, store, sup, death, world>>

-----------------------------------------------------------------------------
GenerationStep(g) ==
  \/ Heartbeat(g)
  \/ \E s \in WorkspaceSlots : AdvanceResource(g, s)
  \/ BeginCleanup(g)
  \/ \E d \in Dispositions : RecordSalvage(g, d)
  \/ \E d \in Dispositions, t \in ClosedStates : Finalize(g, d, t)
  \/ StaleRecovery(g)
  \/ AdvanceClaimsToQuarantined(g)
  \/ FinalizeQuarantineOwnership(g)
  \/ Launch(g)
  \/ ReleaseStartGate(g)
  \/ ReleaseTarget(g)

ProcessStep ==
  \/ WorkerDies
  \/ ObserveDeath
  \/ CommitTerminal
  \/ CloseSupervision
  \/ SupervisorCrash
  \/ AwaitEmpty
  \/ PersistAuthorityProcessChain

EnvironmentStep ==
  \/ LineageStep
  \/ RepositoryStep
  \/ ClockStep

Next ==
  \/ Acquire
  \/ \E g \in Gens : GenerationStep(g)
  \/ ProcessStep
  \/ EnvironmentStep

Spec == Init /\ [][Next]_vars

-----------------------------------------------------------------------------
(* Properties.                                                             *)

\* At most one generation of the attempt is live or in cleanup.  Every older
\* one was quarantined by the recovery that replaced it, no newer one exists.
SingleOpenGeneration ==
  \A g \in Gens : Open(g) =>
    \A h \in Gens \ {g} : lease[h].state = IF h < g THEN "quarantined" ELSE "absent"

\* A usable claim belongs to a live lease, a claim in cleanup to a lease in
\* cleanup, a released one to a released lease, and a quarantined one to a
\* lease that is quarantined or about to be.
FollowsOwner(c, leases) ==
  /\ c.state = "absent" <=> c.owner = 0
  /\ c.owner # 0 =>
       LET l == leases[c.owner].state
       IN  /\ c.state \in UsableStates <=> l = "live"
           /\ c.state = "cleanup_pending" => l = "cleanup_pending"
           /\ c.state = "released" <=> l = "released"
           /\ c.state = "quarantined" => l \in {"cleanup_pending", "quarantined"}

\* The claims and the leases never disagree, whatever transaction or crash
\* comes between the steps of cleanup, recovery and quarantine.
ClaimsFollowOwner == \A s \in Slots : FollowsOwner(claim[s], lease)

\* Something was built on the worker's death: a successor generation, a
\* salvage record or a released lease.
Handover ==
  \/ \E g \in Gens : lease[g].state # "absent" /\ Recovered(g)
  \/ \E g \in Gens : lease[g].state = "released"
  \/ \E d \in Dispositions : salvage[d] # 0

\* Under ProcessSupervisor nothing is handed over, salvaged or released while
\* the worker may still run.
DeadBeforeHandover == backend = "supervisor" /\ Handover => worker = "dead"

\* A supervisor that returned left the lease out of "live", unless it stored
\* an authoritative proof that every descendant is dead.
NoUnprovenLiveLease ==
  backend = "supervisor" /\ sup = "done" =>
    \/ lease[launch.gen].state # "live"
    \/ terminal.source = "supervisor" /\ terminal.basis = "authoritative"

\* The tables, seen as the abstract ownership of the attempt.
Granted == {g \in Gens : lease[g].state # "absent"}
Phase ==
  IF \E g \in Gens : lease[g].state = "live" THEN "working"
  ELSE IF \E g \in Gens : lease[g].state = "cleanup_pending" THEN "cleaning"
  ELSE IF \A g \in Gens : lease[g].state = "absent" THEN "free" ELSE "closed"
Busy == {s \in Slots : claim[s].state \in {"allocated", "active"}}

Fenced == INSTANCE FencedOwnership WITH
  Generations <- Gens, Resources <- Slots,
  granted <- Granted, phase <- Phase, busy <- Busy

\* Leases, claims, clocks and crashes implement the abstract ownership: one
\* working owner, successors that only clean up, no use after cleanup began.
ImplementsFencedOwnership == Fenced!Spec

\* No row of the two tables changes without a larger version: a writer that
\* compares the version it read can never overwrite a change it has not seen.
RowVersionsAdvance ==
  [][/\ \A g \in Gens : lease[g].state # "absent" /\ lease'[g] # lease[g]
                          => lease'[g].version > lease[g].version
     /\ \A s \in Slots : claim[s].state # "absent" /\ claim'[s] # claim[s]
                          => claim'[s].version > claim[s].version]_vars

=============================================================================
