--------------------------- MODULE CleanupService ---------------------------
(***************************************************************************)
(* The physical cleanup of an attempt (lifecycle/cleanup.ts) on top of its *)
(* ownership: provisioning creates the attempt ref, the worktree and the   *)
(* allocation root, and any number of executors of CleanupService.execute, *)
(* of the same or of different generations, take them apart.  An executor  *)
(* asks the store whether it is fresh and acts on the answer later: in     *)
(* between, its lease may expire and another generation may take over.     *)
(***************************************************************************)
EXTENDS AttemptOwnership

CONSTANTS
  Executors,   \* orchestrator processes that may run CleanupService.execute
  MaxCrashes   \* bound on the crashes of executors

ASSUME CrashAssumption == MaxCrashes \in Nat

VARIABLES
  worktree,    \* "never" provisioned, "present" or "removed"
  allocation,  \* the allocation root: "never", "present" or "removed"
  exec,        \* each executor: its step, its generation, the ref it saw
  crashes

physical == <<worktree, allocation>>
cleanupVars == <<vars, physical, exec, crashes>>

Steps == {"idle", "ready", "may_remove_worktree", "worktree_gone", "may_delete_ref",
          "ref_gone", "may_remove_paths", "paths_gone"}
Idle == [at |-> "idle", gen |-> 0, sawRef |-> FALSE, d |-> "empty"]

CleanupTypeOK ==
  /\ TypeOK
  /\ worktree \in {"never", "present", "removed"}
  /\ allocation \in {"never", "present", "removed"}
  /\ exec \in [Executors -> [at : Steps, gen : 0 .. MaxGen, sawRef : BOOLEAN,
                             d : Dispositions]]
  /\ crashes \in 0 .. MaxCrashes

CleanupInit ==
  /\ Init /\ backend = "supervisor"
  /\ worktree = "never" /\ allocation = "never"
  /\ exec = [e \in Executors |-> Idle]
  /\ crashes = 0

-----------------------------------------------------------------------------
(* Provisioning and the worker.                                            *)

\* provisionAttemptWorkspace creates, under a fresh live lease each time, the
\* allocation root, the attempt ref and the worktree.  It may fail in between:
\* containFailure is a BeginCleanup.
Provisioning(g) == lease[g].state = "live" /\ AssertCurrent(g)

CreateAllocation(g) ==
  /\ Provisioning(g) /\ allocation = "never"
  /\ allocation' = "present"
  /\ UNCHANGED <<vars, worktree, exec, crashes>>

CreateRef(g) ==
  /\ Provisioning(g) /\ allocation = "present" /\ worktree = "never"
  /\ attemptRef = "absent"
  /\ attemptRef' = "present"
  /\ UNCHANGED <<now, backend, lineage, store, sup, death, worker, delivery,
                 physical, exec, crashes>>

CreateWorktree(g) ==
  /\ Provisioning(g) /\ attemptRef = "present" /\ worktree = "never"
  /\ worktree' = "present"
  /\ UNCHANGED <<vars, allocation, exec, crashes>>

\* Provisioning goes on to claim what it created.
ClaimWorkspace(g) ==
  /\ worktree = "present"
  /\ \E s \in WorkspaceSlots : AdvanceResource(g, s)
  /\ UNCHANGED <<physical, exec, crashes>>

\* attemptWorkspaceReadyForSpawn authorizes a spawn in an active workspace.
LaunchInWorkspace(g) ==
  /\ \A s \in WorkspaceSlots : claim[s].state = "active"
  /\ Launch(g)
  /\ UNCHANGED <<physical, exec, crashes>>

\* captureDurableSalvageArchive reads the worktree before it records.
Salvage(g) ==
  /\ worktree = "present"
  /\ \E d \in Dispositions : RecordSalvage(g, d)
  /\ UNCHANGED <<physical, exec, crashes>>

\* The other transactions and the processes of the attempt.
OwnershipStep ==
  /\ \/ Acquire
     \/ \E g \in Gens : Heartbeat(g) \/ BeginCleanup(g) \/ StaleRecovery(g) \/ ReleaseStartGate(g)
     \/ WorkerDies \/ ObserveDeath \/ CommitTerminal \/ CloseSupervision \/ SupervisorCrash
     \/ ClockStep
     \/ RepositoryStep /\ attemptRef' = attemptRef
  /\ UNCHANGED <<physical, exec, crashes>>

-----------------------------------------------------------------------------
(* CleanupService.execute, step by step.                                   *)

Goto(e, step) == exec' = [exec EXCEPT ![e].at = step]
Abort(e) == exec' = [exec EXCEPT ![e] = Idle]

\* Mutant: execute expects the ref that an earlier execution deleted.
StartCleanupExpectingRef(e, g, d) ==
  /\ exec[e].at = "idle"
  /\ AssertCleanupReady(g, d) /\ delivery = "exact"
  /\ exec' = [exec EXCEPT ![e] = [at |-> "ready", gen |-> g, sawRef |-> TRUE, d |-> d]]
  /\ UNCHANGED <<vars, physical, crashes>>

\* assertCleanupReady, the delivery ref as recorded, and the attempt ref read.
StartCleanup(e, g, d) ==
  /\ exec[e].at = "idle"
  /\ AssertCleanupReady(g, d) /\ delivery = "exact"
  /\ exec' = [exec EXCEPT ![e] = [at |-> "ready", gen |-> g,
                                  sawRef |-> attemptRef = "present", d |-> d]]
  /\ UNCHANGED <<vars, physical, crashes>>

\* assertFresh before an effect; a refusal is thrown out of execute.
CheckFresh(e, before, after) ==
  /\ exec[e].at = before
  /\ IF AssertCurrent(exec[e].gen) THEN Goto(e, after) ELSE Abort(e)
  /\ UNCHANGED <<vars, physical, crashes>>

\* A registered worktree is removed; one another executor removed is skipped.
RemoveWorktree(e) ==
  /\ exec[e].at = "may_remove_worktree"
  /\ worktree' = IF worktree = "present" THEN "removed" ELSE worktree
  /\ Goto(e, IF exec[e].sawRef THEN "worktree_gone" ELSE "ref_gone")
  /\ UNCHANGED <<vars, allocation, crashes>>

\* update-ref -d with the OID that was read fails on a ref that is gone.
DeleteRef(e) ==
  /\ exec[e].at = "may_delete_ref"
  /\ IF attemptRef = "present"
     THEN attemptRef' = "absent" /\ Goto(e, "ref_gone")
     ELSE attemptRef' = attemptRef /\ Abort(e)
  /\ UNCHANGED <<now, backend, lineage, store, sup, death, worker, delivery, physical, crashes>>

\* The files, the two directories and the allocation root.
RemovePaths(e) ==
  /\ exec[e].at = "may_remove_paths"
  /\ allocation' = "removed"
  /\ Goto(e, "paths_gone")
  /\ UNCHANGED <<vars, worktree, crashes>>

\* What execute observes before it mints the receipt.
EffectsAbsent ==
  /\ delivery = "exact"
  /\ worktree = "removed" /\ allocation = "removed" /\ attemptRef = "absent"

\* Mutant: the receipt is minted first and the paths are swept afterwards.
FinishCleanupBeforePaths(e) ==
  /\ exec[e].at = "ref_gone" /\ delivery = "exact"
  /\ Finalize(exec[e].gen, exec[e].d, "released")
  /\ Goto(e, "may_remove_paths")
  /\ UNCHANGED <<physical, crashes>>

\* The receipt and finalizeCleanup: released, or an error that is thrown.
FinishCleanup(e) ==
  LET g == exec[e].gen IN
  /\ exec[e].at = "paths_gone"
  /\ \/ EffectsAbsent /\ Finalize(g, exec[e].d, "released")
     \/ ~EffectsAbsent /\ UNCHANGED vars
     \/ /\ lease[g].state # "cleanup_pending" \/ Expired(g)
        /\ UNCHANGED vars
  /\ Abort(e)
  /\ UNCHANGED <<physical, crashes>>

ExecutorCrash(e) ==
  /\ exec[e].at # "idle" /\ crashes < MaxCrashes
  /\ Abort(e)
  /\ crashes' = crashes + 1
  /\ UNCHANGED <<vars, physical>>

ExecutorStep(e) ==
  \/ \E g \in Gens, d \in Dispositions : StartCleanup(e, g, d)
  \/ CheckFresh(e, "ready", "may_remove_worktree")
  \/ CheckFresh(e, "worktree_gone", "may_delete_ref")
  \/ CheckFresh(e, "ref_gone", "may_remove_paths")
  \/ RemoveWorktree(e)
  \/ DeleteRef(e)
  \/ RemovePaths(e)
  \/ FinishCleanup(e)

CleanupNext ==
  \/ \E g \in Gens : \/ CreateAllocation(g) \/ CreateRef(g) \/ CreateWorktree(g)
                       \/ ClaimWorkspace(g) \/ LaunchInWorkspace(g) \/ Salvage(g)
  \/ OwnershipStep
  \/ \E e \in Executors : ExecutorStep(e) \/ ExecutorCrash(e)

\* Executors are retried until they succeed; nothing else has to happen.
CleanupSpec ==
  /\ CleanupInit /\ [][CleanupNext]_cleanupVars
  /\ \A e \in Executors : WF_cleanupVars(ExecutorStep(e))

-----------------------------------------------------------------------------
(* Properties.                                                             *)

\* The work of the attempt is never lost: once its worktree is gone, the
\* worker that wrote it is dead and what it left was salvaged first.
WorkPreserved ==
  worktree = "removed" => worker = "dead" /\ \E d \in Dispositions : salvage[d] # 0

\* A released lease leaves nothing behind, whichever executors raced for it.
ReleasedMeansGone ==
  (\E g \in Gens : lease[g].state = "released") =>
    worktree = "removed" /\ allocation = "removed" /\ attemptRef = "absent"

ReadyToClean == \E g \in Gens, d \in Dispositions : AssertCleanupReady(g, d)

\* Crashes between the effects, and executors that race for them, do not wedge
\* the cleanup: a lease that is ready to be cleaned is released, unless it
\* expires first or the delivery ref moves away from the recorded OID.
CleanupCompletes == ReadyToClean ~> ~ReadyToClean \/ delivery = "moved"

=============================================================================
