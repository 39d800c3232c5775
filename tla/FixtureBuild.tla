---------------------------- MODULE FixtureBuild ----------------------------
(***************************************************************************)
(* The fixture profile of the build: one dedicated run workspace, a        *)
(* sequential queue of worker processes supervised by the Dispatcher, the  *)
(* policy bundle that gives each worker its authority, the circuit breaker,*)
(* the capture of what a worker left behind, and the workspace's removal   *)
(* or retention.                                                           *)
(*                                                                         *)
(* A worker is a process group with a leader, and any descendant that left *)
(* the group for a session of its own; the supervisor can see the group and*)
(* the worker's output pipes, never the escaped descendant.  Processes     *)
(* write files directly; the agent in them writes through tool calls the   *)
(* host submits to the policies.                                           *)
(***************************************************************************)
EXTENDS WorkerPolicy

CONSTANTS
  Baseline,    \* declared files that exist at the baseline
  Threshold,   \* createBreakerState: equal errors that open the breaker
  MaxWrites    \* bound: writes of all processes

ASSUME FixtureAssumption ==
  /\ N \in Nat \ {0} /\ Threshold \in Nat \ {0} /\ MaxWrites \in Nat
  /\ Baseline \subseteq Tickets

VARIABLES
  pc,        \* where executeBuildLegacy and the dispatch are
  cur,       \* the ticket at the head of the queue
  ws,        \* run workspace: ref, worktree, administrative registration
  delta,     \* what differs from the baseline: who wrote which path
  writes,    \* what processes did so far, up to MaxWrites
  caller,    \* the caller repository is as snapshotted
  leader,    \* the worker's group leader: none, alive, exited; with its code
  group,     \* kinds of the group's other live members: own, or foreign
  escaped,   \* tickets with a live descendant outside the group
  pipes,     \* those of them that hold the worker's output pipes
  sup,       \* the supervision: childClosed, termination stage
  bundle,    \* the policy bundle of each dispatch
  push,      \* what autonomous_pr_flow remembers for the current worker
  call,      \* a tool call the policies allowed and the tool has not made
  breaker,   \* error counts by signature, and whether it is open
  unreleased,\* workerOwnershipUnreleased
  entry,     \* the dispatch entry of each ticket
  receipt,   \* what the capture receipt of each ticket lists
  clean,     \* history: tickets whose worker closed with code 0, unforced
  zero,      \* entries with exitCode 0
  lost,      \* history: writes deleted with the worktree
  retain,    \* retainWorkspace
  issues     \* classes of the run issues

procs == <<leader, group, escaped, pipes>>
policy == <<bundle, push, call>>
flow == <<breaker, unreleased, entry, receipt>>
vars == <<pc, cur, ws, delta, writes, caller, procs, sup, policy, flow, clean, zero, lost, retain, issues>>

\* Members of the group that signals reach, and ones of another user, that they
\* do not: kill answers EPERM for a group of only the latter.
Members == {"own", "foreign"}

NoCall == [by |-> 0, tool |-> "none", path |-> 0]
NoLeader == [state |-> "none", code |-> 0]
NoSup == [closed |-> FALSE, term |-> "no"]
Signatures == {"routing", "pending", "infra", "unverifiable", "dirty"}
Entries == {"none", "captured", "unverifiable", "pending", "dirty", "infra",
            "deferred", "routing"}

FixtureTypeOK ==
  /\ pc \in {"allocate", "provision", "route", "ready", "materialize",
             "recheck", "spawn", "wait", "account", "observe",
             "finalize", "done"}
  /\ cur \in 1 .. N + 1
  /\ ws \in [ref : {"none", "base", "moved"}, tree : BOOLEAN, registered : BOOLEAN]
  /\ writes \in 0 .. MaxWrites
  /\ delta \subseteq Tickets \X Paths /\ lost \subseteq Tickets \X Paths
  /\ receipt \in [Tickets -> SUBSET (Tickets \X Paths)]
  /\ caller \in BOOLEAN /\ group \subseteq Members /\ unreleased \in BOOLEAN /\ retain \in BOOLEAN
  /\ leader \in [state : {"none", "alive", "exited"}, code : {0, 1}]
  /\ escaped \subseteq Tickets /\ pipes \subseteq escaped /\ clean \subseteq zero
  /\ zero \subseteq Tickets
  /\ call \in [by : Tickets \cup {0}, tool : KNOWN_NATIVE_TOOLS \cup {"none"}, path : Paths]
  /\ sup \in [closed : BOOLEAN, term : {"no", "grace", "polling"}]
  /\ bundle \in [Tickets -> Bundles] /\ push \in {"none", "pending", "observed"}
  /\ breaker.open \in BOOLEAN /\ breaker.count \in [Signatures -> 0 .. Threshold]
  /\ entry \in [Tickets -> Entries]

Closed == [open |-> FALSE, count |-> [s \in Signatures |-> 0]]

Init ==
  /\ pc = "allocate" /\ cur = 1
  /\ ws = [ref |-> "none", tree |-> FALSE, registered |-> FALSE]
  /\ delta = {} /\ writes = 0 /\ caller = TRUE
  /\ leader = NoLeader /\ group = {} /\ escaped = {} /\ pipes = {} /\ sup = NoSup
  /\ bundle = [t \in Tickets |-> NoBundle] /\ push = "none" /\ call = NoCall
  /\ breaker = Closed /\ unreleased = FALSE
  /\ entry = [t \in Tickets |-> "none"] /\ receipt = [t \in Tickets |-> {}]
  /\ clean = {} /\ zero = {} /\ lost = {} /\ retain = FALSE /\ issues = {}

Files == (Baseline \cup {Undeclared}) \cup {d[2] : d \in delta}

\* runWorkspaceReadyForSpawn
Readiness ==
  IF ~ws.tree \/ ~ws.registered THEN "unavailable"
  ELSE IF ws.ref # "base" \/ \E d \in delta : d[2] = GitHead THEN "identity_changed"
  ELSE IF ~caller THEN "caller_changed"
  ELSE IF delta # {} THEN "dirty"
  ELSE "ready"

\* observeRunWorkspaceChange
WorkspaceChange ==
  IF ~ws.tree THEN "unknown" ELSE IF delta # {} THEN "changed" ELSE "unchanged"

\* recordIterationResult, for an error with signature s
RecordIteration(s) ==
  IF WorkspaceChange = "changed" THEN Closed
  ELSE [count |-> [breaker.count EXCEPT ![s] = @ + 1],
        open |-> breaker.open \/ breaker.count[s] + 1 >= Threshold]

-----------------------------------------------------------------------------
(* Allocation and the run workspace *)

\* The contract, PRD, plan, policy attachment and state authority gates end
\* the build before anything exists; otherwise the canonical run is allocated.
AllocateRun ==
  /\ pc = "allocate"
  /\ \/ pc' = "provision" /\ issues' = issues
     \/ pc' = "done" /\ issues' \in {{"input_contract"}, {"execution"},
                                      {"verification"}, {"infrastructure"}}
  /\ UNCHANGED <<cur, ws, delta, writes, caller, procs, sup, policy, flow, clean, zero, lost, retain>>

\* cleanupAfterAllocation, for a step that reached some prefix of ref, tree
\* and registration: each removal may fail, and what is left is reported.
CleanupOutcomes(reached) ==
  {w \in [ref : {"none", "base"}, tree : BOOLEAN, registered : BOOLEAN] :
     /\ w.ref = "base" => reached.ref = "base"
     /\ w.tree => reached.tree
     /\ w.registered => reached.registered}

\* provisionFailureIssue: what could not be removed is a cleanup failure.
ProvisionIssue(w) ==
  IF w.ref = "none" /\ ~w.tree /\ ~w.registered THEN "infrastructure" ELSE "cleanup"

Ready == [ref |-> "base", tree |-> TRUE, registered |-> TRUE]

\* provisionRunWorkspace: a refused input or baseline creates nothing; a
\* failure after the ref or the worktree exists is undone as far as possible.
ProvisionRefused ==
  /\ pc = "provision"
  /\ pc' = "done" /\ issues' \in {{"input_contract"}, {"infrastructure"}}
  /\ UNCHANGED <<cur, ws, delta, writes, caller, procs, sup, policy, flow, clean, zero, lost, retain>>

ProvisionFailed ==
  /\ pc = "provision"
  /\ \E reached \in {ws, [ws EXCEPT !.ref = "base"], Ready} :
       ws' \in CleanupOutcomes(reached)
  /\ pc' = "done" /\ issues' = {ProvisionIssue(ws')}
  /\ UNCHANGED <<cur, delta, writes, caller, procs, sup, policy, flow, clean, zero, lost, retain>>

ProvisionReady ==
  /\ pc = "provision"
  /\ ws' = Ready
  \* the target HEAD may have moved since the run was allocated: the build
  \* throws, and its finally block finalizes the workspace
  /\ \/ pc' = "route" /\ issues' = issues
     \/ pc' = "observe" /\ issues' = {"infrastructure"}
  /\ UNCHANGED <<cur, delta, writes, caller, procs, sup, policy, flow, clean, zero, lost, retain>>

-----------------------------------------------------------------------------
(* DispatchQueue.drain and dispatchFn *)

\* The entry is settled and the next ticket taken, first in first out; an
\* entry whose ownership is not released ends the loop.
Settle(e) ==
  /\ entry' = [entry EXCEPT ![cur] = e]
  /\ pc' = IF e = "pending" THEN "account" ELSE "route"
  /\ cur' = IF e = "pending" THEN cur ELSE cur + 1

DrainEmpty ==
  /\ pc = "route" /\ cur > N
  /\ pc' = "account"
  /\ UNCHANGED <<cur, ws, delta, writes, caller, procs, sup, policy, flow, clean, zero, lost, retain, issues>>

Refused ==
  /\ pc = "route" /\ cur <= N /\ (unreleased \/ breaker.open)
  /\ Settle(IF unreleased THEN "infra" ELSE "deferred")
  /\ UNCHANGED <<ws, delta, writes, caller, procs, sup, policy, breaker, unreleased, receipt,
                 clean, zero, lost, retain, issues>>

\* routeDispatch: only ALLOW dispatches; a denial feeds the breaker.
Route(roster) ==
  /\ pc = "route" /\ cur <= N /\ ~unreleased /\ ~breaker.open
  /\ IF SelectModel(roster) = "ALLOW"
     THEN pc' = "ready" /\ UNCHANGED <<cur, entry, breaker>>
     ELSE Settle("routing") /\ breaker' = RecordIteration("routing")
  /\ UNCHANGED <<ws, delta, writes, caller, procs, sup, policy, unreleased, receipt,
                 clean, zero, lost, retain, issues>>

\* The dispatcher throws before a worker exists: ownership is then presumed
\* unreleased, yet the fail-closed entry lets the drain go on.
DispatchThrows ==
  /\ pc = "ready"
  /\ unreleased' = TRUE /\ Settle("infra")
  /\ UNCHANGED <<ws, delta, writes, caller, procs, sup, policy, breaker, receipt,
                 clean, zero, lost, retain, issues>>

\* A failed dispatch that never spawned.
FailBeforeSpawn(e) ==
  /\ Settle(e)
  /\ breaker' = RecordIteration(e)
  /\ UNCHANGED <<unreleased, receipt>>

CheckReady ==
  /\ pc = "ready"
  /\ IF Readiness = "ready" THEN pc' = "materialize" /\ UNCHANGED <<cur, flow>>
     ELSE FailBeforeSpawn(IF Readiness = "dirty" THEN "dirty" ELSE "infra")
  /\ UNCHANGED <<ws, delta, writes, caller, procs, sup, policy, clean, zero, lost, retain, issues>>

\* materializePolicyBundle: exclusive directory, context, nonce claim, active
\* lease, startup smoke; a failure removes what it made.
Materialize ==
  /\ pc = "materialize"
  /\ \/ pc' = "recheck" /\ bundle' = [bundle EXCEPT ![cur] = NewBundle]
        /\ UNCHANGED <<cur, flow>>
     \/ FailBeforeSpawn("infra") /\ UNCHANGED bundle
  /\ UNCHANGED <<ws, delta, writes, caller, procs, sup, push, call, clean, zero, lost, retain, issues>>

\* policyBundleSha256 and the invoked config's digest, against the handle.
BundleDigestsMatch(t) == bundle[t].intact

\* probeRuntime, asked again.
RuntimeProvenanceHolds(t) == bundle[t].runtime

\* verifyPolicyBundle
VerifyBundle(t) == BundleDigestsMatch(t) /\ RuntimeProvenanceHolds(t) /\ bundle[t].lease = "active"

\* closePolicyBundleLease: the lease is closed only when the bundle verifies.
CloseLease(t) ==
  IF VerifyBundle(t) THEN [bundle EXCEPT ![t] = ClosedBundle] ELSE bundle

\* Mutant: the lease is left to expire.
LeaveLease(t) == bundle

\* retainPolicyBundleAfterChildClose
FinalizeBundle(t) == CloseLease(t)

\* The workspace is checked again after materialization, and the bundle.
Recheck ==
  /\ pc = "recheck"
  /\ IF Readiness = "ready" /\ VerifyBundle(cur)
     THEN pc' = "spawn" /\ UNCHANGED <<cur, bundle, flow>>
     ELSE FailBeforeSpawn("infra") /\ bundle' = FinalizeBundle(cur)
  /\ UNCHANGED <<ws, delta, writes, caller, procs, sup, push, call, clean, zero, lost, retain, issues>>

\* The evidence baseline cannot be read.
EvidenceUnavailable ==
  /\ pc = "recheck" /\ Readiness = "ready" /\ VerifyBundle(cur)
  /\ FailBeforeSpawn("infra") /\ bundle' = FinalizeBundle(cur)
  /\ UNCHANGED <<ws, delta, writes, caller, procs, sup, push, call, clean, zero, lost, retain, issues>>

-----------------------------------------------------------------------------
(* runOneShot: the worker and its supervision *)

Spawn ==
  /\ pc = "spawn"
  /\ IF VerifyBundle(cur)
     THEN /\ pc' = "wait" /\ leader' = [state |-> "alive", code |-> 0]
          \* the spawned observation may fail to be journalled: the child is
          \* then terminated at once
          /\ sup' \in {NoSup, [NoSup EXCEPT !.term = "grace"]}
          /\ push' = "none"
          /\ UNCHANGED <<cur, bundle, flow>>
     ELSE /\ FailBeforeSpawn("infra") /\ bundle' = FinalizeBundle(cur)
          /\ UNCHANGED <<leader, sup, push>>
  /\ UNCHANGED <<ws, delta, writes, caller, group, escaped, pipes, call, clean, zero, lost, retain, issues>>

\* The error event of spawn: no process, and a close with a negative code.
SpawnFails ==
  /\ pc = "spawn" /\ VerifyBundle(cur)
  /\ pc' = "wait" /\ leader' = [state |-> "exited", code |-> 1]
  /\ UNCHANGED <<cur, ws, delta, writes, caller, group, escaped, pipes, sup, policy, flow,
                 clean, zero, lost, retain, issues>>

\* processGroupIsAlive: only ESRCH proves death; a group whose members cannot
\* be signalled counts as alive.
GroupAlive == leader.state = "alive" \/ group # {}

\* The worker forks: a member of its group, perhaps under another user, or a
\* descendant of its own session that may keep the output pipes.
Fork ==
  /\ leader.state = "alive"
  /\ \/ \E m \in Members : group' = group \cup {m} /\ UNCHANGED <<escaped, pipes>>
     \/ /\ escaped' = escaped \cup {cur}
        /\ pipes' \in {pipes, pipes \cup {cur}}
        /\ UNCHANGED group
  /\ UNCHANGED <<pc, cur, ws, delta, writes, caller, leader, sup, policy, flow, clean, zero, lost, retain, issues>>

LeaderExits ==
  /\ leader.state = "alive"
  /\ \E code \in {0, 1} : leader' = [state |-> "exited", code |-> code]
  /\ UNCHANGED <<pc, cur, ws, delta, writes, caller, group, escaped, pipes, sup, policy, flow,
                 clean, zero, lost, retain, issues>>

\* A descendant ends by itself, or only closes the pipes.
DescendantExits ==
  /\ pc # "done"
  /\ \/ \E m \in group : group' = group \ {m} /\ UNCHANGED <<escaped, pipes>>
     \/ \E t \in escaped : /\ escaped' = escaped \ {t} /\ pipes' = pipes \ {t}
                           /\ UNCHANGED group
     \/ \E t \in pipes : pipes' = pipes \ {t} /\ UNCHANGED <<escaped, group>>
  /\ UNCHANGED <<pc, cur, ws, delta, writes, caller, leader, sup, policy, flow, clean, zero, lost, retain, issues>>

\* Signals to the group: SIGTERM may be ignored, SIGKILL may not; neither
\* reaches a member of another user, and a failed signal is only recorded.
Killed(l) == IF l.state = "alive" THEN [state |-> "exited", code |-> 1] ELSE l
Unreached == group \cap {"foreign"}

\* beginTermination, from the timer or from a close that found the group alive.
Terminate(s) ==
  /\ sup' = [s EXCEPT !.term = IF @ = "no" THEN "grace" ELSE @]
  /\ IF s.term = "no" THEN leader' \in {leader, Killed(leader)} /\ group' \in {group, Unreached}
                      ELSE UNCHANGED <<leader, group>>

Timeout ==
  /\ pc = "wait" /\ sup.term = "no"
  /\ Terminate(sup)
  /\ UNCHANGED <<pc, cur, ws, delta, writes, caller, escaped, pipes, policy, flow, clean, zero, lost, retain, issues>>

\* Mutant: the second signal is left out.
GraceWithoutKill ==
  /\ pc = "wait" /\ sup.term = "grace"
  /\ sup' = [sup EXCEPT !.term = "polling"]
  /\ UNCHANGED <<pc, cur, ws, delta, writes, caller, procs, policy, flow, clean, zero, lost, retain, issues>>

\* The grace timer: SIGKILL to what is left of the group, then poll; the poll
\* does nothing while the child has not closed, and goes on for ever while a
\* member is left that the signal did not reach.
GraceEnds ==
  /\ pc = "wait" /\ sup.term = "grace"
  /\ leader' = Killed(leader) /\ group' = Unreached
  /\ sup' = [sup EXCEPT !.term = "polling"]
  /\ UNCHANGED <<pc, cur, ws, delta, writes, caller, escaped, pipes, policy, flow, clean, zero, lost, retain, issues>>

\* captureNonterminalMutation: HEAD and the run ref where they were, nothing
\* staged, something changed, and all of it in the ticket's scope.
Captured(t) ==
  /\ ws.ref = "base"
  /\ delta # {}
  /\ \A d \in delta : d[2] = t

\* Mutant: an abnormal exit is an ordinary failure.
CompletionOfAnyExit(forced, code) ==
  IF forced THEN "pending"
  ELSE IF code # 0 \/ ~VerifyBundle(cur) THEN "infra"
  ELSE IF Captured(cur) THEN "captured"
  ELSE "unverifiable"

\* The entry of a worker that is gone, in the order the checks are made.
\* (forced: termination was begun; code: the exit code)
Completion(forced, code) ==
  IF forced \/ code # 0 THEN "pending"
  ELSE IF ~VerifyBundle(cur) THEN "infra"
  ELSE IF Captured(cur) THEN "captured"
  ELSE "unverifiable"

\* The entry that is returned: an append to the ledger may fail after the
\* bundle was finalized, and makes it an infrastructure failure; an ownership
\* that is not released stays so.
Answers(forced, code) ==
  LET e == Completion(forced, code) IN IF e = "pending" THEN {e} ELSE {e, "infra"}

\* completeAfterConfirmedDeath and finish; then the build's own reaction.
Complete ==
  /\ LET forced == sup.term # "no" IN
       \E e \in Answers(forced, leader.code) :
         /\ Settle(e)
         /\ unreleased' = (unreleased \/ e = "pending")
         /\ bundle' = IF e = "pending" THEN bundle ELSE FinalizeBundle(cur)
         /\ receipt' = [receipt EXCEPT ![cur] = IF e = "captured" THEN delta ELSE {}]
         /\ breaker' = IF e = "captured" THEN breaker ELSE RecordIteration(e)
         /\ clean' = IF forced \/ leader.code # 0 THEN clean ELSE clean \cup {cur}
         /\ zero' = IF leader.code # 0 THEN zero ELSE zero \cup {cur}
  /\ leader' = NoLeader /\ sup' = NoSup /\ push' = "none"

\* The close event: the leader is gone and nobody holds the pipes.
Close ==
  /\ pc = "wait" /\ leader.state = "exited" /\ cur \notin pipes /\ ~sup.closed
  /\ IF GroupAlive
     THEN /\ Terminate([sup EXCEPT !.closed = TRUE])
          /\ UNCHANGED <<pc, cur, flow, bundle, push, clean, zero>>
     ELSE Complete /\ UNCHANGED group
  /\ UNCHANGED <<ws, delta, writes, caller, escaped, pipes, call, lost, retain, issues>>

\* pollForProcessGroupDeath
PollDeath ==
  /\ pc = "wait" /\ sup.closed /\ ~GroupAlive
  /\ Complete
  /\ UNCHANGED <<ws, delta, writes, caller, group, escaped, pipes, call, lost, retain, issues>>

-----------------------------------------------------------------------------
(* What processes do to the workspace *)

\* Tickets with a process that can still act.
Living == escaped \cup (IF GroupAlive THEN {cur} ELSE {})

Write(t, p) ==
  /\ delta' = delta \cup {<<t, p>>}
  /\ ws' = IF p = GitHead THEN [ws EXCEPT !.ref = "moved"] ELSE ws

\* A process writes by itself: a file, HEAD with the run ref, the caller's
\* checkout, or a file of its own policy bundle.  Nothing is left to write to once the tree is gone.
RawWrite ==
  /\ pc # "done" /\ writes < MaxWrites /\ writes' = writes + 1
  /\ \E t \in Living :
       \/ /\ ws.tree /\ \E p \in Paths \ {LinkOut} : Write(t, p)
          /\ UNCHANGED <<caller, bundle>>
       \/ /\ caller /\ caller' = FALSE /\ UNCHANGED <<ws, delta, bundle>>
       \/ /\ bundle[t].lease = "active" /\ bundle[t].intact
          /\ bundle' = [bundle EXCEPT ![t].intact = FALSE]
          /\ UNCHANGED <<ws, delta, caller>>
  /\ UNCHANGED <<pc, cur, procs, sup, push, call, flow, clean, zero, lost, retain, issues>>

\* What an agent may ask for, by kind of tool: files, the shell, the lifecycle
\* tools, the tools no policy is about, and ones the host does not know.  The
\* fields a kind has no use for hold one value.  lifecycle is the phase in the
\* context the bundle was materialised with; this profile's is implement.
Phases == {"request", "tool_call", "tool_result"}
FileEvents ==
  [phase : Phases, tool : FILESYSTEM_TOOLS, path : Paths, ok : BOOLEAN,
   command : {"other"}, verdict : {"passed"}, lifecycle : {"implement"}]
ShellEvents ==
  [phase : Phases, tool : {"shell"}, path : {Undeclared}, ok : {TRUE},
   command : {"push", "pr", "other", "invalid"}, verdict : {"passed", "failed"},
   lifecycle : {"implement"}]
LifecycleEvents ==
  [phase : Phases, tool : LIFECYCLE_TOOLS, path : {Undeclared}, ok : {TRUE},
   command : {"other"}, verdict : {"passed", "failed"}, lifecycle : {"implement", "code_review"}]
OtherEvents ==
  [phase : Phases, tool : {"unrelated", "unknown"}, path : {Undeclared}, ok : {TRUE},
   command : {"other"}, verdict : {"passed"}, lifecycle : {"implement"}]
Events == FileEvents \cup ShellEvents \cup LifecycleEvents \cup OtherEvents

\* The host puts a call to the policies; an allowed one is handed to the tool.
ToolCall ==
  /\ pc # "done" /\ call = NoCall /\ writes < MaxWrites
  /\ \E t \in Living, config \in Tickets \cup {0}, event \in Events :
       LET claim == [env |-> t, config |-> config]
           allowed == HostDecision(bundle, claim, Baseline, Files, push, event) = "ALLOW" IN
         /\ allowed
         /\ call' = IF event.phase = "tool_call"
                    THEN [by |-> t, tool |-> event.tool, path |-> event.path] ELSE NoCall
         /\ push' = PushAfter(push, event)
  /\ <<call', push'>> # <<call, push>>
  /\ UNCHANGED <<pc, cur, ws, delta, writes, caller, procs, sup, bundle, flow, clean, zero, lost, retain, issues>>

\* Of the tools an allowed call may reach, these change files.
MutatingTools == {"write", "edit"}

\* The tool carries the allowed call out, some time later, or never.
ToolRuns ==
  /\ pc # "done" /\ call # NoCall
  /\ call' = NoCall
  /\ \/ /\ call.tool \in MutatingTools
        /\ call.by \in Living /\ ws.tree /\ writes < MaxWrites
        /\ Write(call.by, call.path) /\ writes' = writes + 1
     \/ UNCHANGED <<delta, ws, writes>>
  /\ UNCHANGED <<pc, cur, caller, procs, sup, bundle, push, flow, clean, zero, lost, retain, issues>>

\* The lease outlives the timeout by a minute; the runtime may be upgraded.
BundleAges ==
  /\ pc # "done"
  /\ \E t \in Tickets : /\ bundle[t].lease = "active"
                        /\ \/ /\ (t # cur \/ sup.term = "polling")
                              /\ ~bundle[t].expired
                              /\ bundle' = [bundle EXCEPT ![t].expired = TRUE]
                           \/ /\ bundle[t].runtime
                              /\ bundle' = [bundle EXCEPT ![t].runtime = FALSE]
  /\ UNCHANGED <<pc, cur, ws, delta, writes, caller, procs, sup, push, call, flow, clean, zero, lost, retain, issues>>

-----------------------------------------------------------------------------
(* Accounting and finalization *)

\* A worker that exited with code 0 counts as unverified whatever else failed.
IssueOf(t) ==
  IF entry[t] = "unverifiable" \/ t \in zero THEN "verification"
  ELSE IF entry[t] \in {"none", "infra"} THEN "infrastructure"
  ELSE "execution"

\* Every planned ticket counts once; none is ever done in this profile, so the
\* outcome always carries zero_completion and the later gates are skipped.
Account ==
  /\ pc = "account"
  /\ issues' = issues \cup {IssueOf(t) : t \in {u \in Tickets : entry[u] # "captured"}}
                      \cup {"execution"}
                      \cup (IF unreleased THEN {"cleanup", "infrastructure"} ELSE {})
  /\ pc' = "observe"
  /\ UNCHANGED <<cur, ws, delta, writes, caller, procs, sup, policy, flow, clean, zero, lost, retain>>

\* Mutant: only the observed tree decides.
RetainChanged == WorkspaceChange # "unchanged"

RetainWorkspace == unreleased \/ WorkspaceChange # "unchanged"

\* The finally block closes the store, then looks at the tree ...
Observe ==
  /\ pc = "observe"
  /\ retain' = RetainWorkspace
  /\ issues' = IF WorkspaceChange = "unknown" THEN issues \cup {"infrastructure"} ELSE issues
  /\ pc' = "finalize"
  /\ UNCHANGED <<cur, ws, delta, writes, caller, procs, sup, policy, flow, clean, zero, lost>>

\* finalizeRunWorkspace: the forced removal takes along whatever was written
\* since; the ref is deleted only at the baseline.
Removals ==
  {w \in [ref : {"none", "base", "moved"}, tree : BOOLEAN, registered : BOOLEAN] :
     /\ w.ref \in {ws.ref} \cup (IF ws.ref = "base" THEN {"none"} ELSE {})
     /\ w.tree => ws.tree
     /\ w.registered => ws.registered}

\* ... and removes it, and checks the caller once more.
Finalize ==
  /\ pc = "finalize"
  /\ ws' \in IF retain THEN {ws} ELSE Removals
  /\ lost' = IF ws.tree /\ ~ws'.tree THEN lost \cup delta ELSE lost
  /\ issues' = issues
       \cup (IF (retain /\ ws = Ready) \/ (~retain /\ ws' = [ref |-> "none", tree |-> FALSE,
                                                              registered |-> FALSE])
             THEN {} ELSE {"cleanup"})
       \cup (IF caller THEN {} ELSE {"infrastructure"})
  /\ pc' = "done"
  /\ UNCHANGED <<cur, delta, writes, caller, procs, sup, policy, flow, clean, zero, retain>>

-----------------------------------------------------------------------------
BuildStep ==
  \/ AllocateRun \/ ProvisionRefused \/ ProvisionFailed \/ ProvisionReady
  \/ DrainEmpty \/ Refused \/ DispatchThrows
  \/ \E roster \in {<<"priced">>, <<"over_soft">>, <<>>} : Route(roster)
  \/ CheckReady \/ Materialize \/ Recheck \/ EvidenceUnavailable \/ Spawn \/ SpawnFails
  \/ Account \/ Observe \/ Finalize

Supervision == Timeout \/ GraceEnds \/ Close \/ PollDeath

Environment ==
  Fork \/ LeaderExits \/ DescendantExits \/ RawWrite \/ ToolCall \/ ToolRuns \/ BundleAges

Next == BuildStep \/ Supervision \/ Environment

\* The event loop runs its ready callbacks and its timers; nothing is assumed
\* of the worker's processes.
Spec ==
  /\ Init /\ [][Next]_vars
  /\ WF_vars(BuildStep)
  /\ WF_vars(Timeout) /\ WF_vars(GraceEnds) /\ WF_vars(Close) /\ WF_vars(PollDeath)

-----------------------------------------------------------------------------
(* Properties *)

\* What a worker left is deleted with the worktree only when its writer had
\* been dispatched, had closed cleanly with code 0, and wrote from outside its
\* process group after the last look at the tree: a worker that was killed, or
\* failed, never loses work, because its ownership keeps the workspace
\* (build.ts, retainWorkspace).
KilledWorkSurvives == \A d \in lost : d[1] \in clean

\* A capture receipt lists only what its own ticket's processes wrote, unless
\* a descendant of an earlier worker that closed cleanly with code 0 was
\* still writing: after a forced or abnormal end no later worker is spawned
\* into the same tree (dispatch.ts, ownershipReleased: false).
CaptureIsOwn ==
  \A t \in Tickets : \A d \in receipt[t] : d[1] = t \/ d[1] \in clean

\* Of all a worker's agent may ask for, a change of a file is handed to a tool
\* only at the path its own ticket declares; a read of any file of the worktree,
\* but not of Git's or through a link out of it; and no shell command, push,
\* pull request or claim of completion at all.  Whatever passes, passes only for
\* the worker being dispatched, for one whose ownership was never released, or
\* for one whose bundle no longer verified when its lease was to be closed
\* (scope_fence, completion_evidence, closePolicyBundleLease).
AuthorityIsBounded ==
  [][call' # call /\ call' # NoCall =>
       /\ call'.tool \in MutatingTools => call'.path = call'.by
       /\ call'.path \notin {GitHead, LinkOut}
       /\ call'.tool \notin {"shell", "mark_done", "unknown"}
       /\ \/ call'.by = cur
          \/ entry[call'.by] \in {"pending", "infra"}]_vars

\* A dispatched worker is always answered for in the end, whatever its
\* processes do, with two exceptions the supervisor waits on for ever: an
\* escaped descendant that keeps the worker's pipes open, so that no close
\* comes, and a group member of another user that no signal reaches
\* (dispatch.ts, pollForProcessGroupDeath).
DispatchEnds == (pc = "wait") ~> (pc # "wait" \/ cur \in pipes \/ "foreign" \in group)
=============================================================================
