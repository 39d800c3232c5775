------------------------- MODULE FixtureBuildProofs -------------------------
(***************************************************************************)
(* Proofs, for any plan, baseline, breaker threshold and number of writes, *)
(* that the fixture build deletes and captures only what it may, and that  *)
(* the policies give a worker no authority beyond its own ticket.          *)
(*                                                                         *)
(* Two facts carry the argument.  Whoever wrote into the tree, or has an   *)
(* escaped descendant that may still write, is the worker being waited for,*)
(* or closed cleanly, or its ownership is unreleased; and from a dispatch  *)
(* to its end ownership is released.  An active lease, in turn, belongs to *)
(* the dispatch under way or to a ticket whose entry says so.              *)
(***************************************************************************)
EXTENDS FixtureBuild, TLAPS

Dispatching == {"ready", "materialize", "recheck", "spawn", "wait"}
Queueing == {"allocate", "provision", "route"} \cup Dispatching

\* Only a dispatch has a worker, and it has the ticket at the head.
WorkerIsDispatched ==
  /\ pc # "wait" => leader.state = "none" /\ group = {}
  /\ pc \in Dispatching => cur \in Tickets

\* A writer is accounted for: it is waited for, closed cleanly, or holds on.
Answered(t) == t \in clean \/ unreleased = TRUE \/ (pc = "wait" /\ t = cur)

WritersAnswered ==
  /\ \A t \in escaped : Answered(t)
  /\ \A d \in delta : Answered(d[1])

\* Nothing is dispatched behind an unreleased ownership, and it is retained.
UnreleasedHolds ==
  /\ pc \in Dispatching => unreleased = FALSE
  /\ pc = "finalize" /\ retain = FALSE => unreleased = FALSE

\* Tickets the queue has not settled have no entry, and no lease but the one
\* of the dispatch under way.
LeaseIsAnswered ==
  /\ pc \in Queueing => \A t \in Tickets : t >= cur => entry[t] = "none"
  /\ \A t \in Tickets : bundle[t].lease = "active" =>
       \/ t = cur /\ pc \in {"recheck", "spawn", "wait"}
       \/ entry[t] \in {"pending", "infra"}

\* The part of the type the argument needs.
Shapes ==
  /\ cur \in Nat /\ cur >= 1 /\ unreleased \in BOOLEAN /\ retain \in BOOLEAN
  /\ escaped \subseteq Tickets
  /\ bundle \in [Tickets -> Bundles] /\ entry \in [Tickets -> Entries]
  /\ DOMAIN receipt = Tickets

FixtureInv ==
  /\ Shapes /\ WorkerIsDispatched /\ WritersAnswered /\ UnreleasedHolds /\ LeaseIsAnswered
  /\ KilledWorkSurvives /\ CaptureIsOwn

-----------------------------------------------------------------------------
(* Steps of the build.                                                     *)

\* What a step of the build that only moves on leaves alone.
kept == <<cur, delta, leader, group, escaped, bundle, entry, receipt, unreleased, clean, lost>>

\* The step that only moves on: no dispatch ends, nothing is looked at.
LEMMA MoveStep ==
  ASSUME FixtureInv, UNCHANGED kept, retain' = retain, pc # "wait", pc' # "wait", pc' # "finalize",
         pc' \in Queueing => pc \in Queueing,
         pc' \in Dispatching => cur \in Tickets /\ unreleased = FALSE,
         pc \in {"recheck", "spawn"} => pc' \in {"recheck", "spawn"}
  PROVE  FixtureInv'
<1> USE DEF kept
<1>1. Shapes' BY DEF FixtureInv, Shapes
<1>2. WorkerIsDispatched' BY DEF FixtureInv, WorkerIsDispatched
<1>3. WritersAnswered' BY DEF FixtureInv, WritersAnswered, Answered
<1>4. UnreleasedHolds' BY DEF FixtureInv, UnreleasedHolds
<1>5. LeaseIsAnswered' BY DEF FixtureInv, LeaseIsAnswered
<1>6. KilledWorkSurvives' /\ CaptureIsOwn' BY DEF FixtureInv, KilledWorkSurvives, CaptureIsOwn
<1> QED BY <1>1, <1>2, <1>3, <1>4, <1>5, <1>6 DEF FixtureInv

\* What becomes of the ticket at the head when its entry e settles.
SettlesTo(e) ==
  /\ Settle(e) /\ e \in Entries \ {"none"} /\ pc \in {"route"} \cup Dispatching /\ cur \in Tickets
  /\ leader'.state = "none" /\ group' = {}
  /\ UNCHANGED <<escaped, delta, lost, retain>>
  /\ clean \subseteq clean' /\ unreleased' \in BOOLEAN /\ (unreleased = TRUE => unreleased' = TRUE)
  /\ pc = "wait" => cur \in clean' \/ unreleased' = TRUE
  /\ bundle' \in [Tickets -> Bundles]
  /\ \A t \in Tickets : t # cur => bundle'[t] = bundle[t] /\ receipt'[t] = receipt[t]
  /\ bundle'[cur].lease = "active" /\ pc \in {"recheck", "spawn", "wait"} => e \in {"pending", "infra"}
  /\ pc \notin {"recheck", "spawn", "wait"} => bundle'[cur].lease = bundle[cur].lease
  /\ DOMAIN receipt' = Tickets
  /\ \A d \in receipt'[cur] : d \in receipt[cur] \/ (pc = "wait" /\ d \in delta)

\* The entry settles, and the queue goes on or stops.
LEMMA SettleStep ==
  ASSUME FixtureInv, NEW e, SettlesTo(e)
  PROVE  FixtureInv'
<1>1. /\ pc' \in {"route", "account"} /\ cur' \in {cur, cur + 1} /\ cur \in Nat
      /\ pc' = "route" => cur' = cur + 1
      /\ entry' = [entry EXCEPT ![cur] = e] /\ entry \in [Tickets -> Entries]
  BY DEF SettlesTo, Settle, FixtureInv, Shapes
<1>2. cur \in Tickets /\ \A t \in Tickets : t \in Int /\ entry'[t] = IF t = cur THEN e ELSE entry[t]
  BY <1>1 DEF SettlesTo, Tickets
<1>3. entry' \in [Tickets -> Entries] BY <1>1 DEF SettlesTo
<1>4. Shapes'
  <2>1. cur' \in Nat /\ cur' >= 1 BY <1>1 DEF FixtureInv, Shapes
  <2>2. /\ retain' \in BOOLEAN /\ escaped' \subseteq Tickets /\ unreleased' \in BOOLEAN
        /\ bundle' \in [Tickets -> Bundles] /\ DOMAIN receipt' = Tickets
    BY DEF SettlesTo, FixtureInv, Shapes
  <2> QED BY <1>3, <2>1, <2>2 DEF Shapes
<1>5. WorkerIsDispatched' BY <1>1 DEF SettlesTo, WorkerIsDispatched, Dispatching
<1>6. WritersAnswered'
  <2>1. ASSUME NEW t, Answered(t) PROVE Answered(t)'
    BY <1>1, <2>1 DEF Answered, SettlesTo
  <2>2. escaped' = escaped /\ delta' = delta BY DEF SettlesTo
  <2> QED BY <2>1, <2>2 DEF FixtureInv, WritersAnswered
<1>7. UnreleasedHolds' BY <1>1 DEF UnreleasedHolds, Dispatching
<1>8. LeaseIsAnswered'
  <2>1. entry[cur] = "none"
    BY <1>1, <1>2 DEF SettlesTo, FixtureInv, LeaseIsAnswered, Queueing
  <2>2. ASSUME pc' \in Queueing, NEW t \in Tickets, t >= cur' PROVE entry'[t] = "none"
    <3>1. cur' = cur + 1 BY <1>1, <2>2 DEF Queueing, Dispatching
    <3>2. t # cur /\ t >= cur BY <1>1, <1>2, <2>2, <3>1
    <3>3. entry[t] = "none" BY <3>2 DEF SettlesTo, FixtureInv, LeaseIsAnswered, Queueing
    <3> QED BY <1>2, <3>2, <3>3
  <2>3. ASSUME NEW t \in Tickets, bundle'[t].lease = "active" PROVE entry'[t] \in {"pending", "infra"}
    <3>1. CASE t # cur
      <4>1. bundle[t].lease = "active" BY <2>3, <3>1 DEF SettlesTo
      <4>2. entry[t] \in {"pending", "infra"} BY <3>1, <4>1 DEF FixtureInv, LeaseIsAnswered
      <4> QED BY <1>2, <3>1, <4>2
    <3>2. CASE t = cur
      <4>1. CASE pc \in {"recheck", "spawn", "wait"} BY <1>2, <2>3, <3>2, <4>1 DEF SettlesTo
      <4>2. CASE pc \notin {"recheck", "spawn", "wait"}
        <5>1. bundle[t].lease = "active" BY <2>3, <3>2, <4>2 DEF SettlesTo
        <5>2. entry[t] \in {"pending", "infra"} BY <4>2, <5>1 DEF FixtureInv, LeaseIsAnswered
        <5> QED BY <2>1, <3>2, <5>2
      <4> QED BY <4>1, <4>2
    <3> QED BY <3>1, <3>2
  <2> QED BY <2>2, <2>3 DEF LeaseIsAnswered
<1>9. KilledWorkSurvives' BY DEF SettlesTo, FixtureInv, KilledWorkSurvives
<1>10. CaptureIsOwn'
  <2> SUFFICES ASSUME NEW t \in Tickets, NEW d \in receipt'[t] PROVE d[1] = t \/ d[1] \in clean'
    BY DEF CaptureIsOwn
  <2>1. CASE d \in receipt[t] BY <2>1 DEF SettlesTo, FixtureInv, CaptureIsOwn
  <2>2. CASE d \notin receipt[t]
    <3>1. t = cur /\ pc = "wait" /\ d \in delta BY <2>2 DEF SettlesTo
    <3>2. Answered(d[1]) /\ unreleased = FALSE
      BY <3>1 DEF FixtureInv, WritersAnswered, UnreleasedHolds, Dispatching
    <3> QED BY <3>1, <3>2 DEF Answered, SettlesTo
  <2> QED BY <2>1, <2>2
<1> QED BY <1>4, <1>5, <1>6, <1>7, <1>8, <1>9, <1>10 DEF FixtureInv

\* An entry settles while no worker is waited for.
LEMMA SettledUnspawned ==
  ASSUME FixtureInv, NEW e \in Entries \ {"none"}, Settle(e), pc \in {"route"} \cup Dispatching,
         pc # "wait", cur \in Tickets,
         UNCHANGED <<leader, group, escaped, delta, lost, retain, clean, receipt>>,
         unreleased' \in BOOLEAN, unreleased = TRUE => unreleased' = TRUE,
         \/ bundle' = bundle
         \/ bundle' = FinalizeBundle(cur),
         pc \in {"recheck", "spawn"} => e = "infra",
         pc \notin {"recheck", "spawn"} => bundle' = bundle
  PROVE  FixtureInv'
<1>1. /\ bundle \in [Tickets -> Bundles] /\ DOMAIN receipt = Tickets
      /\ leader.state = "none" /\ group = {}
  BY DEF FixtureInv, Shapes, WorkerIsDispatched
<1>2. ClosedBundle \in Bundles BY DEF ClosedBundle, NoBundle, Bundles
<1>3. bundle' \in [Tickets -> Bundles] /\ \A t \in Tickets : t # cur => bundle'[t] = bundle[t]
  BY <1>1, <1>2 DEF FinalizeBundle, CloseLease
<1> QED BY <1>1, <1>3, SettleStep DEF SettlesTo

\* The head of a queue that is not empty is a ticket.
LEMMA HeadIsTicket ==
  ASSUME FixtureInv, pc = "route", cur <= N
  PROVE  cur \in Tickets
<1>1. cur \in Nat /\ N \in Nat BY FixtureAssumption DEF FixtureInv, Shapes
<1>2. cur >= 1 BY DEF FixtureInv, Shapes
<1> QED BY <1>1, <1>2 DEF Tickets

\* Gates, provisioning, and the queue where nothing settles.
LEMMA MovesOn ==
  ASSUME FixtureInv,
         \/ AllocateRun \/ ProvisionRefused \/ ProvisionFailed \/ ProvisionReady
         \/ DrainEmpty \/ Account
  PROVE  FixtureInv'
<1>1. /\ UNCHANGED kept /\ retain' = retain
      /\ pc \in {"allocate", "provision", "route", "account"}
      /\ pc' \in {"provision", "done", "route", "observe", "account"}
      /\ pc = "account" => pc' = "observe"
  BY DEF AllocateRun, ProvisionRefused, ProvisionFailed, ProvisionReady, DrainEmpty, Account,
         kept, procs, policy, flow
<1>2. pc' \in Queueing => pc \in Queueing BY <1>1 DEF Queueing, Dispatching
<1>3. pc' \notin Dispatching BY <1>1 DEF Dispatching
<1> QED BY <1>1, <1>2, <1>3, MoveStep

\* The head of the queue is refused, routed, or thrown at.
LEMMA RouteSteps ==
  ASSUME FixtureInv, Refused \/ DispatchThrows \/ \E roster : Route(roster)
  PROVE  FixtureInv'
<1>1. cur \in Nat /\ N \in Nat /\ unreleased \in BOOLEAN
  BY FixtureAssumption DEF FixtureInv, Shapes
<1>2. CASE Refused
  <2>1. PICK e \in {"infra", "deferred"} : Settle(e) BY <1>2 DEF Refused
  <2>2. /\ pc = "route" /\ cur <= N /\ unreleased' = unreleased /\ bundle' = bundle
        /\ UNCHANGED <<leader, group, escaped, delta, lost, retain, clean, receipt>>
    BY <1>2 DEF Refused, procs, policy
  <2>3. e \in Entries \ {"none"} BY DEF Entries
  <2>4. cur \in Tickets BY <2>2, HeadIsTicket
  <2> QED BY <1>1, <2>1, <2>2, <2>3, <2>4, SettledUnspawned
<1>3. CASE DispatchThrows
  <2>1. Settle("infra") /\ "infra" \in Entries \ {"none"} BY <1>3 DEF DispatchThrows, Entries
  <2>2. /\ pc = "ready" /\ unreleased' = TRUE /\ bundle' = bundle
        /\ UNCHANGED <<leader, group, escaped, delta, lost, retain, clean, receipt>>
    BY <1>3 DEF DispatchThrows, procs, policy
  <2>3. pc \in Dispatching /\ cur \in Tickets
    BY <2>2 DEF Dispatching, FixtureInv, WorkerIsDispatched
  <2> QED BY <1>1, <2>1, <2>2, <2>3, SettledUnspawned
<1>4. ASSUME NEW roster, Route(roster) PROVE FixtureInv'
  <2>1. /\ pc = "route" /\ cur <= N /\ ~unreleased
        /\ UNCHANGED <<unreleased, bundle, leader, group, escaped, delta, lost, retain, clean, receipt>>
    BY <1>4 DEF Route, procs, policy
  <2>2. unreleased = FALSE /\ cur \in Tickets BY <1>1, <2>1, HeadIsTicket
  <2>3. CASE pc' = "ready" /\ UNCHANGED <<cur, entry>>
    <3>1. UNCHANGED kept /\ retain' = retain BY <2>1, <2>3 DEF kept
    <3>2. pc \in Queueing BY <2>1 DEF Queueing
    <3> QED BY <2>1, <2>2, <2>3, <3>1, <3>2, MoveStep
  <2>4. CASE Settle("routing")
    <3>1. "routing" \in Entries \ {"none"} BY DEF Entries
    <3> QED BY <1>1, <2>1, <2>2, <2>4, <3>1, SettledUnspawned
  <2> QED BY <1>4, <2>3, <2>4 DEF Route
<1> QED BY <1>2, <1>3, <1>4

\* The dispatch up to the worker: each check either goes on or settles the entry.
LEMMA DispatchSteps ==
  ASSUME FixtureInv, CheckReady \/ Recheck \/ EvidenceUnavailable
  PROVE  FixtureInv'
<1>1. pc \in {"ready", "recheck"} BY DEF CheckReady, Recheck, EvidenceUnavailable
<1>2. pc \in Dispatching BY <1>1 DEF Dispatching
<1>3. cur \in Tickets /\ unreleased = FALSE /\ pc \in Queueing
  BY <1>2 DEF FixtureInv, WorkerIsDispatched, UnreleasedHolds, Queueing
<1>4. UNCHANGED <<leader, group, escaped, delta, lost, retain, clean>>
  BY DEF CheckReady, Recheck, EvidenceUnavailable, procs
<1>5. CASE /\ UNCHANGED <<cur, bundle, flow>>
           /\ \/ pc = "ready" /\ pc' = "materialize"
              \/ pc = "recheck" /\ pc' = "spawn"
  <2>1. UNCHANGED kept BY <1>4, <1>5 DEF kept, flow
  <2> QED BY <1>3, <1>4, <1>5, <2>1, MoveStep
<1>6. ASSUME NEW e \in {"dirty", "infra"}, FailBeforeSpawn(e), bundle' = bundle \/ bundle' = FinalizeBundle(cur),
             pc = "recheck" => e = "infra", pc = "ready" => bundle' = bundle
      PROVE  FixtureInv'
  <2>1. Settle(e) /\ unreleased' = unreleased /\ receipt' = receipt
    BY <1>6 DEF FailBeforeSpawn
  <2>2. e \in Entries \ {"none"} BY DEF Entries
  <2> QED BY <1>1, <1>2, <1>3, <1>4, <1>6, <2>1, <2>2, SettledUnspawned
<1>7. CASE CheckReady
  <2>1. pc = "ready" /\ bundle' = bundle BY <1>7 DEF CheckReady, policy
  <2>2. \/ pc' = "materialize" /\ UNCHANGED <<cur, flow>>
        \/ \E e \in {"dirty", "infra"} : FailBeforeSpawn(e)
    BY <1>7 DEF CheckReady
  <2> QED BY <1>5, <1>6, <2>1, <2>2
<1>8. CASE Recheck \/ EvidenceUnavailable
  <2>1. pc = "recheck" BY <1>8 DEF Recheck, EvidenceUnavailable
  <2>2. \/ pc' = "spawn" /\ UNCHANGED <<cur, bundle, flow>>
        \/ FailBeforeSpawn("infra") /\ bundle' = FinalizeBundle(cur)
    BY <1>8 DEF Recheck, EvidenceUnavailable
  <2> QED BY <1>5, <1>6, <2>1, <2>2
<1> QED BY <1>7, <1>8

\* The bundle is materialised: the lease of the ticket at the head is active.
LEMMA MaterializeStep ==
  ASSUME FixtureInv, Materialize
  PROVE  FixtureInv'
<1>1. pc = "materialize" /\ UNCHANGED <<leader, group, escaped, delta, lost, retain, clean>>
  BY DEF Materialize, procs
<1>2. pc \in Dispatching /\ pc \in Queueing BY <1>1 DEF Dispatching, Queueing
<1>3. cur \in Tickets /\ unreleased = FALSE
  BY <1>2 DEF FixtureInv, WorkerIsDispatched, UnreleasedHolds
<1>4. CASE FailBeforeSpawn("infra") /\ UNCHANGED bundle
  <2>1. Settle("infra") /\ unreleased' = unreleased /\ receipt' = receipt
    BY <1>4 DEF FailBeforeSpawn
  <2>2. "infra" \in Entries \ {"none"} BY DEF Entries
  <2> QED BY <1>1, <1>2, <1>3, <1>4, <2>1, <2>2, SettledUnspawned
<1>5. CASE pc' = "recheck" /\ bundle' = [bundle EXCEPT ![cur] = NewBundle] /\ UNCHANGED <<cur, flow>>
  <2>1. UNCHANGED <<cur, entry, receipt, unreleased>> /\ pc' = "recheck" BY <1>5 DEF flow
  <2>2. NewBundle \in Bundles BY DEF NewBundle, NoBundle, Bundles
  <2>3. /\ bundle' \in [Tickets -> Bundles]
        /\ \A t \in Tickets : t # cur => bundle'[t] = bundle[t]
    BY <1>5, <2>2 DEF FixtureInv, Shapes
  <2>4. Shapes' BY <1>1, <2>1, <2>3 DEF FixtureInv, Shapes
  <2>5. WorkerIsDispatched' /\ UnreleasedHolds'
    BY <1>1, <1>3, <2>1 DEF FixtureInv, WorkerIsDispatched, UnreleasedHolds
  <2>6. WritersAnswered' BY <1>1, <2>1 DEF FixtureInv, WritersAnswered, Answered
  <2>7. LeaseIsAnswered' BY <1>1, <1>2, <2>1, <2>3 DEF FixtureInv, LeaseIsAnswered
  <2>8. KilledWorkSurvives' /\ CaptureIsOwn'
    BY <1>1, <2>1 DEF FixtureInv, KilledWorkSurvives, CaptureIsOwn
  <2> QED BY <2>4, <2>5, <2>6, <2>7, <2>8 DEF FixtureInv
<1> QED BY <1>4, <1>5 DEF Materialize

\* The worker is spawned, or it cannot be.
LEMMA SpawnSteps ==
  ASSUME FixtureInv, Spawn \/ SpawnFails
  PROVE  FixtureInv'
<1>1. pc = "spawn" /\ UNCHANGED <<group, escaped, delta, lost, retain, clean>>
  BY DEF Spawn, SpawnFails
<1>2. pc \in Dispatching /\ pc \in Queueing BY <1>1 DEF Dispatching, Queueing
<1>3. cur \in Tickets /\ unreleased = FALSE
  BY <1>2 DEF FixtureInv, WorkerIsDispatched, UnreleasedHolds
<1>4. CASE FailBeforeSpawn("infra") /\ bundle' = FinalizeBundle(cur) /\ leader' = leader
  <2>1. Settle("infra") /\ unreleased' = unreleased /\ receipt' = receipt
    BY <1>4 DEF FailBeforeSpawn
  <2>2. "infra" \in Entries \ {"none"} BY DEF Entries
  <2> QED BY <1>1, <1>2, <1>3, <1>4, <2>1, <2>2, SettledUnspawned
<1>5. CASE pc' = "wait" /\ UNCHANGED <<cur, bundle, flow>>
  <2>1. UNCHANGED <<cur, bundle, entry, receipt, unreleased>> /\ pc' = "wait" BY <1>5 DEF flow
  <2>2. Shapes' BY <1>1, <2>1 DEF FixtureInv, Shapes
  <2>3. WorkerIsDispatched' /\ UnreleasedHolds'
    BY <1>1, <1>3, <2>1 DEF FixtureInv, WorkerIsDispatched, UnreleasedHolds
  <2>4. WritersAnswered' BY <1>1, <2>1 DEF FixtureInv, WritersAnswered, Answered
  <2>5. LeaseIsAnswered' BY <1>1, <1>2, <2>1 DEF FixtureInv, LeaseIsAnswered
  <2>6. KilledWorkSurvives' /\ CaptureIsOwn'
    BY <1>1, <2>1 DEF FixtureInv, KilledWorkSurvives, CaptureIsOwn
  <2> QED BY <2>2, <2>3, <2>4, <2>5, <2>6 DEF FixtureInv
<1> QED BY <1>4, <1>5 DEF Spawn, SpawnFails, policy

-----------------------------------------------------------------------------
(* Steps of the supervision and of the processes.                          *)

\* Processes appear only under the worker being waited for.
LEMMA ProcessStep ==
  ASSUME FixtureInv,
         UNCHANGED <<pc, cur, delta, bundle, entry, receipt, unreleased, clean, lost, retain>>,
         pc # "wait" => leader' = leader /\ group' = {},
         \A t \in escaped' : t \in escaped \/ (pc = "wait" /\ t = cur)
  PROVE  FixtureInv'
<1>1. pc = "wait" => cur \in Tickets BY DEF FixtureInv, WorkerIsDispatched, Dispatching
<1>2. Shapes' BY <1>1 DEF FixtureInv, Shapes
<1>3. WorkerIsDispatched' /\ UnreleasedHolds'
  BY DEF FixtureInv, WorkerIsDispatched, UnreleasedHolds
<1>4. WritersAnswered' BY DEF FixtureInv, WritersAnswered, Answered
<1>5. LeaseIsAnswered' BY DEF FixtureInv, LeaseIsAnswered
<1>6. KilledWorkSurvives' /\ CaptureIsOwn' BY DEF FixtureInv, KilledWorkSurvives, CaptureIsOwn
<1> QED BY <1>2, <1>3, <1>4, <1>5, <1>6 DEF FixtureInv

\* The worker forks and ends, its descendants end, the timers fire.
LEMMA ProcessSteps ==
  ASSUME FixtureInv, Fork \/ LeaderExits \/ DescendantExits \/ Timeout \/ GraceEnds
  PROVE  FixtureInv'
<1>1. pc # "wait" => leader.state = "none" /\ group = {}
  BY DEF FixtureInv, WorkerIsDispatched
<1>2. UNCHANGED <<pc, cur, delta, bundle, entry, receipt, unreleased, clean, lost, retain>>
  BY DEF Fork, LeaderExits, DescendantExits, Timeout, GraceEnds, policy, flow
<1>3. CASE Fork
  <2>1. pc = "wait" BY <1>1, <1>3 DEF Fork
  <2>2. \A t \in escaped' : t \in escaped \/ t = cur BY <1>3 DEF Fork
  <2> QED BY <1>2, <2>1, <2>2, ProcessStep
<1>4. CASE LeaderExits
  <2>1. pc = "wait" /\ group' = group /\ escaped' = escaped BY <1>1, <1>4 DEF LeaderExits
  <2> QED BY <1>1, <1>2, <2>1, ProcessStep
<1>5. CASE DescendantExits
  <2>1. leader' = leader /\ group' \subseteq group /\ escaped' \subseteq escaped
    BY <1>5 DEF DescendantExits
  <2> QED BY <1>1, <1>2, <2>1, ProcessStep
<1>6. CASE Timeout \/ GraceEnds
  <2>1. pc = "wait" /\ escaped' = escaped
    BY <1>6 DEF Timeout, GraceEnds, Terminate
  <2> QED BY <1>1, <1>2, <2>1, ProcessStep
<1> QED BY <1>3, <1>4, <1>5, <1>6

\* The worker is gone and its entry settles: a forced or abnormal end keeps the
\* ownership, any other is clean, and closes the lease unless it is denied.
LEMMA CompleteStep ==
  ASSUME FixtureInv, pc = "wait", Complete, group = {},
         UNCHANGED <<group, escaped, delta, lost, retain>>
  PROVE  FixtureInv'
<1> DEFINE forced == sup.term # "no"
           completion == Completion(forced, leader.code)
<1>1. PICK e \in Answers(forced, leader.code) :
      /\ Settle(e) /\ unreleased' = (unreleased \/ e = "pending")
      /\ bundle' = IF e = "pending" THEN bundle ELSE FinalizeBundle(cur)
      /\ receipt' = [receipt EXCEPT ![cur] = IF e = "captured" THEN delta ELSE {}]
      /\ clean' = IF forced \/ leader.code # 0 THEN clean ELSE clean \cup {cur}
      /\ leader' = NoLeader
  BY DEF Complete
<1>2. /\ e \in {"pending", "infra", "captured", "unverifiable"}
      /\ forced \/ leader.code # 0 => e = "pending"
      /\ e \in {"captured", "unverifiable"} => VerifyBundle(cur)
  <2>1. /\ completion \in {"pending", "infra", "captured", "unverifiable"}
        /\ forced \/ leader.code # 0 => completion = "pending"
        /\ completion \in {"captured", "unverifiable"} => VerifyBundle(cur)
    BY DEF Completion
  <2>2. e = completion \/ (completion # "pending" /\ e = "infra") BY DEF Answers
  <2> QED BY <2>1, <2>2
<1> HIDE DEF completion, forced
<1>3. pc \in Dispatching /\ cur \in Tickets
  BY DEF Dispatching, FixtureInv, WorkerIsDispatched
<1>4. /\ bundle \in [Tickets -> Bundles] /\ DOMAIN receipt = Tickets /\ unreleased \in BOOLEAN
  BY DEF FixtureInv, Shapes
<1>5. ClosedBundle \in Bundles /\ ClosedBundle.lease = "closed"
  BY DEF ClosedBundle, NoBundle, Bundles
<1>6. bundle' \in [Tickets -> Bundles] /\ \A t \in Tickets : t # cur => bundle'[t] = bundle[t]
  BY <1>1, <1>4, <1>5 DEF FinalizeBundle, CloseLease
<1>7. bundle'[cur].lease = "active" => e \in {"pending", "infra"}
  <2>1. CASE e \in {"captured", "unverifiable"}
    <3>1. bundle' = [bundle EXCEPT ![cur] = ClosedBundle]
      BY <1>1, <1>2, <2>1 DEF FinalizeBundle, CloseLease
    <3> QED BY <1>3, <1>4, <1>5, <3>1
  <2> QED BY <1>2, <2>1
<1>8. /\ DOMAIN receipt' = Tickets /\ \A d \in receipt'[cur] : d \in delta
      /\ \A t \in Tickets : t # cur => receipt'[t] = receipt[t]
  BY <1>1, <1>3, <1>4
<1>9. clean \subseteq clean' /\ (cur \in clean' \/ unreleased' = TRUE)
      /\ unreleased' \in BOOLEAN /\ (unreleased = TRUE => unreleased' = TRUE)
  BY <1>1, <1>2, <1>4
<1>10. e \in Entries \ {"none"} /\ leader'.state = "none" BY <1>1, <1>2 DEF Entries, NoLeader
<1> QED BY <1>1, <1>3, <1>6, <1>7, <1>8, <1>9, <1>10, SettleStep DEF SettlesTo

\* The close event and the poll.
LEMMA CloseSteps ==
  ASSUME FixtureInv, Close \/ PollDeath
  PROVE  FixtureInv'
<1>1. /\ pc = "wait" /\ UNCHANGED <<escaped, delta, lost, retain>>
  BY DEF Close, PollDeath
<1>2. CASE group = {} /\ Complete /\ UNCHANGED group BY <1>1, <1>2, CompleteStep
<1>3. CASE Terminate([sup EXCEPT !.closed = TRUE]) /\ UNCHANGED <<pc, cur, flow, bundle, clean>>
  <2>1. UNCHANGED <<pc, cur, delta, bundle, entry, receipt, unreleased, clean, lost, retain>>
    BY <1>1, <1>3 DEF flow
  <2> QED BY <1>1, <2>1, ProcessStep
<1> QED BY <1>1, <1>2, <1>3 DEF Close, PollDeath, GroupAlive

\* Whoever can act is a ticket that is answered for.
LEMMA LivingAnswered ==
  ASSUME FixtureInv, NEW t \in Living
  PROVE  t \in Tickets /\ Answered(t)
<1>1. CASE t \in escaped BY <1>1 DEF FixtureInv, Shapes, WritersAnswered
<1>2. CASE GroupAlive /\ t = cur
  <2>1. pc = "wait" BY <1>2 DEF GroupAlive, FixtureInv, WorkerIsDispatched
  <2> QED BY <1>2, <2>1 DEF FixtureInv, WorkerIsDispatched, Dispatching, Answered
<1> QED BY <1>1, <1>2 DEF Living

\* Something is written, or a bundle is spoilt: its lease stays.
LEMMA WriteStep ==
  ASSUME FixtureInv,
         UNCHANGED <<pc, cur, leader, group, escaped, entry, receipt, unreleased, clean, lost, retain>>,
         \A d \in delta' : d \in delta \/ Answered(d[1]),
         bundle' \in [Tickets -> Bundles],
         \A t \in Tickets : bundle'[t].lease = bundle[t].lease
  PROVE  FixtureInv'
<1>1. Shapes' BY DEF FixtureInv, Shapes
<1>2. WorkerIsDispatched' /\ UnreleasedHolds'
  BY DEF FixtureInv, WorkerIsDispatched, UnreleasedHolds
<1>3. WritersAnswered'
  <2>1. \A t : Answered(t)' <=> Answered(t) BY DEF Answered
  <2> QED BY <2>1 DEF FixtureInv, WritersAnswered
<1>4. LeaseIsAnswered' BY DEF FixtureInv, LeaseIsAnswered
<1>5. KilledWorkSurvives' /\ CaptureIsOwn' BY DEF FixtureInv, KilledWorkSurvives, CaptureIsOwn
<1> QED BY <1>1, <1>2, <1>3, <1>4, <1>5 DEF FixtureInv

\* One bundle is spoilt.
LEMMA BundleSpoilt ==
  ASSUME bundle \in [Tickets -> Bundles], NEW t \in Tickets,
         \/ bundle' = [bundle EXCEPT ![t].intact = FALSE]
         \/ bundle' = [bundle EXCEPT ![t].expired = TRUE]
         \/ bundle' = [bundle EXCEPT ![t].runtime = FALSE]
  PROVE  bundle' \in [Tickets -> Bundles] /\ \A u \in Tickets : bundle'[u].lease = bundle[u].lease
<1> DEFINE old == bundle[t]
           r1 == [old EXCEPT !.intact = FALSE]  r2 == [old EXCEPT !.expired = TRUE]
           r3 == [old EXCEPT !.runtime = FALSE]
<1>1. old \in Bundles OBVIOUS
<1>2. /\ r1 \in Bundles /\ r1.lease = old.lease /\ r2 \in Bundles /\ r2.lease = old.lease
      /\ r3 \in Bundles /\ r3.lease = old.lease
  <2> HIDE DEF old
  <2> QED BY <1>1 DEF Bundles
<1>3. \E r \in {r1, r2, r3} : bundle' = [bundle EXCEPT ![t] = r] OBVIOUS
<1> HIDE DEF r1, r2, r3
<1> QED BY <1>2, <1>3

\* What processes and tools do to the tree, and time to the bundles.
LEMMA WriteSteps ==
  ASSUME FixtureInv, RawWrite \/ ToolCall \/ ToolRuns \/ BundleAges
  PROVE  FixtureInv'
<1>1. bundle \in [Tickets -> Bundles] BY DEF FixtureInv, Shapes
<1>2. UNCHANGED <<pc, cur, leader, group, escaped, entry, receipt, unreleased, clean, lost, retain>>
  BY DEF RawWrite, ToolCall, ToolRuns, BundleAges, procs, flow
<1>3. ASSUME NEW t \in Living, NEW p, delta' = delta \cup {<<t, p>>}, bundle' = bundle
      PROVE  FixtureInv'
  <2>1. Answered(t) /\ <<t, p>>[1] = t BY LivingAnswered
  <2> QED BY <1>1, <1>2, <1>3, <2>1, WriteStep
<1>4. CASE delta' = delta /\ bundle' = bundle BY <1>1, <1>2, <1>4, WriteStep
<1>5. ASSUME delta' = delta, NEW t \in Tickets,
             \/ bundle' = [bundle EXCEPT ![t].intact = FALSE]
             \/ bundle' = [bundle EXCEPT ![t].expired = TRUE]
             \/ bundle' = [bundle EXCEPT ![t].runtime = FALSE]
      PROVE  FixtureInv'
  <2>1. bundle' \in [Tickets -> Bundles] /\ \A u \in Tickets : bundle'[u].lease = bundle[u].lease
    BY <1>1, <1>5, BundleSpoilt
  <2> QED BY <1>2, <1>5, <2>1, WriteStep
<1>6. CASE RawWrite
  <2>1. PICK t \in Living :
          \/ bundle' = bundle /\ (delta' = delta \/ \E p : delta' = delta \cup {<<t, p>>})
          \/ delta' = delta /\ bundle' = [bundle EXCEPT ![t].intact = FALSE]
    BY <1>6 DEF RawWrite, Write
  <2>2. t \in Tickets BY LivingAnswered
  <2> QED BY <1>3, <1>4, <1>5, <2>1, <2>2
<1>7. CASE ToolCall BY <1>4, <1>7 DEF ToolCall
<1>8. CASE ToolRuns
  <2>1. bundle' = bundle BY <1>8 DEF ToolRuns
  <2>2. delta' = delta \/ (call.by \in Living /\ delta' = delta \cup {<<call.by, call.path>>})
    BY <1>8 DEF ToolRuns, Write
  <2> QED BY <1>3, <1>4, <2>1, <2>2
<1>9. CASE BundleAges BY <1>5, <1>9 DEF BundleAges
<1> QED BY <1>6, <1>7, <1>8, <1>9

-----------------------------------------------------------------------------
(* The finally block.                                                      *)

\* The tree is looked at once: an unreleased ownership always retains it.
LEMMA ObserveStep ==
  ASSUME FixtureInv, Observe
  PROVE  FixtureInv'
<1>1. /\ pc = "observe" /\ pc' = "finalize" /\ retain' = RetainWorkspace
      /\ UNCHANGED <<cur, delta, leader, group, escaped, bundle, entry, receipt, unreleased, clean, lost>>
  BY DEF Observe, procs, policy, flow
<1>2. retain' \in BOOLEAN /\ (retain' = FALSE => unreleased = FALSE)
  BY <1>1 DEF RetainWorkspace, FixtureInv, Shapes
<1>3. Shapes' BY <1>1, <1>2 DEF FixtureInv, Shapes
<1>4. WorkerIsDispatched' /\ UnreleasedHolds'
  BY <1>1, <1>2 DEF FixtureInv, WorkerIsDispatched, UnreleasedHolds, Dispatching
<1>5. WritersAnswered' BY <1>1 DEF FixtureInv, WritersAnswered, Answered
<1>6. LeaseIsAnswered' BY <1>1 DEF FixtureInv, LeaseIsAnswered, Queueing, Dispatching
<1>7. KilledWorkSurvives' /\ CaptureIsOwn'
  BY <1>1 DEF FixtureInv, KilledWorkSurvives, CaptureIsOwn
<1> QED BY <1>3, <1>4, <1>5, <1>6, <1>7 DEF FixtureInv

\* The tree is removed only when no ownership is unreleased, hence whoever
\* wrote into it had closed cleanly.
LEMMA FinalizeStep ==
  ASSUME FixtureInv, Finalize
  PROVE  FixtureInv'
<1>1. /\ pc = "finalize" /\ pc' = "done" /\ retain' = retain
      /\ UNCHANGED <<cur, delta, leader, group, escaped, bundle, entry, receipt, unreleased, clean>>
  BY DEF Finalize, procs, policy, flow
<1>2. Shapes' BY <1>1 DEF FixtureInv, Shapes
<1>3. WorkerIsDispatched' /\ UnreleasedHolds'
  BY <1>1 DEF FixtureInv, WorkerIsDispatched, UnreleasedHolds, Dispatching
<1>4. WritersAnswered' BY <1>1 DEF FixtureInv, WritersAnswered, Answered
<1>5. LeaseIsAnswered' BY <1>1 DEF FixtureInv, LeaseIsAnswered, Queueing, Dispatching
<1>6. KilledWorkSurvives'
  <2>1. CASE lost' = lost BY <1>1, <2>1 DEF FixtureInv, KilledWorkSurvives
  <2>2. CASE lost' # lost
    <3>1. lost' = lost \cup delta /\ retain = FALSE
      BY <2>2 DEF Finalize, FixtureInv, Shapes
    <3>2. unreleased = FALSE BY <1>1, <3>1 DEF FixtureInv, UnreleasedHolds
    <3>3. \A d \in delta : d[1] \in clean
      BY <1>1, <3>2 DEF FixtureInv, WritersAnswered, Answered
    <3> QED BY <1>1, <3>1, <3>3 DEF FixtureInv, KilledWorkSurvives
  <2> QED BY <2>1, <2>2
<1>7. CaptureIsOwn' BY <1>1 DEF FixtureInv, CaptureIsOwn
<1> QED BY <1>2, <1>3, <1>4, <1>5, <1>6, <1>7 DEF FixtureInv

\* The invariant holds in the initial state.
LEMMA FixtureInvInit == Init => FixtureInv
<1> SUFFICES ASSUME Init PROVE FixtureInv OBVIOUS
<1>1. NoBundle \in Bundles /\ NoBundle.lease = "none" /\ "none" \in Entries
  BY DEF NoBundle, Bundles, Entries
<1>2. Shapes
  <2>1. bundle \in [Tickets -> Bundles] /\ entry \in [Tickets -> Entries] BY <1>1 DEF Init
  <2>2. DOMAIN receipt = Tickets /\ escaped \subseteq Tickets BY DEF Init
  <2>3. cur = 1 /\ unreleased = FALSE /\ retain = FALSE /\ group = {} BY DEF Init
  <2>4. cur \in Nat /\ cur >= 1 BY <2>3
  <2>5. unreleased \in BOOLEAN /\ retain \in BOOLEAN BY <2>3
  <2> QED BY <2>1, <2>2, <2>4, <2>5 DEF Shapes
<1>3. WorkerIsDispatched /\ WritersAnswered /\ UnreleasedHolds
  BY DEF Init, NoLeader, WorkerIsDispatched, WritersAnswered, UnreleasedHolds, Dispatching
<1>4. LeaseIsAnswered BY <1>1 DEF Init, LeaseIsAnswered
<1>5. KilledWorkSurvives /\ CaptureIsOwn BY DEF Init, KilledWorkSurvives, CaptureIsOwn
<1> QED BY <1>2, <1>3, <1>4, <1>5 DEF FixtureInv

\* Every step of the build, of its supervision and of the processes preserves
\* the invariant.
LEMMA FixtureInvStep == FixtureInv /\ [Next]_vars => FixtureInv'
<1> SUFFICES ASSUME FixtureInv, [Next]_vars PROVE FixtureInv' OBVIOUS
<1>1. CASE BuildStep
  <2>1. CASE \/ AllocateRun \/ ProvisionRefused \/ ProvisionFailed \/ ProvisionReady
             \/ DrainEmpty \/ Account
    BY <2>1, MovesOn
  <2>2. CASE Refused \/ DispatchThrows \/ \E roster : Route(roster) BY <2>2, RouteSteps
  <2>3. CASE CheckReady \/ Recheck \/ EvidenceUnavailable BY <2>3, DispatchSteps
  <2>4. CASE Materialize BY <2>4, MaterializeStep
  <2>5. CASE Spawn \/ SpawnFails BY <2>5, SpawnSteps
  <2>6. CASE Observe BY <2>6, ObserveStep
  <2>7. CASE Finalize BY <2>7, FinalizeStep
  <2> QED BY <1>1, <2>1, <2>2, <2>3, <2>4, <2>5, <2>6, <2>7 DEF BuildStep
<1>2. CASE Supervision BY <1>2, ProcessSteps, CloseSteps DEF Supervision
<1>3. CASE Environment BY <1>3, ProcessSteps, WriteSteps DEF Environment
<1>4. CASE UNCHANGED vars
  <2>1. UNCHANGED <<pc, cur, delta, bundle, leader, group, escaped, entry, receipt, unreleased,
                    clean, lost, retain>>
    BY <1>4 DEF vars, procs, policy, flow
  <2>2. bundle \in [Tickets -> Bundles] BY DEF FixtureInv, Shapes
  <2> QED BY <2>1, <2>2, WriteStep
<1> QED BY <1>1, <1>2, <1>3, <1>4 DEF Next

\* The invariant of the fixture build.
LEMMA FixtureInvariant == Spec => []FixtureInv
BY FixtureInvInit, FixtureInvStep, PTL DEF Spec

\* What a worker left is deleted with the worktree only when its writer had
\* closed cleanly with code 0, whatever the plan, the order in which processes
\* write, fork and end, and whichever removal fails: the work of a worker that
\* was killed or failed is never deleted (build.ts, retainWorkspace).
THEOREM KilledWorkKept == Spec => []KilledWorkSurvives
<1>1. FixtureInv => KilledWorkSurvives BY DEF FixtureInv
<1> QED BY <1>1, FixtureInvariant, PTL

\* A capture receipt lists only what its own ticket's processes wrote, or a
\* descendant of an earlier worker that had closed cleanly: no worker is
\* spawned into the tree of one that was killed or failed (dispatch.ts,
\* ownershipReleased: false).
THEOREM CapturesAreOwn == Spec => []CaptureIsOwn
<1>1. FixtureInv => CaptureIsOwn BY DEF FixtureInv
<1> QED BY <1>1, FixtureInvariant, PTL

-----------------------------------------------------------------------------
(* The authority of a worker.                                              *)

\* The authentication lets through only a config that names the attempt of the
\* spawn environment, and only while that attempt's lease is active.
LEMMA AuthenticatedClaim ==
  ASSUME NEW bundles, NEW claim, AdaptNative(bundles, claim) = "ok"
  PROVE  claim.config = claim.env /\ bundles[claim.env].lease = "active"
<1>1. AuthenticateBundle(bundles, claim) = "ok"
  BY DEF AdaptNative, Authenticate
<1>2. /\ claim.config = claim.env
      /\ ValidateActiveLease(bundles[claim.env]) = "ok"
  BY <1>1 DEF AuthenticateBundle
<1> QED BY <1>2 DEF ValidateActiveLease

\* The scope fence lets a change of a file through only at the path the ticket
\* declares.
LEMMA FencedChange ==
  ASSUME NEW t, NEW baseline, NEW files, NEW event,
         event.tool \in {"write", "edit"}, event.phase = "tool_call",
         scope_fence(t, baseline, files, event) # "DENY"
  PROVE  event.path = t
<1> DEFINE operation == NativeOperation(event, files)
           declaration == Declaration(t, baseline)
           exists == event.path \in files
<1>1. EvaluateScope(declaration, event, exists, operation) # "DENY"
  BY DEF scope_fence, FILESYSTEM_TOOLS
<1>2. operation # "read" BY DEF NativeOperation
<1>3. declaration.path = t BY DEF Declaration
<1> HIDE DEF operation, declaration, exists
<1>4. event.path = declaration.path BY <1>1, <1>2 DEF EvaluateScope
<1> QED BY <1>3, <1>4

\* The scope fence lets a file tool name no path of Git's and no link out.
LEMMA FencedPath ==
  ASSUME NEW t, NEW baseline, NEW files, NEW event,
         event.tool \in FILESYSTEM_TOOLS, event.phase = "tool_call",
         scope_fence(t, baseline, files, event) # "DENY"
  PROVE  ProveEndpoint(event.path)
<1> DEFINE operation == NativeOperation(event, files)
           declaration == Declaration(t, baseline)
           exists == event.path \in files
<1>1. event.tool # "shell" BY DEF FILESYSTEM_TOOLS
<1>2. EvaluateScope(declaration, event, exists, operation) # "DENY"
  BY <1>1 DEF scope_fence
<1> HIDE DEF operation, declaration, exists
<1> QED BY <1>2 DEF EvaluateScope

\* Every event names a tool, and only a file tool's names a path.
LEMMA EventShape ==
  ASSUME NEW event \in Events
  PROVE  /\ event.tool \in KNOWN_NATIVE_TOOLS \cup {"unknown"}
         /\ event.tool \notin FILESYSTEM_TOOLS => event.path = Undeclared
<1> USE DEF KNOWN_NATIVE_TOOLS, FILESYSTEM_TOOLS, LIFECYCLE_TOOLS
<1>1. CASE event \in FileEvents BY <1>1 DEF FileEvents
<1>2. CASE event \in ShellEvents BY <1>2 DEF ShellEvents
<1>3. CASE event \in LifecycleEvents BY <1>3 DEF LifecycleEvents
<1>4. CASE event \in OtherEvents BY <1>4 DEF OtherEvents
<1> QED BY <1>1, <1>2, <1>3, <1>4 DEF Events

\* A tool call the host allows is under its ticket's active lease; one that
\* changes a file does so at the path the ticket declares, none leaves the
\* worktree, and shell, completion and unknown tools never pass.
LEMMA AllowedCall ==
  ASSUME NEW bundles, NEW claim, NEW baseline, NEW files, NEW p, NEW event \in Events,
         event.phase = "tool_call",
         HostDecision(bundles, claim, baseline, files, p, event) = "ALLOW"
  PROVE  /\ event.tool \in MutatingTools => event.path = claim.env
         /\ event.path \notin {GitHead, LinkOut}
         /\ event.tool \notin {"shell", "mark_done", "unknown"}
         /\ bundles[claim.env].lease = "active"
<1>1. AdaptNative(bundles, claim) = "ok" /\ AdaptEvent(event) # "denied"
  BY DEF HostDecision
<1>2. AdaptEvent(event) # "abstain" /\ event.tool # "unknown"
  BY <1>1 DEF AdaptEvent, NATIVE_PHASES, KNOWN_NATIVE_TOOLS, FILESYSTEM_TOOLS, LIFECYCLE_TOOLS
<1>3. /\ scope_fence(claim.env, baseline, files, event) # "DENY"
      /\ completion_evidence(event) # "DENY"
  BY <1>1, <1>2 DEF HostDecision
<1>4. event.tool # "shell" /\ event.tool # "mark_done"
  BY <1>3 DEF scope_fence, completion_evidence
<1>5. event.tool \in MutatingTools => event.path = claim.env
  BY <1>3, FencedChange DEF MutatingTools
<1>6. event.path \notin {GitHead, LinkOut}
  <2>1. CASE event.tool \in FILESYSTEM_TOOLS
    <3>1. ProveEndpoint(event.path) BY <1>3, <2>1, FencedPath
    <3>2. \A t \in Tickets : t \in Nat BY DEF Tickets
    <3> QED BY <3>1, <3>2 DEF ProveEndpoint, GitHead, LinkOut, Undeclared
  <2>2. CASE event.tool \notin FILESYSTEM_TOOLS
    BY <2>2, EventShape DEF GitHead, LinkOut, Undeclared
  <2> QED BY <2>1, <2>2
<1>7. bundles[claim.env].lease = "active" BY <1>1, AuthenticatedClaim
<1> QED BY <1>2, <1>4, <1>5, <1>6, <1>7

\* A step that hands a call to the tool is the host's, and the call is bounded.
LEMMA AuthorityStep ==
  ASSUME FixtureInv, [Next]_vars, call' # call, call' # NoCall
  PROVE  /\ call'.tool \in MutatingTools => call'.path = call'.by
         /\ call'.path \notin {GitHead, LinkOut}
         /\ call'.tool \notin {"shell", "mark_done", "unknown"}
         /\ \/ call'.by = cur
            \/ entry[call'.by] \in {"pending", "infra"}
<1>1. ToolCall
  <2>1. CASE BuildStep
    BY <2>1 DEF BuildStep, AllocateRun, ProvisionRefused, ProvisionFailed, ProvisionReady, DrainEmpty,
       Refused, DispatchThrows, Route, CheckReady, Materialize, Recheck, EvidenceUnavailable,
       Spawn, SpawnFails, Account, Observe, Finalize, policy
  <2>2. CASE Supervision
    BY <2>2 DEF Supervision, Timeout, GraceEnds, Close, PollDeath, policy
  <2>3. CASE Environment
    BY <2>3 DEF Environment, Fork, LeaderExits, DescendantExits, RawWrite, ToolRuns, BundleAges, policy
  <2>4. CASE UNCHANGED vars BY <2>4 DEF vars, policy
  <2> QED BY <2>1, <2>2, <2>3, <2>4 DEF Next
<1>2. PICK t \in Living, config \in Tickets \cup {0}, event \in Events :
        /\ HostDecision(bundle, [env |-> t, config |-> config], Baseline, Files, push, event) = "ALLOW"
        /\ call' = IF event.phase = "tool_call"
                   THEN [by |-> t, tool |-> event.tool, path |-> event.path] ELSE NoCall
  BY <1>1 DEF ToolCall
<1> DEFINE claim == [env |-> t, config |-> config]
<1>3. event.phase = "tool_call" /\ claim.env = t BY <1>2
<1>4. HostDecision(bundle, claim, Baseline, Files, push, event) = "ALLOW" BY <1>2
<1> HIDE DEF claim
<1>5. /\ event.tool \in MutatingTools => event.path = t
      /\ event.path \notin {GitHead, LinkOut}
      /\ event.tool \notin {"shell", "mark_done", "unknown"}
      /\ bundle[t].lease = "active"
  BY <1>3, <1>4, AllowedCall
<1>6. call' = [by |-> t, tool |-> event.tool, path |-> event.path] BY <1>2, <1>3
<1>7. t \in Tickets BY LivingAnswered
<1>8. t = cur \/ entry[t] \in {"pending", "infra"}
  BY <1>5, <1>7 DEF FixtureInv, LeaseIsAnswered
<1> QED BY <1>5, <1>6, <1>8

\* Whatever tool is asked for, with whatever config and path, and whatever
\* became of the bundles: a change of a file passes only at the path the caller's
\* own ticket declares, no path of Git's and no link out of the worktree passes,
\* no shell command, push, pull request or completion does, and anything at all
\* passes only for the worker being dispatched or one whose entry says that its
\* ownership was kept or its bundle no longer verified (authenticateBundle,
\* scope_fence, completion_evidence, closePolicyBundleLease).
THEOREM AuthorityBounded == Spec => AuthorityIsBounded
<1>1. FixtureInv /\ [Next]_vars =>
        [call' # call /\ call' # NoCall =>
           /\ call'.tool \in MutatingTools => call'.path = call'.by
           /\ call'.path \notin {GitHead, LinkOut}
           /\ call'.tool \notin {"shell", "mark_done", "unknown"}
           /\ \/ call'.by = cur
              \/ entry[call'.by] \in {"pending", "infra"}]_vars
  BY AuthorityStep
<1> QED BY <1>1, FixtureInvariant, PTL DEF Spec, AuthorityIsBounded

=============================================================================
