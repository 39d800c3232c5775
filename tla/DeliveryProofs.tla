--------------------------- MODULE DeliveryProofs ---------------------------
(***************************************************************************)
(* Delivery for any number of callers, calls, foreign moves and pull       *)
(* requests: what the tables say of the remote is true, the rows are       *)
(* append-only until the decision freezes them, and the whole flow         *)
(* implements DeliveryPromise.                                             *)
(***************************************************************************)
EXTENDS Delivery, WellFoundedInduction, TLAPS

Pull == [open : BOOLEAN, head : Branch]
PrObservation == [number : Nat, head : Branch]

Pcs == {"idle", "expect", "intent", "pre_push", "resume", "push", "record_push",
        "ls_remote", "record_ls", "compare", "find_pull", "create_pull", "query_pull",
        "record_pull", "push_failed", "pull_failed", "delivered"}
Statuses == {"none", "stale", "mismatch", "pull_failed", "verified"} \cup Outcomes

\* The local variables of a call.
Locals ==
  [pc : Pcs, client : {"build", "flow", "services"}, head : {"commit", "base"},
   expected : Expected, fresh : BOOLEAN, seq : Nat, outcome : Outcomes,
   seen : {"null"} \cup Branch, ls : Nat, pull : Nat, status : Statuses]

\* The typing that is inductive.
Typed ==
  /\ branch \in Branch /\ carried \subseteq Branch /\ inFlight \in Nat
  /\ pulls \in Seq(Pull)
  /\ run \in {"ready_for_delivery", "delivered", "delivery_failed"}
  /\ intent = <<>> \/ \E e \in Expected : intent = <<e>>
  /\ remoteObs \in Seq(RemoteObservation)
  /\ prObs \in Seq(PrObservation)
  /\ decision = <<>> \/ \E d : decision = <<d>>
  /\ (decision = <<>>) <=> (run = "ready_for_delivery")
  /\ call \in [Callers -> Locals]
  /\ calls \in 0 .. MaxCalls /\ moves \in 0 .. MaxMoves

\* What the rows and the provider say, and what they refer to.
RowsTrue ==
  /\ branch \in carried
  /\ RecordsAreTrue
  /\ \A i \in 1 .. Len(prObs) : prObs[i].number \in 1 .. Len(pulls)

\* What a call has seen and not yet written.
CallTrue(m) ==
  /\ m.pc = "record_push" /\ m.outcome = "pushed" => "commit" \in carried
  /\ m.pc \in {"record_ls", "compare"} => m.seen \in carried
  /\ m.pc = "create_pull" => "commit" \in carried
  /\ m.pc \in {"query_pull", "record_pull"} => m.pull \in 1 .. Len(pulls)

DeliveryInv == Typed /\ RowsTrue /\ \A c \in Callers : CallTrue(call[c])

-----------------------------------------------------------------------------
(* The operators.                                                          *)

\* A nonempty set of naturals has a least element, which Min picks.
LEMMA MinIs ==
  ASSUME NEW S \in SUBSET Nat, S # {}
  PROVE  Min(S) \in S
<1> DEFINE R == OpToRel(<, Nat)
<1>1. PICK x \in S : \A y \in S : ~(<<y, x>> \in R)
  BY NatLessThanWellFounded, WFMin, Zenon
<1>2. R = {ss \in Nat \X Nat : ss[1] < ss[2]} BY DEF OpToRel
<1>3. \A y \in S : y < x => <<y, x>> \in R
  <2> HIDE DEF R
  <2> QED BY <1>2
<1>4. ASSUME NEW y \in S PROVE x =< y
  <2> HIDE DEF R
  <2>1. ~(<<y, x>> \in R) BY <1>1
  <2>2. ~(y < x) BY <2>1, <1>3
  <2>3. x \in Nat /\ y \in Nat OBVIOUS
  <2> QED BY <2>2, <2>3
<1> QED BY <1>4 DEF Min

\* observations.find gives a row that matches, when it gives one.
LEMMA FirstLsRemoteIs ==
  ASSUME remoteObs \in Seq(RemoteObservation), FirstLsRemote # 0
  PROVE  /\ FirstLsRemote \in 1 .. Len(remoteObs)
         /\ remoteObs[FirstLsRemote].oid # "null"
<1> DEFINE I == {i \in 1 .. Len(remoteObs) : IsLsRemote(remoteObs[i])}
<1>1. FirstLsRemote = IF I # {} THEN Min(I) ELSE 0 BY DEF FirstLsRemote, SelectInSeq
<1>2. I \in SUBSET Nat OBVIOUS
<1>3. FirstLsRemote \in I BY <1>1, <1>2, MinIs
<1> QED BY <1>3 DEF IsLsRemote

\* The memory a call starts from and ends with.
LEMMA IdleType == Idle \in Locals
BY DEF Idle, Locals, Pcs, Expected, Outcomes, Branch, Statuses

\* One caller moves: its new locals are what there is to look at.
LEMMA OneMoves ==
  ASSUME call \in [Callers -> Locals], NEW c \in Callers, NEW m \in Locals,
         call' = [call EXCEPT ![c] = m]
  PROVE  /\ call' \in [Callers -> Locals] /\ call'[c] = m
         /\ \A d \in Callers \ {c} : call'[d] = call[d]
OBVIOUS

\* Goto, PushFails and PullFails write the program counter and the status.
LEMMA GotoMoves ==
  ASSUME call \in [Callers -> Locals], NEW c \in Callers, NEW pc \in Pcs, Goto(c, pc)
  PROVE  /\ call' \in [Callers -> Locals]
         /\ \A d \in Callers \ {c} : call'[d] = call[d]
         /\ call'[c].pc = pc /\ call'[c].pull = call[c].pull
<1> DEFINE m == [call[c] EXCEPT !.pc = pc]
<1>1. call[c] \in Locals OBVIOUS
<1>2. m \in Locals /\ m.pc = pc /\ m.pull = call[c].pull BY <1>1 DEF Locals
<1>3. call' = [call EXCEPT ![c] = m] BY DEF Goto
<1> HIDE DEF m
<1> QED BY <1>2, <1>3

\* The same for a push that failed.
LEMMA PushFailsMoves ==
  ASSUME call \in [Callers -> Locals], NEW c \in Callers, NEW status \in Statuses,
         PushFails(c, status)
  PROVE  /\ call' \in [Callers -> Locals]
         /\ \A d \in Callers \ {c} : call'[d] = call[d]
         /\ call'[c].pc = "push_failed"
<1> DEFINE m == [call[c] EXCEPT !.pc = "push_failed", !.status = status]
<1>1. call[c] \in Locals OBVIOUS
<1>2. m \in Locals /\ m.pc = "push_failed" BY <1>1 DEF Locals, Pcs
<1>3. call' = [call EXCEPT ![c] = m] BY DEF PushFails
<1> HIDE DEF m
<1> QED BY <1>2, <1>3

\* The same for a pull request that failed.
LEMMA PullFailsMoves ==
  ASSUME call \in [Callers -> Locals], NEW c \in Callers, PullFails(c)
  PROVE  /\ call' \in [Callers -> Locals]
         /\ \A d \in Callers \ {c} : call'[d] = call[d]
         /\ call'[c].pc = "pull_failed"
<1> DEFINE m == [call[c] EXCEPT !.pc = "pull_failed", !.status = "pull_failed"]
<1>1. call[c] \in Locals OBVIOUS
<1>2. m \in Locals /\ m.pc = "pull_failed" BY <1>1 DEF Locals, Pcs, Statuses
<1>3. call' = [call EXCEPT ![c] = m] BY DEF PullFails
<1> HIDE DEF m
<1> QED BY <1>2, <1>3

-----------------------------------------------------------------------------
(* Initially nothing is recorded.                                          *)

\* Init establishes the invariant.
LEMMA DeliveryInvInit == Init => DeliveryInv
<1> SUFFICES ASSUME Init PROVE DeliveryInv OBVIOUS
<1>1. Typed
  BY DeliveryAssumption, IdleType DEF Init, Typed, Branch
<1>2. RowsTrue BY DEF Init, RowsTrue, RecordsAreTrue
<1>3. ASSUME NEW c \in Callers PROVE CallTrue(call[c])
  BY DEF Init, CallTrue, Idle
<1> QED BY <1>1, <1>2, <1>3 DEF DeliveryInv

-----------------------------------------------------------------------------
(* The steps.                                                              *)

\* What the branch carried and which pull requests exist is never taken back,
\* so what a resting call has seen stays true.
LEMMA OthersStayTrue ==
  ASSUME DeliveryInv, NEW c \in Callers, carried \subseteq carried',
         1 .. Len(pulls) \subseteq 1 .. Len(pulls'),
         \A d \in Callers \ {c} : call'[d] = call[d],
         CallTrue(call[c])'
  PROVE  (\A d \in Callers : CallTrue(call[d]))'
<1>1. ASSUME NEW d \in Callers PROVE CallTrue(call[d])'
  <2>1. CASE d = c BY <2>1
  <2>2. CASE d # c BY <2>2 DEF DeliveryInv, CallTrue
  <2> QED BY <2>1, <2>2
<1> QED BY <1>1

\* A step that only writes the caller's locals.
LEMMA LocalPreserves ==
  ASSUME DeliveryInv, NEW c \in Callers, UNCHANGED <<remote, store, moves>>,
         calls' \in 0 .. MaxCalls, call' \in [Callers -> Locals],
         \A d \in Callers \ {c} : call'[d] = call[d],
         CallTrue(call[c])'
  PROVE  DeliveryInv'
<1>1. Typed' BY DEF DeliveryInv, Typed, remote, store
<1>2. RowsTrue' BY DEF DeliveryInv, RowsTrue, RecordsAreTrue, remote, store
<1>3. (\A d \in Callers : CallTrue(call[d]))'
  BY OthersStayTrue DEF remote
<1> QED BY <1>1, <1>2, <1>3 DEF DeliveryInv

\* A failed push claims nothing.
LEMMA PushFailsStep ==
  ASSUME DeliveryInv, NEW c \in Callers, NEW status \in Statuses, PushFails(c, status),
         UNCHANGED <<remote, store, calls, moves>>
  PROVE  DeliveryInv'
<1>1. call \in [Callers -> Locals] /\ calls \in 0 .. MaxCalls BY DEF DeliveryInv, Typed
<1>2. call'[c].pc = "push_failed" /\ call' \in [Callers -> Locals]
      /\ \A d \in Callers \ {c} : call'[d] = call[d]
  BY <1>1, PushFailsMoves
<1>3. CallTrue(call[c])' BY <1>2 DEF CallTrue
<1> QED BY <1>1, <1>2, <1>3, LocalPreserves

\* A call that goes to a step that claims nothing.
Quiet == Pcs \ {"record_push", "record_ls", "compare", "create_pull", "query_pull",
                "record_pull"}

\* Such a step preserves the invariant.
LEMMA QuietStep ==
  ASSUME DeliveryInv, NEW c \in Callers, NEW pc \in Quiet, Goto(c, pc),
         UNCHANGED <<remote, store, calls, moves>>
  PROVE  DeliveryInv'
<1>1. call \in [Callers -> Locals] /\ calls \in 0 .. MaxCalls /\ pc \in Pcs
  BY DEF DeliveryInv, Typed, Quiet
<1>2. call'[c].pc = pc /\ call' \in [Callers -> Locals]
      /\ \A d \in Callers \ {c} : call'[d] = call[d]
  BY <1>1, GotoMoves
<1>3. CallTrue(call[c])' BY <1>2 DEF CallTrue, Quiet
<1> QED BY <1>1, <1>2, <1>3, LocalPreserves

\* The first steps of a call and its death.
LEMMA FirstSteps ==
  ASSUME DeliveryInv, NEW c \in Callers,
         StartFlow(c) \/ ObserveExpected(c) \/ PrePush(c) \/ Crash(c)
  PROVE  DeliveryInv'
<1>1. /\ call \in [Callers -> Locals] /\ call[c] \in Locals
      /\ calls \in 0 .. MaxCalls /\ branch \in Branch
  BY DEF DeliveryInv, Typed
<1>2. CASE StartFlow(c)
  <2>1. PICK head \in {"commit", "base"}, client \in Clients :
          call' = [call EXCEPT ![c] = [Idle EXCEPT !.pc = "expect", !.head = head,
                                                   !.client = client]]
    BY <1>2 DEF StartFlow
  <2> DEFINE m == [Idle EXCEPT !.pc = "expect", !.head = head, !.client = client]
  <2>2. client \in {"build", "flow", "services"} BY DeliveryAssumption
  <2>3. m \in Locals /\ m.pc = "expect" BY <2>2, IdleType DEF Locals, Pcs
  <2> HIDE DEF m
  <2>4. call' = [call EXCEPT ![c] = m] BY <2>1 DEF m
  <2>5. call'[c].pc = "expect" /\ call' \in [Callers -> Locals]
        /\ \A d \in Callers \ {c} : call'[d] = call[d]
    BY <2>3, <2>4, <1>1, OneMoves
  <2>6. CallTrue(call[c])' BY <2>5 DEF CallTrue
  <2>7. calls' \in 0 .. MaxCalls
    <3>1. calls < MaxCalls /\ calls' = calls + 1 BY <1>2 DEF StartFlow
    <3> QED BY <3>1, <1>1, DeliveryAssumption
  <2>8. UNCHANGED <<remote, store, moves>> BY <1>2 DEF StartFlow
  <2> QED BY <2>5, <2>6, <2>7, <2>8, LocalPreserves
<1>3. CASE ObserveExpected(c)
  <2>1. PICK seen \in {"null"} \cup ({branch} \ {"absent"}) :
          call' = [call EXCEPT ![c].expected = seen, ![c].pc = "intent",
                               ![c].fresh = run = "ready_for_delivery"]
    BY <1>3 DEF ObserveExpected
  <2> DEFINE m == [call[c] EXCEPT !.expected = seen, !.pc = "intent",
                                  !.fresh = run = "ready_for_delivery"]
  <2>2. seen \in Expected BY <2>1, <1>1 DEF Expected, Branch
  <2>3. m \in Locals /\ m.pc = "intent" BY <2>2, <1>1 DEF Locals, Pcs
  <2>4. call' = [call EXCEPT ![c] = m] BY <2>1, <1>1
  <2> HIDE DEF m
  <2>5. call'[c].pc = "intent" /\ call' \in [Callers -> Locals]
        /\ \A d \in Callers \ {c} : call'[d] = call[d]
    BY <2>3, <2>4, <1>1, OneMoves
  <2>6. CallTrue(call[c])' BY <2>5 DEF CallTrue
  <2>7. UNCHANGED <<remote, store, calls, moves>> BY <1>3 DEF ObserveExpected
  <2> QED BY <2>5, <2>6, <2>7, <1>1, LocalPreserves
<1>4. CASE PrePush(c)
  <2>1. UNCHANGED <<remote, store, calls, moves>> BY <1>4 DEF PrePush
  <2>2. CASE PushFails(c, "stale") BY <2>1, <2>2, PushFailsStep DEF Statuses
  <2>3. CASE Goto(c, "resume") BY <2>1, <2>3, QuietStep DEF Quiet, Pcs
  <2> QED BY <1>4, <2>2, <2>3 DEF PrePush
<1>5. CASE Crash(c)
  <2>1. call' = [call EXCEPT ![c] = Idle] /\ UNCHANGED <<remote, store, calls, moves>>
    BY <1>5 DEF Crash
  <2>2. call'[c] = Idle /\ call' \in [Callers -> Locals]
        /\ \A d \in Callers \ {c} : call'[d] = call[d]
    BY <2>1, <1>1, IdleType
  <2>3. CallTrue(call[c])' BY <2>2 DEF CallTrue, Idle
  <2> QED BY <2>1, <2>2, <2>3, <1>1, LocalPreserves
<1> QED BY <1>2, <1>3, <1>4, <1>5

\* A row that was recorded names what the branch has carried.
LEMMA LsRowIsTrue ==
  ASSUME DeliveryInv, FirstLsRemote # 0
  PROVE  /\ remoteObs[FirstLsRemote].oid \in carried
         /\ remoteObs[FirstLsRemote].oid \in {"null"} \cup Branch
         /\ FirstLsRemote \in Nat
<1>1. remoteObs \in Seq(RemoteObservation) /\ RecordsAreTrue
  BY DEF DeliveryInv, Typed, RowsTrue
<1>2. FirstLsRemote \in 1 .. Len(remoteObs) /\ remoteObs[FirstLsRemote].oid # "null"
  BY <1>1, FirstLsRemoteIs
<1>3. FirstLsRemote \in DOMAIN remoteObs BY <1>1, <1>2
<1>4. remoteObs[FirstLsRemote] \in RemoteObservation BY <1>1, <1>2
<1>5. remoteObs[FirstLsRemote].oid \in carried BY <1>1, <1>2, <1>3 DEF RecordsAreTrue
<1> QED BY <1>2, <1>4, <1>5 DEF RemoteObservation

\* Recorded observations are taken up again as they are.
LEMMA ResumeStep == ASSUME DeliveryInv, NEW c \in Callers, ResumePush(c) PROVE DeliveryInv'
<1>1. /\ call \in [Callers -> Locals] /\ call[c] \in Locals
      /\ calls \in 0 .. MaxCalls /\ remoteObs \in Seq(RemoteObservation)
  BY DEF DeliveryInv, Typed
<1>2. UNCHANGED <<remote, store, calls, moves>> BY DEF ResumePush
<1>3. CASE call' = [call EXCEPT ![c].pc = "push", ![c].seq = Len(remoteObs) + 1]
  <2> DEFINE m == [call[c] EXCEPT !.pc = "push", !.seq = Len(remoteObs) + 1]
  <2>1. Len(remoteObs) + 1 \in Nat BY <1>1
  <2>2. m \in Locals /\ m.pc = "push" BY <2>1, <1>1 DEF Locals, Pcs
  <2>3. call' = [call EXCEPT ![c] = m] BY <1>3, <1>1
  <2> HIDE DEF m
  <2>4. call'[c].pc = "push" /\ call' \in [Callers -> Locals]
        /\ \A d \in Callers \ {c} : call'[d] = call[d]
    BY <2>2, <2>3, <1>1, OneMoves
  <2>5. CallTrue(call[c])' BY <2>4 DEF CallTrue
  <2> QED BY <1>1, <1>2, <2>4, <2>5, LocalPreserves
<1>4. CASE PushFails(c, "timeout") \/ PushFails(c, "rejected")
  BY <1>2, <1>4, PushFailsStep DEF Statuses, Outcomes
<1>5. CASE Goto(c, "ls_remote") BY <1>2, <1>5, QuietStep DEF Quiet, Pcs
<1>6. CASE /\ FirstLsRemote # 0
           /\ call' = [call EXCEPT ![c].pc = "compare", ![c].ls = FirstLsRemote,
                                   ![c].seen = remoteObs[FirstLsRemote].oid]
  <2> DEFINE oid == remoteObs[FirstLsRemote].oid
             m == [call[c] EXCEPT !.pc = "compare", !.ls = FirstLsRemote, !.seen = oid]
  <2>1. oid \in carried /\ oid \in {"null"} \cup Branch /\ FirstLsRemote \in Nat
    BY <1>6, LsRowIsTrue
  <2>2. call' = [call EXCEPT ![c] = m] BY <1>6, <1>1
  <2> HIDE DEF oid
  <2>3. m \in Locals /\ m.pc = "compare" /\ m.seen = oid BY <2>1, <1>1 DEF Locals, Pcs
  <2> HIDE DEF m
  <2>4. call'[c].pc = "compare" /\ call'[c].seen = oid /\ call' \in [Callers -> Locals]
        /\ \A d \in Callers \ {c} : call'[d] = call[d]
    BY <2>2, <2>3, <1>1, OneMoves
  <2>5. CallTrue(call[c])' BY <2>1, <2>4, <1>2 DEF CallTrue, remote
  <2> QED BY <1>1, <1>2, <2>4, <2>5, LocalPreserves
<1> QED BY <1>3, <1>4, <1>5, <1>6 DEF ResumePush

\* ls-remote and gh pr view are answered with what is there.
LEMMA ObservingSteps ==
  ASSUME DeliveryInv, NEW c \in Callers,
         ExecuteLsRemote(c) \/ CompareObserved(c) \/ FindPull(c) \/ QueryPull(c)
  PROVE  DeliveryInv'
<1>1. /\ call \in [Callers -> Locals] /\ call[c] \in Locals /\ CallTrue(call[c])
      /\ calls \in 0 .. MaxCalls /\ remoteObs \in Seq(RemoteObservation)
      /\ prObs \in Seq(PrObservation) /\ pulls \in Seq(Pull)
      /\ branch \in Branch /\ branch \in carried /\ RowsTrue
  BY DEF DeliveryInv, Typed, RowsTrue
<1>2. UNCHANGED <<remote, store, calls, moves>>
  BY DEF ExecuteLsRemote, CompareObserved, FindPull, QueryPull
<1>3. ASSUME PullFails(c) PROVE DeliveryInv'
  <2>1. call'[c].pc = "pull_failed" /\ call' \in [Callers -> Locals]
        /\ \A d \in Callers \ {c} : call'[d] = call[d]
    BY <1>1, <1>3, PullFailsMoves
  <2>2. CallTrue(call[c])' BY <2>1 DEF CallTrue
  <2> QED BY <1>1, <1>2, <2>1, <2>2, LocalPreserves
<1>4. CASE ExecuteLsRemote(c)
  <2>1. CASE PushFails(c, "infrastructure_error")
    BY <1>2, <2>1, PushFailsStep DEF Statuses, Outcomes
  <2>2. CASE call' = [call EXCEPT ![c].pc = "record_ls", ![c].seen = branch,
                                  ![c].seq = Len(remoteObs) + 1]
    <3> DEFINE m == [call[c] EXCEPT !.pc = "record_ls", !.seen = branch,
                                    !.seq = Len(remoteObs) + 1]
    <3>1. Len(remoteObs) + 1 \in Nat BY <1>1
    <3>2. m \in Locals /\ m.pc = "record_ls" /\ m.seen = branch
      BY <3>1, <1>1 DEF Locals, Pcs
    <3>3. call' = [call EXCEPT ![c] = m] BY <2>2, <1>1
    <3> HIDE DEF m
    <3>4. call'[c].pc = "record_ls" /\ call'[c].seen = branch
          /\ call' \in [Callers -> Locals]
          /\ \A d \in Callers \ {c} : call'[d] = call[d]
      BY <3>2, <3>3, <1>1, OneMoves
    <3>5. CallTrue(call[c])' BY <3>4, <1>1, <1>2 DEF CallTrue, remote
    <3> QED BY <1>1, <1>2, <3>4, <3>5, LocalPreserves
  <2> QED BY <1>4, <2>1, <2>2 DEF ExecuteLsRemote
<1>5. CASE CompareObserved(c)
  <2>1. CASE Goto(c, "find_pull") BY <1>2, <2>1, QuietStep DEF Quiet, Pcs
  <2>2. CASE PushFails(c, "mismatch") BY <1>2, <2>2, PushFailsStep DEF Statuses
  <2> QED BY <1>5, <2>1, <2>2 DEF CompareObserved
<1>6. CASE FindPull(c)
  <2>1. ASSUME NEW n \in 1 .. Len(pulls), NEW k \in {0, 1},
               call' = [call EXCEPT ![c].pc = "query_pull", ![c].pull = n, ![c].seq = k]
        PROVE  DeliveryInv'
    <3> DEFINE m == [call[c] EXCEPT !.pc = "query_pull", !.pull = n, !.seq = k]
    <3>1. n \in Nat /\ k \in Nat BY <1>1
    <3>2. m \in Locals /\ m.pc = "query_pull" /\ m.pull = n
      BY <3>1, <1>1 DEF Locals, Pcs
    <3>3. call' = [call EXCEPT ![c] = m] BY <2>1, <1>1
    <3> HIDE DEF m
    <3>4. call'[c].pc = "query_pull" /\ call'[c].pull = n /\ call' \in [Callers -> Locals]
          /\ \A d \in Callers \ {c} : call'[d] = call[d]
      BY <3>2, <3>3, <1>1, OneMoves
    <3>5. pulls' = pulls BY <1>2 DEF remote
    <3>6. CallTrue(call[c])' BY <3>4, <3>5 DEF CallTrue
    <3> QED BY <1>1, <1>2, <3>4, <3>6, LocalPreserves
  <2>2. CASE FirstLsRemote = 0 \/ remoteObs[FirstLsRemote].oid # "commit"
    BY <1>3, <1>6, <2>2 DEF FindPull
  <2>3. CASE FirstLsRemote # 0 /\ remoteObs[FirstLsRemote].oid = "commit" /\ prObs # <<>>
    <3>1. Len(prObs) \in 1 .. Len(prObs) BY <1>1, <2>3
    <3>2. Last(prObs).number \in 1 .. Len(pulls) BY <3>1, <1>1 DEF RowsTrue, Last
    <3>3. call' = [call EXCEPT ![c].pc = "query_pull", ![c].pull = Last(prObs).number,
                               ![c].seq = 0]
      BY <1>6, <2>3 DEF FindPull
    <3> QED BY <3>2, <3>3, <2>1
  <2>4. CASE FirstLsRemote # 0 /\ remoteObs[FirstLsRemote].oid = "commit" /\ prObs = <<>>
    <3>1. \/ \E n \in OpenPulls :
               call' = [call EXCEPT ![c].pc = "query_pull", ![c].pull = n, ![c].seq = 1]
          \/ Goto(c, "create_pull")
      BY <1>6, <2>4 DEF FindPull
    <3>2. OpenPulls \subseteq 1 .. Len(pulls) BY <1>1 DEF OpenPulls
    <3>3. CASE Goto(c, "create_pull")
      <4>1. "commit" \in carried BY <2>4, LsRowIsTrue
      <4>2. call'[c].pc = "create_pull" /\ call' \in [Callers -> Locals]
            /\ \A d \in Callers \ {c} : call'[d] = call[d]
        BY <1>1, <3>3, GotoMoves DEF Pcs
      <4>3. CallTrue(call[c])' BY <4>1, <4>2, <1>2 DEF CallTrue, remote
      <4> QED BY <1>1, <1>2, <4>2, <4>3, LocalPreserves
    <3> QED BY <3>1, <3>2, <3>3, <2>1
  <2> QED BY <2>2, <2>3, <2>4
<1>7. CASE QueryPull(c)
  <2>1. CASE PullFails(c) BY <2>1, <1>3
  <2> DEFINE seen == pulls[call[c].pull].head
             pc == IF call[c].seq = 0 THEN "delivered" ELSE "record_pull"
             m == [call[c] EXCEPT !.seen = seen, !.status = "verified", !.pc = pc]
  <2>2. CASE call' = [call EXCEPT ![c].seen = seen, ![c].status = "verified", ![c].pc = pc]
    <3>1. call[c].pull \in 1 .. Len(pulls) BY <1>1, <1>7 DEF QueryPull, CallTrue
    <3>2. seen \in Branch
      <4>1. pulls[call[c].pull] \in Pull BY <3>1, <1>1
      <4> QED BY <4>1 DEF Pull
    <3>3. pc \in {"delivered", "record_pull"} OBVIOUS
    <3>4. call' = [call EXCEPT ![c] = m] BY <2>2, <1>1
    <3> HIDE DEF seen, pc
    <3>5. m \in Locals /\ m.pc = pc /\ m.pull = call[c].pull
      BY <3>2, <3>3, <1>1 DEF Locals, Pcs, Statuses
    <3> HIDE DEF m
    <3>6. call'[c].pc = pc /\ call'[c].pull = call[c].pull /\ call' \in [Callers -> Locals]
          /\ \A d \in Callers \ {c} : call'[d] = call[d]
      BY <3>4, <3>5, <1>1, OneMoves
    <3>7. pulls' = pulls BY <1>2 DEF remote
    <3>8. CallTrue(call[c])' BY <3>1, <3>3, <3>6, <3>7 DEF CallTrue
    <3> QED BY <1>1, <1>2, <3>6, <3>8, LocalPreserves
  <2> QED BY <1>7, <2>1, <2>2 DEF QueryPull
<1> QED BY <1>4, <1>5, <1>6, <1>7

\* The branch moves: the history grows, and the pull requests stay as many and
\* as they are typed.
LEMMA BranchMovesKeeps ==
  ASSUME NEW new \in Branch, carried \subseteq Branch, pulls \in Seq(Pull),
         BranchMoves(new)
  PROVE  /\ branch' \in Branch /\ branch' \in carried'
         /\ carried' \subseteq Branch /\ carried \subseteq carried' /\ new \in carried'
         /\ pulls' \in Seq(Pull) /\ Len(pulls') = Len(pulls)
<1> DEFINE f(n) == IF ~pulls[n].open THEN pulls[n]
                   ELSE IF new = "absent" THEN [pulls[n] EXCEPT !.open = FALSE]
                   ELSE [pulls[n] EXCEPT !.head = new]
<1>1. Len(pulls) \in Nat /\ DOMAIN pulls = 1 .. Len(pulls) OBVIOUS
<1>2. ASSUME NEW n \in 1 .. Len(pulls) PROVE f(n) \in Pull
  <2>1. pulls[n] \in Pull OBVIOUS
  <2> QED BY <2>1 DEF Pull
<1>3. pulls' = [n \in 1 .. Len(pulls) |-> f(n)] BY <1>1 DEF BranchMoves
<1> HIDE DEF f
<1>4. pulls' \in Seq(Pull) /\ Len(pulls') = Len(pulls) BY <1>1, <1>2, <1>3
<1> QED BY <1>4 DEF BranchMoves

\* The rows speak of the history, so they stay true while it grows.
LEMMA WorldPreserves ==
  ASSUME DeliveryInv, UNCHANGED store, inFlight' \in Nat, branch' \in Branch,
         branch' \in carried', carried' \subseteq Branch, carried \subseteq carried',
         pulls' \in Seq(Pull), Len(pulls') >= Len(pulls),
         pulls' = <<>> \/ pulls # <<>> \/ "commit" \in carried',
         call' \in [Callers -> Locals], (\A d \in Callers : CallTrue(call[d]))',
         calls' \in 0 .. MaxCalls, moves' \in 0 .. MaxMoves
  PROVE  DeliveryInv'
<1>1. Typed' BY DEF DeliveryInv, Typed, store
<1>2. remoteObs' = remoteObs /\ prObs' = prObs BY DEF store
<1>3. prObs \in Seq(PrObservation) /\ pulls \in Seq(Pull) BY DEF DeliveryInv, Typed
<1>4. RecordsAreTrue' BY <1>2 DEF DeliveryInv, RowsTrue, RecordsAreTrue
<1>5. \A i \in 1 .. Len(prObs) : prObs[i].number \in 1 .. Len(pulls')
  BY <1>3 DEF DeliveryInv, RowsTrue
<1>6. RowsTrue' BY <1>2, <1>4, <1>5 DEF RowsTrue
<1> QED BY <1>1, <1>6 DEF DeliveryInv

\* Others move the branch, and a push whose client was killed arrives late.
LEMMA RemoteSteps == ASSUME DeliveryInv, ForeignMove \/ LatePush PROVE DeliveryInv'
<1>1. /\ call \in [Callers -> Locals] /\ calls \in 0 .. MaxCalls /\ moves \in 0 .. MaxMoves
      /\ branch \in Branch /\ carried \subseteq Branch /\ pulls \in Seq(Pull)
      /\ inFlight \in Nat /\ branch \in carried
      /\ \A d \in Callers : CallTrue(call[d])
  BY DEF DeliveryInv, Typed, RowsTrue
<1>2. UNCHANGED <<store, call, calls>> BY DEF ForeignMove, LatePush
<1>3. inFlight' \in Nat BY <1>1 DEF ForeignMove, LatePush
<1>4. moves' \in 0 .. MaxMoves
  <2>1. moves' = moves \/ (moves < MaxMoves /\ moves' = moves + 1)
    BY DEF ForeignMove, LatePush
  <2> QED BY <2>1, <1>1, DeliveryAssumption
<1>5. /\ branch' \in Branch /\ branch' \in carried'
      /\ carried' \subseteq Branch /\ carried \subseteq carried'
      /\ pulls' \in Seq(Pull) /\ Len(pulls') = Len(pulls)
  <2>1. (\E new \in Branch : BranchMoves(new)) \/ UNCHANGED <<branch, carried, pulls>>
    BY DEF ForeignMove, LatePush, Branch
  <2>2. CASE UNCHANGED <<branch, carried, pulls>> BY <1>1, <2>2
  <2>3. ASSUME NEW new \in Branch, BranchMoves(new) PROVE <1>5!:
    BY <1>1, <2>3, BranchMovesKeeps
  <2> QED BY <2>1, <2>2, <2>3
<1>6. pulls' = <<>> \/ pulls # <<>> BY <1>1, <1>5
<1>7. (\A d \in Callers : CallTrue(call[d]))' BY <1>1, <1>2, <1>5 DEF CallTrue
<1>8. call' \in [Callers -> Locals] /\ calls' \in 0 .. MaxCalls BY <1>1, <1>2
<1>9. UNCHANGED store BY <1>2
<1>10. Len(pulls') >= Len(pulls) BY <1>1, <1>5
<1> QED BY <1>3, <1>4, <1>5, <1>6, <1>7, <1>8, <1>9, <1>10, WorldPreserves

\* A push that is answered "pushed" has put the commit on the branch.
LEMMA PushStep == ASSUME DeliveryInv, NEW c \in Callers, ExecutePush(c) PROVE DeliveryInv'
<1>1. /\ call \in [Callers -> Locals] /\ calls \in 0 .. MaxCalls /\ moves \in 0 .. MaxMoves
      /\ call[c] \in Locals /\ inFlight \in Nat
      /\ branch \in Branch /\ carried \subseteq Branch /\ pulls \in Seq(Pull)
      /\ branch \in carried
  BY DEF DeliveryInv, Typed, RowsTrue
<1>2. UNCHANGED <<store, calls, moves>> BY DEF ExecutePush
<1>3. PICK outcome \in Outcomes :
        call' = [call EXCEPT ![c].pc = "record_push", ![c].outcome = outcome]
  BY DEF ExecutePush, Outcomes, TimeoutOutcome
<1> DEFINE m == [call[c] EXCEPT !.pc = "record_push", !.outcome = outcome]
<1>4. m \in Locals /\ m.pc = "record_push" /\ m.outcome = outcome
  BY <1>1 DEF Locals, Pcs
<1>5. call' = [call EXCEPT ![c] = m] BY <1>3, <1>1
<1> HIDE DEF m
<1>6. call'[c] = m /\ call' \in [Callers -> Locals]
      /\ \A d \in Callers \ {c} : call'[d] = call[d]
  BY <1>1, <1>4, <1>5, OneMoves
<1>7. /\ inFlight' \in Nat /\ branch' \in Branch /\ branch' \in carried'
      /\ carried' \subseteq Branch /\ carried \subseteq carried'
      /\ pulls' \in Seq(Pull) /\ Len(pulls') = Len(pulls)
  <2>1. BranchMoves("commit") \/ UNCHANGED <<branch, carried, pulls>>
    BY DEF ExecutePush, remote
  <2>2. CASE UNCHANGED <<branch, carried, pulls>> BY <1>1, <2>2 DEF ExecutePush, remote
  <2>3. CASE BranchMoves("commit")
    <3>1. inFlight' \in Nat BY <1>1 DEF ExecutePush, remote
    <3> QED BY <1>1, <2>3, <3>1, BranchMovesKeeps DEF Branch
  <2> QED BY <2>1, <2>2, <2>3
<1>8. outcome = "pushed" => "commit" \in carried'
  <2>1. ASSUME outcome = "pushed" PROVE BranchMoves("commit")
    <3>1. call'[c].outcome = "pushed" BY <1>4, <1>6, <2>1
    <3>2. ASSUME NEW o, call' = [call EXCEPT ![c].pc = "record_push", ![c].outcome = o]
          PROVE  o = "pushed"
      <4>1. call'[c] = [call[c] EXCEPT !.pc = "record_push", !.outcome = o]
        BY <3>2, <1>1
      <4> QED BY <4>1, <3>1, <1>1 DEF Locals
    <3> QED BY <3>2 DEF ExecutePush, TimeoutOutcome
  <2> QED BY <2>1, <1>1, BranchMovesKeeps DEF Branch
<1>9. CallTrue(call[c])' BY <1>4, <1>6, <1>8 DEF CallTrue
<1>10. pulls' = <<>> \/ pulls # <<>> BY <1>1, <1>7
<1>11. Len(pulls') >= Len(pulls) /\ 1 .. Len(pulls) \subseteq 1 .. Len(pulls')
  BY <1>1, <1>7
<1>12. (\A d \in Callers : CallTrue(call[d]))'
  BY <1>6, <1>7, <1>9, <1>11, OthersStayTrue
<1>13. UNCHANGED store /\ calls' \in 0 .. MaxCalls /\ moves' \in 0 .. MaxMoves
  BY <1>1, <1>2
<1> QED BY <1>6, <1>7, <1>10, <1>11, <1>12, <1>13, WorldPreserves

\* gh pr create is asked only once the branch has carried the commit.
LEMMA CreatePullStep ==
  ASSUME DeliveryInv, NEW c \in Callers, CreatePull(c)
  PROVE  DeliveryInv'
<1>1. /\ call \in [Callers -> Locals] /\ calls \in 0 .. MaxCalls /\ moves \in 0 .. MaxMoves
      /\ call[c] \in Locals /\ inFlight \in Nat /\ CallTrue(call[c])
      /\ branch \in Branch /\ carried \subseteq Branch /\ pulls \in Seq(Pull)
      /\ branch \in carried
  BY DEF DeliveryInv, Typed, RowsTrue
<1>2. UNCHANGED <<branch, carried, inFlight, store, calls, moves>> BY DEF CreatePull
<1>3. "commit" \in carried BY <1>1 DEF CreatePull, CallTrue
<1>4. pulls' \in Seq(Pull) /\ Len(pulls') \in {Len(pulls), Len(pulls) + 1}
  <2>1. CASE pulls' = pulls BY <1>1, <2>1
  <2>2. CASE pulls' = Append(pulls, [open |-> TRUE, head |-> branch])
    <3>1. [open |-> TRUE, head |-> branch] \in Pull BY <1>1 DEF Pull
    <3> QED BY <3>1, <2>2, <1>1
  <2> QED BY <2>1, <2>2 DEF CreatePull
<1>5. Len(pulls') >= Len(pulls) /\ 1 .. Len(pulls) \subseteq 1 .. Len(pulls')
  BY <1>1, <1>4
<1>6. /\ call' \in [Callers -> Locals] /\ CallTrue(call[c])'
      /\ \A d \in Callers \ {c} : call'[d] = call[d]
  <2>1. CASE PullFails(c)
    <3>1. call'[c].pc = "pull_failed" /\ call' \in [Callers -> Locals]
          /\ \A d \in Callers \ {c} : call'[d] = call[d]
      BY <1>1, <2>1, PullFailsMoves
    <3> QED BY <3>1 DEF CallTrue
  <2>2. CASE /\ pulls' = Append(pulls, [open |-> TRUE, head |-> branch])
             /\ call' = [call EXCEPT ![c].pc = "query_pull", ![c].seq = 1,
                                     ![c].pull = Len(pulls) + 1]
    <3> DEFINE n == Len(pulls) + 1
               m == [call[c] EXCEPT !.pc = "query_pull", !.seq = 1, !.pull = n]
    <3>1. n \in Nat /\ n \in 1 .. Len(pulls') BY <1>1, <2>2
    <3>2. call' = [call EXCEPT ![c] = m] BY <2>2, <1>1
    <3> HIDE DEF n
    <3>3. m \in Locals /\ m.pc = "query_pull" /\ m.pull = n
      BY <3>1, <1>1 DEF Locals, Pcs
    <3> HIDE DEF m
    <3>4. call'[c] = m /\ call' \in [Callers -> Locals]
          /\ \A d \in Callers \ {c} : call'[d] = call[d]
      BY <1>1, <3>2, <3>3, OneMoves
    <3> QED BY <3>1, <3>3, <3>4 DEF CallTrue
  <2> QED BY <2>1, <2>2 DEF CreatePull
<1>7. (\A d \in Callers : CallTrue(call[d]))'
  BY <1>2, <1>5, <1>6, OthersStayTrue
<1>8. /\ UNCHANGED store /\ calls' \in 0 .. MaxCalls /\ moves' \in 0 .. MaxMoves
      /\ inFlight' \in Nat /\ branch' \in Branch /\ branch' \in carried'
      /\ carried' \subseteq Branch /\ carried \subseteq carried' /\ "commit" \in carried'
  BY <1>1, <1>2, <1>3
<1> QED BY <1>4, <1>5, <1>6, <1>7, <1>8, WorldPreserves

\* A step of a caller that writes rows and leaves the remote alone.
LEMMA RowsPreserve ==
  ASSUME DeliveryInv, NEW c \in Callers, UNCHANGED <<remote, calls, moves>>,
         run' \in {"ready_for_delivery", "delivered", "delivery_failed"},
         intent' = <<>> \/ \E e \in Expected : intent' = <<e>>,
         remoteObs' \in Seq(RemoteObservation), prObs' \in Seq(PrObservation),
         decision' = <<>> \/ \E d : decision' = <<d>>,
         (decision' = <<>>) <=> (run' = "ready_for_delivery"),
         RowsTrue',
         call' \in [Callers -> Locals], \A d \in Callers \ {c} : call'[d] = call[d],
         CallTrue(call[c])'
  PROVE  DeliveryInv'
<1>1. Typed' BY DEF DeliveryInv, Typed, remote
<1>2. (\A d \in Callers : CallTrue(call[d]))' BY OthersStayTrue DEF remote
<1> QED BY <1>1, <1>2 DEF DeliveryInv

\* The intent and the decision are no claims about the remote.
LEMMA IntentStep == ASSUME DeliveryInv, NEW c \in Callers, CreateIntent(c) PROVE DeliveryInv'
<1>1. Typed /\ RowsTrue /\ call \in [Callers -> Locals] /\ call[c] \in Locals
  BY DEF DeliveryInv, Typed
<1>2. UNCHANGED <<remote, run, remoteObs, prObs, decision, calls, moves>>
  BY DEF CreateIntent
<1>3. RowsTrue' BY <1>1, <1>2 DEF RowsTrue, RecordsAreTrue, remote
<1>4. /\ call' \in [Callers -> Locals] /\ CallTrue(call[c])'
      /\ \A d \in Callers \ {c} : call'[d] = call[d]
  <2>1. CASE Goto(c, "pre_push")
    <3>1. call'[c].pc = "pre_push" /\ call' \in [Callers -> Locals]
          /\ \A d \in Callers \ {c} : call'[d] = call[d]
      BY <1>1, <2>1, GotoMoves DEF Pcs
    <3> QED BY <3>1 DEF CallTrue
  <2>2. CASE PushFails(c, "infrastructure_error")
    <3>1. call'[c].pc = "push_failed" /\ call' \in [Callers -> Locals]
          /\ \A d \in Callers \ {c} : call'[d] = call[d]
      BY <1>1, <2>2, PushFailsMoves DEF Statuses, Outcomes
    <3> QED BY <3>1 DEF CallTrue
  <2> QED BY <2>1, <2>2 DEF CreateIntent
<1>5. intent' = <<>> \/ \E e \in Expected : intent' = <<e>>
  <2>1. call[c].expected \in Expected BY <1>1 DEF Locals
  <2> QED BY <2>1, <1>1 DEF CreateIntent, Typed
<1>6. /\ run' \in {"ready_for_delivery", "delivered", "delivery_failed"}
      /\ remoteObs' \in Seq(RemoteObservation) /\ prObs' \in Seq(PrObservation)
      /\ decision' = <<>> \/ \E d : decision' = <<d>>
      /\ (decision' = <<>>) <=> (run' = "ready_for_delivery")
  BY <1>1, <1>2 DEF Typed
<1>7. UNCHANGED <<remote, calls, moves>> BY <1>2
<1> QED BY <1>3, <1>4, <1>5, <1>6, <1>7, RowsPreserve

\* The decision writes its row and the run's state together.
LEMMA DecisionStep ==
  ASSUME DeliveryInv, NEW c \in Callers, Decision(c)
  PROVE  DeliveryInv'
<1>1. Typed /\ RowsTrue /\ call \in [Callers -> Locals] /\ call[c] \in Locals
  BY DEF DeliveryInv, Typed
<1>2. PICK from \in {"intent_recorded", "remote_observed", "pr_observed"},
           to \in {"delivered", "delivery_failed"} : Decide(c, from, to)
  BY DEF Decision, RecordPushFailure, RecordPullFailure, RecordDelivered
<1>3. UNCHANGED <<remote, intent, remoteObs, prObs, calls, moves>> BY <1>2 DEF Decide
<1>4. RowsTrue' BY <1>1, <1>3 DEF RowsTrue, RecordsAreTrue, remote
<1>5. /\ call' \in [Callers -> Locals] /\ CallTrue(call[c])'
      /\ \A d \in Callers \ {c} : call'[d] = call[d]
  <2> DEFINE m == [Idle EXCEPT !.status = call[c].status]
  <2>1. m \in Locals /\ m.pc = "idle" BY <1>1, IdleType DEF Locals, Idle
  <2>2. call' = [call EXCEPT ![c] = m] BY <1>2 DEF Decide, Ended
  <2> HIDE DEF m
  <2>3. call'[c] = m /\ call' \in [Callers -> Locals]
        /\ \A d \in Callers \ {c} : call'[d] = call[d]
    BY <1>1, <2>1, <2>2, OneMoves
  <2> QED BY <2>1, <2>3 DEF CallTrue
<1>6. /\ run' \in {"ready_for_delivery", "delivered", "delivery_failed"}
      /\ decision' = <<>> \/ \E d : decision' = <<d>>
      /\ (decision' = <<>>) <=> (run' = "ready_for_delivery")
  <2>1. CASE DecisionAccepted(c, from)
    <3>1. decision' = <<[from |-> from, decision |-> to]>> /\ run' = to
      BY <1>2, <2>1 DEF Decide
    <3> QED BY <3>1
  <2>2. CASE ~DecisionAccepted(c, from)
    <3>1. decision' = decision /\ run' = run BY <1>2, <2>2 DEF Decide
    <3> QED BY <3>1, <1>1 DEF Typed
  <2> QED BY <2>1, <2>2
<1>7. /\ intent' = <<>> \/ \E e \in Expected : intent' = <<e>>
      /\ remoteObs' \in Seq(RemoteObservation) /\ prObs' \in Seq(PrObservation)
  BY <1>1, <1>3 DEF Typed
<1>8. UNCHANGED <<remote, calls, moves>> BY <1>3
<1> QED BY <1>4, <1>5, <1>6, <1>7, <1>8, RowsPreserve

\* What RecordRemote does to the rows when the command accepts.
LEMMA RecordRemoteAppends ==
  ASSUME remoteObs \in Seq(RemoteObservation), NEW o \in RemoteObservation, NEW k \in Nat,
         RemoteObservationAccepted(k, o), RecordRemote(k, o)
  PROVE  \/ remoteObs' = remoteObs
         \/ decision = <<>> /\ prObs = <<>> /\ remoteObs' = Append(remoteObs, o)
BY DEF RemoteObservationAccepted, RecordRemote

\* The observations of the remote: what is written was seen.
LEMMA RecordingSteps ==
  ASSUME DeliveryInv, NEW c \in Callers, RecordPush(c) \/ RecordLsRemote(c)
  PROVE  DeliveryInv'
<1>1. /\ Typed /\ RowsTrue /\ RecordsAreTrue
      /\ call \in [Callers -> Locals] /\ call[c] \in Locals
      /\ remoteObs \in Seq(RemoteObservation) /\ CallTrue(call[c])
  BY DEF DeliveryInv, Typed, RowsTrue
<1>2. UNCHANGED <<remote, run, intent, prObs, decision, calls, moves>>
  BY DEF RecordPush, RecordLsRemote
<1> DEFINE p == [operation |-> "push", outcome |-> call[c].outcome, oid |-> "null"]
           l == [operation |-> "ls-remote", outcome |-> "observed", oid |-> call[c].seen]
<1>3. call[c].outcome \in Outcomes /\ call[c].seen \in {"null"} \cup Branch
      /\ call[c].seq \in Nat
  BY <1>1 DEF Locals
<1>4. p \in RemoteObservation /\ l \in RemoteObservation BY <1>3 DEF RemoteObservation
<1>5. \/ remoteObs' = remoteObs
      \/ RecordPush(c) /\ remoteObs' = Append(remoteObs, p)
      \/ RecordLsRemote(c) /\ remoteObs' = Append(remoteObs, l)
  <2>1. CASE RecordPush(c)
    <3>1. \/ remoteObs' = remoteObs
          \/ RemoteObservationAccepted(call[c].seq, p) /\ RecordRemote(call[c].seq, p)
      BY <2>1 DEF RecordPush
    <3> QED BY <3>1, <2>1, <1>1, <1>3, <1>4, RecordRemoteAppends
  <2>2. CASE RecordLsRemote(c)
    <3>1. \/ remoteObs' = remoteObs
          \/ RemoteObservationAccepted(call[c].seq, l) /\ RecordRemote(call[c].seq, l)
      BY <2>2 DEF RecordLsRemote
    <3> QED BY <3>1, <2>2, <1>1, <1>3, <1>4, RecordRemoteAppends
  <2> QED BY <2>1, <2>2
<1>6. RowsTrue'
  <2>1. ASSUME NEW o \in RemoteObservation, remoteObs' = Append(remoteObs, o),
               o.outcome = "pushed" => "commit" \in carried,
               o.oid # "null" => o.oid \in carried
        PROVE  RowsTrue'
    <3>1. ASSUME NEW i \in DOMAIN remoteObs'
          PROVE  /\ remoteObs'[i].outcome = "pushed" => "commit" \in carried
                 /\ remoteObs'[i].oid # "null" => remoteObs'[i].oid \in carried
      <4>1. i = Len(remoteObs) + 1 \/ i \in 1 .. Len(remoteObs) BY <1>1, <2>1
      <4>2. CASE i = Len(remoteObs) + 1
        <5>1. remoteObs'[i] = o BY <4>2, <2>1, <1>1
        <5> QED BY <5>1, <2>1
      <4>3. CASE i \in 1 .. Len(remoteObs)
        <5>1. remoteObs'[i] = remoteObs[i] /\ i \in DOMAIN remoteObs BY <4>3, <2>1, <1>1
        <5> QED BY <5>1, <1>1 DEF RecordsAreTrue
      <4> QED BY <4>1, <4>2, <4>3
    <3> QED BY <3>1, <1>1, <1>2 DEF RowsTrue, RecordsAreTrue, remote
  <2>2. CASE remoteObs' = remoteObs
    BY <2>2, <1>1, <1>2 DEF RowsTrue, RecordsAreTrue, remote
  <2>3. CASE RecordPush(c) /\ remoteObs' = Append(remoteObs, p)
    <3>1. p.outcome = "pushed" => "commit" \in carried
      BY <2>3, <1>1 DEF RecordPush, CallTrue
    <3>2. p.oid = "null" OBVIOUS
    <3> HIDE DEF p
    <3> QED BY <2>1, <2>3, <1>4, <3>1, <3>2
  <2>4. CASE RecordLsRemote(c) /\ remoteObs' = Append(remoteObs, l)
    <3>1. l.oid \in carried BY <2>4, <1>1 DEF RecordLsRemote, CallTrue
    <3>2. l.outcome # "pushed" OBVIOUS
    <3> HIDE DEF l
    <3> QED BY <2>1, <2>4, <1>4, <3>1, <3>2
  <2> QED BY <1>5, <2>2, <2>3, <2>4
<1>7. remoteObs' \in Seq(RemoteObservation)
  <2> HIDE DEF p, l
  <2> QED BY <1>1, <1>4, <1>5
<1>8. /\ call' \in [Callers -> Locals] /\ CallTrue(call[c])'
      /\ \A d \in Callers \ {c} : call'[d] = call[d]
  <2>1. CASE Goto(c, "ls_remote")
    <3>1. call'[c].pc = "ls_remote" /\ call' \in [Callers -> Locals]
          /\ \A d \in Callers \ {c} : call'[d] = call[d]
      BY <1>1, <2>1, GotoMoves DEF Pcs
    <3> QED BY <3>1 DEF CallTrue
  <2>2. ASSUME NEW s \in Statuses, PushFails(c, s) PROVE <1>8!:
    <3>1. call'[c].pc = "push_failed" /\ call' \in [Callers -> Locals]
          /\ \A d \in Callers \ {c} : call'[d] = call[d]
      BY <1>1, <2>2, PushFailsMoves
    <3> QED BY <3>1 DEF CallTrue
  <2>3. CASE /\ RecordLsRemote(c)
             /\ call' = [call EXCEPT ![c].pc = "compare", ![c].ls = call[c].seq]
    <3> DEFINE m == [call[c] EXCEPT !.pc = "compare", !.ls = call[c].seq]
    <3>1. m \in Locals /\ m.pc = "compare" /\ m.seen = call[c].seen
      BY <1>1, <1>3 DEF Locals, Pcs
    <3>2. call' = [call EXCEPT ![c] = m] BY <2>3, <1>1
    <3> HIDE DEF m
    <3>3. call'[c] = m /\ call' \in [Callers -> Locals]
          /\ \A d \in Callers \ {c} : call'[d] = call[d]
      BY <1>1, <3>1, <3>2, OneMoves
    <3>4. call[c].seen \in carried BY <2>3, <1>1 DEF RecordLsRemote, CallTrue
    <3> QED BY <3>1, <3>3, <3>4, <1>2 DEF CallTrue, remote
  <2>4. call[c].outcome \in Statuses /\ "infrastructure_error" \in Statuses
    BY <1>3 DEF Statuses, Outcomes
  <2> QED BY <2>1, <2>2, <2>3, <2>4 DEF RecordPush, RecordLsRemote
<1>9. /\ run' \in {"ready_for_delivery", "delivered", "delivery_failed"}
      /\ intent' = <<>> \/ \E e \in Expected : intent' = <<e>>
      /\ prObs' \in Seq(PrObservation)
      /\ decision' = <<>> \/ \E d : decision' = <<d>>
      /\ (decision' = <<>>) <=> (run' = "ready_for_delivery")
      /\ UNCHANGED <<remote, calls, moves>>
  BY <1>1, <1>2 DEF Typed
<1> QED BY <1>6, <1>7, <1>8, <1>9, RowsPreserve

\* A pull request is recorded with the head its branch was observed at, and
\* under the number the provider gave.
LEMMA RecordPullAppends ==
  ASSUME DeliveryInv, NEW c \in Callers, RecordPull(c), prObs' # prObs
  PROVE  /\ decision = <<>> /\ remoteObs # <<>> /\ Last(remoteObs).oid = "commit"
         /\ \E o \in PrObservation : /\ o.head = "commit" /\ o.number \in 1 .. Len(pulls)
                                     /\ prObs' = Append(prObs, o)
<1> DEFINE o == [number |-> call[c].pull, head |-> call[c].seen]
<1>1. call[c] \in Locals /\ CallTrue(call[c]) /\ pulls \in Seq(Pull)
      /\ prObs \in Seq(PrObservation)
  BY DEF DeliveryInv, Typed
<1>3. /\ PrObservationAccepted(call[c].seq, o) /\ call[c].pc = "record_pull"
      /\ ~(call[c].seq <= Len(prObs)) /\ prObs' = Append(prObs, o)
  BY DEF RecordPull
<1>4. call[c].pull \in 1 .. Len(pulls) BY <1>1, <1>3 DEF CallTrue
<1>5. /\ decision = <<>> /\ remoteObs # <<>> /\ Last(remoteObs).oid = "commit"
      /\ o.head = "commit"
  BY <1>3 DEF PrObservationAccepted
<1>6. o \in PrObservation /\ o.number \in 1 .. Len(pulls)
  BY <1>1, <1>4, <1>5 DEF PrObservation, Branch
<1> HIDE DEF o
<1> QED BY <1>3, <1>5, <1>6

\* A row that ends with an observation of the commit.
LEMMA LastRowObserves ==
  ASSUME remoteObs \in Seq(RemoteObservation), remoteObs # <<>>,
         Last(remoteObs).oid = "commit"
  PROVE  Observed
<1>1. Len(remoteObs) \in DOMAIN remoteObs OBVIOUS
<1> QED BY <1>1 DEF Last, Observed

\* Recording the pull request keeps the rows true.
LEMMA RecordPullStep ==
  ASSUME DeliveryInv, NEW c \in Callers, RecordPull(c)
  PROVE  DeliveryInv'
<1>1. /\ Typed /\ RowsTrue /\ RecordsAreTrue
      /\ call \in [Callers -> Locals] /\ call[c] \in Locals
      /\ remoteObs \in Seq(RemoteObservation) /\ prObs \in Seq(PrObservation)
  BY DEF DeliveryInv, Typed, RowsTrue
<1>2. UNCHANGED <<remote, run, intent, remoteObs, decision, calls, moves>>
  BY DEF RecordPull
<1>3. /\ call' \in [Callers -> Locals] /\ CallTrue(call[c])'
      /\ \A d \in Callers \ {c} : call'[d] = call[d]
  <2>1. CASE Goto(c, "delivered")
    <3>1. call'[c].pc = "delivered" /\ call' \in [Callers -> Locals]
          /\ \A d \in Callers \ {c} : call'[d] = call[d]
      BY <1>1, <2>1, GotoMoves DEF Pcs
    <3> QED BY <3>1 DEF CallTrue
  <2>2. CASE PullFails(c)
    <3>1. call'[c].pc = "pull_failed" /\ call' \in [Callers -> Locals]
          /\ \A d \in Callers \ {c} : call'[d] = call[d]
      BY <1>1, <2>2, PullFailsMoves
    <3> QED BY <3>1 DEF CallTrue
  <2> QED BY <2>1, <2>2 DEF RecordPull
<1>4. prObs' \in Seq(PrObservation) /\ RowsTrue'
  <2>1. CASE prObs' = prObs BY <2>1, <1>1, <1>2 DEF RowsTrue, RecordsAreTrue, remote
  <2>2. CASE prObs' # prObs
    <3>1. PICK o \in PrObservation : /\ o.head = "commit" /\ o.number \in 1 .. Len(pulls)
                                     /\ prObs' = Append(prObs, o)
      BY <2>2, RecordPullAppends
    <3>2. Observed BY <2>2, <1>1, RecordPullAppends, LastRowObserves
    <3>3. "commit" \in carried BY <3>2, <1>1 DEF Observed, RecordsAreTrue
    <3>4. prObs' \in Seq(PrObservation) BY <3>1, <1>1
    <3>5. ASSUME NEW i \in DOMAIN prObs'
          PROVE  prObs'[i].head \in carried /\ prObs'[i].number \in 1 .. Len(pulls)
      <4>1. i = Len(prObs) + 1 \/ i \in 1 .. Len(prObs) BY <1>1, <3>1
      <4>2. CASE i = Len(prObs) + 1
        <5>1. prObs'[i] = o BY <4>2, <3>1, <1>1
        <5> QED BY <5>1, <3>1, <3>3
      <4>3. CASE i \in 1 .. Len(prObs)
        <5>1. prObs'[i] = prObs[i] /\ i \in DOMAIN prObs BY <4>3, <3>1, <1>1
        <5> QED BY <5>1, <4>3, <1>1 DEF RowsTrue, RecordsAreTrue
      <4> QED BY <4>1, <4>2, <4>3
    <3>6. DOMAIN prObs' = 1 .. Len(prObs') BY <3>4
    <3> QED BY <3>3, <3>4, <3>5, <3>6, <1>1, <1>2 DEF RowsTrue, RecordsAreTrue, remote
  <2> QED BY <2>1, <2>2
<1>5. /\ run' \in {"ready_for_delivery", "delivered", "delivery_failed"}
      /\ intent' = <<>> \/ \E e \in Expected : intent' = <<e>>
      /\ remoteObs' \in Seq(RemoteObservation)
      /\ decision' = <<>> \/ \E d : decision' = <<d>>
      /\ (decision' = <<>>) <=> (run' = "ready_for_delivery")
      /\ UNCHANGED <<remote, calls, moves>>
  BY <1>1, <1>2 DEF Typed
<1> QED BY <1>3, <1>4, <1>5, RowsPreserve

-----------------------------------------------------------------------------
(* The theorems.                                                           *)

\* Every step preserves the invariant.
LEMMA DeliveryInvStep == DeliveryInv /\ [Next]_vars => DeliveryInv'
<1> SUFFICES ASSUME DeliveryInv, [Next]_vars PROVE DeliveryInv' OBVIOUS
<1>1. CASE ForeignMove \/ LatePush BY <1>1, RemoteSteps
<1>2. ASSUME NEW c \in Callers, Push(c) PROVE DeliveryInv'
  BY <1>2, FirstSteps, IntentStep, ResumeStep, PushStep, RecordingSteps, ObservingSteps
     DEF Push
<1>3. ASSUME NEW c \in Callers, PullRequest(c) PROVE DeliveryInv'
  BY <1>3, ObservingSteps, CreatePullStep, RecordPullStep DEF PullRequest
<1>4. ASSUME NEW c \in Callers, Decision(c) PROVE DeliveryInv' BY <1>4, DecisionStep
<1>5. ASSUME NEW c \in Callers, Crash(c) PROVE DeliveryInv' BY <1>5, FirstSteps
<1>6. CASE UNCHANGED vars
  BY <1>6 DEF vars, remote, store, DeliveryInv, Typed, RowsTrue, RecordsAreTrue, CallTrue
<1> QED BY <1>1, <1>2, <1>3, <1>4, <1>5, <1>6 DEF Next

\* DeliveryInv holds in every state.
LEMMA DeliveryInvAlways == Spec => []DeliveryInv
BY DeliveryInvInit, DeliveryInvStep, PTL DEF Spec

\* DeliveryTypeOK: types, at most one intent and one decision, and the decision
\* exactly when the run has left ready_for_delivery.
THEOREM DeliveryTypes == Spec => []DeliveryTypeOK
<1>1. DeliveryInv => DeliveryTypeOK
  <2> SUFFICES ASSUME DeliveryInv PROVE DeliveryTypeOK OBVIOUS
  <2>1. Typed /\ RowsTrue BY DEF DeliveryInv
  <2>2. \A n \in DOMAIN pulls : pulls[n] \in [open : BOOLEAN, head : Branch]
    <3>1. pulls \in Seq(Pull) BY <2>1 DEF Typed
    <3>2. \A n \in DOMAIN pulls : pulls[n] \in Pull BY <3>1
    <3> QED BY <3>2 DEF Pull
  <2>3. Len(intent) <= 1 /\ \A i \in DOMAIN intent : intent[i] \in Expected
    <3>1. CASE intent = <<>> BY <3>1
    <3>2. ASSUME NEW e \in Expected, intent = <<e>> PROVE <2>3!: BY <3>2
    <3> QED BY <2>1, <3>1, <3>2 DEF Typed
  <2>4. \A i \in DOMAIN remoteObs : remoteObs[i] \in RemoteObservation
    <3>1. remoteObs \in Seq(RemoteObservation) BY <2>1 DEF Typed
    <3> QED BY <3>1
  <2>5. \A i \in DOMAIN prObs : prObs[i].number \in DOMAIN pulls
    BY <2>1 DEF Typed, RowsTrue
  <2>6. Len(decision) <= 1
    <3>1. CASE decision = <<>> BY <3>1
    <3>2. ASSUME NEW d, decision = <<d>> PROVE Len(decision) <= 1 BY <3>2
    <3> QED BY <2>1, <3>1, <3>2 DEF Typed
  <2> QED BY <2>1, <2>2, <2>3, <2>4, <2>5, <2>6 DEF Typed, DeliveryTypeOK
<1> QED BY <1>1, DeliveryInvAlways, PTL

\* RecordsAreTrue: what the tables say of the remote happened there, although
\* answers are lost, pushes arrive late and others move the branch.
THEOREM RecordsTrue == Spec => []RecordsAreTrue
<1>1. DeliveryInv => RecordsAreTrue BY DEF DeliveryInv, RowsTrue
<1> QED BY <1>1, DeliveryInvAlways, PTL

\* How each kind of step moves the rows: by an appended observation before the
\* decision, by the one decision, or not at all.
RowsStep ==
  \/ UNCHANGED <<remoteObs, prObs, decision, run>>
  \/ /\ decision = <<>> /\ prObs = <<>>
     /\ \E o \in RemoteObservation : /\ remoteObs' = Append(remoteObs, o)
                                     /\ o.oid # "null" => o.oid \in carried
     /\ UNCHANGED <<prObs, decision, run, carried>>
  \/ /\ decision = <<>> /\ Observed
     /\ \E o \in PrObservation : prObs' = Append(prObs, o)
     /\ UNCHANGED <<remoteObs, decision, run, carried>>
  \/ /\ decision = <<>> /\ run = "ready_for_delivery"
     /\ \/ prObs # <<>> /\ run' = "delivered"
        \/ prObs = <<>> /\ run' = "delivery_failed"
     /\ \E d : decision' = <<d>>
     /\ UNCHANGED <<remoteObs, prObs, carried>>

\* Every step is of one of these kinds.
LEMMA RowsMove ==
  ASSUME DeliveryInv, [Next]_vars PROVE RowsStep
<1>1. /\ call \in [Callers -> Locals] /\ remoteObs \in Seq(RemoteObservation)
      /\ \A c \in Callers : call[c] \in Locals /\ CallTrue(call[c])
  BY DEF DeliveryInv, Typed
<1>2. ASSUME NEW c \in Callers, RecordPush(c) PROVE RowsStep
  <2> DEFINE p == [operation |-> "push", outcome |-> call[c].outcome, oid |-> "null"]
  <2>1. call[c].outcome \in Outcomes /\ call[c].seq \in Nat BY <1>1 DEF Locals
  <2>2. p \in RemoteObservation /\ p.oid = "null" BY <2>1 DEF RemoteObservation
  <2>3. UNCHANGED <<prObs, decision, run, carried>> BY <1>2 DEF RecordPush, remote
  <2>4. \/ remoteObs' = remoteObs
        \/ RemoteObservationAccepted(call[c].seq, p) /\ RecordRemote(call[c].seq, p)
    BY <1>2 DEF RecordPush
  <2> HIDE DEF p
  <2> QED BY <2>1, <2>2, <2>3, <2>4, <1>1, RecordRemoteAppends DEF RowsStep
<1>3. ASSUME NEW c \in Callers, RecordLsRemote(c) PROVE RowsStep
  <2> DEFINE l == [operation |-> "ls-remote", outcome |-> "observed", oid |-> call[c].seen]
  <2>1. /\ call[c].seen \in {"null"} \cup Branch /\ call[c].seq \in Nat
        /\ call[c].seen \in carried
    BY <1>1, <1>3 DEF Locals, RecordLsRemote, CallTrue
  <2>2. l \in RemoteObservation /\ l.oid \in carried BY <2>1 DEF RemoteObservation
  <2>3. UNCHANGED <<prObs, decision, run, carried>> BY <1>3 DEF RecordLsRemote, remote
  <2>4. \/ remoteObs' = remoteObs
        \/ RemoteObservationAccepted(call[c].seq, l) /\ RecordRemote(call[c].seq, l)
    BY <1>3 DEF RecordLsRemote
  <2> HIDE DEF l
  <2> QED BY <2>1, <2>2, <2>3, <2>4, <1>1, RecordRemoteAppends DEF RowsStep
<1>4. ASSUME NEW c \in Callers, RecordPull(c) PROVE RowsStep
  <2>1. UNCHANGED <<remoteObs, decision, run, carried>> BY <1>4 DEF RecordPull, remote
  <2>2. CASE prObs' = prObs BY <2>1, <2>2 DEF RowsStep
  <2>3. CASE prObs' # prObs
    BY <1>1, <1>4, <2>1, <2>3, RecordPullAppends, LastRowObserves DEF RowsStep
  <2> QED BY <2>2, <2>3
<1>5. ASSUME NEW c \in Callers, Decision(c) PROVE RowsStep
  <2>1. PICK from \in {"intent_recorded", "remote_observed", "pr_observed"},
             to \in {"delivered", "delivery_failed"} :
          /\ Decide(c, from, to)
          /\ from = "pr_observed" <=> to = "delivered"
    BY <1>5 DEF Decision, RecordPushFailure, RecordPullFailure, RecordDelivered
  <2>2. UNCHANGED <<remoteObs, prObs, carried>> BY <2>1 DEF Decide, remote
  <2>3. CASE ~DecisionAccepted(c, from) BY <2>1, <2>2, <2>3 DEF Decide, RowsStep
  <2>4. CASE DecisionAccepted(c, from)
    <3>1. /\ decision = <<>> /\ run = "ready_for_delivery" /\ ExactStage(c, from)
          /\ run' = to /\ decision' = <<[from |-> from, decision |-> to]>>
      BY <2>1, <2>4 DEF Decide, DecisionAccepted
    <3>2. IF from = "pr_observed" THEN prObs # <<>> ELSE prObs = <<>>
      BY <3>1, <2>1 DEF ExactStage
    <3> QED BY <3>1, <3>2, <2>1, <2>2 DEF RowsStep
  <2> QED BY <2>3, <2>4
<1>6. ASSUME NEW c \in Callers,
             \/ StartFlow(c) \/ ObserveExpected(c) \/ CreateIntent(c) \/ PrePush(c)
             \/ ResumePush(c) \/ ExecutePush(c) \/ ExecuteLsRemote(c) \/ CompareObserved(c)
             \/ FindPull(c) \/ CreatePull(c) \/ QueryPull(c) \/ Crash(c)
      PROVE  RowsStep
  BY <1>6 DEF RowsStep, StartFlow, ObserveExpected, CreateIntent, PrePush, ResumePush,
       ExecutePush, ExecuteLsRemote, CompareObserved, FindPull, CreatePull, QueryPull, Crash, store
<1>7. CASE ForeignMove \/ LatePush \/ UNCHANGED vars
  BY <1>7 DEF ForeignMove, LatePush, vars, store, RowsStep
<1> QED BY <1>2, <1>3, <1>4, <1>5, <1>6, <1>7 DEF Next, Push, PullRequest

\* An appended sequence keeps its beginning.
LEMMA AppendIsPrefix ==
  ASSUME NEW S, NEW s \in Seq(S), NEW e \in S
  PROVE  IsPrefix(s, Append(s, e)) /\ IsPrefix(s, s)
<1>1. Append(s, e) \in Seq(S) /\ Len(Append(s, e)) = Len(s) + 1 OBVIOUS
<1>2. SubSeq(s, 1, Len(s)) = SubSeq(Append(s, e), 1, Len(s)) OBVIOUS
<1> QED BY <1>1, <1>2 DEF IsPrefix

\* DeliveryRowsFrozen: the rows are append-only, and once the decision is there
\* no caller that is still pushing or asking adds one.
THEOREM RowsFrozen == Spec => DeliveryRowsFrozen
<1> DEFINE Frozen == /\ AppendOnly(remoteObs, remoteObs') /\ AppendOnly(prObs, prObs')
                     /\ AppendOnly(decision, decision')
<1>1. DeliveryInv /\ [Next]_vars => Frozen
  <2> SUFFICES ASSUME DeliveryInv, [Next]_vars PROVE Frozen OBVIOUS
  <2>1. /\ remoteObs \in Seq(RemoteObservation) /\ prObs \in Seq(PrObservation)
        /\ decision = <<>> \/ \E d : decision = <<d>>
    BY DEF DeliveryInv, Typed
  <2>2. IsPrefix(remoteObs, remoteObs) /\ IsPrefix(prObs, prObs)
        /\ IsPrefix(decision, decision)
    BY DEF IsPrefix
  <2>3. \A o \in RemoteObservation : IsPrefix(remoteObs, Append(remoteObs, o))
    BY <2>1, AppendIsPrefix
  <2>4. \A o \in PrObservation : IsPrefix(prObs, Append(prObs, o))
    BY <2>1, AppendIsPrefix
  <2>5. \A d : IsPrefix(<<>>, <<d>>) BY DEF IsPrefix
  <2>6. RowsStep BY RowsMove
  <2> QED BY <2>2, <2>3, <2>4, <2>5, <2>6 DEF RowsStep, AppendOnly
<1>2. Spec => [][Frozen]_vars BY <1>1, DeliveryInvAlways, PTL DEF Spec
<1> QED BY <1>2 DEF DeliveryRowsFrozen

\* ImplementsPromise: every step of the flow, of the remote and of the others
\* is a step of DeliveryPromise or leaves it as it is.
THEOREM DeliveryKeepsPromise == Spec => ImplementsPromise
<1>1. Init => Promise!Init
  BY DEF Init, Promise!Init, Published, Observed, Requested, Outcome
<1>2. DeliveryInv /\ [Next]_vars => [Promise!Next]_(Promise!promise)
  <2> SUFFICES ASSUME DeliveryInv, [Next]_vars
               PROVE  [Promise!Next]_(Promise!promise)
    OBVIOUS
  <2> USE DEF Promise!Next, Promise!promise
  <2>1. /\ remoteObs \in Seq(RemoteObservation) /\ prObs \in Seq(PrObservation)
        /\ (decision = <<>>) <=> (run = "ready_for_delivery")
        /\ RecordsAreTrue
    BY DEF DeliveryInv, Typed, RowsTrue
  <2>2. Published => Published'
    <3>1. carried \subseteq carried'
      BY DEF Next, vars, remote, ForeignMove, LatePush, BranchMoves, Push, PullRequest,
             Decision, StartFlow, ObserveExpected, CreateIntent, PrePush, ResumePush,
             ExecutePush, RecordPush, ExecuteLsRemote, RecordLsRemote, CompareObserved,
             FindPull, CreatePull, QueryPull, RecordPull, RecordPushFailure,
             RecordPullFailure, RecordDelivered, Decide, Crash
    <3> QED BY <3>1 DEF Published
  <2>3. CASE UNCHANGED <<remoteObs, prObs, decision, run>>
    <3>1. UNCHANGED <<Observed, Requested, Outcome>>
      BY <2>3 DEF Observed, Requested, Outcome
    <3>2. Published \in BOOLEAN /\ Published' \in BOOLEAN BY DEF Published
    <3> QED BY <3>1, <3>2, <2>2 DEF Promise!Publish
  <2>4. ASSUME /\ decision = <<>>
               /\ \E o \in RemoteObservation : /\ remoteObs' = Append(remoteObs, o)
                                               /\ o.oid # "null" => o.oid \in carried
               /\ UNCHANGED <<prObs, decision, run, carried>>
        PROVE  [Promise!Next]_(Promise!promise)
    <3>1. UNCHANGED <<Published, Requested, Outcome>> /\ Outcome = "open"
      BY <2>1, <2>4 DEF Published, Requested, Outcome
    <3>2. PICK o \in RemoteObservation : /\ remoteObs' = Append(remoteObs, o)
                                         /\ o.oid # "null" => o.oid \in carried
      BY <2>4
    <3>3. Observed' <=> Observed \/ o.oid = "commit"
      <4>1. DOMAIN remoteObs' = 1 .. Len(remoteObs) + 1 /\ DOMAIN remoteObs = 1 .. Len(remoteObs)
            /\ Len(remoteObs) \in Nat
        BY <2>1, <3>2
      <4>2. remoteObs'[Len(remoteObs) + 1] = o
            /\ \A i \in 1 .. Len(remoteObs) : remoteObs'[i] = remoteObs[i]
        BY <2>1, <3>2
      <4>3. \A i \in 1 .. Len(remoteObs) + 1 : i \in 1 .. Len(remoteObs) \/ i = Len(remoteObs) + 1
        BY <4>1
      <4>4. Len(remoteObs) + 1 \in 1 .. Len(remoteObs) + 1
            /\ 1 .. Len(remoteObs) \subseteq 1 .. Len(remoteObs) + 1
        BY <4>1
      <4> QED BY <4>1, <4>2, <4>3, <4>4 DEF Observed
    <3>4. o.oid = "commit" => Published BY <3>2 DEF Published
    <3>5. Observed \in BOOLEAN /\ Observed' \in BOOLEAN BY DEF Observed
    <3> QED BY <3>1, <3>3, <3>4, <3>5 DEF Promise!Observe
  <2>5. ASSUME /\ decision = <<>> /\ Observed
               /\ \E o \in PrObservation : prObs' = Append(prObs, o)
               /\ UNCHANGED <<remoteObs, decision, run, carried>>
        PROVE  [Promise!Next]_(Promise!promise)
    <3>1. UNCHANGED <<Published, Observed, Outcome>> /\ Outcome = "open"
      BY <2>1, <2>5 DEF Published, Observed, Outcome
    <3>2. Requested' /\ Requested \in BOOLEAN /\ Requested' \in BOOLEAN
      BY <2>1, <2>5 DEF Requested
    <3> QED BY <3>1, <3>2, <2>5 DEF Promise!Request
  <2>6. ASSUME /\ run = "ready_for_delivery"
               /\ \/ prObs # <<>> /\ run' = "delivered"
                  \/ prObs = <<>> /\ run' = "delivery_failed"
               /\ UNCHANGED <<remoteObs, prObs, carried>>
        PROVE  [Promise!Next]_(Promise!promise)
    <3>1. UNCHANGED <<Published, Observed, Requested>> BY <2>6 DEF Published, Observed, Requested
    <3>2. Outcome = "open" /\ Outcome' = run' BY <2>6 DEF Outcome
    <3> QED BY <3>1, <3>2, <2>6 DEF Promise!Conclude, Requested
  <2>7. RowsStep BY RowsMove
  <2> QED BY <2>3, <2>4, <2>5, <2>6, <2>7 DEF RowsStep
<1> QED BY <1>1, <1>2, DeliveryInvAlways, PTL DEF Spec, ImplementsPromise, Promise!Spec

=============================================================================
