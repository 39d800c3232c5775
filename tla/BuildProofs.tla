----------------------------- MODULE BuildProofs -----------------------------
(***************************************************************************)
(* Build for any number of builds, tickets, attempts and deaths.           *)
(*                                                                         *)
(* Two builds that plan from the same snapshot never open a second attempt *)
(* of a ticket: the rows alone carry that argument, whatever a build       *)
(* remembers.  The verdict of a build and the isolation of its drain rest  *)
(* on its memory, while others write the rows: what it remembers at each   *)
(* step is tied to rows that only ever grow towards a terminal record.     *)
(***************************************************************************)
EXTENDS Build, FiniteSetTheorems, TLAPS

AttemptRow == [state : AttemptStates, record : Records]

\* The attempts of every ticket are rows, and all but the latest are over.
AttemptsTyped == attempts \in [Tickets -> Seq(AttemptRow)]

AttemptsInv == AttemptsTyped /\ OneOpenAttempt

-----------------------------------------------------------------------------

\* Only the rows of one ticket change, to ones whose earlier attempts are over.
LEMMA OneTicketMoves ==
  ASSUME AttemptsInv, NEW t \in Tickets, NEW s \in Seq(AttemptRow),
         \A k \in 1 .. Len(s) - 1 : s[k].state = "failed_clean",
         attempts' = [attempts EXCEPT ![t] = s]
  PROVE  AttemptsInv'
BY DEF AttemptsInv, AttemptsTyped, OneOpenAttempt

\* One row of a ticket changes: the latest one, or any one to failed clean.  A
\* row that does not exist does not change.
LEMMA OneRowMoves ==
  ASSUME AttemptsInv, NEW t, NEW n, NEW a,
         t \in Tickets /\ n \in 1 .. Len(attempts[t]) =>
           /\ a \in AttemptRow
           /\ n # Len(attempts[t]) => a.state = "failed_clean",
         attempts' = [attempts EXCEPT ![t][n] = a]
  PROVE  AttemptsInv'
<1>1. CASE t \notin Tickets
  <2>1. attempts' = attempts BY <1>1 DEF AttemptsInv, AttemptsTyped
  <2> QED BY <2>1 DEF AttemptsInv, AttemptsTyped, OneOpenAttempt
<1>2. CASE t \in Tickets
  <2> DEFINE s == [attempts[t] EXCEPT ![n] = a]
  <2>1. attempts[t] \in Seq(AttemptRow) BY <1>2 DEF AttemptsInv, AttemptsTyped
  <2>2. DOMAIN attempts[t] = 1 .. Len(attempts[t]) /\ Len(attempts[t]) \in Nat BY <2>1
  <2>3. CASE n \notin 1 .. Len(attempts[t])
    <3>1. s = attempts[t] BY <2>1, <2>2, <2>3
    <3>2. attempts' = attempts BY <1>2, <3>1 DEF AttemptsInv, AttemptsTyped
    <3> QED BY <3>2 DEF AttemptsInv, AttemptsTyped, OneOpenAttempt
  <2>4. CASE n \in 1 .. Len(attempts[t])
    <3>1. a \in AttemptRow /\ (n # Len(attempts[t]) => a.state = "failed_clean")
      BY <1>2, <2>4
    <3>2. s \in Seq(AttemptRow) /\ Len(s) = Len(attempts[t]) BY <2>1, <2>4, <3>1
    <3>3. ASSUME NEW k \in 1 .. Len(s) - 1 PROVE s[k].state = "failed_clean"
      <4>1. k \in 1 .. Len(attempts[t]) - 1 /\ k \in DOMAIN attempts[t]
            /\ k # Len(attempts[t])
        BY <2>2, <3>2
      <4>2. attempts[t][k].state = "failed_clean"
        BY <4>1, <1>2 DEF AttemptsInv, OneOpenAttempt
      <4>3. s[k] = IF k = n THEN a ELSE attempts[t][k] BY <4>1
      <4> QED BY <4>1, <4>2, <4>3, <3>1
    <3>4. attempts' = [attempts EXCEPT ![t] = s] BY <1>2 DEF AttemptsInv, AttemptsTyped
    <3> HIDE DEF s
    <3> QED BY <1>2, <3>2, <3>3, <3>4, OneTicketMoves
  <2> QED BY <2>3, <2>4
<1> QED BY <1>1, <1>2

\* A row that is not failed clean, of a ticket that has it, is the latest.
LEMMA OpenIsLatest ==
  ASSUME AttemptsInv, NEW t \in Tickets, NEW n \in 1 .. Len(attempts[t]),
         attempts[t][n].state # "failed_clean"
  PROVE  n = Len(attempts[t])
BY DEF AttemptsInv, AttemptsTyped, OneOpenAttempt

\* Changing one field of a row gives a row.
LEMMA RowFields ==
  ASSUME NEW a \in AttemptRow, NEW s \in AttemptStates, NEW r \in Records
  PROVE  /\ [a EXCEPT !.state = s] \in AttemptRow /\ [a EXCEPT !.state = s].state = s
         /\ [a EXCEPT !.record = r] \in AttemptRow
         /\ [a EXCEPT !.record = r].state = a.state
BY DEF AttemptRow

\* The orphan that is recovered becomes failed clean, whichever it is.
LEMMA RecoverOrphanStep ==
  ASSUME AttemptsInv, NEW p \in Builders, RecoverOrphan(p)
  PROVE  AttemptsInv'
<1> DEFINE t == b[p].i  n == b[p].seen[t].n
           a == [attempts[t][n] EXCEPT !.state = "failed_clean"]
<1>1. CASE attempts' = attempts BY <1>1 DEF AttemptsInv, AttemptsTyped, OneOpenAttempt
<1>2. CASE attempts' = [attempts EXCEPT ![t][n].state = "failed_clean"]
  <2>1. attempts' = [attempts EXCEPT ![t][n] = a] BY <1>2
  <2>2. ASSUME t \in Tickets, n \in 1 .. Len(attempts[t])
        PROVE  a \in AttemptRow /\ a.state = "failed_clean"
    <3>1. attempts[t][n] \in AttemptRow BY <2>2 DEF AttemptsInv, AttemptsTyped
    <3> QED BY <3>1, RowFields DEF AttemptStates, Records
  <2> HIDE DEF a, t, n
  <2> QED BY <2>1, <2>2, OneRowMoves
<1> QED BY <1>1, <1>2 DEF RecoverOrphan

\* A retry is appended behind a latest attempt that is failed clean now, not
\* when the plan was made.
LEMMA AllocateRetryStep ==
  ASSUME AttemptsInv, NEW p \in Builders, AllocateRetry(p)
  PROVE  AttemptsInv'
<1> DEFINE t == b[p].i
<1>1. CASE attempts' = attempts BY <1>1 DEF AttemptsInv, AttemptsTyped, OneOpenAttempt
<1>2. CASE RetrySelection(t) /\ attempts' = [attempts EXCEPT ![t] = Append(@, Planned)]
  <2>1. CASE t \notin Tickets
    <3>1. attempts' = attempts BY <1>2, <2>1 DEF AttemptsInv, AttemptsTyped
    <3> QED BY <3>1, <1>1
  <2>2. CASE t \in Tickets
    <3> DEFINE old == attempts[t]  s == Append(old, Planned)
    <3>1. old \in Seq(AttemptRow) BY <2>2 DEF AttemptsInv, AttemptsTyped
    <3>2. Planned \in AttemptRow BY DEF Planned, AttemptRow, AttemptStates, Records
    <3>3. old # <<>> /\ old[Len(old)].state = "failed_clean" BY <1>2 DEF RetrySelection
    <3>4. \A k \in 1 .. Len(old) - 1 : old[k].state = "failed_clean"
      BY <2>2 DEF AttemptsInv, OneOpenAttempt
    <3>5. attempts' = [attempts EXCEPT ![t] = s] BY <1>2
    <3> HIDE DEF old
    <3>6. s \in Seq(AttemptRow) /\ Len(s) = Len(old) + 1
          /\ \A k \in 1 .. Len(old) : s[k] = old[k]
      BY <3>1, <3>2
    <3>7. \A k \in 1 .. Len(s) - 1 : s[k].state = "failed_clean"
      BY <3>1, <3>3, <3>4, <3>6
    <3> HIDE DEF s
    <3> QED BY <2>2, <3>5, <3>6, <3>7, OneTicketMoves
  <2> QED BY <2>1, <2>2
<1> QED BY <1>1, <1>2 DEF AllocateRetry

\* The first attempt of a ticket that has none.
LEMMA EnqueueInitialStep ==
  ASSUME AttemptsInv, NEW p \in Builders, EnqueueInitial(p)
  PROVE  AttemptsInv'
<1>1. attempts' = [attempts EXCEPT ![b[p].i] = <<Planned>>] BY DEF EnqueueInitial
<1>2. CASE b[p].i \notin Tickets
  <2>1. attempts' = attempts BY <1>1, <1>2 DEF AttemptsInv, AttemptsTyped
  <2> QED BY <2>1 DEF AttemptsInv, AttemptsTyped, OneOpenAttempt
<1>3. CASE b[p].i \in Tickets
  <2>1. Planned \in AttemptRow BY DEF Planned, AttemptRow, AttemptStates, Records
  <2>2. <<Planned>> \in Seq(AttemptRow) /\ Len(<<Planned>>) = 1 BY <2>1
  <2>3. \A k \in 1 .. Len(<<Planned>>) - 1 : <<Planned>>[k].state = "failed_clean" BY <2>2
  <2> QED BY <1>1, <1>3, <2>2, <2>3, OneTicketMoves
<1> QED BY <1>2, <1>3

\* The runner writes rows that are open, which are the latest.
LEMMA RunnerWritesStep ==
  ASSUME AttemptsInv, NEW p \in Builders, RunnerWrites(p)
  PROVE  AttemptsInv'
<1> DEFINE t == Head1(p)  n == b[p].n[t]
<1>1. CASE attempts' = attempts BY <1>1 DEF AttemptsInv, AttemptsTyped, OneOpenAttempt
<1>2. ASSUME NEW s \in AttemptStates, attempts[t][n].state # "failed_clean",
             attempts' = [attempts EXCEPT ![t][n].state = s]
      PROVE  AttemptsInv'
  <2> DEFINE a == [attempts[t][n] EXCEPT !.state = s]
  <2>1. attempts' = [attempts EXCEPT ![t][n] = a] BY <1>2
  <2>2. ASSUME t \in Tickets, n \in 1 .. Len(attempts[t])
        PROVE  a \in AttemptRow /\ n = Len(attempts[t])
    <3>1. attempts[t][n] \in AttemptRow BY <2>2 DEF AttemptsInv, AttemptsTyped
    <3>2. a \in AttemptRow BY <3>1, RowFields DEF Records
    <3> QED BY <3>2, <1>2, <2>2, OpenIsLatest
  <2> HIDE DEF a, t, n
  <2> QED BY <2>1, <2>2, OneRowMoves
<1>3. ASSUME NEW r \in Records, attempts[t][n].state # "failed_clean",
             attempts' = [attempts EXCEPT ![t][n].record = r]
      PROVE  AttemptsInv'
  <2> DEFINE a == [attempts[t][n] EXCEPT !.record = r]
  <2>1. attempts' = [attempts EXCEPT ![t][n] = a] BY <1>3
  <2>2. ASSUME t \in Tickets, n \in 1 .. Len(attempts[t])
        PROVE  a \in AttemptRow /\ n = Len(attempts[t])
    <3>1. attempts[t][n] \in AttemptRow BY <2>2 DEF AttemptsInv, AttemptsTyped
    <3>2. a \in AttemptRow BY <3>1, RowFields DEF AttemptStates
    <3> QED BY <3>2, <1>3, <2>2, OpenIsLatest
  <2> HIDE DEF a, t, n
  <2> QED BY <2>1, <2>2, OneRowMoves
<1> QED BY <1>1, <1>2, <1>3 DEF RunnerWrites, AttemptStates, Records

\* A failed latest attempt is settled.
LEMMA SettleFailureStep ==
  ASSUME AttemptsInv, NEW t \in Tickets, SettleFailure(t)
  PROVE  AttemptsInv'
<1> DEFINE n == Len(attempts[t])  a == [attempts[t][n] EXCEPT !.state = "failed_clean"]
<1>1. attempts' = [attempts EXCEPT ![t][n] = a] BY DEF SettleFailure
<1>2. attempts[t] \in Seq(AttemptRow) /\ attempts[t] # <<>>
  BY DEF AttemptsInv, AttemptsTyped, SettleFailure
<1>3. attempts[t][n] \in AttemptRow BY <1>2
<1>4. a \in AttemptRow /\ a.state = "failed_clean"
  BY <1>3, RowFields DEF AttemptStates, Records
<1> HIDE DEF a, n
<1> QED BY <1>1, <1>4, OneRowMoves

-----------------------------------------------------------------------------
(* The theorem.                                                            *)

\* Every step preserves it: the others write no attempt.
LEMMA AttemptsInvStep == AttemptsInv /\ [Next]_vars => AttemptsInv'
<1> SUFFICES ASSUME AttemptsInv, [Next]_vars PROVE AttemptsInv' OBVIOUS
<1>1. ASSUME attempts' = attempts PROVE AttemptsInv'
  BY <1>1 DEF AttemptsInv, AttemptsTyped, OneOpenAttempt
<1>2. ASSUME NEW p \in Builders, Step(p) PROVE AttemptsInv'
  <2>1. CASE RecoverOrphan(p) \/ AllocateRetry(p) \/ EnqueueInitial(p)
    BY <2>1, RecoverOrphanStep, AllocateRetryStep, EnqueueInitialStep
  <2>2. CASE ~(RecoverOrphan(p) \/ AllocateRetry(p) \/ EnqueueInitial(p))
    <3>1. attempts' = attempts
      BY <1>2, <2>2 DEF Step, PlanRefused, PolicyAttachmentRefused, StateAuthorityRefused,
         AllocateFreshRun, OtherRun, SelectCompatibleResume, PlanTicketRecovery,
         ProbeContainment, EnqueueResumed, DrainEmpty, DispatchThrows, Dispatch, RunnerReturns, Account,
         Deliver, Finish, RunCleanup, rows
    <3> QED BY <3>1, <1>1
  <2> QED BY <2>1, <2>2
<1>3. ASSUME NEW p \in Builders,
             (\E resume \in BOOLEAN : StartBuild(p, resume)) \/ Crash(p)
      PROVE  AttemptsInv'
  BY <1>1, <1>3 DEF StartBuild, Crash, rows
<1>4. ASSUME NEW p \in Builders, RunnerWrites(p) PROVE AttemptsInv'
  BY <1>4, RunnerWritesStep
<1>5. ASSUME NEW t \in Tickets, SettleFailure(t) PROVE AttemptsInv'
  BY <1>5, SettleFailureStep
<1>6. CASE UNCHANGED vars BY <1>1, <1>6 DEF vars, rows
<1> QED BY <1>2, <1>3, <1>4, <1>5, <1>6 DEF Next

\* OneOpenAttempt: however many builds plan from the same snapshot and die
\* between two steps, a ticket never has two attempts that are not failed clean.
THEOREM OneAttemptOpen == Spec => []OneOpenAttempt
<1>1. Init => AttemptsInv
  <2> SUFFICES ASSUME Init PROVE AttemptsInv OBVIOUS
  <2>1. attempts = [t \in Tickets |-> <<>>] BY DEF Init
  <2> QED BY <2>1 DEF AttemptsInv, AttemptsTyped, OneOpenAttempt
<1>2. AttemptsInv => OneOpenAttempt BY DEF AttemptsInv
<1> QED BY <1>1, <1>2, AttemptsInvStep, PTL DEF Spec
-----------------------------------------------------------------------------
(* What a build remembers, against the rows a of all tickets.              *)

SeenRow == [n : Nat, state : AttemptStates \cup {"none"},
            ticket : {"planned", "active", "cleanup_pending"}]
Pcs == {"idle", "gates", "plan", "orphan", "retry", "probe", "enqueue", "drain", "running",
        "account", "deliver", "finish", "cleanup"}
Memory ==
  [pc : Pcs, resume : BOOLEAN, i : Nat, seen : [Tickets -> SeenRow],
   plan : [Tickets -> Actions], n : [Tickets -> Nat], activates : SUBSET Tickets,
   queue : Seq(Tickets), entry : [Tickets -> {"none", "completed", "failed", "unrun"}],
   whole : SUBSET Tickets, done : Nat, failed : Nat, recovered : Nat,
   issues : SUBSET Classes, delivering : BOOLEAN,
   verdict : Classes \cup {"none", "success", "threw"}]

Planning == {"plan", "orphan", "retry"}
Early == {"gates", "probe"} \cup Planning
Draining == {"drain", "running", "account"}
Ending == {"deliver", "finish", "cleanup"}
Attempted == {"resume_attempt", "allocate_retry"}

\* Rows are never taken back: attempts stay, and so do their terminal records.
Grow(a, c) ==
  \A t \in Tickets :
    /\ Len(a[t]) <= Len(c[t])
    /\ \A k \in 1 .. Len(a[t]) :
         a[t][k].record # "none" => c[t][k].record = a[t][k].record

PromotedIn(a, t) == \E k \in 1 .. Len(a[t]) : a[t][k].record = "promotion"

AllPromoted(a) == \A t \in Tickets : PromotedIn(a, t)

\* The attempts a build has numbers of exist.
Numbered(m, a) ==
  \A t \in Tickets : m.seen[t].n \in 0 .. Len(a[t]) /\ m.n[t] \in 0 .. Len(a[t])

\* Where the loops over tickets and queue are.
Positioned(m) ==
  /\ m.pc \in {"gates", "probe", "account"} => m.i = 1
  /\ m.pc \in Planning \cup {"enqueue"} => m.i \in Tickets
  /\ m.pc = "drain" => m.i \in 1 .. Len(m.queue) \/ (m.queue = <<>> /\ m.i = 1)
  /\ m.pc = "running" => m.i \in 1 .. Len(m.queue)

\* A fresh build plans nothing; a resumed one has a plan for every ticket.
PlanMade(m) ==
  /\ m.pc \in Planning => m.resume = TRUE
  /\ m.resume = FALSE => \A t \in Tickets : m.plan[t] = "none"
  /\ \A t \in Tickets : m.plan[t] \in Attempted => m.n[t] > 0
  /\ m.resume = TRUE /\ m.pc \in Planning => \A t \in 1 .. m.i - 1 : m.plan[t] # "none"
  /\ m.resume = TRUE /\ m.pc \in {"probe", "enqueue"} \cup Draining =>
       \A t \in Tickets : m.plan[t] # "none"

\* A fresh build queues every ticket, in the order of the plan.
QueueMade(m) ==
  /\ m.pc \in Early => m.queue = <<>>
  /\ \A k \in 1 .. Len(m.queue) : m.n[m.queue[k]] > 0
  /\ m.resume = FALSE /\ m.pc = "enqueue" =>
       Len(m.queue) = m.i - 1 /\ \A k \in 1 .. m.i - 1 : m.queue[k] = k
  /\ m.resume = FALSE /\ m.pc \in Draining =>
       Len(m.queue) = N /\ \A k \in Tickets : m.queue[k] = k

\* Tickets the loop over the tickets has passed, and those of them it counted.
Passed(m) == IF m.pc = "enqueue" THEN 1 .. m.i - 1 ELSE Tickets

DoneAmong(T, plan, whole) == {t \in T : plan[t] = "complete" \/ t \in whole}

CountedDone(m) == DoneAmong(Passed(m), m.plan, m.whole)

Counted(m) ==
  /\ m.pc \in Early \cup {"idle"} => m.done = 0 /\ m.failed = 0
  /\ m.pc \in Early => m.whole = {}
  /\ m.pc \notin Ending => m.recovered = 0
  /\ m.pc \in {"enqueue"} \cup Draining => m.done >= Cardinality(CountedDone(m))
  /\ m.pc = "enqueue" => m.done + m.failed <= m.i - 1 /\ m.whole \subseteq 1 .. m.i - 1
  /\ m.pc \in Draining => m.done + m.failed <= N

\* What has been drained left its record, and what completed is promoted.
Drained(m, a) ==
  /\ \A t \in Tickets : m.entry[t] = "completed" => PromotedIn(a, t)
  /\ m.pc \in {"drain", "running"} =>
       \A k \in 1 .. m.i - 1 : m.entry[m.queue[k]] # "unrun" =>
         a[m.queue[k]][m.n[m.queue[k]]].record # "none"

\* What the end of a build rests on.
Judged(m, a) ==
  /\ m.pc \in Ending => /\ m.done + m.failed + m.recovered >= N
                        /\ m.done + m.failed + m.recovered <= 2 * N
  /\ m.resume = FALSE /\ m.pc \in Ending /\ (m.failed = 0 \/ m.issues = {}) => AllPromoted(a)
  /\ m.resume = FALSE /\ (m.delivering = TRUE \/ m.verdict = "success") => AllPromoted(a)

Founded(m, a) ==
  /\ Numbered(m, a) /\ Positioned(m) /\ PlanMade(m) /\ QueueMade(m)
  /\ Counted(m) /\ Drained(m, a) /\ Judged(m, a)

TicketsTyped == ticket \in [Tickets -> {"planned", "active", "cleanup_pending"}]

BuildInv ==
  /\ AttemptsInv /\ TicketsTyped
  /\ b \in [Builders -> Memory]
  /\ \A p \in Builders : Founded(b[p], attempts)

-----------------------------------------------------------------------------
(* The memory a step leaves, as a value.                                   *)

Over(resume, delivering, verdict) ==
  [Ended EXCEPT !.resume = resume, !.delivering = delivering, !.verdict = verdict]

Begun(resume) == [Ended EXCEPT !.pc = "gates", !.resume = resume]

Placed(m, pc) == [m EXCEPT !.pc = pc]

Snapshot(m, seen) == [m EXCEPT !.pc = "plan", !.seen = seen]

Decided(m, action, n) ==
  [m EXCEPT !.pc = IF m.i = N THEN "probe" ELSE "plan", !.i = IF @ = N THEN 1 ELSE @ + 1,
            !.seen[m.i] = NoRow, !.plan[m.i] = action, !.n[m.i] = n]

PassedOn(m) ==
  [m EXCEPT !.pc = IF m.i = N THEN "drain" ELSE "enqueue", !.i = IF @ = N THEN 1 ELSE @ + 1]

WithEntry(m, n, activates) ==
  [m EXCEPT !.queue = Append(@, m.i), !.n[m.i] = n, !.activates = activates]

Settled(m, result, last) ==
  [m EXCEPT !.pc = IF last THEN "account" ELSE "drain", !.i = IF last THEN 1 ELSE @ + 1,
            !.entry[m.queue[m.i]] = result]

Closing(m, pc, delivering, issues) ==
  [m EXCEPT !.pc = pc, !.delivering = delivering, !.issues = issues]

Totals(resume, done, failed, recovered, issues) ==
  [Ended EXCEPT !.pc = "deliver", !.resume = resume, !.done = done, !.failed = failed,
                !.recovered = recovered, !.issues = issues]

-----------------------------------------------------------------------------
(* What a build has established stays while others write.                  *)

\* A promotion is never taken back.
LEMMA PromotionLasts ==
  ASSUME NEW a \in [Tickets -> Seq(AttemptRow)], NEW c \in [Tickets -> Seq(AttemptRow)],
         Grow(a, c), NEW t \in Tickets, PromotedIn(a, t)
  PROVE  PromotedIn(c, t)
<1>1. PICK k \in 1 .. Len(a[t]) : a[t][k].record = "promotion" BY DEF PromotedIn
<1>2. Len(a[t]) \in Nat /\ Len(c[t]) \in Nat /\ Len(a[t]) <= Len(c[t]) BY DEF Grow
<1>3. c[t][k].record = "promotion" BY <1>1 DEF Grow
<1>4. k \in 1 .. Len(c[t]) BY <1>2
<1> QED BY <1>3, <1>4 DEF PromotedIn

\* Whatever a build remembers of the rows is still true when the rows have grown.
LEMMA FoundedLasts ==
  ASSUME NEW a \in [Tickets -> Seq(AttemptRow)], NEW c \in [Tickets -> Seq(AttemptRow)],
         Grow(a, c), NEW m \in Memory, Founded(m, a)
  PROVE  Founded(m, c)
<1>1. \A t \in Tickets : PromotedIn(a, t) => PromotedIn(c, t) BY PromotionLasts
<1>2. AllPromoted(a) => AllPromoted(c) BY <1>1 DEF AllPromoted
<1>3. Numbered(m, c)
  <2> SUFFICES ASSUME NEW t \in Tickets
               PROVE  m.seen[t].n \in 0 .. Len(c[t]) /\ m.n[t] \in 0 .. Len(c[t])
    BY DEF Numbered
  <2>1. m.seen[t].n \in 0 .. Len(a[t]) /\ m.n[t] \in 0 .. Len(a[t]) BY DEF Founded, Numbered
  <2>2. Len(a[t]) \in Nat /\ Len(c[t]) \in Nat /\ Len(a[t]) <= Len(c[t]) BY DEF Grow
  <2> QED BY <2>1, <2>2
<1>4. Drained(m, c)
  <2>1. \A t \in Tickets : m.entry[t] = "completed" => PromotedIn(c, t)
    BY <1>1 DEF Founded, Drained
  <2>2. ASSUME m.pc \in {"drain", "running"}, NEW k \in 1 .. m.i - 1,
               m.entry[m.queue[k]] # "unrun"
        PROVE  c[m.queue[k]][m.n[m.queue[k]]].record # "none"
    <3>1. m.i \in Nat /\ m.queue \in Seq(Tickets) /\ Len(m.queue) \in Nat BY DEF Memory
    <3>2. k \in 1 .. Len(m.queue)
      BY <2>2, <3>1 DEF Founded, Positioned
    <3> DEFINE t == m.queue[k]
    <3>3. t \in Tickets BY <3>1, <3>2
    <3>4. m.n[t] \in 0 .. Len(a[t]) /\ m.n[t] > 0
      BY <3>2, <3>3 DEF Founded, Numbered, QueueMade
    <3>5. Len(a[t]) \in Nat BY <3>3
    <3>6. m.n[t] \in 1 .. Len(a[t]) BY <3>4, <3>5
    <3>7. a[t][m.n[t]].record # "none" BY <2>2 DEF Founded, Drained
    <3> QED BY <3>3, <3>6, <3>7 DEF Grow
  <2> QED BY <2>1, <2>2 DEF Drained
<1>5. Judged(m, c) BY <1>2 DEF Founded, Judged
<1> QED BY <1>3, <1>4, <1>5 DEF Founded

-----------------------------------------------------------------------------
(* The memory of a build.                                                  *)

\* Before a build, and after it.
LEMMA EndedMemory == Ended \in Memory
<1>1. NoRow \in SeenRow BY DEF NoRow, SeenRow
<1>2. [t \in Tickets |-> NoRow] \in [Tickets -> SeenRow] BY <1>1
<1>3. [t \in Tickets |-> "none"] \in [Tickets -> Actions] BY DEF Actions
<1>4. [t \in Tickets |-> "none"] \in [Tickets -> {"none", "completed", "failed", "unrun"}] OBVIOUS
<1>5. [t \in Tickets |-> 0] \in [Tickets -> Nat] /\ <<>> \in Seq(Tickets) OBVIOUS
<1> DEFINE seen == [t \in Tickets |-> NoRow]  none == [t \in Tickets |-> "none"]
           zero == [t \in Tickets |-> 0]  nothing == {}  queue == <<>>
<1> HIDE DEF seen, none, zero, nothing, queue
<1>6. Ended = [pc |-> "idle", resume |-> FALSE, i |-> 1, seen |-> seen, plan |-> none, n |-> zero,
               activates |-> nothing, queue |-> queue, entry |-> none, whole |-> nothing,
               done |-> 0, failed |-> 0, recovered |-> 0, issues |-> nothing,
               delivering |-> FALSE, verdict |-> "none"]
  BY DEF Ended, seen, none, zero, nothing, queue
<1>7. /\ seen \in [Tickets -> SeenRow] /\ none \in [Tickets -> Actions]
      /\ none \in [Tickets -> {"none", "completed", "failed", "unrun"}] /\ zero \in [Tickets -> Nat]
      /\ queue \in Seq(Tickets)
  BY <1>2, <1>3, <1>4, <1>5 DEF seen, none, zero, queue
<1>8. nothing \in SUBSET Tickets /\ nothing \in SUBSET Classes BY DEF nothing
<1>9. "idle" \in Pcs BY DEF Pcs
<1> QED BY <1>6, <1>7, <1>8, <1>9 DEF Memory

\* Nothing is remembered of tickets and queue.
Blank(m) ==
  /\ m.i = 1 /\ m.seen = [t \in Tickets |-> NoRow] /\ m.plan = [t \in Tickets |-> "none"]
  /\ m.n = [t \in Tickets |-> 0] /\ m.queue = <<>>
  /\ m.entry = [t \in Tickets |-> "none"] /\ m.whole = {}

\* A build that has not begun.
LEMMA EndedBlank == Blank(Ended)
BY DEF Blank, Ended

\* A build is over.
LEMMA IdleMemory ==
  ASSUME NEW resume \in BOOLEAN, NEW delivering \in BOOLEAN,
         NEW verdict \in Classes \cup {"none", "success", "threw"},
         NEW m, m = Over(resume, delivering, verdict)
  PROVE  /\ m \in Memory /\ Blank(m) /\ m.done = 0 /\ m.failed = 0 /\ m.recovered = 0
         /\ m.pc = "idle" /\ m.resume = resume /\ m.delivering = delivering
         /\ m.verdict = verdict
<1>1. m \in Memory BY EndedMemory DEF Memory, Over
<1>2. Blank(m) BY DEF Blank, Ended, Over
<1> QED BY <1>1, <1>2 DEF Ended, Over

\* A build begins.
LEMMA StartMemory ==
  ASSUME NEW resume \in BOOLEAN, NEW m, m = Begun(resume)
  PROVE  /\ m \in Memory /\ Blank(m) /\ m.done = 0 /\ m.failed = 0 /\ m.recovered = 0
         /\ m.pc = "gates" /\ m.resume = resume /\ m.delivering = FALSE /\ m.verdict = "none"
<1>1. "gates" \in Pcs BY DEF Pcs
<1>2. m \in Memory BY <1>1, EndedMemory DEF Memory, Begun
<1>3. Blank(m) BY DEF Blank, Ended, Begun
<1> QED BY <1>2, <1>3 DEF Ended, Begun

\* Where a build starts over nothing is remembered but its kind and its end.
LEMMA BlankFounded ==
  ASSUME NEW a \in [Tickets -> Seq(AttemptRow)], NEW m \in Memory, Blank(m),
         m.pc \in {"idle", "gates"}, m.done = 0 /\ m.failed = 0 /\ m.recovered = 0,
         m.resume = FALSE /\ (m.delivering = TRUE \/ m.verdict = "success") => AllPromoted(a)
  PROVE  Founded(m, a)
<1>1. NoRow.n = 0 /\ \A t \in Tickets : Len(a[t]) \in Nat BY DEF NoRow
<1>2. Numbered(m, a) BY <1>1 DEF Blank, Numbered
<1>3. Positioned(m) BY DEF Blank, Positioned, Planning
<1>4. PlanMade(m) BY DEF Blank, PlanMade, Planning, Attempted, Draining
<1>5. QueueMade(m) BY DEF Blank, QueueMade, Early, Planning, Draining
<1>6. Counted(m) BY DEF Blank, Counted, Early, Planning, Draining, Ending
<1>7. Drained(m, a) BY DEF Blank, Drained
<1>8. Judged(m, a) BY DEF Judged, Ending
<1> QED BY <1>2, <1>3, <1>4, <1>5, <1>6, <1>7, <1>8 DEF Founded

\* Only the place changes.
LEMMA PlaceMoves ==
  ASSUME NEW m \in Memory, NEW pc \in Pcs, NEW m2, m2 = Placed(m, pc)
  PROVE  /\ m2 \in Memory
         /\ m2.pc = pc /\ m2.resume = m.resume /\ m2.i = m.i /\ m2.seen = m.seen
         /\ m2.plan = m.plan /\ m2.n = m.n /\ m2.queue = m.queue /\ m2.entry = m.entry
         /\ m2.whole = m.whole /\ m2.done = m.done /\ m2.failed = m.failed
         /\ m2.recovered = m.recovered /\ m2.issues = m.issues
         /\ m2.delivering = m.delivering /\ m2.verdict = m.verdict
BY DEF Memory, Placed

Stepped(m, pc, i) == [m EXCEPT !.pc = pc, !.i = i]

\* The place and the index of the loop change.
LEMMA IndexMoves ==
  ASSUME NEW m \in Memory, NEW pc \in Pcs, NEW i \in Nat, NEW m2, m2 = Stepped(m, pc, i)
  PROVE  /\ m2 \in Memory /\ m2.pc = pc /\ m2.i = i
         /\ m2.resume = m.resume /\ m2.seen = m.seen
         /\ m2.plan = m.plan /\ m2.n = m.n /\ m2.queue = m.queue /\ m2.entry = m.entry
         /\ m2.whole = m.whole /\ m2.done = m.done /\ m2.failed = m.failed
         /\ m2.recovered = m.recovered /\ m2.delivering = m.delivering /\ m2.verdict = m.verdict
BY DEF Memory, Stepped

\* The loop over the tickets goes on, and changes nothing else.
LEMMA PassesOn ==
  ASSUME NEW m \in Memory, NEW m2, m2 = PassedOn(m)
  PROVE  /\ m2 \in Memory
         /\ m2.pc = IF m.i = N THEN "drain" ELSE "enqueue"
         /\ m2.i = IF m.i = N THEN 1 ELSE m.i + 1
         /\ m2.resume = m.resume /\ m2.seen = m.seen
         /\ m2.plan = m.plan /\ m2.n = m.n /\ m2.queue = m.queue /\ m2.entry = m.entry
         /\ m2.whole = m.whole /\ m2.done = m.done /\ m2.failed = m.failed
         /\ m2.recovered = m.recovered /\ m2.delivering = m.delivering /\ m2.verdict = m.verdict
<1>1. CASE m.i = N
  <2>1. m2 = Stepped(m, "drain", 1) BY <1>1 DEF PassedOn, Stepped
  <2>2. "drain" \in Pcs /\ 1 \in Nat BY DEF Pcs
  <2>3. /\ m2 \in Memory /\ m2.pc = "drain" /\ m2.i = 1
        /\ m2.resume = m.resume /\ m2.seen = m.seen
        /\ m2.plan = m.plan /\ m2.n = m.n /\ m2.queue = m.queue /\ m2.entry = m.entry
        /\ m2.whole = m.whole /\ m2.done = m.done /\ m2.failed = m.failed
        /\ m2.recovered = m.recovered /\ m2.delivering = m.delivering /\ m2.verdict = m.verdict
    BY <2>1, <2>2, IndexMoves
  <2> QED BY <1>1, <2>3
<1>2. CASE m.i # N
  <2> DEFINE j == m.i + 1
  <2>1. m2 = Stepped(m, "enqueue", j) BY <1>2 DEF PassedOn, Stepped
  <2>2. "enqueue" \in Pcs BY DEF Pcs
  <2>3. j \in Nat BY DEF Memory
  <2> HIDE DEF j
  <2>4. /\ m2 \in Memory /\ m2.pc = "enqueue" /\ m2.i = j
        /\ m2.resume = m.resume /\ m2.seen = m.seen
        /\ m2.plan = m.plan /\ m2.n = m.n /\ m2.queue = m.queue /\ m2.entry = m.entry
        /\ m2.whole = m.whole /\ m2.done = m.done /\ m2.failed = m.failed
        /\ m2.recovered = m.recovered /\ m2.delivering = m.delivering /\ m2.verdict = m.verdict
    BY <2>1, <2>2, <2>3, IndexMoves
  <2> QED BY <1>2, <2>4 DEF j
<1> QED BY <1>1, <1>2

-----------------------------------------------------------------------------
(* The rows grow with every step.                                          *)

\* One row changes, and its record only from none.
LEMMA OneRowGrows ==
  ASSUME NEW a \in [Tickets -> Seq(AttemptRow)], NEW t, NEW n, NEW r,
         t \in Tickets /\ n \in 1 .. Len(a[t]) /\ a[t][n].record # "none" =>
           r.record = a[t][n].record,
         NEW c, c = [a EXCEPT ![t][n] = r]
  PROVE  Grow(a, c)
<1> SUFFICES ASSUME NEW u \in Tickets
             PROVE  /\ Len(a[u]) <= Len(c[u])
                    /\ \A k \in 1 .. Len(a[u]) :
                         a[u][k].record # "none" => c[u][k].record = a[u][k].record
  BY DEF Grow
<1>1. a[u] \in Seq(AttemptRow) /\ Len(a[u]) \in Nat /\ DOMAIN a[u] = 1 .. Len(a[u]) OBVIOUS
<1>2. CASE u # t
  <2>1. c[u] = a[u] BY <1>2
  <2> QED BY <1>1, <2>1
<1>3. CASE u = t
  <2>1. c[u] = [a[u] EXCEPT ![n] = r] BY <1>3
  <2>2. Len(c[u]) = Len(a[u]) BY <1>1, <2>1
  <2>3. \A k \in 1 .. Len(a[u]) : c[u][k] = IF k = n THEN r ELSE a[u][k] BY <1>1, <2>1
  <2> QED BY <1>1, <1>3, <2>2, <2>3
<1> QED BY <1>2, <1>3

\* The rows of one ticket gain an attempt.
LEMMA AppendGrows ==
  ASSUME NEW a \in [Tickets -> Seq(AttemptRow)], NEW t \in Tickets,
         NEW s \in Seq(AttemptRow), Len(a[t]) <= Len(s),
         \A k \in 1 .. Len(a[t]) : s[k] = a[t][k],
         NEW c, c = [a EXCEPT ![t] = s]
  PROVE  Grow(a, c)
<1> SUFFICES ASSUME NEW u \in Tickets
             PROVE  /\ Len(a[u]) <= Len(c[u])
                    /\ \A k \in 1 .. Len(a[u]) :
                         a[u][k].record # "none" => c[u][k].record = a[u][k].record
  BY DEF Grow
<1>1. Len(a[u]) \in Nat OBVIOUS
<1>2. c[u] = IF u = t THEN s ELSE a[u] OBVIOUS
<1> QED BY <1>1, <1>2

\* A row keeps its record when its state changes.
LEMMA StateKeepsRecord ==
  ASSUME NEW a \in AttemptRow, NEW s PROVE [a EXCEPT !.state = s].record = a.record
BY DEF AttemptRow

\* Only the state of a row changes.
LEMMA StateChangeGrows ==
  ASSUME AttemptsTyped, NEW t, NEW n, NEW s,
         attempts' = [attempts EXCEPT ![t][n].state = s]
  PROVE  Grow(attempts, attempts')
<1> DEFINE r == [attempts[t][n] EXCEPT !.state = s]
<1>1. attempts' = [attempts EXCEPT ![t][n] = r] OBVIOUS
<1>2. ASSUME t \in Tickets, n \in 1 .. Len(attempts[t]) PROVE r.record = attempts[t][n].record
  <2>1. attempts[t][n] \in AttemptRow BY <1>2 DEF AttemptsTyped
  <2> QED BY <2>1, StateKeepsRecord
<1> HIDE DEF r
<1> QED BY <1>1, <1>2, OneRowGrows DEF AttemptsTyped

\* Nothing changes.
LEMMA SameGrows == ASSUME AttemptsTyped, attempts' = attempts PROVE Grow(attempts, attempts')
<1>1. \A t \in Tickets : Len(attempts[t]) \in Nat BY DEF AttemptsTyped
<1> QED BY <1>1 DEF Grow

\* What the runner writes: a state, or the record of an attempt that has none.
LEMMA RunnerWritesGrow ==
  ASSUME AttemptsTyped, NEW p \in Builders, RunnerWrites(p)
  PROVE  Grow(attempts, attempts')
<1> DEFINE t == Head1(p)  n == b[p].n[t]
<1>1. CASE attempts' = attempts BY <1>1, SameGrows
<1>2. ASSUME NEW s, attempts' = [attempts EXCEPT ![t][n].state = s]
      PROVE  Grow(attempts, attempts')
  <2> HIDE DEF t, n
  <2> QED BY <1>2, StateChangeGrows
<1>3. ASSUME attempts[t][n].record = "none", NEW kind,
             attempts' = [attempts EXCEPT ![t][n].record = kind]
      PROVE  Grow(attempts, attempts')
  <2> DEFINE r == [attempts[t][n] EXCEPT !.record = kind]
  <2>1. attempts' = [attempts EXCEPT ![t][n] = r] BY <1>3
  <2> HIDE DEF r, t, n
  <2> QED BY <2>1, <1>3, OneRowGrows DEF AttemptsTyped
<1> QED BY <1>1, <1>2, <1>3 DEF RunnerWrites

\* A retry is appended.
LEMMA AllocateRetryGrows ==
  ASSUME AttemptsTyped, NEW p \in Builders, b[p].i \in Tickets, AllocateRetry(p)
  PROVE  Grow(attempts, attempts')
<1> DEFINE t == b[p].i  old == attempts[t]  s == Append(old, Planned)
<1>1. CASE attempts' = attempts BY <1>1, SameGrows
<1>2. CASE attempts' = [attempts EXCEPT ![t] = Append(@, Planned)]
  <2>1. old \in Seq(AttemptRow) BY DEF AttemptsTyped
  <2>2. Planned \in AttemptRow BY DEF Planned, AttemptRow, AttemptStates, Records
  <2>3. attempts' = [attempts EXCEPT ![t] = s] BY <1>2
  <2>4. s \in Seq(AttemptRow) /\ Len(s) = Len(old) + 1 /\ Len(old) \in Nat
        /\ \A k \in 1 .. Len(old) : s[k] = old[k]
    <3> HIDE DEF old
    <3> QED BY <2>1, <2>2
  <2> HIDE DEF s
  <2>5. Len(old) <= Len(s) BY <2>4
  <2> QED BY <2>3, <2>4, <2>5, AppendGrows DEF AttemptsTyped
<1> QED BY <1>1, <1>2 DEF AllocateRetry

\* The first attempt.
LEMMA EnqueueInitialGrows ==
  ASSUME AttemptsTyped, NEW p \in Builders, b[p].i \in Tickets, EnqueueInitial(p)
  PROVE  Grow(attempts, attempts')
<1> DEFINE t == b[p].i
<1>1. attempts[t] = <<>> /\ attempts' = [attempts EXCEPT ![t] = <<Planned>>]
  BY DEF EnqueueInitial
<1>2. Planned \in AttemptRow BY DEF Planned, AttemptRow, AttemptStates, Records
<1>3. <<Planned>> \in Seq(AttemptRow) /\ Len(<<Planned>>) = 1 BY <1>2
<1>4. Len(attempts[t]) = 0 BY <1>1
<1> DEFINE s == <<Planned>>
<1>5. s \in Seq(AttemptRow) /\ Len(attempts[t]) <= Len(s) BY <1>3, <1>4
<1>6. \A k \in 1 .. Len(attempts[t]) : s[k] = attempts[t][k] BY <1>4
<1>7. t \in Tickets /\ attempts' = [attempts EXCEPT ![t] = s] BY <1>1
<1> HIDE DEF t, s
<1> QED BY <1>5, <1>6, <1>7, AppendGrows DEF AttemptsTyped

-----------------------------------------------------------------------------
(* How the memory of a build moves, whatever the rows a.                   *)

\* A fresh build leaves the gates with its run.
LEMMA FreshProbe ==
  ASSUME NEW a, NEW m \in Memory, Founded(m, a), m.pc = "gates", m.resume = FALSE,
         NEW m2, m2 = Placed(m, "probe")
  PROVE  m2 \in Memory /\ Founded(m2, a)
<1>1. "probe" \in Pcs BY DEF Pcs
<1>2. /\ m2 \in Memory
      /\ m2.pc = "probe" /\ m2.resume = m.resume /\ m2.i = m.i /\ m2.seen = m.seen
      /\ m2.plan = m.plan /\ m2.n = m.n /\ m2.queue = m.queue /\ m2.entry = m.entry
      /\ m2.whole = m.whole /\ m2.done = m.done /\ m2.failed = m.failed
      /\ m2.recovered = m.recovered /\ m2.delivering = m.delivering /\ m2.verdict = m.verdict
  BY <1>1, PlaceMoves
<1>3. Numbered(m2, a) /\ Drained(m2, a) BY <1>2 DEF Founded, Numbered, Drained
<1>4. Positioned(m2) /\ PlanMade(m2)
  BY <1>2 DEF Founded, Positioned, PlanMade, Planning, Draining, Attempted
<1>5. QueueMade(m2) BY <1>2 DEF Founded, QueueMade, Early, Planning, Draining
<1>6. Counted(m2) BY <1>2 DEF Founded, Counted, Early, Planning, Draining, Ending
<1>7. Judged(m2, a) BY <1>2 DEF Founded, Judged, Ending
<1> QED BY <1>2, <1>3, <1>4, <1>5, <1>6, <1>7 DEF Founded

\* The branches of the plan that go on with the same ticket.
LEMMA PlanMoves ==
  ASSUME NEW a, NEW m \in Memory, Founded(m, a), m.pc \in Planning, NEW pc \in Planning,
         NEW m2, m2 = Placed(m, pc)
  PROVE  m2 \in Memory /\ Founded(m2, a)
<1>1. pc \in Pcs BY DEF Pcs, Planning
<1>2. /\ m2 \in Memory
      /\ m2.pc = pc /\ m2.resume = m.resume /\ m2.i = m.i /\ m2.seen = m.seen
      /\ m2.plan = m.plan /\ m2.n = m.n /\ m2.queue = m.queue /\ m2.entry = m.entry
      /\ m2.whole = m.whole /\ m2.done = m.done /\ m2.failed = m.failed
      /\ m2.recovered = m.recovered /\ m2.delivering = m.delivering /\ m2.verdict = m.verdict
  BY <1>1, PlaceMoves
<1>3. Numbered(m2, a) BY <1>2 DEF Founded, Numbered
<1>4. Positioned(m2) /\ PlanMade(m2)
  BY <1>2 DEF Founded, Positioned, PlanMade, Planning, Draining, Attempted
<1>5. QueueMade(m2) BY <1>2 DEF Founded, QueueMade, Early, Planning, Draining
<1>6. Counted(m2) BY <1>2 DEF Founded, Counted, Early, Planning, Draining, Ending
<1>7. Drained(m2, a) BY <1>2 DEF Founded, Drained, Planning
<1>8. Judged(m2, a) BY <1>2 DEF Founded, Judged, Ending, Planning
<1> QED BY <1>2, <1>3, <1>4, <1>5, <1>6, <1>7, <1>8 DEF Founded

\* The snapshot of a resumed build.
LEMMA SnapshotTaken ==
  ASSUME NEW a, NEW m \in Memory, Founded(m, a), m.pc = "gates", m.resume = TRUE,
         NEW seen \in [Tickets -> SeenRow], \A t \in Tickets : seen[t].n \in 0 .. Len(a[t]),
         NEW m2, m2 = Snapshot(m, seen)
  PROVE  m2 \in Memory /\ Founded(m2, a)
<1>1. "plan" \in Pcs BY DEF Pcs
<1>2. /\ m2 \in Memory
      /\ m2.pc = "plan" /\ m2.resume = m.resume /\ m2.i = m.i /\ m2.seen = seen
      /\ m2.plan = m.plan /\ m2.n = m.n /\ m2.queue = m.queue /\ m2.entry = m.entry
      /\ m2.whole = m.whole /\ m2.done = m.done /\ m2.failed = m.failed
      /\ m2.recovered = m.recovered /\ m2.delivering = m.delivering /\ m2.verdict = m.verdict
  BY <1>1 DEF Memory, Snapshot
<1>3. Numbered(m2, a) /\ Drained(m2, a) BY <1>2 DEF Founded, Numbered, Drained
<1>4. m.i = 1 /\ 1 \in Tickets BY BuildAssumption DEF Founded, Positioned, Tickets
<1>5. Positioned(m2) BY <1>2, <1>4 DEF Positioned, Planning
<1>6. PlanMade(m2)
  BY <1>2, <1>4 DEF Founded, PlanMade, Planning, Draining, Attempted
<1>7. QueueMade(m2) BY <1>2 DEF Founded, QueueMade, Early, Planning, Draining
<1>8. Counted(m2) BY <1>2 DEF Founded, Counted, Early, Planning, Draining, Ending
<1>9. Judged(m2, a) BY <1>2 DEF Founded, Judged, Ending
<1> QED BY <1>2, <1>3, <1>5, <1>6, <1>7, <1>8, <1>9 DEF Founded

\* The plan of a ticket is settled.
LEMMA PlanDecided ==
  ASSUME NEW a \in [Tickets -> Seq(AttemptRow)], NEW m \in Memory, Founded(m, a),
         m.pc \in Planning, NEW action \in Actions \ {"none"},
         NEW n \in 0 .. Len(a[m.i]), action \in Attempted => n > 0,
         NEW m2, m2 = Decided(m, action, n)
  PROVE  m2 \in Memory /\ Founded(m2, a)
<1> DEFINE pc == IF m.i = N THEN "probe" ELSE "plan"
           i == IF m.i = N THEN 1 ELSE m.i + 1
           seen == [m.seen EXCEPT ![m.i] = NoRow]
           plan == [m.plan EXCEPT ![m.i] = action]
           num == [m.n EXCEPT ![m.i] = n]
<1>1. m.i \in Tickets /\ m.resume = TRUE BY DEF Founded, Positioned, PlanMade
<1>2. m.i \in 1 .. N /\ N \in Nat BY <1>1, BuildAssumption DEF Tickets
<1>3. pc \in Pcs /\ i \in Nat BY <1>2 DEF Pcs
<1>4. NoRow \in SeenRow /\ NoRow.n = 0 BY DEF NoRow, SeenRow
<1>5. /\ m.seen \in [Tickets -> SeenRow] /\ m.plan \in [Tickets -> Actions]
      /\ m.n \in [Tickets -> Nat]
  BY DEF Memory
<1>6. Len(a[m.i]) \in Nat /\ n \in Nat BY <1>1
<1>7. seen \in [Tickets -> SeenRow] /\ plan \in [Tickets -> Actions] /\ num \in [Tickets -> Nat]
  BY <1>1, <1>4, <1>5, <1>6
<1>8. m2 = [m EXCEPT !.pc = pc, !.i = i, !.seen = seen, !.plan = plan, !.n = num]
  BY DEF Decided
<1>9. \A t \in Tickets :
        /\ seen[t] = IF t = m.i THEN NoRow ELSE m.seen[t]
        /\ plan[t] = IF t = m.i THEN action ELSE m.plan[t]
        /\ num[t] = IF t = m.i THEN n ELSE m.n[t]
  BY <1>5
<1> HIDE DEF seen, plan, num
<1>10. /\ m2 \in Memory
       /\ m2.pc = pc /\ m2.resume = m.resume /\ m2.i = i /\ m2.seen = seen
       /\ m2.plan = plan /\ m2.n = num /\ m2.queue = m.queue /\ m2.entry = m.entry
       /\ m2.whole = m.whole /\ m2.done = m.done /\ m2.failed = m.failed
       /\ m2.recovered = m.recovered /\ m2.delivering = m.delivering /\ m2.verdict = m.verdict
  <2> HIDE DEF pc, i
  <2> QED BY <1>3, <1>7, <1>8 DEF Memory
<1>11. Numbered(m2, a)
  <2> SUFFICES ASSUME NEW t \in Tickets
               PROVE  seen[t].n \in 0 .. Len(a[t]) /\ num[t] \in 0 .. Len(a[t])
    BY <1>10 DEF Numbered
  <2>1. m.seen[t].n \in 0 .. Len(a[t]) /\ m.n[t] \in 0 .. Len(a[t]) /\ Len(a[t]) \in Nat
    BY DEF Founded, Numbered
  <2> QED BY <1>4, <1>9, <2>1
<1>12. Positioned(m2) BY <1>2, <1>10 DEF Positioned, Planning, Tickets
<1>13. PlanMade(m2)
  <2>1. \A t \in Tickets : plan[t] \in Attempted => num[t] > 0
    BY <1>9 DEF Founded, PlanMade
  <2>2. ASSUME NEW t \in 1 .. m.i PROVE t \in Tickets /\ plan[t] # "none"
    <3>1. t \in Tickets BY <1>2 DEF Tickets
    <3>2. CASE t = m.i BY <1>9, <3>1, <3>2
    <3>3. CASE t # m.i
      <4>1. t \in 1 .. m.i - 1 BY <1>2, <3>3
      <4>2. m.plan[t] # "none" BY <1>1, <4>1 DEF Founded, PlanMade
      <4> QED BY <1>9, <3>1, <3>3, <4>2
    <3> QED BY <3>1, <3>2, <3>3
  <2>3. CASE m.i = N
    <3>1. m2.pc = "probe" /\ m2.resume = TRUE /\ m2.plan = plan /\ m2.n = num
      BY <1>1, <1>10, <2>3
    <3>2. \A t \in Tickets : plan[t] # "none" BY <2>2, <2>3 DEF Tickets
    <3> QED BY <2>1, <3>1, <3>2 DEF PlanMade, Planning
  <2>4. CASE m.i # N
    <3>1. /\ m2.pc = "plan" /\ m2.resume = TRUE /\ m2.plan = plan /\ m2.n = num
          /\ m2.i = m.i + 1
      BY <1>1, <1>10, <2>4
    <3>2. \A t \in 1 .. m2.i - 1 : plan[t] # "none" BY <1>2, <2>2, <3>1
    <3> QED BY <2>1, <3>1, <3>2 DEF PlanMade, Planning, Draining
  <2> QED BY <2>3, <2>4
<1>14. QueueMade(m2)
  <2>1. m.queue = <<>> BY DEF Founded, QueueMade, Early
  <2> QED BY <1>1, <1>10, <2>1 DEF QueueMade
<1>15. Counted(m2) BY <1>10 DEF Founded, Counted, Early, Planning, Draining, Ending
<1>16. Drained(m2, a) BY <1>10 DEF Founded, Drained
<1>17. Judged(m2, a) BY <1>1, <1>10 DEF Judged, Ending
<1> QED BY <1>10, <1>11, <1>12, <1>13, <1>14, <1>15, <1>16, <1>17 DEF Founded

\* The containment is proven and the loop over the tickets starts.
LEMMA ProbePassed ==
  ASSUME NEW a, NEW m \in Memory, Founded(m, a), m.pc = "probe",
         NEW m2, m2 = Placed(m, "enqueue")
  PROVE  m2 \in Memory /\ Founded(m2, a)
<1>1. "enqueue" \in Pcs BY DEF Pcs
<1>2. /\ m2 \in Memory
      /\ m2.pc = "enqueue" /\ m2.resume = m.resume /\ m2.i = m.i /\ m2.seen = m.seen
      /\ m2.plan = m.plan /\ m2.n = m.n /\ m2.queue = m.queue /\ m2.entry = m.entry
      /\ m2.whole = m.whole /\ m2.done = m.done /\ m2.failed = m.failed
      /\ m2.recovered = m.recovered /\ m2.delivering = m.delivering /\ m2.verdict = m.verdict
  BY <1>1, PlaceMoves
<1>3. Numbered(m2, a) /\ Drained(m2, a) BY <1>2 DEF Founded, Numbered, Drained
<1>4. m.i = 1 /\ m.queue = <<>> /\ m.whole = {} /\ m.done = 0 /\ m.failed = 0 /\ m.recovered = 0
  BY DEF Founded, Positioned, QueueMade, Counted, Early, Ending
<1>5. 1 \in Tickets BY BuildAssumption DEF Tickets
<1>6. Positioned(m2) BY <1>2, <1>4, <1>5 DEF Positioned, Planning
<1>7. PlanMade(m2) BY <1>2 DEF Founded, PlanMade, Planning, Draining, Attempted
<1>8. QueueMade(m2) BY <1>2, <1>4 DEF QueueMade, Early, Planning, Draining
<1>9. CountedDone(m2) = {} BY <1>2, <1>4 DEF CountedDone, DoneAmong, Passed
<1>10. Cardinality(CountedDone(m2)) = 0 BY <1>9, FS_EmptySet
<1>11. Counted(m2) BY <1>2, <1>4, <1>10 DEF Counted, Early, Planning, Draining, Ending
<1>12. Judged(m2, a) BY <1>2 DEF Founded, Judged, Ending
<1> QED BY <1>2, <1>3, <1>6, <1>7, <1>8, <1>11, <1>12 DEF Founded

\* Memory m tells already of ticket m.i, which the loop over the tickets passes.
Told(m, a) ==
  /\ m.pc = "enqueue" /\ m.i \in Tickets /\ m.recovered = 0
  /\ Numbered(m, a) /\ PlanMade(m) /\ Drained(m, a) /\ Judged(m, a)
  /\ \A k \in 1 .. Len(m.queue) : m.n[m.queue[k]] > 0
  /\ m.resume = FALSE => Len(m.queue) = m.i /\ \A k \in 1 .. m.i : m.queue[k] = k
  /\ m.done >= Cardinality(DoneAmong(1 .. m.i, m.plan, m.whole))
  /\ m.done + m.failed <= m.i /\ m.whole \subseteq 1 .. m.i

\* The next ticket of the loop.
LEMMA TicketPassed ==
  ASSUME NEW a, NEW m \in Memory, Told(m, a),
         NEW m2, m2 = PassedOn(m)
  PROVE  m2 \in Memory /\ Founded(m2, a)
<1> DEFINE pc == IF m.i = N THEN "drain" ELSE "enqueue"
           i == IF m.i = N THEN 1 ELSE m.i + 1
<1>1. m.i \in 1 .. N /\ N \in Nat BY BuildAssumption DEF Told, Tickets
<1>2. pc \in Pcs /\ i \in Nat BY <1>1 DEF Pcs
<1>3. /\ m2 \in Memory
      /\ m2.pc = pc /\ m2.i = i /\ m2.resume = m.resume /\ m2.seen = m.seen
      /\ m2.plan = m.plan /\ m2.n = m.n /\ m2.queue = m.queue /\ m2.entry = m.entry
      /\ m2.whole = m.whole /\ m2.done = m.done /\ m2.failed = m.failed
      /\ m2.recovered = m.recovered /\ m2.delivering = m.delivering /\ m2.verdict = m.verdict
  BY PassesOn
<1>4. m.queue \in Seq(Tickets) /\ m.done \in Nat /\ m.failed \in Nat BY DEF Memory
<1>5. Numbered(m2, a) BY <1>3 DEF Told, Numbered
<1>6. Positioned(m2)
  <2>1. Len(m.queue) \in Nat /\ (Len(m.queue) = 0 => m.queue = <<>>) BY <1>4
  <2> QED BY <1>1, <1>3, <2>1 DEF Positioned, Planning, Tickets
<1>7. PlanMade(m2) BY <1>3 DEF Told, PlanMade, Planning, Draining, Attempted
<1>8. QueueMade(m2)
  <2>1. CASE m.i = N BY <1>1, <1>3, <2>1 DEF Told, QueueMade, Early, Planning, Draining, Tickets
  <2>2. CASE m.i # N BY <1>1, <1>3, <2>2 DEF Told, QueueMade, Early, Planning, Draining
  <2> QED BY <2>1, <2>2
<1>9. CountedDone(m2) = DoneAmong(1 .. m.i, m.plan, m.whole)
  <2>1. Passed(m2) = 1 .. m.i BY <1>1, <1>3 DEF Passed, Tickets
  <2> QED BY <1>3, <2>1 DEF CountedDone
<1> HIDE DEF pc, i
<1>10. Counted(m2)
  <2>1. m2.done >= Cardinality(CountedDone(m2)) BY <1>3, <1>9 DEF Told
  <2>2. m2.done + m2.failed <= m.i /\ m2.whole \subseteq 1 .. m.i BY <1>3 DEF Told
  <2>3. CASE m.i = N
    <3>1. m2.pc = "drain" /\ m2.recovered = 0 BY <1>3, <2>3 DEF Told, pc
    <3> QED BY <2>1, <2>2, <2>3, <3>1 DEF Counted, Early, Planning, Draining, Ending
  <2>4. CASE m.i # N
    <3>1. m2.pc = "enqueue" /\ m2.recovered = 0 /\ m2.i = m.i + 1 BY <1>3, <2>4 DEF Told, pc, i
    <3>2. m2.i - 1 = m.i BY <1>1, <3>1
    <3> QED BY <2>1, <2>2, <3>1, <3>2 DEF Counted, Early, Planning, Draining, Ending
  <2> QED BY <2>3, <2>4
<1>11. Drained(m2, a)
  <2>1. m.i = N => \A k \in 1 .. m2.i - 1 : FALSE BY <1>1, <1>3 DEF i
  <2>2. m2.pc = "drain" => m.i = N BY <1>3 DEF pc
  <2>3. m2.pc # "running" BY <1>3 DEF pc
  <2> QED BY <1>3, <2>1, <2>2, <2>3 DEF Told, Drained
<1>12. Judged(m2, a) BY <1>3 DEF Told, Judged, Ending, pc
<1> QED BY <1>3, <1>5, <1>6, <1>7, <1>8, <1>10, <1>11, <1>12 DEF Founded

\* One more ticket passed adds at most itself to the tickets counted as done.
LEMMA OneMoreDone ==
  ASSUME NEW m \in Memory, m.i \in Tickets, NEW whole,
         whole \subseteq m.whole \cup {m.i}, m.whole \subseteq 1 .. m.i - 1
  PROVE  LET before == Cardinality(DoneAmong(1 .. m.i - 1, m.plan, m.whole))
             after == Cardinality(DoneAmong(1 .. m.i, m.plan, whole))
         IN  /\ before \in Nat /\ after \in Nat /\ after <= before + 1
             /\ m.plan[m.i] # "complete" /\ whole = m.whole => after = before
<1> DEFINE S == DoneAmong(1 .. m.i - 1, m.plan, m.whole)
           T == DoneAmong(1 .. m.i, m.plan, whole)
<1>1. m.i \in Nat /\ m.i >= 1 BY BuildAssumption DEF Tickets
<1>2. IsFiniteSet(1 .. m.i - 1) BY <1>1, FS_Interval
<1>3. S \subseteq 1 .. m.i - 1 BY DEF DoneAmong
<1>4. T \subseteq S \cup {m.i} BY <1>1 DEF DoneAmong
<1>5. m.plan[m.i] # "complete" /\ whole = m.whole => T = S BY <1>1 DEF DoneAmong
<1> HIDE DEF S, T
<1>6. IsFiniteSet(S) BY <1>2, <1>3, FS_Subset
<1>7. IsFiniteSet(S \cup {m.i}) /\ Cardinality(S \cup {m.i}) <= Cardinality(S) + 1
  <2>1. Cardinality(S) \in Nat BY <1>6, FS_CardinalityType
  <2> QED BY <1>6, <2>1, FS_AddElement
<1>8. IsFiniteSet(T) /\ Cardinality(T) <= Cardinality(S \cup {m.i})
  BY <1>4, <1>7, FS_Subset
<1>9. /\ Cardinality(S) \in Nat /\ Cardinality(T) \in Nat /\ Cardinality(S \cup {m.i}) \in Nat
  BY <1>6, <1>7, <1>8, FS_CardinalityType
<1>10. Cardinality(T) <= Cardinality(S) + 1 BY <1>7, <1>8, <1>9
<1> QED BY <1>5, <1>9, <1>10 DEF S, T

\* A resumed build that queues nothing for the ticket counts it, or waits.
LEMMA CountedTold ==
  ASSUME NEW a, NEW m \in Memory, Founded(m, a), m.pc = "enqueue", m.resume = TRUE,
         NEW m1 \in Memory,
         m1.pc = m.pc /\ m1.resume = m.resume /\ m1.i = m.i /\ m1.seen = m.seen,
         m1.plan = m.plan /\ m1.n = m.n /\ m1.queue = m.queue /\ m1.entry = m.entry,
         m1.recovered = m.recovered,
         \/ /\ m1.done = m.done + 1 /\ m1.failed = m.failed
            /\ m1.whole \in {m.whole, m.whole \cup {m.i}}
         \/ /\ m1.done = m.done /\ m1.whole = m.whole /\ m.plan[m.i] # "complete"
            /\ m1.failed \in {m.failed, m.failed + 1}
  PROVE  Told(m1, a)
<1>1. m.i \in Tickets /\ m.whole \subseteq 1 .. m.i - 1 /\ m.recovered = 0
      /\ m.done + m.failed <= m.i - 1
  BY DEF Founded, Positioned, Counted, Ending
<1>2. m.i \in Nat /\ m.i >= 1 BY <1>1, BuildAssumption DEF Tickets
<1>3. m.done \in Nat /\ m.failed \in Nat /\ m1.done \in Nat /\ m1.failed \in Nat BY DEF Memory
<1>4. m.done >= Cardinality(DoneAmong(1 .. m.i - 1, m.plan, m.whole))
  BY DEF Founded, Counted, CountedDone, Passed
<1>5. m1.done >= Cardinality(DoneAmong(1 .. m1.i, m1.plan, m1.whole))
  <2> DEFINE before == Cardinality(DoneAmong(1 .. m.i - 1, m.plan, m.whole))
             after == Cardinality(DoneAmong(1 .. m.i, m.plan, m1.whole))
  <2>1. m1.whole \subseteq m.whole \cup {m.i} OBVIOUS
  <2>2. /\ before \in Nat /\ after \in Nat /\ after <= before + 1
        /\ m.plan[m.i] # "complete" /\ m1.whole = m.whole => after = before
    BY <1>1, <2>1, OneMoreDone
  <2>3. m.done >= before BY <1>4
  <2> HIDE DEF before, after
  <2>4. m1.done >= after BY <1>3, <2>2, <2>3
  <2> QED BY <2>4 DEF after
<1>6. m1.done + m1.failed <= m1.i /\ m1.whole \subseteq 1 .. m1.i BY <1>1, <1>2, <1>3
<1>7. Numbered(m1, a) BY DEF Founded, Numbered
<1>8. PlanMade(m1) BY DEF Founded, PlanMade
<1>9. Drained(m1, a) BY DEF Founded, Drained
<1>10. Judged(m1, a) BY DEF Judged, Ending
<1>11. \A k \in 1 .. Len(m1.queue) : m1.n[m1.queue[k]] > 0 BY DEF Founded, QueueMade
<1>12. /\ m1.pc = "enqueue" /\ m1.i \in Tickets /\ m1.recovered = 0 /\ m1.resume = TRUE
  BY <1>1
<1> QED BY <1>5, <1>6, <1>7, <1>8, <1>9, <1>10, <1>11, <1>12 DEF Told

\* Attempt n of the ticket is queued.
LEMMA QueuedTold ==
  ASSUME NEW a \in [Tickets -> Seq(AttemptRow)], NEW m \in Memory, Founded(m, a),
         m.pc = "enqueue", NEW n \in 1 .. Len(a[m.i]), m.plan[m.i] # "complete",
         NEW activates \in SUBSET Tickets,
         NEW m1, m1 = WithEntry(m, n, activates)
  PROVE  m1 \in Memory /\ Told(m1, a)
<1> DEFINE queue == Append(m.queue, m.i)  num == [m.n EXCEPT ![m.i] = n]
<1>1. m.i \in Tickets /\ m.whole \subseteq 1 .. m.i - 1 /\ m.recovered = 0
      /\ m.done + m.failed <= m.i - 1
  BY DEF Founded, Positioned, Counted, Ending
<1>2. m.i \in Nat /\ m.i >= 1 BY <1>1, BuildAssumption DEF Tickets
<1>3. /\ m.done \in Nat /\ m.failed \in Nat /\ m.queue \in Seq(Tickets)
      /\ m.n \in [Tickets -> Nat]
  BY DEF Memory
<1>4. Len(a[m.i]) \in Nat /\ n \in Nat /\ n > 0 BY <1>1
<1>5. /\ queue \in Seq(Tickets) /\ Len(queue) = Len(m.queue) + 1 /\ Len(m.queue) \in Nat
      /\ \A k \in 1 .. Len(m.queue) : queue[k] = m.queue[k] /\ m.queue[k] \in Tickets
      /\ queue[Len(m.queue) + 1] = m.i
  BY <1>1, <1>3
<1>6. num \in [Tickets -> Nat] /\ \A t \in Tickets : num[t] = IF t = m.i THEN n ELSE m.n[t]
  BY <1>1, <1>3, <1>4
<1>7. m1 = [m EXCEPT !.queue = queue, !.n = num, !.activates = activates]
  BY DEF WithEntry
<1> HIDE DEF queue, num
<1>8. /\ m1 \in Memory
      /\ m1.pc = m.pc /\ m1.resume = m.resume /\ m1.i = m.i /\ m1.seen = m.seen
      /\ m1.plan = m.plan /\ m1.n = num /\ m1.queue = queue /\ m1.entry = m.entry
      /\ m1.whole = m.whole /\ m1.done = m.done /\ m1.failed = m.failed
      /\ m1.recovered = m.recovered /\ m1.delivering = m.delivering /\ m1.verdict = m.verdict
  BY <1>5, <1>6, <1>7 DEF Memory
<1>9. m1.done >= Cardinality(DoneAmong(1 .. m1.i, m1.plan, m1.whole))
  <2>1. Cardinality(DoneAmong(1 .. m.i, m.plan, m.whole))
          = Cardinality(DoneAmong(1 .. m.i - 1, m.plan, m.whole))
    BY <1>1, OneMoreDone
  <2>2. m.done >= Cardinality(DoneAmong(1 .. m.i - 1, m.plan, m.whole))
    BY DEF Founded, Counted, CountedDone, Passed
  <2> QED BY <1>8, <2>1, <2>2
<1>10. m1.done + m1.failed <= m1.i /\ m1.whole \subseteq 1 .. m1.i BY <1>1, <1>2, <1>3, <1>8
<1>11. Numbered(m1, a)
  <2> SUFFICES ASSUME NEW t \in Tickets
               PROVE  m.seen[t].n \in 0 .. Len(a[t]) /\ num[t] \in 0 .. Len(a[t])
    BY <1>8 DEF Numbered
  <2>1. m.seen[t].n \in 0 .. Len(a[t]) /\ m.n[t] \in 0 .. Len(a[t]) BY DEF Founded, Numbered
  <2>2. CASE t = m.i BY <1>4, <1>6, <2>1, <2>2
  <2>3. CASE t # m.i BY <1>6, <2>1, <2>3
  <2> QED BY <2>2, <2>3
<1>12. PlanMade(m1)
  <2>1. \A t \in Tickets : m.plan[t] \in Attempted => num[t] > 0
    BY <1>4, <1>6 DEF Founded, PlanMade
  <2> QED BY <1>8, <2>1 DEF Founded, PlanMade
<1>13. Drained(m1, a) BY <1>8 DEF Founded, Drained
<1>14. Judged(m1, a) BY <1>8 DEF Founded, Judged, Ending
<1>15. \A k \in 1 .. Len(queue) : num[queue[k]] > 0
  <2> SUFFICES ASSUME NEW k \in 1 .. Len(queue) PROVE num[queue[k]] > 0 OBVIOUS
  <2>1. CASE k \in 1 .. Len(m.queue)
    <3>1. m.n[m.queue[k]] > 0 BY <2>1 DEF Founded, QueueMade
    <3>2. queue[k] = m.queue[k] /\ m.queue[k] \in Tickets BY <1>5, <2>1
    <3> QED BY <1>4, <1>6, <3>1, <3>2
  <2>2. CASE k = Len(m.queue) + 1 BY <1>1, <1>4, <1>5, <1>6, <2>2
  <2> QED BY <1>5, <2>1, <2>2
<1>16. m.resume = FALSE => Len(queue) = m.i /\ \A k \in 1 .. m.i : queue[k] = k
  <2> SUFFICES ASSUME m.resume = FALSE
               PROVE  Len(queue) = m.i /\ \A k \in 1 .. m.i : queue[k] = k
    OBVIOUS
  <2>1. Len(m.queue) = m.i - 1 /\ \A k \in 1 .. m.i - 1 : m.queue[k] = k
    BY DEF Founded, QueueMade
  <2>2. Len(queue) = m.i BY <1>2, <1>5, <2>1
  <2>3. ASSUME NEW k \in 1 .. m.i PROVE queue[k] = k
    <3>1. CASE k = m.i BY <1>2, <1>5, <2>1, <3>1
    <3>2. CASE k \in 1 .. m.i - 1
      <4>1. k \in 1 .. Len(m.queue) BY <2>1, <3>2
      <4> QED BY <1>5, <2>1, <3>2, <4>1
    <3> QED BY <1>2, <3>1, <3>2
  <2> QED BY <2>2, <2>3
<1> QED BY <1>1, <1>8, <1>9, <1>10, <1>11, <1>12, <1>13, <1>14, <1>15, <1>16 DEF Told

\* The drain starts an attempt, or finds nothing to drain.
LEMMA DrainMoves ==
  ASSUME NEW a, NEW m \in Memory, Founded(m, a), m.pc = "drain",
         NEW pc \in {"running", "account"}, (pc = "running") <=> (m.queue # <<>>),
         NEW m2, m2 = Placed(m, pc)
  PROVE  m2 \in Memory /\ Founded(m2, a)
<1>1. pc \in Pcs BY DEF Pcs
<1>2. /\ m2 \in Memory
      /\ m2.pc = pc /\ m2.resume = m.resume /\ m2.i = m.i /\ m2.seen = m.seen
      /\ m2.plan = m.plan /\ m2.n = m.n /\ m2.queue = m.queue /\ m2.entry = m.entry
      /\ m2.whole = m.whole /\ m2.done = m.done /\ m2.failed = m.failed
      /\ m2.recovered = m.recovered /\ m2.delivering = m.delivering /\ m2.verdict = m.verdict
  BY <1>1, PlaceMoves
<1>3. Numbered(m2, a) BY <1>2 DEF Founded, Numbered
<1>4. m.i \in 1 .. Len(m.queue) \/ (m.queue = <<>> /\ m.i = 1) BY DEF Founded, Positioned
<1>5. Positioned(m2) BY <1>2, <1>4 DEF Positioned, Planning
<1>6. PlanMade(m2) BY <1>2 DEF Founded, PlanMade, Planning, Draining, Attempted
<1>7. QueueMade(m2) BY <1>2 DEF Founded, QueueMade, Early, Planning, Draining
<1>8. CountedDone(m2) = CountedDone(m) BY <1>2 DEF CountedDone, Passed
<1>9. Counted(m2) BY <1>2, <1>8 DEF Founded, Counted, Early, Planning, Draining, Ending
<1>10. Drained(m2, a) BY <1>2 DEF Founded, Drained
<1>11. Judged(m2, a) BY <1>2 DEF Founded, Judged, Ending
<1> QED BY <1>2, <1>3, <1>5, <1>6, <1>7, <1>9, <1>10, <1>11 DEF Founded

\* An entry settles: the drain goes on only behind a terminal record.
LEMMA EntrySettles ==
  ASSUME NEW a \in [Tickets -> Seq(AttemptRow)], NEW m \in Memory, Founded(m, a),
         m.pc \in {"drain", "running"}, m.queue # <<>>,
         NEW result \in {"completed", "failed", "unrun"}, NEW last \in BOOLEAN,
         m.i = Len(m.queue) => last = TRUE,
         result = "completed" => PromotedIn(a, m.queue[m.i]),
         last = FALSE /\ result # "unrun" => a[m.queue[m.i]][m.n[m.queue[m.i]]].record # "none",
         NEW m2, m2 = Settled(m, result, last)
  PROVE  m2 \in Memory /\ Founded(m2, a)
<1> DEFINE pc == IF last THEN "account" ELSE "drain"
           i == IF last THEN 1 ELSE m.i + 1
           t == m.queue[m.i]
           entry == [m.entry EXCEPT ![t] = result]
<1>1. /\ m.queue \in Seq(Tickets) /\ m.i \in Nat
      /\ m.entry \in [Tickets -> {"none", "completed", "failed", "unrun"}]
  BY DEF Memory
<1>2. m.i \in 1 .. Len(m.queue) /\ Len(m.queue) \in Nat BY <1>1 DEF Founded, Positioned
<1>3. t \in Tickets BY <1>1, <1>2
<1>4. pc \in Pcs /\ i \in Nat BY <1>1 DEF Pcs
<1>5. /\ entry \in [Tickets -> {"none", "completed", "failed", "unrun"}]
      /\ \A u \in Tickets : entry[u] = IF u = t THEN result ELSE m.entry[u]
  BY <1>1, <1>3
<1>6. m2 = [m EXCEPT !.pc = pc, !.i = i, !.entry = entry] BY DEF Settled
<1>7. /\ last = TRUE => pc = "account" /\ i = 1
      /\ last = FALSE => pc = "drain" /\ i = m.i + 1
  OBVIOUS
<1>8. /\ result = "completed" => PromotedIn(a, t)
      /\ last = FALSE /\ result # "unrun" => a[t][m.n[t]].record # "none"
  OBVIOUS
<1> HIDE DEF pc, i, t, entry
<1>9. /\ m2 \in Memory
      /\ m2.pc = pc /\ m2.i = i /\ m2.resume = m.resume /\ m2.seen = m.seen
      /\ m2.plan = m.plan /\ m2.n = m.n /\ m2.queue = m.queue /\ m2.entry = entry
      /\ m2.whole = m.whole /\ m2.done = m.done /\ m2.failed = m.failed
      /\ m2.recovered = m.recovered /\ m2.delivering = m.delivering /\ m2.verdict = m.verdict
  BY <1>4, <1>5, <1>6 DEF Memory
<1>10. m2.pc \in {"account", "drain"} BY <1>7, <1>9
<1>11. Numbered(m2, a) BY <1>9 DEF Founded, Numbered
<1>12. Positioned(m2)
  <2>1. CASE last = TRUE BY <1>7, <1>9, <2>1 DEF Positioned, Planning
  <2>2. CASE last = FALSE
    <3>1. m.i + 1 \in 1 .. Len(m.queue) BY <1>2, <2>2
    <3> QED BY <1>7, <1>9, <2>2, <3>1 DEF Positioned, Planning
  <2> QED BY <2>1, <2>2
<1>13. PlanMade(m2) BY <1>9, <1>10 DEF Founded, PlanMade, Planning, Draining, Attempted
<1>14. QueueMade(m2) BY <1>9, <1>10 DEF Founded, QueueMade, Early, Planning, Draining
<1>15. CountedDone(m2) = CountedDone(m) BY <1>9, <1>10 DEF CountedDone, Passed
<1>16. Counted(m2)
  BY <1>9, <1>10, <1>15 DEF Founded, Counted, Early, Planning, Draining, Ending
<1>17. Drained(m2, a)
  <2>1. \A u \in Tickets : entry[u] = "completed" => PromotedIn(a, u)
    BY <1>5, <1>8 DEF Founded, Drained
  <2>2. ASSUME m2.pc \in {"drain", "running"}, NEW k \in 1 .. m2.i - 1,
               entry[m.queue[k]] # "unrun"
        PROVE  a[m.queue[k]][m.n[m.queue[k]]].record # "none"
    <3>1. last = FALSE /\ m2.i = m.i + 1 BY <1>7, <1>9, <2>2
    <3>2. k \in 1 .. m.i BY <1>1, <3>1
    <3>3. CASE m.queue[k] = t
      <4>1. result # "unrun" BY <1>3, <1>5, <2>2, <3>3
      <4> QED BY <1>8, <3>1, <3>3, <4>1
    <3>4. CASE m.queue[k] # t
      <4>1. k \in 1 .. m.i - 1 BY <1>1, <3>2, <3>4 DEF t
      <4>2. m.queue[k] \in Tickets BY <1>1, <1>2, <3>2
      <4>3. m.entry[m.queue[k]] # "unrun" BY <1>5, <2>2, <3>4, <4>2
      <4> QED BY <4>1, <4>3 DEF Founded, Drained
    <3> QED BY <3>3, <3>4
  <2> QED BY <1>9, <2>1, <2>2 DEF Drained
<1>18. Judged(m2, a) BY <1>9, <1>10 DEF Founded, Judged, Ending
<1> QED BY <1>9, <1>11, <1>12, <1>13, <1>14, <1>16, <1>17, <1>18 DEF Founded

\* The delivery flow, and the cleanup chain of a pipeline.
LEMMA EndingMoves ==
  ASSUME NEW a, NEW m \in Memory, Founded(m, a), m.pc \in Ending, NEW pc \in Ending,
         NEW delivering \in BOOLEAN, NEW issues \in SUBSET Classes, m.issues \subseteq issues,
         delivering = TRUE => m.delivering = TRUE \/ m.failed = 0,
         NEW m2, m2 = Closing(m, pc, delivering, issues)
  PROVE  m2 \in Memory /\ Founded(m2, a)
<1>1. pc \in Pcs BY DEF Pcs, Ending
<1>2. /\ m2 \in Memory
      /\ m2.pc = pc /\ m2.resume = m.resume /\ m2.i = m.i /\ m2.seen = m.seen
      /\ m2.plan = m.plan /\ m2.n = m.n /\ m2.queue = m.queue /\ m2.entry = m.entry
      /\ m2.whole = m.whole /\ m2.done = m.done /\ m2.failed = m.failed
      /\ m2.recovered = m.recovered /\ m2.issues = issues
      /\ m2.delivering = delivering /\ m2.verdict = m.verdict
  BY <1>1 DEF Memory, Closing
<1>3. Numbered(m2, a) BY <1>2 DEF Founded, Numbered
<1>4. Positioned(m2) BY <1>2 DEF Positioned, Planning, Ending
<1>5. PlanMade(m2) BY <1>2 DEF Founded, PlanMade, Planning, Draining, Attempted, Ending
<1>6. QueueMade(m2) BY <1>2 DEF Founded, QueueMade, Early, Planning, Draining, Ending
<1>7. Counted(m2) BY <1>2 DEF Counted, Early, Planning, Draining, Ending
<1>8. Drained(m2, a) BY <1>2 DEF Founded, Drained, Ending
<1>9. Judged(m2, a)
  <2>1. issues = {} => m.issues = {} OBVIOUS
  <2> QED BY <1>2, <2>1 DEF Founded, Judged
<1> QED BY <1>2, <1>3, <1>4, <1>5, <1>6, <1>7, <1>8, <1>9 DEF Founded

\* Only the place changes at the end.
LEMMA EndingPlaced ==
  ASSUME NEW a, NEW m \in Memory, Founded(m, a), m.pc \in Ending, NEW pc \in Ending,
         NEW m2, m2 = Placed(m, pc)
  PROVE  m2 \in Memory /\ Founded(m2, a)
<1>1. pc \in Pcs BY DEF Pcs, Ending
<1>2. /\ m2 \in Memory
      /\ m2.pc = pc /\ m2.resume = m.resume /\ m2.i = m.i /\ m2.seen = m.seen
      /\ m2.plan = m.plan /\ m2.n = m.n /\ m2.queue = m.queue /\ m2.entry = m.entry
      /\ m2.whole = m.whole /\ m2.done = m.done /\ m2.failed = m.failed
      /\ m2.recovered = m.recovered /\ m2.issues = m.issues
      /\ m2.delivering = m.delivering /\ m2.verdict = m.verdict
  BY <1>1, PlaceMoves
<1>3. Numbered(m2, a) BY <1>2 DEF Founded, Numbered
<1>4. Positioned(m2) BY <1>2 DEF Positioned, Planning, Ending
<1>5. PlanMade(m2) BY <1>2 DEF Founded, PlanMade, Planning, Draining, Attempted, Ending
<1>6. QueueMade(m2) BY <1>2 DEF Founded, QueueMade, Early, Planning, Draining, Ending
<1>7. Counted(m2) BY <1>2 DEF Counted, Early, Planning, Draining, Ending
<1>8. Drained(m2, a) BY <1>2 DEF Founded, Drained, Ending
<1>9. Judged(m2, a) BY <1>2 DEF Founded, Judged
<1> QED BY <1>2, <1>3, <1>4, <1>5, <1>6, <1>7, <1>8, <1>9 DEF Founded

-----------------------------------------------------------------------------
(* The accounting.                                                         *)

QueuedIn(m) == {m.queue[k] : k \in DOMAIN m.queue}
CompletedIn(m) == {t \in QueuedIn(m) : m.entry[t] = "completed"}
FailedIn(m) ==
  {t \in Tickets : t \notin QueuedIn(m) /\ m.plan[t] \in Attempted /\ t \notin m.whole}
    \cup {t \in QueuedIn(m) : m.entry[t] # "completed"}
AwaitingIn(m) == {t \in Tickets \ QueuedIn(m) : m.plan[t] = "await_reconciliation"}

\* The queue holds tickets; that of a fresh build holds them all.
LEMMA QueueHolds ==
  ASSUME NEW a, NEW m \in Memory, Founded(m, a), m.pc = "account"
  PROVE  QueuedIn(m) \subseteq Tickets /\ (m.resume = FALSE => QueuedIn(m) = Tickets)
<1>1. m.queue \in Seq(Tickets) BY DEF Memory
<1>2. DOMAIN m.queue = 1 .. Len(m.queue) /\ \A k \in 1 .. Len(m.queue) : m.queue[k] \in Tickets
  BY <1>1
<1>3. QueuedIn(m) \subseteq Tickets BY <1>2 DEF QueuedIn
<1>4. ASSUME m.resume = FALSE, NEW t \in Tickets PROVE t \in QueuedIn(m)
  <2>1. Len(m.queue) = N /\ m.queue[t] = t BY <1>4 DEF Founded, QueueMade, Draining
  <2>2. t \in DOMAIN m.queue BY <1>2, <2>1 DEF Tickets
  <2> QED BY <2>1, <2>2 DEF QueuedIn
<1> QED BY <1>3, <1>4

\* Every ticket is counted somewhere.
LEMMA EveryTicketCounted ==
  ASSUME NEW a, NEW m \in Memory, Founded(m, a), m.pc = "account"
  PROVE  Tickets \subseteq CountedDone(m) \cup CompletedIn(m) \cup FailedIn(m) \cup AwaitingIn(m)
<1> SUFFICES ASSUME NEW t \in Tickets
             PROVE  \/ t \in CountedDone(m) \/ t \in CompletedIn(m)
                    \/ t \in FailedIn(m) \/ t \in AwaitingIn(m)
  OBVIOUS
<1>1. CASE t \in QueuedIn(m) BY <1>1 DEF CompletedIn, FailedIn
<1>2. CASE t \notin QueuedIn(m)
  <2>1. m.resume = TRUE BY <1>2, QueueHolds DEF Memory
  <2>2. m.plan[t] \in Actions /\ m.plan[t] # "none"
    BY <2>1 DEF Memory, Founded, PlanMade, Draining
  <2>3. m.plan[t] \in {"complete", "await_reconciliation"} \cup Attempted
    BY <2>2 DEF Actions, Attempted
  <2>4. CountedDone(m) = DoneAmong(Tickets, m.plan, m.whole) BY DEF CountedDone, Passed
  <2> QED BY <1>2, <2>3, <2>4 DEF DoneAmong, FailedIn, AwaitingIn, Attempted
<1> QED BY <1>1, <1>2

\* Two disjoint sets of tickets.
LEMMA CountUnion ==
  ASSUME NEW S, NEW T, IsFiniteSet(S), IsFiniteSet(T)
  PROVE  /\ IsFiniteSet(S \cup T) /\ Cardinality(S \cup T) \in Nat
         /\ Cardinality(S) \in Nat /\ Cardinality(T) \in Nat
         /\ Cardinality(S \cup T) <= Cardinality(S) + Cardinality(T)
         /\ S \cap T = {} => Cardinality(S \cup T) = Cardinality(S) + Cardinality(T)
<1>1. /\ IsFiniteSet(S \cup T)
      /\ Cardinality(S \cup T) = Cardinality(S) + Cardinality(T) - Cardinality(S \cap T)
  BY FS_Union
<1>2. IsFiniteSet(S \cap T) BY FS_Intersection
<1>3. /\ Cardinality(S) \in Nat /\ Cardinality(T) \in Nat /\ Cardinality(S \cap T) \in Nat
      /\ Cardinality(S \cup T) \in Nat
  BY <1>1, <1>2, FS_CardinalityType
<1>4. S \cap T = {} => Cardinality(S \cap T) = 0 BY FS_EmptySet
<1> QED BY <1>1, <1>3, <1>4

\* The totals reach the number of tickets, and at most twice that.
LEMMA TotalsAddUp ==
  ASSUME NEW a, NEW m \in Memory, Founded(m, a), m.pc = "account"
  PROVE  LET done == m.done + Cardinality(CompletedIn(m))
             failed == m.failed + Cardinality(FailedIn(m))
             recovered == Cardinality(AwaitingIn(m))
         IN  /\ done \in Nat /\ failed \in Nat /\ recovered \in Nat
             /\ done + failed + recovered >= N
             /\ done + failed + recovered <= 2 * N
<1> DEFINE D == CountedDone(m)  C == CompletedIn(m)  F == FailedIn(m)  A == AwaitingIn(m)
<1>1. N \in Nat /\ IsFiniteSet(Tickets) /\ Cardinality(Tickets) = N
  <2>1. N \in Nat /\ 1 \in Int /\ N \in Int /\ ~(1 > N) /\ N - 1 + 1 = N BY BuildAssumption
  <2>2. IsFiniteSet(1 .. N) /\ Cardinality(1 .. N) = IF 1 > N THEN 0 ELSE N - 1 + 1
    BY <2>1, FS_Interval
  <2> QED BY <2>1, <2>2 DEF Tickets
<1>2. QueuedIn(m) \subseteq Tickets BY QueueHolds
<1>3. D \subseteq Tickets BY DEF CountedDone, DoneAmong, Passed
<1>4. C \subseteq Tickets /\ F \subseteq Tickets /\ A \subseteq Tickets
  BY <1>2 DEF CompletedIn, FailedIn, AwaitingIn
<1>5. C \cap F = {} /\ (C \cup F) \cap A = {}
  BY DEF CompletedIn, FailedIn, AwaitingIn, Attempted
<1>6. Tickets \subseteq D \cup (C \cup F \cup A) BY EveryTicketCounted
<1>7. m.done \in Nat /\ m.failed \in Nat BY DEF Memory
<1>8. m.done >= Cardinality(D) /\ m.done + m.failed <= N BY DEF Founded, Counted, Draining
<1> HIDE DEF D, C, F, A
<1>9. IsFiniteSet(D) /\ IsFiniteSet(C) /\ IsFiniteSet(F) /\ IsFiniteSet(A)
  BY <1>1, <1>3, <1>4, FS_Subset
<1>10. /\ IsFiniteSet(C \cup F) /\ Cardinality(C \cup F) = Cardinality(C) + Cardinality(F)
       /\ Cardinality(C) \in Nat /\ Cardinality(F) \in Nat /\ Cardinality(C \cup F) \in Nat
  BY <1>5, <1>9, CountUnion
<1>11. /\ IsFiniteSet(C \cup F \cup A) /\ Cardinality(A) \in Nat
       /\ Cardinality(C \cup F \cup A) = Cardinality(C) + Cardinality(F) + Cardinality(A)
  BY <1>5, <1>9, <1>10, CountUnion
<1>12. /\ IsFiniteSet(D \cup (C \cup F \cup A)) /\ Cardinality(D) \in Nat
       /\ Cardinality(D \cup (C \cup F \cup A)) \in Nat
       /\ Cardinality(D \cup (C \cup F \cup A)) <= Cardinality(D) + Cardinality(C \cup F \cup A)
  BY <1>9, <1>11, CountUnion
<1>13. N <= Cardinality(D \cup (C \cup F \cup A)) BY <1>1, <1>6, <1>12, FS_Subset
<1>14. Cardinality(C \cup F \cup A) <= N
  <2>1. C \cup F \cup A \subseteq Tickets BY <1>4
  <2> QED BY <1>1, <2>1, FS_Subset
<1>15. /\ m.done + Cardinality(C) \in Nat /\ m.failed + Cardinality(F) \in Nat
       /\ Cardinality(A) \in Nat
  BY <1>7, <1>10, <1>11
<1>16. (m.done + Cardinality(C)) + (m.failed + Cardinality(F)) + Cardinality(A) >= N
  BY <1>1, <1>7, <1>8, <1>10, <1>11, <1>12, <1>13
<1>17. (m.done + Cardinality(C)) + (m.failed + Cardinality(F)) + Cardinality(A) <= 2 * N
  BY <1>1, <1>7, <1>8, <1>10, <1>11, <1>14
<1> QED BY <1>15, <1>16, <1>17 DEF C, F, A

\* A fresh build in which nothing failed has promoted every ticket.
LEMMA NothingFailed ==
  ASSUME NEW a, NEW m \in Memory, Founded(m, a), m.pc = "account", m.resume = FALSE,
         Cardinality(FailedIn(m)) = 0
  PROVE  AllPromoted(a)
<1>1. IsFiniteSet(Tickets) /\ N \in Nat
  <2>1. N \in Nat /\ 1 \in Int /\ N \in Int BY BuildAssumption
  <2> QED BY <2>1, FS_Interval DEF Tickets
<1>2. QueuedIn(m) = Tickets BY QueueHolds
<1>3. FailedIn(m) \subseteq Tickets BY <1>2 DEF FailedIn
<1>4. IsFiniteSet(FailedIn(m)) BY <1>1, <1>3, FS_Subset
<1>5. FailedIn(m) = {} BY <1>4, FS_EmptySet
<1>6. ASSUME NEW t \in Tickets PROVE PromotedIn(a, t)
  <2>1. m.entry[t] = "completed" BY <1>2, <1>5 DEF FailedIn
  <2> QED BY <2>1 DEF Founded, Drained
<1> QED BY <1>6 DEF AllPromoted

\* The memory after the accounting.
LEMMA AccountFounded ==
  ASSUME NEW a \in [Tickets -> Seq(AttemptRow)], NEW m2 \in Memory,
         m2.pc = "deliver", m2.done + m2.failed + m2.recovered >= N,
         m2.done + m2.failed + m2.recovered <= 2 * N,
         m2.resume = FALSE /\ (m2.failed = 0 \/ m2.issues = {}) => AllPromoted(a),
         Blank(m2), m2.delivering = FALSE, m2.verdict = "none"
  PROVE  Founded(m2, a)
<1>1. NoRow.n = 0 /\ \A t \in Tickets : Len(a[t]) \in Nat BY DEF NoRow
<1>2. Numbered(m2, a) BY <1>1 DEF Blank, Numbered
<1>3. Positioned(m2) BY DEF Positioned, Planning
<1>4. PlanMade(m2) BY DEF Blank, PlanMade, Planning, Draining, Attempted
<1>5. QueueMade(m2) BY DEF Blank, QueueMade, Early, Planning, Draining
<1>6. Counted(m2) BY DEF Counted, Early, Planning, Draining, Ending
<1>7. Drained(m2, a) BY DEF Blank, Drained
<1>8. Judged(m2, a) BY DEF Judged
<1> QED BY <1>2, <1>3, <1>4, <1>5, <1>6, <1>7, <1>8 DEF Founded

-----------------------------------------------------------------------------
(* The steps of a build.                                                   *)

\* The outcome is success exactly when there is no issue.
LEMMA OutcomeFounded ==
  ASSUME NEW issues \in SUBSET Classes
  PROVE  /\ AggregateRunOutcome(issues) \in Classes \cup {"success"}
         /\ AggregateRunOutcome(issues) = "success" => issues = {}
<1>1. CASE issues = {} BY <1>1 DEF AggregateRunOutcome
<1>2. CASE issues # {}
  <2> DEFINE P(i) == /\ PRIMARY_PRECEDENCE[i] \in issues
                     /\ \A j \in 1 .. i - 1 : PRIMARY_PRECEDENCE[j] \notin issues
             first == CHOOSE i \in DOMAIN PRIMARY_PRECEDENCE : P(i)
  <2>1. DOMAIN PRIMARY_PRECEDENCE = 1 .. 6 BY DEF PRIMARY_PRECEDENCE
  <2>2. PICK c \in issues : TRUE BY <1>2
  <2>3. c \in {PRIMARY_PRECEDENCE[i] : i \in 1 .. 6} BY <2>1, <2>2 DEF Classes
  <2>4. \E i \in 1 .. 6 : PRIMARY_PRECEDENCE[i] \in issues BY <2>2, <2>3
  <2>5. \E i \in 1 .. 6 : P(i)
    <3> DEFINE Q(i) == PRIMARY_PRECEDENCE[i] \in issues
    <3>1. Q(1) \/ Q(2) \/ Q(3) \/ Q(4) \/ Q(5) \/ Q(6) BY <2>4
    <3>2. \A i \in 1 .. 6 : P(i) <=> Q(i) /\ \A j \in 1 .. i - 1 : ~Q(j) OBVIOUS
    <3> HIDE DEF P, Q
    <3> QED BY <3>1, <3>2
  <2>6. first \in DOMAIN PRIMARY_PRECEDENCE /\ P(first) BY <2>1, <2>5
  <2>7. PRIMARY_PRECEDENCE[first] \in Classes BY <2>6 DEF Classes
  <2>8. AggregateRunOutcome(issues) = PRIMARY_PRECEDENCE[first]
    BY <1>2 DEF AggregateRunOutcome
  <2>9. "success" \notin Classes BY <2>1 DEF Classes, PRIMARY_PRECEDENCE
  <2> HIDE DEF first
  <2> QED BY <2>7, <2>8, <2>9
<1> QED BY <1>1, <1>2

\* The rows stay well formed, and grow.
Steady == AttemptsInv' /\ TicketsTyped' /\ Grow(attempts, attempts')

\* What every build has, under the invariant.
LEMMA BuildHas ==
  ASSUME BuildInv, NEW p \in Builders
  PROVE  /\ b[p] \in Memory /\ Founded(b[p], attempts)
         /\ attempts \in [Tickets -> Seq(AttemptRow)]
BY DEF BuildInv, AttemptsInv, AttemptsTyped

\* One build moves and the rows grow: what the others remember stays true.
LEMMA OneBuildMoves ==
  ASSUME BuildInv, Steady, NEW p \in Builders, NEW m \in Memory, Becomes(p, m),
         Founded(m, attempts')
  PROVE  BuildInv'
<1>1. /\ b \in [Builders -> Memory] /\ \A q \in Builders : Founded(b[q], attempts)
      /\ attempts \in [Tickets -> Seq(AttemptRow)]
  BY DEF BuildInv, AttemptsInv, AttemptsTyped
<1>2. attempts' \in [Tickets -> Seq(AttemptRow)] /\ Grow(attempts, attempts')
  BY DEF Steady, AttemptsInv, AttemptsTyped
<1>3. b' = [b EXCEPT ![p] = m] BY DEF Becomes
<1>4. b' \in [Builders -> Memory] /\ \A q \in Builders : b'[q] = IF q = p THEN m ELSE b[q]
  BY <1>1, <1>3
<1>5. ASSUME NEW q \in Builders PROVE Founded(b'[q], attempts')
  <2>1. CASE q = p BY <1>4, <2>1
  <2>2. CASE q # p
    <3>1. b[q] \in Memory /\ Founded(b[q], attempts) /\ b'[q] = b[q] BY <1>1, <1>4, <2>2
    <3> QED BY <1>1, <1>2, <3>1, FoundedLasts
  <2> QED BY <2>1, <2>2
<1> QED BY <1>4, <1>5 DEF BuildInv, Steady

\* No build moves.
LEMMA NoBuildMoves ==
  ASSUME BuildInv, Steady, b' = b
  PROVE  BuildInv'
<1>1. /\ b \in [Builders -> Memory] /\ \A q \in Builders : Founded(b[q], attempts)
      /\ attempts \in [Tickets -> Seq(AttemptRow)]
  BY DEF BuildInv, AttemptsInv, AttemptsTyped
<1>2. attempts' \in [Tickets -> Seq(AttemptRow)] /\ Grow(attempts, attempts')
  BY DEF Steady, AttemptsInv, AttemptsTyped
<1>3. ASSUME NEW q \in Builders PROVE Founded(b[q], attempts')
  BY <1>1, <1>2, FoundedLasts
<1> QED BY <1>1, <1>3 DEF BuildInv, Steady

\* A build ends with a verdict.
LEMMA FinishBuildStep ==
  ASSUME BuildInv, Steady, NEW p \in Builders, NEW issues \in SUBSET Classes,
         FinishBuild(p, issues),
         b[p].resume = FALSE /\ (b[p].delivering = TRUE \/ issues = {}) => AllPromoted(attempts')
  PROVE  BuildInv'
<1> DEFINE verdict == AggregateRunOutcome(issues)
           m == Over(b[p].resume, b[p].delivering, verdict)
<1>1. /\ verdict \in Classes \cup {"none", "success", "threw"}
      /\ verdict = "success" => issues = {}
  BY OutcomeFounded
<1>2. b[p].resume \in BOOLEAN /\ b[p].delivering \in BOOLEAN BY BuildHas DEF Memory
<1>3. Becomes(p, m) BY DEF FinishBuild, Over
<1>4. /\ m \in Memory /\ Blank(m) /\ m.done = 0 /\ m.failed = 0 /\ m.recovered = 0
      /\ m.pc = "idle" /\ m.resume = b[p].resume /\ m.delivering = b[p].delivering
      /\ m.verdict = verdict
  <2> HIDE DEF verdict
  <2> QED BY <1>1, <1>2, IdleMemory
<1>5. attempts' \in [Tickets -> Seq(AttemptRow)] BY DEF Steady, AttemptsInv, AttemptsTyped
<1> HIDE DEF m, verdict
<1>6. Founded(m, attempts') BY <1>1, <1>4, <1>5, BlankFounded
<1> QED BY <1>3, <1>4, <1>6, OneBuildMoves

\* The gates refuse with an issue.
LEMMA GateSteps ==
  ASSUME BuildInv, Steady, NEW p \in Builders,
         PlanRefused(p) \/ PolicyAttachmentRefused(p) \/ StateAuthorityRefused(p)
  PROVE  BuildInv'
<1>1. b[p].pc = "gates"
  BY DEF PlanRefused, PolicyAttachmentRefused, StateAuthorityRefused
<1>2. b[p].delivering = TRUE /\ b[p].resume = FALSE => AllPromoted(attempts')
  <2>1. b[p].delivering = TRUE /\ b[p].resume = FALSE => AllPromoted(attempts)
    BY BuildHas DEF Founded, Judged
  <2> QED BY <2>1, PromotionLasts DEF Steady, AllPromoted, BuildInv, AttemptsInv, AttemptsTyped
<1>3. {"input_contract", "infrastructure", "execution", "verification"} \subseteq Classes
  BY DEF Classes, PRIMARY_PRECEDENCE
<1>4. PICK class \in {"input_contract", "infrastructure", "execution", "verification"} :
        FinishBuild(p, {class})
  BY DEF PlanRefused, PolicyAttachmentRefused, StateAuthorityRefused
<1>5. {class} \in SUBSET Classes /\ {class} # {} BY <1>3
<1> QED BY <1>2, <1>4, <1>5, FinishBuildStep

\* What a build remembers is true of the rows after the step.
LEMMA RowsAfter ==
  ASSUME BuildInv, Steady, NEW p \in Builders
  PROVE  Founded(b[p], attempts') /\ attempts' \in [Tickets -> Seq(AttemptRow)]
<1>1. /\ b[p] \in Memory /\ Founded(b[p], attempts)
      /\ attempts \in [Tickets -> Seq(AttemptRow)]
  BY BuildHas
<1>2. attempts' \in [Tickets -> Seq(AttemptRow)] /\ Grow(attempts, attempts')
  BY DEF Steady, AttemptsInv, AttemptsTyped
<1> QED BY <1>1, <1>2, FoundedLasts

\* A build begins, dies, or leaves the run that is followed.
LEMMA StartSteps ==
  ASSUME BuildInv, Steady, NEW p \in Builders,
         \/ \E resume \in BOOLEAN : StartBuild(p, resume)
         \/ Crash(p)
         \/ OtherRun(p)
  PROVE  BuildInv'
<1>1. attempts' \in [Tickets -> Seq(AttemptRow)] BY RowsAfter
<1>2. ASSUME NEW resume \in BOOLEAN, StartBuild(p, resume) PROVE BuildInv'
  <2> DEFINE m == Begun(resume)
  <2>1. Becomes(p, m) BY <1>2 DEF StartBuild, Begun
  <2>2. /\ m \in Memory /\ Blank(m) /\ m.done = 0 /\ m.failed = 0 /\ m.recovered = 0
        /\ m.pc = "gates" /\ m.resume = resume /\ m.delivering = FALSE /\ m.verdict = "none"
    BY StartMemory
  <2> HIDE DEF m
  <2>3. Founded(m, attempts') BY <1>1, <2>2, BlankFounded
  <2> QED BY <2>1, <2>2, <2>3, OneBuildMoves
<1>3. CASE Crash(p)
  <2> DEFINE m == [Ended EXCEPT !.verdict = "threw"]
  <2>1. m \in Memory BY EndedMemory DEF Memory
  <2>2. Becomes(p, m) BY <1>3 DEF Crash
  <2>3. /\ m.done = 0 /\ m.failed = 0 /\ m.recovered = 0
        /\ m.pc = "idle" /\ m.delivering = FALSE /\ m.verdict = "threw"
    BY DEF Ended
  <2>4. Blank(m) BY DEF Blank, Ended
  <2> HIDE DEF m
  <2>5. Founded(m, attempts') BY <1>1, <2>1, <2>3, <2>4, BlankFounded
  <2> QED BY <2>1, <2>2, <2>5, OneBuildMoves
<1>4. CASE OtherRun(p)
  <2>1. /\ Ended.done = 0 /\ Ended.failed = 0 /\ Ended.recovered = 0 /\ Ended.pc = "idle"
        /\ Ended.delivering = FALSE /\ Ended.verdict = "none"
    BY DEF Ended
  <2>2. Founded(Ended, attempts') BY <1>1, <2>1, EndedMemory, EndedBlank, BlankFounded
  <2>3. Becomes(p, Ended) BY <1>4 DEF OtherRun
  <2> QED BY <2>2, <2>3, EndedMemory, OneBuildMoves
<1> QED BY <1>2, <1>3, <1>4

\* A fresh build allocates the run.
LEMMA AllocateFreshRunStep ==
  ASSUME BuildInv, Steady, NEW p \in Builders, AllocateFreshRun(p)
  PROVE  BuildInv'
<1> DEFINE m == b[p]  m2 == Placed(m, "probe")
<1>1. Becomes(p, m2) /\ m.pc = "gates" /\ m.resume # TRUE BY DEF AllocateFreshRun, Placed
<1>2. m \in Memory /\ Founded(m, attempts') BY BuildHas, RowsAfter
<1>3. m.resume = FALSE BY <1>1, <1>2 DEF Memory
<1> HIDE DEF m
<1>4. m2 \in Memory /\ Founded(m2, attempts') BY <1>1, <1>2, <1>3, FreshProbe
<1> HIDE DEF m2
<1> QED BY <1>1, <1>4, OneBuildMoves

\* The latest attempt of a ticket, as a snapshot sees it.
LEMMA LatestSeen ==
  ASSUME BuildInv, NEW t \in Tickets
  PROVE  Latest(t) \in SeenRow /\ Latest(t).n \in 0 .. Len(attempts[t])
<1>1. attempts[t] \in Seq(AttemptRow) /\ Len(attempts[t]) \in Nat
      /\ ticket[t] \in {"planned", "active", "cleanup_pending"}
  BY DEF BuildInv, AttemptsInv, AttemptsTyped, TicketsTyped
<1>2. CASE attempts[t] = <<>> BY <1>1, <1>2 DEF Latest, NoRow, SeenRow
<1>3. CASE attempts[t] # <<>>
  <2>1. Len(attempts[t]) > 0 BY <1>1, <1>3
  <2>2. attempts[t][Len(attempts[t])] \in AttemptRow BY <1>1, <2>1
  <2>3. attempts[t][Len(attempts[t])].state \in AttemptStates BY <2>2 DEF AttemptRow
  <2> QED BY <1>1, <1>3, <2>1, <2>3 DEF Latest, SeenRow
<1> QED BY <1>2, <1>3

\* A resumed build takes its snapshot, or hits the resume gate.
LEMMA SelectCompatibleResumeStep ==
  ASSUME BuildInv, Steady, NEW p \in Builders, SelectCompatibleResume(p)
  PROVE  BuildInv'
<1> DEFINE m == b[p]  seen == [t \in Tickets |-> Latest(t)]  m2 == Snapshot(m, seen)
<1>1. m.pc = "gates" /\ m.resume /\ attempts' = attempts
  BY DEF SelectCompatibleResume, rows
<1>2. m \in Memory /\ Founded(m, attempts) BY BuildHas
<1>3. m.resume = TRUE BY <1>1, <1>2 DEF Memory
<1>4. CASE FinishBuild(p, {"input_contract"})
  <2>1. {"input_contract"} \in SUBSET Classes BY DEF Classes, PRIMARY_PRECEDENCE
  <2> QED BY <1>3, <1>4, <2>1, FinishBuildStep
<1>5. CASE Becomes(p, [b[p] EXCEPT !.pc = "plan", !.seen = [t \in Tickets |-> Latest(t)]])
  <2>1. Becomes(p, m2) BY <1>5 DEF Snapshot
  <2>2. /\ seen \in [Tickets -> SeenRow]
        /\ \A t \in Tickets : seen[t].n \in 0 .. Len(attempts[t])
    BY LatestSeen
  <2> HIDE DEF m, seen
  <2>3. m2 \in Memory /\ Founded(m2, attempts) BY <1>1, <1>2, <1>3, <2>2, SnapshotTaken
  <2> HIDE DEF m2
  <2> QED BY <1>1, <2>1, <2>3, OneBuildMoves
<1> QED BY <1>4, <1>5 DEF SelectCompatibleResume

\* The row of a settled plan.
LEMMA DecideStep ==
  ASSUME BuildInv, Steady, NEW p \in Builders, b[p].pc \in Planning,
         NEW action \in Actions \ {"none"}, NEW n \in 0 .. Len(attempts'[b[p].i]),
         action \in Attempted => n > 0, Decide(p, action, n)
  PROVE  BuildInv'
<1> DEFINE m == b[p]  m2 == Decided(m, action, n)
<1>1. Becomes(p, m2) BY DEF Decide, Decided
<1>2. m \in Memory /\ Founded(m, attempts') /\ attempts' \in [Tickets -> Seq(AttemptRow)]
  BY BuildHas, RowsAfter
<1>3. m.pc \in Planning /\ n \in 0 .. Len(attempts'[m.i]) OBVIOUS
<1> HIDE DEF m
<1>4. m2 \in Memory /\ Founded(m2, attempts') BY <1>2, <1>3, PlanDecided
<1> HIDE DEF m2
<1> QED BY <1>1, <1>4, OneBuildMoves

\* The plan goes on with the same ticket.
LEMMA PlanStep ==
  ASSUME BuildInv, Steady, NEW p \in Builders, b[p].pc \in Planning, NEW pc \in Planning,
         Becomes(p, [b[p] EXCEPT !.pc = pc])
  PROVE  BuildInv'
<1> DEFINE m == b[p]  m2 == Placed(m, pc)
<1>1. Becomes(p, m2) BY DEF Placed
<1>2. m \in Memory /\ Founded(m, attempts') BY BuildHas, RowsAfter
<1>3. m.pc \in Planning OBVIOUS
<1> HIDE DEF m
<1>4. m2 \in Memory /\ Founded(m2, attempts') BY <1>2, <1>3, PlanMoves
<1> HIDE DEF m2
<1> QED BY <1>1, <1>4, OneBuildMoves

\* planTicketRecovery, where it writes nothing.
LEMMA PlanTicketRecoveryStep ==
  ASSUME BuildInv, Steady, NEW p \in Builders, PlanTicketRecovery(p)
  PROVE  BuildInv'
<1> DEFINE t == b[p].i  n == b[p].seen[t].n
<1>1. b[p].pc = "plan" /\ attempts' = attempts BY DEF PlanTicketRecovery, rows
<1>2. b[p].pc \in Planning /\ "orphan" \in Planning /\ "retry" \in Planning
  BY <1>1 DEF Planning
<1>3. t \in Tickets /\ n \in 0 .. Len(attempts[t]) /\ Len(attempts[t]) \in Nat
  <2>1. b[p] \in Memory /\ Founded(b[p], attempts) BY BuildHas
  <2>2. t \in Tickets BY <1>2, <2>1 DEF Founded, Positioned
  <2>3. attempts[t] \in Seq(AttemptRow) BY <2>2, BuildHas
  <2> QED BY <2>1, <2>2, <2>3 DEF Founded, Numbered
<1>4. {"complete", "resume_attempt"} \subseteq Actions \ {"none"} BY DEF Actions
<1>5. CASE \E pc \in {"orphan", "retry"} : Becomes(p, [b[p] EXCEPT !.pc = pc])
  BY <1>2, <1>5, PlanStep
<1>6. CASE Decide(p, "complete", 0)
  <2>1. 0 \in 0 .. Len(attempts'[b[p].i]) BY <1>1, <1>3
  <2>2. "complete" \notin Attempted BY DEF Attempted
  <2> QED BY <1>2, <1>4, <1>6, <2>1, <2>2, DecideStep
<1>7. CASE n > 0 /\ Decide(p, "resume_attempt", n)
  <2>1. n \in 0 .. Len(attempts'[b[p].i]) BY <1>1, <1>3
  <2> HIDE DEF n
  <2> QED BY <1>2, <1>4, <1>7, <2>1, DecideStep
<1> QED BY <1>5, <1>6, <1>7 DEF PlanTicketRecovery

\* The planned orphan is cleaned up, or the recovery is refused.
LEMMA RecoverOrphanMoves ==
  ASSUME BuildInv, Steady, NEW p \in Builders, RecoverOrphan(p)
  PROVE  BuildInv'
<1>1. b[p].pc \in Planning /\ "retry" \in Planning BY DEF RecoverOrphan, Planning
<1>2. CASE Becomes(p, [b[p] EXCEPT !.pc = "retry"]) BY <1>1, <1>2, PlanStep
<1>3. CASE FinishBuild(p, {"infrastructure"})
  <2>1. b[p].resume = TRUE BY <1>1, BuildHas DEF Founded, PlanMade
  <2>2. {"infrastructure"} \in SUBSET Classes BY DEF Classes, PRIMARY_PRECEDENCE
  <2> QED BY <1>3, <2>1, <2>2, FinishBuildStep
<1> QED BY <1>2, <1>3 DEF RecoverOrphan

\* The retry is allocated, or the plan of the ticket does without.
LEMMA AllocateRetryMoves ==
  ASSUME BuildInv, Steady, NEW p \in Builders, AllocateRetry(p)
  PROVE  BuildInv'
<1> DEFINE t == b[p].i  s == b[p].seen[t]
<1>1. b[p].pc \in Planning BY DEF AllocateRetry, Planning
<1>2. t \in Tickets BY <1>1, BuildHas DEF Founded, Positioned
<1>3. attempts[t] \in Seq(AttemptRow) /\ Len(attempts[t]) \in Nat BY <1>2, BuildHas
<1>4. {"complete", "allocate_retry", "await_reconciliation"} \subseteq Actions \ {"none"}
  BY DEF Actions
<1>5. CASE RetrySelection(t)
  <2>1. attempts' = [attempts EXCEPT ![t] = Append(@, Planned)]
        /\ Decide(p, "allocate_retry", Len(attempts[t]) + 1)
    BY <1>5 DEF AllocateRetry
  <2>2. attempts'[t] = Append(attempts[t], Planned) BY <1>2, <2>1, BuildHas
  <2>3. Len(attempts'[t]) = Len(attempts[t]) + 1
    <3> DEFINE old == attempts[t]
    <3>1. old \in Seq(AttemptRow) BY <1>3
    <3>2. Planned \in AttemptRow BY DEF Planned, AttemptRow, AttemptStates, Records
    <3> HIDE DEF old
    <3>3. Len(Append(old, Planned)) = Len(old) + 1 BY <3>1, <3>2
    <3> QED BY <2>2, <3>3 DEF old
  <2>4. Len(attempts[t]) + 1 \in 0 .. Len(attempts'[b[p].i]) /\ Len(attempts[t]) + 1 > 0
    BY <1>3, <2>3
  <2> QED BY <1>1, <1>4, <2>1, <2>4, DecideStep
<1>6. CASE ~RetrySelection(t)
  <2>1. attempts' = attempts
        /\ \E action \in {"await_reconciliation", "complete"} : Decide(p, action, 0)
    BY <1>6 DEF AllocateRetry
  <2>2. 0 \in 0 .. Len(attempts'[b[p].i]) BY <1>3, <2>1
  <2>3. "complete" \notin Attempted /\ "await_reconciliation" \notin Attempted BY DEF Attempted
  <2> QED BY <1>1, <1>4, <2>1, <2>2, <2>3, DecideStep
<1> QED BY <1>5, <1>6

\* The containment is proven, or the build ends.
LEMMA ProbeContainmentStep ==
  ASSUME BuildInv, Steady, NEW p \in Builders, ProbeContainment(p)
  PROVE  BuildInv'
<1> DEFINE m == b[p]  m2 == Placed(m, "enqueue")
<1>1. m.pc = "probe" BY DEF ProbeContainment
<1>2. m \in Memory /\ Founded(m, attempts') BY BuildHas, RowsAfter
<1>3. CASE Becomes(p, [b[p] EXCEPT !.pc = "enqueue"])
  <2>1. Becomes(p, m2) BY <1>3 DEF Placed
  <2> HIDE DEF m
  <2>2. m2 \in Memory /\ Founded(m2, attempts') BY <1>1, <1>2, ProbePassed
  <2> HIDE DEF m2
  <2> QED BY <2>1, <2>2, OneBuildMoves
<1>4. CASE FinishBuild(p, {"infrastructure"})
  <2>1. m.resume = FALSE /\ m.delivering = TRUE => AllPromoted(attempts')
    BY <1>2 DEF Founded, Judged
  <2>2. {"infrastructure"} \in SUBSET Classes /\ {"infrastructure"} # {}
    BY DEF Classes, PRIMARY_PRECEDENCE
  <2> QED BY <1>4, <2>1, <2>2, FinishBuildStep
<1> QED BY <1>3, <1>4 DEF ProbeContainment

\* A ticket's attempt is queued, and the loop goes on.
LEMMA EnqueueStep ==
  ASSUME BuildInv, Steady, NEW p \in Builders, b[p].pc = "enqueue",
         NEW n \in 1 .. Len(attempts'[b[p].i]), b[p].plan[b[p].i] # "complete",
         NEW activates, Enqueue(p, n, activates)
  PROVE  BuildInv'
<1> DEFINE m == b[p]  set == IF activates THEN m.activates \cup {m.i} ELSE m.activates
           m1 == WithEntry(m, n, set)  m2 == PassedOn(m1)
<1>1. Becomes(p, m2) BY DEF Enqueue, Next1, WithEntry, PassedOn
<1>2. m \in Memory /\ Founded(m, attempts') /\ attempts' \in [Tickets -> Seq(AttemptRow)]
  BY BuildHas, RowsAfter
<1>3. m.pc = "enqueue" /\ n \in 1 .. Len(attempts'[m.i]) /\ m.plan[m.i] # "complete" OBVIOUS
<1> HIDE DEF m
<1>4. m.i \in Tickets /\ m.activates \in SUBSET Tickets
  BY <1>2, <1>3 DEF Founded, Positioned, Memory
<1>5. set \in SUBSET Tickets BY <1>4
<1> HIDE DEF set
<1>6. m1 \in Memory /\ Told(m1, attempts') BY <1>2, <1>3, <1>5, QueuedTold
<1> HIDE DEF m1
<1>7. m2 \in Memory /\ Founded(m2, attempts') BY <1>6, TicketPassed
<1> HIDE DEF m2
<1> QED BY <1>1, <1>7, OneBuildMoves

\* A fresh build queues its next ticket.
LEMMA EnqueueInitialMoves ==
  ASSUME BuildInv, Steady, NEW p \in Builders, EnqueueInitial(p)
  PROVE  BuildInv'
<1>1. /\ b[p].pc = "enqueue" /\ ~b[p].resume /\ Enqueue(p, 1, TRUE)
      /\ attempts' = [attempts EXCEPT ![b[p].i] = <<Planned>>]
  BY DEF EnqueueInitial
<1>2. b[p] \in Memory /\ Founded(b[p], attempts) BY BuildHas
<1>3. b[p].i \in Tickets BY <1>1, <1>2 DEF Founded, Positioned
<1>4. b[p].resume = FALSE BY <1>1, <1>2 DEF Memory
<1>5. b[p].plan[b[p].i] # "complete" BY <1>2, <1>3, <1>4 DEF Founded, PlanMade
<1>6. attempts'[b[p].i] = <<Planned>> BY <1>1, <1>3, BuildHas
<1>7. 1 \in 1 .. Len(attempts'[b[p].i]) BY <1>6
<1> QED BY <1>1, <1>5, <1>7, EnqueueStep

\* A ticket is counted, and the loop goes on.
LEMMA CountStep ==
  ASSUME BuildInv, Steady, NEW p \in Builders, NEW m1 \in Memory, Told(m1, attempts'),
         Next1(p, m1)
  PROVE  BuildInv'
<1> DEFINE m2 == PassedOn(m1)
<1>1. Becomes(p, m2) BY DEF Next1, PassedOn
<1>2. m2 \in Memory /\ Founded(m2, attempts') BY TicketPassed
<1> HIDE DEF m2
<1> QED BY <1>1, <1>2, OneBuildMoves

\* recoverAttempt of the next ticket of a resumed build.
LEMMA EnqueueResumedMoves ==
  ASSUME BuildInv, Steady, NEW p \in Builders, EnqueueResumed(p)
  PROVE  BuildInv'
<1> DEFINE m == b[p]  t == m.i
<1>1. m.pc = "enqueue" /\ m.resume /\ attempts' = attempts BY DEF EnqueueResumed, rows
<1>2. m \in Memory /\ Founded(m, attempts') BY BuildHas, RowsAfter
<1>3. m.resume = TRUE BY <1>1, <1>2 DEF Memory
<1>4. t \in Tickets BY <1>1, <1>2 DEF Founded, Positioned
<1>5. m.plan[t] \in Attempted => m.n[t] \in 1 .. Len(attempts'[m.i])
  <2>1. m.plan[t] \in Attempted => m.n[t] > 0 BY <1>2, <1>4 DEF Founded, PlanMade
  <2>2. m.n[t] \in 0 .. Len(attempts'[t]) BY <1>2, <1>4 DEF Founded, Numbered
  <2>3. Len(attempts'[t]) \in Nat BY <1>4, RowsAfter
  <2> QED BY <2>1, <2>2, <2>3
<1>6. m.done \in Nat /\ m.failed \in Nat /\ m.whole \in SUBSET Tickets /\ m.issues \in SUBSET Classes
  BY <1>2 DEF Memory
<1>7. CASE m.plan[t] = "complete" /\ Next1(p, [m EXCEPT !.done = @ + 1])
  <2> DEFINE done == m.done + 1  m1 == [m EXCEPT !.done = done]
  <2>1. Next1(p, m1) BY <1>7
  <2>2. done \in Nat /\ done = m.done + 1 BY <1>6
  <2> HIDE DEF m, done
  <2>3. /\ m1 \in Memory
        /\ m1.pc = m.pc /\ m1.resume = m.resume /\ m1.i = m.i /\ m1.seen = m.seen
        /\ m1.plan = m.plan /\ m1.n = m.n /\ m1.queue = m.queue /\ m1.entry = m.entry
        /\ m1.recovered = m.recovered /\ m1.failed = m.failed /\ m1.whole = m.whole
        /\ m1.done = done
    BY <1>2, <2>2 DEF Memory
  <2> HIDE DEF m1
  <2>4. Told(m1, attempts') BY <1>1, <1>2, <1>3, <2>2, <2>3, CountedTold
  <2> QED BY <2>1, <2>3, <2>4, CountStep
<1>8. CASE m.plan[t] = "await_reconciliation" /\ Next1(p, m)
  <2> HIDE DEF m
  <2>1. Told(m, attempts') BY <1>1, <1>2, <1>3, <1>8, CountedTold
  <2> QED BY <1>2, <1>8, <2>1, CountStep
<1>9. CASE m.plan[t] \in Attempted /\ \E activates : Enqueue(p, m.n[t], activates)
  <2>1. m.plan[m.i] # "complete" BY <1>9 DEF Attempted
  <2>2. PICK activates : Enqueue(p, m.n[t], activates) BY <1>9
  <2> QED BY <1>1, <1>5, <1>9, <2>1, <2>2, EnqueueStep
<1>10. CASE Next1(p, [m EXCEPT !.done = @ + 1, !.whole = @ \cup {t}])
  <2> DEFINE whole == m.whole \cup {t}  done == m.done + 1
             m1 == [m EXCEPT !.done = done, !.whole = whole]
  <2>1. Next1(p, m1) BY <1>10
  <2>2. whole \in SUBSET Tickets /\ whole = m.whole \cup {m.i} BY <1>4, <1>6
  <2>3. done \in Nat /\ done = m.done + 1 BY <1>6
  <2> HIDE DEF m, whole, done
  <2>4. /\ m1 \in Memory
        /\ m1.pc = m.pc /\ m1.resume = m.resume /\ m1.i = m.i /\ m1.seen = m.seen
        /\ m1.plan = m.plan /\ m1.n = m.n /\ m1.queue = m.queue /\ m1.entry = m.entry
        /\ m1.recovered = m.recovered /\ m1.failed = m.failed /\ m1.whole = whole
        /\ m1.done = done
    BY <1>2, <2>2, <2>3 DEF Memory
  <2> HIDE DEF m1
  <2>5. m1.whole \in {m.whole, m.whole \cup {m.i}} BY <2>2, <2>4
  <2>6. Told(m1, attempts') BY <1>1, <1>2, <1>3, <2>3, <2>4, <2>5, CountedTold
  <2> QED BY <2>1, <2>4, <2>6, CountStep
<1>11. CASE /\ m.plan[t] = "resume_attempt"
            /\ Next1(p, [m EXCEPT !.failed = @ + 1, !.issues = @ \cup {"infrastructure"}])
  <2> DEFINE issues == m.issues \cup {"infrastructure"}  failed == m.failed + 1
             m1 == [m EXCEPT !.failed = failed, !.issues = issues]
  <2>1. Next1(p, m1) BY <1>11
  <2>2. issues \in SUBSET Classes BY <1>6 DEF Classes, PRIMARY_PRECEDENCE
  <2>3. failed \in Nat /\ failed = m.failed + 1 BY <1>6
  <2> HIDE DEF m, issues, failed
  <2>4. /\ m1 \in Memory
        /\ m1.pc = m.pc /\ m1.resume = m.resume /\ m1.i = m.i /\ m1.seen = m.seen
        /\ m1.plan = m.plan /\ m1.n = m.n /\ m1.queue = m.queue /\ m1.entry = m.entry
        /\ m1.recovered = m.recovered /\ m1.failed = failed /\ m1.whole = m.whole
        /\ m1.done = m.done
    BY <1>2, <2>2, <2>3 DEF Memory
  <2> HIDE DEF m1
  <2>5. Told(m1, attempts') BY <1>1, <1>2, <1>3, <1>11, <2>3, <2>4, CountedTold
  <2> QED BY <2>1, <2>4, <2>5, CountStep
<1> QED BY <1>7, <1>8, <1>9, <1>10, <1>11 DEF EnqueueResumed, Attempted

\* The runner of the entry in hand, under the invariant.
LEMMA EntryInHand ==
  ASSUME BuildInv, NEW p \in Builders, b[p].pc \in {"drain", "running"}, b[p].queue # <<>>
  PROVE  /\ b[p].i \in 1 .. Len(b[p].queue) /\ Head1(p) \in Tickets
         /\ b[p].n[Head1(p)] \in 1 .. Len(attempts[Head1(p)])
<1> DEFINE m == b[p]
<1>1. m \in Memory /\ Founded(m, attempts) BY BuildHas
<1>2. m.queue \in Seq(Tickets) /\ Len(m.queue) \in Nat BY <1>1 DEF Memory
<1>3. m.i \in 1 .. Len(m.queue) BY <1>1 DEF Founded, Positioned
<1>4. Head1(p) = m.queue[m.i] BY DEF Head1
<1>5. Head1(p) \in Tickets BY <1>2, <1>3, <1>4
<1>6. m.n[Head1(p)] > 0 BY <1>1, <1>3, <1>4 DEF Founded, QueueMade
<1>7. m.n[Head1(p)] \in 0 .. Len(attempts[Head1(p)]) BY <1>1, <1>5 DEF Founded, Numbered
<1>8. Len(attempts[Head1(p)]) \in Nat BY <1>5, BuildHas
<1> QED BY <1>3, <1>5, <1>6, <1>7, <1>8

\* An entry settles.
LEMMA SettleStep ==
  ASSUME BuildInv, Steady, NEW p \in Builders, b[p].pc \in {"drain", "running"},
         b[p].queue # <<>>, NEW result \in {"completed", "failed", "unrun"}, NEW released \in BOOLEAN,
         result = "completed" => PromotedIn(attempts', Head1(p)),
         released = TRUE /\ result # "unrun" =>
           attempts'[Head1(p)][b[p].n[Head1(p)]].record # "none",
         Settle(p, result, released)
  PROVE  BuildInv'
<1> DEFINE m == b[p]  last == (m.i = Len(m.queue) \/ ~released)  m2 == Settled(m, result, last)
<1>1. Becomes(p, m2) BY DEF Settle, Settled, Head1
<1>2. m \in Memory /\ Founded(m, attempts') /\ attempts' \in [Tickets -> Seq(AttemptRow)]
  BY BuildHas, RowsAfter
<1>3. /\ m.pc \in {"drain", "running"} /\ m.queue # <<>>
      /\ result = "completed" => PromotedIn(attempts', m.queue[m.i])
      /\ released = TRUE /\ result # "unrun" =>
           attempts'[m.queue[m.i]][m.n[m.queue[m.i]]].record # "none"
  BY DEF Head1
<1>4. last \in BOOLEAN /\ (m.i = Len(m.queue) => last = TRUE)
      /\ (last = FALSE => released = TRUE)
  OBVIOUS
<1> HIDE DEF m, last
<1>5. m2 \in Memory /\ Founded(m2, attempts') BY <1>2, <1>3, <1>4, EntrySettles
<1> HIDE DEF m2
<1> QED BY <1>1, <1>5, OneBuildMoves

\* The drain dispatches, or has nothing to drain.
LEMMA DrainSteps ==
  ASSUME BuildInv, Steady, NEW p \in Builders, DrainEmpty(p) \/ DispatchThrows(p) \/ Dispatch(p)
  PROVE  BuildInv'
<1> DEFINE m == b[p]
<1>1. m.pc = "drain" BY DEF DrainEmpty, DispatchThrows, Dispatch
<1>2. m \in Memory /\ Founded(m, attempts') BY BuildHas, RowsAfter
<1>3. ASSUME NEW pc \in {"running", "account"}, (pc = "running") <=> (m.queue # <<>>),
             Becomes(p, [b[p] EXCEPT !.pc = pc])
      PROVE  BuildInv'
  <2> DEFINE m2 == Placed(m, pc)
  <2>1. Becomes(p, m2) BY <1>3 DEF Placed
  <2> HIDE DEF m
  <2>2. m2 \in Memory /\ Founded(m2, attempts') BY <1>1, <1>2, <1>3, DrainMoves
  <2> HIDE DEF m2
  <2> QED BY <2>1, <2>2, OneBuildMoves
<1>4. CASE DrainEmpty(p)
  <2>1. m.queue = <<>> /\ Becomes(p, [b[p] EXCEPT !.pc = "account"]) BY <1>4 DEF DrainEmpty
  <2> QED BY <1>3, <2>1
<1>5. CASE m.queue # <<>> /\ Becomes(p, [b[p] EXCEPT !.pc = "running"])
  BY <1>3, <1>5
<1>6. CASE m.queue # <<>> /\ Settle(p, "failed", FALSE)
  BY <1>1, <1>6, SettleStep
<1>7. CASE m.queue # <<>> /\ Settle(p, "unrun", TRUE)
  BY <1>1, <1>7, SettleStep
<1> QED BY <1>4, <1>5, <1>6, <1>7 DEF DispatchThrows, Dispatch

\* The runner returns: only a recorded result lets the drain go on.
LEMMA RunnerReturnsStep ==
  ASSUME BuildInv, Steady, NEW p \in Builders, RunnerReturns(p)
  PROVE  BuildInv'
<1> DEFINE t == Head1(p)  n == b[p].n[t]
<1>1. b[p].pc = "running" /\ attempts' = attempts BY DEF RunnerReturns, rows
<1>2. b[p].queue # <<>>
  <2>1. b[p].i \in 1 .. Len(b[p].queue) BY <1>1, BuildHas DEF Founded, Positioned
  <2> QED BY <2>1
<1>3. t \in Tickets /\ n \in 1 .. Len(attempts[t]) BY <1>1, <1>2, EntryInHand
<1>4. PICK result \in {"succeeded", "failed_clean", "infrastructure_failed", "threw"} :
        /\ result = "succeeded" => attempts[t][n].record = "promotion"
        /\ result \in {"failed_clean", "infrastructure_failed"} =>
             attempts[t][n].record = "failure"
        /\ Settle(p, IF result = "succeeded" THEN "completed" ELSE "failed",
                  OwnershipReleased(result))
  BY DEF RunnerReturns
<1> DEFINE entry == IF result = "succeeded" THEN "completed" ELSE "failed"
           released == result \in {"succeeded", "failed_clean"}
<1>5. Settle(p, entry, released) BY <1>4 DEF OwnershipReleased
<1>6. entry \in {"completed", "failed"} /\ released \in BOOLEAN OBVIOUS
<1>7. entry = "completed" => PromotedIn(attempts', Head1(p))
  <2>1. entry = "completed" => attempts[t][n].record = "promotion" BY <1>4
  <2> HIDE DEF entry, n, t
  <2>2. entry = "completed" => PromotedIn(attempts, t) BY <1>3, <2>1 DEF PromotedIn
  <2> QED BY <1>1, <2>2 DEF t
<1>8. released = TRUE => attempts'[Head1(p)][b[p].n[Head1(p)]].record # "none"
  BY <1>1, <1>4
<1> HIDE DEF entry, released
<1> QED BY <1>1, <1>2, <1>5, <1>6, <1>7, <1>8, SettleStep

\* The accounting.
LEMMA AccountStep ==
  ASSUME BuildInv, Steady, NEW p \in Builders, Account(p)
  PROVE  BuildInv'
<1> DEFINE m == b[p]
           done == m.done + Cardinality(CompletedIn(m))
           failed == m.failed + Cardinality(FailedIn(m))
           recovered == Cardinality(AwaitingIn(m))
           issues == m.issues
                       \cup (IF Cardinality(FailedIn(m)) > 0 THEN {"infrastructure"} ELSE {})
                       \cup (IF done = 0 \/ failed > 0 THEN {"execution"} ELSE {})
           m2 == Totals(m.resume, done, failed, recovered, issues)
<1>1. m.pc = "account" BY DEF Account
<1>2. Becomes(p, m2)
  <2>1. Queued(p) = QueuedIn(m) BY DEF Queued, QueuedIn
  <2>2. CountedFailed(p) = FailedIn(m) BY <2>1 DEF CountedFailed, FailedIn, Attempted
  <2>3. {t \in Queued(p) : b[p].entry[t] = "completed"} = CompletedIn(m)
    BY <2>1 DEF CompletedIn
  <2>4. {t \in Tickets \ Queued(p) : b[p].plan[t] = "await_reconciliation"} = AwaitingIn(m)
    BY <2>1 DEF AwaitingIn
  <2> QED BY <2>2, <2>3, <2>4 DEF Account, Totals
<1>3. m \in Memory /\ Founded(m, attempts') /\ attempts' \in [Tickets -> Seq(AttemptRow)]
  BY BuildHas, RowsAfter
<1> HIDE DEF m
<1>4. /\ done \in Nat /\ failed \in Nat /\ recovered \in Nat
      /\ done + failed + recovered >= N /\ done + failed + recovered <= 2 * N
  BY <1>1, <1>3, TotalsAddUp
<1>5. m.resume \in BOOLEAN /\ m.issues \in SUBSET Classes /\ m.failed \in Nat /\ m.done \in Nat
  BY <1>3 DEF Memory
<1>6. issues \in SUBSET Classes
  <2>1. "infrastructure" \in Classes /\ "execution" \in Classes
    BY DEF Classes, PRIMARY_PRECEDENCE
  <2> HIDE DEF done, failed
  <2> QED BY <1>5, <2>1
<1>7. Cardinality(FailedIn(m)) \in Nat
  <2>1. QueuedIn(m) \subseteq Tickets BY <1>1, <1>3, QueueHolds
  <2>2. FailedIn(m) \subseteq Tickets BY <2>1 DEF FailedIn
  <2>3. N \in Int /\ 1 \in Int BY BuildAssumption
  <2>4. IsFiniteSet(Tickets) BY <2>3, FS_Interval DEF Tickets
  <2> QED BY <2>2, <2>4, FS_Subset, FS_CardinalityType
<1>8. failed = 0 \/ issues = {} => Cardinality(FailedIn(m)) = 0
  <2>1. failed = 0 => Cardinality(FailedIn(m)) = 0 BY <1>5, <1>7
  <2>2. issues = {} => ~(Cardinality(FailedIn(m)) > 0) OBVIOUS
  <2> QED BY <1>7, <2>1, <2>2
<1>9. m.resume = FALSE /\ (failed = 0 \/ issues = {}) => AllPromoted(attempts')
  BY <1>1, <1>3, <1>8, NothingFailed
<1> HIDE DEF done, failed, recovered, issues
<1>10. /\ m2 \in Memory
       /\ m2.pc = "deliver" /\ m2.resume = m.resume
       /\ m2.done = done /\ m2.failed = failed
       /\ m2.recovered = recovered /\ m2.issues = issues
       /\ Blank(m2) /\ m2.delivering = FALSE /\ m2.verdict = "none"
  <2> DEFINE resume == m.resume
  <2>1. /\ resume \in BOOLEAN /\ done \in Nat /\ failed \in Nat /\ recovered \in Nat
        /\ issues \in SUBSET Classes /\ m2 = Totals(resume, done, failed, recovered, issues)
    BY <1>4, <1>5, <1>6
  <2> HIDE DEF resume, m2
  <2>2. /\ m2 \in Memory
        /\ m2.pc = "deliver" /\ m2.resume = resume
        /\ m2.done = done /\ m2.failed = failed
        /\ m2.recovered = recovered /\ m2.issues = issues
    <3>1. "deliver" \in Pcs BY DEF Pcs
    <3> QED BY <2>1, <3>1, EndedMemory DEF Memory, Totals
  <2>3. Blank(m2) /\ m2.delivering = FALSE /\ m2.verdict = "none"
    BY <2>1 DEF Blank, Ended, Totals
  <2> QED BY <2>2, <2>3 DEF resume
<1> HIDE DEF m2
<1>11. Founded(m2, attempts') BY <1>3, <1>4, <1>9, <1>10, AccountFounded
<1> QED BY <1>2, <1>10, <1>11, OneBuildMoves

\* The end of a build: delivery, cleanup chain, verdict.
LEMMA EndingSteps ==
  ASSUME BuildInv, Steady, NEW p \in Builders, Deliver(p) \/ Finish(p) \/ RunCleanup(p)
  PROVE  BuildInv'
<1> DEFINE m == b[p]
<1>1. m.pc \in Ending BY DEF Deliver, Finish, RunCleanup, Ending
<1>2. m \in Memory /\ Founded(m, attempts') BY BuildHas, RowsAfter
<1>3. m.issues \in SUBSET Classes /\ m.delivering \in BOOLEAN BY <1>2 DEF Memory
<1>4. {"infrastructure", "cleanup"} \subseteq Classes BY DEF Classes, PRIMARY_PRECEDENCE
<1>5. ASSUME NEW pc \in Ending, NEW delivering \in BOOLEAN, NEW issues \in SUBSET Classes,
             m.issues \subseteq issues, delivering = TRUE => m.delivering = TRUE \/ m.failed = 0,
             Becomes(p, Closing(m, pc, delivering, issues))
      PROVE  BuildInv'
  <2> DEFINE m2 == Closing(m, pc, delivering, issues)
  <2>1. Becomes(p, m2) BY <1>5
  <2> HIDE DEF m
  <2>2. m2 \in Memory /\ Founded(m2, attempts') BY <1>1, <1>2, <1>5, EndingMoves
  <2> HIDE DEF m2
  <2> QED BY <2>1, <2>2, OneBuildMoves
<1>6. ASSUME NEW pc \in {"finish", "cleanup"}, Becomes(p, [b[p] EXCEPT !.pc = pc])
      PROVE  BuildInv'
  <2> DEFINE m2 == Placed(m, pc)
  <2>1. Becomes(p, m2) BY <1>6 DEF Placed
  <2>2. pc \in Ending BY DEF Ending
  <2> HIDE DEF m
  <2>3. m2 \in Memory /\ Founded(m2, attempts') BY <1>1, <1>2, <2>2, EndingPlaced
  <2> HIDE DEF m2
  <2> QED BY <2>1, <2>3, OneBuildMoves
<1>7. ASSUME NEW thrown \in {{}, {"infrastructure"}}, m.failed = 0,
             Becomes(p, [b[p] EXCEPT !.pc = "finish", !.delivering = TRUE, !.issues = @ \cup thrown])
      PROVE  BuildInv'
  <2> DEFINE issues == m.issues \cup thrown
  <2>1. Becomes(p, Closing(m, "finish", TRUE, issues)) BY <1>7 DEF Closing
  <2>2. issues \in SUBSET Classes /\ m.issues \subseteq issues BY <1>3, <1>4
  <2>3. "finish" \in Ending BY DEF Ending
  <2> HIDE DEF issues
  <2> QED BY <1>5, <1>7, <2>1, <2>2, <2>3
<1>8. ASSUME NEW errors \in {{}, {"cleanup"}}, FinishBuild(p, m.issues \cup errors)
      PROVE  BuildInv'
  <2> DEFINE issues == m.issues \cup errors
  <2>1. issues \in SUBSET Classes /\ (issues = {} => m.issues = {}) BY <1>3, <1>4
  <2>2. m.resume = FALSE /\ (m.delivering = TRUE \/ m.issues = {}) => AllPromoted(attempts')
    BY <1>1, <1>2 DEF Founded, Judged
  <2>3. FinishBuild(p, issues) BY <1>8
  <2> HIDE DEF issues
  <2> QED BY <2>1, <2>2, <2>3, FinishBuildStep
<1>9. CASE Deliver(p) BY <1>6, <1>7, <1>9 DEF Deliver
<1>10. CASE Finish(p)
  <2>1. CASE FinishBuild(p, b[p].issues)
    <3>1. m.issues \cup {} = m.issues OBVIOUS
    <3> QED BY <1>8, <2>1, <3>1
  <2>2. CASE Becomes(p, [b[p] EXCEPT !.pc = "cleanup"]) BY <1>6, <2>2
  <2> QED BY <1>10, <2>1, <2>2 DEF Finish
<1>11. CASE RunCleanup(p) BY <1>8, <1>11 DEF RunCleanup
<1> QED BY <1>9, <1>10, <1>11

-----------------------------------------------------------------------------
(* The inductive invariant and what it says.                               *)

\* Every step keeps the rows well formed and lets them grow.
LEMMA RowsAreSteady ==
  ASSUME BuildInv, [Next]_vars
  PROVE  Steady
<1>1. AttemptsInv /\ AttemptsTyped /\ TicketsTyped BY DEF BuildInv, AttemptsInv
<1>2. AttemptsInv' BY <1>1, AttemptsInvStep
<1> DEFINE Changed == \E t : \E s \in {"active", "cleanup_pending"} : ticket' = [ticket EXCEPT ![t] = s]
<1>3. ASSUME ticket' = ticket \/ Changed PROVE TicketsTyped'
  BY <1>1, <1>3 DEF TicketsTyped
<1>4. ASSUME attempts' = attempts PROVE Grow(attempts, attempts') BY <1>1, <1>4, SameGrows
<1>5. ASSUME NEW p \in Builders,
             \/ \E resume \in BOOLEAN : StartBuild(p, resume)
             \/ Crash(p) \/ PlanRefused(p) \/ PolicyAttachmentRefused(p)
             \/ StateAuthorityRefused(p) \/ AllocateFreshRun(p) \/ OtherRun(p)
             \/ SelectCompatibleResume(p) \/ PlanTicketRecovery(p) \/ ProbeContainment(p)
             \/ EnqueueResumed(p) \/ DrainEmpty(p) \/ DispatchThrows(p) \/ RunnerReturns(p) \/ Account(p)
             \/ Deliver(p) \/ Finish(p) \/ RunCleanup(p)
      PROVE  attempts' = attempts /\ ticket' = ticket
  <2>1. CASE \/ \E resume \in BOOLEAN : StartBuild(p, resume)
             \/ Crash(p) \/ PlanRefused(p) \/ PolicyAttachmentRefused(p)
             \/ StateAuthorityRefused(p) \/ AllocateFreshRun(p) \/ OtherRun(p)
    BY <2>1 DEF StartBuild, Crash, PlanRefused, PolicyAttachmentRefused,
                StateAuthorityRefused, AllocateFreshRun, OtherRun, rows
  <2>2. CASE SelectCompatibleResume(p) \/ PlanTicketRecovery(p) \/ ProbeContainment(p)
    BY <2>2 DEF SelectCompatibleResume, PlanTicketRecovery, ProbeContainment, rows
  <2>3. CASE EnqueueResumed(p) \/ DrainEmpty(p) \/ DispatchThrows(p) \/ RunnerReturns(p)
    BY <2>3 DEF EnqueueResumed, DrainEmpty, DispatchThrows, RunnerReturns, rows
  <2>4. CASE Account(p) \/ Deliver(p) \/ Finish(p) \/ RunCleanup(p)
    BY <2>4 DEF Account, Deliver, Finish, RunCleanup, rows
  <2> QED BY <1>5, <2>1, <2>2, <2>3, <2>4
<1>6. ASSUME NEW p \in Builders, RecoverOrphan(p)
      PROVE  (ticket' = ticket \/ Changed) /\ Grow(attempts, attempts')
  <2> DEFINE t == b[p].i  n == b[p].seen[t].n
  <2>1. ticket' = ticket \/ Changed BY <1>6 DEF RecoverOrphan
  <2>2. attempts' = attempts \/ attempts' = [attempts EXCEPT ![t][n].state = "failed_clean"]
    BY <1>6 DEF RecoverOrphan
  <2> HIDE DEF t, n
  <2>3. Grow(attempts, attempts') BY <1>1, <1>4, <2>2, StateChangeGrows
  <2> QED BY <2>1, <2>3
<1>7. ASSUME NEW p \in Builders, AllocateRetry(p)
      PROVE  ticket' = ticket /\ Grow(attempts, attempts')
  <2>1. ticket' = ticket /\ b[p].pc = "retry" BY <1>7 DEF AllocateRetry
  <2>2. b[p].i \in Tickets BY <2>1, BuildHas DEF Founded, Positioned, Planning
  <2> QED BY <1>1, <1>7, <2>1, <2>2, AllocateRetryGrows
<1>8. ASSUME NEW p \in Builders, EnqueueInitial(p)
      PROVE  ticket' = ticket /\ Grow(attempts, attempts')
  <2>1. ticket' = ticket /\ b[p].pc = "enqueue" BY <1>8 DEF EnqueueInitial
  <2>2. b[p].i \in Tickets BY <2>1, BuildHas DEF Founded, Positioned
  <2> QED BY <1>1, <1>8, <2>1, <2>2, EnqueueInitialGrows
<1>9. ASSUME NEW p \in Builders, Dispatch(p)
      PROVE  (ticket' = ticket \/ Changed) /\ attempts' = attempts
  BY <1>9 DEF Dispatch
<1>10. ASSUME NEW p \in Builders, RunnerWrites(p)
       PROVE  (ticket' = ticket \/ Changed) /\ Grow(attempts, attempts')
  <2>1. ticket' = ticket \/ Changed BY <1>10 DEF RunnerWrites
  <2> QED BY <1>1, <1>10, <2>1, RunnerWritesGrow
<1>11. ASSUME NEW t \in Tickets, SettleFailure(t)
       PROVE  ticket' = ticket /\ Grow(attempts, attempts')
  <2> DEFINE n == Len(attempts[t])
  <2>1. ticket' = ticket /\ attempts' = [attempts EXCEPT ![t][n].state = "failed_clean"]
    BY <1>11 DEF SettleFailure
  <2> HIDE DEF n
  <2> QED BY <1>1, <2>1, StateChangeGrows
<1>12. CASE UNCHANGED vars
  <2>1. ticket' = ticket /\ attempts' = attempts BY <1>12 DEF vars, rows
  <2> QED BY <1>2, <1>3, <1>4, <2>1 DEF Steady
<1> HIDE DEF Changed
<1>13. CASE Next
  <2>1. CASE \E t \in Tickets : SettleFailure(t) BY <1>2, <1>3, <1>11, <2>1 DEF Steady
  <2>2. ASSUME NEW p \in Builders, RecoverOrphan(p) \/ AllocateRetry(p) \/ EnqueueInitial(p)
                                   \/ Dispatch(p) \/ RunnerWrites(p)
        PROVE  Steady
    BY <1>2, <1>3, <1>4, <1>6, <1>7, <1>8, <1>9, <1>10, <2>2 DEF Steady
  <2>3. ASSUME NEW p \in Builders,
               \/ \E resume \in BOOLEAN : StartBuild(p, resume)
               \/ Crash(p) \/ PlanRefused(p) \/ PolicyAttachmentRefused(p)
               \/ StateAuthorityRefused(p) \/ AllocateFreshRun(p) \/ OtherRun(p)
               \/ SelectCompatibleResume(p) \/ PlanTicketRecovery(p) \/ ProbeContainment(p)
               \/ EnqueueResumed(p) \/ DrainEmpty(p) \/ DispatchThrows(p) \/ RunnerReturns(p) \/ Account(p)
               \/ Deliver(p) \/ Finish(p) \/ RunCleanup(p)
        PROVE  Steady
    <3>1. attempts' = attempts /\ ticket' = ticket BY <1>5, <2>3
    <3> QED BY <1>2, <1>3, <1>4, <3>1 DEF Steady
  <2> QED BY <1>13, <2>1, <2>2, <2>3 DEF Next, Step
<1> QED BY <1>12, <1>13

\* One step per action of a build.
LEMMA BuildInvStep == BuildInv /\ [Next]_vars => BuildInv'
<1> SUFFICES ASSUME BuildInv, [Next]_vars PROVE BuildInv' OBVIOUS
<1>1. Steady BY RowsAreSteady
<1>2. CASE UNCHANGED vars
  <2>1. b' = b BY <1>2 DEF vars
  <2> QED BY <1>1, <2>1, NoBuildMoves
<1>3. CASE \E t \in Tickets : SettleFailure(t)
  <2>1. b' = b BY <1>3 DEF SettleFailure
  <2> QED BY <1>1, <2>1, NoBuildMoves
<1>4. ASSUME NEW p \in Builders, RunnerWrites(p) PROVE BuildInv'
  <2>1. b' = b BY <1>4 DEF RunnerWrites
  <2> QED BY <1>1, <2>1, NoBuildMoves
<1>5. ASSUME NEW p \in Builders, (\E resume \in BOOLEAN : StartBuild(p, resume)) \/ Crash(p)
                                 \/ OtherRun(p)
      PROVE  BuildInv'
  BY <1>1, <1>5, StartSteps
<1>6. ASSUME NEW p \in Builders, Step(p) PROVE BuildInv'
  <2>1. CASE PlanRefused(p) \/ PolicyAttachmentRefused(p) \/ StateAuthorityRefused(p)
    BY <1>1, <2>1, GateSteps
  <2>2. CASE AllocateFreshRun(p) BY <1>1, <2>2, AllocateFreshRunStep
  <2>3. CASE OtherRun(p) BY <1>5, <2>3
  <2>4. CASE SelectCompatibleResume(p) BY <1>1, <2>4, SelectCompatibleResumeStep
  <2>5. CASE PlanTicketRecovery(p) BY <1>1, <2>5, PlanTicketRecoveryStep
  <2>6. CASE RecoverOrphan(p) BY <1>1, <2>6, RecoverOrphanMoves
  <2>7. CASE AllocateRetry(p) BY <1>1, <2>7, AllocateRetryMoves
  <2>8. CASE ProbeContainment(p) BY <1>1, <2>8, ProbeContainmentStep
  <2>9. CASE EnqueueInitial(p) BY <1>1, <2>9, EnqueueInitialMoves
  <2>10. CASE EnqueueResumed(p) BY <1>1, <2>10, EnqueueResumedMoves
  <2>11. CASE DrainEmpty(p) \/ DispatchThrows(p) \/ Dispatch(p) BY <1>1, <2>11, DrainSteps
  <2>12. CASE RunnerReturns(p) BY <1>1, <2>12, RunnerReturnsStep
  <2>13. CASE Account(p) BY <1>1, <2>13, AccountStep
  <2>14. CASE Deliver(p) \/ Finish(p) \/ RunCleanup(p) BY <1>1, <2>14, EndingSteps
  <2> QED BY <1>6, <2>1, <2>2, <2>3, <2>4, <2>5, <2>6, <2>7, <2>8, <2>9, <2>10, <2>11,
             <2>12, <2>13, <2>14 DEF Step
<1> QED BY <1>2, <1>3, <1>4, <1>5, <1>6 DEF Next

\* A build starts with an empty memory.
LEMMA BuildInvInit == Init => BuildInv
<1> SUFFICES ASSUME Init PROVE BuildInv OBVIOUS
<1>1. /\ attempts = [t \in Tickets |-> <<>>] /\ ticket = [t \in Tickets |-> "planned"]
      /\ b = [p \in Builders |-> Ended]
  BY DEF Init
<1>2. AttemptsInv /\ TicketsTyped
  BY <1>1 DEF AttemptsInv, AttemptsTyped, OneOpenAttempt, TicketsTyped
<1>3. /\ Ended.done = 0 /\ Ended.failed = 0 /\ Ended.recovered = 0 /\ Ended.pc = "idle"
      /\ Ended.delivering = FALSE /\ Ended.verdict = "none"
  BY DEF Ended
<1>4. attempts \in [Tickets -> Seq(AttemptRow)] BY <1>2 DEF AttemptsInv, AttemptsTyped
<1>5. Founded(Ended, attempts) BY <1>3, <1>4, EndedMemory, EndedBlank, BlankFounded
<1> QED BY <1>1, <1>2, <1>5, EndedMemory DEF BuildInv

\* What every build remembers is founded on the rows, in every state.
LEMMA BuildInvariant == Spec => []BuildInv
BY BuildInvInit, BuildInvStep, PTL DEF Spec

\* The verdict of a fresh build counts every ticket, and it reports success or
\* starts the delivery flow only when every ticket has a promotion record.
THEOREM VerdictFounded == Spec => []VerdictIsFounded
<1>1. BuildInv => VerdictIsFounded
  <2> SUFFICES ASSUME BuildInv, NEW p \in Builders
               PROVE  /\ b[p].pc \in {"deliver", "finish", "cleanup"} =>
                           b[p].done + b[p].failed + b[p].recovered >= N
                      /\ ~b[p].resume /\ (b[p].verdict = "success" \/ b[p].delivering) =>
                           \A t \in Tickets : Promoted(t)
    BY DEF VerdictIsFounded
  <2>1. /\ b[p] \in Memory /\ Judged(b[p], attempts)
        /\ attempts \in [Tickets -> Seq(AttemptRow)]
    BY BuildHas DEF Founded
  <2>2. b[p].resume \in BOOLEAN /\ b[p].delivering \in BOOLEAN BY <2>1 DEF Memory
  <2>3. b[p].pc \in {"deliver", "finish", "cleanup"} =>
          b[p].done + b[p].failed + b[p].recovered >= N
    BY <2>1 DEF Judged, Ending
  <2>4. ASSUME AllPromoted(attempts), NEW t \in Tickets PROVE Promoted(t)
    <3>1. DOMAIN attempts[t] = 1 .. Len(attempts[t]) BY <2>1
    <3> QED BY <2>4, <3>1 DEF AllPromoted, PromotedIn, Promoted
  <2>5. ~b[p].resume /\ (b[p].verdict = "success" \/ b[p].delivering) => AllPromoted(attempts)
    BY <2>1, <2>2 DEF Judged
  <2> QED BY <2>3, <2>4, <2>5
<1> QED BY <1>1, BuildInvariant, PTL

\* While a build runs an attempt, every attempt whose runner it called before in
\* this drain has its terminal record.
THEOREM DrainIsIsolated == Spec => []SequentialIsolation
<1>1. BuildInv => SequentialIsolation
  <2> SUFFICES ASSUME BuildInv, NEW p \in Builders, b[p].pc = "running",
                      NEW k \in 1 .. b[p].i - 1, b[p].entry[b[p].queue[k]] # "unrun"
               PROVE  attempts[b[p].queue[k]][b[p].n[b[p].queue[k]]].record # "none"
    BY DEF SequentialIsolation
  <2> QED BY BuildHas DEF Founded, Drained
<1> QED BY <1>1, BuildInvariant, PTL

\* The bounds: one run, the budgets of the tickets, the builds and the deaths.
Bounded ==
  /\ run \in {"none", "allocated"}
  /\ starts \in 0 .. MaxBuilds /\ crashes \in 0 .. MaxCrashes
  /\ \A t \in Tickets : Len(attempts[t]) <= MaxAttempts[t]

\* One row changes: the number of attempts stays.
LEMMA StateKeepsLength ==
  ASSUME AttemptsTyped, NEW t, NEW n, NEW r, attempts' = [attempts EXCEPT ![t][n] = r]
  PROVE  \A u \in Tickets : Len(attempts'[u]) = Len(attempts[u])
<1> SUFFICES ASSUME NEW u \in Tickets PROVE Len(attempts'[u]) = Len(attempts[u]) OBVIOUS
<1>1. attempts[u] \in Seq(AttemptRow) /\ attempts \in [Tickets -> Seq(AttemptRow)]
  BY DEF AttemptsTyped
<1>2. CASE u # t BY <1>1, <1>2
<1>3. CASE u = t
  <2> DEFINE old == attempts[u]
  <2>1. attempts'[u] = [old EXCEPT ![n] = r] BY <1>1, <1>3
  <2>2. old \in Seq(AttemptRow) BY <1>1
  <2> HIDE DEF old
  <2>3. Len([old EXCEPT ![n] = r]) = Len(old) BY <2>2
  <2> QED BY <2>1, <2>3 DEF old
<1> QED BY <1>2, <1>3

\* No step leaves the bounds: a retry is allocated only within the budget.
LEMMA BoundedStep == BuildInv /\ Bounded /\ [Next]_vars => Bounded'
<1> SUFFICES ASSUME BuildInv, Bounded, [Next]_vars PROVE Bounded' OBVIOUS
<1>1. AttemptsTyped BY DEF BuildInv, AttemptsInv
<1>2. MaxBuilds \in Nat /\ MaxCrashes \in Nat /\ \A t \in Tickets : MaxAttempts[t] \in Nat \ {0}
  BY BuildAssumption DEF Tickets
<1>3. /\ run' \in {"none", "allocated"}
      /\ starts' \in 0 .. MaxBuilds /\ crashes' \in 0 .. MaxCrashes
  <2>1. CASE UNCHANGED vars BY <2>1 DEF vars, rows, Bounded
  <2>2. CASE \E t \in Tickets : SettleFailure(t) BY <2>2 DEF SettleFailure, Bounded
  <2>3. ASSUME NEW p \in Builders, Crash(p) \/ \E resume \in BOOLEAN : StartBuild(p, resume)
        PROVE  /\ run' \in {"none", "allocated"}
               /\ starts' \in 0 .. MaxBuilds /\ crashes' \in 0 .. MaxCrashes
    <3>1. /\ run' = run
          /\ starts' = starts \/ (starts < MaxBuilds /\ starts' = starts + 1)
          /\ crashes' = crashes \/ (crashes < MaxCrashes /\ crashes' = crashes + 1)
      BY <2>3 DEF Crash, StartBuild, rows
    <3> QED BY <1>2, <3>1 DEF Bounded
  <2>4. ASSUME NEW p \in Builders, RunnerWrites(p)
        PROVE  run' = run /\ starts' = starts /\ crashes' = crashes
    BY <2>4 DEF RunnerWrites
  <2>5. ASSUME NEW p \in Builders, Step(p)
        PROVE  run' \in {run, "allocated"} /\ starts' = starts /\ crashes' = crashes
    <3>1. CASE \/ PlanRefused(p) \/ PolicyAttachmentRefused(p) \/ StateAuthorityRefused(p)
               \/ AllocateFreshRun(p) \/ OtherRun(p)
      BY <3>1 DEF PlanRefused, PolicyAttachmentRefused, StateAuthorityRefused,
                  AllocateFreshRun, OtherRun, rows
    <3>2. CASE SelectCompatibleResume(p) \/ PlanTicketRecovery(p) \/ RecoverOrphan(p)
      BY <3>2 DEF SelectCompatibleResume, PlanTicketRecovery, RecoverOrphan, rows
    <3>3. CASE AllocateRetry(p) \/ ProbeContainment(p) \/ EnqueueInitial(p)
      BY <3>3 DEF AllocateRetry, ProbeContainment, EnqueueInitial, rows
    <3>4. CASE EnqueueResumed(p) \/ DrainEmpty(p) \/ DispatchThrows(p) \/ Dispatch(p) \/ RunnerReturns(p)
      BY <3>4 DEF EnqueueResumed, DrainEmpty, DispatchThrows, Dispatch, RunnerReturns, rows
    <3>5. CASE Account(p) \/ Deliver(p) \/ Finish(p) \/ RunCleanup(p)
      BY <3>5 DEF Account, Deliver, Finish, RunCleanup, rows
    <3> QED BY <2>5, <3>1, <3>2, <3>3, <3>4, <3>5 DEF Step
  <2> QED BY <2>1, <2>2, <2>3, <2>4, <2>5 DEF Next, Bounded
<1>4. ASSUME NEW u \in Tickets PROVE Len(attempts'[u]) <= MaxAttempts[u]
  <2>1. Len(attempts[u]) <= MaxAttempts[u] /\ MaxAttempts[u] \in Nat \ {0} /\ Len(attempts[u]) \in Nat
        /\ attempts[u] \in Seq(AttemptRow)
    BY <1>1, <1>2 DEF Bounded, AttemptsTyped
  <2>2. CASE attempts' = attempts BY <2>1, <2>2
  <2>3. ASSUME NEW t, NEW n, NEW s, attempts' = [attempts EXCEPT ![t][n].state = s]
        PROVE  Len(attempts'[u]) <= MaxAttempts[u]
    <3> DEFINE r == [attempts[t][n] EXCEPT !.state = s]
    <3>1. attempts' = [attempts EXCEPT ![t][n] = r] BY <2>3
    <3> HIDE DEF r
    <3> QED BY <1>1, <2>1, <3>1, StateKeepsLength
  <2>4. ASSUME NEW t, NEW n, NEW k, attempts' = [attempts EXCEPT ![t][n].record = k]
        PROVE  Len(attempts'[u]) <= MaxAttempts[u]
    <3> DEFINE r == [attempts[t][n] EXCEPT !.record = k]
    <3>1. attempts' = [attempts EXCEPT ![t][n] = r] BY <2>4
    <3> HIDE DEF r
    <3> QED BY <1>1, <2>1, <3>1, StateKeepsLength
  <2>5. ASSUME NEW t, RetrySelection(t), attempts' = [attempts EXCEPT ![t] = Append(@, Planned)]
        PROVE  Len(attempts'[u]) <= MaxAttempts[u]
    <3>1. CASE u # t BY <1>1, <2>1, <2>5, <3>1 DEF AttemptsTyped
    <3>2. CASE u = t
      <4> DEFINE old == attempts[u]
      <4>1. attempts'[u] = Append(old, Planned) BY <1>1, <2>5, <3>2 DEF AttemptsTyped
      <4>2. old \in Seq(AttemptRow) /\ Len(old) < MaxAttempts[u]
        BY <2>1, <2>5, <3>2 DEF RetrySelection
      <4>3. Planned \in AttemptRow BY DEF Planned, AttemptRow, AttemptStates, Records
      <4> HIDE DEF old
      <4>4. Len(Append(old, Planned)) = Len(old) + 1 /\ Len(old) \in Nat BY <4>2, <4>3
      <4>5. Len(old) + 1 <= MaxAttempts[u] BY <2>1, <4>2, <4>4
      <4> QED BY <4>1, <4>4, <4>5
    <3> QED BY <3>1, <3>2
  <2>6. ASSUME NEW t, attempts' = [attempts EXCEPT ![t] = <<Planned>>]
        PROVE  Len(attempts'[u]) <= MaxAttempts[u]
    <3>1. CASE u # t BY <1>1, <2>1, <2>6, <3>1 DEF AttemptsTyped
    <3>2. CASE u = t
      <4>1. attempts'[u] = <<Planned>> BY <1>1, <2>6, <3>2 DEF AttemptsTyped
      <4>2. Len(<<Planned>>) = 1 OBVIOUS
      <4>3. 1 <= MaxAttempts[u] BY <2>1
      <4> QED BY <4>1, <4>2, <4>3
    <3> QED BY <3>1, <3>2
  <2>7. CASE UNCHANGED vars BY <2>2, <2>7 DEF vars, rows
  <2>8. CASE \E t \in Tickets : SettleFailure(t)
    <3>1. PICK t \in Tickets : SettleFailure(t) BY <2>8
    <3> DEFINE n == Len(attempts[t])
    <3>2. attempts' = [attempts EXCEPT ![t][n].state = "failed_clean"] BY <3>1 DEF SettleFailure
    <3> HIDE DEF n
    <3> QED BY <2>3, <3>2
  <2>9. ASSUME NEW p \in Builders, RunnerWrites(p) PROVE Len(attempts'[u]) <= MaxAttempts[u]
    <3> DEFINE t == Head1(p)  n == b[p].n[t]
    <3>1. \/ attempts' = attempts
          \/ \E s \in {"working", "cleanup_pending"} : attempts' = [attempts EXCEPT ![t][n].state = s]
          \/ \E k \in Records : attempts' = [attempts EXCEPT ![t][n].record = k]
      BY <2>9 DEF RunnerWrites, Records
    <3> HIDE DEF t, n
    <3> QED BY <2>2, <2>3, <2>4, <3>1
  <2>10. ASSUME NEW p \in Builders, RecoverOrphan(p) PROVE Len(attempts'[u]) <= MaxAttempts[u]
    <3> DEFINE t == b[p].i  n == b[p].seen[t].n
    <3>1. attempts' = attempts \/ attempts' = [attempts EXCEPT ![t][n].state = "failed_clean"]
      BY <2>10 DEF RecoverOrphan
    <3> HIDE DEF t, n
    <3> QED BY <2>2, <2>3, <3>1
  <2>11. ASSUME NEW p \in Builders, AllocateRetry(p) PROVE Len(attempts'[u]) <= MaxAttempts[u]
    BY <2>2, <2>5, <2>11 DEF AllocateRetry
  <2>12. ASSUME NEW p \in Builders, EnqueueInitial(p) PROVE Len(attempts'[u]) <= MaxAttempts[u]
    BY <2>6, <2>12 DEF EnqueueInitial
  <2>13. ASSUME NEW p \in Builders, ~RunnerWrites(p), ~RecoverOrphan(p), ~AllocateRetry(p),
                ~EnqueueInitial(p),
                Crash(p) \/ (\E resume \in BOOLEAN : StartBuild(p, resume)) \/ Step(p)
         PROVE  attempts' = attempts
    <3>1. CASE \/ Crash(p) \/ (\E resume \in BOOLEAN : StartBuild(p, resume))
               \/ PlanRefused(p) \/ PolicyAttachmentRefused(p) \/ StateAuthorityRefused(p)
               \/ AllocateFreshRun(p) \/ OtherRun(p)
      BY <3>1 DEF Crash, StartBuild, PlanRefused, PolicyAttachmentRefused,
                  StateAuthorityRefused, AllocateFreshRun, OtherRun, rows
    <3>2. CASE SelectCompatibleResume(p) \/ PlanTicketRecovery(p) \/ ProbeContainment(p)
      BY <3>2 DEF SelectCompatibleResume, PlanTicketRecovery, ProbeContainment, rows
    <3>3. CASE EnqueueResumed(p) \/ DrainEmpty(p) \/ DispatchThrows(p) \/ Dispatch(p) \/ RunnerReturns(p)
      BY <3>3 DEF EnqueueResumed, DrainEmpty, DispatchThrows, Dispatch, RunnerReturns, rows
    <3>4. CASE Account(p) \/ Deliver(p) \/ Finish(p) \/ RunCleanup(p)
      BY <3>4 DEF Account, Deliver, Finish, RunCleanup, rows
    <3> QED BY <2>13, <3>1, <3>2, <3>3, <3>4 DEF Step
  <2> QED BY <2>2, <2>7, <2>8, <2>9, <2>10, <2>11, <2>12, <2>13 DEF Next
<1> QED BY <1>3, <1>4 DEF Bounded

\* The rows, the memory of every build and the bounds are of their types; the
\* attempts of a ticket never exceed its budget.
THEOREM BuildTypes == Spec => []BuildTypeOK
<1>1. Init => Bounded
  <2> SUFFICES ASSUME Init PROVE Bounded OBVIOUS
  <2>1. \A t \in Tickets : Len(attempts[t]) = 0 /\ MaxAttempts[t] \in Nat
    BY BuildAssumption DEF Init, Tickets
  <2>2. run = "none" /\ starts = 0 /\ crashes = 0 BY DEF Init
  <2>3. starts \in 0 .. MaxBuilds /\ crashes \in 0 .. MaxCrashes BY <2>2, BuildAssumption
  <2> QED BY <2>1, <2>2, <2>3 DEF Bounded
<1>2. BuildInv /\ Bounded => BuildTypeOK
  <2> SUFFICES ASSUME BuildInv, Bounded PROVE BuildTypeOK OBVIOUS
  <2>1. ticket \in [Tickets -> {"planned", "active", "cleanup_pending"}]
    BY DEF BuildInv, TicketsTyped
  <2>2. ASSUME NEW t \in Tickets, NEW k \in DOMAIN attempts[t]
        PROVE  attempts[t][k] \in [state : AttemptStates, record : Records]
    <3>1. attempts[t] \in Seq(AttemptRow) BY DEF BuildInv, AttemptsInv, AttemptsTyped
    <3>2. attempts[t][k] \in AttemptRow BY <2>2, <3>1
    <3> QED BY <3>2 DEF AttemptRow
  <2>3. ASSUME NEW p \in Builders
        PROVE  /\ b[p].pc \in {"idle", "gates", "plan", "orphan", "retry", "probe", "enqueue",
                               "drain", "running", "account", "deliver", "finish", "cleanup"}
               /\ b[p].plan \in [Tickets -> Actions]
               /\ \A t \in Tickets : b[p].n[t] \in 0 .. Len(attempts[t])
               /\ b[p].entry \in [Tickets -> {"none", "completed", "failed", "unrun"}]
               /\ b[p].done + b[p].failed + b[p].recovered <= 2 * N
               /\ b[p].issues \subseteq Classes
               /\ b[p].verdict \in Classes \cup {"none", "success", "threw"}
    <3> DEFINE m == b[p]
    <3>1. m \in Memory /\ Founded(m, attempts) BY BuildHas
    <3> HIDE DEF m
    <3>2. /\ m.pc \in Pcs /\ m.plan \in [Tickets -> Actions] /\ m.issues \in SUBSET Classes
          /\ m.entry \in [Tickets -> {"none", "completed", "failed", "unrun"}]
          /\ m.verdict \in Classes \cup {"none", "success", "threw"}
          /\ m.done \in Nat /\ m.failed \in Nat /\ m.recovered \in Nat /\ m.i \in Nat
      BY <3>1 DEF Memory
    <3>3. \A t \in Tickets : m.n[t] \in 0 .. Len(attempts[t]) BY <3>1 DEF Founded, Numbered
    <3>4. m.done + m.failed + m.recovered <= 2 * N
      <4>1. N \in Nat BY BuildAssumption
      <4>2. CASE m.pc \in Ending BY <3>1, <4>2 DEF Founded, Judged
      <4>3. CASE m.pc \in Early \cup {"idle"}
        <5>1. m.done = 0 /\ m.failed = 0 /\ m.recovered = 0
          BY <3>1, <4>3 DEF Founded, Counted, Early, Planning, Ending
        <5> QED BY <4>1, <5>1
      <4>4. CASE m.pc = "enqueue"
        <5>1. m.done + m.failed <= m.i - 1 /\ m.recovered = 0 /\ m.i \in Tickets
          BY <3>1, <4>4 DEF Founded, Counted, Positioned, Ending
        <5> QED BY <3>2, <4>1, <5>1 DEF Tickets
      <4>5. CASE m.pc \in Draining
        <5>1. m.done + m.failed <= N /\ m.recovered = 0
          BY <3>1, <4>5 DEF Founded, Counted, Draining, Ending
        <5> QED BY <3>2, <4>1, <5>1
      <4> QED BY <3>2, <4>2, <4>3, <4>4, <4>5 DEF Pcs, Ending, Early, Planning, Draining
    <3> QED BY <3>2, <3>3, <3>4 DEF Pcs, m
  <2> QED BY <2>1, <2>2, <2>3 DEF Bounded, BuildTypeOK
<1> QED BY <1>1, <1>2, BoundedStep, BuildInvariant, PTL DEF Spec

=============================================================================
