--------------------------- MODULE StoreOpenProofs ---------------------------
(***************************************************************************)
(* StoreOpen for any number of openers, observers, calls and deaths: who   *)
(* gets a store gets the one at the canonical path, complete.  An opener   *)
(* validates with several statements between which others migrate, so what *)
(* it may rely on must be stable: an intact database only ever grows, and  *)
(* one that is not intact is never written.                                *)
(***************************************************************************)
EXTENDS StoreOpen, TLAPS

\* A database openers may write.
Intact(d) == d # NoDb /\ ~Damaged(d) /\ d.version <= Latest

\* The database is the one that was there at the start, or came from nothing or
\* from an intact one by publication, migrations and registration.
DbFounded ==
    db = origin \/ /\ Intact(db)
                   /\ origin = NoDb \/ Intact(origin)
                   /\ db.rows >= origin.rows

\* The steps with a database, with a connection, with a validated one, with one
\* at the latest version, and with a store.
Reached == {"connect", "version", "ledger", "schema", "migrate", "identity", "register",
            "discover", "inventory", "ready"}
Opened == Reached \ {"connect"}
Validated == {"migrate", "identity", "register", "discover", "inventory", "ready"}
Current == Validated \ {"migrate"}
Holding == {"discover", "inventory", "ready"}

\* What a process has established and nobody takes back.
ProcFounded(m) ==
    /\ m.pc = "publish" => m.cand = Latest
    /\ m.pc \in Reached => db # NoDb
    /\ m.pc \in Opened => m.conn = db.ino
    /\ m.pc = "schema" => db.rows = m.seen \/ Intact(db)
    /\ m.pc \in Validated => Intact(db)
    /\ m.pc \in Current => db.version = Latest
    /\ m.pc \in Holding => db.repo = TRUE
    /\ m.said = "present" => Intact(db) /\ db.version = Latest

StoreInv ==
    /\ StoreTypeOK
    /\ origin \in Databases /\ touches \in 0 .. MaxTouches
    /\ DbFounded
    /\ \A p \in Procs : ProcFounded(proc[p])

-----------------------------------------------------------------------------
(* How the database may change under a process.                            *)

Grows ==
    \/ db' = db
    \/ db = NoDb /\ Intact(db')
    \/ /\ Intact(db) /\ Intact(db')
       /\ db'.ino = db.ino /\ db'.version >= db.version
       /\ db.repo = TRUE => db'.repo = TRUE

\* What a process has established stays.
LEMMA FoundedLasts ==
    ASSUME db \in Databases, db' \in Databases, Grows,
           NEW p \in Procs, ProcFounded(proc[p]), proc'[p] = proc[p]
    PROVE  ProcFounded(proc[p])'
<1>1. CASE db' = db BY <1>1 DEF ProcFounded
<1>2. CASE db = NoDb /\ Intact(db')
  BY <1>2 DEF ProcFounded, Intact, Reached, Opened, Validated, Current, Holding
<1>3. CASE /\ Intact(db) /\ Intact(db') /\ db'.ino = db.ino /\ db'.version >= db.version
           /\ db.repo = TRUE => db'.repo = TRUE
  <2>1. db'.version <= Latest /\ db.version \in Nat /\ db'.version \in Nat /\ db' # NoDb
    BY <1>3 DEF Intact, Databases
  <2>2. db.version = Latest => db'.version = Latest
    BY <2>1, <1>3, StoreOpenAssumption
  <2> QED BY <1>3, <2>1, <2>2 DEF ProcFounded, Reached, Opened, Validated, Current, Holding
<1> QED BY <1>1, <1>2, <1>3 DEF Grows

\* When one process moves, the others need no look.
LEMMA OneMoves ==
    ASSUME StoreInv, db' \in Databases, Grows, NEW p \in Procs,
           \A q \in Procs \ {p} : proc'[q] = proc[q],
           ProcFounded(proc[p])'
    PROVE  (\A q \in Procs : ProcFounded(proc[q]))'
<1>1. ASSUME NEW q \in Procs PROVE ProcFounded(proc[q])'
  <2>1. CASE q = p BY <2>1
  <2>2. CASE q # p BY <2>2, FoundedLasts DEF StoreInv, StoreTypeOK
  <2> QED BY <2>1, <2>2
<1> QED BY <1>1

-----------------------------------------------------------------------------
(* The memory of a process.                                                *)

\* What a process starts with.
LEMMA IdleType == Idle \in Memory
BY StoreOpenAssumption DEF Idle, Memory, Pcs, Answers

\* One process moves.
LEMMA AdvanceMoves ==
    ASSUME proc \in [Procs -> Memory], NEW p \in Procs, NEW m \in Memory, Advance(p, m)
    PROVE  /\ proc' \in [Procs -> Memory] /\ proc'[p] = m
           /\ \A q \in Procs \ {p} : proc'[q] = proc[q]
BY DEF Advance

\* An answer ends the call: of what was established only "present" remains.
LEMMA AnswerMoves ==
    ASSUME proc \in [Procs -> Memory], side \in BOOLEAN, NEW p \in Procs,
           NEW code \in Answers, Answer(p, code)
    PROVE  /\ proc' \in [Procs -> Memory] /\ side' \in BOOLEAN
           /\ proc'[p].pc = "idle" /\ proc'[p].said = code
           /\ \A q \in Procs \ {p} : proc'[q] = proc[q]
<1> DEFINE m == [Idle EXCEPT !.said = code, !.pass = proc[p].pass]
<1>1. proc[p].pass \in {"first", "last", "observe"} BY DEF Memory
<1>2. m \in Memory /\ m.pc = "idle" /\ m.said = code BY <1>1, IdleType DEF Memory, Idle
<1>3. Advance(p, m) BY DEF Answer
<1> HIDE DEF m
<1>4. side' \in BOOLEAN BY DEF Answer, SideAfterClose
<1> QED BY <1>2, <1>3, <1>4, AdvanceMoves

\* What the invariant asks of a step beside the database and the processes.
Steady == UNCHANGED <<origin, artifact, touches>> /\ records' \subseteq Findings

\* Most steps leave all of it alone.
LEMMA StaticIsSteady == ASSUME StoreInv, Static PROVE Steady
BY DEF StoreInv, StoreTypeOK, Static, Steady, counters

\* A step of a process: its own memory and the database are what is left to show.
LEMMA StepPreserves ==
    ASSUME StoreInv, NEW p \in Procs, Steady, db' \in Databases, Grows, DbFounded',
           side' \in BOOLEAN, proc' \in [Procs -> Memory],
           \A q \in Procs \ {p} : proc'[q] = proc[q], ProcFounded(proc[p])'
    PROVE  StoreInv'
<1>1. (\A q \in Procs : ProcFounded(proc[q]))' BY OneMoves
<1>2. StoreTypeOK' BY DEF StoreInv, StoreTypeOK, Steady
<1> QED BY <1>1, <1>2 DEF StoreInv, Steady

\* The same for one that leaves the database alone.
LEMMA ReadingPreserves ==
    ASSUME StoreInv, NEW p \in Procs, Steady, db' = db,
           side' \in BOOLEAN, proc' \in [Procs -> Memory],
           \A q \in Procs \ {p} : proc'[q] = proc[q], ProcFounded(proc[p])'
    PROVE  StoreInv'
<1>1. Grows /\ db' \in Databases BY DEF Grows, StoreInv, StoreTypeOK
<1>2. DbFounded' BY DEF StoreInv, DbFounded, Steady
<1> QED BY <1>1, <1>2, StepPreserves

\* A process that answers, with anything but "present".
LEMMA AnswerStep ==
    ASSUME StoreInv, NEW p \in Procs, NEW code \in Answers \ {"present"}, Answer(p, code),
           Steady, db' = db
    PROVE  StoreInv'
<1>1. proc \in [Procs -> Memory] /\ side \in BOOLEAN BY DEF StoreInv, StoreTypeOK
<1>2. /\ proc' \in [Procs -> Memory] /\ side' \in BOOLEAN
      /\ proc'[p].pc = "idle" /\ proc'[p].said = code
      /\ \A q \in Procs \ {p} : proc'[q] = proc[q]
  BY <1>1, AnswerMoves
<1>3. ProcFounded(proc[p])'
  BY <1>2 DEF ProcFounded, Reached, Opened, Validated, Current, Holding
<1> QED BY <1>2, <1>3, ReadingPreserves

\* A process that only goes on to pc, remembering seen and cand as given.
LEMMA GoOnStep ==
    ASSUME StoreInv, NEW p \in Procs, Steady, db' = db, side' = side \/ side' = TRUE,
           NEW m \in Memory, Advance(p, m), m.said = proc[p].said, ProcFounded(m)
    PROVE  StoreInv'
<1>1. proc \in [Procs -> Memory] /\ side \in BOOLEAN BY DEF StoreInv, StoreTypeOK
<1>2. /\ proc' \in [Procs -> Memory] /\ proc'[p] = m
      /\ \A q \in Procs \ {p} : proc'[q] = proc[q]
  BY <1>1, AdvanceMoves
<1>3. ProcFounded(proc[p])' BY <1>2 DEF ProcFounded
<1> QED BY <1>1, <1>2, <1>3, ReadingPreserves

-----------------------------------------------------------------------------
(* The steps.                                                              *)

\* Entry and the look at the path.
LEMMA EntrySteps ==
    ASSUME StoreInv, NEW p \in Procs, CheckExists(p) \/ CheckSidecars(p)
    PROVE  StoreInv'
<1>1. proc[p] \in Memory /\ ProcFounded(proc[p]) /\ side \in BOOLEAN
  BY DEF StoreInv, StoreTypeOK
<1>2. db' = db /\ Steady BY StaticIsSteady DEF CheckExists, CheckSidecars
<1>3. CASE CheckExists(p)
  <2> DEFINE pc == IF db = NoDb THEN "sidecars" ELSE "connect"
             m == [proc[p] EXCEPT !.pc = pc]
  <2>1. pc \in {"sidecars", "connect"} /\ (pc = "connect" => db # NoDb) OBVIOUS
  <2>2. Advance(p, m) /\ side' = side BY <1>3 DEF CheckExists
  <2> HIDE DEF pc
  <2>3. m \in Memory /\ m.pc = pc /\ m.said = proc[p].said BY <2>1, <1>1 DEF Memory, Pcs
  <2> HIDE DEF m
  <2>4. ProcFounded(m)
    BY <2>1, <2>3, <1>1 DEF ProcFounded, Reached, Opened, Validated, Current, Holding
  <2> QED BY <1>2, <2>2, <2>3, <2>4, GoOnStep
<1>4. CASE CheckSidecars(p)
  <2> DEFINE m == [proc[p] EXCEPT !.pc = "candidate"]
  <2>1. CASE Answer(p, "corrupt") \/ Answer(p, "absent")
    BY <1>2, <2>1, AnswerStep DEF Answers
  <2>2. CASE Advance(p, m) /\ side' = side
    <3>1. m \in Memory /\ m.pc = "candidate" /\ m.said = proc[p].said
      BY <1>1 DEF Memory, Pcs
    <3> HIDE DEF m
    <3>2. ProcFounded(m)
      BY <3>1, <1>1 DEF ProcFounded, Reached, Opened, Validated, Current, Holding
    <3> QED BY <1>2, <2>2, <3>1, <3>2, GoOnStep
  <2> QED BY <1>4, <2>1, <2>2 DEF CheckSidecars
<1> QED BY <1>3, <1>4

\* A candidate is private, and complete when it is published.
LEMMA CandidateSteps ==
    ASSUME StoreInv, NEW p \in Procs, MigrateCandidate(p) \/ CandidateFails(p)
    PROVE  StoreInv'
<1>1. proc[p] \in Memory /\ ProcFounded(proc[p]) BY DEF StoreInv, StoreTypeOK
<1>2. db' = db /\ Steady BY StaticIsSteady DEF MigrateCandidate, CandidateFails
<1>3. CASE CandidateFails(p) BY <1>2, <1>3, AnswerStep DEF CandidateFails, Answers
<1>4. CASE MigrateCandidate(p)
  <2> DEFINE n == proc[p].cand + 1
             pc == IF n = Latest THEN "publish" ELSE proc[p].pc
             m == [proc[p] EXCEPT !.cand = n, !.pc = pc]
  <2>1. n \in 0 .. Latest
    <3>1. proc[p].cand \in 0 .. Latest /\ proc[p].cand < Latest
      BY <1>1, <1>4 DEF MigrateCandidate, Memory
    <3> QED BY <3>1, StoreOpenAssumption
  <2>2. pc \in {"publish", "candidate"} /\ (pc = "publish" => n = Latest)
    BY <1>4 DEF MigrateCandidate
  <2>3. Advance(p, m) /\ side' = side BY <1>4 DEF MigrateCandidate
  <2> HIDE DEF n, pc
  <2>4. m \in Memory /\ m.pc = pc /\ m.cand = n /\ m.said = proc[p].said
    BY <2>1, <2>2, <1>1 DEF Memory, Pcs
  <2> HIDE DEF m
  <2>5. ProcFounded(m)
    BY <2>2, <2>4, <1>1 DEF ProcFounded, Reached, Opened, Validated, Current, Holding
  <2> QED BY <1>2, <2>3, <2>4, <2>5, GoOnStep
<1> QED BY <1>3, <1>4

\* link(2) publishes a complete database where there is none, and discards the
\* candidate where there is one.
LEMMA PublishStep ==
    ASSUME StoreInv, NEW p \in Procs, PublishCandidate(p)
    PROVE  StoreInv'
<1>1. /\ proc[p] \in Memory /\ ProcFounded(proc[p]) /\ proc \in [Procs -> Memory]
      /\ side \in BOOLEAN /\ db \in Databases /\ origin \in Databases /\ DbFounded
  BY DEF StoreInv, StoreTypeOK
<1>2. /\ proc[p].pc = "publish" /\ db' = Publish(p) /\ side' = side /\ Steady
      /\ Advance(p, [proc[p] EXCEPT !.pc = "connect", !.cand = 0])
  BY StaticIsSteady DEF PublishCandidate
<1>3. db' \in Databases /\ Grows /\ DbFounded' /\ db' # NoDb
  <2>1. CASE db # NoDb
    <3>1. db' = db BY <1>2, <2>1 DEF Publish
    <3> QED BY <3>1, <2>1, <1>1, <1>2 DEF Grows, DbFounded, Steady
  <2>2. CASE db = NoDb
    <3>1. proc[p].cand = Latest BY <1>1, <1>2 DEF ProcFounded
    <3>2. db' = [ino |-> p, version |-> Latest, rows |-> Latest, drift |-> FALSE,
                 repo |-> FALSE]
      BY <1>2, <2>2, <3>1 DEF Publish, CandidateDb
    <3>3. Latest \in Nat /\ Latest > 4 BY StoreOpenAssumption
    <3>4. db' \in Databases BY <3>2, <3>3 DEF Databases
    <3>5. db'.version = Latest /\ db'.rows = Latest /\ db'.drift = FALSE BY <3>2
    <3>6. NoDb.version = 0 /\ NoDb.rows = 0 BY DEF NoDb
    <3>7. db' # NoDb BY <3>3, <3>5, <3>6
    <3>8. Intact(db') BY <3>3, <3>5, <3>7 DEF Intact, Damaged
    <3>9. origin = NoDb
      BY <1>1, <2>2 DEF DbFounded, Intact
    <3>10. DbFounded' BY <3>3, <3>5, <3>6, <3>8, <3>9, <1>2 DEF DbFounded, Steady
    <3> QED BY <2>2, <3>4, <3>7, <3>8, <3>10 DEF Grows
  <2> QED BY <2>1, <2>2
<1> DEFINE m == [proc[p] EXCEPT !.pc = "connect", !.cand = 0]
<1>4. m \in Memory /\ m.pc = "connect" /\ m.said = proc[p].said
  <2>1. 0 \in 0 .. Latest BY StoreOpenAssumption
  <2> QED BY <2>1, <1>1 DEF Memory, Pcs
<1>5. Advance(p, m) BY <1>2
<1> HIDE DEF m
<1>6. /\ proc' \in [Procs -> Memory] /\ proc'[p] = m
      /\ \A q \in Procs \ {p} : proc'[q] = proc[q]
  BY <1>1, <1>4, <1>5, AdvanceMoves
<1>7. proc[p].said = "present" => Intact(db) /\ db.version = Latest /\ db # NoDb
  BY <1>1 DEF ProcFounded, Intact
<1>8. proc[p].said = "present" => db' = db BY <1>2, <1>7 DEF Publish
<1>9. ProcFounded(proc[p])'
  BY <1>3, <1>4, <1>6, <1>7, <1>8
     DEF ProcFounded, Reached, Opened, Validated, Current, Holding
<1>10. side' \in BOOLEAN BY <1>1, <1>2
<1> QED BY <1>2, <1>3, <1>6, <1>9, <1>10, StepPreserves

\* The statements of a validation: each says of its own moment what stays true
\* of an intact database, or of one that nobody writes.
LEMMA ValidationSteps ==
    ASSUME StoreInv, NEW p \in Procs,
           Connect(p) \/ ReadVersion(p) \/ ReadLedger(p) \/ CheckSchema(p)
    PROVE  StoreInv'
<1>1. /\ proc[p] \in Memory /\ ProcFounded(proc[p]) /\ side \in BOOLEAN
      /\ db \in Databases
  BY DEF StoreInv, StoreTypeOK
<1>2. db' = db /\ Steady
  BY StaticIsSteady DEF Connect, ReadVersion, ReadLedger, CheckSchema
<1>3. CASE Connect(p)
  <2> DEFINE m == [proc[p] EXCEPT !.pc = "version", !.conn = db.ino]
  <2>1. db.ino \in Procs \cup {"none", "origin"} BY <1>1 DEF Databases
  <2>2. m \in Memory /\ m.pc = "version" /\ m.conn = db.ino /\ m.said = proc[p].said
    BY <2>1, <1>1 DEF Memory, Pcs
  <2>3. Advance(p, m) /\ side' = TRUE /\ db # NoDb
    BY <1>1, <1>3 DEF Connect, ProcFounded, Reached
  <2> HIDE DEF m
  <2>4. ProcFounded(m)
    BY <2>2, <2>3, <1>1 DEF ProcFounded, Reached, Opened, Validated, Current, Holding
  <2> QED BY <1>2, <2>2, <2>3, <2>4, GoOnStep
<1>4. CASE ReadVersion(p)
  <2> DEFINE m == [proc[p] EXCEPT !.pc = "ledger", !.seen = db.version]
  <2>1. CASE Answer(p, "future") BY <1>2, <2>1, AnswerStep DEF Answers
  <2>2. CASE Advance(p, m) /\ side' = side
    <3>1. db.version \in 0 .. Latest + 1 BY <1>1 DEF Databases
    <3>2. m \in Memory /\ m.pc = "ledger" /\ m.conn = proc[p].conn
          /\ m.said = proc[p].said
      BY <3>1, <1>1 DEF Memory, Pcs
    <3>3. proc[p].pc = "version" BY <1>4 DEF ReadVersion
    <3> HIDE DEF m
    <3>4. ProcFounded(m)
      BY <3>2, <3>3, <1>1 DEF ProcFounded, Reached, Opened, Validated, Current, Holding
    <3> QED BY <1>2, <2>2, <3>2, <3>4, GoOnStep
  <2> QED BY <1>4, <2>1, <2>2 DEF ReadVersion
<1>5. CASE ReadLedger(p)
  <2> DEFINE m == [proc[p] EXCEPT !.pc = "schema"]
  <2>1. CASE Answer(p, "corrupt") BY <1>2, <2>1, AnswerStep DEF Answers
  <2>2. CASE LedgerOk(proc[p].seen) /\ Advance(p, m) /\ side' = side
    <3>1. m \in Memory /\ m.pc = "schema" /\ m.conn = proc[p].conn
          /\ m.said = proc[p].said /\ m.seen = proc[p].seen
      BY <1>1 DEF Memory, Pcs
    <3>2. proc[p].pc = "ledger" BY <1>5 DEF ReadLedger
    <3> HIDE DEF m
    <3>3. ProcFounded(m)
      BY <3>1, <3>2, <2>2, <1>1
         DEF ProcFounded, Reached, Opened, Validated, Current, Holding, LedgerOk
    <3> QED BY <1>2, <2>2, <3>1, <3>3, GoOnStep
  <2> QED BY <1>5, <2>1, <2>2 DEF ReadLedger
<1>6. CASE CheckSchema(p)
  <2> DEFINE m == [proc[p] EXCEPT !.pc = AfterSchema(p)]
  <2>1. CASE Answer(p, "corrupt") BY <1>2, <2>1, AnswerStep DEF Answers
  <2>2. CASE /\ LatestEnough(proc[p].pass, proc[p].seen) /\ SchemaOk(proc[p].seen)
             /\ Advance(p, m) /\ side' = side
    <3>1. proc[p].pc = "schema" BY <1>6 DEF CheckSchema
    <3>2. proc[p].pass \in {"first", "last", "observe"} BY <1>1 DEF Memory
    <3>3. AfterSchema(p) \in {"migrate", "register", "identity"}
          /\ (AfterSchema(p) # "migrate" => proc[p].pass # "first")
      BY <3>2 DEF AfterSchema
    <3>4. m \in Memory /\ m.pc = AfterSchema(p) /\ m.conn = proc[p].conn
          /\ m.said = proc[p].said
      BY <3>3, <1>1 DEF Memory, Pcs
    <3>5. /\ db.version = proc[p].seen /\ ~db.drift
          /\ db.version \in {1, 2, 3, 4, Latest}
          /\ proc[p].pass # "first" => db.version = Latest
      BY <2>2 DEF SchemaOk, ReleasedChecksums, LatestEnough
    <3>6. db.version # 0 /\ db.version <= Latest BY <3>5, StoreOpenAssumption
    <3>7. Intact(db)
      BY <3>1, <3>5, <3>6, <1>1 DEF ProcFounded, Reached, Intact, Damaged
    <3> HIDE DEF m
    <3>8. ProcFounded(m)
      BY <3>1, <3>3, <3>4, <3>5, <3>7, <1>1
         DEF ProcFounded, Reached, Opened, Validated, Current, Holding
    <3> QED BY <1>2, <2>2, <3>4, <3>8, GoOnStep
  <2> QED BY <1>6, <2>1, <2>2 DEF CheckSchema
<1> QED BY <1>3, <1>4, <1>5, <1>6

\* A migration runs on an intact database whose version is the one read, so it
\* never passes the latest; a version that moved is taken over.
LEMMA MigrateStep ==
    ASSUME StoreInv, NEW p \in Procs, Migrate(p)
    PROVE  StoreInv'
<1>1. /\ proc[p] \in Memory /\ ProcFounded(proc[p]) /\ proc \in [Procs -> Memory]
      /\ side \in BOOLEAN /\ db \in Databases /\ origin \in Databases /\ DbFounded
  BY DEF StoreInv, StoreTypeOK
<1>2. Steady /\ proc[p].pc = "migrate" BY StaticIsSteady DEF Migrate
<1>3. Intact(db) /\ db # NoDb /\ proc[p].conn = db.ino
  BY <1>1, <1>2 DEF ProcFounded, Reached, Opened, Validated
<1>4. Latest \in Nat /\ db.version \in 0 .. Latest + 1 /\ db.rows \in 0 .. Latest + 1
      /\ proc[p].seen \in 0 .. Latest + 1
  BY <1>1, StoreOpenAssumption DEF Databases, Memory
<1>5. ASSUME NEW v \in 0 .. Latest + 1, Advance(p, [proc[p] EXCEPT !.seen = v]),
             side' = side, db' = db
      PROVE  StoreInv'
  <2> DEFINE m == [proc[p] EXCEPT !.seen = v]
  <2>1. m \in Memory /\ m.pc = "migrate" /\ m.conn = proc[p].conn /\ m.said = proc[p].said
    BY <1>1, <1>2 DEF Memory
  <2>2. Advance(p, m) BY <1>5
  <2> HIDE DEF m
  <2>3. ProcFounded(m)
    BY <2>1, <1>1, <1>3 DEF ProcFounded, Reached, Opened, Validated, Current, Holding
  <2> QED BY <1>2, <1>5, <2>1, <2>2, <2>3, GoOnStep
<1>6. CASE /\ proc[p].seen < Latest /\ db.version = proc[p].seen /\ db' = Upgraded
           /\ Advance(p, [proc[p] EXCEPT !.seen = @ + 1]) /\ side' = side
  <2>1. /\ db'.version = db.version + 1 /\ db'.rows = db.rows + 1
        /\ db'.ino = db.ino /\ db'.drift = db.drift /\ db'.repo = db.repo
    BY <1>1, <1>6 DEF Upgraded, Databases
  <2>2. db.rows = db.version /\ db.version # 0 /\ ~db.drift
    BY <1>3 DEF Intact, Damaged
  <2>3. db.version + 1 \in 0 .. Latest /\ db.rows + 1 \in 0 .. Latest + 1
    BY <1>4, <1>6, <2>2
  <2>4. db' \in Databases
    <3>1. db.version + 1 \in 0 .. Latest + 1 BY <2>3, <1>4
    <3> QED BY <1>1, <1>6, <2>3, <3>1 DEF Upgraded, Databases
  <2>5. db' # NoDb
    <3>1. NoDb.version = 0 BY DEF NoDb
    <3> QED BY <3>1, <2>1, <1>4
  <2>6. Intact(db') BY <1>4, <2>1, <2>2, <2>3, <2>5 DEF Intact, Damaged
  <2>7. Grows BY <1>3, <1>4, <2>1, <2>6 DEF Grows
  <2>8. DbFounded'
    <3>1. origin' = origin BY <1>2 DEF Steady
    <3>2. origin = NoDb \/ Intact(origin) BY <1>1, <1>3 DEF DbFounded
    <3>3. origin.rows \in Nat /\ db.rows >= origin.rows
      BY <1>1, <1>4 DEF DbFounded, Databases
    <3> QED BY <3>1, <3>2, <3>3, <2>1, <2>6, <1>4 DEF DbFounded
  <2> DEFINE v == proc[p].seen + 1  m == [proc[p] EXCEPT !.seen = v]
  <2>9. v \in 0 .. Latest + 1 BY <1>4, <1>6
  <2>10. Advance(p, m) BY <1>6
  <2> HIDE DEF v
  <2>11. m \in Memory /\ m.pc = "migrate" /\ m.conn = proc[p].conn
         /\ m.said = proc[p].said
    BY <2>9, <1>1, <1>2 DEF Memory
  <2> HIDE DEF m
  <2>12. /\ proc' \in [Procs -> Memory] /\ proc'[p] = m
         /\ \A q \in Procs \ {p} : proc'[q] = proc[q]
    BY <1>1, <2>10, <2>11, AdvanceMoves
  <2>13. proc[p].said # "present"
    BY <1>1, <1>4, <1>6 DEF ProcFounded
  <2>14. ProcFounded(proc[p])'
    BY <1>3, <2>1, <2>5, <2>6, <2>11, <2>12, <2>13
       DEF ProcFounded, Reached, Opened, Validated, Current, Holding
  <2> QED BY <1>1, <1>2, <1>6, <2>4, <2>7, <2>8, <2>12, <2>14, StepPreserves
<1>7. CASE Answer(p, "future") /\ db' = db BY <1>2, <1>7, AnswerStep DEF Answers
<1>8. CASE /\ Advance(p, [proc[p] EXCEPT !.pc = "version", !.pass = "last"])
           /\ db' = db /\ side' = side
  <2> DEFINE m == [proc[p] EXCEPT !.pc = "version", !.pass = "last"]
  <2>1. m \in Memory /\ m.pc = "version" /\ m.conn = proc[p].conn
        /\ m.said = proc[p].said
    BY <1>1 DEF Memory, Pcs
  <2>2. Advance(p, m) BY <1>8
  <2> HIDE DEF m
  <2>3. ProcFounded(m)
    BY <2>1, <1>1, <1>3 DEF ProcFounded, Reached, Opened, Validated, Current, Holding
  <2> QED BY <1>2, <1>8, <2>1, <2>2, <2>3, GoOnStep
<1> QED BY <1>4, <1>5, <1>6, <1>7, <1>8 DEF Migrate, ApplyMigration

\* The steps that end a call, an observer's included.
LEMMA EndingSteps ==
    ASSUME StoreInv, NEW p \in Procs,
           MigrationFails(p) \/ Busy(p) \/ Observe(p) \/ Close(p)
    PROVE  StoreInv'
<1>1. db' = db /\ Steady BY StaticIsSteady DEF MigrationFails, Busy, Observe, Close
<1>2. CASE MigrationFails(p) BY <1>1, <1>2, AnswerStep DEF MigrationFails, Answers
<1>3. CASE Busy(p) BY <1>1, <1>3, AnswerStep DEF Busy, Answers
<1>4. CASE Close(p) BY <1>1, <1>4, AnswerStep DEF Close, Answers
<1>5. CASE Observe(p)
  <2>1. CASE Answer(p, "corrupt") BY <1>1, <2>1, AnswerStep DEF Answers
  <2>2. CASE Answer(p, "present")
    <3>1. proc \in [Procs -> Memory] /\ side \in BOOLEAN /\ ProcFounded(proc[p])
      BY DEF StoreInv, StoreTypeOK
    <3>2. Intact(db) /\ db.version = Latest
      BY <1>5, <3>1 DEF Observe, ProcFounded, Validated, Current
    <3>3. "present" \in Answers BY DEF Answers
    <3>4. /\ proc' \in [Procs -> Memory] /\ side' \in BOOLEAN
          /\ proc'[p].pc = "idle" /\ proc'[p].said = "present"
          /\ \A q \in Procs \ {p} : proc'[q] = proc[q]
      BY <2>2, <3>1, <3>3, AnswerMoves
    <3>5. ProcFounded(proc[p])'
      BY <1>1, <3>2, <3>4 DEF ProcFounded, Reached, Opened, Validated, Current, Holding
    <3> QED BY <1>1, <3>4, <3>5, ReadingPreserves
  <2> QED BY <1>5, <2>1, <2>2 DEF Observe
<1> QED BY <1>2, <1>3, <1>4, <1>5

\* The repository's row is written to a complete database.
LEMMA RegisterStep ==
    ASSUME StoreInv, NEW p \in Procs, RegisterRepository(p)
    PROVE  StoreInv'
<1>1. /\ proc[p] \in Memory /\ ProcFounded(proc[p]) /\ proc \in [Procs -> Memory]
      /\ side \in BOOLEAN /\ db \in Databases /\ origin \in Databases /\ DbFounded
  BY DEF StoreInv, StoreTypeOK
<1>2. /\ Steady /\ proc[p].pc = "register" /\ db' = [db EXCEPT !.repo = TRUE]
      /\ Advance(p, [proc[p] EXCEPT !.pc = "discover"]) /\ side' = side
  BY StaticIsSteady DEF RegisterRepository
<1>3. Intact(db) /\ db # NoDb /\ proc[p].conn = db.ino /\ db.version = Latest
  BY <1>1, <1>2 DEF ProcFounded, Reached, Opened, Validated, Current
<1>4. /\ db' \in Databases /\ db'.version = db.version /\ db'.rows = db.rows
      /\ db'.ino = db.ino /\ db'.drift = db.drift /\ db'.repo = TRUE
  BY <1>1, <1>2 DEF Databases
<1>5. Latest \in Nat /\ Latest > 4 /\ NoDb.version = 0
  BY StoreOpenAssumption DEF NoDb
<1>6. db' # NoDb BY <1>3, <1>4, <1>5
<1>7. Intact(db') BY <1>3, <1>4, <1>6 DEF Intact, Damaged
<1>8. Grows BY <1>3, <1>4, <1>5, <1>7 DEF Grows
<1>9. DbFounded'
  <2>1. origin' = origin BY <1>2 DEF Steady
  <2>2. origin = NoDb \/ Intact(origin) BY <1>1, <1>3 DEF DbFounded
  <2>3. db.rows >= origin.rows BY <1>1 DEF DbFounded, Databases
  <2> QED BY <2>1, <2>2, <2>3, <1>4, <1>7 DEF DbFounded
<1> DEFINE m == [proc[p] EXCEPT !.pc = "discover"]
<1>10. m \in Memory /\ m.pc = "discover" /\ m.conn = proc[p].conn /\ m.said = proc[p].said
  BY <1>1 DEF Memory, Pcs
<1>11. Advance(p, m) BY <1>2
<1> HIDE DEF m
<1>12. /\ proc' \in [Procs -> Memory] /\ proc'[p] = m
       /\ \A q \in Procs \ {p} : proc'[q] = proc[q]
  BY <1>1, <1>10, <1>11, AdvanceMoves
<1>13. ProcFounded(proc[p])'
  BY <1>3, <1>4, <1>6, <1>7, <1>10, <1>12
     DEF ProcFounded, Reached, Opened, Validated, Current, Holding
<1> QED BY <1>1, <1>2, <1>4, <1>8, <1>9, <1>12, <1>13, StepPreserves

\* The legacy gate reads the disk and writes rows, never the database's shape.
LEMMA LegacySteps ==
    ASSUME StoreInv, NEW p \in Procs, DiscoverLegacy(p) \/ Inventory(p)
    PROVE  StoreInv'
<1>1. /\ proc[p] \in Memory /\ ProcFounded(proc[p]) /\ side \in BOOLEAN
      /\ artifact \in [Artifacts -> 0 .. MaxTouches + 1] /\ records \subseteq Findings
      /\ proc[p].found \subseteq Findings
  BY DEF StoreInv, StoreTypeOK, Memory
<1>2. CASE DiscoverLegacy(p)
  <2> DEFINE found == {<<a, artifact[a]>> : a \in {b \in Artifacts : artifact[b] > 0}}
             m == [proc[p] EXCEPT !.pc = "inventory", !.found = found]
  <2>1. found \subseteq Findings
    <3>1. ASSUME NEW a \in Artifacts, artifact[a] > 0
          PROVE  <<a, artifact[a]>> \in Findings
      <4>1. artifact[a] \in 0 .. MaxTouches + 1 BY <1>1
      <4>2. MaxTouches \in Nat BY StoreOpenAssumption
      <4>3. artifact[a] \in 1 .. MaxTouches + 1 BY <3>1, <4>1, <4>2
      <4> QED BY <4>3 DEF Findings
    <3> QED BY <3>1
  <2>2. Advance(p, m) /\ side' = side /\ db' = db /\ Steady /\ proc[p].pc = "discover"
    BY <1>2, StaticIsSteady DEF DiscoverLegacy
  <2> HIDE DEF found
  <2>3. m \in Memory /\ m.pc = "inventory" /\ m.conn = proc[p].conn
        /\ m.said = proc[p].said
    BY <2>1, <1>1 DEF Memory, Pcs
  <2> HIDE DEF m
  <2>4. ProcFounded(m)
    BY <2>2, <2>3, <1>1 DEF ProcFounded, Reached, Opened, Validated, Current, Holding
  <2> QED BY <2>2, <2>3, <2>4, GoOnStep
<1>3. CASE Inventory(p)
  <2> DEFINE m == [proc[p] EXCEPT !.pc = "ready"]
  <2>1. records' \subseteq Findings BY <1>1, <1>3 DEF Inventory
  <2>2. db' = db /\ Steady /\ proc[p].pc = "inventory"
    BY <1>3, <2>1 DEF Inventory, Steady, counters
  <2>3. CASE Answer(p, "conflict") \/ Answer(p, "quarantined")
    BY <2>2, <2>3, AnswerStep DEF Answers
  <2>4. CASE Advance(p, m) /\ side' = side
    <3>1. m \in Memory /\ m.pc = "ready" /\ m.conn = proc[p].conn
          /\ m.said = proc[p].said
      BY <1>1 DEF Memory, Pcs
    <3> HIDE DEF m
    <3>2. ProcFounded(m)
      BY <2>2, <3>1, <1>1 DEF ProcFounded, Reached, Opened, Validated, Current, Holding
    <3> QED BY <2>2, <2>4, <3>1, <3>2, GoOnStep
  <2> QED BY <1>3, <2>3, <2>4 DEF Inventory
<1> QED BY <1>2, <1>3

\* A call begins, or a process is killed: nothing is established.
LEMMA FreshSteps ==
    ASSUME StoreInv, NEW p \in Procs, OpenStore(p) \/ ObserveState(p) \/ Crash(p)
    PROVE  StoreInv'
<1>1. proc \in [Procs -> Memory] /\ side \in BOOLEAN /\ records \subseteq Findings
  BY DEF StoreInv, StoreTypeOK
<1>2. db' = db /\ side' = side /\ Steady
  BY <1>1 DEF OpenStore, ObserveState, Enter, Crash, Steady
<1>3. ASSUME NEW m \in Memory, m.pc \in {"idle", "exists"}, m.said = "none", Advance(p, m)
      PROVE  StoreInv'
  <2>1. /\ proc' \in [Procs -> Memory] /\ proc'[p] = m
        /\ \A q \in Procs \ {p} : proc'[q] = proc[q]
    BY <1>1, <1>3, AdvanceMoves
  <2>2. ProcFounded(proc[p])'
    BY <1>3, <2>1 DEF ProcFounded, Reached, Opened, Validated, Current, Holding
  <2> QED BY <1>1, <1>2, <2>1, <2>2, ReadingPreserves
<1>4. ASSUME NEW pass \in {"first", "observe"}, Enter(p, pass) PROVE StoreInv'
  <2> DEFINE m == [Idle EXCEPT !.pc = "exists", !.pass = pass]
  <2>1. m \in Memory /\ m.pc = "exists" /\ m.said = "none"
    BY <1>4, IdleType DEF Memory, Idle, Pcs
  <2>2. Advance(p, m) BY <1>4 DEF Enter
  <2> HIDE DEF m
  <2> QED BY <1>3, <2>1, <2>2
<1>5. CASE Crash(p)
  <2>1. Idle.pc = "idle" /\ Idle.said = "none" BY DEF Idle
  <2> QED BY <1>3, <1>5, <2>1, IdleType DEF Crash
<1> QED BY <1>4, <1>5 DEF OpenStore, ObserveState

\* What operators do to the artifacts touches neither database nor process.
LEMMA ArtifactSteps ==
    ASSUME StoreInv, NEW a \in Artifacts, TouchArtifact(a) \/ RewriteArtifact(a)
    PROVE  StoreInv'
<1>1. touches < MaxTouches /\ touches' = touches + 1
      /\ UNCHANGED <<db, side, origin, proc, records>>
  BY DEF TouchArtifact, RewriteArtifact
<1>2. MaxTouches \in Nat /\ touches \in 0 .. MaxTouches
      /\ artifact \in [Artifacts -> 0 .. MaxTouches + 1]
  BY StoreOpenAssumption DEF StoreInv, StoreTypeOK
<1>3. touches' \in 0 .. MaxTouches /\ touches' + 1 \in 0 .. MaxTouches + 1
      /\ 0 \in 0 .. MaxTouches + 1
  BY <1>1, <1>2
<1>4. \E d \in 0 .. MaxTouches + 1 : artifact' = [artifact EXCEPT ![a] = d]
  BY <1>3 DEF TouchArtifact, RewriteArtifact
<1>5. artifact' \in [Artifacts -> 0 .. MaxTouches + 1] BY <1>2, <1>4
<1> QED BY <1>1, <1>3, <1>5 DEF StoreInv, StoreTypeOK, DbFounded, ProcFounded

-----------------------------------------------------------------------------
(* The invariant.                                                          *)

\* Any database a run may find is a good start.
LEMMA StoreInvInit == Init => StoreInv
<1> SUFFICES ASSUME Init PROVE StoreInv OBVIOUS
<1>1. /\ Latest \in Nat /\ Latest > 4 /\ MaxTouches \in Nat BY StoreOpenAssumption
<1>2. 0 \in 0 .. Latest + 1 /\ 0 \in 0 .. MaxTouches + 1 /\ 0 \in 0 .. MaxTouches BY <1>1
<1>3. NoDb \in Databases BY <1>2 DEF NoDb, Databases
<1>4. db \in Databases /\ origin = db BY <1>3, OriginAssumption DEF Init
<1>5. proc \in [Procs -> Memory] BY IdleType DEF Init
<1>6. ASSUME NEW p \in Procs PROVE ProcFounded(proc[p])
  <2>1. proc[p].pc = "idle" /\ proc[p].said = "none" BY DEF Init, Idle
  <2> QED BY <2>1 DEF ProcFounded, Reached, Opened, Validated, Current, Holding
<1>7. side \in BOOLEAN BY DEF Init
<1>8. artifact \in [Artifacts -> 0 .. MaxTouches + 1] /\ records \subseteq Findings
      /\ touches \in 0 .. MaxTouches
  BY <1>2 DEF Init
<1> QED BY <1>4, <1>5, <1>6, <1>7, <1>8 DEF StoreInv, StoreTypeOK, DbFounded

\* Every step keeps it.
LEMMA StoreInvStep == StoreInv /\ [Next]_vars => StoreInv'
<1> SUFFICES ASSUME StoreInv, [Next]_vars PROVE StoreInv' OBVIOUS
<1>1. ASSUME NEW p \in Procs, OpenStore(p) \/ ObserveState(p) \/ Crash(p) PROVE StoreInv'
  BY <1>1, FreshSteps
<1>2. ASSUME NEW p \in Procs, CheckExists(p) \/ CheckSidecars(p) PROVE StoreInv'
  BY <1>2, EntrySteps
<1>3. ASSUME NEW p \in Procs, MigrateCandidate(p) \/ CandidateFails(p) PROVE StoreInv'
  BY <1>3, CandidateSteps
<1>4. ASSUME NEW p \in Procs, PublishCandidate(p) PROVE StoreInv'
  BY <1>4, PublishStep
<1>5. ASSUME NEW p \in Procs, Connect(p) \/ ReadVersion(p) \/ ReadLedger(p) \/ CheckSchema(p)
      PROVE  StoreInv'
  BY <1>5, ValidationSteps
<1>6. ASSUME NEW p \in Procs, Migrate(p) PROVE StoreInv' BY <1>6, MigrateStep
<1>7. ASSUME NEW p \in Procs, MigrationFails(p) \/ Busy(p) \/ Observe(p) \/ Close(p)
      PROVE  StoreInv'
  BY <1>7, EndingSteps
<1>8. ASSUME NEW p \in Procs, RegisterRepository(p) PROVE StoreInv' BY <1>8, RegisterStep
<1>9. ASSUME NEW p \in Procs, DiscoverLegacy(p) \/ Inventory(p) PROVE StoreInv'
  BY <1>9, LegacySteps
<1>10. ASSUME NEW a \in Artifacts, TouchArtifact(a) \/ RewriteArtifact(a) PROVE StoreInv'
  BY <1>10, ArtifactSteps
<1>11. CASE UNCHANGED vars
  BY <1>11 DEF vars, counters, StoreInv, StoreTypeOK, DbFounded, ProcFounded
<1> QED
  BY <1>1, <1>2, <1>3, <1>4, <1>5, <1>6, <1>7, <1>8, <1>9, <1>10, <1>11 DEF Next

\* It holds throughout.
LEMMA StoreInvAlways == Spec => []StoreInv
BY StoreInvInit, StoreInvStep, PTL DEF Spec

-----------------------------------------------------------------------------
(* Results.                                                                *)

\* Versions never pass the one after the latest, a candidate never the latest,
\* and what a scan found and what is recorded are findings of real digests.
THEOREM StoreTypes == Spec => []StoreTypeOK
<1>1. StoreInv => StoreTypeOK BY DEF StoreInv
<1> QED BY <1>1, StoreInvAlways, PTL

\* openStateStore and observeState (store.ts:1613, 1152): however many
\* openers create, publish, validate, migrate and die in any order, every
\* store in use is the database at the canonical path, complete at the latest
\* version; "present" is said of such a database only; a database the code
\* refuses is left as it was, and none is made worse than it was found.
THEOREM AuthorityIsOne == Spec => []OneAuthority
<1>1. ASSUME StoreInv PROVE OneAuthority
  <2>1. db \in Databases /\ origin \in Databases /\ DbFounded
        /\ \A p \in Procs : ProcFounded(proc[p])
    BY <1>1 DEF StoreInv, StoreTypeOK
  <2>2. Intact(db) => db.rows = db.version /\ ~db.drift BY DEF Intact, Damaged
  <2>3. ASSUME NEW p \in Procs, proc[p].pc \in {"discover", "inventory", "ready"}
        PROVE  /\ proc[p].conn = db.ino
               /\ db.version = Latest /\ db.rows = Latest /\ ~db.drift /\ db.repo
    <3>1. ProcFounded(proc[p]) BY <2>1
    <3> QED BY <2>2, <2>3, <3>1
        DEF ProcFounded, Reached, Opened, Validated, Current, Holding
  <2>4. ASSUME NEW p \in Procs, proc[p].said = "present"
        PROVE  db.version = Latest /\ ~db.drift
    BY <2>1, <2>2, <2>4 DEF ProcFounded
  <2>5. (Damaged(origin) \/ origin.version > Latest) => db = origin
    <3>1. origin.version \in Nat /\ Latest \in Nat BY <2>1, StoreOpenAssumption DEF Databases
    <3>2. NoDb.version = 0 /\ ~Damaged(NoDb) BY DEF NoDb, Damaged
    <3> QED BY <2>1, <3>1, <3>2 DEF DbFounded, Intact
  <2>6. db # NoDb => db.rows >= origin.rows /\ (Damaged(db) => Damaged(origin))
    <3>1. db.rows >= origin.rows BY <2>1 DEF DbFounded, Databases
    <3> QED BY <2>1, <3>1 DEF DbFounded, Intact
  <2> QED BY <2>3, <2>4, <2>5, <2>6 DEF OneAuthority
<1> QED BY <1>1, StoreInvAlways, PTL
=============================================================================
