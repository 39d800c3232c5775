------------------------------ MODULE StoreOpen ------------------------------
(***************************************************************************)
(* How processes come to share one state database: opening, first          *)
(* creation, upgrade, the read-only observation behind `status`, `metrics` *)
(* and `--resume`, and the legacy gate every build passes before it may    *)
(* allocate.                                                               *)
(*                                                                         *)
(* Nobody coordinates the openers.  Each looks at the path, builds a       *)
(* private candidate when there is no database, publishes it with link(2), *)
(* and otherwise validates what it finds with SEVERAL statements, each its *)
(* own read transaction, between which another opener may migrate.  A      *)
(* migration is one exclusive transaction; an upgrade is several.          *)
(***************************************************************************)
EXTENDS Integers, FiniteSets

CONSTANTS
    Procs,          \* processes that open or observe the repository's state
    Latest,         \* LATEST_STATE_SCHEMA_VERSION (6 in this release)
    Origins,        \* the databases the run may find when it starts
    Artifacts,      \* the paths under .rickgent/ the legacy scan looks at
    MaxCalls,       \* bound: calls of open and observe together
    MaxCrashes,     \* bound: processes killed
    MaxTouches      \* bound: times an operator adds, changes or removes an artifact

ASSUME StoreOpenAssumption ==
    /\ Latest \in Nat /\ Latest > 4
    /\ {MaxCalls, MaxCrashes, MaxTouches} \subseteq Nat

NoDb == [ino |-> "none", version |-> 0, rows |-> 0, drift |-> FALSE, repo |-> FALSE]

\* A database somebody released: its ledger agrees with user_version and its
\* schema is what the migrations make.
Released(v) == [ino |-> "origin", version |-> v, rows |-> v, drift |-> FALSE, repo |-> TRUE]

\* What can be wrong with one: an empty file, a ledger that disagrees with
\* user_version, a schema somebody edited.
Damaged(d) == d # NoDb /\ (d.version = 0 \/ d.rows # d.version \/ d.drift)

VARIABLES
    db,         \* the file at the canonical path, as its last commit left it
    side,       \* is there a -wal or -shm beside it
    origin,     \* ghost: the database of the initial state
    proc,       \* per process: where it is and what it remembers
    artifact,   \* legacy artifact -> its stat digest, 0 when absent
    records,    \* rows of legacy_artifacts: <<artifact, digest>>
    calls,      \* calls made
    crashes,    \* processes killed
    touches     \* operator's edits of the artifacts

vars == <<db, side, origin, proc, artifact, records, calls, crashes, touches>>
counters == <<calls, crashes, touches>>

Pcs == {"idle", "exists", "sidecars", "candidate", "publish", "connect", "version",
        "ledger", "schema", "migrate", "identity", "register", "discover", "inventory",
        "ready"}
Answers == {"none", "corrupt", "future", "failed", "busy", "absent", "present",
            "conflict", "quarantined", "ready"}

Idle == [pc |-> "idle", pass |-> "first", seen |-> 0, cand |-> 0, conn |-> "none",
         found |-> {}, said |-> "none"]

Databases ==
    [ino : Procs \cup {"none", "origin"}, version : 0 .. Latest + 1,
     rows : 0 .. Latest + 1, drift : BOOLEAN, repo : BOOLEAN]

Findings == Artifacts \X (1 .. MaxTouches + 1)

Memory ==
    [pc : Pcs, pass : {"first", "last", "observe"}, seen : 0 .. Latest + 1,
     cand : 0 .. Latest, conn : Procs \cup {"none", "origin"}, found : SUBSET Findings,
     said : Answers]

\* What the run may find at the path: nothing, or a file nobody of it made.
ASSUME OriginAssumption == Origins \subseteq {NoDb} \cup {d \in Databases : d.ino = "origin"}

StoreTypeOK ==
    /\ db \in Databases
    /\ side \in BOOLEAN
    /\ proc \in [Procs -> Memory]
    /\ artifact \in [Artifacts -> 0 .. MaxTouches + 1]
    /\ records \subseteq Findings

Init ==
    /\ db \in Origins
    /\ side \in IF db = NoDb THEN BOOLEAN ELSE {FALSE}
    /\ origin = db
    /\ proc = [p \in Procs |-> Idle]
    /\ artifact = [a \in Artifacts |-> 0]
    /\ records = {}
    /\ calls = 0 /\ crashes = 0 /\ touches = 0

-----------------------------------------------------------------------------
(* Connections.  SQLite makes the sidecars when a connection first reads a  *)
(* WAL database and removes them when the last writable one closes.         *)

Connected(p) == proc[p].conn # "none"

SideAfterClose(p) ==
    side /\ (\/ ~Connected(p) \/ proc[p].pass = "observe"
             \/ \E q \in Procs \ {p} : Connected(q))

Advance(p, changes) == proc' = [proc EXCEPT ![p] = changes]

\* A return or an error: the connection is closed, the primary error kept.
Answer(p, code) ==
    /\ Advance(p, [Idle EXCEPT !.said = code, !.pass = proc[p].pass])
    /\ side' = SideAfterClose(p)

Static == UNCHANGED <<origin, artifact, records, counters>>

-----------------------------------------------------------------------------
(* Entry.                                                                   *)

\* The state directory is made (mkdir, EEXIST tolerated) or found, its owner and
\* mode are checked.
Enter(p, pass) ==
    /\ proc[p].pc = "idle"
    /\ calls < MaxCalls
    /\ calls' = calls + 1
    /\ Advance(p, [Idle EXCEPT !.pc = "exists", !.pass = pass])
    /\ UNCHANGED <<db, side, origin, artifact, records, crashes, touches>>

\* StateStore.open creates, migrates and registers; observeState only reads.
OpenStore(p) == Enter(p, "first")
ObserveState(p) == Enter(p, "observe")

\* ensureCanonicalDatabase and observeState: does the database exist?
CheckExists(p) ==
    /\ proc[p].pc = "exists"
    /\ Advance(p, [proc[p] EXCEPT !.pc = IF db = NoDb THEN "sidecars" ELSE "connect"])
    /\ UNCHANGED <<db, side>> /\ Static

\* A sidecar without its database is reported, not repaired.  The two
\* observations are not one: the database may have come in between.
CheckSidecars(p) ==
    /\ proc[p].pc = "sidecars"
    /\ \/ /\ side
          /\ Answer(p, "corrupt")
       \/ /\ ~side /\ proc[p].pass = "observe"
          /\ Answer(p, "absent")
       \/ /\ ~side /\ proc[p].pass = "first"
          /\ Advance(p, [proc[p] EXCEPT !.pc = "candidate"])
          /\ UNCHANGED side
    /\ UNCHANGED db /\ Static

-----------------------------------------------------------------------------
(* The first creation.                                                      *)

\* createCandidate and one applyMigration after the other on the private
\* file; the last one is followed by the full validation and the checkpoint.
MigrateCandidate(p) ==
    /\ proc[p].pc = "candidate"
    /\ proc[p].cand < Latest
    /\ Advance(p, [proc[p] EXCEPT !.cand = @ + 1,
                                  !.pc = IF proc[p].cand + 1 = Latest THEN "publish" ELSE @])
    /\ UNCHANGED <<db, side>> /\ Static

\* No space, or a migration that does not pass its own checks: the candidate
\* is removed and the error reported.
CandidateFails(p) ==
    /\ proc[p].pc = "candidate"
    /\ Answer(p, "failed")
    /\ UNCHANGED db /\ Static

CandidateDb(p) ==
    [ino |-> p, version |-> proc[p].cand, rows |-> proc[p].cand, drift |-> FALSE,
     repo |-> FALSE]

\* Mutant: the candidate is moved over the canonical name (rename, not link).
PublishByRename(p) == CandidateDb(p)

\* publishCandidate: link(2) refuses an existing name (EEXIST), and then the
\* private candidate is discarded and the winner's database used.
Publish(p) == IF db = NoDb THEN CandidateDb(p) ELSE db

PublishCandidate(p) ==
    /\ proc[p].pc = "publish"
    /\ db' = Publish(p)
    /\ Advance(p, [proc[p] EXCEPT !.pc = "connect", !.cand = 0])
    /\ UNCHANGED side /\ Static

-----------------------------------------------------------------------------
(* Validation of the database at the canonical path.                        *)

\* openCanonicalDatabase up to its first statement.
Connect(p) ==
    /\ proc[p].pc = "connect"
    /\ side' = TRUE
    /\ Advance(p, [proc[p] EXCEPT !.pc = "version", !.conn = db.ino])
    /\ UNCHANGED db /\ Static

\* validateIntegrity, first statement: PRAGMA user_version.
ReadVersion(p) ==
    /\ proc[p].pc = "version"
    /\ \/ /\ db.version > Latest
          /\ Answer(p, "future")
       \/ /\ db.version <= Latest
          /\ Advance(p, [proc[p] EXCEPT !.pc = "ledger", !.seen = db.version])
          /\ UNCHANGED side
    /\ UNCHANGED db /\ Static

\* validateMigrationLedger: as many rows as the version read before says.
LedgerOk(v) == v >= 1 /\ db.rows = v

ReadLedger(p) ==
    /\ proc[p].pc = "ledger"
    /\ \/ /\ ~LedgerOk(proc[p].seen)
          /\ Answer(p, "corrupt")
       \/ /\ LedgerOk(proc[p].seen)
          /\ Advance(p, [proc[p] EXCEPT !.pc = "schema"])
          /\ UNCHANGED side
    /\ UNCHANGED db /\ Static

\* The versions validateReleasedSchema has a checksum for.
ReleasedChecksums == {1, 2, 3, 4, Latest}

\* The tables it asks for at a version, named by the migration that makes
\* them: from version 4 on, those of the latest schema.  Migration 6 makes
\* none.
TablesAsked(v) == IF v <= 3 THEN 1 .. v ELSE 1 .. Latest - 1
TablesAt(v) == 1 .. v

\* validateReleasedSchema of the version read before, on the schema of now.
SchemaOk(v) ==
    /\ v \in ReleasedChecksums
    /\ ~db.drift /\ db.version = v
    /\ TablesAsked(v) \subseteq TablesAt(db.version)

AfterSchema(p) ==
    CASE proc[p].pass = "first"   -> "migrate"
      [] proc[p].pass = "last"    -> "register"
      [] proc[p].pass = "observe" -> "identity"

\* expectLatestSchema, on the second validation and for an observer.
LatestEnough(pass, v) == pass = "first" \/ v = Latest

CheckSchema(p) ==
    LET ok == LatestEnough(proc[p].pass, proc[p].seen) /\ SchemaOk(proc[p].seen)
    IN  /\ proc[p].pc = "schema"
        /\ \/ /\ ~ok
              /\ Answer(p, "corrupt")
           \/ /\ ok
              /\ Advance(p, [proc[p] EXCEPT !.pc = AfterSchema(p)])
              /\ UNCHANGED side
        /\ UNCHANGED db /\ Static

-----------------------------------------------------------------------------
(* The upgrade: one exclusive transaction per migration.                    *)

Upgraded == [db EXCEPT !.version = @ + 1, !.rows = @ + 1]

\* applyMigration: a version that moved since it was read is taken over
\* (after a check of its ledger) without running anything.
ApplyMigration(p) ==
    \/ /\ db.version # proc[p].seen
       /\ \/ /\ db.version > Latest
             /\ Answer(p, "future")
          \/ /\ db.version <= Latest
             /\ Advance(p, [proc[p] EXCEPT !.seen = db.version])
             /\ UNCHANGED side
       /\ UNCHANGED db
    \/ /\ db.version = proc[p].seen
       /\ db' = Upgraded
       /\ Advance(p, [proc[p] EXCEPT !.seen = @ + 1])
       /\ UNCHANGED side

\* migrateExisting: until the latest version is reached, then the second
\* validation.
Migrate(p) ==
    /\ proc[p].pc = "migrate"
    /\ \/ /\ proc[p].seen < Latest
          /\ ApplyMigration(p)
       \/ /\ proc[p].seen >= Latest
          /\ Advance(p, [proc[p] EXCEPT !.pc = "version", !.pass = "last"])
          /\ UNCHANGED <<db, side>>
    /\ Static

\* The migration fails (rolled back) or its lock stays taken for the whole
\* busy timeout.
MigrationFails(p) ==
    /\ proc[p].pc = "migrate" /\ proc[p].seen < Latest
    /\ Answer(p, "failed")
    /\ UNCHANGED db /\ Static

Writing(q) == proc[q].pc \in {"migrate", "register", "inventory", "ready"}

Busy(p) ==
    /\ proc[p].pc \in {"migrate", "register", "inventory"}
    /\ \E q \in Procs \ {p} : Writing(q)
    /\ Answer(p, "busy")
    /\ UNCHANGED db /\ Static

-----------------------------------------------------------------------------
(* After the validation.                                                    *)

\* #registerRepository: idempotent; a moved repository keeps its own row.
RegisterRepository(p) ==
    /\ proc[p].pc = "register"
    /\ db' = [db EXCEPT !.repo = TRUE]
    /\ Advance(p, [proc[p] EXCEPT !.pc = "discover"])
    /\ UNCHANGED side /\ Static

\* observeState: the repository's row, and the projection of the latest run.
Observe(p) ==
    /\ proc[p].pc = "identity"
    /\ Answer(p, IF db.repo THEN "present" ELSE "corrupt")
    /\ UNCHANGED db /\ Static

\* discoverLegacyArtifacts: what is on disk, with its stat digest.
DiscoverLegacy(p) ==
    /\ proc[p].pc = "discover"
    /\ Advance(p, [proc[p] EXCEPT !.pc = "inventory",
                     !.found = {<<a, artifact[a]>> : a \in {b \in Artifacts : artifact[b] > 0}}])
    /\ UNCHANGED <<db, side>> /\ Static

\* One transaction over all findings: a row is immutable, so an artifact
\* that changed since its row rolls all of them back.
Conflicts(found) == \E f \in found, r \in records : f[1] = r[1] /\ f[2] # r[2]

\* commitAuthorizedLegacyInventory and requireMutationClear: anything found
\* is recorded and stops the build.
Inventory(p) ==
    LET found == proc[p].found
    IN  /\ proc[p].pc = "inventory"
        /\ \/ /\ Conflicts(found)
              /\ Answer(p, "conflict")
              /\ UNCHANGED records
           \/ /\ ~Conflicts(found) /\ found # {}
              /\ records' = records \cup found
              /\ Answer(p, "quarantined")
           \/ /\ found = {}
              /\ Advance(p, [proc[p] EXCEPT !.pc = "ready"])
              /\ UNCHANGED <<records, side>>
        /\ UNCHANGED <<db, origin, artifact, counters>>

\* The build is done with the store.
Close(p) ==
    /\ proc[p].pc = "ready"
    /\ Answer(p, "ready")
    /\ UNCHANGED db /\ Static

-----------------------------------------------------------------------------
(* The environment.                                                         *)

\* Killed: an open transaction is rolled back by whoever opens next, the
\* sidecars stay, a private candidate stays and is never looked at again.
Crash(p) ==
    /\ proc[p].pc # "idle"
    /\ crashes < MaxCrashes
    /\ crashes' = crashes + 1
    /\ Advance(p, Idle)
    /\ UNCHANGED <<db, side, origin, artifact, records, calls, touches>>

\* Old tools and operators write and remove legacy artifacts; every write
\* has its own stat digest.
TouchArtifact(a) ==
    /\ touches < MaxTouches
    /\ touches' = touches + 1
    /\ artifact' = [artifact EXCEPT ![a] = IF @ > 0 THEN 0 ELSE touches' + 1]
    /\ UNCHANGED <<db, side, origin, proc, records, calls, crashes>>

RewriteArtifact(a) ==
    /\ artifact[a] > 0
    /\ touches < MaxTouches
    /\ touches' = touches + 1
    /\ artifact' = [artifact EXCEPT ![a] = touches' + 1]
    /\ UNCHANGED <<db, side, origin, proc, records, calls, crashes>>

Next ==
    \/ \E p \in Procs :
          \/ OpenStore(p) \/ ObserveState(p) \/ CheckExists(p) \/ CheckSidecars(p)
          \/ MigrateCandidate(p) \/ CandidateFails(p) \/ PublishCandidate(p)
          \/ Connect(p) \/ ReadVersion(p) \/ ReadLedger(p) \/ CheckSchema(p)
          \/ Migrate(p) \/ MigrationFails(p) \/ Busy(p)
          \/ RegisterRepository(p) \/ Observe(p)
          \/ DiscoverLegacy(p) \/ Inventory(p) \/ Close(p) \/ Crash(p)
    \/ \E a \in Artifacts : TouchArtifact(a) \/ RewriteArtifact(a)

Spec == Init /\ [][Next]_vars

-----------------------------------------------------------------------------
(* Properties.                                                              *)

\* Every process that got a store (openStateStore returned, store.ts:1613)
\* has the database that is at the canonical path, complete at the latest
\* version and with its repository row, whoever created or upgraded it and
\* whoever was killed on the way; an observer answers "present" of such a
\* database only; and a database the code refuses (damaged, or of a newer
\* release) is the one that was there at the start, untouched.
OneAuthority ==
    /\ \A p \in Procs :
          proc[p].pc \in {"discover", "inventory", "ready"} =>
              /\ proc[p].conn = db.ino
              /\ db.version = Latest /\ db.rows = Latest /\ ~db.drift /\ db.repo
    /\ \A p \in Procs :
          proc[p].said = "present" => db.version = Latest /\ ~db.drift
    /\ (Damaged(origin) \/ origin.version > Latest) => db = origin
    /\ db # NoDb => db.rows >= origin.rows /\ (Damaged(db) => Damaged(origin))
=============================================================================
