--------------------------- MODULE CommitService ---------------------------
(***************************************************************************)
(* The commit boundary of an attempt (git/commit-service.ts and the intent *)
(* rows of state/store.ts): CommitService.run turns the reviewed worktree  *)
(* into one commit on the private attempt ref and one attribution row.     *)
(* Git and SQLite share no transaction, so an intent row is written first, *)
(* the ref is moved by compare-and-swap with a reflog entry only the owner *)
(* can write, and the attribution is finalized last.  Every call may die   *)
(* at any step and be made again, by the same or by another process that   *)
(* holds the ownership; between any two steps somebody else may write into *)
(* the worktree, move a ref, begin cleanup or recover the expired lease.   *)
(*                                                                         *)
(* A tree stands for the content of the worktree relative to the baseline, *)
(* and a ref that names a tree for the candidate commit of that tree: its  *)
(* parent, author, dates and message are fixed, so there is exactly one.   *)
(* The passes over the worktree's files are one step each.                 *)
(***************************************************************************)
EXTENDS Naturals

CONSTANTS
  Callers,     \* processes that may call CommitService.run for the attempt
  Trees,       \* contents the worktree may have, other than the baseline
  Legible,     \* the ones whose paths and files the service will read
  Scoped,      \* the ones that realize the sealed scope exactly
  Reviewed,    \* the one the final review and the required gates accepted
  Baseline,    \* the delivery baseline, as a tree and as a commit
  Foreign,     \* a commit that is neither the baseline nor the reviewed candidate
  NoTree,
  MaxDisturbances,  \* bound on what others do meanwhile
  MaxCrashes        \* bound on the deaths of callers

ASSUME CommitAssumption ==
  /\ Legible \subseteq Trees /\ Scoped \subseteq Trees /\ Reviewed \in Trees
  /\ Baseline \notin Trees /\ Foreign \notin Trees /\ NoTree \notin Trees
  /\ Baseline # Foreign /\ Baseline # NoTree /\ Foreign # NoTree
  /\ MaxDisturbances \in Nat /\ MaxCrashes \in Nat

VARIABLES
  worktree,     \* content of the attempt's worktree
  index,        \* content of the isolated index
  deliveryRef, attemptRef,
  reflog,       \* newest reflog entry of the attempt ref: its commit, its writer
  served,       \* history: candidates the service moved the attempt ref to
  touched,      \* what no longer is as allocated: worker HEAD, caller repository
  ownership,    \* the lease: state, expired, how often renewed, who began its cleanup
  converging,   \* the attempt is converging in an active run
  commitIntent, \* the row of attempt_commit_intents
  call,         \* each caller: its step and its memory
  result,       \* each caller: outcome of its last finished call
  disturbances, crashes

git == <<worktree, index, deliveryRef, attemptRef, reflog, served, touched>>
store == <<ownership, converging, commitIntent>>
commitVars == <<git, store, call, result, disturbances, crashes>>

Contents == Trees \cup {Baseline}
Commits == Contents \cup {Foreign}
Writers == {"service", "other"}
LeaseStates == {"live", "cleanup_pending", "quarantined"}
Failures == {"rejected", "infrastructure_error"}

\* "uncontained" is the infrastructure error whose detail says that cleanup
\* containment failed.
Outcomes == Failures \cup {"none", "accepted", "uncontained"}
Steps == {"idle", "called", "observed", "built", "candidate", "prepared", "committed", "rebuilt",
          "before_ref", "fresh", "ref_moved", "refound", "proven", "finalized", "failing"}

\* attempt_commit_intents has one row per attempt, and before it is inserted none.
IntentRows == [state : {"none", "intent_recorded", "finalized"},
               tree : Trees \cup {NoTree}, version : Nat]

\* The lease.  Its version is the number of its heartbeats: what else advances
\* the version also ends the live state, where nothing compares it any more.
Leases == [state : LeaseStates, expired : BOOLEAN, version : Nat,
           by : Writers \cup {"nobody"}]

\* What a call remembers: the tree it built, the attempt ref it saw first and
\* before the transaction, its grant's lease state and version, its failure.
Memory == [at : Steps, tree : Trees \cup {NoTree}, saw : Commits, cas : Commits,
           seen : LeaseStates, version : Nat, failure : Failures]

Idle == [at |-> "idle", tree |-> NoTree, saw |-> Baseline, cas |-> Baseline,
         seen |-> "live", version |-> 0, failure |-> "rejected"]

CommitTypeOK ==
  /\ worktree \in Contents /\ index \in Legible \cup {Baseline}
  /\ deliveryRef \in Commits /\ attemptRef \in Commits
  /\ reflog \in [to : Commits, by : Writers] /\ served \subseteq Trees
  /\ touched \subseteq {"head", "caller"}
  /\ ownership \in Leases
  /\ converging \in BOOLEAN
  /\ commitIntent \in IntentRows
  /\ call \in [Callers -> Memory]
  /\ result \in [Callers -> Outcomes]
  /\ disturbances \in 0 .. MaxDisturbances /\ crashes \in 0 .. MaxCrashes

\* The worker is proven dead, review and gates have accepted the worktree's
\* tree, and the attempt is converging: neither is recorded again from there.
\* A worktree that drifted since is a disturbance.
CommitInit ==
  /\ worktree = Reviewed /\ index = Baseline
  /\ deliveryRef = Baseline /\ attemptRef = Baseline
  /\ reflog = [to |-> Baseline, by |-> "other"] /\ served = {}
  /\ touched = {}
  /\ ownership = [state |-> "live", expired |-> FALSE, version |-> 0, by |-> "nobody"]
  /\ converging = TRUE
  /\ commitIntent = [state |-> "none", tree |-> NoTree, version |-> 0]
  /\ call = [c \in Callers |-> Idle]
  /\ result = [c \in Callers |-> "none"]
  /\ disturbances = 0 /\ crashes = 0

-----------------------------------------------------------------------------
(* What the steps of a call observe.                                       *)

\* The next step of a call, or its failure: of the call's memory, the catch
\* block of run only uses the grant.
Failed(c, failure) ==
  [Idle EXCEPT !.at = "failing", !.seen = call[c].seen, !.version = call[c].version,
               !.failure = failure]

Check(c, ok, next, failure) ==
  call' = [call EXCEPT ![c] = IF ok THEN [@ EXCEPT !.at = next] ELSE Failed(c, failure)]

\* assertFresh: an expired or recovered ownership is a mismatch, a live one
\* whose attempt left its execution states an illegal transition.  One in
\* cleanup passes.
Fresh == ~ownership.expired /\ \/ ownership.state = "cleanup_pending"
                               \/ ownership.state = "live" /\ converging
StaleFailure == IF ~ownership.expired /\ ownership.state = "live" THEN "rejected"
                ELSE "infrastructure_error"

\* Prepare and finalize demand more: live, unexpired, every claim active, and
\* the lease not renewed since a version was read.
LiveOwner(version) ==
  ownership.state = "live" /\ ~ownership.expired /\ ownership.version = version

\* snapshotAttemptCaller against the snapshot of the allocation.
CallerIntact == "caller" \notin touched
HeadIntact == "head" \notin touched

\* Every path of a worktree lies in the contract's scope, and its file can be
\* read without following a link, stably, and within the limits.
Readable(w) == w \in Legible \cup {Baseline}

\* The delta realizes the sealed scope: every entry declared, in kind and mode,
\* and every declaration realized.
ExactScope(t) == t \in Scoped

\* Writing the changed paths of a worktree over the isolated index gives the
\* worktree's tree, if the index held the baseline or that tree; over the
\* leavings of another call, or up to a file that cannot be read, it may give
\* any of files that could.
Materialized(w) ==
  IF index \in {Baseline, w} /\ Readable(w) THEN {w} ELSE Legible \cup {Baseline}

\* The paths observed again are the ones the candidate was built from: so they
\* are in an unchanged worktree, and in a changed one they may be.
SamePaths(c, same) == \/ worktree = call[c].tree
                      \/ same /\ worktree # Baseline /\ Readable(worktree)

\* resolveCommitPreparation finds a converging attempt, and the reviewed tree.
Preparation(t) == converging /\ t = Reviewed

\* resolveCommitIntentReplay finds the row.
IntentReplay == commitIntent.state # "none"

\* The store looks for itself: at the delta of a tree, which must lie within
\* the contract, and at both refs.
StoreDelta(t) == t \in Scoped
RefsObserved(ref) == deliveryRef = Baseline /\ attemptRef = ref

-----------------------------------------------------------------------------
(* CommitService.run, from one barrier or durable effect to the next.      *)

\* The live grant, the caller, the refs, HEAD and the indexes are as allocated;
\* an attempt ref elsewhere is only admitted over a durable intent.
AsAllocated ==
  /\ Fresh /\ ownership.state = "live"
  /\ CallerIntact /\ HeadIntact
  /\ deliveryRef = Baseline
  /\ attemptRef = Baseline \/ IntentReplay
  /\ index = Baseline

\* The caller takes a grant, as the lease stands, and calls.  An answer that
\* containment failed is void once the call is made again; others stay.
Call(c) ==
  /\ call[c].at = "idle"
  /\ call' = [call EXCEPT ![c] = [Idle EXCEPT !.at = "called", !.seen = ownership.state,
                                              !.version = ownership.version]]
  /\ result' = [result EXCEPT ![c] = IF @ = "uncontained" THEN "none" ELSE @]
  /\ UNCHANGED <<git, store, disturbances, crashes>>

\* assertFresh renews the grant; a call that is not fresh is left with the one
\* it came with.  Then all must be as allocated.
Begin(c) ==
  LET seen == IF Fresh THEN ownership.state ELSE call[c].seen
      version == IF Fresh THEN ownership.version ELSE call[c].version
      failure == IF Fresh THEN "rejected" ELSE StaleFailure
  IN /\ call[c].at = "called"
     /\ call' = [call EXCEPT ![c] =
          IF AsAllocated
          THEN [Idle EXCEPT !.at = "observed", !.saw = attemptRef, !.version = ownership.version]
          ELSE [Idle EXCEPT !.at = "failing", !.seen = seen, !.version = version,
                            !.failure = failure]]
     /\ UNCHANGED <<git, store, result, disturbances, crashes>>

\* The candidate tree is built in the isolated index and compared with the
\* contract and with what was reviewed.  A refusal leaves the index as it is.
Build(c) ==
  /\ call[c].at = "observed"
  /\ \/ /\ worktree = Baseline \/ ~Readable(worktree)
        /\ Check(c, FALSE, "built", "rejected")
        /\ UNCHANGED index
     \/ /\ worktree # Baseline /\ Readable(worktree)
        /\ index' \in Materialized(worktree)
        /\ call' = [call EXCEPT ![c] =
             IF index' # Baseline /\ ExactScope(index') /\ Preparation(index')
             THEN [@ EXCEPT !.at = "built", !.tree = index']
             ELSE Failed(c, "rejected")]
  /\ UNCHANGED <<worktree, deliveryRef, attemptRef, reflog, served, touched, store,
                 result, disturbances, crashes>>

\* The paths once more, then the isolated index back to the baseline.
RestoreIndex(c) ==
  /\ call[c].at = "built"
  /\ \E same \in BOOLEAN :
       /\ Check(c, SamePaths(c, same), "candidate", "rejected")
       /\ index' = IF SamePaths(c, same) THEN Baseline ELSE index
  /\ UNCHANGED <<worktree, deliveryRef, attemptRef, reflog, served, touched, store,
                 result, disturbances, crashes>>

\* #prepareCommitIntent: the same row is a replay, another one, also of another
\* version of the lease, a conflict.  A new one needs the preparation, a live
\* owner and both refs at the baseline.
Preparable(c) ==
  IF IntentReplay
  THEN commitIntent.tree = call[c].tree /\ commitIntent.version = call[c].version
  ELSE /\ Preparation(call[c].tree) /\ StoreDelta(call[c].tree)
       /\ LiveOwner(call[c].version) /\ RefsObserved(Baseline)

NewIntent(c) ==
  [state |-> "intent_recorded", tree |-> call[c].tree, version |-> call[c].version]

\* Mutant: the row is inserted or replaced.
UpsertedIntent(c) == NewIntent(c)

PreparedIntent(c) == IF IntentReplay THEN commitIntent ELSE NewIntent(c)

\* Only a call that found the attempt ref at the baseline prepares; the intent
\* of any other was recorded before.
Prepare(c) ==
  LET prepares == call[c].saw = Baseline
  IN /\ call[c].at = "candidate"
     /\ Check(c, prepares => Preparable(c), "prepared", "rejected")
     /\ commitIntent' = IF prepares /\ Preparable(c) THEN PreparedIntent(c) ELSE commitIntent
     /\ UNCHANGED <<git, ownership, converging, result, disturbances, crashes>>

\* commit-tree: an unreachable object.  A ref that was not at the baseline must
\* have named this very commit.
CreateCommit(c) ==
  /\ call[c].at = "prepared"
  /\ Check(c, call[c].saw \in {Baseline, call[c].tree}, "committed", "rejected")
  /\ UNCHANGED <<git, store, result, disturbances, crashes>>

\* The candidate is built again, before the ref moves and after it.
Rebuilt(c, ok, next, failure) ==
  /\ IF ok THEN index' \in Materialized(worktree) ELSE UNCHANGED index
  /\ Check(c, ok /\ Readable(worktree) /\ index' = call[c].tree, next,
           IF ok THEN "rejected" ELSE failure)
  /\ UNCHANGED <<worktree, deliveryRef, attemptRef, reflog, served, touched, store,
                 result, disturbances, crashes>>

Rebuild(c) ==
  call[c].at = "committed" /\ Rebuilt(c, CallerIntact, "rebuilt", "rejected")

\* The index is restored and the compare-and-swap's preimage is read.
RestoreBeforeRef(c) ==
  /\ call[c].at = "rebuilt"
  /\ \E same \in BOOLEAN :
       LET ok == /\ SamePaths(c, same)
                 /\ deliveryRef = Baseline /\ attemptRef \in {Baseline, call[c].tree}
       IN /\ index' = IF SamePaths(c, same) THEN Baseline ELSE index
          /\ call' = [call EXCEPT ![c] =
               IF ok THEN [@ EXCEPT !.at = "before_ref", !.cas = attemptRef]
               ELSE Failed(c, "rejected")]
  /\ UNCHANGED <<worktree, deliveryRef, attemptRef, reflog, served, touched, store,
                 result, disturbances, crashes>>

\* The owner is read once more and signs the reason of the ref transaction.
SignTransaction(c) ==
  /\ call[c].at = "before_ref"
  /\ Check(c, Fresh, "fresh", StaleFailure)
  /\ UNCHANGED <<git, store, result, disturbances, crashes>>

\* One Git transaction verifies the delivery ref and swaps the attempt ref, or
\* only verifies both when the ref was found at the candidate.
RefTransaction(c) ==
  LET t == call[c].tree
      ok == deliveryRef = Baseline /\ attemptRef = call[c].cas
      moves == ok /\ call[c].cas = Baseline
  IN /\ call[c].at = "fresh"
     /\ Check(c, ok, "ref_moved", "infrastructure_error")
     /\ attemptRef' = IF moves THEN t ELSE attemptRef
     /\ reflog' = IF moves THEN [to |-> t, by |-> "service"] ELSE reflog
     /\ served' = IF moves THEN served \cup {t} ELSE served
     /\ UNCHANGED <<worktree, index, deliveryRef, touched, store,
                    result, disturbances, crashes>>

\* Mutant: the reflog entry's commit is compared and its subject is not.
ReflogOfCommit(c) == reflog.to = call[c].tree

\* The owner, both refs and the newest reflog entry, which must be the service's
\* own for this candidate; then the worktree a third time.
ReflogProof(c) == reflog = [to |-> call[c].tree, by |-> "service"]

AfterRef(c) ==
  LET refs == deliveryRef = Baseline /\ attemptRef = call[c].tree
  IN /\ call[c].at = "ref_moved"
     /\ Rebuilt(c, Fresh /\ refs /\ ReflogProof(c), "refound",
                IF ~Fresh THEN StaleFailure
                ELSE IF ~refs THEN "infrastructure_error" ELSE "rejected")

\* The index is restored; HEAD, default index and caller are as allocated.
Prove(c) ==
  /\ call[c].at = "refound"
  /\ \E same \in BOOLEAN :
       /\ index' = IF SamePaths(c, same) THEN Baseline ELSE index
       /\ Check(c, SamePaths(c, same) /\ HeadIntact /\ CallerIntact, "proven", "rejected")
  /\ UNCHANGED <<worktree, deliveryRef, attemptRef, reflog, served, touched, store,
                 result, disturbances, crashes>>

\* #finalizeCommitAttribution: an exact replay of the finalized row, or its one
\* transition, under a live owner, of the version the intent was recorded with,
\* and with both refs observed once more.
Finalizable(c) ==
  /\ IntentReplay /\ commitIntent.tree = call[c].tree
  /\ commitIntent.state = "intent_recorded" =>
       /\ converging /\ LiveOwner(commitIntent.version)
       /\ RefsObserved(call[c].tree) /\ StoreDelta(call[c].tree)

Finalize(c) ==
  /\ call[c].at = "proven"
  /\ Check(c, Finalizable(c), "finalized", "rejected")
  /\ commitIntent' = IF Finalizable(c) THEN [commitIntent EXCEPT !.state = "finalized"] ELSE commitIntent
  /\ UNCHANGED <<git, ownership, converging, result, disturbances, crashes>>

Return(c) ==
  /\ call[c].at = "finalized"
  /\ call' = [call EXCEPT ![c] = Idle]
  /\ result' = [result EXCEPT ![c] = "accepted"]
  /\ UNCHANGED <<git, store, disturbances, crashes>>

\* GitRecorder.run: any command may fail, time out or answer too much.  The
\* step it belongs to then has no effect but what earlier commands wrote.
GitFails(c) ==
  /\ call[c].at \notin {"idle", "called", "finalized", "failing"}
  /\ disturbances < MaxDisturbances /\ disturbances' = disturbances + 1
  /\ Check(c, FALSE, "failing", "infrastructure_error")
  /\ UNCHANGED <<git, store, result, crashes>>

\* Mutant: cleanup is begun only after a rejection.
BeginsOnRejection(c) ==
  /\ ownership.state = "live" /\ call[c].seen = "live"
  /\ ownership.version = call[c].version /\ call[c].failure = "rejected"

\* beginCleanup takes the lease, expired or not, from live, if it is the one the
\* grant read; a begin recorded under the same key and version is replayed.
Begins(c) ==
  /\ ownership.state = "live" /\ call[c].seen = "live"
  /\ ownership.version = call[c].version
Replays(c) ==
  /\ ownership.by = "service" /\ call[c].seen = "live"
  /\ ownership.version = call[c].version

\* Mutant: a refused or failed begin of cleanup is swallowed.
SwallowedOutcome(c, thrown) == call[c].failure

\* What the catch block of run answers, when the store threw and when not.
Outcome(c, thrown) ==
  IF ~thrown /\ (Begins(c) \/ Replays(c)) THEN call[c].failure ELSE "uncontained"

\* The catch block: cleanup is begun with the grant.  The store may refuse, as
\* above, or throw: it is busy, or cannot be written.
Contain(c) ==
  /\ call[c].at = "failing"
  /\ \E thrown \in BOOLEAN :
       /\ thrown => disturbances < MaxDisturbances
       /\ disturbances' = IF thrown THEN disturbances + 1 ELSE disturbances
       /\ ownership' = IF ~thrown /\ Begins(c)
                       THEN [ownership EXCEPT !.state = "cleanup_pending", !.by = "service"]
                       ELSE ownership
       /\ result' = [result EXCEPT ![c] = Outcome(c, thrown)]
  /\ call' = [call EXCEPT ![c] = Idle]
  /\ UNCHANGED <<git, converging, commitIntent, crashes>>

\* The process dies, or a barrier throws: nothing is contained.
Crash(c) ==
  /\ call[c].at # "idle"
  /\ crashes < MaxCrashes /\ crashes' = crashes + 1
  /\ call' = [call EXCEPT ![c] = Idle]
  /\ UNCHANGED <<git, store, result, disturbances>>

-----------------------------------------------------------------------------
(* What others do meanwhile.                                               *)

\* Somebody writes into the worktree, moves a ref (also to the very candidate),
\* or changes the worker's HEAD or the caller's repository.  The isolated index
\* lies in the private allocation: only calls write it.
RepositoryChanges ==
  /\ \/ /\ worktree' \in Contents \ {worktree}
        /\ UNCHANGED <<deliveryRef, attemptRef, reflog, touched>>
     \/ /\ deliveryRef' \in {Baseline, Foreign} \ {deliveryRef}
        /\ UNCHANGED <<worktree, attemptRef, reflog, touched>>
     \/ /\ attemptRef' \in {Baseline, Reviewed, Foreign} \ {attemptRef}
        /\ reflog' = [to |-> attemptRef', by |-> "other"]
        /\ UNCHANGED <<worktree, deliveryRef, touched>>
     \/ /\ touched' \in (SUBSET {"head", "caller"}) \ {touched}
        /\ UNCHANGED <<worktree, deliveryRef, attemptRef, reflog>>
  /\ UNCHANGED <<index, served, store>>

\* The clock passes the expiry, or steps back; the attempt enters cleanup.
LeaseClock == ownership' = [ownership EXCEPT !.expired = ~@] /\ UNCHANGED <<converging, commitIntent, git>>
AttemptLeaves == converging /\ converging' = FALSE /\ UNCHANGED <<ownership, commitIntent, git>>

\* Another holder of the ownership renews the lease, which it must find live and
\* unexpired.
Heartbeat ==
  /\ ownership.state = "live" /\ ~ownership.expired
  /\ ownership' = [ownership EXCEPT !.version = @ + 1]
  /\ UNCHANGED <<converging, commitIntent, git>>

\* Another holder of the ownership begins its cleanup under a key of its own.
OtherCleanup ==
  /\ ownership.state = "live"
  /\ ownership' = [ownership EXCEPT !.state = "cleanup_pending", !.by = "other"]
  /\ UNCHANGED <<converging, commitIntent, git>>

\* Stale recovery quarantines an expired open generation.
StaleRecovery ==
  /\ ownership.expired /\ ownership.state # "quarantined"
  /\ ownership' = [ownership EXCEPT !.state = "quarantined"]
  /\ UNCHANGED <<converging, commitIntent, git>>

Disturb ==
  /\ disturbances < MaxDisturbances /\ disturbances' = disturbances + 1
  /\ \/ RepositoryChanges \/ LeaseClock \/ Heartbeat \/ AttemptLeaves
     \/ OtherCleanup \/ StaleRecovery
  /\ UNCHANGED <<call, result, crashes>>

-----------------------------------------------------------------------------
Advance(c) ==
  \/ Call(c) \/ Begin(c) \/ Build(c) \/ RestoreIndex(c) \/ Prepare(c) \/ CreateCommit(c)
  \/ Rebuild(c) \/ RestoreBeforeRef(c) \/ SignTransaction(c) \/ RefTransaction(c)
  \/ AfterRef(c) \/ Prove(c) \/ Finalize(c) \/ Return(c) \/ Contain(c)

CommitNext == Disturb \/ \E c \in Callers : Advance(c) \/ GitFails(c) \/ Crash(c)

\* A step of a call is synchronous code, and a call that died or could not be
\* contained is made again, by this process or by another: somebody goes on.
CommitFairness == WF_commitVars(\E c \in Callers : Advance(c))

CommitSpec == CommitInit /\ [][CommitNext]_commitVars /\ CommitFairness

-----------------------------------------------------------------------------
(* Properties.                                                             *)

\* A finalized attribution is of the reviewed tree, in contract, that the
\* service itself put on the attempt ref: a candidate somebody else placed
\* there is never adopted, and the service moves the ref only once an intent is
\* durable.  A call answers accepted only for a finalized row.
AttributionIsProven ==
  /\ commitIntent.state = "finalized" => /\ commitIntent.tree = Reviewed
                                         /\ commitIntent.tree \in Scoped \cap Legible
                                         /\ commitIntent.tree \in served
  /\ served # {} => commitIntent.state # "none"
  /\ \A c \in Callers : result[c] = "accepted" => commitIntent.state = "finalized"

\* A call that answers with its failure left the ownership out of the live
\* state, also when the lease had expired, or the begin of its cleanup was lost
\* and is replayed by a retry: no later phase runs on a worktree whose
\* attribution failed.  A begin that the store threw on, or refused to a grant
\* older than the lease, leaves the lease live: that is what the answer
\* "cleanup containment failed" says, and no other failure does.
FailureIsContained == \A c \in Callers : result[c] \in Failures => ownership.state # "live"

\* An intent is recorded once and finalized once, its tree and the version of
\* the lease it was recorded under never change, and it is finalized under that
\* version only.  It does not move any more after a call answered with its
\* failure; after one that could not contain it, an exact retry may finalize.
IntentIsFinal ==
  [][commitIntent' # commitIntent =>
       /\ \/ commitIntent.state = "none" /\ commitIntent'.state = "intent_recorded"
          \/ /\ commitIntent.state = "intent_recorded" /\ commitIntent'.state = "finalized"
             /\ commitIntent'.tree = commitIntent.tree
       /\ commitIntent'.version = ownership.version
       /\ \A c \in Callers : result[c] \notin Failures]_commitVars

\* An exact retry completes the recorded candidate or contains the attempt: an
\* intent is not left open under a live lease for ever, also when the lease was
\* renewed since it was recorded, or containment failed before.
CommitSettles ==
  commitIntent.state = "intent_recorded" ~> commitIntent.state = "finalized" \/ ownership.state # "live"
=============================================================================
