------------------------------- MODULE Delivery -------------------------------
(***************************************************************************)
(* The delivery of a run that is ready: executeDeliveryFlow as the build   *)
(* calls it, with the verified push, the verified pull request and the     *)
(* terminal decision.  Every store command is one transaction and one      *)
(* action; every git or gh command is one action whose effect on the       *)
(* remote and whose answer are chosen apart, so that answers are lost and  *)
(* a push whose client timed out may still arrive later.                   *)
(*                                                                         *)
(* A caller is one of three clients: the build, which calls                *)
(* executeDeliveryFlow with a provider digest that is not a digest;        *)
(* another caller of executeDeliveryFlow ("flow"); and a client of the     *)
(* push, the pull request and the DeliveryAuthority that pins the evidence *)
(* a decision needs ("services"), as the repository's tests do.            *)
(*                                                                         *)
(* Nothing locks a delivery: a build that is resumed while another one is  *)
(* delivering is a second caller with its own reads.                       *)
(***************************************************************************)
EXTENDS Integers, Sequences, SequencesExt

CONSTANTS
  Callers,      \* processes that reach the delivery of the run
  Clients,      \* the clients among "build", "flow" and "services"
  MaxCalls,     \* calls of executeDeliveryFlow, all callers together
  MaxMoves,     \* times somebody else moves the remote branch
  MaxPulls      \* pull requests the provider hands out

ASSUME DeliveryAssumption ==
  /\ Clients \subseteq {"build", "flow", "services"}
  /\ MaxCalls \in Nat /\ MaxMoves \in Nat /\ MaxPulls \in Nat

\* What a branch may point to.  "commit" is the run's current_delivery_oid and
\* its delivery ref; it descends from "base" and not from "foreign".
Branch == {"absent", "base", "foreign", "commit"}

\* expected_remote_oid: an absent branch, or a failed ls-remote, is NULL.
Expected == {"null", "base", "foreign", "commit"}

Outcomes == {"pushed", "rejected", "timeout", "infrastructure_error"}

RemoteObservation ==
  [operation: {"push", "ls-remote"}, outcome: Outcomes \cup {"observed"},
   oid: {"null"} \cup Branch]

VARIABLES
  branch,       \* the remote branch
  carried,      \* history: what the remote branch has ever carried
  inFlight,     \* pushes whose client was killed and that may still arrive
  pulls,        \* the provider's pull requests, by number: open, head
  run,          \* runs.state
  intent,       \* delivery_intents: <<>> or <<expected_remote_oid>>
  remoteObs,    \* remote_observations, by sequence
  prObs,        \* pr_observations, by sequence: number, head
  decision,     \* delivery_records: <<>> or <<[from, decision]>>
  call,         \* the callers' local variables
  calls, moves

remote == <<branch, carried, inFlight, pulls>>
store == <<run, intent, remoteObs, prObs, decision>>
vars == <<remote, store, call, calls, moves>>

Idle == [pc |-> "idle", client |-> "flow", head |-> "commit", expected |-> "null", fresh |-> TRUE,
         seq |-> 0, outcome |-> "pushed", seen |-> "null", ls |-> 0,
         pull |-> 0, status |-> "none"]

DeliveryTypeOK ==
  /\ branch \in Branch /\ carried \subseteq Branch /\ inFlight \in Nat
  /\ \A n \in DOMAIN pulls : pulls[n] \in [open: BOOLEAN, head: Branch]
  /\ run \in {"ready_for_delivery", "delivered", "delivery_failed"}
  /\ Len(intent) <= 1 /\ \A i \in DOMAIN intent : intent[i] \in Expected
  /\ \A i \in DOMAIN remoteObs : remoteObs[i] \in RemoteObservation
  /\ \A i \in DOMAIN prObs : prObs[i].number \in DOMAIN pulls
  /\ Len(decision) <= 1
  /\ (decision = <<>>) <=> (run = "ready_for_delivery")
  /\ calls \in 0..MaxCalls /\ moves \in 0..MaxMoves

Init ==
  /\ branch \in {"absent", "base"}
  /\ carried = {branch}
  /\ inFlight = 0 /\ pulls = <<>>
  /\ run = "ready_for_delivery"
  /\ intent = <<>> /\ remoteObs = <<>> /\ prObs = <<>> /\ decision = <<>>
  /\ call = [c \in Callers |-> Idle]
  /\ calls = 0 /\ moves = 0

-----------------------------------------------------------------------------
(* The remote.                                                             *)

\* A new value of the branch: open pull requests follow it, and the provider
\* closes them when it disappears.
BranchMoves(new) ==
  /\ branch' = new
  /\ carried' = carried \cup {new}
  /\ pulls' = [n \in DOMAIN pulls |->
                 IF ~pulls[n].open THEN pulls[n]
                 ELSE IF new = "absent" THEN [pulls[n] EXCEPT !.open = FALSE]
                 ELSE [pulls[n] EXCEPT !.head = new]]

\* A non-force push of the commit is a fast-forward.
FastForward == branch \in {"absent", "base", "commit"}

\* Somebody else pushes, force-pushes or deletes the branch.
ForeignMove ==
  /\ moves < MaxMoves
  /\ \E new \in {"absent", "base", "foreign"} \ {branch} : BranchMoves(new)
  /\ moves' = moves + 1
  /\ UNCHANGED <<inFlight, store, call, calls>>

\* A push whose client was killed arrives, or is found not to fast-forward.
LatePush ==
  /\ inFlight > 0
  /\ inFlight' = inFlight - 1
  /\ IF FastForward THEN BranchMoves("commit") ELSE UNCHANGED <<branch, carried, pulls>>
  /\ UNCHANGED <<store, call, calls, moves>>

-----------------------------------------------------------------------------
(* The callers.                                                            *)

Goto(c, pc) == call' = [call EXCEPT ![c].pc = pc]

\* executeVerifiedPush returned a status other than verified.
PushFails(c, status) ==
  call' = [call EXCEPT ![c].pc = "push_failed", ![c].status = status]

\* A call begins with the OID it is asked to deliver; for the build that is
\* HEAD of the caller's checkout.
StartFlow(c) ==
  /\ call[c].pc = "idle" /\ calls < MaxCalls
  /\ \E head \in {"commit", "base"}, client \in Clients :
       call' = [call EXCEPT ![c] = [Idle EXCEPT !.pc = "expect", !.head = head,
                                                !.client = client]]
  /\ calls' = calls + 1
  /\ UNCHANGED <<remote, store, moves>>

\* ls-remote at decision time, then the owner context, the run's version and
\* the cleanup record.  "fresh": the version read is that of the ready run.
ObserveExpected(c) ==
  /\ call[c].pc = "expect"
  /\ \E seen \in {"null"} \cup ({branch} \ {"absent"}) :
       call' = [call EXCEPT ![c].expected = seen, ![c].pc = "intent",
                            ![c].fresh = run = "ready_for_delivery"]
  /\ UNCHANGED <<remote, store, calls, moves>>

\* delivery_intents.provider_identity_digest must be "sha256:" and 64 digits;
\* the build passes "sha256:gh-cli-provider".
DigestWellFormed(c) == call[c].client # "build"

\* createDeliveryIntent refuses a key that was used with another input, and a
\* first intent of a run that is not ready.
IntentAccepted(c) ==
  /\ DigestWellFormed(c)
  /\ IF intent # <<>> THEN intent = <<call[c].expected>>
     ELSE run = "ready_for_delivery"

\* The delivery ref equals the OID, then the intent is created or resumed.
CreateIntent(c) ==
  /\ call[c].pc = "intent"
  /\ IF call[c].head = "commit" /\ IntentAccepted(c)
     THEN /\ intent' = <<call[c].expected>>
          /\ Goto(c, "pre_push")
     ELSE /\ UNCHANGED intent
          /\ PushFails(c, "infrastructure_error")
  /\ UNCHANGED <<remote, run, remoteObs, prObs, decision, calls, moves>>

\* With an expected OID the branch is looked at again; an error goes on.
PrePush(c) ==
  /\ call[c].pc = "pre_push"
  /\ \/ /\ call[c].expected # "null" /\ branch # "absent"
        /\ branch # call[c].expected
        /\ PushFails(c, "stale")
     \/ /\ call[c].expected \in {"null", branch} \/ branch = "absent"
        /\ Goto(c, "resume")
     \/ /\ call[c].expected # "null"        \* ls-remote failed
        /\ Goto(c, "resume")
  /\ UNCHANGED <<remote, store, calls, moves>>

IsPush(o) == o.operation = "push"
IsLsRemote(o) == o.operation = "ls-remote" /\ o.oid # "null"

\* observations.find of an observation; 0 if there is none.
FirstPush == SelectInSeq(remoteObs, IsPush)
FirstLsRemote == SelectInSeq(remoteObs, IsLsRemote)

\* Existing observations decide where a call goes on.
ResumePush(c) ==
  /\ call[c].pc = "resume"
  /\ IF FirstPush = 0
     THEN call' = [call EXCEPT ![c].pc = "push", ![c].seq = Len(remoteObs) + 1]
     ELSE IF remoteObs[FirstPush].outcome = "timeout" THEN PushFails(c, "timeout")
     ELSE IF remoteObs[FirstPush].outcome # "pushed" THEN PushFails(c, "rejected")
     ELSE IF FirstLsRemote = 0 THEN Goto(c, "ls_remote")
     ELSE call' = [call EXCEPT ![c].pc = "compare", ![c].ls = FirstLsRemote,
                               ![c].seen = remoteObs[FirstLsRemote].oid]
  /\ UNCHANGED <<remote, store, calls, moves>>

\* Mutant: a client that was killed by its timeout is taken for a success.
TimeoutOutcomeIgnored == "pushed"

\* SIGTERM or SIGKILL ended the client.
TimeoutOutcome == "timeout"

\* git push <remote> <oid>:refs/heads/<branch>, without force.
ExecutePush(c) ==
  /\ call[c].pc = "push"
  /\ \/ /\ FastForward
        /\ BranchMoves("commit")
        /\ call' = [call EXCEPT ![c].pc = "record_push", ![c].outcome = "pushed"]
        /\ UNCHANGED inFlight
     \/ /\ \E outcome \in {"rejected", "infrastructure_error"} :
             call' = [call EXCEPT ![c].pc = "record_push", ![c].outcome = outcome]
        /\ UNCHANGED remote
     \/ /\ inFlight' = inFlight + 1         \* the answer is lost
        /\ \E outcome \in {"rejected", TimeoutOutcome} :
             call' = [call EXCEPT ![c].pc = "record_push", ![c].outcome = outcome]
        /\ UNCHANGED <<branch, carried, pulls>>
  /\ UNCHANGED <<store, calls, moves>>

\* Mutant: the look at the terminal record is left out.
RemoteObservationAcceptedLate(seq, o) ==
  IF seq <= Len(remoteObs) THEN remoteObs[seq] = o
  ELSE prObs = <<>> /\ seq = Len(remoteObs) + 1

\* recordRemoteObservation: the same row again, or exactly the next sequence
\* before any pull request observation and any terminal record.
RemoteObservationAccepted(seq, o) ==
  IF seq <= Len(remoteObs) THEN remoteObs[seq] = o
  ELSE decision = <<>> /\ prObs = <<>> /\ seq = Len(remoteObs) + 1

RecordRemote(seq, o) ==
  remoteObs' = IF seq <= Len(remoteObs) THEN remoteObs ELSE Append(remoteObs, o)

RecordPush(c) ==
  LET o == [operation |-> "push", outcome |-> call[c].outcome, oid |-> "null"]
  IN  /\ call[c].pc = "record_push"
      /\ IF RemoteObservationAccepted(call[c].seq, o)
         THEN /\ RecordRemote(call[c].seq, o)
              /\ IF call[c].outcome = "pushed" THEN Goto(c, "ls_remote")
                 ELSE PushFails(c, call[c].outcome)
         ELSE /\ UNCHANGED remoteObs
              /\ PushFails(c, "infrastructure_error")
      /\ UNCHANGED <<remote, run, intent, prObs, decision, calls, moves>>

\* git ls-remote, then the sequence for its row.
ExecuteLsRemote(c) ==
  /\ call[c].pc = "ls_remote"
  /\ \/ /\ branch # "absent"
        /\ call' = [call EXCEPT ![c].pc = "record_ls", ![c].seen = branch,
                                ![c].seq = Len(remoteObs) + 1]
     \/ PushFails(c, "infrastructure_error")
  /\ UNCHANGED <<remote, store, calls, moves>>

RecordLsRemote(c) ==
  LET o == [operation |-> "ls-remote", outcome |-> "observed", oid |-> call[c].seen]
  IN  /\ call[c].pc = "record_ls"
      /\ IF RemoteObservationAccepted(call[c].seq, o)
         THEN /\ RecordRemote(call[c].seq, o)
              /\ call' = [call EXCEPT ![c].pc = "compare", ![c].ls = call[c].seq]
         ELSE /\ UNCHANGED remoteObs
              /\ PushFails(c, "infrastructure_error")
      /\ UNCHANGED <<remote, run, intent, prObs, decision, calls, moves>>

\* The observed OID must be the delivery OID.
CompareObserved(c) ==
  /\ call[c].pc = "compare"
  /\ IF call[c].seen = "commit" THEN Goto(c, "find_pull") ELSE PushFails(c, "mismatch")
  /\ UNCHANGED <<remote, store, calls, moves>>

-----------------------------------------------------------------------------
(* executeVerifiedPullRequest.                                             *)

\* The provider failed, or its answer does not match.
PullFails(c) == call' = [call EXCEPT ![c].pc = "pull_failed", ![c].status = "pull_failed"]

OpenPulls == {n \in DOMAIN pulls : pulls[n].open}

\* A verified push observation, then the recorded or the open pull request; an
\* error of gh pr list reads as "none".
FindPull(c) ==
  /\ call[c].pc = "find_pull"
  /\ IF FirstLsRemote = 0 \/ remoteObs[FirstLsRemote].oid # "commit"
     THEN PullFails(c)
     ELSE IF prObs # <<>>
     THEN call' = [call EXCEPT ![c].pc = "query_pull", ![c].pull = Last(prObs).number,
                               ![c].seq = 0]
     ELSE \/ \E n \in OpenPulls :
               call' = [call EXCEPT ![c].pc = "query_pull", ![c].pull = n,
                                    ![c].seq = 1]
          \/ Goto(c, "create_pull")
  /\ UNCHANGED <<remote, store, calls, moves>>

\* gh pr create: the provider refuses a second open pull request for a branch,
\* and the answer of a creation may be lost.
CreatePull(c) ==
  /\ call[c].pc = "create_pull"
  /\ \/ /\ OpenPulls = {} /\ branch # "absent" /\ Len(pulls) < MaxPulls
        /\ pulls' = Append(pulls, [open |-> TRUE, head |-> branch])
        /\ \/ call' = [call EXCEPT ![c].pc = "query_pull", ![c].seq = 1,
                                    ![c].pull = Len(pulls) + 1]
           \/ PullFails(c)
     \/ PullFails(c) /\ UNCHANGED pulls
  /\ UNCHANGED <<branch, carried, inFlight, store, calls, moves>>

\* Repository identity and head OID equality of the independent query.
HeadAccepted(head) == head = "commit"

\* gh pr view: also another repository's answer, which is a mismatch.
QueryPull(c) ==
  /\ call[c].pc = "query_pull"
  /\ \/ HeadAccepted(pulls[call[c].pull].head)
        /\ call' = [call EXCEPT ![c].seen = pulls[call[c].pull].head,
             ![c].status = "verified",
             ![c].pc = IF call[c].seq = 0 THEN "delivered" ELSE "record_pull"]
     \/ PullFails(c)
  /\ UNCHANGED <<remote, store, calls, moves>>

\* recordPrObservation: the same row again, or the next one right after the
\* ls-remote row of the delivery OID.
PrObservationAccepted(seq, o) ==
  IF seq <= Len(prObs) THEN prObs[seq] = o
  ELSE /\ decision = <<>> /\ seq = Len(prObs) + 1
       /\ remoteObs # <<>>
       /\ IsLsRemote(Last(remoteObs)) /\ Last(remoteObs).oid = "commit"
       /\ o.head = "commit"

RecordPull(c) ==
  LET o == [number |-> call[c].pull, head |-> call[c].seen]
  IN  /\ call[c].pc = "record_pull"
      /\ IF PrObservationAccepted(call[c].seq, o)
         THEN /\ prObs' = IF call[c].seq <= Len(prObs) THEN prObs ELSE Append(prObs, o)
              /\ Goto(c, "delivered")
         ELSE /\ UNCHANGED prObs
              /\ PullFails(c)
      /\ UNCHANGED <<remote, run, intent, remoteObs, decision, calls, moves>>

-----------------------------------------------------------------------------
(* The terminal decision.                                                  *)

\* Mutant: a failure after the remote was observed ignores the pull requests.
ExactStageOfRemote(c, from) ==
  CASE from = "intent_recorded" -> remoteObs = <<>> /\ prObs = <<>>
    [] from = "remote_observed" -> call[c].ls = Len(remoteObs)
    [] from = "pr_observed"     -> call[c].ls = Len(remoteObs) /\ prObs # <<>>

\* The stage a decision claims to end must be the exact latest one.
ExactStage(c, from) ==
  CASE from = "intent_recorded" -> remoteObs = <<>> /\ prObs = <<>>
    [] from = "remote_observed" -> call[c].ls = Len(remoteObs) /\ prObs = <<>>
    [] from = "pr_observed"     -> call[c].ls = Len(remoteObs) /\ prObs # <<>>

\* The terminal transition must pin the cleanup evidence and that of every
\* observation; executeDeliveryFlow passes transitionEvidence: [].
EvidencePinned(c) == call[c].client = "services"

\* recordDeliveryDecision: an existing record always differs, because the new
\* one carries its own time; the run moves by the version that was read.
DecisionAccepted(c, from) ==
  /\ intent # <<>> /\ decision = <<>>
  /\ run = "ready_for_delivery" /\ call[c].fresh
  /\ call[c].head = "commit"
  /\ ExactStage(c, from)
  /\ EvidencePinned(c)

\* The call is over; its locals are gone but for what it reports.
Ended(c) == call' = [call EXCEPT ![c] = [Idle EXCEPT !.status = call[c].status]]

\* Mutant: the record is inserted and the run's transition is left out.
DecideWithoutRun(c, from, to) ==
  /\ decision' = IF DecisionAccepted(c, from)
                 THEN <<[from |-> from, decision |-> to]>> ELSE decision
  /\ Ended(c)
  /\ UNCHANGED <<remote, run, intent, remoteObs, prObs, calls, moves>>

\* A refused decision is thrown out of the flow and reported by the build.
Decide(c, from, to) ==
  /\ IF DecisionAccepted(c, from)
     THEN /\ decision' = <<[from |-> from, decision |-> to]>>
          /\ run' = to
     ELSE UNCHANGED <<decision, run>>
  /\ Ended(c)
  /\ UNCHANGED <<remote, intent, remoteObs, prObs, calls, moves>>

RecordPushFailure(c) ==
  /\ call[c].pc = "push_failed"
  /\ Decide(c, "intent_recorded", "delivery_failed")

RecordPullFailure(c) ==
  /\ call[c].pc = "pull_failed"
  /\ Decide(c, "remote_observed", "delivery_failed")

RecordDelivered(c) ==
  /\ call[c].pc = "delivered"
  /\ Decide(c, "pr_observed", "delivered")

\* The build process dies; a later build of the run starts over.
Crash(c) ==
  /\ call[c].pc # "idle"
  /\ call' = [call EXCEPT ![c] = Idle]
  /\ UNCHANGED <<remote, store, calls, moves>>

Push(c) ==
  \/ StartFlow(c) \/ ObserveExpected(c) \/ CreateIntent(c) \/ PrePush(c)
  \/ ResumePush(c) \/ ExecutePush(c) \/ RecordPush(c)
  \/ ExecuteLsRemote(c) \/ RecordLsRemote(c) \/ CompareObserved(c)

PullRequest(c) == FindPull(c) \/ CreatePull(c) \/ QueryPull(c) \/ RecordPull(c)

Decision(c) == RecordPushFailure(c) \/ RecordPullFailure(c) \/ RecordDelivered(c)

Next ==
  \/ ForeignMove \/ LatePush
  \/ \E c \in Callers : Push(c) \/ PullRequest(c) \/ Decision(c) \/ Crash(c)

Spec == Init /\ [][Next]_vars

-----------------------------------------------------------------------------
(* Properties.                                                             *)

\* What the tables say of the outside world happened: a push recorded as
\* "pushed" and an OID recorded by ls-remote were on the branch, and a pull
\* request is requested only for a branch that was seen at the commit
\* (executePush, executeLsRemote, executeVerifiedPullRequest).
RecordsAreTrue ==
  /\ \A i \in DOMAIN remoteObs :
       /\ remoteObs[i].outcome = "pushed" => "commit" \in carried
       /\ remoteObs[i].oid # "null" => remoteObs[i].oid \in carried
  /\ \A i \in DOMAIN prObs : prObs[i].head \in carried
  /\ pulls # <<>> => "commit" \in carried

\* The state of the promise, in the rows and on the branch.
Published == "commit" \in carried
Observed == \E i \in DOMAIN remoteObs : remoteObs[i].oid = "commit"
Requested == prObs # <<>>
Outcome == IF run = "ready_for_delivery" THEN "open" ELSE run

Promise == INSTANCE DeliveryPromise WITH
  published <- Published, observed <- Observed, requested <- Requested, outcome <- Outcome

\* The flow keeps the promise of delivery: published, observed, requested and
\* decided once, in that order, whatever crashes, lost answers, foreign moves
\* and concurrent callers do (pr-flow.ts, the four DeliveryAuthority commands).
ImplementsPromise == Promise!Spec

\* The rows of a delivery are append-only and are frozen by the decision, also
\* for a caller that is still pushing or asking (the triggers and guards of
\* recordRemoteObservation, recordPrObservation, recordDeliveryDecision).
AppendOnly(old, new) == IsPrefix(old, new) /\ (decision # <<>> => new = old)
DeliveryRowsFrozen ==
  [][/\ AppendOnly(remoteObs, remoteObs') /\ AppendOnly(prObs, prObs')
     /\ AppendOnly(decision, decision')]_vars

\* "After successful verified push and PR creation,
\* DeliveryAuthority.recordDecision is called to persist the authoritative
\* terminal delivery decision" (pr-flow.ts): a flow that returned after both
\* were verified leaves a terminal record.
VerifiedFlowIsRecorded ==
  \A c \in Callers :
    call[c].pc = "idle" /\ call[c].status = "verified" => decision # <<>>
=============================================================================
