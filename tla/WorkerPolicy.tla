---------------------------- MODULE WorkerPolicy ----------------------------
(***************************************************************************)
(* The policy functions the agent host calls for every event of a worker,  *)
(* as operators: what a call returns for a policy bundle, the reference    *)
(* the caller presents and the event.  The bundle is the attempt's private *)
(* directory with its context, nonce claim, lease and receipt file.  Paths *)
(* and digests are reduced to what the decisions tell apart.               *)
(***************************************************************************)
EXTENDS Integers, FiniteSets

CONSTANT N   \* tickets of the plan

Tickets == 1 .. N

\* Endpoints of a worktree.  Path t is what ticket t declares; the others are
\* a file nobody declares (or a staged one: the capture refuses both), the
\* Git HEAD, and a link that resolves out of the worktree.
Undeclared == 0
GitHead == -1
LinkOut == -2
Paths == Tickets \cup {Undeclared, GitHead, LinkOut}

NATIVE_PHASES ==
  {"request", "response", "llm_request", "llm_response", "tool_call", "tool_result"}
FILESYSTEM_TOOLS == {"read", "write", "edit"}
LIFECYCLE_TOOLS == {"mark_done", "phase_advance", "build_gate", "prd_validate"}
KNOWN_NATIVE_TOOLS == FILESYSTEM_TOOLS \cup LIFECYCLE_TOOLS \cup {"shell", "unrelated"}

\* The lease document of a bundle that has not been materialised, and of one
\* that has; intact says that config and bundle digests are still the invoked
\* ones, runtime that interpreter, packages and CLI are still the bound ones.
NoBundle == [lease |-> "none", expired |-> FALSE, intact |-> TRUE, runtime |-> TRUE]
NewBundle == [NoBundle EXCEPT !.lease = "active"]
ClosedBundle == [NoBundle EXCEPT !.lease = "closed"]
Bundles == [lease : {"none", "active", "closed"}, expired : BOOLEAN,
            intact : BOOLEAN, runtime : BOOLEAN]

-----------------------------------------------------------------------------
(* Authentication: config, spawn environment, context, lease. *)

\* What a caller presents: the attempt its spawn environment binds it to, and
\* the attempt its policy config names (0 a config that is no closed mapping).
Claims == [env : Tickets, config : Tickets \cup {0}]

ValidateConfig(claim) == IF claim.config = 0 THEN "config_malformed" ELSE "ok"

\* The bound interpreter, packages and CLI, read and digested again.
RuntimeDigestsMatch(bundle) == bundle.runtime

\* verifyRuntimeBindings: the active process must be the bound runtime.
VerifyRuntimeBindings(bundle) == RuntimeDigestsMatch(bundle)

\* The context document and its nonce claim exist, are private and closed.
ContextIsClosed(bundle) == bundle.lease # "none"

ValidateActiveLease(bundle) ==
  IF bundle.lease # "active" \/ bundle.expired THEN "lease_closed" ELSE "ok"

\* The bundle read is that of the environment's attempt.  Note what is absent:
\* the invoked bundle and config digests are only checked for their form.
AuthenticateBundle(bundles, claim) ==
  LET bundle == bundles[claim.env] IN
    IF ~ContextIsClosed(bundle) THEN "context_reference_untrusted"
    ELSE IF ~VerifyRuntimeBindings(bundle) THEN "authentication_failed"
    ELSE IF claim.config # claim.env THEN "context_reference_untrusted"
    ELSE ValidateActiveLease(bundle)

\* The projection the authenticator returns must name the claim's attempt.
ValidateTrustedProjection(claim) ==
  IF claim.config # claim.env THEN "context_reference_untrusted" ELSE "ok"

Authenticate(bundles, claim) ==
  IF AuthenticateBundle(bundles, claim) # "ok" THEN AuthenticateBundle(bundles, claim)
  ELSE ValidateTrustedProjection(claim)

AdaptNative(bundles, claim) ==
  IF ValidateConfig(claim) # "ok" THEN ValidateConfig(claim) ELSE Authenticate(bundles, claim)

\* ok says that the arguments are those of the tool's closed schema.
ArgumentsMatchTool(event) == event.ok

\* An authenticated event is canonical, is abstained from, or is denied for
\* its shape.
AdaptEvent(event) ==
  IF event.phase \notin NATIVE_PHASES THEN "denied"
  ELSE IF event.phase \notin {"tool_call", "tool_result"} THEN "abstain"
  ELSE IF event.tool \notin KNOWN_NATIVE_TOOLS THEN "denied"
  ELSE IF ~ArgumentsMatchTool(event) THEN "denied"
  ELSE "canonical"

-----------------------------------------------------------------------------
(* scope_fence *)

\* proveEndpoint: lexical .git, links that leave the tree, reserved roots.
ProveEndpoint(path) == path \in Tickets \cup {Undeclared}

\* nativeOperation: a write of a file that exists modifies it, else creates it.
NativeOperation(event, existing) ==
  CASE event.tool = "read"                          -> "read"
    [] event.tool = "write" /\ event.path \notin existing -> "create"
    [] OTHER                                        -> "modify"

\* Each ticket t declares one file, to be modified if it exists, else created.
Declaration(t, existing) ==
  [path |-> t, kind |-> IF t \in existing THEN "modify" ELSE "create"]

EvaluateScope(declaration, event, exists, operation) ==
  IF ~ProveEndpoint(event.path) THEN "DENY"
  ELSE IF operation = "create" /\ exists THEN "DENY"
  ELSE IF operation # "create" /\ ~exists THEN "DENY"
  ELSE IF operation = "read" /\ event.path = declaration.path THEN "ALLOW"
  ELSE IF operation = "read" THEN "ABSTAIN"
  ELSE IF event.path = declaration.path /\ operation = declaration.kind THEN "ALLOW"
  ELSE "DENY"

\* baseline are the files that existed when the ticket was declared, files the
\* ones that exist now.
scope_fence(t, baseline, files, event) ==
  IF event.tool = "shell" THEN "DENY"
  ELSE IF event.tool \notin FILESYSTEM_TOOLS THEN "ABSTAIN"
  ELSE IF event.phase # "tool_call" THEN "ABSTAIN"
  ELSE EvaluateScope(Declaration(t, baseline), event, event.path \in files, NativeOperation(event, files))

-----------------------------------------------------------------------------
(* The lifecycle policies *)

\* No producer of protected completion receipts exists: every claim is denied.
completion_evidence(event) ==
  IF event.tool = "mark_done" /\ event.phase = "tool_call" THEN "DENY" ELSE "ABSTAIN"

\* The pinned CLI, checked for being the bound one, gives the verdict.
VerifiedVerdict(event) == event.verdict = "passed"

convergence_gate(event) ==
  IF event.tool # "build_gate" \/ event.phase # "tool_call" THEN "ABSTAIN"
  ELSE IF VerifiedVerdict(event) THEN "ALLOW"
  ELSE "DENY"

subtract_before_add(event) ==
  IF event.tool # "prd_validate" \/ event.phase # "tool_call" THEN "ABSTAIN"
  ELSE IF VerifiedVerdict(event) THEN "ALLOW"
  ELSE "DENY"

\* Only a worker of the phase code_review is asked for its distinction proof.
DistinctionGenuine(event) == event.verdict = "passed"

cross_vendor_review(event) ==
  IF event.tool # "phase_advance" \/ event.phase # "tool_call" THEN "ABSTAIN"
  ELSE IF event.lifecycle # "code_review" THEN "ABSTAIN"
  ELSE IF DistinctionGenuine(event) THEN "ALLOW"
  ELSE "DENY"

\* autonomous_pr_flow remembers what it authorised: push is none, pending or
\* observed.  A shell command is reduced to push (the exact push of the run
\* branch), pr, other, or invalid (compound, destructive, protected).
ClassifyDelivery(event) == event.command

\* decodeShellResult: the structured result of the authorised command.
ShellSucceeded(event) == event.verdict = "passed"

autonomous_pr_flow(push, event) ==
  LET command == ClassifyDelivery(event) IN
    IF event.tool # "shell" \/ command = "other" THEN "ABSTAIN"
    ELSE IF command = "invalid" THEN "DENY"
    ELSE IF command = "push" /\ event.phase = "tool_call" THEN "ALLOW"
    ELSE IF command = "push" THEN (IF push = "pending" /\ ShellSucceeded(event) THEN "ALLOW" ELSE "DENY")
    ELSE IF event.phase # "tool_call" THEN "DENY"
    ELSE IF push = "observed" THEN "ALLOW" ELSE "DENY"

PushAfter(push, event) ==
  IF event.tool = "shell" /\ ClassifyDelivery(event) = "push"
  THEN IF event.phase = "tool_call" THEN "pending"
       ELSE IF push = "pending" /\ ShellSucceeded(event) THEN "observed" ELSE "none"
  ELSE push

-----------------------------------------------------------------------------
(* The host asks every attached policy and refuses when one denies. *)
HostDecision(bundles, claim, baseline, files, push, event) ==
  IF AdaptNative(bundles, claim) # "ok" \/ AdaptEvent(event) = "denied" THEN "DENY"
  ELSE IF AdaptEvent(event) = "abstain" THEN "ALLOW"
  ELSE IF "DENY" \in {scope_fence(claim.env, baseline, files, event),
                      completion_evidence(event), convergence_gate(event),
                      subtract_before_add(event), cross_vendor_review(event),
                      autonomous_pr_flow(push, event)}
       THEN "DENY" ELSE "ALLOW"

\* select_model: the cheapest tier distance first; a model without a price or
\* over the hard budget is passed over, one over the soft threshold only asked
\* for.  roster is the sorted list reduced to each model's price class.
SelectModel(roster) ==
  IF \E i \in DOMAIN roster : roster[i] = "priced" THEN "ALLOW"
  ELSE IF \E i \in DOMAIN roster : roster[i] = "over_soft" THEN "ASK" ELSE "DENY"
=============================================================================
