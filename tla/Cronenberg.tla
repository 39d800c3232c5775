------------------------------ MODULE Cronenberg -----------------------------
(***************************************************************************)
(* Cronenberg plans a chain of commands and runs it to the first failure.  *)
(* The chain, and commands a user starts, share one repository, its index  *)
(* and the state files; a command may crash and be resumed, and processes  *)
(* of an agent may outlive the command that spawned it.                    *)
(***************************************************************************)
EXTENDS AnatomyPark

CONSTANTS
  MaxChains,  \* bound: chains and commands a user starts
  UserPaths   \* where the user may have uncommitted work

ASSUME ChainAssumption == MaxChains \in Nat /\ UserPaths \subseteq Paths /\ UserPaths # {}

VARIABLES
  chain,   \* commands of the plan that have not started
  chains   \* chains started so far

vars == <<repo, made, strays, pc, cmd, exit, loop, park, disk, seen, held, rejected, truth,
          crashes, chain, chains>>
machine == <<repo, env, loop, park, disk, seen, rejected, truth, crashes>>

-----------------------------------------------------------------------------
(* The plan *)

Signals == [{"prd", "refined", "metric", "optimize", "multi", "many", "touches", "smell",
             "conformance", "cleanup", "large", "noRefine", "refine", "noFollowups",
             "resume"} -> BOOLEAN]

selectMetaphor(s) ==
  CASE s.metric /\ s.optimize -> "microverse"
    [] ~(s.metric /\ s.optimize) /\ s.multi -> "pipeline"
    [] OTHER -> "build"

decideRefine(s) ==
  /\ ~s.noRefine
  /\ \/ s.refine
     \/ /\ selectMetaphor(s) # "pipeline" /\ s.prd /\ ~s.refined
        /\ s.smell \/ s.many \/ s.touches \/ s.multi

citadelRisk(s) == s.conformance \/ (s.prd /\ (s.many \/ s.touches))

Command(c, resume, dir) == [c |-> c, resume |-> resume, dry |-> FALSE, dir |-> dir]

selectFollowups(s) ==
  IF s.noFollowups \/ selectMetaphor(s) # "build" THEN <<>>
  ELSE (IF citadelRisk(s) THEN <<"citadel">> ELSE <<>>)
       \o (IF s.touches THEN <<"anatomy">> ELSE <<>>)
       \o (IF s.large \/ s.cleanup THEN <<"szechuan">> ELSE <<>>)

\* Flags cronenberg does not know, --resume among them, go to every command.
buildCronenbergPlan(s) ==
  LET names == (IF decideRefine(s) THEN <<"refine">> ELSE <<>>)
               \o <<selectMetaphor(s)>> \o selectFollowups(s)
  IN  [i \in DOMAIN names |->
         Command(names[i], s.resume, IF names[i] = "szechuan" THEN "lower" ELSE "higher")]

Plans == {buildCronenbergPlan(s) : s \in Signals}

\* Commands a user starts without cronenberg; microverse has no --dry-run.
Direct == {<<c>> : c \in [c : Kinds \cup {"anatomy"}, resume : BOOLEAN, dry : BOOLEAN,
                          dir : {"higher", "lower"}]}
UserCommands == {q \in Direct : /\ q[1].c = "microverse" => ~q[1].dry
                                /\ q[1].c = "szechuan" => q[1].dir = "lower"
                                /\ q[1].c = "anatomy" => q[1].dir = "higher"}

-----------------------------------------------------------------------------
(* The chain *)

StartChain ==
  /\ pc = "idle" /\ chain = <<>> /\ chains < MaxChains
  /\ chain' \in Plans \cup UserCommands /\ chains' = chains + 1
  /\ UNCHANGED <<machine, pc, cmd, exit, held>>

RunChild ==
  /\ pc = "idle" /\ chain # <<>>
  /\ cmd' = Head(chain) /\ chain' = Tail(chain) /\ pc' = "start"
  /\ held' = held \cup (repo.ix \ repo.hd)
  /\ UNCHANGED <<machine, exit, chains>>

ChildExits ==
  /\ pc = "exit"
  /\ chain' = IF exit = 0 THEN chain ELSE <<>>
  /\ cmd' = NoCmd /\ pc' = "idle" /\ exit' = 0
  /\ UNCHANGED <<machine, held, chains>>

\* refine, build, pipeline and citadel leave the caller's tree and index alone.
OtherChild ==
  /\ pc = "start" /\ cmd.c \in {"refine", "build", "pipeline", "citadel"}
  /\ pc' = "exit" /\ exit' \in {0, 1}
  /\ UNCHANGED <<machine, cmd, held, chain, chains>>

-----------------------------------------------------------------------------
(* Agents, and crashes *)

AgentRuns ==
  \/ pc \in {"worker", "measure", "dry", "review", "fix", "verify"}
  \/ pc = "start" /\ cmd.c \in Kinds

Write(p, maker) ==
  /\ made < MaxEdits /\ made' = made + 1
  /\ repo' = [repo EXCEPT !.wt = @ \cup {[id |-> made + 1, at |-> p, by |-> maker]}]
  /\ UNCHANGED <<strays, pc, cmd, exit, loop, park, disk, seen, held, rejected, truth, crashes,
                 chain, chains>>

AgentWrites == AgentRuns /\ \E p \in Paths : Write(p, "agent")

StrayWrites == strays /\ \E p \in Paths : Write(p, "stray")

\* git add and git reset of any of the uncommitted work, and git commit: the
\* prompts ask a worker not to commit, and nothing keeps it from it.
UseGit ==
  /\ \/ \E x \in SUBSET (repo.wt \ repo.hd) : repo' = [repo EXCEPT !.ix = repo.hd \cup x]
     \/ repo' = Commit(repo)
  /\ repo' # repo
  /\ held' = held \cup (repo'.ix \ repo.ix)
  /\ UNCHANGED <<made, strays, pc, cmd, exit, loop, park, disk, seen, rejected, truth, crashes,
                 chain, chains>>

AgentUsesGit == AgentRuns /\ UseGit

StrayUsesGit == strays /\ UseGit

\* The command dies; the process group of its agent does not.
Crash ==
  /\ crashes < MaxCrashes /\ crashes' = crashes + 1
  /\ pc \notin {"idle", "exit"} /\ cmd.c \in Kinds \cup {"anatomy"}
  /\ pc' = "exit" /\ exit' = 1 /\ loop' = NoLoop /\ park' = NoPark /\ seen' = {}
  /\ strays' = (strays \/ AgentRuns)
  /\ truth' = IF cmd.c \in Kinds THEN [truth EXCEPT !.torn = @ \cup {cmd.c}]
              ELSE IF pc \in {"fix", "preflight", "verify", "commit", "catalog", "record"}
              THEN [truth EXCEPT !.lapsed = @ \cup {Sub}] ELSE truth
  /\ UNCHANGED <<repo, made, cmd, disk, held, rejected, chain, chains>>

-----------------------------------------------------------------------------

\* The user's own work, if any, is in the tree and perhaps staged.
Init ==
  /\ \E p \in UserPaths :
       LET e == [id |-> 0, at |-> p, by |-> "user"]
       IN  repo \in {[wt |-> {}, ix |-> {}, hd |-> {}], [wt |-> {e}, ix |-> {}, hd |-> {}],
                     [wt |-> {e}, ix |-> {e}, hd |-> {}]}
  /\ made = 0 /\ strays = FALSE /\ pc = "idle" /\ cmd = NoCmd /\ exit = 0
  /\ loop = NoLoop /\ park = NoPark
  /\ disk = [c \in Kinds \cup {"anatomy"} |-> <<>>]
  /\ seen = {} /\ held = {} /\ rejected = {}
  /\ truth = [last |-> [c \in Kinds |-> Unreadable], streak |-> initState.clean,
              torn |-> {}, lapsed |-> {}]
  /\ crashes = 0 /\ chain = <<>> /\ chains = 0

Next ==
  \/ StartChain \/ RunChild \/ ChildExits \/ OtherChild
  \/ LoopStep /\ UNCHANGED <<chain, chains>>
  \/ ParkStep /\ UNCHANGED <<chain, chains>>
  \/ AgentWrites \/ StrayWrites \/ AgentUsesGit \/ StrayUsesGit \/ Crash

Spec == Init /\ [][Next]_vars

-----------------------------------------------------------------------------
(* Properties *)

\* Types, and the breaker and iteration bounds of MicroverseLoop.run: no
\* worker is spawned past the cap or with Threshold equal errors counted.
CronenbergTypeOK ==
  /\ repo \in Repos /\ made \in 0 .. MaxEdits /\ strays \in BOOLEAN
  /\ pc \in {"idle", "start", "exit", "guard", "worker", "measure", "decide", "classify",
             "persist", "dry", "select", "review", "fix", "preflight", "verify", "commit",
             "catalog", "record"}
  /\ exit \in {0, 1} /\ crashes \in 0 .. MaxCrashes /\ chains \in 0 .. MaxChains
  /\ loop.it \in 0 .. MaxIterations /\ loop.stall \in 0 .. StallLimit - 1
  /\ loop.errors \in [Signatures -> 0 .. Threshold]
  /\ pc = "worker" => \A s \in Signatures : loop.errors[s] < Threshold
  /\ park.it \in 0 .. MaxPasses
  /\ park.state.clean \in [Subsystems -> 0 .. 2]
  /\ park.state.stall \in [Subsystems -> 0 .. StallLimit]
  /\ park.state.cur \in 1 .. Len(Order)

\* What a command itself commits (a step of the command: its pc moves) was in
\* the tree its judge accepted, and in its scope.  Only a process that outlived
\* its agent gets work in behind the judge; and commitInScope, gitCommit and the
\* catalogue commit take the whole index, so what the user, an agent or a commit
\* that failed left in it goes along, from outside the scope too.  An agent's
\* own commits are nobody's to judge.
CommitsAreJudged ==
  [][pc' # pc =>
       \A e \in repo'.hd \ repo.hd :
         /\ e \in seen \/ e.by \in {"stray", "catalog"}
         /\ \/ e \in held
            \/ e.at \in (IF cmd.c = "anatomy" THEN {Sub} ELSE Owned)]_vars

\* Work an iteration gave up never reaches HEAD, whoever commits there later;
\* the one way back is the index, which rollbackScoped restores from and never
\* resets: what an agent, the user or a failed commit had staged survives it.
\* anatomy resets the index first, and nothing it gave up comes back.
RejectedStaysOut ==
  [][\A e \in (repo'.hd \ repo.hd) \cap rejected : e \in held \/ e.by = "catalog"]_vars

\* A verdict rests on the work it is about.
VerdictIsEarned ==
  /\ pc \in {"guard", "worker", "measure", "decide", "classify", "persist"} =>
       /\ cmd.c \notin truth.torn => Last(loop.acc) = truth.last[cmd.c]
       /\ \A i \in loop.own .. Len(loop.acc) - 1 : Better(loop.acc[i + 1], loop.acc[i])
  /\ pc = "select" =>
       \A s \in Subsystems \ truth.lapsed : park.state.clean[s] <= truth.streak[s]
==============================================================================
