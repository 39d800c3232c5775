--------------------------- MODULE CronenbergProofs ---------------------------
(***************************************************************************)
(* Proofs, for any repository layout, any limits, scores and chains and    *)
(* any number of crashes, of what the metric loops and anatomy promise of  *)
(* the caller's repository and of their verdicts.                          *)
(*                                                                         *)
(* Three arguments share the control invariant.  The trees: HEAD is inside *)
(* the index, the index inside the working tree, what the judge has not    *)
(* seen is a stray's, what is staged is held (the user, an agent or a      *)
(* failed commit put it there) or is the subsystem under repair, and what  *)
(* was given up is gone unless the index held it.  The series:             *)
(* memory while a loop runs, and the state file between runs, end with the *)
(* last committed score.  The reviews: neither memory nor file counts more *)
(* clean reviews of a subsystem than were made in a row.                   *)
(***************************************************************************)
EXTENDS Cronenberg, WellFoundedInduction, TLAPS

LoopPcs == {"guard", "worker", "measure", "decide", "classify", "persist"}
FixPcs == {"fix", "preflight", "verify", "commit", "catalog", "record"}
ParkPcs == {"dry", "select", "review"} \cup FixPcs

Statuses == {"none", "converged", "attrition", "max-iterations", "breaker-tripped",
             "deadline-salvaged"}
Loops == [it : 0 .. MaxIterations, acc : Seq(Int), own : Nat, stall : 0 .. StallLimit - 1,
          score : Int, errors : [Signatures -> 0 .. Threshold], status : Statuses]
ParkStates == [clean : [Subsystems -> 0 .. 2], stall : [Subsystems -> 0 .. StallLimit],
               cur : DOMAIN Order]
Truths == [last : [Kinds -> Int], streak : [Subsystems -> 0 .. 2], torn : SUBSET Kinds,
           lapsed : SUBSET Subsystems]

LoopTyped == loop \in Loops
ParkTyped == park \in [it : 0 .. MaxPasses, state : ParkStates]
TruthTyped == truth \in Truths
DiskTyped ==
  /\ DOMAIN disk = Kinds \cup {"anatomy"}
  /\ \A c \in Kinds : disk[c] \in Seq(Int)
  /\ disk["anatomy"] # <<>> => Head(disk["anatomy"]) \in ParkStates
Counters ==
  /\ strays \in BOOLEAN /\ exit \in {0, 1}
  /\ crashes \in 0 .. MaxCrashes /\ chains \in 0 .. MaxChains
  /\ pc \in {"idle", "start", "exit"} \cup LoopPcs \cup ParkPcs

\* The command under way, the breaker and the subsystem under review.
Control ==
  /\ pc \in LoopPcs => cmd.c \in Kinds
  /\ pc \in ParkPcs => cmd.c = "anatomy"
  /\ pc \in {"worker", "measure", "decide"} => \A s \in Signatures : loop.errors[s] < Threshold
  /\ pc \in {"review"} \cup FixPcs => park.state.stall[Sub] < StallLimit
  /\ pc = "review" => park.state.clean[Sub] < 2
  /\ pc \in FixPcs => park.state.clean[Sub] = 0

\* The trees.
Nested(r) == r \in Repos /\ r.hd \subseteq r.ix /\ r.ix \subseteq r.wt
WorkIsSeen ==
  pc \in {"decide", "commit", "catalog"} =>
    \A e \in repo.wt : e \in seen \/ e.by \in {"stray", "catalog"}
StagedIsHeld ==
  \A e \in repo.ix \ repo.hd :
    \/ pc \in {"idle", "exit"} \/ e \in held
    \/ pc \in {"verify", "commit"} /\ e.at = Sub
RejectedIsOut ==
  /\ \A e \in repo.wt \cup rejected : e.id <= made
  /\ \A e \in rejected \cap repo.wt : e \in repo.hd \/ e \in held \/ e.by = "catalog"
TreesInv ==
  /\ Nested(repo) /\ rejected \subseteq Edits /\ made \in 0 .. MaxEdits
  /\ WorkIsSeen /\ StagedIsHeld /\ RejectedIsOut

\* The series of accepted scores.
SeriesEarned ==
  /\ pc \in LoopPcs =>
       /\ loop.own \in 1 .. Len(loop.acc)
       /\ cmd.c \notin truth.torn => Last(loop.acc) = truth.last[cmd.c]
       /\ \A i \in loop.own .. Len(loop.acc) - 1 : Better(loop.acc[i + 1], loop.acc[i])
  /\ \A c \in Kinds \ truth.torn :
       disk[c] = <<>> \/ (pc \in LoopPcs /\ cmd.c = c) \/ Last(disk[c]) = truth.last[c]

\* The clean reviews.
ReviewsEarned ==
  \A s \in Subsystems \ truth.lapsed :
    /\ pc \in ParkPcs => park.state.clean[s] <= truth.streak[s]
    /\ \/ disk["anatomy"] = <<>> \/ (pc \in FixPcs /\ s = Sub)
       \/ Head(disk["anatomy"]).clean[s] <= truth.streak[s]

CronInv ==
  /\ LoopTyped /\ ParkTyped /\ TruthTyped /\ DiskTyped /\ Counters /\ Control
  /\ TreesInv /\ SeriesEarned /\ ReviewsEarned

-----------------------------------------------------------------------------
(* The operators.                                                          *)

\* The limits are positive.
LEMMA Limits ==
  /\ MaxScore \in Nat /\ StallLimit \in Nat /\ StallLimit >= 1
  /\ Threshold \in Nat /\ Threshold >= 1 /\ MaxIterations \in Nat
  /\ MaxPasses \in Nat
BY LoopAssumption, PassAssumption

\* An anatomy run starts with a well-typed state.
LEMMA InitPark == initState \in ParkStates /\ NoPark \in [it : 0 .. MaxPasses, state : ParkStates]
<1>1. 1 \in DOMAIN Order BY OrderAssumption
<1>2. initState \in ParkStates BY <1>1, Limits DEF initState, ParkStates
<1>3. 0 \in 0 .. MaxPasses BY Limits
<1> HIDE DEF initState
<1> QED BY <1>2, <1>3 DEF NoPark

\* An idle loop is well typed.
LEMMA InitLoop == NoLoop \in Loops
<1>1. 0 \in 0 .. MaxIterations /\ 0 \in 0 .. StallLimit - 1 /\ 0 \in 0 .. Threshold BY Limits
<1>2. [s \in Signatures |-> 0] \in [Signatures -> 0 .. Threshold] BY <1>1
<1>3. Unreadable \in Int /\ <<>> \in Seq(Int) /\ "none" \in Statuses BY DEF Unreadable, Statuses
<1> QED BY <1>1, <1>2, <1>3 DEF NoLoop, Loops

\* The subsystem under review is one.
LEMMA SubIsOne == ParkTyped => Sub \in Subsystems /\ park.state \in ParkStates /\ park.state.cur \in DOMAIN Order
BY OrderAssumption DEF ParkTyped, ParkStates, Sub, subsystems

\* The rotation picks a subsystem that is neither clean nor stalled.
LEMMA PicksReviewable ==
  ASSUME NEW st, Reviewable(st) # {}
  PROVE  selectNextSubsystem(st) \in Reviewable(st)
<1> DEFINE ahead == {i \in Reviewable(st) : i >= st.cur}
           some == IF ahead # {} THEN ahead ELSE Reviewable(st)
           R == OpToRel(<, Nat)
<1>1. some \subseteq Reviewable(st) /\ some # {} OBVIOUS
<1>2. Reviewable(st) \subseteq Nat BY OrderAssumption DEF Reviewable, subsystems
<1>3. selectNextSubsystem(st) = CHOOSE i \in some : \A j \in some : i <= j
  BY DEF selectNextSubsystem
<1> HIDE DEF some
<1>4. PICK x \in some : \A y \in some : ~(<<y, x>> \in R)
  BY <1>1, <1>2, NatLessThanWellFounded, WFMin, Zenon
<1>5. R = {ss \in Nat \X Nat : ss[1] < ss[2]} BY DEF OpToRel
<1> HIDE DEF R
<1>6. ASSUME NEW y \in some PROVE x <= y
  <2>1. y \in Nat /\ x \in Nat BY <1>1, <1>2
  <2>2. y < x => <<y, x>> \in R BY <1>5, <2>1
  <2> QED BY <1>4, <2>1, <2>2
<1> QED BY <1>1, <1>3, <1>6

\* It leaves the counts alone.
LEMMA RotationKeeps ==
  ASSUME NEW st \in ParkStates
  PROVE  /\ advanceRotation(st) \in ParkStates /\ advanceRotation(st).clean = st.clean
         /\ advanceRotation(st).stall = st.stall
         /\ Reviewable(st) # {} =>
              /\ [st EXCEPT !.cur = selectNextSubsystem(st)] \in ParkStates
              /\ selectNextSubsystem(st) \in Reviewable(st)
<1>1. CASE Reviewable(st) = {} BY <1>1 DEF advanceRotation
<1>2. CASE Reviewable(st) # {}
  <2> DEFINE i == selectNextSubsystem(st)
  <2>1. i \in Reviewable(st) BY <1>2, PicksReviewable
  <2>2. i \in DOMAIN Order BY <2>1 DEF Reviewable, subsystems
  <2>3. advanceRotation(st) = [st EXCEPT !.cur = i] BY <1>2 DEF advanceRotation
  <2> HIDE DEF i
  <2>4. [st EXCEPT !.cur = i] \in ParkStates /\ [st EXCEPT !.cur = i].clean = st.clean
        /\ [st EXCEPT !.cur = i].stall = st.stall
    BY <2>2 DEF ParkStates
  <2> QED BY <2>1, <2>3, <2>4 DEF i
<1> QED BY <1>1, <1>2

-----------------------------------------------------------------------------
(* The trees.                                                              *)

\* git add: what is staged is in the working tree, and nothing of HEAD is lost.
LEMMA StageKeeps ==
  ASSUME NEW r, Nested(r), NEW owned
  PROVE  /\ Nested(Stage(r, owned)) /\ Stage(r, owned).wt = r.wt /\ Stage(r, owned).hd = r.hd
         /\ \A e \in Stage(r, owned).ix : e \in r.ix \/ e.at \in owned
<1> DEFINE ix == (r.ix \ Under(r.ix, owned)) \cup Under(r.wt, owned)
<1>1. /\ ix \subseteq r.wt /\ r.hd \subseteq ix /\ ix \in SUBSET Edits
      /\ \A e \in ix : e \in r.ix \/ e.at \in owned
  BY DEF Nested, Under, Repos
<1>2. Stage(r, owned) = [r EXCEPT !.ix = ix] BY DEF Stage, Nested, Repos
<1> HIDE DEF ix
<1>3. /\ [r EXCEPT !.ix = ix] \in Repos /\ [r EXCEPT !.ix = ix].ix = ix
      /\ [r EXCEPT !.ix = ix].wt = r.wt /\ [r EXCEPT !.ix = ix].hd = r.hd
  BY <1>1 DEF Nested, Repos
<1> QED BY <1>1, <1>2, <1>3 DEF Nested

\* git commit and git reset make HEAD and index equal, one way or the other.
LEMMA CommitKeeps ==
  ASSUME NEW r, Nested(r)
  PROVE  /\ Nested(Commit(r)) /\ Commit(r).wt = r.wt /\ Commit(r).ix = r.ix /\ Commit(r).hd = r.ix
         /\ Nested(UnstageAll(r)) /\ UnstageAll(r).wt = r.wt /\ UnstageAll(r).ix = r.hd
         /\ UnstageAll(r).hd = r.hd
BY DEF Nested, Repos, Commit, UnstageAll

\* The rollback only takes from the working tree, and leaves of the owned
\* paths what the index holds.
LEMMA RestoreKeeps ==
  ASSUME NEW r, Nested(r), NEW owned
  PROVE  /\ Nested(RestoreScoped(r, owned)) /\ RestoreScoped(r, owned).ix = r.ix
         /\ RestoreScoped(r, owned).hd = r.hd /\ RestoreScoped(r, owned).wt \subseteq r.wt
         /\ \A e \in RestoreScoped(r, owned).wt : e.at \in owned => e \in r.ix
<1> DEFINE wt == (r.wt \ Under(r.wt, owned)) \cup Under(r.ix, owned)
<1>1. /\ r.ix \subseteq wt /\ wt \subseteq r.wt /\ wt \in SUBSET Edits
      /\ \A e \in wt : e.at \in owned => e \in r.ix
  BY DEF Nested, Under, Repos
<1>2. RestoreScoped(r, owned) = [r EXCEPT !.wt = wt] BY DEF RestoreScoped, Nested, Repos
<1> HIDE DEF wt
<1>3. /\ [r EXCEPT !.wt = wt] \in Repos /\ [r EXCEPT !.wt = wt].wt = wt
      /\ [r EXCEPT !.wt = wt].ix = r.ix /\ [r EXCEPT !.wt = wt].hd = r.hd
  BY <1>1 DEF Nested, Repos
<1> QED BY <1>1, <1>2, <1>3 DEF Nested

Seeing == {"decide", "commit", "catalog"}

\* A step that leaves the trees alone.
LEMMA TreesQuiet ==
  ASSUME TreesInv, UNCHANGED <<repo, held, rejected, made>>,
         \/ pc' \in {"idle", "exit"}
         \/ pc \notin {"idle", "exit", "verify", "commit"}
         \/ pc \in {"verify", "commit"} /\ pc' \in {"verify", "commit"} /\ Sub' = Sub,
         pc' \in Seeing => seen' = repo.wt \/ (pc \in Seeing /\ seen' = seen)
  PROVE  TreesInv'
<1>1. Nested(repo)' BY DEF TreesInv, Nested
<1>2. WorkIsSeen' BY DEF TreesInv, WorkIsSeen, Seeing
<1>3. StagedIsHeld' BY DEF TreesInv, StagedIsHeld
<1>4. RejectedIsOut' BY DEF TreesInv, RejectedIsOut
<1> QED BY <1>1, <1>2, <1>3, <1>4 DEF TreesInv

\* What a step gave up under the owned paths is out of the tree: r is the
\* repository it restored.
GivesUp(r, owned) ==
  /\ Nested(r) /\ r.wt = repo.wt /\ r.hd = repo.hd
  /\ repo' = RestoreScoped(r, owned)
  /\ rejected' \subseteq rejected \cup (repo.wt \ repo.hd)
  /\ \A e \in rejected' : e \in rejected \/ e.at \in owned
  /\ \A e \in held : e \in held' \/ (e.at \in owned /\ e \notin r.ix)
  /\ \A e \in r.ix \ r.hd : e \in held'
  /\ made' = made /\ pc' \in {"classify", "select"}

\* Giving up keeps the trees in order.
LEMMA GiveUpTrees ==
  ASSUME TreesInv, NEW r, NEW owned, GivesUp(r, owned)
  PROVE  TreesInv'
<1>1. /\ Nested(repo') /\ repo'.ix = r.ix /\ repo'.hd = repo.hd /\ repo'.wt \subseteq repo.wt
      /\ \A e \in repo'.wt : e.at \in owned => e \in r.ix
  BY RestoreKeeps DEF GivesUp
<1>2. rejected' \subseteq Edits BY DEF TreesInv, GivesUp, Nested, Repos
<1>3. WorkIsSeen' BY DEF WorkIsSeen, GivesUp
<1>4. StagedIsHeld' BY <1>1 DEF StagedIsHeld, GivesUp
<1>5. RejectedIsOut'
  <2>1. \A e \in repo'.wt \cup rejected' : e.id <= made'
    BY <1>1 DEF GivesUp, TreesInv, RejectedIsOut
  <2>2. ASSUME NEW e \in rejected', e \in repo'.wt PROVE e \in repo'.hd \/ e \in held' \/ e.by = "catalog"
    <3>1. e \in repo.wt BY <1>1, <2>2
    <3>2. CASE e \in rejected
      BY <1>1, <2>2, <3>1, <3>2 DEF TreesInv, RejectedIsOut, GivesUp
    <3>3. CASE e \notin rejected
      <4>1. e \in r.ix BY <1>1, <2>2, <3>3 DEF GivesUp
      <4> QED BY <1>1, <4>1 DEF GivesUp
    <3> QED BY <3>2, <3>3
  <2> QED BY <2>1, <2>2 DEF RejectedIsOut
<1> QED BY <1>1, <1>2, <1>3, <1>4, <1>5 DEF TreesInv, GivesUp

\* What a step commits, or leaves staged when git refuses: r is the repository
\* with what it added.
Lands(r) ==
  /\ Nested(r) /\ r.hd = repo.hd
  /\ \A e \in r.wt : e \in repo.wt \/ (e.by = "catalog" /\ e.id <= made)
  /\ \/ repo' = Commit(r) /\ held' = held
     \/ repo' = r /\ held' = held \cup (r.ix \ r.hd)
  /\ UNCHANGED <<rejected, made>>
  /\ pc' \in {"classify", "catalog", "record"}
  /\ pc' = "catalog" => pc = "commit" /\ seen' = seen

\* A commit, landed or refused, keeps the trees in order.
LEMMA LandTrees ==
  ASSUME TreesInv, NEW r, Lands(r)
  PROVE  TreesInv'
<1>1. /\ Nested(repo') /\ repo'.wt = r.wt /\ repo.hd \subseteq repo'.hd /\ held \subseteq held'
      /\ \A e \in repo'.ix : e \in repo'.hd \/ e \in held'
  <2>1. CASE repo' = Commit(r) /\ held' = held
    BY <2>1, CommitKeeps DEF Lands, Nested
  <2>2. CASE repo' = r /\ held' = held \cup (r.ix \ r.hd) BY <2>2 DEF Lands
  <2> QED BY <2>1, <2>2 DEF Lands
<1>2. WorkIsSeen' BY <1>1 DEF Lands, WorkIsSeen, TreesInv
<1>3. StagedIsHeld' BY <1>1 DEF StagedIsHeld
<1>4. RejectedIsOut' BY <1>1 DEF Lands, RejectedIsOut, TreesInv
<1> QED BY <1>1, <1>2, <1>3, <1>4 DEF TreesInv, Lands

\* An edit is new: nobody gave it up before, and the judge of a tree that is
\* waited for sees whatever is not a stray's.
LEMMA WriteTrees ==
  ASSUME TreesInv, NEW p \in Paths, NEW maker \in {"agent", "stray"}, Write(p, maker),
         maker = "agent" => pc \notin Seeing
  PROVE  TreesInv'
<1> DEFINE e == [id |-> made + 1, at |-> p, by |-> maker]
           wt == repo.wt \cup {e}
<1>1. /\ made \in 0 .. MaxEdits /\ made < MaxEdits /\ made' = made + 1
      /\ repo' = [repo EXCEPT !.wt = wt]
      /\ UNCHANGED <<pc, park, seen, held, rejected>>
  BY DEF Write, TreesInv, Nested, Repos
<1>2. made \in Int /\ made' \in 0 .. MaxEdits BY <1>1, EditAssumption
<1>3. e \in Edits /\ e.id = made + 1 /\ e.by = maker
  <2>1. made + 1 \in 0 .. MaxEdits BY <1>1, EditAssumption
  <2>2. maker \in Makers BY DEF Makers
  <2> QED BY <2>1, <2>2 DEF Edits
<1> HIDE DEF e
<1>4. wt \in SUBSET Edits /\ repo.wt \subseteq wt /\ \A d \in wt : d \in repo.wt \/ d = e
  BY <1>3 DEF TreesInv, Nested, Repos
<1> HIDE DEF wt
<1>5. /\ repo' \in Repos /\ repo'.wt = wt /\ repo'.ix = repo.ix /\ repo'.hd = repo.hd
  BY <1>1, <1>4 DEF TreesInv, Nested, Repos
<1>6. Nested(repo') BY <1>4, <1>5 DEF TreesInv, Nested
<1>7. WorkIsSeen'
  BY <1>1, <1>3, <1>4, <1>5 DEF TreesInv, WorkIsSeen, Seeing
<1>8. StagedIsHeld' BY <1>1, <1>5 DEF TreesInv, StagedIsHeld, Sub
<1>9. RejectedIsOut'
  <2>1. ASSUME NEW d \in repo'.wt \cup rejected' PROVE d.id <= made'
    <3>1. CASE d = e BY <1>1, <1>2, <1>3, <3>1
    <3>2. CASE d # e
      <4>1. d \in repo.wt \cup rejected BY <1>1, <1>4, <1>5, <3>2
      <4>2. d.id \in Int /\ d.id <= made
        BY <4>1 DEF TreesInv, Nested, Repos, Edits, RejectedIsOut
      <4> QED BY <1>1, <1>2, <4>2
    <3> QED BY <3>1, <3>2
  <2>2. e \notin rejected
    <3>1. e \in rejected => made + 1 <= made BY <1>3 DEF TreesInv, RejectedIsOut
    <3> QED BY <1>2, <3>1
  <2>3. \A d \in rejected' \cap repo'.wt : d \in repo'.hd \/ d \in held' \/ d.by = "catalog"
    BY <1>1, <1>4, <1>5, <2>2 DEF TreesInv, RejectedIsOut
  <2> QED BY <2>1, <2>3 DEF RejectedIsOut
<1> QED BY <1>1, <1>2, <1>6, <1>7, <1>8, <1>9 DEF TreesInv

\* The steps of the metric loop keep the trees in order.
LEMMA LoopTrees ==
  ASSUME CronInv, LoopStep
  PROVE  TreesInv'
<1>1. TreesInv BY DEF CronInv
<1>2. CASE \/ RefuseLoop \/ ResumeLoop \/ LoopGuard \/ (\E s \in Scores : MeasureBaseline(s))
           \/ WorkerExits \/ Deadline \/ (\E s \in Scores \cup {Unreadable} : Measure(s))
           \/ Attrition \/ Classify \/ Persist
  <2>1. /\ UNCHANGED <<repo, held, rejected, made>>
        /\ pc \in {"start"} \cup LoopPcs /\ pc' \in {"exit"} \cup LoopPcs
        /\ pc' = "decide" => seen' = repo.wt
    BY <1>2 DEF RefuseLoop, ResumeLoop, LoopGuard, MeasureBaseline, WorkerExits, Deadline, Measure,
       Attrition, Classify, Persist, Exits, Ends, env, history, LoopPcs
  <2>2. /\ pc \notin {"idle", "exit", "verify", "commit"} /\ pc' \notin {"commit", "catalog"}
    BY <2>1 DEF LoopPcs
  <2> QED BY <1>1, <2>1, <2>2, TreesQuiet DEF Seeing
<1>3. CASE CommitImprovement
  <2> DEFINE r == Stage(repo, Owned)
  <2>1. repo' = Commit(r) /\ UNCHANGED <<held, rejected, made>> /\ pc' = "classify"
    BY <1>3 DEF CommitImprovement, history, env
  <2>2. Nested(r) /\ r.wt = repo.wt /\ r.hd = repo.hd BY <1>1, StageKeeps DEF TreesInv
  <2> HIDE DEF r
  <2> QED BY <1>1, <2>1, <2>2, LandTrees DEF Lands
<1>4. ASSUME NEW r, NEW s, pc = "decide", RollBack(r, s), made' = made, r \in {repo, Stage(repo, Owned)},
             held' = held \cup (r.ix \ r.hd) \/ (r = repo /\ held' = held)
      PROVE  TreesInv'
  <2>1. Nested(r) /\ r.wt = repo.wt /\ r.hd = repo.hd BY <1>1, <1>4, StageKeeps DEF TreesInv
  <2>2. /\ repo' = RestoreScoped(r, Owned) /\ pc' = "classify"
        /\ rejected' = rejected \cup Dirty(r, Owned)
    BY <1>4 DEF RollBack
  <2>3. Dirty(r, Owned) \subseteq repo.wt \ repo.hd /\ \A e \in Dirty(r, Owned) : e.at \in Owned
    BY <2>1 DEF Dirty, Under, Nested
  <2>4. held \subseteq held' /\ \A e \in r.ix \ r.hd : e \in held'
    BY <1>1, <1>4 DEF TreesInv, StagedIsHeld
  <2>5. GivesUp(r, Owned) BY <1>4, <2>1, <2>2, <2>3, <2>4 DEF GivesUp
  <2> QED BY <1>1, <2>5, GiveUpTrees
<1>5. CASE ImprovementWithoutCommit
  BY <1>4, <1>5 DEF ImprovementWithoutCommit, env
<1>6. CASE Regress \/ Stall
  BY <1>4, <1>6 DEF Regress, Stall, env
<1> QED BY <1>2, <1>3, <1>5, <1>6 DEF LoopStep

\* The steps of anatomy keep the trees in order.
LEMMA ParkTrees ==
  ASSUME CronInv, ParkStep
  PROVE  TreesInv'
<1>1. TreesInv /\ Sub \in Subsystems BY SubIsOne DEF CronInv
<1>2. CASE \/ RefuseAnatomy \/ StartAnatomy \/ DryRun \/ Verdict \/ SelectSubsystem \/ AgentFails
           \/ CleanReview \/ ReviewWithFindings \/ FixApplied \/ RecordIteration
  <2>1. UNCHANGED <<repo, held, rejected, made>>
    BY <1>2 DEF RefuseAnatomy, StartAnatomy, DryRun, Verdict, SelectSubsystem, AgentFails, CleanReview,
       ReviewWithFindings, FixApplied, RecordIteration, env, history
  <2>2. /\ pc' \notin Seeing
        /\ pc \notin {"idle", "exit", "verify", "commit"} \/ pc' = "exit"
    BY <1>2 DEF RefuseAnatomy, StartAnatomy, DryRun, Verdict, SelectSubsystem, AgentFails, CleanReview,
       ReviewWithFindings, FixApplied, RecordIteration, RecordPass, ParkFails, Seeing
  <2> QED BY <1>1, <2>1, <2>2, TreesQuiet
<1>3. CASE FixFails \/ OutOfScope \/ VerifyFails
  <2> DEFINE r == UnstageAll(repo)
  <2>1. GiveUp BY <1>3 DEF FixFails, OutOfScope, VerifyFails
  <2>2. /\ repo' = RestoreScoped(r, {Sub}) /\ rejected' = rejected \cup Dirty(repo, {Sub})
        /\ held' = held \ Dirty(repo, {Sub}) /\ made' = made /\ pc' = "select"
    BY <2>1 DEF GiveUp, Revert, RecordPass, env
  <2>3. Nested(r) /\ r.wt = repo.wt /\ r.hd = repo.hd /\ r.ix = repo.hd
    BY <1>1, CommitKeeps DEF TreesInv
  <2>4. Dirty(repo, {Sub}) \subseteq repo.wt \ repo.hd /\ \A e \in Dirty(repo, {Sub}) : e.at \in {Sub}
    BY <1>1 DEF Dirty, Under, TreesInv, Nested
  <2> HIDE DEF r
  <2>5. GivesUp(r, {Sub}) BY <2>2, <2>3, <2>4 DEF GivesUp
  <2> QED BY <1>1, <2>5, GiveUpTrees
<1>4. CASE StageFix
  <2>1. /\ pc = "preflight" /\ pc' = "verify" /\ repo' = Stage(repo, {Sub})
        /\ UNCHANGED <<park, held, rejected, made>>
    BY <1>4 DEF StageFix, env, history
  <2>2. /\ Nested(repo') /\ repo'.wt = repo.wt /\ repo'.hd = repo.hd
        /\ \A e \in repo'.ix : e \in repo.ix \/ e.at \in {Sub}
    BY <1>1, <2>1, StageKeeps DEF TreesInv
  <2>3. WorkIsSeen' BY <2>1 DEF WorkIsSeen
  <2>4. StagedIsHeld' BY <1>1, <2>1, <2>2 DEF TreesInv, StagedIsHeld, Sub
  <2>5. RejectedIsOut' BY <1>1, <2>1, <2>2 DEF TreesInv, RejectedIsOut
  <2> QED BY <1>1, <2>1, <2>2, <2>3, <2>4, <2>5 DEF TreesInv
<1>5. CASE VerifyPasses
  <2>1. /\ pc = "verify" /\ pc' = "commit" /\ seen' = repo.wt /\ Sub' = Sub
        /\ UNCHANGED <<repo, held, rejected, made>>
    BY <1>5 DEF VerifyPasses, env, history, Sub
  <2> QED BY <1>1, <2>1, TreesQuiet
<1>6. CASE CommitFix
  <2>1. /\ pc = "commit" /\ pc' \in {"catalog", "record"} /\ seen' = seen
        /\ UNCHANGED <<rejected, made>>
        /\ \/ repo' = Commit(repo) /\ held' = held
           \/ repo' = repo /\ held' = held \cup (repo.ix \ repo.hd)
    BY <1>6 DEF CommitFix, env
  <2>2. Nested(repo) BY <1>1 DEF TreesInv
  <2> QED BY <1>1, <2>1, <2>2, LandTrees DEF Lands
<1>7. CASE CatalogTrapDoors
  <2> DEFINE e == [id |-> made, at |-> Sub, by |-> "catalog"]
             wt == repo.wt \cup {e}
             ix == repo.ix \cup {e}
             r == [repo EXCEPT !.wt = wt, !.ix = ix]
  <2>1. /\ pc' = "record" /\ UNCHANGED <<rejected, made>>
        /\ \/ repo' = Commit(r) /\ held' = held
           \/ repo' = r /\ held' = held \cup (r.ix \ r.hd)
    BY <1>1, <1>7 DEF CatalogTrapDoors, env, TreesInv, Nested, Repos
  <2>2. made \in 0 .. MaxEdits /\ made \in Int BY <1>1, EditAssumption DEF TreesInv
  <2>3. e \in Edits /\ e.by = "catalog" /\ e.id = made
    BY <1>1, <2>2 DEF Edits, Paths, Makers
  <2> HIDE DEF e
  <2>4. /\ wt \in SUBSET Edits /\ ix \in SUBSET Edits /\ ix \subseteq wt /\ repo.hd \subseteq ix
        /\ \A d \in wt : d \in repo.wt \/ d = e
    BY <1>1, <2>3 DEF TreesInv, Nested, Repos
  <2> HIDE DEF wt, ix
  <2>5. r \in Repos /\ r.wt = wt /\ r.ix = ix /\ r.hd = repo.hd
    BY <1>1, <2>4 DEF TreesInv, Nested, Repos
  <2> HIDE DEF r
  <2>6. Lands(r) BY <2>1, <2>2, <2>3, <2>4, <2>5 DEF Lands, Nested
  <2> QED BY <1>1, <2>6, LandTrees
<1> QED BY <1>2, <1>3, <1>4, <1>5, <1>6, <1>7 DEF ParkStep

\* Whoever uses git leaves the trees nested, and holds what it stages.
LEMMA GitTrees ==
  ASSUME TreesInv, UseGit
  PROVE  TreesInv'
<1>1. /\ Nested(repo) /\ UNCHANGED <<made, pc, park, seen, rejected>>
      /\ held' = held \cup (repo'.ix \ repo.ix)
  BY DEF TreesInv, UseGit
<1>2. Nested(repo') /\ repo'.wt = repo.wt /\ repo.hd \subseteq repo'.hd
  <2>1. ASSUME NEW x \in SUBSET (repo.wt \ repo.hd), repo' = [repo EXCEPT !.ix = repo.hd \cup x]
        PROVE  Nested(repo') /\ repo'.wt = repo.wt /\ repo.hd \subseteq repo'.hd
    <3> DEFINE ix == repo.hd \cup x
    <3>1. ix \in SUBSET Edits /\ repo.hd \subseteq ix /\ ix \subseteq repo.wt /\ repo' = [repo EXCEPT !.ix = ix]
      BY <1>1, <2>1 DEF Nested, Repos
    <3> HIDE DEF ix
    <3> QED BY <1>1, <3>1 DEF Nested, Repos
  <2>2. CASE repo' = Commit(repo) BY <1>1, <2>2, CommitKeeps DEF Nested
  <2> QED BY <2>1, <2>2 DEF UseGit
<1>3. WorkIsSeen' BY <1>1, <1>2 DEF TreesInv, WorkIsSeen
<1>4. StagedIsHeld' BY <1>1, <1>2 DEF TreesInv, StagedIsHeld, Sub
<1>5. RejectedIsOut' BY <1>1, <1>2 DEF TreesInv, RejectedIsOut
<1> QED BY <1>1, <1>2, <1>3, <1>4, <1>5 DEF TreesInv

\* Agents write only where no judge's answer is waiting to be used.
LEMMA AgentsAreNotJudged == AgentRuns => pc \notin Seeing
BY DEF AgentRuns, Seeing

\* Every step keeps the trees in order.
LEMMA TreesStep ==
  ASSUME CronInv, [Next]_vars
  PROVE  TreesInv'
<1>1. TreesInv BY DEF CronInv
<1>2. CASE LoopStep BY <1>2, LoopTrees
<1>3. CASE ParkStep BY <1>3, ParkTrees
<1>4. CASE StartChain \/ ChildExits \/ OtherChild \/ Crash \/ UNCHANGED vars
  <2>1. UNCHANGED <<repo, held, rejected, made>>
    BY <1>4 DEF StartChain, ChildExits, OtherChild, Crash, vars, machine, env
  <2>2. pc' \in {"idle", "exit"} \/ (pc' = pc /\ seen' = seen /\ Sub' = Sub)
    BY <1>4 DEF StartChain, ChildExits, OtherChild, Crash, vars, machine, Sub
  <2> QED BY <1>1, <2>1, <2>2, TreesQuiet DEF Seeing
<1>5. CASE RunChild
  <2>1. /\ UNCHANGED <<repo, rejected, made>> /\ pc' = "start" /\ held' = held \cup (repo.ix \ repo.hd)
    BY <1>5 DEF RunChild, machine, env
  <2>2. WorkIsSeen' /\ StagedIsHeld' BY <2>1 DEF WorkIsSeen, StagedIsHeld
  <2>3. RejectedIsOut' BY <1>1, <2>1 DEF TreesInv, RejectedIsOut
  <2> QED BY <1>1, <2>1, <2>2, <2>3 DEF TreesInv, Nested
<1>6. CASE AgentWrites
  <2>1. PICK p \in Paths : Write(p, "agent") BY <1>6 DEF AgentWrites
  <2>2. pc \notin Seeing BY <1>6, AgentsAreNotJudged DEF AgentWrites
  <2> QED BY <1>1, <2>1, <2>2, WriteTrees
<1>7. CASE StrayWrites
  <2>1. PICK p \in Paths : Write(p, "stray") BY <1>7 DEF StrayWrites
  <2> QED BY <1>1, <2>1, WriteTrees
<1>8. CASE AgentUsesGit \/ StrayUsesGit
  BY <1>1, <1>8, GitTrees DEF AgentUsesGit, StrayUsesGit
<1> QED BY <1>2, <1>3, <1>4, <1>5, <1>6, <1>7, <1>8 DEF Next

\* What a step may put into HEAD.
JudgedStep ==
  pc' # pc =>
    \A e \in repo'.hd \ repo.hd :
      /\ e \in seen \/ e.by \in {"stray", "catalog"}
      /\ \/ e \in held
         \/ e.at \in (IF cmd.c = "anatomy" THEN {Sub} ELSE Owned)
RejectedStep ==
  \A e \in (repo'.hd \ repo.hd) \cap rejected : e \in held \/ e.by = "catalog"

\* Only a commit moves HEAD, and it takes what was judged and held.
LEMMA HeadStep ==
  ASSUME CronInv, [Next]_vars
  PROVE  JudgedStep /\ RejectedStep
<1>1. TreesInv /\ Sub \in Subsystems BY SubIsOne DEF CronInv
<1>2. Nested(repo) BY <1>1 DEF TreesInv
<1>3. CASE repo'.hd = repo.hd BY <1>3 DEF JudgedStep, RejectedStep
<1>4. CASE CommitImprovement
  <2> DEFINE r == Stage(repo, Owned)
  <2>1. repo' = Commit(r) /\ pc = "decide" BY <1>4 DEF CommitImprovement
  <2>2. /\ Nested(r) /\ r.wt = repo.wt /\ \A e \in r.ix : e \in repo.ix \/ e.at \in Owned
    BY <1>2, StageKeeps
  <2>3. cmd.c # "anatomy" BY <2>1 DEF CronInv, Control, LoopPcs, Kinds
  <2> HIDE DEF r
  <2>4. repo'.hd = r.ix /\ r.ix \subseteq repo.wt BY <2>1, <2>2, CommitKeeps DEF Nested
  <2>5. JudgedStep
    BY <1>1, <2>1, <2>2, <2>3, <2>4 DEF JudgedStep, TreesInv, WorkIsSeen, StagedIsHeld
  <2>6. RejectedStep BY <1>1, <2>4 DEF RejectedStep, TreesInv, RejectedIsOut
  <2> QED BY <2>5, <2>6
<1>5. CASE CommitFix
  <2>1. pc = "commit" /\ (repo' = Commit(repo) \/ repo' = repo) BY <1>5 DEF CommitFix
  <2>2. cmd.c = "anatomy" BY <2>1 DEF CronInv, Control, ParkPcs, FixPcs
  <2>3. repo'.hd \subseteq repo.ix /\ repo.ix \subseteq repo.wt BY <1>2, <2>1, CommitKeeps DEF Nested
  <2>4. JudgedStep
    BY <1>1, <2>1, <2>2, <2>3 DEF JudgedStep, TreesInv, WorkIsSeen, StagedIsHeld
  <2>5. RejectedStep BY <1>1, <2>3 DEF RejectedStep, TreesInv, RejectedIsOut
  <2> QED BY <2>4, <2>5
<1>6. CASE CatalogTrapDoors
  <2> DEFINE e == [id |-> made, at |-> Sub, by |-> "catalog"]
             wt == repo.wt \cup {e}
             ix == repo.ix \cup {e}
             r == [repo EXCEPT !.wt = wt, !.ix = ix]
  <2>1. pc = "catalog" /\ (repo' = Commit(r) \/ repo' = r)
    BY <1>2, <1>6 DEF CatalogTrapDoors, Nested, Repos
  <2>2. e.at = Sub /\ e.by = "catalog" OBVIOUS
  <2> HIDE DEF e
  <2>3. \A d \in ix : d \in repo.ix \/ d = e OBVIOUS
  <2> HIDE DEF wt, ix
  <2>4. r.ix = ix /\ r.hd = repo.hd /\ Commit(r).hd = ix BY <1>2 DEF Nested, Repos, Commit
  <2> HIDE DEF r
  <2>5. ASSUME NEW d \in repo'.hd \ repo.hd PROVE d = e \/ d \in repo.ix
    BY <2>1, <2>3, <2>4, <2>5
  <2>6. cmd.c = "anatomy" /\ repo.ix \subseteq repo.wt
    BY <1>2, <2>1 DEF CronInv, Control, ParkPcs, FixPcs, Nested
  <2>7. JudgedStep
    BY <1>1, <2>1, <2>2, <2>5, <2>6 DEF JudgedStep, TreesInv, WorkIsSeen, StagedIsHeld
  <2>8. RejectedStep BY <1>1, <2>2, <2>5, <2>6 DEF RejectedStep, TreesInv, RejectedIsOut
  <2> QED BY <2>7, <2>8
<1>7. CASE LoopStep
  <2>1. ASSUME NEW r \in {repo, Stage(repo, Owned)}, repo' = RestoreScoped(r, Owned)
        PROVE  repo'.hd = repo.hd
    BY <1>2, <2>1, StageKeeps, RestoreKeeps
  <2>2. CASE ImprovementWithoutCommit BY <1>3, <2>1, <2>2 DEF ImprovementWithoutCommit, RollBack
  <2>3. CASE Regress \/ Stall BY <1>3, <2>1, <2>3 DEF Regress, Stall, RollBack
  <2>4. CASE \/ RefuseLoop \/ ResumeLoop \/ LoopGuard \/ (\E s \in Scores : MeasureBaseline(s))
             \/ WorkerExits \/ Deadline \/ (\E s \in Scores \cup {Unreadable} : Measure(s))
             \/ Attrition \/ Classify \/ Persist
    <3>1. repo' = repo
      BY <2>4 DEF RefuseLoop, ResumeLoop, LoopGuard, MeasureBaseline, WorkerExits, Deadline, Measure,
         Attrition, Classify, Persist
    <3> QED BY <1>3, <3>1
  <2> QED BY <1>4, <1>7, <2>2, <2>3, <2>4 DEF LoopStep
<1>8. CASE ParkStep
  <2>1. CASE FixFails \/ OutOfScope \/ VerifyFails
    <3>1. repo' = RestoreScoped(UnstageAll(repo), {Sub})
      BY <2>1 DEF FixFails, OutOfScope, VerifyFails, GiveUp, Revert
    <3>2. repo'.hd = repo.hd BY <1>2, <3>1, CommitKeeps, RestoreKeeps
    <3> QED BY <1>3, <3>2
  <2>2. CASE StageFix BY <1>2, <1>3, <2>2, StageKeeps DEF StageFix
  <2>3. CASE \/ RefuseAnatomy \/ StartAnatomy \/ DryRun \/ Verdict \/ SelectSubsystem \/ AgentFails
             \/ CleanReview \/ ReviewWithFindings \/ FixApplied \/ VerifyPasses \/ RecordIteration
    <3>1. repo' = repo
      BY <2>3 DEF RefuseAnatomy, StartAnatomy, DryRun, Verdict, SelectSubsystem, AgentFails, CleanReview,
         ReviewWithFindings, FixApplied, VerifyPasses, RecordIteration
    <3> QED BY <1>3, <3>1
  <2> QED BY <1>5, <1>6, <1>8, <2>1, <2>2, <2>3 DEF ParkStep
<1>9. CASE \/ StartChain \/ RunChild \/ ChildExits \/ OtherChild \/ AgentWrites \/ StrayWrites
           \/ Crash \/ UNCHANGED vars
  <2>1. repo' = repo \/ \E wt : repo' = [repo EXCEPT !.wt = wt]
    BY <1>2, <1>9 DEF StartChain, RunChild, ChildExits, OtherChild, AgentWrites, StrayWrites,
       Crash, vars, machine, Write, Nested, Repos
  <2>2. repo'.hd = repo.hd BY <1>2, <2>1 DEF Nested, Repos
  <2> QED BY <1>3, <2>2
<1>10. CASE AgentUsesGit \/ StrayUsesGit
  <2>1. /\ pc' = pc
        /\ \/ \E ix : repo' = [repo EXCEPT !.ix = ix]
           \/ repo' = Commit(repo)
    BY <1>10 DEF AgentUsesGit, StrayUsesGit, UseGit
  <2>2. repo'.hd \subseteq repo.wt
    <3>1. CASE \E ix : repo' = [repo EXCEPT !.ix = ix] BY <1>2, <3>1 DEF Nested, Repos
    <3>2. CASE repo' = Commit(repo) BY <1>2, <3>2, CommitKeeps DEF Nested
    <3> QED BY <2>1, <3>1, <3>2
  <2>3. RejectedStep BY <1>1, <2>2 DEF RejectedStep, TreesInv, RejectedIsOut
  <2> QED BY <2>1, <2>3 DEF JudgedStep
<1> QED BY <1>7, <1>8, <1>9, <1>10 DEF Next

-----------------------------------------------------------------------------
(* The series of accepted scores.                                          *)

\* What the loop's own steps can disturb.
LoopPart == LoopTyped /\ TruthTyped /\ DiskTyped /\ Control /\ SeriesEarned

\* The loop goes on or ends with the scores it has accepted.
LEMMA SeriesCarried ==
  ASSUME LoopPart, UNCHANGED <<cmd, truth, disk>>, pc \in LoopPcs, pc' \in LoopPcs,
         loop' \in Loops, loop'.acc = loop.acc, loop'.own = loop.own,
         pc' \in {"worker", "measure", "decide"} => \A s \in Signatures : loop'.errors[s] < Threshold
  PROVE  LoopPart'
<1>1. LoopTyped' /\ TruthTyped' /\ DiskTyped' BY DEF LoopPart, LoopTyped, TruthTyped, DiskTyped
<1>2. pc' \notin ParkPcs BY DEF LoopPcs, ParkPcs, FixPcs
<1>3. Control' BY <1>2 DEF LoopPart, Control, ParkPcs, FixPcs
<1>4. SeriesEarned' BY DEF LoopPart, SeriesEarned, Better
<1> QED BY <1>1, <1>3, <1>4 DEF LoopPart

\* The loop ends.
LEMMA EndsCarried ==
  ASSUME LoopPart, NEW status \in Statuses, Ends(status), UNCHANGED <<cmd, truth, disk>>, pc \in LoopPcs
  PROVE  LoopPart'
<1>1. pc' = "persist" /\ loop' = [NoLoop EXCEPT !.acc = loop.acc, !.own = loop.own, !.status = status]
  BY DEF Ends
<1>2. loop' \in Loops /\ loop'.acc = loop.acc /\ loop'.own = loop.own
  <2>1. NoLoop \in Loops /\ loop \in Loops BY InitLoop DEF LoopPart, LoopTyped
  <2> HIDE DEF NoLoop
  <2> QED BY <1>1, <2>1 DEF Loops
<1> QED BY <1>1, <1>2, SeriesCarried DEF LoopPcs

\* A loop starts from the scores acc: those of the state file, or a baseline.
LEMMA SeriesStarts ==
  ASSUME LoopPart, NEW acc \in Seq(Int), acc # <<>>,
         loop' = [NoLoop EXCEPT !.acc = acc, !.own = Len(acc)],
         UNCHANGED <<cmd, disk>>, cmd.c \in Kinds, pc \notin LoopPcs, pc' \in {"guard", "persist"},
         truth' \in Truths, cmd.c \notin truth'.torn => Last(acc) = truth'.last[cmd.c],
         \A c \in Kinds : c # cmd.c => /\ truth'.last[c] = truth.last[c]
                                       /\ (c \in truth.torn) = (c \in truth'.torn)
  PROVE  LoopPart'
<1>1. Len(acc) \in Nat /\ Len(acc) >= 1 OBVIOUS
<1>2. loop' \in Loops /\ loop'.acc = acc /\ loop'.own = Len(acc)
  <2>1. NoLoop \in Loops BY InitLoop
  <2> HIDE DEF NoLoop
  <2> QED BY <1>1, <2>1 DEF Loops
<1>3. LoopTyped' /\ TruthTyped' /\ DiskTyped' BY <1>2 DEF LoopPart, LoopTyped, TruthTyped, DiskTyped
<1>4. Control' BY DEF Control, LoopPcs, ParkPcs, FixPcs
<1>5. SeriesEarned'
  <2>1. pc' \in LoopPcs BY DEF LoopPcs
  <2>2. loop'.own \in 1 .. Len(loop'.acc) /\ loop'.own .. Len(loop'.acc) - 1 = {} BY <1>1, <1>2
  <2>3. cmd'.c \notin truth'.torn => Last(loop'.acc) = truth'.last[cmd'.c] BY <1>2
  <2>4. ASSUME NEW c \in Kinds, c \notin truth'.torn
        PROVE  disk'[c] = <<>> \/ (pc' \in LoopPcs /\ cmd'.c = c) \/ Last(disk'[c]) = truth'.last[c]
    BY <2>1, <2>4 DEF LoopPart, SeriesEarned
  <2> QED BY <2>1, <2>2, <2>3, <2>4 DEF SeriesEarned
<1> QED BY <1>3, <1>4, <1>5 DEF LoopPart

\* No loop runs after the step: the state file must stand for itself.
LEMMA SeriesRests ==
  ASSUME TruthTyped, SeriesEarned, pc' \notin LoopPcs, truth' \in Truths,
         \A c \in Kinds : disk'[c] = disk[c], truth'.last = truth.last, truth.torn \subseteq truth'.torn,
         pc \in LoopPcs => cmd.c \in truth'.torn
  PROVE  SeriesEarned'
BY DEF SeriesEarned

\* An iteration that is given up costs one error of its kind.
LEMMA RollBackLoop ==
  ASSUME LoopPart, NEW r, NEW s \in Signatures, RollBack(r, s), pc = "decide",
         s = "stall" => loop.stall + 1 < StallLimit, UNCHANGED <<cmd, truth, disk>>
  PROVE  LoopPart'
<1> DEFINE errors == [loop.errors EXCEPT ![s] = @ + 1]
           stall == IF s = "stall" THEN loop.stall + 1 ELSE loop.stall
<1>1. loop \in Loops /\ \A x \in Signatures : loop.errors[x] < Threshold
  BY DEF LoopPart, LoopTyped, Control
<1>2. /\ loop.errors \in [Signatures -> 0 .. Threshold] /\ loop.stall \in 0 .. StallLimit - 1
  BY <1>1 DEF Loops
<1>3. errors \in [Signatures -> 0 .. Threshold]
  <2>1. loop.errors[s] + 1 \in 0 .. Threshold BY <1>1, <1>2, Limits
  <2> QED BY <1>2, <2>1
<1>4. stall \in 0 .. StallLimit - 1 BY <1>2, Limits
<1>5. pc' = "classify" /\ loop' = [loop EXCEPT !.errors = errors, !.score = Unreadable, !.stall = stall]
  BY <1>1 DEF RollBack, Loops
<1>6. Unreadable \in Int BY DEF Unreadable
<1> HIDE DEF errors, stall
<1>7. loop' \in Loops /\ loop'.acc = loop.acc /\ loop'.own = loop.own
  BY <1>1, <1>3, <1>4, <1>5, <1>6 DEF Loops
<1> QED BY <1>5, <1>7, SeriesCarried DEF LoopPcs

\* An improvement that landed extends the series by what is now committed.
LEMMA CommitLoop ==
  ASSUME LoopPart, CommitImprovement
  PROVE  LoopPart'
<1> DEFINE acc == Append(loop.acc, loop.score)
           n == Len(loop.acc)
           last == [truth.last EXCEPT ![cmd.c] = loop.score]
<1>1. /\ pc = "decide" /\ pc' = "classify" /\ UNCHANGED <<cmd, disk>> /\ Improved
      /\ loop' = [loop EXCEPT !.acc = acc, !.stall = 0, !.errors = NoLoop.errors, !.score = Unreadable]
      /\ truth' = [truth EXCEPT !.last = last]
  BY DEF CommitImprovement, LoopPart, LoopTyped, Loops, TruthTyped, Truths
<1>2. /\ loop \in Loops /\ truth \in Truths /\ cmd.c \in Kinds
      /\ loop.own \in 1 .. Len(loop.acc)
      /\ \A i \in loop.own .. Len(loop.acc) - 1 : Better(loop.acc[i + 1], loop.acc[i])
  BY <1>1 DEF LoopPart, LoopTyped, TruthTyped, Control, SeriesEarned, LoopPcs
<1>3. loop.acc \in Seq(Int) /\ loop.score \in Int /\ loop.own \in Nat BY <1>2 DEF Loops
<1>4. /\ n \in Nat /\ acc \in Seq(Int) /\ Len(acc) = n + 1 /\ acc[n + 1] = loop.score
      /\ \A i \in 1 .. n : acc[i] = loop.acc[i]
  BY <1>3
<1>5. last \in [Kinds -> Int] /\ last[cmd.c] = loop.score /\ \A c \in Kinds : c # cmd.c => last[c] = truth.last[c]
  BY <1>2, <1>3 DEF Truths
<1>6. Better(loop.score, loop.acc[n]) BY <1>1, <1>3 DEF Improved, Last
<1>6a. loop.own \in 1 .. n /\ \A i \in loop.own .. n - 1 : Better(loop.acc[i + 1], loop.acc[i])
  BY <1>2
<1> HIDE DEF acc, last
<1>7. loop' \in Loops /\ loop'.acc = acc /\ loop'.own = loop.own
  <2>1. NoLoop.errors \in [Signatures -> 0 .. Threshold] BY InitLoop DEF Loops
  <2>2. 0 \in 0 .. StallLimit - 1 /\ Unreadable \in Int BY Limits DEF Unreadable
  <2> HIDE DEF NoLoop
  <2> QED BY <1>1, <1>2, <1>4, <2>1, <2>2 DEF Loops
<1>8. truth' \in Truths /\ truth'.last = last /\ truth'.torn = truth.torn
  BY <1>1, <1>2, <1>5 DEF Truths
<1>9. LoopTyped' /\ TruthTyped' /\ DiskTyped'
  BY <1>1, <1>7, <1>8 DEF LoopPart, LoopTyped, TruthTyped, DiskTyped
<1>10. Control' BY <1>1, <1>2 DEF Control, ParkPcs, FixPcs
<1>11. SeriesEarned'
  <2>1. loop'.own \in 1 .. Len(loop'.acc) BY <1>2, <1>4, <1>7
  <2>2. Last(loop'.acc) = truth'.last[cmd'.c] BY <1>1, <1>4, <1>5, <1>7, <1>8 DEF Last
  <2>3. ASSUME NEW i \in loop'.own .. Len(loop'.acc) - 1
        PROVE  Better(loop.acc[i + 1], loop.acc[i])'
    <3> HIDE DEF n
    <3>1. i \in loop.own .. n /\ i \in 1 .. n /\ i \in Int BY <1>3, <1>4, <1>7, <1>6a
    <3>2. CASE i = n BY <1>1, <1>4, <1>6, <1>7, <3>1, <3>2 DEF Better
    <3>3. CASE i # n
      <4>1. i \in loop.own .. n - 1 /\ i + 1 \in 1 .. n BY <1>3, <1>4, <3>1, <3>3
      <4>2. Better(loop.acc[i + 1], loop.acc[i]) BY <1>6a, <4>1
      <4> QED BY <1>1, <1>4, <1>7, <3>1, <4>1, <4>2 DEF Better
    <3> QED BY <3>2, <3>3
  <2>4. ASSUME NEW c \in Kinds \ truth'.torn
        PROVE  disk'[c] = <<>> \/ (pc' \in LoopPcs /\ cmd'.c = c) \/ Last(disk'[c]) = truth'.last[c]
    <3>1. CASE c = cmd.c BY <1>1, <3>1 DEF LoopPcs
    <3>2. CASE c # cmd.c
      <4>1. c \in Kinds \ truth.torn /\ truth'.last[c] = truth.last[c] BY <1>5, <1>8, <3>2
      <4>2. disk[c] = <<>> \/ Last(disk[c]) = truth.last[c]
        BY <3>2, <4>1 DEF LoopPart, SeriesEarned
      <4> QED BY <1>1, <4>1, <4>2
    <3> QED BY <3>1, <3>2
  <2> QED BY <2>1, <2>2, <2>3, <2>4 DEF SeriesEarned
<1> QED BY <1>9, <1>10, <1>11 DEF LoopPart

\* The state file is written, and the loop is over.
LEMMA PersistLoop ==
  ASSUME LoopPart, Persist
  PROVE  LoopPart'
<1>1. /\ pc = "persist" /\ pc' = "exit" /\ loop' = NoLoop /\ UNCHANGED <<cmd, truth>>
      /\ disk' = [disk EXCEPT ![cmd.c] = loop.acc]
  BY DEF Persist, Exits, Saved
<1>2. /\ cmd.c \in Kinds /\ loop.acc \in Seq(Int) /\ DOMAIN disk = Kinds \cup {"anatomy"}
      /\ cmd.c \notin truth.torn => Last(loop.acc) = truth.last[cmd.c]
  BY <1>1 DEF LoopPart, Control, LoopTyped, Loops, DiskTyped, SeriesEarned, LoopPcs
<1>3. "anatomy" \notin Kinds BY DEF Kinds
<1>4. /\ DOMAIN disk' = Kinds \cup {"anatomy"} /\ disk'[cmd.c] = loop.acc
      /\ \A c \in Kinds \cup {"anatomy"} : c # cmd.c => disk'[c] = disk[c]
  BY <1>1, <1>2
<1>5. DiskTyped' BY <1>2, <1>3, <1>4 DEF LoopPart, DiskTyped
<1>6. LoopTyped' /\ TruthTyped' BY <1>1, InitLoop DEF LoopPart, LoopTyped, TruthTyped
<1>7. Control' BY <1>1 DEF Control, LoopPcs, ParkPcs, FixPcs
<1>8. SeriesEarned'
  <2>1. pc' \notin LoopPcs BY <1>1 DEF LoopPcs
  <2>2. ASSUME NEW c \in Kinds \ truth'.torn PROVE disk'[c] = <<>> \/ Last(disk'[c]) = truth'.last[c]
    <3>1. CASE c = cmd.c BY <1>1, <1>2, <1>4, <3>1
    <3>2. CASE c # cmd.c BY <1>1, <1>4, <3>2 DEF LoopPart, SeriesEarned
    <3> QED BY <3>1, <3>2
  <2> QED BY <2>1, <2>2 DEF SeriesEarned
<1> QED BY <1>5, <1>6, <1>7, <1>8 DEF LoopPart

\* Every step of the loop keeps its part.
LEMMA LoopStepKeeps ==
  ASSUME CronInv, LoopStep
  PROVE  LoopPart'
<1>1. LoopPart BY DEF CronInv, LoopPart
<1>2. loop \in Loops /\ truth \in Truths BY <1>1 DEF LoopPart, LoopTyped, TruthTyped
<1>3. CASE RefuseLoop
  <2>1. pc = "start" /\ pc' = "exit" /\ loop' = NoLoop /\ UNCHANGED <<cmd, truth, disk>>
    BY <1>3 DEF RefuseLoop, Exits
  <2>2. LoopTyped' /\ TruthTyped' /\ DiskTyped'
    BY <1>1, <2>1, InitLoop DEF LoopPart, LoopTyped, TruthTyped, DiskTyped
  <2>3. Control' BY <2>1 DEF Control, LoopPcs, ParkPcs, FixPcs
  <2>4. SeriesEarned' BY <1>1, <2>1 DEF LoopPart, SeriesEarned, LoopPcs
  <2> QED BY <2>2, <2>3, <2>4 DEF LoopPart
<1>4. CASE ResumeLoop
  <2> DEFINE acc == disk[cmd.c]
  <2>1. /\ pc = "start" /\ pc' = "guard" /\ cmd.c \in Kinds /\ acc # <<>>
        /\ loop' = [NoLoop EXCEPT !.acc = acc, !.own = Len(acc)] /\ UNCHANGED <<cmd, truth, disk>>
    BY <1>4 DEF ResumeLoop, ResumedScores
  <2>2. pc \notin LoopPcs BY <2>1 DEF LoopPcs
  <2>3. acc \in Seq(Int) /\ (cmd.c \notin truth.torn => Last(acc) = truth.last[cmd.c])
    BY <1>1, <2>1, <2>2 DEF LoopPart, DiskTyped, SeriesEarned
  <2> HIDE DEF acc
  <2> QED BY <1>1, <1>2, <2>1, <2>2, <2>3, SeriesStarts
<1>5. ASSUME NEW s \in Scores, MeasureBaseline(s) PROVE LoopPart'
  <2> DEFINE acc == <<s>>
             last == [truth.last EXCEPT ![cmd.c] = s]
             torn == truth.torn \ {cmd.c}
  <2>1. /\ pc = "start" /\ pc' \in {"guard", "persist"} /\ cmd.c \in Kinds
        /\ loop' = [NoLoop EXCEPT !.acc = acc, !.own = 1] /\ UNCHANGED <<cmd, disk>>
        /\ truth' = [truth EXCEPT !.last = last, !.torn = torn]
    BY <1>2, <1>5 DEF MeasureBaseline, Truths
  <2>2. s \in Int BY Limits DEF Scores
  <2>3. acc \in Seq(Int) /\ acc # <<>> /\ Len(acc) = 1 /\ Last(acc) = s BY <2>2 DEF Last
  <2>4. /\ last \in [Kinds -> Int] /\ last[cmd.c] = s /\ torn \in SUBSET Kinds
        /\ \A c \in Kinds : c # cmd.c => last[c] = truth.last[c] /\ (c \in truth.torn) = (c \in torn)
    BY <1>2, <2>1, <2>2 DEF Truths
  <2> HIDE DEF acc, last, torn
  <2>5. truth' \in Truths /\ truth'.last = last /\ truth'.torn = torn BY <1>2, <2>1, <2>4 DEF Truths
  <2>6. pc \notin LoopPcs BY <2>1 DEF LoopPcs
  <2> QED BY <1>1, <2>1, <2>3, <2>4, <2>5, <2>6, SeriesStarts
<1>6. CASE LoopGuard
  <2>1. pc = "guard" /\ pc \in LoopPcs /\ UNCHANGED <<cmd, truth, disk>> BY <1>6 DEF LoopGuard, LoopPcs
  <2>2. ASSUME NEW status \in {"max-iterations", "breaker-tripped"}, Ends(status) PROVE LoopPart'
    BY <1>1, <2>1, <2>2, EndsCarried DEF Statuses
  <2>3. CASE /\ pc' = "worker" /\ loop' = [loop EXCEPT !.it = @ + 1] /\ loop.it # MaxIterations
             /\ canExecute
    <3>1. loop.it + 1 \in 0 .. MaxIterations BY <1>2, <2>3, Limits DEF Loops
    <3>2. loop' \in Loops /\ loop'.acc = loop.acc /\ loop'.own = loop.own /\ loop'.errors = loop.errors
      BY <1>2, <2>3, <3>1 DEF Loops
    <3> QED BY <1>1, <2>1, <2>3, <3>2, SeriesCarried DEF LoopPcs, canExecute
  <2> QED BY <1>6, <2>2, <2>3 DEF LoopGuard
<1>7. CASE WorkerExits
  <2>1. pc = "worker" /\ pc' = "measure" /\ UNCHANGED <<cmd, truth, disk, loop>> BY <1>7 DEF WorkerExits
  <2> QED BY <1>1, <1>2, <2>1, SeriesCarried DEF LoopPcs, LoopPart, Control
<1>8. CASE Deadline
  <2>1. pc = "worker" /\ Ends("deadline-salvaged") /\ UNCHANGED <<cmd, truth, disk>> BY <1>8 DEF Deadline
  <2> QED BY <1>1, <2>1, EndsCarried DEF LoopPcs, Statuses
<1>9. ASSUME NEW s \in Scores \cup {Unreadable}, Measure(s) PROVE LoopPart'
  <2>1. /\ pc = "measure" /\ pc' = "decide" /\ loop' = [loop EXCEPT !.score = s]
        /\ UNCHANGED <<cmd, truth, disk>>
    BY <1>9 DEF Measure
  <2>2. s \in Int BY Limits DEF Scores, Unreadable
  <2>3. loop' \in Loops /\ loop'.acc = loop.acc /\ loop'.own = loop.own /\ loop'.errors = loop.errors
    BY <1>2, <2>1, <2>2 DEF Loops
  <2> QED BY <1>1, <2>1, <2>3, SeriesCarried DEF LoopPcs, LoopPart, Control
<1>10. CASE CommitImprovement BY <1>1, <1>10, CommitLoop
<1>11. CASE ImprovementWithoutCommit \/ Regress \/ Stall
  <2>1. pc = "decide" /\ UNCHANGED <<cmd, truth, disk>>
    BY <1>11 DEF ImprovementWithoutCommit, Regress, Stall
  <2>2. \E r : \/ RollBack(r, "uncommitted") \/ RollBack(r, "regression")
               \/ RollBack(r, "stall") /\ loop.stall + 1 < StallLimit
    BY <1>11 DEF ImprovementWithoutCommit, Regress, Stall
  <2> QED BY <1>1, <2>1, <2>2, RollBackLoop DEF Signatures
<1>12. CASE Attrition
  <2>1. pc = "decide" /\ Ends("attrition") /\ UNCHANGED <<cmd, truth, disk>> BY <1>12 DEF Attrition
  <2> QED BY <1>1, <2>1, EndsCarried DEF LoopPcs, Statuses
<1>13. CASE Classify
  <2>1. pc = "classify" /\ UNCHANGED <<cmd, truth, disk>> BY <1>13 DEF Classify
  <2>2. Ends("converged") \/ Ends("attrition") \/ (pc' = "guard" /\ loop' = loop)
    BY <1>13 DEF Classify
  <2>3. CASE pc' = "guard" /\ loop' = loop BY <1>1, <1>2, <2>1, <2>3, SeriesCarried DEF LoopPcs
  <2> QED BY <1>1, <2>1, <2>2, <2>3, EndsCarried DEF LoopPcs, Statuses
<1>14. CASE Persist BY <1>1, <1>14, PersistLoop
<1> QED BY <1>3, <1>4, <1>5, <1>6, <1>7, <1>8, <1>9, <1>10, <1>11, <1>12, <1>13, <1>14 DEF LoopStep

-----------------------------------------------------------------------------
(* The clean reviews.                                                      *)

\* What anatomy's own steps can disturb, and what they leave of the rest.
ParkPart ==
  /\ LoopTyped /\ ParkTyped /\ TruthTyped /\ DiskTyped /\ Control /\ SeriesEarned /\ ReviewsEarned

\* A step of anatomy says nothing of the series.
Apart ==
  /\ UNCHANGED <<loop, cmd>> /\ cmd.c = "anatomy"
  /\ pc \in {"start"} \cup ParkPcs /\ pc' \in {"exit"} \cup ParkPcs
  /\ truth' \in Truths /\ truth'.last = truth.last /\ truth'.torn = truth.torn
  /\ \A c \in Kinds : disk'[c] = disk[c]

\* It leaves the series alone.
LEMMA ApartKeeps ==
  ASSUME ParkPart, Apart
  PROVE  LoopTyped' /\ TruthTyped' /\ SeriesEarned'
<1>1. pc \notin LoopPcs /\ pc' \notin LoopPcs BY DEF Apart, LoopPcs, ParkPcs, FixPcs
<1>2. SeriesEarned' BY <1>1, SeriesRests DEF ParkPart, Apart
<1> QED BY <1>2 DEF ParkPart, Apart, LoopTyped, TruthTyped

\* Anatomy's state file is written.
LEMMA WritesDisk ==
  ASSUME DiskTyped, NEW st \in ParkStates, Writes(st)
  PROVE  DiskTyped' /\ disk'["anatomy"] = <<st>> /\ \A c \in Kinds : disk'[c] = disk[c]
<1>1. "anatomy" \notin Kinds BY DEF Kinds
<1>2. /\ DOMAIN disk' = DOMAIN disk /\ disk'["anatomy"] = <<st>>
      /\ \A c \in Kinds : disk'[c] = disk[c]
  BY <1>1 DEF DiskTyped, Writes
<1> QED BY <1>2 DEF DiskTyped

\* The command ends without a word on disk: with a review on its way, the
\* subsystem has lapsed.
LEMMA ParkLeaves ==
  ASSUME ParkPart, UNCHANGED <<loop, cmd, disk>>, cmd.c = "anatomy", pc \in {"start"} \cup ParkPcs,
         pc' = "exit", park' = NoPark, truth' \in Truths,
         truth'.last = truth.last, truth'.torn = truth.torn, truth'.streak = truth.streak,
         truth.lapsed \subseteq truth'.lapsed, pc \in FixPcs => Sub \in truth'.lapsed
  PROVE  ParkPart'
<1>1. Apart BY DEF Apart
<1>2. ParkTyped' /\ DiskTyped' BY InitPark DEF ParkPart, ParkTyped, DiskTyped
<1>3. Control' BY DEF Control, LoopPcs, ParkPcs, FixPcs
<1>4. pc' \notin ParkPcs BY DEF ParkPcs, FixPcs
<1>5. ReviewsEarned' BY <1>4 DEF ParkPart, ReviewsEarned
<1> QED BY <1>1, <1>2, <1>3, <1>5, ApartKeeps DEF ParkPart

\* The state st is written, and the command goes on with it or ends.
LEMMA ParkWrites ==
  ASSUME ParkPart, UNCHANGED <<loop, cmd>>, cmd.c = "anatomy", pc \in ParkPcs,
         NEW st \in ParkStates, Writes(st),
         \/ pc' = "exit" /\ park' = NoPark
         \/ pc' = "select" /\ park' = [park EXCEPT !.state = st],
         truth' \in Truths, truth'.last = truth.last, truth'.torn = truth.torn,
         \A s \in Subsystems \ truth'.lapsed : st.clean[s] <= truth'.streak[s]
  PROVE  ParkPart'
<1>1. DiskTyped' /\ disk'["anatomy"] = <<st>> /\ \A c \in Kinds : disk'[c] = disk[c]
  BY WritesDisk DEF ParkPart
<1>2. Apart BY <1>1 DEF Apart, ParkPcs
<1>3. ParkTyped' /\ (pc' = "select" => park'.state = st)
  <2>1. CASE pc' = "exit" /\ park' = NoPark BY <2>1, InitPark DEF ParkTyped
  <2>2. CASE pc' = "select" /\ park' = [park EXCEPT !.state = st] BY <2>2 DEF ParkPart, ParkTyped
  <2> QED BY <2>1, <2>2
<1>4. Control' BY DEF Control, LoopPcs, ParkPcs, FixPcs
<1>5. ReviewsEarned'
  <2>1. pc' \in ParkPcs => park'.state = st BY <1>3 DEF ParkPcs, FixPcs
  <2>2. Head(disk'["anatomy"]) = st BY <1>1
  <2> QED BY <2>1, <2>2 DEF ReviewsEarned
<1> QED BY <1>1, <1>2, <1>3, <1>4, <1>5, ApartKeeps DEF ParkPart

\* The end of an iteration, with the counts of st.
LEMMA PassWrites ==
  ASSUME ParkPart, UNCHANGED <<loop, cmd>>, cmd.c = "anatomy", pc \in ParkPcs,
         NEW st \in ParkStates, RecordPass(st),
         truth' \in Truths, truth'.last = truth.last, truth'.torn = truth.torn,
         \A s \in Subsystems \ truth'.lapsed : st.clean[s] <= truth'.streak[s]
  PROVE  ParkPart'
<1> DEFINE next == advanceRotation(st)
<1>1. next \in ParkStates /\ next.clean = st.clean BY RotationKeeps
<1>2. Writes(next) /\ pc' = "select" /\ park' = [park EXCEPT !.state = next] BY DEF RecordPass
<1> HIDE DEF next
<1> QED BY <1>1, <1>2, ParkWrites

\* A repair goes on: the counts of clean reviews stay.
LEMMA RepairGoesOn ==
  ASSUME ParkPart, UNCHANGED <<loop, cmd, disk, truth>>, cmd.c = "anatomy", pc \in FixPcs, pc' \in FixPcs,
         ParkTyped', park'.state.cur = park.state.cur, park'.state.clean = park.state.clean,
         park'.state.stall[Sub] < StallLimit
  PROVE  ParkPart'
<1>1. pc \in ParkPcs /\ pc' \in ParkPcs /\ pc' \notin LoopPcs /\ pc' # "review"
  BY DEF ParkPcs, FixPcs, LoopPcs
<1>2. Sub' = Sub BY DEF Sub
<1>3. Apart BY <1>1 DEF Apart, ParkPart, TruthTyped
<1>4. DiskTyped' BY DEF ParkPart, DiskTyped
<1>5. Control'
  <2>1. park.state.clean[Sub] = 0 BY DEF ParkPart, Control
  <2>2. pc' \notin {"worker", "measure", "decide"} BY DEF FixPcs
  <2> QED BY <1>1, <1>2, <2>1, <2>2 DEF Control
<1>6. ReviewsEarned' BY <1>1, <1>2 DEF ParkPart, ReviewsEarned
<1> QED BY <1>3, <1>4, <1>5, <1>6, ApartKeeps DEF ParkPart

\* A review without findings counts, in memory, on disk and in fact.
LEMMA CleanReviewKeeps ==
  ASSUME CronInv, CleanReview
  PROVE  ParkPart'
<1> DEFINE clean == [park.state.clean EXCEPT ![Sub] = @ + 1]
           stall == [park.state.stall EXCEPT ![Sub] = 0]
           st == [park.state EXCEPT !.clean = clean, !.stall = stall]
           n == truth.streak[Sub]
           streak == [truth.streak EXCEPT ![Sub] = IF n = 2 THEN 2 ELSE n + 1]
<1>1. /\ ParkPart /\ pc = "review" /\ Sub \in Subsystems /\ park.state \in ParkStates /\ truth \in Truths
  BY SubIsOne DEF CronInv, ParkPart, CleanReview, TruthTyped
<1>2. pc \in ParkPcs BY <1>1 DEF ParkPcs
<1>3. cmd.c = "anatomy" /\ park.state.clean[Sub] < 2 BY <1>1, <1>2 DEF ParkPart, Control
<1>4. /\ park.state.clean \in [Subsystems -> 0 .. 2] /\ truth.streak \in [Subsystems -> 0 .. 2]
      /\ park.state.stall \in [Subsystems -> 0 .. StallLimit]
  BY <1>1 DEF ParkStates, Truths
<1>5. /\ RecordPass(st) /\ UNCHANGED <<loop, cmd>>
      /\ truth' = [truth EXCEPT !.streak = streak]
  BY <1>1, <1>4 DEF CleanReview, ParkStates, Truths
<1>6. clean \in [Subsystems -> 0 .. 2] /\ stall \in [Subsystems -> 0 .. StallLimit]
  <2>1. park.state.clean[Sub] + 1 \in 0 .. 2 BY <1>1, <1>3, <1>4
  <2>2. 0 \in 0 .. StallLimit BY Limits
  <2> QED BY <1>4, <2>1, <2>2
<1>7. streak \in [Subsystems -> 0 .. 2]
  <2>1. n \in 0 .. 2 BY <1>1, <1>4
  <2> HIDE DEF n
  <2>2. (IF n = 2 THEN 2 ELSE n + 1) \in 0 .. 2 BY <2>1
  <2> QED BY <1>4, <2>2
<1>8. ASSUME NEW s \in Subsystems \ truth.lapsed PROVE clean[s] <= streak[s]
  <2>1. park.state.clean[s] <= truth.streak[s] BY <1>1, <1>2 DEF ParkPart, ReviewsEarned
  <2>2. CASE s # Sub BY <1>4, <2>1, <2>2
  <2>3. CASE s = Sub
    <3> DEFINE k == park.state.clean[Sub]
    <3>1. clean[s] = k + 1 /\ streak[s] = IF n = 2 THEN 2 ELSE n + 1 BY <1>1, <1>4, <2>3
    <3>2. k \in 0 .. 2 /\ n \in 0 .. 2 /\ k <= n /\ k < 2 BY <1>1, <1>3, <1>4, <2>1, <2>3
    <3> HIDE DEF k, n, clean, streak
    <3> QED BY <3>1, <3>2
  <2> QED BY <2>2, <2>3
<1> HIDE DEF clean, stall, streak
<1>9. st \in ParkStates /\ st.clean = clean BY <1>1, <1>6 DEF ParkStates
<1>10. /\ truth' \in Truths /\ truth'.last = truth.last /\ truth'.torn = truth.torn
       /\ truth'.streak = streak /\ truth'.lapsed = truth.lapsed
  BY <1>1, <1>5, <1>7 DEF Truths
<1> HIDE DEF st
<1> QED BY <1>1, <1>2, <1>3, <1>5, <1>8, <1>9, <1>10, PassWrites

\* A review with findings starts the count anew.
LEMMA FindingsKeep ==
  ASSUME CronInv, ReviewWithFindings
  PROVE  ParkPart'
<1> DEFINE clean == [park.state.clean EXCEPT ![Sub] = 0]
           st == [park.state EXCEPT !.clean = clean]
           streak == [truth.streak EXCEPT ![Sub] = 0]
<1>1. /\ ParkPart /\ pc = "review" /\ pc' = "fix" /\ Sub \in Subsystems /\ park.state \in ParkStates
      /\ truth \in Truths /\ park \in [it : 0 .. MaxPasses, state : ParkStates]
  BY SubIsOne DEF CronInv, ParkPart, ReviewWithFindings, TruthTyped, ParkTyped
<1>2. pc \in ParkPcs /\ pc \notin FixPcs /\ pc' \in FixPcs /\ pc' \in ParkPcs /\ pc' \notin LoopPcs
  BY <1>1 DEF ParkPcs, FixPcs, LoopPcs
<1>3. cmd.c = "anatomy" /\ park.state.stall[Sub] < StallLimit BY <1>1, <1>2 DEF ParkPart, Control
<1>4. /\ park.state.clean \in [Subsystems -> 0 .. 2] /\ truth.streak \in [Subsystems -> 0 .. 2]
  BY <1>1 DEF ParkStates, Truths
<1>5. /\ UNCHANGED <<loop, cmd, disk>> /\ park' = [park EXCEPT !.state = st]
      /\ truth' = [truth EXCEPT !.streak = streak]
  BY <1>1, <1>4 DEF ReviewWithFindings, ParkStates, Truths
<1>6. /\ clean \in [Subsystems -> 0 .. 2] /\ clean[Sub] = 0
      /\ streak \in [Subsystems -> 0 .. 2] /\ streak[Sub] = 0
      /\ \A s \in Subsystems : s # Sub => clean[s] = park.state.clean[s] /\ streak[s] = truth.streak[s]
  BY <1>1, <1>4
<1> HIDE DEF clean, streak
<1>7. st \in ParkStates /\ st.clean = clean /\ st.stall = park.state.stall /\ st.cur = park.state.cur
  BY <1>1, <1>6 DEF ParkStates
<1> HIDE DEF st
<1>8. ParkTyped' /\ park'.state = st BY <1>1, <1>5, <1>7 DEF ParkTyped
<1>9. Sub' = Sub BY <1>7, <1>8 DEF Sub
<1>10. /\ truth' \in Truths /\ truth'.last = truth.last /\ truth'.torn = truth.torn
       /\ truth'.streak = streak /\ truth'.lapsed = truth.lapsed
  BY <1>1, <1>5, <1>6 DEF Truths
<1>11. Apart BY <1>2, <1>3, <1>5, <1>10 DEF Apart
<1>12. DiskTyped' BY <1>1, <1>5 DEF ParkPart, DiskTyped
<1>13. Control'
  <2>1. pc' \notin {"worker", "measure", "decide", "review"} BY <1>1
  <2> QED BY <1>2, <1>3, <1>5, <1>6, <1>7, <1>8, <1>9, <2>1 DEF Control
<1>14. ReviewsEarned'
  <2> SUFFICES ASSUME NEW s \in Subsystems \ truth'.lapsed
               PROVE  /\ park'.state.clean[s] <= truth'.streak[s]
                      /\ \/ disk'["anatomy"] = <<>> \/ s = Sub'
                         \/ Head(disk'["anatomy"]).clean[s] <= truth'.streak[s]
    BY <1>2 DEF ReviewsEarned
  <2>1. CASE s = Sub BY <1>6, <1>7, <1>8, <1>9, <1>10, <2>1
  <2>2. CASE s # Sub
    <3>1. /\ park.state.clean[s] <= truth.streak[s]
          /\ disk["anatomy"] = <<>> \/ Head(disk["anatomy"]).clean[s] <= truth.streak[s]
      BY <1>1, <1>2, <1>10 DEF ParkPart, ReviewsEarned
    <3> QED BY <1>5, <1>6, <1>7, <1>8, <1>10, <2>2, <3>1
  <2> QED BY <2>1, <2>2
<1> QED BY <1>1, <1>8, <1>11, <1>12, <1>13, <1>14, ApartKeeps DEF ParkPart

\* A repair that is given up, or committed and recorded: the subsystem has no
\* clean review, and that is on disk.
LEMMA RepairEnds ==
  ASSUME CronInv, GiveUp \/ RecordIteration, pc \in FixPcs
  PROVE  ParkPart'
<1> DEFINE k == park.state.stall[Sub] + 1
           stall == [park.state.stall EXCEPT ![Sub] = k]
           st == [park.state EXCEPT !.stall = stall]
           lapsed == truth.lapsed \ {Sub}
<1>1. /\ ParkPart /\ Sub \in Subsystems /\ park.state \in ParkStates /\ truth \in Truths
  BY SubIsOne DEF CronInv, ParkPart, TruthTyped
<1>2. pc \in ParkPcs BY DEF ParkPcs
<1>3. cmd.c = "anatomy" /\ park.state.clean[Sub] = 0 /\ park.state.stall[Sub] < StallLimit
  BY <1>1, <1>2 DEF ParkPart, Control
<1>4. /\ park.state.clean \in [Subsystems -> 0 .. 2] /\ truth.streak \in [Subsystems -> 0 .. 2]
      /\ park.state.stall \in [Subsystems -> 0 .. StallLimit]
  BY <1>1 DEF ParkStates, Truths
<1>5. /\ RecordPass(st) \/ RecordPass(park.state)
      /\ UNCHANGED <<loop, cmd>> /\ truth' = [truth EXCEPT !.lapsed = lapsed]
  BY <1>1, <1>4 DEF GiveUp, RecordIteration, ParkStates, Truths
<1>6. k \in 0 .. StallLimit
  <2>1. park.state.stall[Sub] \in 0 .. StallLimit BY <1>1, <1>4
  <2> QED BY <1>3, <2>1, Limits
<1> HIDE DEF k
<1>7. stall \in [Subsystems -> 0 .. StallLimit] BY <1>4, <1>6
<1> HIDE DEF stall
<1>8. st \in ParkStates /\ st.clean = park.state.clean BY <1>1, <1>7 DEF ParkStates
<1>9. /\ truth' \in Truths /\ truth'.last = truth.last /\ truth'.torn = truth.torn
      /\ truth'.streak = truth.streak /\ truth'.lapsed = truth.lapsed \ {Sub}
  BY <1>1, <1>5 DEF Truths
<1>10. ASSUME NEW s \in Subsystems \ truth'.lapsed PROVE park.state.clean[s] <= truth'.streak[s]
  <2>1. CASE s = Sub BY <1>1, <1>3, <1>4, <1>9, <2>1
  <2>2. CASE s # Sub
    <3>1. s \in Subsystems \ truth.lapsed BY <1>9, <2>2
    <3>2. park.state.clean[s] <= truth.streak[s] BY <1>1, <1>2, <3>1 DEF ParkPart, ReviewsEarned
    <3> QED BY <1>9, <3>2
  <2> QED BY <2>1, <2>2
<1> HIDE DEF st
<1>11. CASE RecordPass(st)
  BY <1>1, <1>2, <1>3, <1>5, <1>8, <1>9, <1>10, <1>11, PassWrites
<1>12. CASE RecordPass(park.state)
  BY <1>1, <1>2, <1>3, <1>5, <1>9, <1>10, <1>12, PassWrites
<1> QED BY <1>5, <1>11, <1>12

\* Anatomy starts from its state file or from nothing.
LEMMA StartKeeps ==
  ASSUME CronInv, StartAnatomy
  PROVE  ParkPart'
<1> DEFINE st == IF cmd.resume THEN Head(disk["anatomy"]) ELSE initState
<1>1. /\ ParkPart /\ pc = "start" /\ cmd.c = "anatomy" /\ pc' \in {"dry", "select"}
      /\ cmd.resume => disk["anatomy"] # <<>>
      /\ park' = [it |-> 0, state |-> st] /\ UNCHANGED <<loop, cmd, disk, truth>>
  BY DEF CronInv, ParkPart, StartAnatomy
<1>2. pc \notin ParkPcs /\ pc \notin FixPcs /\ pc' \in ParkPcs /\ pc' \notin FixPcs /\ pc' \notin LoopPcs
      /\ pc' # "review"
  BY <1>1 DEF ParkPcs, FixPcs, LoopPcs
<1>3. truth.streak \in [Subsystems -> 0 .. 2] BY <1>1 DEF ParkPart, TruthTyped, Truths
<1>4. st \in ParkStates /\ \A s \in Subsystems \ truth.lapsed : st.clean[s] <= truth.streak[s]
  <2>1. CASE cmd.resume BY <1>1, <1>2, <2>1 DEF ParkPart, DiskTyped, ReviewsEarned
  <2>2. CASE ~cmd.resume
    <3>1. st = initState /\ \A s \in Subsystems : st.clean[s] = 0 BY <2>2 DEF initState
    <3> HIDE DEF st
    <3> QED BY <1>3, <3>1, InitPark
  <2> QED BY <2>1, <2>2
<1> HIDE DEF st
<1>5. ParkTyped' /\ park'.state = st
  <2>1. 0 \in 0 .. MaxPasses BY Limits
  <2> QED BY <1>1, <1>4, <2>1 DEF ParkTyped
<1>6. Apart BY <1>1, <1>2 DEF Apart, ParkPart, TruthTyped
<1>7. DiskTyped' BY <1>1 DEF ParkPart, DiskTyped
<1>8. Control' BY <1>1, <1>2 DEF Control, LoopPcs
<1>9. ReviewsEarned' BY <1>1, <1>2, <1>4, <1>5 DEF ParkPart, ReviewsEarned
<1> QED BY <1>1, <1>5, <1>6, <1>7, <1>8, <1>9, ApartKeeps DEF ParkPart

\* The next subsystem is one that still has reviews to earn.
LEMMA SelectKeeps ==
  ASSUME CronInv, SelectSubsystem
  PROVE  ParkPart'
<1> DEFINE i == selectNextSubsystem(park.state)
           st == [park.state EXCEPT !.cur = i]
<1>1. /\ ParkPart /\ pc = "select" /\ pc' = "review" /\ park.state \in ParkStates
      /\ Reviewable(park.state) # {} /\ park.it < MaxPasses
      /\ park' = [it |-> park.it + 1, state |-> st] /\ UNCHANGED <<loop, cmd, disk, truth>>
  BY SubIsOne DEF CronInv, ParkPart, SelectSubsystem
<1>2. pc \in ParkPcs /\ pc \notin FixPcs /\ pc' \in ParkPcs /\ pc' \notin FixPcs /\ pc' \notin LoopPcs
  BY <1>1 DEF ParkPcs, FixPcs, LoopPcs
<1>3. st \in ParkStates /\ i \in Reviewable(park.state) BY <1>1, RotationKeeps
<1>4. park.state.clean[subsystems[i]] < 2 /\ park.state.stall[subsystems[i]] < StallLimit
  BY <1>3 DEF Reviewable
<1> HIDE DEF i
<1>5. st.cur = i /\ st.clean = park.state.clean /\ st.stall = park.state.stall BY <1>1 DEF ParkStates
<1> HIDE DEF st
<1>6. park.it + 1 \in 0 .. MaxPasses
  <2>1. park.it \in 0 .. MaxPasses BY <1>1 DEF ParkPart, ParkTyped
  <2> QED BY <1>1, <2>1, Limits
<1>7. ParkTyped' /\ park'.state = st BY <1>1, <1>3, <1>6 DEF ParkTyped
<1>8. Sub' = subsystems[i] BY <1>5, <1>7 DEF Sub, subsystems
<1>9. cmd.c = "anatomy" BY <1>1, <1>2 DEF ParkPart, Control
<1>10. Apart BY <1>1, <1>2, <1>9 DEF Apart, ParkPart, TruthTyped
<1>11. DiskTyped' BY <1>1 DEF ParkPart, DiskTyped
<1>12. Control' BY <1>1, <1>2, <1>4, <1>5, <1>7, <1>8, <1>9 DEF Control
<1>13. ReviewsEarned' BY <1>1, <1>2, <1>5, <1>7 DEF ParkPart, ReviewsEarned
<1> QED BY <1>1, <1>7, <1>10, <1>11, <1>12, <1>13, ApartKeeps DEF ParkPart

\* A fix that is committed clears the stall of its subsystem.
LEMMA CommitFixKeeps ==
  ASSUME CronInv, CommitFix
  PROVE  ParkPart'
<1> DEFINE stall == [park.state.stall EXCEPT ![Sub] = 0]
           st == [park.state EXCEPT !.stall = stall]
<1>1. /\ ParkPart /\ pc \in FixPcs /\ pc' \in FixPcs /\ cmd.c = "anatomy" /\ UNCHANGED <<loop, cmd, disk, truth>>
  BY DEF CronInv, ParkPart, CommitFix, Control, FixPcs, ParkPcs
<1>2. /\ Sub \in Subsystems /\ park.state \in ParkStates /\ park.state.stall \in [Subsystems -> 0 .. StallLimit]
      /\ park \in [it : 0 .. MaxPasses, state : ParkStates]
  BY <1>1, SubIsOne DEF ParkPart, ParkTyped, ParkStates
<1>3. park' = [park EXCEPT !.state = st] BY <1>2 DEF CommitFix, ParkStates
<1>4. stall \in [Subsystems -> 0 .. StallLimit] /\ stall[Sub] < StallLimit BY <1>2, Limits
<1> HIDE DEF stall
<1>5. st \in ParkStates /\ st.stall = stall /\ st.clean = park.state.clean /\ st.cur = park.state.cur
  BY <1>2, <1>4 DEF ParkStates
<1> HIDE DEF st
<1>6. ParkTyped' /\ park'.state = st BY <1>2, <1>3, <1>5 DEF ParkTyped
<1> QED BY <1>1, <1>4, <1>5, <1>6, RepairGoesOn

\* Every step of anatomy keeps its part.
LEMMA ParkStepKeeps ==
  ASSUME CronInv, ParkStep
  PROVE  ParkPart'
<1>1. /\ ParkPart /\ Sub \in Subsystems /\ park.state \in ParkStates /\ truth \in Truths
      /\ pc \in ParkPcs => cmd.c = "anatomy"
  BY SubIsOne DEF CronInv, ParkPart, TruthTyped, Control
<1>2. CASE RefuseAnatomy
  <2>1. /\ pc = "start" /\ pc' = "exit" /\ park' = NoPark /\ cmd.c = "anatomy"
        /\ UNCHANGED <<loop, cmd, disk, truth>>
    BY <1>2 DEF RefuseAnatomy, ParkFails
  <2> QED BY <1>1, <2>1, ParkLeaves DEF FixPcs
<1>3. CASE StartAnatomy BY <1>3, StartKeeps
<1>4. CASE DryRun \/ Verdict
  <2>1. /\ pc \in {"dry", "select"} /\ pc' = "exit" /\ park' = NoPark /\ Writes(park.state)
        /\ UNCHANGED <<loop, cmd, truth>>
    BY <1>4 DEF DryRun, Verdict
  <2>2. pc \in ParkPcs BY <2>1 DEF ParkPcs
  <2>3. \A s \in Subsystems \ truth.lapsed : park.state.clean[s] <= truth.streak[s]
    BY <1>1, <2>2 DEF ParkPart, ReviewsEarned
  <2> QED BY <1>1, <2>1, <2>2, <2>3, ParkWrites
<1>5. CASE SelectSubsystem BY <1>5, SelectKeeps
<1>6. CASE AgentFails
  <2> DEFINE lapsed == IF pc \in {"fix", "verify"} THEN truth.lapsed \cup {Sub} ELSE truth.lapsed
  <2>1. /\ pc \in {"dry", "review", "fix", "verify"} /\ pc' = "exit" /\ park' = NoPark
        /\ UNCHANGED <<loop, cmd, disk>> /\ truth' = [truth EXCEPT !.lapsed = lapsed]
    BY <1>1, <1>6 DEF AgentFails, ParkFails, Truths
  <2>2. lapsed \in SUBSET Subsystems /\ truth.lapsed \subseteq lapsed /\ (pc \in FixPcs => Sub \in lapsed)
    BY <1>1, <2>1 DEF Truths, FixPcs
  <2>3. pc \in ParkPcs BY <2>1 DEF ParkPcs, FixPcs
  <2> HIDE DEF lapsed
  <2>4. /\ truth' \in Truths /\ truth'.last = truth.last /\ truth'.torn = truth.torn
        /\ truth'.streak = truth.streak /\ truth'.lapsed = lapsed
    BY <1>1, <2>1, <2>2 DEF Truths
  <2> QED BY <1>1, <2>1, <2>2, <2>3, <2>4, ParkLeaves
<1>7. CASE CleanReview BY <1>7, CleanReviewKeeps
<1>8. CASE ReviewWithFindings BY <1>8, FindingsKeep
<1>9. CASE FixFails \/ OutOfScope \/ VerifyFails \/ RecordIteration
  <2>1. pc \in FixPcs /\ (GiveUp \/ RecordIteration)
    BY <1>9 DEF FixFails, OutOfScope, VerifyFails, RecordIteration, FixPcs
  <2> QED BY <2>1, RepairEnds
<1>10. CASE FixApplied \/ StageFix \/ VerifyPasses \/ CatalogTrapDoors
  <2>1. /\ UNCHANGED <<loop, cmd, disk, truth, park>> /\ pc \in FixPcs /\ pc' \in FixPcs
    BY <1>10 DEF FixApplied, StageFix, VerifyPasses, CatalogTrapDoors, FixPcs
  <2>2. ParkTyped' BY <1>1, <2>1 DEF ParkPart, ParkTyped
  <2>3. park.state.stall[Sub] < StallLimit BY <1>1, <2>1 DEF ParkPart, Control
  <2> QED BY <1>1, <2>1, <2>2, <2>3, RepairGoesOn DEF ParkPcs
<1>11. CASE CommitFix BY <1>11, CommitFixKeeps
<1> QED BY <1>2, <1>3, <1>4, <1>5, <1>6, <1>7, <1>8, <1>9, <1>10, <1>11 DEF ParkStep

-----------------------------------------------------------------------------
(* The chain, and the invariant.                                           *)

\* A step of the loop is none of anatomy's.
LEMMA LoopSparesPark ==
  ASSUME CronInv, LoopStep
  PROVE  ParkTyped' /\ ReviewsEarned'
<1>1. /\ UNCHANGED <<park>> /\ pc \in {"start"} \cup LoopPcs /\ pc' \in {"exit"} \cup LoopPcs
  BY DEF LoopStep, RefuseLoop, ResumeLoop, LoopGuard, MeasureBaseline, WorkerExits, Deadline, Measure,
     CommitImprovement, ImprovementWithoutCommit, Regress, Stall, RollBack, Attrition, Classify, Persist,
     Exits, Ends, LoopPcs
<1>2. pc \notin FixPcs /\ pc' \notin ParkPcs /\ pc' \notin FixPcs BY <1>1 DEF LoopPcs, ParkPcs, FixPcs
<1>3. truth'.streak = truth.streak /\ truth'.lapsed = truth.lapsed
  <2>1. truth \in Truths BY DEF CronInv, TruthTyped
  <2>2. \/ truth' = truth \/ (\E s : truth' = [truth EXCEPT !.last[cmd.c] = s, !.torn = @ \ {cmd.c}])
        \/ truth' = [truth EXCEPT !.last[cmd.c] = loop.score]
    BY DEF LoopStep, RefuseLoop, ResumeLoop, LoopGuard, MeasureBaseline, WorkerExits, Deadline, Measure,
       CommitImprovement, ImprovementWithoutCommit, Regress, Stall, Attrition, Classify, Persist
  <2> QED BY <2>1, <2>2 DEF Truths
<1>4. disk'["anatomy"] = disk["anatomy"]
  <2>1. disk' = disk \/ (pc = "persist" /\ disk' = [disk EXCEPT ![cmd.c] = loop.acc])
    BY DEF LoopStep, RefuseLoop, ResumeLoop, LoopGuard, MeasureBaseline, WorkerExits, Deadline, Measure,
       CommitImprovement, ImprovementWithoutCommit, Regress, Stall, Attrition, Classify, Persist, Saved
  <2>2. pc = "persist" => cmd.c # "anatomy" BY DEF CronInv, Control, LoopPcs, Kinds
  <2>3. "anatomy" \in DOMAIN disk BY DEF CronInv, DiskTyped
  <2> QED BY <2>1, <2>2, <2>3
<1>5. ParkTyped' BY <1>1 DEF CronInv, ParkTyped
<1>6. ReviewsEarned' BY <1>2, <1>3, <1>4 DEF CronInv, ReviewsEarned
<1> QED BY <1>5, <1>6

\* Between commands: nothing but the command and where it is may change.
LEMMA ChainKeeps ==
  ASSUME CronInv, UNCHANGED <<loop, park, disk, truth>>,
         \/ pc' = pc /\ cmd' = cmd
         \/ pc \in {"idle", "start", "exit"} /\ pc' \in {"idle", "start", "exit"}
  PROVE  ParkPart'
<1>1. LoopTyped' /\ ParkTyped' /\ TruthTyped' /\ DiskTyped'
  BY DEF CronInv, LoopTyped, ParkTyped, TruthTyped, DiskTyped
<1>2. Sub' = Sub BY DEF Sub
<1>3. CASE pc' = pc /\ cmd' = cmd
  <2>1. Control' BY <1>2, <1>3 DEF CronInv, Control
  <2>2. SeriesEarned' BY <1>3 DEF CronInv, SeriesEarned, Better
  <2>3. ReviewsEarned' BY <1>2, <1>3 DEF CronInv, ReviewsEarned
  <2> QED BY <1>1, <2>1, <2>2, <2>3 DEF ParkPart
<1>4. CASE pc \in {"idle", "start", "exit"} /\ pc' \in {"idle", "start", "exit"}
  <2>1. pc \notin LoopPcs \cup ParkPcs \cup FixPcs /\ pc' \notin LoopPcs \cup ParkPcs \cup FixPcs
    BY <1>4 DEF LoopPcs, ParkPcs, FixPcs
  <2>2. Control' BY <1>4, <2>1 DEF Control
  <2>3. SeriesEarned' BY <2>1 DEF CronInv, SeriesEarned
  <2>4. ReviewsEarned' BY <2>1 DEF CronInv, ReviewsEarned
  <2> QED BY <1>1, <2>2, <2>3, <2>4 DEF ParkPart
<1> QED BY <1>3, <1>4

\* A crash tears the series or the review it interrupts, and nothing else.
LEMMA CrashKeeps ==
  ASSUME CronInv, Crash
  PROVE  ParkPart'
<1>1. /\ pc \notin {"idle", "exit"} /\ pc' = "exit" /\ loop' = NoLoop /\ park' = NoPark
      /\ UNCHANGED <<cmd, disk>> /\ cmd.c \in Kinds \cup {"anatomy"}
      /\ truth' = IF cmd.c \in Kinds THEN [truth EXCEPT !.torn = @ \cup {cmd.c}]
                  ELSE IF pc \in FixPcs THEN [truth EXCEPT !.lapsed = @ \cup {Sub}] ELSE truth
  BY DEF Crash, FixPcs
<1>2. pc' \notin LoopPcs \cup ParkPcs \cup FixPcs BY <1>1 DEF LoopPcs, ParkPcs, FixPcs
<1>3. truth \in Truths /\ Sub \in Subsystems BY SubIsOne DEF CronInv, TruthTyped
<1>4. /\ truth' \in Truths /\ truth'.last = truth.last /\ truth'.streak = truth.streak
      /\ truth.torn \subseteq truth'.torn /\ truth.lapsed \subseteq truth'.lapsed
      /\ cmd.c \in Kinds => cmd.c \in truth'.torn
      /\ cmd.c \notin Kinds /\ pc \in FixPcs => Sub \in truth'.lapsed
  <2>1. CASE cmd.c \in Kinds
    <3> DEFINE torn == truth.torn \cup {cmd.c}
    <3>1. torn \in SUBSET Kinds /\ truth' = [truth EXCEPT !.torn = torn] BY <1>1, <1>3, <2>1 DEF Truths
    <3>2. truth.torn \subseteq torn /\ cmd.c \in torn OBVIOUS
    <3> HIDE DEF torn
    <3> QED BY <1>3, <2>1, <3>1, <3>2 DEF Truths
  <2>2. CASE cmd.c \notin Kinds /\ pc \in FixPcs
    <3> DEFINE lapsed == truth.lapsed \cup {Sub}
    <3>1. lapsed \in SUBSET Subsystems /\ truth' = [truth EXCEPT !.lapsed = lapsed]
      BY <1>1, <1>3, <2>2 DEF Truths
    <3>2. truth.lapsed \subseteq lapsed /\ Sub \in lapsed OBVIOUS
    <3> HIDE DEF lapsed
    <3> QED BY <1>3, <2>2, <3>1, <3>2 DEF Truths
  <2>3. CASE cmd.c \notin Kinds /\ pc \notin FixPcs BY <1>1, <1>3, <2>3
  <2> QED BY <2>1, <2>2, <2>3
<1>5. LoopTyped' /\ ParkTyped' /\ TruthTyped' /\ DiskTyped'
  BY <1>1, <1>4, InitLoop, InitPark DEF CronInv, LoopTyped, ParkTyped, TruthTyped, DiskTyped
<1>6. Control' BY <1>1, <1>2 DEF Control
<1>7. pc \in LoopPcs => cmd.c \in truth'.torn BY <1>4 DEF CronInv, Control
<1>8. SeriesEarned' BY <1>1, <1>2, <1>4, <1>7, SeriesRests DEF CronInv
<1>9. pc \in FixPcs => Sub \in truth'.lapsed
  BY <1>4 DEF CronInv, Control, ParkPcs, Kinds
<1>10. ReviewsEarned' BY <1>1, <1>2, <1>4, <1>9 DEF CronInv, ReviewsEarned
<1> QED BY <1>5, <1>6, <1>8, <1>10 DEF ParkPart

\* Every step keeps the series and the reviews.
LEMMA PartsStep ==
  ASSUME CronInv, [Next]_vars
  PROVE  ParkPart'
<1>1. CASE LoopStep BY <1>1, LoopStepKeeps, LoopSparesPark DEF LoopPart, ParkPart
<1>2. CASE ParkStep BY <1>2, ParkStepKeeps
<1>3. CASE Crash BY <1>3, CrashKeeps
<1>4. CASE \/ StartChain \/ RunChild \/ ChildExits \/ OtherChild \/ AgentWrites \/ StrayWrites
           \/ AgentUsesGit \/ StrayUsesGit
           \/ UNCHANGED vars
  <2>1. UNCHANGED <<loop, park, disk, truth>>
    BY <1>4 DEF StartChain, RunChild, ChildExits, OtherChild, AgentWrites, StrayWrites, AgentUsesGit, StrayUsesGit, UseGit, Write,
       vars, machine
  <2>2. \/ pc' = pc /\ cmd' = cmd
        \/ pc \in {"idle", "start", "exit"} /\ pc' \in {"idle", "start", "exit"}
    BY <1>4 DEF StartChain, RunChild, ChildExits, OtherChild, AgentWrites, StrayWrites, AgentUsesGit, StrayUsesGit, UseGit, Write,
       vars, machine
  <2> QED BY <2>1, <2>2, ChainKeeps
<1> QED BY <1>1, <1>2, <1>3, <1>4 DEF Next

\* The counters stay in their bounds, and the command somewhere in its code.
LEMMA CountersStep ==
  ASSUME CronInv, [Next]_vars
  PROVE  Counters'
<1>1. Counters BY DEF CronInv
<1>2. strays' \in BOOLEAN
  <2>1. strays' = strays \/ strays' = TRUE \/ strays' = (strays \/ AgentRuns)
    <3>1. CASE LoopStep
      BY <3>1 DEF LoopStep, RefuseLoop, ResumeLoop, LoopGuard, MeasureBaseline, WorkerExits, Deadline, Measure,
         CommitImprovement, ImprovementWithoutCommit, Regress, Stall, Attrition, Classify, Persist, env
    <3>2. CASE ParkStep
      BY <3>2 DEF ParkStep, RefuseAnatomy, StartAnatomy, DryRun, Verdict, SelectSubsystem, AgentFails,
         CleanReview, ReviewWithFindings, FixFails, FixApplied, OutOfScope, StageFix, VerifyFails, VerifyPasses,
         CommitFix, CatalogTrapDoors, RecordIteration, GiveUp, env
    <3>3. CASE \/ StartChain \/ RunChild \/ ChildExits \/ OtherChild \/ AgentWrites \/ StrayWrites
               \/ AgentUsesGit \/ StrayUsesGit \/ Crash \/ UNCHANGED vars
      BY <3>3 DEF StartChain, RunChild, ChildExits, OtherChild, AgentWrites, StrayWrites, AgentUsesGit, StrayUsesGit, UseGit, Crash,
         Write, vars, machine, env
    <3> QED BY <3>1, <3>2, <3>3 DEF Next
  <2>2. strays = TRUE \/ strays = FALSE BY <1>1 DEF Counters
  <2>3. (strays \/ AgentRuns) \in BOOLEAN OBVIOUS
  <2> QED BY <2>1, <2>2, <2>3, Zenon
<1>3. exit' \in {0, 1} /\ pc' \in {"idle", "start", "exit"} \cup LoopPcs \cup ParkPcs
  <2>1. CASE LoopStep
    BY <1>1, <2>1 DEF LoopStep, RefuseLoop, ResumeLoop, LoopGuard, MeasureBaseline, WorkerExits, Deadline,
       Measure, CommitImprovement, ImprovementWithoutCommit, Regress, Stall, RollBack, Attrition, Classify,
       Persist, Exits, ExitCode, Ends, LoopPcs, Counters
  <2>2. CASE ParkStep
    BY <1>1, <2>2 DEF ParkStep, RefuseAnatomy, StartAnatomy, DryRun, Verdict, SelectSubsystem, AgentFails,
       CleanReview, ReviewWithFindings, FixFails, FixApplied, OutOfScope, StageFix, VerifyFails, VerifyPasses,
       CommitFix, CatalogTrapDoors, RecordIteration, GiveUp, RecordPass, ParkFails, ParkPcs, FixPcs, Counters
  <2>3. CASE \/ StartChain \/ RunChild \/ ChildExits \/ OtherChild \/ AgentWrites \/ StrayWrites
             \/ AgentUsesGit \/ StrayUsesGit \/ Crash \/ UNCHANGED vars
    BY <1>1, <2>3 DEF StartChain, RunChild, ChildExits, OtherChild, AgentWrites, StrayWrites, AgentUsesGit,
       StrayUsesGit, UseGit, Crash, Write, vars, machine, Counters
  <2> QED BY <2>1, <2>2, <2>3 DEF Next
<1>4. crashes' = crashes \/ (crashes < MaxCrashes /\ crashes' = crashes + 1)
  BY DEF Next, LoopStep, RefuseLoop, ResumeLoop, LoopGuard, MeasureBaseline, WorkerExits, Deadline, Measure,
     CommitImprovement, ImprovementWithoutCommit, Regress, Stall, Attrition, Classify, Persist,
     ParkStep, RefuseAnatomy, StartAnatomy, DryRun, Verdict, SelectSubsystem, AgentFails, CleanReview,
     ReviewWithFindings, FixFails, FixApplied, OutOfScope, StageFix, VerifyFails, VerifyPasses, CommitFix,
     CatalogTrapDoors, RecordIteration, GiveUp, StartChain, RunChild, ChildExits, OtherChild, AgentWrites,
     StrayWrites, AgentUsesGit, StrayUsesGit, UseGit, Crash, Write, vars, machine
<1>5. chains' = chains \/ (chains < MaxChains /\ chains' = chains + 1)
  BY DEF Next, StartChain, RunChild, ChildExits, OtherChild, AgentWrites, StrayWrites, AgentUsesGit, StrayUsesGit, UseGit, Crash,
     Write, vars
<1>6. crashes' \in 0 .. MaxCrashes BY <1>1, <1>4, LoopAssumption DEF Counters
<1>7. chains' \in 0 .. MaxChains BY <1>1, <1>5, ChainAssumption DEF Counters
<1> QED BY <1>2, <1>3, <1>6, <1>7 DEF Counters

\* Nothing has run, and the user may have uncommitted work.
LEMMA CronInit == Init => CronInv
<1> SUFFICES ASSUME Init PROVE CronInv OBVIOUS
<1>1. /\ made = 0 /\ pc = "idle" /\ exit = 0 /\ loop = NoLoop /\ park = NoPark
      /\ disk = [c \in Kinds \cup {"anatomy"} |-> <<>>] /\ rejected = {}
      /\ truth = [last |-> [c \in Kinds |-> Unreadable], streak |-> initState.clean,
                  torn |-> {}, lapsed |-> {}]
      /\ crashes = 0 /\ chains = 0
  BY DEF Init
<1>2. strays \in BOOLEAN BY DEF Init
<1>3. LoopTyped /\ ParkTyped BY <1>1, InitLoop, InitPark DEF LoopTyped, ParkTyped
<1>4. TruthTyped
  <2>1. initState.clean \in [Subsystems -> 0 .. 2] BY InitPark DEF ParkStates
  <2>2. [c \in Kinds |-> Unreadable] \in [Kinds -> Int] BY DEF Unreadable
  <2> QED BY <1>1, <2>1, <2>2 DEF TruthTyped, Truths
<1>5. DiskTyped /\ \A c \in Kinds \cup {"anatomy"} : disk[c] = <<>> BY <1>1 DEF DiskTyped
<1>6. pc \notin LoopPcs \cup ParkPcs \cup FixPcs BY <1>1 DEF LoopPcs, ParkPcs, FixPcs
<1>7. Counters
  <2>1. 0 \in 0 .. MaxCrashes /\ 0 \in 0 .. MaxChains BY LoopAssumption, ChainAssumption
  <2> QED BY <1>1, <1>2, <2>1 DEF Counters
<1>8. Control BY <1>1, <1>6 DEF Control
<1>9. SeriesEarned /\ ReviewsEarned BY <1>5, <1>6 DEF SeriesEarned, ReviewsEarned
<1>10. TreesInv
  <2>1. PICK p \in UserPaths :
          LET e == [id |-> 0, at |-> p, by |-> "user"]
          IN  repo \in {[wt |-> {}, ix |-> {}, hd |-> {}], [wt |-> {e}, ix |-> {}, hd |-> {}],
                        [wt |-> {e}, ix |-> {e}, hd |-> {}]}
    BY DEF Init
  <2> DEFINE e == [id |-> 0, at |-> p, by |-> "user"]
  <2>2. e \in Edits /\ e.id = 0
    <3>1. 0 \in 0 .. MaxEdits BY EditAssumption
    <3>2. p \in Paths BY ChainAssumption
    <3> QED BY <3>1, <3>2 DEF Edits, Makers
  <2>3. repo \in {[wt |-> {}, ix |-> {}, hd |-> {}], [wt |-> {e}, ix |-> {}, hd |-> {}],
                  [wt |-> {e}, ix |-> {e}, hd |-> {}]}
    BY <2>1
  <2> HIDE DEF e
  <2>4. Nested(repo) /\ repo.wt \subseteq {e} BY <2>2, <2>3 DEF Nested, Repos
  <2>5. WorkIsSeen /\ StagedIsHeld BY <1>1 DEF WorkIsSeen, StagedIsHeld
  <2>6. RejectedIsOut BY <1>1, <2>2, <2>4 DEF RejectedIsOut
  <2>7. made \in 0 .. MaxEdits BY <1>1, EditAssumption
  <2> QED BY <1>1, <2>4, <2>5, <2>6, <2>7 DEF TreesInv
<1> QED BY <1>3, <1>4, <1>5, <1>7, <1>8, <1>9, <1>10 DEF CronInv

\* The invariant holds of every command, in a chain or on its own.
LEMMA CronAlways == Spec => []CronInv
<1>1. Init => CronInv BY CronInit
<1>2. CronInv /\ [Next]_vars => CronInv'
  BY TreesStep, PartsStep, CountersStep DEF CronInv, ParkPart
<1> QED BY <1>1, <1>2, PTL DEF Spec

-----------------------------------------------------------------------------
(* The theorems.                                                           *)

\* The breaker and the iteration caps of MicroverseLoop.run and anatomy hold
\* for any limits: no worker is spawned past the cap or with Threshold equal
\* errors, and no count of clean or stalled reviews leaves its range.
THEOREM CronenbergTypes == Spec => []CronenbergTypeOK
<1>1. CronInv => CronenbergTypeOK
  <2> SUFFICES ASSUME CronInv PROVE CronenbergTypeOK OBVIOUS
  <2>1. repo \in Repos /\ made \in 0 .. MaxEdits BY DEF CronInv, TreesInv, Nested
  <2>2. strays \in BOOLEAN BY DEF CronInv, Counters
  <2>3. /\ exit \in {0, 1} /\ crashes \in 0 .. MaxCrashes /\ chains \in 0 .. MaxChains
        /\ pc \in {"idle", "start", "exit"} \cup LoopPcs \cup ParkPcs
    BY DEF CronInv, Counters
  <2>4. pc \in {"idle", "start", "exit", "guard", "worker", "measure", "decide", "classify",
                "persist", "dry", "select", "review", "fix", "preflight", "verify", "commit",
                "catalog", "record"}
    BY <2>3 DEF LoopPcs, ParkPcs, FixPcs
  <2>5. /\ loop.it \in 0 .. MaxIterations /\ loop.stall \in 0 .. StallLimit - 1
        /\ loop.errors \in [Signatures -> 0 .. Threshold]
    BY DEF CronInv, LoopTyped, Loops
  <2>6. pc = "worker" => \A s \in Signatures : loop.errors[s] < Threshold BY DEF CronInv, Control
  <2>7. /\ park.state.clean \in [Subsystems -> 0 .. 2] /\ park.state.stall \in [Subsystems -> 0 .. StallLimit]
        /\ park.state.cur \in 1 .. Len(Order) /\ park.it \in 0 .. MaxPasses
    BY OrderAssumption DEF CronInv, ParkTyped, ParkStates
  <2> QED BY <2>1, <2>2, <2>3, <2>4, <2>5, <2>6, <2>7 DEF CronenbergTypeOK
<1> QED BY <1>1, CronAlways, PTL

\* Unless a crash tore its series, a loop continues from the score whose tree
\* is committed, accepts only better ones, and anatomy calls no subsystem
\* clean that did not earn it: across runs, --resume and the state files.
THEOREM VerdictEarned == Spec => []VerdictIsEarned
<1>1. CronInv => VerdictIsEarned
  BY DEF CronInv, SeriesEarned, ReviewsEarned, VerdictIsEarned, LoopPcs, ParkPcs
<1> QED BY <1>1, CronAlways, PTL

\* Agents may stage, unstage and commit whatever they like: what commitInScope,
\* anatomy's gitCommit or the trap-door catalogue commits was in the tree the
\* judge saw, or was written by a process that outlived its agent, and is in
\* the command's scope or was put into the index by somebody else.
THEOREM CommitsJudged == Spec => CommitsAreJudged
<1>1. CronInv /\ [Next]_vars => [JudgedStep]_vars BY HeadStep
<1>2. Spec => [][JudgedStep]_vars BY <1>1, CronAlways, PTL DEF Spec
<1> QED BY <1>2 DEF JudgedStep, CommitsAreJudged

\* Work that rollbackScoped or gitRestoreScoped threw away never reaches HEAD
\* again, by this command, a later one or an agent's own commit, unless it was
\* in the index, which only anatomy resets.
THEOREM RejectedOut == Spec => RejectedStaysOut
<1>1. CronInv /\ [Next]_vars => [RejectedStep]_vars BY HeadStep
<1>2. Spec => [][RejectedStep]_vars BY <1>1, CronAlways, PTL DEF Spec
<1> QED BY <1>2 DEF RejectedStep, RejectedStaysOut

=============================================================================
