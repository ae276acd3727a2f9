------------------------- MODULE ConcurrentDesign_proofs -------------------------
(***************************************************************************)
(* Theorems about ConcurrentDesign for every set of clients, every bound   *)
(* and every set of operations.                                            *)
(*                                                                         *)
(* A request writes back the columns it changed of a row it read earlier,  *)
(* so no call can be described by the row it finds at its commit alone.    *)
(* Moves(op, v, r, w) says what a call that worked on view v may have done *)
(* to the row of r, whatever that row holds: which columns only grow, and  *)
(* how status and decision change together.  It carries over to the row    *)
(* the commit writes because the columns that must not go back (versions,  *)
(* comment events, the review issue) are never the ones read early.  That  *)
(* the status tells a decision needs a story with a project besides: its   *)
(* runs are asked about once, so no two decisions share one status.        *)
(***************************************************************************)
EXTENDS ConcurrentDesign, TestDesignRun_proofs

(* The current version is the newest one, and the first was never left out. *)
Ladder(run) ==
    /\ \A n \in Designs : run.vers[n] # 0 => n <= run.current
    /\ (\E n \in Designs : run.vers[n] # 0) => run.vers[1] # 0

(* With a project, a run asks for one approval, after its review issue row. *)
AskedOnce(run) ==
    HasProject =>
        /\ run.review = "none" => \A k \in Designs : run.appr[k] = "none"
        /\ \A k, j \in Designs : run.appr[k] # "none" /\ run.appr[j] # "none" => k = j

OrderedRow(run) ==
    /\ run.mode = "none" => run = AbsentRun
    /\ Ladder(run) /\ AskedOnce(run) /\ (HasProject => Told(run))

Keyed(cs) == \A i \in CaseIndex : cs[i].run = 0 => cs[i] = AbsentCase

(* The columns of a row that only grow. *)
Grows(old, new) ==
    /\ old.mode # "none" => new.mode = old.mode
    /\ old.review # "none" => new.review # "none"
    /\ \A k \in Designs : old.appr[k] # "none" => new.appr[k] # "none"
    /\ \A n \in Designs : old.vers[n] # 0 => new.vers[n] = old.vers[n]
    /\ \A k \in Comments : old.events[k] # "none" => new.events[k] = old.events[k]

(* What a call leaves of the row it works on. *)
Follows(old, new) ==
    /\ new \in RunRows
    /\ new.mode = old.mode
    /\ Grows(old, new)
    /\ Ladder(old) => Ladder(new)

(* The calls that write the status whether they changed it or not. *)
Flushing == {"analyze", "generate", "graph"}

(* Approval d is asked for: before there is a review issue row, and with one for
   a story with a project. *)
Asks(old, new, d) ==
    /\ old.review = "none" /\ (HasProject => new.review # "none")
    /\ new.appr[d] = "pending" /\ \A j \in Designs \ {d} : new.appr[j] = old.appr[j]
    /\ new.status = "awaiting_approval"

StatusMoves(op, old, new) ==
    \/ op \notin Flushing /\ new.status = old.status /\ new.appr = old.appr
    \/ /\ op \in Flushing /\ new.appr = old.appr
       /\ new.status \notin {"completed", "rejected", "awaiting_approval"}
    \/ op \in Flushing /\ \E d \in Designs : Asks(old, new, d)
    \/ /\ op \notin Flushing
       /\ \E k \in Designs, how \in Decided, status \in RunStatus :
             DecidedAs(old, new, k, how, status)

CaseMoves(old, new) ==
    \A i \in CaseIndex :
        /\ old[i].run # 0 => new[i].run = old[i].run /\ new[i].design = old[i].design
        /\ old[i].pub = "published" => new[i].pub = "published"
        /\ old[i].session => new[i].session

Moves(op, v, r, w) ==
    /\ w \in Views /\ Keyed(w.cases)
    /\ Follows(v.runs[r], w.runs[r])
    /\ StatusMoves(op, v.runs[r], w.runs[r])
    /\ CaseMoves(v.cases, w.cases)

-----------------------------------------------------------------------------
(* Rows. *)

LEMMA FollowsTrans ==
    ASSUME NEW old, NEW mid, NEW new, Follows(old, mid), Follows(mid, new)
    PROVE  Follows(old, new)
<1>1. \A n \in Designs : old.vers[n] # 0 => new.vers[n] = old.vers[n]
  BY DEF Follows, Grows
<1>2. \A k \in Comments : old.events[k] # "none" => new.events[k] = old.events[k]
  BY DEF Follows, Grows
<1>3. \A k \in Designs : old.appr[k] # "none" => new.appr[k] # "none"
  BY DEF Follows, Grows
<1> QED BY <1>1, <1>2, <1>3 DEF Follows, Grows

(* A row whose versions, events and review issue are as they were. *)
LEMMA EditFollows ==
    ASSUME NEW old, NEW new \in RunRows, new.mode = old.mode, new.vers = old.vers,
           new.current = old.current, new.events = old.events, new.review = old.review,
           \A k \in Designs : old.appr[k] # "none" => new.appr[k] # "none"
    PROVE  Follows(old, new)
BY DEF Follows, Grows, Ladder

LEMMA DraftedFollows ==
    ASSUME NEW run \in RunRows, NEW d \in Designs, run.review = "none",
           NEW review \in {Refused(run)} \cup When(HasProject, {"published"})
    PROVE  LET new == Drafted(run, d, review)
           IN  /\ Follows(run, new) /\ new.review = review
               /\ new.status = run.status /\ new.appr = run.appr
<1> DEFINE new == Drafted(run, d, review)
           vs == [run.vers EXCEPT ![1] = IF @ = 0 THEN d ELSE @]
           cur == IF run.vers[1] = 0 THEN 1 ELSE run.current
<1>1. 1 \in Designs /\ 1 \in 0..MaxDesigns /\ d \in 0..MaxDesigns /\ d # 0
  BY DesignBounds DEF Designs
<1>2. run.vers \in VersionRows /\ run.current \in 0..MaxDesigns
  BY DEF RunRows
<1>3. vs \in VersionRows /\ cur \in 0..MaxDesigns
  BY <1>1, <1>2 DEF VersionRows
<1>4. /\ \A n \in Designs : run.vers[n] # 0 => vs[n] = run.vers[n]
      /\ \A n \in Designs : n # 1 => vs[n] = run.vers[n]
      /\ vs[1] # 0
  BY <1>1, <1>2 DEF VersionRows
<1>5. new = [run EXCEPT !.vers = vs, !.current = cur, !.design = d, !.review = review]
  BY DEF Drafted, RunRows
<1> HIDE DEF new, vs
<1>6. /\ new \in RunRows /\ new.vers = vs /\ new.current = cur /\ new.review = review
      /\ new.mode = run.mode /\ new.events = run.events
      /\ new.status = run.status /\ new.appr = run.appr
  <2>1. review \in ReviewState
    BY DEF Refused, When, ReviewState
  <2> QED BY <1>1, <1>3, <1>5, <2>1 DEF RunRows
<1>7. Ladder(run) => Ladder(new)
  <2> SUFFICES ASSUME Ladder(run), NEW n \in Designs, vs[n] # 0 PROVE n <= cur
    BY <1>4, <1>6 DEF Ladder
  <2>1. CASE run.vers[1] = 0
    <3>1. \A m \in Designs : run.vers[m] = 0
      BY <2>1 DEF Ladder
    <3>2. n = 1
      BY <1>4, <3>1
    <3> QED BY <2>1, <3>2
  <2>2. CASE run.vers[1] # 0
    <3>1. run.vers[n] # 0
      BY <1>4, <2>2
    <3> QED BY <2>2, <3>1 DEF Ladder
  <2> QED BY <2>1, <2>2
<1> QED BY <1>4, <1>6, <1>7 DEF Follows, Grows, new

(* Submitted and the stage or status of the end of a call. *)
LEMMA SubmittedFollows ==
    ASSUME NEW run \in RunRows, NEW d \in Designs
    PROVE  LET new == Submitted(run, d)
           IN  /\ Follows(run, new) /\ new.review = run.review
               /\ new.status = "awaiting_approval" /\ new.appr[d] = "pending"
               /\ \A j \in Designs \ {d} : new.appr[j] = run.appr[j]
<1> DEFINE as == [run.appr EXCEPT ![d] = "pending"]
           ss == [run.subject EXCEPT ![d] = d]
           new == Submitted(run, d)
<1>1. d \in 0..MaxDesigns
  BY DesignBounds DEF Designs
<1>2. /\ as \in ApprovalRows /\ as[d] = "pending" /\ \A k \in Designs \ {d} : as[k] = run.appr[k]
      /\ ss \in SubjectRows
  BY <1>1 DEF RunRows, ApprovalRows, SubjectRows, Decisions
<1>3. new = [run EXCEPT !.status = "awaiting_approval", !.appr = as, !.subject = ss, !.asked = d]
  BY DEF Submitted, RunRows
<1> HIDE DEF as, ss, new
<1>4. /\ new \in RunRows /\ new.mode = run.mode /\ new.vers = run.vers
      /\ new.current = run.current /\ new.events = run.events /\ new.review = run.review
      /\ new.status = "awaiting_approval" /\ new.appr = as
  BY <1>1, <1>2, <1>3 DEF RunRows, RunStatus
<1>5. Follows(run, new)
  BY <1>2, <1>4, EditFollows
<1> QED BY <1>2, <1>4, <1>5 DEF new

LEMMA SupersededFollows ==
    ASSUME NEW run \in RunRows, NEW n \in NextVersions(run), NEW d \in Designs,
           NEW k \in Nat \ {0}, n + k - 1 \in Designs, d + k - 1 \in Designs, NEW a
    PROVE  LET new == Superseded(run, a, n, d, k)
           IN  /\ Follows(run, new)
               /\ new.status = "awaiting_approval" /\ new.appr = run.appr
<1>1. /\ n \in Designs /\ n \in Int /\ d \in Int /\ 0 < n /\ 0 < d
      /\ \A m \in Designs : m \in Int /\ (run.vers[m] # 0 => m < n)
      /\ n = 1 \/ run.vers[n - 1] # 0
  BY DesignBounds DEF NextVersions, Designs
<1> DEFINE vs == [m \in Designs |-> IF m \in n..(n + k - 1) THEN d + (m - n) ELSE run.vers[m]]
           ss == [run.subject EXCEPT ![a] = d + k - 1]
           new == Superseded(run, a, n, d, k)
<1>2. ASSUME NEW m \in Designs PROVE vs[m] \in 0..MaxDesigns
  <2>1. CASE m \in n..(n + k - 1)
    <3>1. d + (m - n) >= 1 /\ d + (m - n) <= d + k - 1 /\ d + (m - n) \in Int
      BY <1>1, <2>1
    <3>2. d + k - 1 <= MaxDesigns
      BY DesignBounds DEF Designs
    <3>3. d + (m - n) \in 0..MaxDesigns
      BY <1>1, <3>1, <3>2, DesignBounds
    <3> QED BY <2>1, <3>3
  <2>2. CASE m \notin n..(n + k - 1)
    BY <2>2 DEF RunRows, VersionRows
  <2> QED BY <2>1, <2>2
<1>3. vs \in VersionRows
  BY <1>2 DEF VersionRows
<1>4. \A m \in Designs : run.vers[m] # 0 => vs[m] = run.vers[m]
  BY <1>1
<1>5. \A m \in Designs : vs[m] # 0 => m <= n + k - 1
  BY <1>1
<1>6. ASSUME Ladder(run) PROVE vs[1] # 0
  <2>1. 1 \in Designs
    BY <1>1, DesignBounds DEF Designs
  <2>2. CASE n = 1
    <3>1. vs[1] = d + (1 - n)
      BY <1>1, <2>1, <2>2
    <3> QED BY <1>1, <2>2, <3>1
  <2>3. CASE n # 1
    <3>1. n - 1 \in Designs /\ run.vers[n - 1] # 0
      BY <1>1, <2>3, DesignBounds DEF Designs
    <3>2. run.vers[1] # 0
      BY <1>6, <3>1 DEF Ladder
    <3> QED BY <1>4, <2>1, <3>2
  <2> QED BY <2>2, <2>3
<1> HIDE DEF vs
<1>7. n + k - 1 \in 0..MaxDesigns /\ d + k - 1 \in 0..MaxDesigns
  BY DesignBounds DEF Designs
<1>8. /\ new \in RunRows /\ new.vers = vs /\ new.current = n + k - 1
      /\ new.status = "awaiting_approval" /\ new.appr = run.appr /\ new.review = run.review
      /\ new.mode = run.mode /\ new.events = run.events
  <2>1. ss \in SubjectRows
    BY <1>7 DEF RunRows, SubjectRows
  <2> DEFINE mid == [run EXCEPT !.vers = vs, !.subject = ss]
  <2>2. mid \in RunRows
    BY <1>3, <2>1 DEF RunRows
  <2>3. new = [mid EXCEPT !.current = n + k - 1, !.design = d + k - 1,
                          !.status = "awaiting_approval"]
    BY DEF Superseded, RunRows, vs
  <2>4. /\ new.vers = vs /\ new.current = n + k - 1 /\ new.status = "awaiting_approval"
        /\ new.appr = run.appr /\ new.review = run.review
        /\ new.mode = run.mode /\ new.events = run.events
    BY <2>3 DEF RunRows
  <2> HIDE DEF mid, new
  <2>5. ASSUME NEW c \in 0..MaxDesigns, NEW e \in 0..MaxDesigns
        PROVE  [mid EXCEPT !.current = c, !.design = e, !.status = "awaiting_approval"]
                   \in RunRows
    BY <2>2 DEF RunRows, RunStatus
  <2>6. new \in RunRows
    BY <1>7, <2>3, <2>5
  <2> QED BY <2>4, <2>6
<1> HIDE DEF new
<1>9. Follows(run, new)
  BY <1>4, <1>5, <1>6, <1>8 DEF Follows, Grows, Ladder
<1> QED BY <1>8, <1>9 DEF new

-----------------------------------------------------------------------------
(* Calls that write one row, and may add designs. *)

LEMMA SameCases ==
    ASSUME NEW cs
    PROVE  CaseMoves(cs, cs)
BY DEF CaseMoves

LEMMA RedoneMoves ==
    ASSUME NEW op, NEW v \in Views, Keyed(v.cases), NEW r \in Runs, NEW run,
           NEW sz \in Sizes, Follows(v.runs[r], run), StatusMoves(op, v.runs[r], run)
    PROVE  Moves(op, v, r, Redone(v, r, run, sz))
<1> DEFINE w == Redone(v, r, run, sz)
<1>1. run \in RunRows
  BY DEF Follows
<1>2. w \in Views /\ w.runs[r] = run /\ w.cases = v.cases
  BY <1>1 DEF Redone, Views
<1> HIDE DEF w
<1> QED BY <1>2, SameCases DEF Moves, w

LEMMA WithMoves ==
    ASSUME NEW op, NEW v \in Views, Keyed(v.cases), NEW r \in Runs, NEW run,
           Follows(v.runs[r], run), StatusMoves(op, v.runs[r], run)
    PROVE  Moves(op, v, r, With(v, r, run))
<1>1. v.sizes \in Sizes
  BY DEF Views
<1> QED BY <1>1, RedoneMoves, WithRedone

(* A call that leaves the decision and the tables other than its row alone. *)
LEMMA EditMoves ==
    ASSUME NEW op, NEW v \in Views, Keyed(v.cases), NEW r \in Runs, NEW run \in RunRows,
           run.mode = v.runs[r].mode, run.vers = v.runs[r].vers,
           run.current = v.runs[r].current, run.events = v.runs[r].events,
           run.review = v.runs[r].review, run.appr = v.runs[r].appr,
           StatusMoves(op, v.runs[r], run)
    PROVE  Moves(op, v, r, With(v, r, run))
<1>1. Follows(v.runs[r], run)
  BY EditFollows
<1> QED BY <1>1, WithMoves

LEMMA OneDesignTyped ==
    ASSUME NEW v \in Views, NEW d \in Fresh(v), NEW s \in CaseIndex
    PROVE  d \in Designs /\ [v.sizes EXCEPT ![d] = s] \in Sizes
<1>1. d \in Designs /\ s \in 0..MaxCases
  BY DesignBounds DEF Fresh, CaseIndex
<1> QED BY <1>1 DEF Views, Sizes

LEMMA AnalyzeMoves ==
    ASSUME NEW v \in Views, Keyed(v.cases), NEW r \in Runs, NEW w \in AnalyzeRequirements(v, r)
    PROVE  Moves("analyze", v, r, w)
<1> DEFINE run == [v.runs[r] EXCEPT !.analysed = TRUE, !.status = "pending",
                                    !.stage = "analysis_ready"]
<1>1. v.runs[r] \in RunRows /\ w = With(v, r, run)
  BY DEF Views, AnalyzeRequirements, When
<1>2. /\ run \in RunRows /\ run.mode = v.runs[r].mode /\ run.vers = v.runs[r].vers
      /\ run.current = v.runs[r].current /\ run.events = v.runs[r].events
      /\ run.review = v.runs[r].review /\ run.appr = v.runs[r].appr
      /\ run.status = "pending"
  BY <1>1 DEF RunRows, RunStatus, Stages
<1> HIDE DEF run
<1>3. StatusMoves("analyze", v.runs[r], run)
  BY <1>2 DEF StatusMoves, Flushing
<1> QED BY <1>1, <1>2, <1>3, EditMoves

LEMMA PreparePlanMoves ==
    ASSUME NEW v \in Views, Keyed(v.cases), NEW r \in Runs, NEW w \in PreparePlan(v, r)
    PROVE  Moves("prepare-plan", v, r, w)
<1> DEFINE run == [v.runs[r] EXCEPT !.plan = @ + 1, !.approvedPlan = 0,
                                    !.stage = "awaiting_plan_approval"]
<1>1. v.runs[r] \in RunRows /\ v.runs[r].plan < MaxPlans /\ w = With(v, r, run)
  BY DEF Views, PreparePlan, When
<1>2. v.runs[r].plan + 1 \in 0..MaxPlans /\ 0 \in 0..MaxPlans
  BY <1>1, DesignBounds DEF RunRows
<1>3. /\ run \in RunRows /\ run.mode = v.runs[r].mode /\ run.vers = v.runs[r].vers
      /\ run.current = v.runs[r].current /\ run.events = v.runs[r].events
      /\ run.review = v.runs[r].review /\ run.appr = v.runs[r].appr
      /\ run.status = v.runs[r].status
  BY <1>1, <1>2 DEF RunRows, Stages
<1> HIDE DEF run
<1>4. StatusMoves("prepare-plan", v.runs[r], run)
  BY <1>3 DEF StatusMoves, Flushing
<1> QED BY <1>1, <1>3, <1>4, EditMoves

LEMMA ApprovePlanMoves ==
    ASSUME NEW v \in Views, Keyed(v.cases), NEW r \in Runs, NEW w \in ApprovePlan(v, r)
    PROVE  Moves("approve-plan", v, r, w)
<1> DEFINE run == [v.runs[r] EXCEPT !.approvedPlan = v.runs[r].plan, !.stage = "plan_approved"]
<1>1. v.runs[r] \in RunRows /\ w = With(v, r, run)
  BY DEF Views, ApprovePlan, When
<1>2. /\ run \in RunRows /\ run.mode = v.runs[r].mode /\ run.vers = v.runs[r].vers
      /\ run.current = v.runs[r].current /\ run.events = v.runs[r].events
      /\ run.review = v.runs[r].review /\ run.appr = v.runs[r].appr
      /\ run.status = v.runs[r].status
  BY <1>1 DEF RunRows, Stages
<1> HIDE DEF run
<1>3. StatusMoves("approve-plan", v.runs[r], run)
  BY <1>2 DEF StatusMoves, Flushing
<1> QED BY <1>1, <1>2, <1>3, EditMoves

LEMMA PlanRevisionMoves ==
    ASSUME NEW v \in Views, Keyed(v.cases), NEW r \in Runs, NEW w \in RequestPlanRevision(v, r)
    PROVE  Moves("revise-plan", v, r, w)
<1> DEFINE run == [v.runs[r] EXCEPT !.approvedPlan = 0, !.stage = "plan_revision_requested"]
<1>1. v.runs[r] \in RunRows /\ w = With(v, r, run) /\ 0 \in 0..MaxPlans
  BY DesignBounds DEF Views, RequestPlanRevision, When
<1>2. /\ run \in RunRows /\ run.mode = v.runs[r].mode /\ run.vers = v.runs[r].vers
      /\ run.current = v.runs[r].current /\ run.events = v.runs[r].events
      /\ run.review = v.runs[r].review /\ run.appr = v.runs[r].appr
      /\ run.status = v.runs[r].status
  BY <1>1 DEF RunRows, Stages
<1> HIDE DEF run
<1>3. StatusMoves("revise-plan", v.runs[r], run)
  BY <1>2 DEF StatusMoves, Flushing
<1> QED BY <1>1, <1>2, <1>3, EditMoves

(* A row on which an approval is decided. *)
LEMMA DecidedMoves ==
    ASSUME NEW op, op \notin Flushing, NEW old, NEW run \in RunRows,
           NEW k, NEW how \in Decided, NEW status \in RunStatus,
           DecidedAs(old, run, k, how, status), run.events = old.events
    PROVE  Follows(old, run) /\ StatusMoves(op, old, run)
<1>1. k \in Designs
  BY DEF DecidedAs, Pending
<1>2. StatusMoves(op, old, run)
  BY <1>1 DEF StatusMoves
<1>3. \A j \in Designs : old.appr[j] # "none" => run.appr[j] # "none"
  BY DEF DecidedAs, Decided
<1>4. Follows(old, run)
  BY <1>3, EditFollows DEF DecidedAs
<1> QED BY <1>2, <1>4

LEMMA RejectMoves ==
    ASSUME NEW v \in Views, Keyed(v.cases), NEW r \in Runs, NEW w \in Reject(v, r)
    PROVE  Moves("reject", v, r, w)
<1>1. PICK k \in Pending(v.runs[r]) :
          w = With(v, r, [v.runs[r] EXCEPT !.appr[k] = "rejected", !.status = "rejected"])
  BY DEF Reject
<1> DEFINE run == [v.runs[r] EXCEPT !.appr[k] = "rejected", !.status = "rejected",
                                    !.stage = v.runs[r].stage]
<1>2. v.runs[r] \in RunRows /\ v.runs[r].stage \in Stages
  BY DEF Views, RunRows
<1>3. /\ run = [v.runs[r] EXCEPT !.appr[k] = "rejected", !.status = "rejected"]
      /\ run.events = v.runs[r].events
  BY <1>2 DEF RunRows
<1>4. run \in RunRows /\ DecidedAs(v.runs[r], run, k, "rejected", "rejected")
  BY <1>2, DecidedFields
<1>5. w = With(v, r, run)
  BY <1>1, <1>3
<1> HIDE DEF run
<1>6. "reject" \notin Flushing /\ "rejected" \in Decided /\ "rejected" \in RunStatus
  BY DEF Flushing, Decided, RunStatus
<1>7. Follows(v.runs[r], run) /\ StatusMoves("reject", v.runs[r], run)
  BY <1>3, <1>4, <1>6, DecidedMoves
<1> QED BY <1>5, <1>7, WithMoves

(* A design is drafted and its approval asked for. *)
LEMMA AskedRow ==
    ASSUME NEW run \in RunRows, run.review = "none", NEW d \in Designs,
           NEW review \in {Refused(run)} \cup When(HasProject, {"published"})
    PROVE  LET new == Submitted(Drafted(run, d, review), d)
           IN  new \in RunRows /\ Follows(run, new) /\ Asks(run, new, d)
<1> DEFINE old == Drafted(run, d, review)
           new == Submitted(old, d)
<1>1. Follows(run, old) /\ old \in RunRows /\ old.review = review /\ old.appr = run.appr
  BY DraftedFollows DEF Follows
<1> HIDE DEF old
<1>2. /\ Follows(old, new) /\ new.review = review
      /\ new.status = "awaiting_approval" /\ new.appr[d] = "pending"
      /\ \A j \in Designs \ {d} : new.appr[j] = run.appr[j]
  BY <1>1, SubmittedFollows
<1> HIDE DEF new
<1>3. Follows(run, new) /\ new \in RunRows
  BY <1>1, <1>2, FollowsTrans DEF Follows
<1>4. HasProject => review # "none"
  BY DEF Refused, When
<1>5. Asks(run, new, d)
  BY <1>2, <1>4 DEF Asks
<1> QED BY <1>3, <1>5 DEF new, old

(* A test design by the UI. *)
LEMMA GenerateMoves ==
    ASSUME NEW v \in Views, Keyed(v.cases), NEW r \in Runs, NEW w \in GenerateTestCases(v, r)
    PROVE  Moves("generate", v, r, w)
<1>1. v.runs[r] \in RunRows /\ v.runs[r].review = "none"
  BY DEF Views, GenerateTestCases, When
<1>2. PICK d \in Fresh(v), s \in CaseIndex,
           review \in {Refused(v.runs[r])} \cup When(HasProject, {"published"}) :
          w = WithDesign(v, d, s, r, [Submitted(Drafted(v.runs[r], d, review), d) EXCEPT
                                         !.stage = "awaiting_test_case_review"])
  BY DEF GenerateTestCases, When
<1> DEFINE mid == Submitted(Drafted(v.runs[r], d, review), d)
           new == [mid EXCEPT !.stage = "awaiting_test_case_review"]
           sz == [v.sizes EXCEPT ![d] = s]
<1>3. d \in Designs /\ sz \in Sizes
  BY OneDesignTyped
<1>4. mid \in RunRows /\ Follows(v.runs[r], mid) /\ Asks(v.runs[r], mid, d)
  BY <1>1, <1>3, AskedRow
<1> HIDE DEF mid, sz
<1>5. /\ new \in RunRows /\ new.mode = mid.mode /\ new.vers = mid.vers
      /\ new.current = mid.current /\ new.events = mid.events /\ new.review = mid.review
      /\ new.status = mid.status /\ new.appr = mid.appr
  BY <1>4 DEF RunRows, Stages
<1> HIDE DEF new
<1>6. Follows(mid, new)
  BY <1>5, EditFollows
<1>7. Follows(v.runs[r], new)
  BY <1>4, <1>6, FollowsTrans
<1>8. Asks(v.runs[r], new, d)
  BY <1>4, <1>5 DEF Asks
<1>9. StatusMoves("generate", v.runs[r], new)
  BY <1>3, <1>8 DEF StatusMoves, Flushing
<1>10. Moves("generate", v, r, Redone(v, r, new, sz))
  BY <1>3, <1>7, <1>9, RedoneMoves
<1> QED BY <1>2, <1>10, WithDesignRedone DEF new, mid, sz

LEMMA GraphMoves ==
    ASSUME NEW v \in Views, Keyed(v.cases), NEW r \in Runs,
           NEW w \in GraphResults(v, r, v.runs[r])
    PROVE  Moves("graph", v, r, w)
<1>1. v.runs[r] \in RunRows
  BY DEF Views
<1>2. CASE w = With(v, r, [v.runs[r] EXCEPT !.status = "failed"])
  <2> DEFINE new == [v.runs[r] EXCEPT !.status = "failed"]
  <2>1. /\ new \in RunRows /\ new.mode = v.runs[r].mode /\ new.vers = v.runs[r].vers
        /\ new.current = v.runs[r].current /\ new.events = v.runs[r].events
        /\ new.review = v.runs[r].review /\ new.appr = v.runs[r].appr
        /\ new.status = "failed"
    BY <1>1 DEF RunRows, RunStatus
  <2> HIDE DEF new
  <2>2. StatusMoves("graph", v.runs[r], new)
    BY <2>1 DEF StatusMoves, Flushing
  <2>3. Moves("graph", v, r, With(v, r, new))
    BY <2>1, <2>2, EditMoves
  <2> QED BY <1>2, <2>3 DEF new
<1>3. CASE v.runs[r].review = "none" /\ \E d \in Fresh(v), s \in CaseIndex :
              w = WithDesign(v, d, s, r,
                      [Drafted(v.runs[r], d, Refused(v.runs[r])) EXCEPT !.status = "failed"])
  <2>1. PICK d \in Fresh(v), s \in CaseIndex :
            w = WithDesign(v, d, s, r,
                    [Drafted(v.runs[r], d, Refused(v.runs[r])) EXCEPT !.status = "failed"])
    BY <1>3
  <2> DEFINE old == Drafted(v.runs[r], d, Refused(v.runs[r]))
             new == [old EXCEPT !.status = "failed"]
             sz == [v.sizes EXCEPT ![d] = s]
  <2>2. d \in Designs /\ sz \in Sizes
    BY OneDesignTyped
  <2>3. Follows(v.runs[r], old) /\ old \in RunRows /\ old.appr = v.runs[r].appr
    BY <1>1, <1>3, <2>2, DraftedFollows DEF Follows
  <2> HIDE DEF old, sz
  <2>4. /\ new \in RunRows /\ new.mode = old.mode /\ new.vers = old.vers
        /\ new.current = old.current /\ new.events = old.events
        /\ new.review = old.review /\ new.appr = old.appr /\ new.status = "failed"
    BY <2>3 DEF RunRows, RunStatus
  <2> HIDE DEF new
  <2>5. Follows(old, new)
    BY <2>4, EditFollows
  <2>6. Follows(v.runs[r], new)
    BY <2>3, <2>5, FollowsTrans
  <2>7. StatusMoves("graph", v.runs[r], new)
    BY <2>3, <2>4 DEF StatusMoves, Flushing
  <2>8. Moves("graph", v, r, Redone(v, r, new, sz))
    BY <2>2, <2>6, <2>7, RedoneMoves
  <2> QED BY <2>1, <2>8, WithDesignRedone DEF new, old, sz
<1>4. CASE v.runs[r].review = "none" /\ HasProject /\ \E d \in Fresh(v), s \in CaseIndex :
              w = WithDesign(v, d, s, r, Submitted(Drafted(v.runs[r], d, "published"), d))
  <2>1. PICK d \in Fresh(v), s \in CaseIndex :
            w = WithDesign(v, d, s, r, Submitted(Drafted(v.runs[r], d, "published"), d))
    BY <1>4
  <2> DEFINE new == Submitted(Drafted(v.runs[r], d, "published"), d)
             sz == [v.sizes EXCEPT ![d] = s]
  <2>2. d \in Designs /\ sz \in Sizes
    BY OneDesignTyped
  <2>3. "published" \in {Refused(v.runs[r])} \cup When(HasProject, {"published"})
    BY <1>4 DEF When
  <2>4. Follows(v.runs[r], new) /\ Asks(v.runs[r], new, d)
    BY <1>1, <1>4, <2>2, <2>3, AskedRow
  <2> HIDE DEF new, sz
  <2>5. StatusMoves("graph", v.runs[r], new)
    BY <2>2, <2>4 DEF StatusMoves, Flushing
  <2>6. Moves("graph", v, r, Redone(v, r, new, sz))
    BY <2>2, <2>4, <2>5, RedoneMoves
  <2> QED BY <2>1, <2>6, WithDesignRedone DEF new, sz
<1> QED BY <1>2, <1>3, <1>4 DEF GraphResults, When

-----------------------------------------------------------------------------
(* Revisions. *)

LEMMA DesignsTyped ==
    ASSUME NEW v \in Views, NEW d \in Fresh(v), NEW k \in Nat \ {0},
           NEW s \in Redrafts(d, k)
    PROVE  [e \in Designs |-> IF e \in d..(d + k - 1) THEN s[e] ELSE v.sizes[e]] \in Sizes
<1>1. \A e \in d..(d + k - 1) : s[e] \in 0..MaxCases
  BY DesignBounds DEF Redrafts, CaseIndex
<1> QED BY <1>1 DEF Views, Sizes

(* run is the row the revision starts from: that of r with a column of the call
   already changed. *)
LEMMA RevisionsMoves ==
    ASSUME NEW op, op \notin Flushing,
           NEW v \in Views, Keyed(v.cases), NEW r \in Runs, Reviewable(v.runs[r]),
           NEW run \in RunRows, Follows(v.runs[r], run), run.appr = v.runs[r].appr,
           NEW k \in Nat \ {0}, NEW w \in Revisions(v, r, run, k)
    PROVE  Moves(op, v, r, w)
<1>1. PICK a \in Pending(run), n \in NextVersions(run), d \in Fresh(v) :
          /\ n + k - 1 \in Designs /\ d + k - 1 \in Designs
          /\ \E s \in Redrafts(d, k) : w = Revised(v, r, run, a, n, d, k, s)
  BY DEF Revisions
<1>2. PICK s \in Redrafts(d, k) : w = Revised(v, r, run, a, n, d, k, s)
  BY <1>1
<1> DEFINE sz == [e \in Designs |-> IF e \in d..(d + k - 1) THEN s[e] ELSE v.sizes[e]]
           new == Superseded(run, a, n, d, k)
           u == [v EXCEPT !.sizes = [e \in Designs |->
                                        IF e \in d..(d + k - 1) THEN s[e] ELSE @[e]]]
<1>3. sz \in Sizes
  BY DesignsTyped
<1>4. d \in Designs
  BY DEF Fresh
<1>5. u = [runs |-> v.runs, sizes |-> sz, cases |-> v.cases]
  BY DEF Views
<1>6. w = With(u, r, new)
  BY <1>2 DEF Revised
<1> HIDE DEF sz, u
<1>7. Follows(run, new) /\ new.status = "awaiting_approval" /\ new.appr = run.appr
  BY <1>1, <1>4, SupersededFollows
<1> HIDE DEF new
<1>8. Follows(v.runs[r], new)
  BY <1>7, FollowsTrans
<1>9. StatusMoves(op, v.runs[r], new)
  BY <1>7 DEF StatusMoves, Reviewable
<1>10. With(u, r, new) = Redone(v, r, new, sz)
  BY <1>5 DEF With, Redone
<1> QED BY <1>3, <1>6, <1>8, <1>9, <1>10, RedoneMoves

LEMMA EvolveMoves ==
    ASSUME NEW v \in Views, Keyed(v.cases), NEW r \in Runs, NEW w \in Evolve(v, r)
    PROVE  Moves("evolve", v, r, w)
<1>1. /\ v.runs[r] \in RunRows /\ Reviewable(v.runs[r])
      /\ w \in Revisions(v, r, v.runs[r], 1)
  BY DEF Views, Evolve, When
<1>2. Follows(v.runs[r], v.runs[r])
  BY <1>1, EditFollows
<1>3. 1 \in Nat \ {0} /\ "evolve" \notin Flushing
  BY DEF Flushing
<1> QED BY <1>1, <1>2, <1>3, RevisionsMoves

LEMMA ReviseCasesMoves ==
    ASSUME NEW v \in Views, Keyed(v.cases), NEW r \in Runs, NEW w \in ReviseCases(v, r)
    PROVE  Moves("revise-cases", v, r, w)
<1> DEFINE run == [v.runs[r] EXCEPT !.stage = "awaiting_test_case_review"]
<1>1. v.runs[r] \in RunRows /\ Reviewable(v.runs[r]) /\ w \in Revisions(v, r, run, 1)
  BY DEF Views, ReviseCases, When
<1>2. /\ run \in RunRows /\ run.mode = v.runs[r].mode /\ run.vers = v.runs[r].vers
      /\ run.current = v.runs[r].current /\ run.events = v.runs[r].events
      /\ run.review = v.runs[r].review /\ run.appr = v.runs[r].appr
  BY <1>1 DEF RunRows, Stages
<1> HIDE DEF run
<1>4. Follows(v.runs[r], run)
  BY <1>2, EditFollows
<1>5. 1 \in Nat \ {0} /\ "revise-cases" \notin Flushing
  BY DEF Flushing
<1> QED BY <1>1, <1>2, <1>4, <1>5, RevisionsMoves

(* An event that was recorded is not read again. *)
LEMMA ReadFollows ==
    ASSUME NEW run \in RunRows, NEW outcome
    PROVE  Follows(run, Read(run, outcome))
<1> DEFINE new == Read(run, outcome)
<1>1. /\ new \in RunRows /\ new.mode = run.mode /\ new.review = run.review
      /\ new.appr = run.appr /\ new.vers = run.vers /\ new.current = run.current
  BY ReadRow
<1>2. new.events = [c \in Comments |->
                       IF c \notin Unread(run) THEN run.events[c]
                       ELSE IF outcome[c] = "failed" THEN "failed" ELSE "processed"]
  BY DEF Read, RunRows
<1> HIDE DEF new
<1>3. \A c \in Comments : run.events[c] # "none" => new.events[c] = run.events[c]
  BY <1>2 DEF Unread
<1>4. Follows(run, new)
  BY <1>1, <1>3 DEF Follows, Grows, Ladder
<1> QED BY <1>4 DEF new

LEMMA ProcessCommentsMoves ==
    ASSUME NEW v \in Views, Keyed(v.cases), NEW r \in Runs, NEW w \in ProcessComments(v, r)
    PROVE  Moves("process-comments", v, r, w)
<1>1. v.runs[r] \in RunRows /\ Reviewable(v.runs[r])
  BY DEF Views, ProcessComments, When
<1>2. PICK outcome \in [Unread(v.runs[r]) -> Outcomes] :
          LET k == Cardinality({c \in Unread(v.runs[r]) : outcome[c] = "revised"})
          IN  w \in IF k = 0 THEN {With(v, r, Read(v.runs[r], outcome))}
                    ELSE Revisions(v, r, Read(v.runs[r], outcome), k)
  BY DEF ProcessComments, When
<1> DEFINE k == Cardinality({c \in Unread(v.runs[r]) : outcome[c] = "revised"})
           run == Read(v.runs[r], outcome)
<1>3. k \in Nat
  <2>1. v.runs[r].posted \in Nat
    BY <1>1, DesignBounds DEF RunRows
  <2>2. IsFiniteSet(1..v.runs[r].posted)
    BY <2>1, FS_Interval
  <2>3. {c \in Unread(v.runs[r]) : outcome[c] = "revised"} \subseteq 1..v.runs[r].posted
    BY DEF Unread
  <2>4. IsFiniteSet({c \in Unread(v.runs[r]) : outcome[c] = "revised"})
    BY <2>2, <2>3, FS_Subset
  <2> QED BY <2>4, FS_CardinalityType
<1>4. w \in IF k = 0 THEN {With(v, r, run)} ELSE Revisions(v, r, run, k)
  BY <1>2
<1>5. /\ run \in RunRows /\ run.status = v.runs[r].status /\ run.appr = v.runs[r].appr
      /\ Follows(v.runs[r], run)
  BY <1>1, ReadRow, ReadFollows
<1>6. "process-comments" \notin Flushing
  BY DEF Flushing
<1> HIDE DEF run, k
<1>7. CASE k = 0
  <2>1. StatusMoves("process-comments", v.runs[r], run)
    BY <1>5, <1>6 DEF StatusMoves
  <2>2. Moves("process-comments", v, r, With(v, r, run))
    BY <1>5, <2>1, WithMoves
  <2> QED BY <1>4, <1>7, <2>2
<1>8. CASE k # 0
  BY <1>1, <1>3, <1>4, <1>5, <1>6, <1>8, RevisionsMoves
<1> QED BY <1>7, <1>8

-----------------------------------------------------------------------------
(* The decision and the registry. *)

LEMMA KeptCase ==
    ASSUME NEW v \in Views, Keyed(v.cases), NEW r \in Runs, NEW d \in 0..MaxDesigns,
           NEW ok, NEW i \in CaseIndex
    PROVE  LET old == v.cases[i]
               new == Materialised(v, r, d, ok)[i]
           IN  /\ new \in CaseRows
               /\ new.run = 0 => new = AbsentCase
               /\ old.run # 0 => new.run = old.run /\ new.design = old.design
               /\ old.pub = "published" => new.pub = "published"
               /\ new.session = old.session
<1>1. v.cases[i] \in CaseRows /\ r \in 0..MaxRuns /\ r # 0
  BY DesignBounds DEF Views, Runs
<1>2. v.cases[i].run = 0 => v.cases[i] = AbsentCase
  BY DEF Keyed
<1> DEFINE kept == IF v.cases[i].run # 0 THEN v.cases[i]
                   ELSE [AbsentCase EXCEPT !.run = r, !.design = d]
<1>3. /\ kept \in CaseRows /\ kept.run # 0 /\ kept.session = v.cases[i].session
      /\ kept.pub = v.cases[i].pub
      /\ v.cases[i].run # 0 => kept = v.cases[i]
  BY <1>1, <1>2 DEF AbsentCase, CaseRows
<1>4. Materialised(v, r, d, ok)[i] =
          IF i > v.sizes[d] THEN v.cases[i]
          ELSE IF kept.pub = "published" \/ i \in ok THEN [kept EXCEPT !.pub = "published"]
          ELSE [kept EXCEPT !.pub = IF HasProject THEN "failed" ELSE @]
  BY DEF Materialised
<1> HIDE DEF kept
<1>5. CASE i > v.sizes[d]
  BY <1>1, <1>2, <1>4, <1>5
<1>6. CASE ~(i > v.sizes[d])
  BY <1>1, <1>3, <1>4, <1>6 DEF CaseRows
<1> QED BY <1>5, <1>6

LEMMA RecordedMoves ==
    ASSUME NEW op, NEW v \in Views, Keyed(v.cases), NEW r \in Runs, NEW run,
           Follows(v.runs[r], run), StatusMoves(op, v.runs[r], run),
           NEW k \in Designs, NEW w \in Recorded(v, r, run, k)
    PROVE  Moves(op, v, r, w)
<1> DEFINE d == run.subject[k]
<1>1. run \in RunRows /\ d \in 0..MaxDesigns
  BY DEF Follows, RunRows, SubjectRows
<1>2. PICK ok \in SUBSET CaseIndex :
          w = [With(v, r, run) EXCEPT !.cases = Materialised(v, r, d, ok)]
  BY DEF Recorded, When
<1> HIDE DEF d
<1> DEFINE cs == Materialised(v, r, d, ok)
<1>3. w = [runs |-> [v.runs EXCEPT ![r] = run], sizes |-> v.sizes, cases |-> cs]
  BY <1>2 DEF With, Views
<1>4. cs = [i \in CaseIndex |-> cs[i]]
  BY DEF Materialised
<1>5. \A i \in CaseIndex :
         /\ cs[i] \in CaseRows
         /\ cs[i].run = 0 => cs[i] = AbsentCase
         /\ v.cases[i].run # 0 => cs[i].run = v.cases[i].run /\ cs[i].design = v.cases[i].design
         /\ v.cases[i].pub = "published" => cs[i].pub = "published"
         /\ cs[i].session = v.cases[i].session
  BY <1>1, KeptCase
<1> HIDE DEF cs
<1>6. cs \in [CaseIndex -> CaseRows] /\ Keyed(cs) /\ CaseMoves(v.cases, cs)
  BY <1>4, <1>5 DEF Keyed, CaseMoves
<1>7. w \in Views /\ w.runs[r] = run /\ w.cases = cs
  BY <1>1, <1>3, <1>6 DEF Views
<1> QED BY <1>6, <1>7 DEF Moves

LEMMA ApproveMoves ==
    ASSUME NEW v \in Views, Keyed(v.cases), NEW r \in Runs, NEW w \in Approve(v, r)
    PROVE  Moves("approve", v, r, w)
<1>1. PICK k \in Pending(v.runs[r]) :
          w \in Recorded(v, r, [v.runs[r] EXCEPT !.appr[k] = "approved",
                                                 !.status = "completed"], k)
  BY DEF Approve
<1> DEFINE run == [v.runs[r] EXCEPT !.appr[k] = "approved", !.status = "completed",
                                    !.stage = v.runs[r].stage]
<1>2. v.runs[r] \in RunRows /\ v.runs[r].stage \in Stages
  BY DEF Views, RunRows
<1>3. /\ run = [v.runs[r] EXCEPT !.appr[k] = "approved", !.status = "completed"]
      /\ run.events = v.runs[r].events
  BY <1>2 DEF RunRows
<1>4. run \in RunRows /\ DecidedAs(v.runs[r], run, k, "approved", "completed")
  BY <1>2, DecidedFields
<1>5. w \in Recorded(v, r, run, k)
  BY <1>1, <1>3
<1> HIDE DEF run
<1>6. "approve" \notin Flushing /\ "approved" \in Decided /\ "completed" \in RunStatus
  BY DEF Flushing, Decided, RunStatus
<1>7. Follows(v.runs[r], run) /\ StatusMoves("approve", v.runs[r], run)
  BY <1>3, <1>4, <1>6, DecidedMoves
<1>8. k \in Designs
  BY DEF Pending
<1> QED BY <1>5, <1>7, <1>8, RecordedMoves

LEMMA ApproveDesignMoves ==
    ASSUME NEW v \in Views, Keyed(v.cases), NEW r \in Runs, NEW w \in ApproveDesign(v, r)
    PROVE  Moves("approve-design", v, r, w)
<1>1. PICK k \in Asked(v.runs[r]) :
          w \in Recorded(v, r, [v.runs[r] EXCEPT !.appr[k] = "approved", !.status = "completed",
                                                 !.stage = "approved"], k)
  BY DEF ApproveDesign
<1> DEFINE run == [v.runs[r] EXCEPT !.appr[k] = "approved", !.status = "completed",
                                    !.stage = "approved"]
<1>2. k \in Pending(v.runs[r]) /\ "approved" \in Stages /\ v.runs[r] \in RunRows
  BY DEF Asked, Stages, Views
<1>3. run.events = v.runs[r].events
  BY <1>2 DEF RunRows
<1>4. run \in RunRows /\ DecidedAs(v.runs[r], run, k, "approved", "completed")
  BY <1>2, DecidedFields
<1>5. w \in Recorded(v, r, run, k)
  BY <1>1
<1> HIDE DEF run
<1>6. "approve-design" \notin Flushing /\ "approved" \in Decided /\ "completed" \in RunStatus
  BY DEF Flushing, Decided, RunStatus
<1>7. Follows(v.runs[r], run) /\ StatusMoves("approve-design", v.runs[r], run)
  BY <1>3, <1>4, <1>6, DecidedMoves
<1>8. k \in Designs
  BY <1>2 DEF Pending
<1> QED BY <1>5, <1>7, <1>8, RecordedMoves

LEMMA PublishMoves ==
    ASSUME NEW v \in Views, Keyed(v.cases), NEW r \in Runs, NEW w \in PublishDesign(v, r)
    PROVE  Moves("publish", v, r, w)
<1> DEFINE run == [v.runs[r] EXCEPT !.stage = "automation_ready"]
<1>1. PICK k \in Designs : w \in Recorded(v, r, run, k)
  BY DEF PublishDesign, When
<1>0. v.runs[r] \in RunRows
  BY DEF Views
<1>2. /\ run \in RunRows /\ run.mode = v.runs[r].mode /\ run.vers = v.runs[r].vers
      /\ run.current = v.runs[r].current /\ run.events = v.runs[r].events
      /\ run.review = v.runs[r].review
      /\ run.appr = v.runs[r].appr /\ run.status = v.runs[r].status
  BY <1>0 DEF RunRows, Stages
<1> HIDE DEF run
<1>3. StatusMoves("publish", v.runs[r], run)
  BY <1>2 DEF StatusMoves, Flushing
<1>4. Follows(v.runs[r], run)
  BY <1>2, EditFollows
<1> QED BY <1>1, <1>3, <1>4, RecordedMoves

(* Whatever the call, and whatever the row it found. *)
LEMMA ResultMoves ==
    ASSUME NEW op, NEW v \in Views, Keyed(v.cases), NEW r \in Runs,
           NEW w \in RunResults(op, v, r)
    PROVE  Moves(op, v, r, w)
<1>1. CASE op = "analyze"
  BY <1>1, AnalyzeMoves DEF RunResults
<1>2. CASE op = "prepare-plan"
  BY <1>2, PreparePlanMoves DEF RunResults
<1>3. CASE op = "approve-plan"
  BY <1>3, ApprovePlanMoves DEF RunResults
<1>4. CASE op = "revise-plan"
  BY <1>4, PlanRevisionMoves DEF RunResults
<1>5. CASE op = "generate"
  BY <1>5, GenerateMoves DEF RunResults
<1>6. CASE op = "evolve"
  BY <1>6, EvolveMoves DEF RunResults
<1>7. CASE op = "revise-cases"
  BY <1>7, ReviseCasesMoves DEF RunResults
<1>8. CASE op = "process-comments"
  BY <1>8, ProcessCommentsMoves DEF RunResults
<1>9. CASE op = "approve"
  BY <1>9, ApproveMoves DEF RunResults
<1>10. CASE op = "approve-design"
  BY <1>10, ApproveDesignMoves DEF RunResults
<1>11. CASE op = "reject"
  BY <1>11, RejectMoves DEF RunResults
<1>12. CASE op = "publish"
  BY <1>12, PublishMoves DEF RunResults
<1>13. CASE op = "graph"
  BY <1>13, GraphMoves DEF RunResults
<1> QED BY <1>1, <1>2, <1>3, <1>4, <1>5, <1>6, <1>7, <1>8, <1>9, <1>10, <1>11, <1>12, <1>13
        DEF RunResults

-----------------------------------------------------------------------------
(* Calls in flight. *)

RunOps ==
    {"analyze", "prepare-plan", "approve-plan", "revise-plan", "generate", "evolve",
     "revise-cases", "process-comments", "approve", "approve-design", "reject", "publish"}

RowOps  == RunOps \cup {"start", "graph"}
CaseOps == {"publish-case", "automate"}

RowCalls == [op : RowOps, at : Runs, read : RunRows]

InFlight ==
    [op : {"idle", "poll", "create-workspace"}] \cup [op : {"picked"}, at : Runs]
    \cup [op : CaseOps, at : CaseIndex] \cup RowCalls

(* What stays true of the rows a call was checked against: its run is there, an
   approval it read is there, its case is in the registry. *)
CallFits(rs, cs, call) ==
    /\ call.op \in RowOps \cup {"picked"} => rs[call.at].mode # "none"
    /\ call.op \in RowOps =>
           /\ HasProject => Told(call.read)
           /\ \A k \in Designs : call.read.appr[k] # "none" => rs[call.at].appr[k] # "none"
    /\ call.op \in CaseOps => cs[call.at].run # 0

RowsGrow(old, new) == \A r \in Runs : Grows(old[r], new[r])

(* The inductive invariant. *)
DesignInv ==
    /\ View \in Views /\ Keyed(cases)
    /\ \A r \in Runs : OrderedRow(runs[r])
    /\ calls \in [Clients -> InFlight]
    /\ \A c \in Clients : CallFits(runs, cases, calls[c])

(* A call keeps fitting when other calls commit. *)
LEMMA FitsOn ==
    ASSUME NEW rs, NEW cs, NEW rs2, NEW cs2, RowsGrow(rs, rs2), CaseMoves(cs, cs2),
           NEW call \in InFlight, CallFits(rs, cs, call)
    PROVE  CallFits(rs2, cs2, call)
<1>1. CASE call \in [op : {"idle", "poll", "create-workspace"}]
  BY <1>1 DEF CallFits, RowOps, RunOps, CaseOps
<1>2. CASE call \in [op : {"picked"}, at : Runs]
  BY <1>2 DEF CallFits, RowOps, RunOps, CaseOps, RowsGrow, Grows
<1>3. CASE call \in [op : CaseOps, at : CaseIndex]
  BY <1>3 DEF CallFits, RowOps, RunOps, CaseOps, CaseMoves
<1>4. CASE call \in RowCalls
  BY <1>4 DEF CallFits, RowCalls, RowOps, RunOps, CaseOps, RowsGrow, Grows
<1> QED BY <1>1, <1>2, <1>3, <1>4 DEF InFlight

(* A step of client c leaves the invariant when it does so for the rows and for
   c's own call. *)
LEMMA InvAfter ==
    ASSUME DesignInv, View' \in Views, Keyed(cases'),
           \A r \in Runs : OrderedRow(runs'[r]),
           RowsGrow(runs, runs'), CaseMoves(cases, cases'),
           NEW c \in Clients, NEW call \in InFlight, CallFits(runs', cases', call),
           calls' = [calls EXCEPT ![c] = call]
    PROVE  DesignInv'
<1>1. calls' \in [Clients -> InFlight]
  BY DEF DesignInv
<1>2. ASSUME NEW b \in Clients PROVE CallFits(runs', cases', calls'[b])
  <2>1. CASE b = c
    BY <2>1 DEF DesignInv
  <2>2. CASE b # c
    <3>1. calls'[b] = calls[b] /\ calls[b] \in InFlight /\ CallFits(runs, cases, calls[b])
      BY <2>2 DEF DesignInv
    <3> QED BY <3>1, FitsOn
  <2> QED BY <2>1, <2>2
<1> QED BY <1>1, <1>2 DEF DesignInv

(* The same for a step that changes no row. *)
LEMMA InvAfterCall ==
    ASSUME DesignInv, UNCHANGED <<runs, sizes, cases>>,
           NEW c \in Clients, NEW call \in InFlight, CallFits(runs, cases, call),
           calls' = [calls EXCEPT ![c] = call]
    PROVE  DesignInv' /\ RowsGrow(runs, runs') /\ CaseMoves(cases, cases')
<1>1. RowsGrow(runs, runs') /\ CaseMoves(cases, cases')
  BY SameCases DEF RowsGrow, Grows
<1>2. View' \in Views /\ Keyed(cases') /\ \A r \in Runs : OrderedRow(runs'[r])
  BY DEF DesignInv, View
<1>3. CallFits(runs', cases', call)
  OBVIOUS
<1> QED BY <1>1, <1>2, <1>3, InvAfter

(* And for one that writes the row of run r alone. *)
LEMMA InvAfterRow ==
    ASSUME DesignInv, NEW r \in Runs, NEW run \in RunRows, OrderedRow(run),
           Grows(runs[r], run), runs' = [runs EXCEPT ![r] = run],
           sizes' \in Sizes, cases' \in [CaseIndex -> CaseRows], Keyed(cases'),
           CaseMoves(cases, cases')
    PROVE  /\ View' \in Views /\ \A q \in Runs : OrderedRow(runs'[q])
           /\ RowsGrow(runs, runs')
<1>1. runs \in [Runs -> RunRows]
  BY DEF DesignInv, View, Views
<1>2. runs' \in [Runs -> RunRows] /\ runs'[r] = run
      /\ \A q \in Runs \ {r} : runs'[q] = runs[q]
  BY <1>1
<1>3. View' \in Views
  BY <1>2 DEF View, Views
<1>4. \A q \in Runs : OrderedRow(runs'[q])
  BY <1>2 DEF DesignInv
<1>5. RowsGrow(runs, runs')
  BY <1>2 DEF RowsGrow, Grows
<1> QED BY <1>3, <1>4, <1>5

LEMMA IdleFits ==
    ASSUME NEW rs, NEW cs
    PROVE  Idle \in InFlight /\ CallFits(rs, cs, Idle)
BY DEF Idle, InFlight, CallFits, RowOps, RunOps, CaseOps

-----------------------------------------------------------------------------
(* The row a commit writes. *)

LEMMA SeenRow ==
    ASSUME NEW call \in RowCalls, View \in Views, OrderedRow(runs[call.at]),
           CallFits(runs, cases, call)
    PROVE  LET seen == Seen(call)
               run  == runs[call.at]
           IN  /\ seen \in RunRows
               /\ seen.mode = run.mode /\ seen.review = run.review
               /\ seen.vers = run.vers /\ seen.current = run.current
               /\ seen.events = run.events
               /\ HasProject => Told(seen)
               /\ \A k \in Designs : seen.appr[k] # "none" => run.appr[k] # "none"
<1>1. /\ runs[call.at] \in RunRows /\ call.read \in RunRows /\ call.op \in RowOps
      /\ HasProject => Told(runs[call.at])
  BY DEF View, Views, RowCalls, OrderedRow
<1>2. /\ HasProject => Told(call.read)
      /\ \A k \in Designs : call.read.appr[k] # "none" => runs[call.at].appr[k] # "none"
  BY <1>1 DEF CallFits
<1>3. CASE call.op = "graph"
  <2> DEFINE seen == [runs[call.at] EXCEPT
                         !.stage = call.read.stage, !.approvedPlan = call.read.approvedPlan,
                         !.design = call.read.design, !.asked = call.read.asked]
  <2>1. /\ seen \in RunRows
        /\ seen.mode = runs[call.at].mode /\ seen.review = runs[call.at].review
        /\ seen.vers = runs[call.at].vers /\ seen.current = runs[call.at].current
        /\ seen.events = runs[call.at].events /\ seen.status = runs[call.at].status
        /\ seen.appr = runs[call.at].appr
    BY <1>1 DEF RunRows
  <2>2. Seen(call) = seen
    BY <1>3 DEF Seen
  <2> HIDE DEF seen
  <2>3. HasProject => Told(seen)
    BY <1>1, <2>1 DEF Told, Pending
  <2> QED BY <1>1, <2>1, <2>2, <2>3
<1>4. CASE call.op # "graph"
  <2> DEFINE seen == [runs[call.at] EXCEPT
                         !.status = call.read.status, !.stage = call.read.stage,
                         !.approvedPlan = call.read.approvedPlan, !.design = call.read.design,
                         !.asked = call.read.asked,
                         !.appr = call.read.appr, !.subject = call.read.subject,
                         !.posted = call.read.posted]
  <2>1. /\ seen \in RunRows
        /\ seen.mode = runs[call.at].mode /\ seen.review = runs[call.at].review
        /\ seen.vers = runs[call.at].vers /\ seen.current = runs[call.at].current
        /\ seen.events = runs[call.at].events /\ seen.status = call.read.status
        /\ seen.appr = call.read.appr
    BY <1>1 DEF RunRows
  <2>2. Seen(call) = seen
    BY <1>4 DEF Seen
  <2> HIDE DEF seen
  <2>3. HasProject => Told(seen)
    BY <1>2, <2>1 DEF Told, Pending
  <2> QED BY <1>2, <2>1, <2>2, <2>3
<1> QED BY <1>3, <1>4

(* The columns of the row written, one by one. *)
LEMMA WrittenColumns ==
    ASSUME NEW call \in RowCalls, View \in Views, NEW seen \in RunRows, NEW left \in RunRows
    PROVE  LET new == Written(call, seen, left)
               run == runs[call.at]
           IN  /\ new \in RunRows
               /\ new.mode = left.mode /\ new.review = left.review
               /\ new.vers = left.vers /\ new.current = left.current
               /\ new.events = left.events
               /\ new.appr = Changed(seen.appr, left.appr, run.appr)
               /\ new.status = IF call.op \in Flushing \/ left.status # seen.status
                               THEN left.status ELSE run.status
<1> DEFINE run == runs[call.at]
           blob(x) == <<x.stage, x.approvedPlan, x.design, x.asked>>
           newBlob == blob(left) # blob(seen)
           status == IF call.op \in Flushing \/ left.status # seen.status
                     THEN left.status ELSE run.status
           stage == IF newBlob THEN left.stage ELSE run.stage
           approvedPlan == IF newBlob THEN left.approvedPlan ELSE run.approvedPlan
           design == IF newBlob THEN left.design ELSE run.design
           asked == IF newBlob THEN left.asked ELSE run.asked
           appr == Changed(seen.appr, left.appr, run.appr)
           subject == Changed(seen.subject, left.subject, run.subject)
           new == [left EXCEPT !.status = status, !.stage = stage,
                               !.approvedPlan = approvedPlan, !.design = design,
                               !.asked = asked, !.appr = appr, !.subject = subject,
                               !.posted = run.posted]
<1>1. run \in RunRows
  BY DEF View, Views, RowCalls
<1>2. Written(call, seen, left) = new
  BY DEF Written, RunRows, Flushing
<1> HIDE DEF newBlob
<1>3. /\ status \in RunStatus /\ stage \in Stages /\ approvedPlan \in 0..MaxPlans
      /\ design \in 0..MaxDesigns /\ asked \in 0..MaxDesigns
      /\ run.posted \in 0..MaxComments
  BY <1>1 DEF RunRows
<1>4. appr \in ApprovalRows /\ subject \in SubjectRows
  BY <1>1 DEF RunRows, ApprovalRows, SubjectRows, Changed
<1> HIDE DEF stage, approvedPlan, design, asked, subject, run, status, appr
<1>5. /\ new \in RunRows
      /\ new.mode = left.mode /\ new.review = left.review
      /\ new.vers = left.vers /\ new.current = left.current
      /\ new.events = left.events /\ new.appr = appr /\ new.status = status
  BY <1>3, <1>4 DEF RunRows
<1> HIDE DEF new
<1> QED BY <1>2, <1>5 DEF appr, status, run

LEMMA WrittenRow ==
    ASSUME NEW call \in RowCalls, View \in Views, OrderedRow(runs[call.at]),
           CallFits(runs, cases, call),
           NEW left, Follows(Seen(call), left), StatusMoves(call.op, Seen(call), left)
    PROVE  LET new == Written(call, Seen(call), left)
           IN  new \in RunRows /\ OrderedRow(new) /\ Grows(runs[call.at], new)
<1> DEFINE seen == Seen(call)
           run  == runs[call.at]
           new  == Written(call, seen, left)
<1>1. /\ seen \in RunRows
      /\ seen.mode = run.mode /\ seen.review = run.review
      /\ seen.vers = run.vers /\ seen.current = run.current
      /\ seen.events = run.events /\ (HasProject => Told(seen))
      /\ \A k \in Designs : seen.appr[k] # "none" => run.appr[k] # "none"
  BY SeenRow
<1>2. /\ run \in RunRows /\ run.mode # "none" /\ AskedOnce(run) /\ Ladder(run)
      /\ HasProject => Told(run)
  BY DEF View, Views, RowCalls, OrderedRow, CallFits
<1>3. Follows(seen, left) /\ StatusMoves(call.op, seen, left) /\ left \in RunRows
  BY DEF Follows
<1> HIDE DEF seen, run
<1>4. /\ new \in RunRows
      /\ new.mode = left.mode /\ new.review = left.review
      /\ new.vers = left.vers /\ new.current = left.current
      /\ new.events = left.events
      /\ new.appr = Changed(seen.appr, left.appr, run.appr)
      /\ new.status = IF call.op \in Flushing \/ left.status # seen.status
                      THEN left.status ELSE run.status
  BY <1>1, <1>3, WrittenColumns DEF run
<1> HIDE DEF new
<1>5. \A k \in Designs :
          new.appr[k] = IF left.appr[k] # seen.appr[k] THEN left.appr[k] ELSE run.appr[k]
  BY <1>4 DEF Changed
<1>6. \A k \in Designs : run.appr[k] # "none" => new.appr[k] # "none"
  BY <1>3, <1>5 DEF Follows, Grows
<1>7. Grows(run, new)
  BY <1>1, <1>2, <1>3, <1>4, <1>6 DEF Follows, Grows
<1>8. Ladder(new)
  <2>1. Ladder(seen)
    BY <1>1, <1>2 DEF Ladder
  <2> QED BY <1>3, <1>4, <2>1 DEF Follows, Ladder
<1>9. AskedOnce(new) /\ (HasProject => Told(new))
  <2> SUFFICES ASSUME HasProject PROVE AskedOnce(new) /\ Told(new)
    BY DEF AskedOnce
  <2>1. run.review # "none" => new.review # "none"
    BY <1>7 DEF Grows
  <2>2. ASSUME \A k \in Designs : new.appr[k] # "none" => run.appr[k] # "none"
        PROVE  AskedOnce(new)
    BY <1>2, <2>1, <2>2 DEF AskedOnce
  <2>3. ASSUME \A k \in Designs : left.appr[k] = seen.appr[k]
        PROVE  AskedOnce(new) /\ \A k \in Designs : new.appr[k] = run.appr[k]
    BY <1>5, <2>2, <2>3
  <2>4. CASE call.op \notin Flushing /\ left.status = seen.status /\ left.appr = seen.appr
    <3>1. new.status = run.status
      BY <1>4, <2>4
    <3> QED BY <1>2, <2>3, <2>4, <3>1 DEF Told, Pending
  <2>5. CASE /\ call.op \in Flushing /\ left.appr = seen.appr
             /\ left.status \notin {"completed", "rejected", "awaiting_approval"}
    BY <1>4, <2>3, <2>5 DEF Told
  <2>6. CASE call.op \in Flushing /\ \E d \in Designs : Asks(seen, left, d)
    <3>1. PICK d \in Designs : Asks(seen, left, d)
      BY <2>6
    <3>2. run.review = "none" /\ left.review # "none" /\ new.status = "awaiting_approval"
      BY <1>1, <1>4, <2>6, <3>1 DEF Asks
    <3>3. \A k \in Designs : run.appr[k] = "none" /\ seen.appr[k] = "none"
      BY <1>1, <1>2, <3>2 DEF AskedOnce
    <3>4. new.appr[d] = "pending" /\ \A k \in Designs \ {d} : new.appr[k] = "none"
      BY <1>5, <3>1, <3>3 DEF Asks
    <3>5. AskedOnce(new)
      BY <1>4, <3>2, <3>4 DEF AskedOnce
    <3> QED BY <3>2, <3>4, <3>5 DEF Told, Pending
  <2>7. CASE /\ call.op \notin Flushing
             /\ \E k \in Designs, how \in Decided, status \in RunStatus :
                    DecidedAs(seen, left, k, how, status)
    <3>1. PICK k \in Designs, how \in Decided, status \in RunStatus :
              DecidedAs(seen, left, k, how, status)
      BY <2>7
    <3>2. /\ seen.appr[k] = "pending" /\ left.appr[k] = how /\ left.status = status
          /\ \A j \in Designs \ {k} : left.appr[j] = seen.appr[j]
          /\ (how = "approved" /\ status = "completed")
                \/ (how = "rejected" /\ status = "rejected")
      BY <3>1 DEF DecidedAs, Pending
    <3>3. new.appr[k] = how /\ run.appr[k] # "none"
          /\ \A j \in Designs \ {k} : new.appr[j] = run.appr[j]
      BY <1>1, <1>5, <3>2
    <3>4. AskedOnce(new)
      BY <2>2, <3>3
    <3>5. \A j \in Designs : seen.appr[j] # "none" => j = k
      BY <1>1, <1>2, <3>3 DEF AskedOnce
    <3>6. left.status # seen.status
      BY <1>1, <3>2, <3>5 DEF Told
    <3>7. new.status = status
      BY <1>4, <3>2, <3>6
    <3> QED BY <3>2, <3>3, <3>4, <3>7 DEF Told
  <2> QED BY <1>3, <2>4, <2>5, <2>6, <2>7 DEF StatusMoves
<1>10. OrderedRow(new)
  BY <1>1, <1>2, <1>3, <1>4, <1>8, <1>9 DEF OrderedRow, Follows
<1> QED BY <1>4, <1>7, <1>10 DEF new, seen, run

-----------------------------------------------------------------------------
(* Steps on a run. *)

(* What every step is shown to do. *)
GoodStep == DesignInv' /\ RowsGrow(runs, runs') /\ CaseMoves(cases, cases')

LEMMA BeginGood ==
    ASSUME DesignInv, NEW c \in Clients, NEW op, NEW r \in Runs, Begin(c, op, r)
    PROVE  GoodStep
<1> DEFINE call == [op |-> op, at |-> r, read |-> runs[r]]
<1>1. runs[r] \in RunRows /\ OrderedRow(runs[r])
  BY DEF DesignInv, View, Views
<1>2. op \in RunOps
  BY DEF Begin, RunResults, RunOps
<1>3. runs[r].mode # "none"
  <2>1. SUFFICES ASSUME runs[r] = AbsentRun PROVE FALSE
    BY <1>1, <2>1 DEF OrderedRow
  <2>2. /\ View.runs[r] = AbsentRun /\ AbsentRun.mode = "none" /\ AbsentRun.stage = "none"
        /\ AbsentRun.approvedPlan = 0 /\ AbsentRun.status = "none" /\ Pending(AbsentRun) = {}
    BY <2>1 DEF View, AbsentRun, Pending
  <2>3. RunResults(op, View, r) = {}
    BY <1>2, <2>2 DEF RunResults, RunOps, AnalyzeRequirements, PreparePlan, ApprovePlan,
             RequestPlanRevision, GenerateTestCases, Evolve, ReviseCases, ProcessComments,
             Approve, ApproveDesign, Reject, PublishDesign, Reviewable, Asked, When
  <2> QED BY <2>3 DEF Begin
<1>4. call \in InFlight /\ CallFits(runs, cases, call)
  BY <1>1, <1>2, <1>3 DEF InFlight, RowCalls, RowOps, RunOps, CaseOps, CallFits, OrderedRow
<1> HIDE DEF call
<1>5. UNCHANGED <<runs, sizes, cases>> /\ calls' = [calls EXCEPT ![c] = call]
  BY DEF Begin, call
<1> QED BY <1>4, <1>5, InvAfterCall DEF GoodStep

LEMMA CommitGood ==
    ASSUME DesignInv, NEW c \in Clients, Commit(c)
    PROVE  GoodStep
<1> DEFINE call == calls[c]
           seen == Seen(call)
           v == With(View, call.at, seen)
<1>1. call \in RowCalls
  <2>1. /\ calls[c] \in InFlight /\ calls[c] # Idle
        /\ calls[c].op \notin {"picked", "poll", "publish-case", "automate"}
    BY DEF Commit, DesignInv
  <2>2. calls[c].op # "create-workspace"
    BY DEF Commit, RunResults
  <2> QED BY <2>1, <2>2 DEF InFlight, CaseOps, Idle
<1>2. /\ View \in Views /\ Keyed(cases) /\ call.at \in Runs /\ OrderedRow(runs[call.at])
      /\ CallFits(runs, cases, call)
  BY <1>1 DEF DesignInv, RowCalls
<1>3. seen \in RunRows
  BY <1>1, <1>2, SeenRow
<1>4. PICK left \in RunResults(call.op, v, call.at) :
          /\ runs' = [runs EXCEPT ![call.at] = Written(call, seen, left.runs[call.at])]
          /\ sizes' = left.sizes
          /\ cases' = left.cases
  BY DEF Commit
<1>5. calls' = [calls EXCEPT ![c] = Idle]
  BY DEF Commit
<1> HIDE DEF call, seen
<1>6. v = [runs |-> [runs EXCEPT ![call.at] = seen], sizes |-> sizes, cases |-> cases]
  BY DEF With, View
<1>7. v \in Views /\ v.cases = cases /\ v.runs[call.at] = seen
  BY <1>2, <1>3, <1>6 DEF View, Views
<1> HIDE DEF v
<1>8. Moves(call.op, v, call.at, left)
  BY <1>2, <1>4, <1>7, ResultMoves
<1> DEFINE row == left.runs[call.at]
           run == Written(call, seen, row)
<1>9. /\ Follows(seen, row) /\ StatusMoves(call.op, seen, row)
      /\ left \in Views /\ Keyed(left.cases) /\ CaseMoves(cases, left.cases)
  BY <1>7, <1>8 DEF Moves
<1> HIDE DEF row
<1>10. run \in RunRows /\ OrderedRow(run) /\ Grows(runs[call.at], run)
  BY <1>1, <1>2, <1>9, WrittenRow DEF seen
<1>11. runs' = [runs EXCEPT ![call.at] = run]
  BY <1>4 DEF row
<1> HIDE DEF run
<1>12. /\ sizes' \in Sizes /\ cases' \in [CaseIndex -> CaseRows] /\ Keyed(cases')
       /\ CaseMoves(cases, cases')
  BY <1>4, <1>9 DEF Views
<1>13. /\ View' \in Views /\ \A q \in Runs : OrderedRow(runs'[q])
       /\ RowsGrow(runs, runs')
  BY <1>2, <1>10, <1>11, <1>12, InvAfterRow
<1> QED BY <1>5, <1>12, <1>13, IdleFits, InvAfter DEF GoodStep

LEMMA RolledBackGood ==
    ASSUME DesignInv, NEW c \in Clients, RolledBack(c)
    PROVE  GoodStep
BY IdleFits, InvAfterCall DEF RolledBack, GoodStep

LEMMA BeginStartGood ==
    ASSUME DesignInv, NEW c \in Clients, NEW r \in Runs, BeginStart(c, r)
    PROVE  GoodStep
<1> DEFINE call == [op |-> "start", at |-> r, read |-> runs[r]]
<1>1. runs[r] \in RunRows /\ OrderedRow(runs[r]) /\ runs[r].status = "pending"
  BY DEF DesignInv, View, Views, BeginStart
<1>2. runs[r].mode # "none"
  BY <1>1 DEF OrderedRow, AbsentRun
<1>3. call \in InFlight /\ CallFits(runs, cases, call)
  BY <1>1, <1>2 DEF InFlight, RowCalls, RowOps, RunOps, CaseOps, CallFits, OrderedRow
<1> HIDE DEF call
<1>4. UNCHANGED <<runs, sizes, cases>> /\ calls' = [calls EXCEPT ![c] = call]
  BY DEF BeginStart, call
<1> QED BY <1>3, <1>4, InvAfterCall DEF GoodStep

LEMMA MarkRunningGood ==
    ASSUME DesignInv, NEW c \in Clients, MarkRunning(c)
    PROVE  GoodStep
<1> DEFINE call == calls[c]
           run == [runs[call.at] EXCEPT !.status = "running"]
           next == [call EXCEPT !.op = "graph"]
<1>1. call \in RowCalls /\ call.op = "start"
  BY DEF MarkRunning, DesignInv, InFlight, CaseOps
<1>2. /\ call.at \in Runs /\ runs[call.at] \in RunRows /\ OrderedRow(runs[call.at])
      /\ CallFits(runs, cases, call)
      /\ sizes \in Sizes /\ cases \in [CaseIndex -> CaseRows] /\ Keyed(cases)
  BY <1>1 DEF DesignInv, View, Views, RowCalls
<1>3. runs[call.at].mode # "none"
  BY <1>1, <1>2 DEF CallFits, RowOps
<1>4. /\ run \in RunRows /\ run.mode = runs[call.at].mode /\ run.vers = runs[call.at].vers
      /\ run.current = runs[call.at].current /\ run.events = runs[call.at].events
      /\ run.review = runs[call.at].review /\ run.appr = runs[call.at].appr
      /\ run.status = "running"
  BY <1>2 DEF RunRows, RunStatus
<1>5. /\ next \in RowCalls /\ next.op = "graph" /\ next.at = call.at
      /\ next.read = call.read
  BY <1>1 DEF RowCalls, RowOps
<1>6. runs' = [runs EXCEPT ![call.at] = run]
  BY DEF MarkRunning
<1>7. sizes' = sizes /\ cases' = cases /\ calls' = [calls EXCEPT ![c] = next]
  BY DEF MarkRunning
<1> HIDE DEF call, run, next
<1>8. OrderedRow(run) /\ Grows(runs[call.at], run)
  BY <1>2, <1>3, <1>4 DEF OrderedRow, AskedOnce, Ladder, Told, Pending, Grows
<1>9. CaseMoves(cases, cases')
  BY <1>7, SameCases
<1>10. /\ View' \in Views /\ \A q \in Runs : OrderedRow(runs'[q])
       /\ RowsGrow(runs, runs')
  BY <1>2, <1>4, <1>6, <1>7, <1>8, <1>9, InvAfterRow
<1>11. call \in InFlight /\ next \in InFlight
  BY <1>1, <1>5 DEF InFlight
<1>12. CallFits(runs', cases', call)
  BY <1>2, <1>9, <1>10, <1>11, FitsOn
<1>13. CallFits(runs', cases', next)
  BY <1>1, <1>5, <1>12 DEF CallFits, RowOps, CaseOps
<1>14. Keyed(cases')
  BY <1>2, <1>7
<1> QED BY <1>7, <1>9, <1>10, <1>11, <1>13, <1>14, InvAfter DEF GoodStep

-----------------------------------------------------------------------------
(* Picking up, creating and commenting. *)

LEMMA BeginPollGood ==
    ASSUME DesignInv, NEW c \in Clients, BeginPoll(c) \/ BeginCreate(c)
    PROVE  GoodStep
<1>1. PICK op \in {"poll", "create-workspace"} :
          UNCHANGED <<runs, sizes, cases>> /\ calls' = [calls EXCEPT ![c] = [op |-> op]]
  BY DEF BeginPoll, BeginCreate
<1>2. [op |-> op] \in InFlight /\ CallFits(runs, cases, [op |-> op])
  BY DEF InFlight, CallFits, RowOps, RunOps, CaseOps
<1> QED BY <1>1, <1>2, InvAfterCall DEF GoodStep

(* A new row takes a free place. *)
LEMMA CreatedGood ==
    ASSUME DesignInv, NEW r \in FreeRuns(View), NEW mode \in {"graph", "workspace"},
           runs' = Created(View, r, mode).runs, sizes' = sizes, cases' = cases
    PROVE  /\ View' \in Views /\ \A q \in Runs : OrderedRow(runs'[q])
           /\ RowsGrow(runs, runs') /\ runs'[r].mode # "none"
<1> DEFINE run == [AbsentRun EXCEPT !.mode = mode, !.status = "pending",
                      !.stage = IF mode = "workspace" THEN "intake_ready" ELSE "none"]
<1>1. r \in Runs /\ runs[r] = AbsentRun
  BY DEF FreeRuns, View, DesignInv, OrderedRow
<1>2. /\ sizes \in Sizes /\ cases \in [CaseIndex -> CaseRows] /\ Keyed(cases)
      /\ runs \in [Runs -> RunRows]
  BY DEF DesignInv, View, Views
<1>3. run \in RunRows
  BY <1>2, CreatedRow
<1>4. runs' = [runs EXCEPT ![r] = run]
  BY DEF Created, With, View
<1>5. /\ run.mode = mode /\ run.status = "pending"
      /\ run.appr = [k \in Designs |-> "none"] /\ run.vers = [n \in Designs |-> 0]
  BY DEF AbsentRun
<1> HIDE DEF run
<1>6. OrderedRow(run)
  BY <1>5 DEF OrderedRow, AskedOnce, Ladder, Told
<1>7. Grows(runs[r], run)
  BY <1>1 DEF Grows, AbsentRun
<1>8. CaseMoves(cases, cases')
  BY SameCases
<1>9. runs'[r] = run
  BY <1>1, <1>2, <1>4
<1>10. cases' \in [CaseIndex -> CaseRows] /\ Keyed(cases') /\ sizes' \in Sizes
  BY <1>2
<1>11. /\ View' \in Views /\ \A q \in Runs : OrderedRow(runs'[q])
       /\ RowsGrow(runs, runs')
  BY <1>1, <1>3, <1>4, <1>6, <1>7, <1>8, <1>10, InvAfterRow
<1> QED BY <1>5, <1>9, <1>11

LEMMA CommitPollGood ==
    ASSUME DesignInv, NEW c \in Clients, CommitPoll(c)
    PROVE  GoodStep
<1>1. PICK r \in FreeRuns(View) :
          /\ runs' = Created(View, r, "graph").runs
          /\ calls' = [calls EXCEPT ![c] = [op |-> "picked", at |-> r]]
  BY DEF CommitPoll
<1>2. sizes' = sizes /\ cases' = cases
  BY DEF CommitPoll
<1>3. /\ View' \in Views /\ \A q \in Runs : OrderedRow(runs'[q])
      /\ RowsGrow(runs, runs') /\ runs'[r].mode # "none"
  BY <1>1, <1>2, CreatedGood
<1>4. Keyed(cases') /\ CaseMoves(cases, cases') /\ r \in Runs
  BY <1>2, SameCases DEF DesignInv, FreeRuns
<1> DEFINE call == [op |-> "picked", at |-> r]
<1>5. call \in InFlight /\ CallFits(runs', cases', call)
  BY <1>3, <1>4 DEF InFlight, CallFits, RowOps, RunOps, CaseOps
<1> HIDE DEF call
<1>6. calls' = [calls EXCEPT ![c] = call]
  BY <1>1 DEF call
<1> QED BY <1>3, <1>4, <1>5, <1>6, InvAfter DEF GoodStep

LEMMA CommitCreateGood ==
    ASSUME DesignInv, NEW c \in Clients, CommitCreate(c)
    PROVE  GoodStep
<1>1. PICK r \in FreeRuns(View) : runs' = Created(View, r, "workspace").runs
  BY DEF CommitCreate
<1>2. sizes' = sizes /\ cases' = cases /\ calls' = [calls EXCEPT ![c] = Idle]
  BY DEF CommitCreate
<1>3. /\ View' \in Views /\ \A q \in Runs : OrderedRow(runs'[q])
      /\ RowsGrow(runs, runs')
  BY <1>1, <1>2, CreatedGood
<1>4. Keyed(cases') /\ CaseMoves(cases, cases')
  BY <1>2, SameCases DEF DesignInv
<1> QED BY <1>2, <1>3, <1>4, IdleFits, InvAfter DEF GoodStep

LEMMA CommentPostedGood ==
    ASSUME DesignInv, NEW r \in Runs, CommentPosted(r)
    PROVE  GoodStep
<1>1. PICK w \in PostComment(View, r) : runs' = w.runs /\ sizes' = w.sizes /\ cases' = w.cases
  BY DEF CommentPosted, Committed
<1> DEFINE run == [runs[r] EXCEPT !.posted = @ + 1]
<1>2. /\ runs[r] \in RunRows /\ runs[r].posted < MaxComments /\ runs[r].review # "none"
      /\ w = With(View, r, run) /\ OrderedRow(runs[r])
  BY DEF DesignInv, View, Views, PostComment, When
<1>3. runs[r].mode # "none"
  BY <1>2 DEF OrderedRow, AbsentRun
<1>4. runs[r].posted + 1 \in 0..MaxComments
  BY <1>2, DesignBounds DEF RunRows
<1>5. /\ run \in RunRows /\ run.mode = runs[r].mode /\ run.vers = runs[r].vers
      /\ run.current = runs[r].current /\ run.events = runs[r].events
      /\ run.review = runs[r].review /\ run.appr = runs[r].appr
      /\ run.status = runs[r].status
  BY <1>2, <1>4 DEF RunRows
<1> HIDE DEF run
<1>6. runs' = [runs EXCEPT ![r] = run] /\ sizes' = sizes /\ cases' = cases
  BY <1>1, <1>2 DEF With, View
<1>7. OrderedRow(run) /\ Grows(runs[r], run)
  BY <1>2, <1>3, <1>5 DEF OrderedRow, AskedOnce, Ladder, Told, Pending, Grows
<1>8. /\ sizes' \in Sizes /\ cases' \in [CaseIndex -> CaseRows] /\ Keyed(cases')
      /\ CaseMoves(cases, cases')
  BY <1>6, SameCases DEF DesignInv, View, Views
<1>9. /\ View' \in Views /\ \A q \in Runs : OrderedRow(runs'[q])
      /\ RowsGrow(runs, runs')
  BY <1>5, <1>6, <1>7, <1>8, InvAfterRow
<1>10. calls' = calls
  BY DEF CommentPosted
<1>11. ASSUME NEW c \in Clients PROVE CallFits(runs', cases', calls'[c])
  BY <1>8, <1>9, <1>10, FitsOn DEF DesignInv
<1> QED BY <1>8, <1>9, <1>10, <1>11 DEF GoodStep, DesignInv

-----------------------------------------------------------------------------
(* Steps on a test case. *)

LEMMA BeginCaseGood ==
    ASSUME DesignInv, NEW c \in Clients, NEW op, NEW i \in CaseIndex, BeginCase(c, op, i)
    PROVE  GoodStep
<1> DEFINE call == [op |-> op, at |-> i]
<1>1. op \in CaseOps /\ cases[i].run # 0
  <2>1. CASE op = "publish-case" /\ PublishCase(View, i) # {}
    BY <2>1 DEF PublishCase, When, View, CaseOps
  <2>2. CASE op = "automate" /\ Automate(View, i) # {}
    <3>1. cases[i].pub = "published"
      BY <2>2 DEF Automate, When, View
    <3>2. cases[i] # AbsentCase
      BY <3>1 DEF AbsentCase
    <3> QED BY <2>2, <3>2 DEF CaseOps, DesignInv, Keyed
  <2> QED BY <2>1, <2>2 DEF BeginCase
<1>2. call \in InFlight /\ CallFits(runs, cases, call)
  BY <1>1 DEF InFlight, CallFits, RowOps, RunOps, CaseOps
<1> HIDE DEF call
<1>3. UNCHANGED <<runs, sizes, cases>> /\ calls' = [calls EXCEPT ![c] = call]
  BY DEF BeginCase, call
<1> QED BY <1>2, <1>3, InvAfterCall DEF GoodStep

LEMMA CommitCaseGood ==
    ASSUME DesignInv, NEW c \in Clients, CommitCase(c)
    PROVE  GoodStep
<1> DEFINE i == calls[c].at
<1>1. calls[c] \in [op : CaseOps, at : CaseIndex]
  <2>1. calls[c] \in InFlight /\ calls[c].op \in CaseOps
    BY DEF CommitCase, DesignInv, CaseOps
  <2> QED BY <2>1 DEF InFlight, RowCalls, RowOps, RunOps, CaseOps
<1>2. /\ i \in CaseIndex /\ cases[i].run # 0 /\ cases \in [CaseIndex -> CaseRows]
      /\ Keyed(cases) /\ View \in Views
  BY <1>1 DEF DesignInv, View, Views, CallFits
<1>3. runs' = runs /\ sizes' = sizes /\ calls' = [calls EXCEPT ![c] = Idle]
  BY DEF CommitCase
<1>4. \/ cases' = cases
      \/ cases' = [cases EXCEPT ![i].pub = "published"]
      \/ cases' = [cases EXCEPT ![i].session = TRUE]
  BY DEF CommitCase
<1> HIDE DEF i
<1>5. cases' \in [CaseIndex -> CaseRows] /\ Keyed(cases') /\ CaseMoves(cases, cases')
  <2>1. CASE cases' = cases
    BY <1>2, <2>1, SameCases
  <2>2. CASE cases' = [cases EXCEPT ![i].pub = "published"]
    <3>1. /\ cases'[i] \in CaseRows /\ cases'[i].run = cases[i].run
          /\ cases'[i].design = cases[i].design /\ cases'[i].pub = "published"
          /\ cases'[i].session = cases[i].session
      BY <1>2, <2>2 DEF CaseRows
    <3>2. \A j \in CaseIndex \ {i} : cases'[j] = cases[j]
      BY <1>2, <2>2
    <3>3. cases' \in [CaseIndex -> CaseRows]
      BY <1>2, <2>2, <3>1, <3>2
    <3> QED BY <1>2, <3>1, <3>2, <3>3 DEF Keyed, CaseMoves
  <2>3. CASE cases' = [cases EXCEPT ![i].session = TRUE]
    <3>1. /\ cases'[i] \in CaseRows /\ cases'[i].run = cases[i].run
          /\ cases'[i].design = cases[i].design /\ cases'[i].pub = cases[i].pub
          /\ cases'[i].session
      BY <1>2, <2>3 DEF CaseRows
    <3>2. \A j \in CaseIndex \ {i} : cases'[j] = cases[j]
      BY <1>2, <2>3
    <3>3. cases' \in [CaseIndex -> CaseRows]
      BY <1>2, <2>3, <3>1, <3>2
    <3> QED BY <1>2, <3>1, <3>2, <3>3 DEF Keyed, CaseMoves
  <2> QED BY <1>4, <2>1, <2>2, <2>3
<1>6. View' \in Views
  BY <1>2, <1>3, <1>5 DEF View, Views
<1>7. RowsGrow(runs, runs') /\ \A r \in Runs : OrderedRow(runs'[r])
  BY <1>3 DEF RowsGrow, Grows, DesignInv
<1> QED BY <1>3, <1>5, <1>6, <1>7, IdleFits, InvAfter DEF GoodStep

-----------------------------------------------------------------------------
(* The specification. *)

LEMMA DesignInit == ConcurrentInit => DesignInv
<1> SUFFICES ASSUME ConcurrentInit PROVE DesignInv
  OBVIOUS
<1>1. AbsentRun \in RunRows /\ AbsentCase \in CaseRows
  BY DesignBounds DEF AbsentRun, RunRows, RunStatus, Stages, Decisions, ReviewState,
                      ApprovalRows, SubjectRows, VersionRows, EventRows, AbsentCase, CaseRows
<1>2. View \in Views /\ Keyed(cases)
  BY <1>1, DesignBounds DEF ConcurrentInit, Init, View, Views, Sizes, Keyed
<1>3. \A r \in Runs : OrderedRow(runs[r])
  BY DEF ConcurrentInit, Init, OrderedRow, AbsentRun, AskedOnce, Ladder, Told
<1>4. /\ calls \in [Clients -> InFlight]
      /\ \A c \in Clients : CallFits(runs, cases, calls[c])
  BY IdleFits DEF ConcurrentInit
<1> QED BY <1>2, <1>3, <1>4 DEF DesignInv

LEMMA DesignStep ==
    ASSUME DesignInv, [ConcurrentNext]_cvars
    PROVE  GoodStep
<1>1. ASSUME NEW c \in Clients, ClientStep(c) PROVE GoodStep
  <2>1. CASE \E op \in Calls, r \in Runs : Begin(c, op, r)
    BY <2>1, BeginGood
  <2>2. CASE Commit(c)
    BY <2>2, CommitGood
  <2>3. CASE \E r \in Runs : BeginStart(c, r)
    BY <2>3, BeginStartGood
  <2>4. CASE BeginPoll(c) \/ BeginCreate(c)
    BY <2>4, BeginPollGood
  <2>5. CASE \E op \in Calls, i \in CaseIndex : BeginCase(c, op, i)
    BY <2>5, BeginCaseGood
  <2>6. CASE MarkRunning(c)
    BY <2>6, MarkRunningGood
  <2>7. CASE CommitPoll(c)
    BY <2>7, CommitPollGood
  <2>8. CASE CommitCreate(c)
    BY <2>8, CommitCreateGood
  <2>9. CASE CommitCase(c)
    BY <2>9, CommitCaseGood
  <2> QED BY <1>1, <2>1, <2>2, <2>3, <2>4, <2>5, <2>6, <2>7, <2>8, <2>9 DEF ClientStep
<1>2. CASE \E c \in Clients : ClientStep(c) \/ RolledBack(c)
  BY <1>1, <1>2, RolledBackGood
<1>3. CASE \E r \in Runs : CommentPosted(r)
  BY <1>3, CommentPostedGood
<1>4. CASE UNCHANGED cvars
  <2>1. UNCHANGED <<runs, sizes, cases, calls>>
    BY <1>4 DEF cvars
  <2>2. RowsGrow(runs, runs') /\ CaseMoves(cases, cases')
    BY <2>1, SameCases DEF RowsGrow, Grows
  <2>3. View' = View
    BY <2>1 DEF View
  <2>4. DesignInv'
    BY <2>1, <2>3 DEF DesignInv
  <2> QED BY <2>2, <2>4 DEF GoodStep
<1> QED BY <1>2, <1>3, <1>4 DEF ConcurrentNext

(* The inductive invariant of the overlapping requests: every row stays in its
   columns, orders its versions, its review issue and its decision, and fits
   every call that has read it. *)
THEOREM DesignInvariance == ConcurrentSpec => []DesignInv
<1>1. DesignInv /\ [ConcurrentNext]_cvars => DesignInv'
  BY DesignStep DEF GoodStep
<1> QED BY <1>1, DesignInit, PTL DEF ConcurrentSpec

(* Revisions that overlap leave the newest version current. *)
THEOREM CurrentIsNewest == ConcurrentSpec => []NewestIsCurrent
<1>1. DesignInv => NewestIsCurrent
  BY DEF DesignInv, OrderedRow, Ladder, NewestIsCurrent
<1> QED BY <1>1, DesignInvariance, PTL

(* The status tells the decision although each is written by whichever call
   changed it, over what another has written since it was read: for a story with
   a project, whose runs have one decision each. *)
THEOREM ConcurrentStatus ==
    ASSUME HasProject
    PROVE  ConcurrentSpec => []StatusTold
<1>1. DesignInv => StatusTold
  BY DEF DesignInv, OrderedRow, Told, StatusTold
<1> QED BY <1>1, DesignInvariance, PTL

(* No revision takes the number of another. *)
THEOREM VersionsKept == ConcurrentSpec => VersionsStand
<1>1. DesignInv /\ [ConcurrentNext]_cvars =>
        [\A r \in Runs : \A n \in Designs :
            runs[r].vers[n] # 0 => runs'[r].vers[n] = runs[r].vers[n]]_cvars
  BY DesignStep DEF GoodStep, RowsGrow, Grows
<1> QED BY <1>1, DesignInvariance, PTL DEF ConcurrentSpec, VersionsStand

(* A comment gets its outcome from one of the calls that read it. *)
THEOREM CommentsDecidedOnce == ConcurrentSpec => CommentOnce
<1>1. DesignInv /\ [ConcurrentNext]_cvars =>
        [\A r \in Runs : \A k \in Comments :
            runs[r].events[k] # "none" => runs'[r].events[k] = runs[r].events[k]]_cvars
  BY DesignStep DEF GoodStep, RowsGrow, Grows
<1> QED BY <1>1, DesignInvariance, PTL DEF ConcurrentSpec, CommentOnce

(* The backlog forgets neither the origin of a case nor that it was published
   or automated. *)
THEOREM CasesKept == ConcurrentSpec => CasesStand
<1>1. DesignInv /\ [ConcurrentNext]_cvars =>
        [\A i \in CaseIndex :
            /\ cases[i].run # 0 => /\ cases'[i].run = cases[i].run
                                   /\ cases'[i].design = cases[i].design
            /\ cases[i].pub = "published" => cases'[i].pub = "published"
            /\ cases[i].session => cases'[i].session]_cvars
  BY DesignStep DEF GoodStep, CaseMoves
<1> QED BY <1>1, DesignInvariance, PTL DEF ConcurrentSpec, CasesStand

=============================================================================
