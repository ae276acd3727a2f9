-------------------------- MODULE TestDesignRun_proofs --------------------------
(***************************************************************************)
(* Theorems about TestDesignRun for every number of runs, designs, plans,  *)
(* comments and cases, and every set of operations clients use.            *)
(*                                                                         *)
(* The rows form a Sound view: RowInv is what each run keeps (an approval  *)
(* has a design and a version; with a project, a run has one review issue  *)
(* row and then one approval; the open design is the newest, the status    *)
(* tells of a decision), Dense that designs are numbered without gaps, and *)
(* CasesBacked and Backlogged that backlog and approvals fit.  Outcome(v)  *)
(* holds the sound views that keep every decision of v and the promise of  *)
(* DesignGate; each operation leaves one of them.                          *)
(***************************************************************************)
EXTENDS TestDesignRun, FiniteSetTheorems, TLAPS

Decided == {"approved", "rejected"}

Told(run) ==
    /\ run.status = "completed" => \E k \in Designs : run.appr[k] = "approved"
    /\ run.status = "rejected" => \E k \in Designs : run.appr[k] = "rejected"
    /\ run.status = "awaiting_approval" => Pending(run) # {}

Newest(run) ==
    run.review # "none" => \A k \in Pending(run) :
        /\ run.current \in Designs
        /\ run.subject[k] = run.vers[run.current]
        /\ run.design = run.subject[k]
        /\ \A n \in Designs : run.vers[n] # 0 => n <= run.current

(* An approval is named by a design, is about a design, and has a version
   behind it. *)
Founded(sz, run) ==
    \A k \in Designs : run.appr[k] # "none" =>
        /\ sz[k] # 0 /\ run.vers[1] # 0
        /\ run.subject[k] \in Designs /\ sz[run.subject[k]] # 0

(* The one review issue row of a run comes before its one approval. *)
Single(run) ==
    HasProject =>
        /\ run.review = "none" => \A k \in Designs : run.appr[k] = "none" /\ run.vers[k] = 0
        /\ \A k, j \in Designs : run.appr[k] # "none" /\ run.appr[j] # "none" => k = j

RowInv(sz, run) ==
    /\ run.mode = "none" => run = AbsentRun
    /\ ~HasProject => run.review = "none"
    /\ Single(run)
    /\ Founded(sz, run)
    /\ run.approvedPlan \in {0, run.plan}
    /\ Newest(run)
    /\ Told(run)

Dense(sz) == \A d, e \in Designs : e < d /\ sz[d] # 0 => sz[e] # 0

CasesBacked(v) ==
    \A i \in CaseIndex :
        \/ v.cases[i] = AbsentCase
        \/ /\ v.cases[i].run \in Runs
           /\ \E k \in Approved(v.runs[v.cases[i].run]) :
                 v.cases[i].design = v.runs[v.cases[i].run].subject[k]
           /\ i <= v.sizes[v.cases[i].design]

Backlogged(v, r) ==
    \A k \in Approved(v.runs[r]) :
        \A i \in CaseIndex : i <= v.sizes[v.runs[r].subject[k]] => v.cases[i].run # 0

Sizes == [Designs -> 0..MaxCases]

Views == [runs : [Runs -> RunRows], sizes : Sizes, cases : [CaseIndex -> CaseRows]]

Sound(v) ==
    /\ v \in Views
    /\ \A r \in Runs : RowInv(v.sizes, v.runs[r])
    /\ Dense(v.sizes)
    /\ CasesBacked(v)
    /\ \A r \in Runs : Backlogged(v, r)

(* A step keeps what was decided on approval k of a run. *)
Lasting(old, new, k) ==
    /\ new.appr[k] = old.appr[k]
    /\ new.subject[k] = old.subject[k]
    /\ \A n \in Designs :
          new.vers[n] # old.vers[n] => old.vers[n] = 0 /\ Pending(old) # {}

(* What a step may do to the row of a run without deciding for approval. *)
Keeps(old, new) ==
    \A k \in Designs :
        /\ old.appr[k] \in Decided => Lasting(old, new, k)
        /\ new.appr[k] = "approved" => old.appr[k] = "approved"

Undecided(old, new) ==
    \A k \in Designs : Decision(new.appr[k]) = Decision(old.appr[k])

Grown(old, new) == \A d \in Designs : old[d] # 0 => new[d] = old[d]

Stand(v, w) ==
    \A r \in Runs : \A k \in Designs :
        v.runs[r].appr[k] \in Decided => Lasting(v.runs[r], w.runs[r], k)

(* DesignGate's step on views. *)
SameDecisions(v, w) == \A r \in Runs : Undecided(v.runs[r], w.runs[r])

Decides(v, w, r, k, how) ==
    /\ Decision(v.runs[r].appr[k]) = "open"
    /\ \A j \in Designs :
          Decision(w.runs[r].appr[j]) = IF j = k THEN how ELSE Decision(v.runs[r].appr[j])
    /\ \A q \in Runs \ {r} : Undecided(v.runs[q], w.runs[q])

Listed(v, w, r, S, T) ==
    \A i \in CaseIndex :
        /\ w.cases[i].run = IF i \in S /\ v.cases[i].run = 0 THEN r ELSE v.cases[i].run
        /\ w.cases[i].pub = "published" <=> v.cases[i].pub = "published" \/ i \in T
        /\ w.cases[i].session = v.cases[i].session

Published(v, w, S) ==
    \A i \in CaseIndex :
        /\ w.cases[i].run = v.cases[i].run
        /\ w.cases[i].pub = "published" <=> v.cases[i].pub = "published" \/ i \in S
        /\ w.cases[i].session = v.cases[i].session

Automated(v, w, i) ==
    /\ v.cases[i].pub = "published" /\ ~v.cases[i].session
    /\ w.cases = [v.cases EXCEPT ![i].session = TRUE]

Promise(v, w) ==
    \/ SameDecisions(v, w) /\ w.cases = v.cases
    \/ \E r \in Runs, k \in Designs : Decides(v, w, r, k, "rejected") /\ w.cases = v.cases
    \/ \E r \in Runs, k \in Designs, S \in SUBSET CaseIndex : \E T \in SUBSET S :
          Decides(v, w, r, k, "approved") /\ Listed(v, w, r, S, T)
    \/ \E S \in SUBSET {i \in CaseIndex : v.cases[i].run # 0} :
          SameDecisions(v, w) /\ Published(v, w, S)
    \/ \E i \in CaseIndex : SameDecisions(v, w) /\ Automated(v, w, i)

Outcome(v) == {w \in Views : Sound(w) /\ Stand(v, w) /\ Promise(v, w)}

-----------------------------------------------------------------------------
(* Steps that write one run, and may add designs. *)

(* The view with row run for r and artifacts sz. *)
Redone(v, r, run, sz) ==
    [runs |-> [v.runs EXCEPT ![r] = run], sizes |-> sz, cases |-> v.cases]

LEMMA WithRedone ==
    ASSUME NEW v \in Views, NEW r, NEW run
    PROVE  With(v, r, run) = Redone(v, r, run, v.sizes)
BY DEF With, Redone, Views

LEMMA WithDesignRedone ==
    ASSUME NEW v \in Views, NEW r, NEW run, NEW d, NEW s
    PROVE  WithDesign(v, d, s, r, run) = Redone(v, r, run, [v.sizes EXCEPT ![d] = s])
<1> DEFINE sz == [v.sizes EXCEPT ![d] = s]
           u == [v EXCEPT !.sizes[d] = s]
<1>1. u = [runs |-> v.runs, sizes |-> sz, cases |-> v.cases]
  BY DEF Views
<1> HIDE DEF u, sz
<1>2. [u EXCEPT !.runs[r] = run]
         = [runs |-> [v.runs EXCEPT ![r] = run], sizes |-> sz, cases |-> v.cases]
  BY <1>1
<1> QED BY <1>2 DEF WithDesign, With, Redone, u, sz

(* A row that holds when designs are added. *)
LEMMA GrownRow ==
    ASSUME NEW sz, NEW new, Grown(sz, new), NEW run \in RunRows, RowInv(sz, run)
    PROVE  RowInv(new, run)
<1>1. Founded(new, run)
  BY DEF RowInv, Founded, Grown
<1> QED BY <1>1 DEF RowInv

(* A row that is sound by itself, and keeps the decisions of the row it
   replaces, leaves a sound view. *)
LEMMA RedoneSound ==
    ASSUME NEW v \in Views, Sound(v), NEW r \in Runs, NEW run \in RunRows,
           NEW sz \in Sizes, Grown(v.sizes, sz), Dense(sz),
           RowInv(sz, run), Keeps(v.runs[r], run),
           NEW w, w = Redone(v, r, run, sz)
    PROVE  /\ w \in Views /\ Sound(w) /\ Stand(v, w) /\ w.cases = v.cases
           /\ w.runs[r] = run /\ \A q \in Runs \ {r} : w.runs[q] = v.runs[q]
<1>1. w \in Views
  BY DEF Redone, Views
<1>2. /\ w.sizes = sz /\ w.cases = v.cases /\ w.runs[r] = run
      /\ \A q \in Runs \ {r} : w.runs[q] = v.runs[q]
  BY DEF Redone, Views
<1>3. Stand(v, w)
  <2> SUFFICES ASSUME NEW q \in Runs, NEW k \in Designs, v.runs[q].appr[k] \in Decided
               PROVE  Lasting(v.runs[q], w.runs[q], k)
    BY DEF Stand
  <2>1. CASE q = r
    BY <1>2, <2>1 DEF Keeps
  <2>2. CASE q # r
    BY <1>2, <2>2 DEF Lasting
  <2> QED BY <2>1, <2>2
<1>4. ASSUME NEW q \in Runs PROVE RowInv(w.sizes, w.runs[q])
  <2>1. CASE q = r
    BY <1>2, <2>1
  <2>2. CASE q # r
    <3>1. RowInv(v.sizes, v.runs[q]) /\ v.runs[q] \in RunRows
      BY DEF Sound, Views
    <3> QED BY <1>2, <2>2, <3>1, GrownRow
  <2> QED BY <2>1, <2>2
<1>5. ASSUME NEW q \in Runs, NEW k \in Approved(v.runs[q])
      PROVE  /\ k \in Approved(w.runs[q]) /\ w.runs[q].subject[k] = v.runs[q].subject[k]
             /\ v.runs[q].subject[k] \in Designs
             /\ w.sizes[v.runs[q].subject[k]] = v.sizes[v.runs[q].subject[k]]
  <2>1. k \in Designs /\ v.runs[q].appr[k] = "approved"
    BY DEF Approved
  <2>2. v.runs[q].subject[k] \in Designs /\ v.sizes[v.runs[q].subject[k]] # 0
    BY <2>1 DEF Sound, RowInv, Founded
  <2>3. Lasting(v.runs[q], w.runs[q], k)
    BY <1>3, <2>1 DEF Stand, Decided
  <2> QED BY <1>2, <2>1, <2>2, <2>3 DEF Lasting, Grown, Approved
<1>6. CasesBacked(w)
  <2> SUFFICES ASSUME NEW i \in CaseIndex, v.cases[i] # AbsentCase
               PROVE  /\ v.cases[i].run \in Runs
                      /\ \E k \in Approved(w.runs[v.cases[i].run]) :
                            v.cases[i].design = w.runs[v.cases[i].run].subject[k]
                      /\ i <= w.sizes[v.cases[i].design]
    BY <1>2 DEF CasesBacked
  <2>1. v.cases[i].run \in Runs /\ i <= v.sizes[v.cases[i].design]
    BY DEF Sound, CasesBacked
  <2>2. PICK k \in Approved(v.runs[v.cases[i].run]) :
            v.cases[i].design = v.runs[v.cases[i].run].subject[k]
    BY DEF Sound, CasesBacked
  <2> QED BY <1>5, <2>1, <2>2
<1>7. ASSUME NEW q \in Runs PROVE Backlogged(w, q)
  <2> SUFFICES ASSUME NEW k \in Approved(w.runs[q])
               PROVE  \A i \in CaseIndex :
                          i <= w.sizes[w.runs[q].subject[k]] => w.cases[i].run # 0
    BY DEF Backlogged
  <2>1. k \in Approved(v.runs[q])
    BY <1>2 DEF Keeps, Approved
  <2> QED BY <1>2, <1>5, <2>1 DEF Sound, Backlogged
<1>8. Sound(w)
  BY <1>1, <1>2, <1>4, <1>6, <1>7 DEF Sound
<1> QED BY <1>1, <1>2, <1>3, <1>8

LEMMA RedoneOutcome ==
    ASSUME NEW v \in Views, Sound(v), NEW r \in Runs, NEW run \in RunRows,
           NEW sz \in Sizes, Grown(v.sizes, sz), Dense(sz),
           RowInv(sz, run), Keeps(v.runs[r], run), Undecided(v.runs[r], run)
    PROVE  Redone(v, r, run, sz) \in Outcome(v)
<1> DEFINE w == Redone(v, r, run, sz)
<1>1. /\ w \in Views /\ Sound(w) /\ Stand(v, w) /\ w.cases = v.cases
      /\ w.runs[r] = run /\ \A q \in Runs \ {r} : w.runs[q] = v.runs[q]
  BY RedoneSound
<1> HIDE DEF w
<1>2. SameDecisions(v, w)
  BY <1>1 DEF SameDecisions, Undecided
<1> QED BY <1>1, <1>2 DEF Outcome, Promise, w

(* The same for a step that makes no design. *)
LEMMA WithOutcome ==
    ASSUME NEW v \in Views, Sound(v), NEW r \in Runs, NEW run \in RunRows,
           RowInv(v.sizes, run), Keeps(v.runs[r], run), Undecided(v.runs[r], run)
    PROVE  With(v, r, run) \in Outcome(v)
<1>1. v.sizes \in Sizes /\ Grown(v.sizes, v.sizes) /\ Dense(v.sizes)
  BY DEF Views, Grown, Sound
<1> QED BY <1>1, WithRedone, RedoneOutcome

(* The next artifact leaves the numbering dense. *)
LEMMA FreshDesign ==
    ASSUME NEW v \in Views, Sound(v), NEW d \in Fresh(v), NEW s \in CaseIndex
    PROVE  LET sz == [v.sizes EXCEPT ![d] = s]
           IN  /\ sz \in Sizes /\ Grown(v.sizes, sz) /\ Dense(sz) /\ sz[d] # 0
               /\ d \in Designs /\ \A r \in Runs : v.runs[r].appr[d] = "none"
<1>1. /\ d \in Designs /\ v.sizes[d] = 0 /\ v.sizes \in Sizes
      /\ \A e \in 1..(d - 1) : v.sizes[e] # 0
  BY DEF Fresh, Views
<1>2. s \in 0..MaxCases /\ s # 0
  BY DesignBounds DEF CaseIndex
<1> DEFINE sz == [v.sizes EXCEPT ![d] = s]
<1>3. sz \in Sizes /\ sz[d] = s /\ \A e \in Designs \ {d} : sz[e] = v.sizes[e]
  BY <1>1, <1>2 DEF Sizes
<1> HIDE DEF sz
<1>4. Grown(v.sizes, sz)
  BY <1>1, <1>3 DEF Grown
<1>5. Dense(sz)
  <2> SUFFICES ASSUME NEW a \in Designs, NEW e \in Designs, e < a, sz[a] # 0
               PROVE  sz[e] # 0
    BY DEF Dense
  <2>1. CASE e = d
    BY <1>2, <1>3, <2>1
  <2>2. CASE e # d /\ a = d
    BY <1>1, <1>3, <2>2, DesignBounds DEF Designs
  <2>3. CASE e # d /\ a # d
    BY <1>3, <2>3 DEF Sound, Dense
  <2> QED BY <2>1, <2>2, <2>3
<1>6. \A r \in Runs : v.runs[r].appr[d] = "none"
  BY <1>1 DEF Sound, RowInv, Founded
<1> QED BY <1>1, <1>2, <1>3, <1>4, <1>5, <1>6 DEF sz

(* A call that leaves the review, the decision and the versions alone. *)
LEMMA EditedOutcome ==
    ASSUME NEW v, Sound(v), NEW r \in Runs, NEW run \in RunRows,
           v.runs[r].mode # "none", run.mode = v.runs[r].mode,
           run.review = v.runs[r].review, run.appr = v.runs[r].appr,
           run.subject = v.runs[r].subject, run.vers = v.runs[r].vers,
           run.current = v.runs[r].current, run.design = v.runs[r].design,
           run.approvedPlan \in {0, run.plan}, Told(run)
    PROVE  With(v, r, run) \in Outcome(v)
<1>1. v \in Views /\ RowInv(v.sizes, v.runs[r])
  BY DEF Sound
<1>2. RowInv(v.sizes, run)
  BY <1>1 DEF RowInv, Newest, Single, Founded, Pending
<1>3. Keeps(v.runs[r], run) /\ Undecided(v.runs[r], run)
  BY DEF Keeps, Lasting, Undecided
<1> QED BY <1>1, <1>2, <1>3, WithOutcome

-----------------------------------------------------------------------------
(* Runs: what each call leaves. *)

LEMMA CreatedRow ==
    ASSUME NEW mode \in {"graph", "workspace"}, NEW sz \in Sizes
    PROVE  LET run == [AbsentRun EXCEPT !.mode = mode, !.status = "pending",
                          !.stage = IF mode = "workspace" THEN "intake_ready" ELSE "none"]
           IN  run \in RunRows /\ RowInv(sz, run)
<1> DEFINE run == [AbsentRun EXCEPT !.mode = mode, !.status = "pending",
                      !.stage = IF mode = "workspace" THEN "intake_ready" ELSE "none"]
<1>1. AbsentRun \in RunRows
  BY DesignBounds DEF AbsentRun, RunRows, RunStatus, Stages, Decisions, ReviewState,
                      ApprovalRows, SubjectRows, VersionRows, EventRows
<1>2. /\ run \in RunRows /\ run.mode = mode /\ run.status = "pending"
      /\ run.review = "none" /\ run.appr = [k \in Designs |-> "none"]
      /\ run.approvedPlan = 0 /\ run.vers = [n \in Designs |-> 0]
  BY <1>1 DEF AbsentRun, RunRows, RunStatus, Stages
<1> HIDE DEF run
<1>3. RowInv(sz, run)
  BY <1>2 DEF RowInv, Newest, Single, Founded, Told
<1> QED BY <1>2, <1>3 DEF run

LEMMA CreatedOutcome ==
    ASSUME NEW v, Sound(v), NEW r \in FreeRuns(v), NEW mode \in {"graph", "workspace"}
    PROVE  Created(v, r, mode) \in Outcome(v)
<1>1. r \in Runs /\ v.runs[r].mode = "none"
  BY DEF FreeRuns
<1>2. /\ v \in Views /\ v.sizes \in Sizes
      /\ v.runs[r].appr = [k \in Designs |-> "none"]
  BY <1>1 DEF Sound, Views, RowInv, AbsentRun
<1> DEFINE run == [AbsentRun EXCEPT !.mode = mode, !.status = "pending",
                      !.stage = IF mode = "workspace" THEN "intake_ready" ELSE "none"]
<1>3. run \in RunRows /\ RowInv(v.sizes, run) /\ run.appr = [k \in Designs |-> "none"]
  BY <1>2, CreatedRow DEF AbsentRun
<1> HIDE DEF run
<1>4. Keeps(v.runs[r], run) /\ Undecided(v.runs[r], run)
  BY <1>2, <1>3 DEF Keeps, Undecided, Decided
<1>5. With(v, r, run) \in Outcome(v)
  BY <1>1, <1>2, <1>3, <1>4, WithOutcome
<1> QED BY <1>5 DEF Created, run

(* A run for which a design was drafted in this call. *)
LEMMA DraftedRow ==
    ASSUME NEW sz, NEW run \in RunRows, RowInv(sz, run), run.mode # "none", run.review = "none",
           NEW d \in Designs, NEW review \in {Refused(run)} \cup When(HasProject, {"published"})
    PROVE  LET new == Drafted(run, d, review)
           IN  /\ new \in RunRows /\ new.mode = run.mode /\ new.review = review
               /\ new.status = run.status
               /\ new.appr = run.appr /\ new.subject = run.subject
               /\ new.approvedPlan = run.approvedPlan /\ new.plan = run.plan
               /\ new.vers[1] # 0
               /\ \A n \in Designs : new.vers[n] # run.vers[n] =>
                     run.vers[n] = 0 /\ \A k \in Designs : run.appr[k] = "none"
               /\ HasProject =>
                     /\ new.current = 1 /\ 1 \in Designs /\ new.design = d /\ new.vers[1] = d
                     /\ \A n \in Designs : new.vers[n] # 0 => n <= 1
<1>1. d # 0 /\ 1 \in Designs /\ d \in 0..MaxDesigns /\ 1 \in 0..MaxDesigns
  BY DesignBounds DEF Designs
<1> DEFINE new == Drafted(run, d, review)
           vs == [run.vers EXCEPT ![1] = IF run.vers[1] = 0 THEN d ELSE run.vers[1]]
<1>2. /\ vs \in VersionRows /\ vs[1] = (IF run.vers[1] = 0 THEN d ELSE run.vers[1])
      /\ \A n \in Designs : n # 1 => vs[n] = run.vers[n]
  BY <1>1 DEF RunRows, VersionRows
<1>3. /\ new.vers = vs /\ new.current = (IF run.vers[1] = 0 THEN 1 ELSE run.current)
      /\ new.design = d /\ new.review = review
  BY <1>1 DEF Drafted, RunRows, VersionRows
<1>4. /\ new.mode = run.mode /\ new.appr = run.appr /\ new.subject = run.subject
      /\ new.approvedPlan = run.approvedPlan /\ new.plan = run.plan
      /\ new.status = run.status
  BY <1>1 DEF Drafted, RunRows
<1>5. review \in ReviewState
  BY DEF Refused, When, ReviewState
<1> HIDE DEF vs
<1>6. new \in RunRows
  <2>1. new.current \in 0..MaxDesigns
    BY <1>1, <1>3 DEF RunRows
  <2>2. Drafted(run, d, review) =
            [run EXCEPT !.vers = new.vers, !.current = new.current, !.design = d,
                        !.review = review]
    BY DEF Drafted, RunRows
  <2>3. \A c \in 0..MaxDesigns :
            [run EXCEPT !.vers = vs, !.current = c, !.design = d, !.review = review] \in RunRows
    BY <1>1, <1>2, <1>5 DEF RunRows
  <2> QED BY <1>3, <2>1, <2>2, <2>3
<1>7. new.vers[1] # 0
  BY <1>1, <1>2, <1>3
<1>8. ASSUME NEW n \in Designs, new.vers[n] # run.vers[n]
      PROVE  run.vers[n] = 0 /\ \A k \in Designs : run.appr[k] = "none"
  <2>1. n = 1 /\ run.vers[1] = 0
    BY <1>2, <1>3, <1>8
  <2> QED BY <2>1 DEF RowInv, Founded
<1>9. HasProject => \A n \in Designs : run.vers[n] = 0
  BY DEF RowInv, Single
<1>10. ASSUME HasProject
       PROVE  /\ new.current = 1 /\ new.vers[1] = d
              /\ \A n \in Designs : new.vers[n] # 0 => n <= 1
  BY <1>1, <1>2, <1>3, <1>9, <1>10
<1> HIDE DEF new
<1> QED BY <1>1, <1>3, <1>4, <1>6, <1>7, <1>8, <1>10 DEF new

(* The row of a run whose publication was refused, or that now waits for the
   decision on its design. *)
LEMMA FailedRow ==
    ASSUME NEW sz, NEW run \in RunRows, RowInv(sz, run), run.mode # "none", run.review = "none",
           NEW d \in Designs
    PROVE  LET new == [Drafted(run, d, Refused(run)) EXCEPT !.status = "failed"]
           IN  /\ new \in RunRows /\ RowInv(sz, new)
               /\ Keeps(run, new) /\ Undecided(run, new)
<1> DEFINE old == Drafted(run, d, Refused(run))
           new == [old EXCEPT !.status = "failed"]
<1>1. /\ old \in RunRows /\ old.mode # "none" /\ old.review = Refused(run)
      /\ old.appr = run.appr /\ old.subject = run.subject
      /\ old.approvedPlan \in {0, old.plan} /\ old.vers[1] # 0
      /\ \A n \in Designs : old.vers[n] # run.vers[n] =>
            run.vers[n] = 0 /\ \A k \in Designs : run.appr[k] = "none"
  BY DraftedRow DEF RowInv
<1> HIDE DEF old
<1>2. /\ new \in RunRows /\ new.mode # "none" /\ new.review = Refused(run)
      /\ new.appr = run.appr /\ new.subject = run.subject /\ new.vers = old.vers
      /\ new.approvedPlan \in {0, new.plan} /\ new.status = "failed"
  BY <1>1 DEF RunRows, RunStatus
<1> HIDE DEF new
<1>3. Founded(sz, new) /\ Told(new)
  BY <1>1, <1>2 DEF RowInv, Founded, Told
<1>4. Newest(new) /\ Single(new)
  BY <1>2 DEF RowInv, Single, Newest, Pending, Refused
<1>5. Keeps(run, new) /\ Undecided(run, new)
  BY <1>1, <1>2 DEF Keeps, Lasting, Undecided, Decided
<1>6. ~HasProject => new.review = "none"
  BY <1>2 DEF Refused
<1> QED BY <1>2, <1>3, <1>4, <1>5, <1>6 DEF RowInv, new, old

LEMMA SubmittedRow ==
    ASSUME NEW sz, NEW run \in RunRows, RowInv(sz, run), run.mode # "none", run.review = "none",
           NEW d \in Designs, NEW review \in {Refused(run)} \cup When(HasProject, {"published"}),
           sz[d] # 0, run.appr[d] = "none"
    PROVE  LET new == Submitted(Drafted(run, d, review), d)
           IN  /\ new \in RunRows /\ RowInv(sz, new) /\ new.mode # "none"
               /\ Keeps(run, new) /\ Undecided(run, new)
<1> DEFINE old == Drafted(run, d, review)
           new == Submitted(old, d)
<1>1. /\ old \in RunRows /\ old.mode # "none" /\ old.review = review
      /\ old.appr = run.appr /\ old.subject = run.subject
      /\ old.approvedPlan \in {0, old.plan} /\ old.vers[1] # 0
      /\ \A n \in Designs : old.vers[n] # run.vers[n] =>
            run.vers[n] = 0 /\ \A k \in Designs : run.appr[k] = "none"
      /\ HasProject =>
            /\ old.current = 1 /\ 1 \in Designs /\ old.design = d /\ old.vers[1] = d
            /\ \A n \in Designs : old.vers[n] # 0 => n <= 1
  BY DraftedRow DEF RowInv
<1> HIDE DEF old
<1>2. d \in 0..MaxDesigns
  BY DesignBounds DEF Designs
<1> DEFINE as == [old.appr EXCEPT ![d] = "pending"]
           ss == [old.subject EXCEPT ![d] = d]
<1>3. /\ as \in ApprovalRows /\ as[d] = "pending" /\ \A k \in Designs \ {d} : as[k] = run.appr[k]
      /\ ss \in SubjectRows /\ ss[d] = d /\ \A k \in Designs \ {d} : ss[k] = run.subject[k]
  BY <1>1, <1>2 DEF RunRows, ApprovalRows, SubjectRows, Decisions
<1>4. new = [old EXCEPT !.status = "awaiting_approval", !.appr = as, !.subject = ss, !.asked = d]
  BY <1>1 DEF Submitted, RunRows
<1> HIDE DEF as, ss
<1>5. /\ new \in RunRows /\ new.mode = old.mode /\ new.review = review
      /\ new.appr = as /\ new.status = "awaiting_approval" /\ new.subject = ss
      /\ new.design = old.design /\ new.approvedPlan = old.approvedPlan /\ new.plan = old.plan
      /\ new.current = old.current /\ new.vers = old.vers
  <2>1. old \in RunRows /\ old.review = review
    BY <1>1
  <2>2. "awaiting_approval" \in RunStatus
    BY DEF RunStatus
  <2> HIDE DEF new
  <2> QED BY <1>2, <1>3, <1>4, <2>1, <2>2 DEF RunRows
<1> HIDE DEF new
<1>6. Founded(sz, new)
  <2>1. Founded(sz, run)
    BY DEF RowInv
  <2>2. ASSUME NEW k \in Designs, new.appr[k] # "none"
        PROVE  /\ sz[k] # 0 /\ new.vers[1] # 0
               /\ new.subject[k] \in Designs /\ sz[new.subject[k]] # 0
    <3>1. CASE k = d
      BY <1>1, <1>3, <1>5, <3>1
    <3>2. CASE k # d
      BY <1>1, <1>3, <1>5, <2>1, <2>2, <3>2 DEF Founded
    <3> QED BY <3>1, <3>2
  <2> QED BY <2>2 DEF Founded
<1>7. Told(new)
  BY <1>3, <1>5 DEF Told, Pending
<1>8. HasProject => /\ \A k \in Designs : run.appr[k] = "none"
                    /\ review # "none"
  BY DEF RowInv, Single, Refused, When
<1>9. Single(new)
  BY <1>3, <1>5, <1>8 DEF Single
<1>10. ~HasProject => review = "none"
  BY DEF Refused, When
<1>11. Newest(new)
  <2> SUFFICES ASSUME review # "none", NEW k \in Pending(new)
               PROVE  /\ new.current \in Designs
                      /\ new.subject[k] = new.vers[new.current]
                      /\ new.design = new.subject[k]
                      /\ \A n \in Designs : new.vers[n] # 0 => n <= new.current
    BY <1>5 DEF Newest
  <2>1. HasProject /\ k = d
    BY <1>3, <1>5, <1>8, <1>10 DEF Pending
  <2> QED BY <1>1, <1>3, <1>5, <2>1
<1>12. Keeps(run, new) /\ Undecided(run, new)
  BY <1>1, <1>3, <1>5 DEF Keeps, Lasting, Undecided, Decided, Decision
<1> QED BY <1>1, <1>5, <1>6, <1>7, <1>9, <1>10, <1>11, <1>12 DEF RowInv, new, old

(* What is kept of a row is kept of one with the same approvals and versions. *)
LEMMA SameKept ==
    ASSUME NEW old, NEW run, NEW new, run.appr = old.appr, run.subject = old.subject,
           run.vers = old.vers, Keeps(run, new), Undecided(run, new)
    PROVE  Keeps(old, new) /\ Undecided(old, new)
BY DEF Keeps, Lasting, Undecided, Pending

(* What the graph leaves, from the row run that the call has so far. *)
LEMMA GraphOutcome ==
    ASSUME NEW v, Sound(v), NEW r \in Runs, NEW run \in RunRows, RowInv(v.sizes, run),
           run.mode # "none", run.status = "pending",
           run.appr = v.runs[r].appr, run.subject = v.runs[r].subject,
           run.vers = v.runs[r].vers, NEW w \in GraphResults(v, r, run)
    PROVE  w \in Outcome(v)
<1>1. v \in Views
  BY DEF Sound
<1>2. CASE w = With(v, r, [run EXCEPT !.status = "failed"])
  <2> DEFINE new == [run EXCEPT !.status = "failed"]
  <2>1. /\ new \in RunRows /\ new.mode # "none" /\ new.review = run.review
        /\ new.appr = run.appr /\ new.vers = run.vers /\ new.subject = run.subject
        /\ new.approvedPlan = run.approvedPlan /\ new.plan = run.plan
        /\ new.current = run.current /\ new.design = run.design /\ new.status = "failed"
    BY DEF RunRows, RunStatus
  <2> HIDE DEF new
  <2>2. RowInv(v.sizes, new)
    BY <2>1 DEF RowInv, Single, Founded, Newest, Pending, Told
  <2>3. Keeps(v.runs[r], new) /\ Undecided(v.runs[r], new)
    BY <2>1 DEF Keeps, Lasting, Undecided
  <2>4. With(v, r, new) \in Outcome(v)
    BY <1>1, <2>1, <2>2, <2>3, WithOutcome
  <2> QED BY <1>2, <2>4 DEF new
<1>3. CASE run.review = "none" /\ \E d \in Fresh(v), s \in CaseIndex :
              w = WithDesign(v, d, s, r, [Drafted(run, d, Refused(run)) EXCEPT !.status = "failed"])
  <2>1. PICK d \in Fresh(v), s \in CaseIndex :
            w = WithDesign(v, d, s, r, [Drafted(run, d, Refused(run)) EXCEPT !.status = "failed"])
    BY <1>3
  <2> DEFINE new == [Drafted(run, d, Refused(run)) EXCEPT !.status = "failed"]
             sz == [v.sizes EXCEPT ![d] = s]
  <2>2. sz \in Sizes /\ Grown(v.sizes, sz) /\ Dense(sz) /\ d \in Designs
    BY <1>1, FreshDesign
  <2> HIDE DEF sz
  <2>3. RowInv(sz, run)
    BY <2>2, GrownRow
  <2>4. new \in RunRows /\ RowInv(sz, new) /\ Keeps(run, new) /\ Undecided(run, new)
    BY <1>3, <2>2, <2>3, FailedRow
  <2> HIDE DEF new
  <2>5. Keeps(v.runs[r], new) /\ Undecided(v.runs[r], new)
    BY <2>4, SameKept
  <2>6. Redone(v, r, new, sz) \in Outcome(v)
    BY <1>1, <2>2, <2>4, <2>5, RedoneOutcome
  <2> QED BY <1>1, <2>1, <2>6, WithDesignRedone DEF new, sz
<1>4. CASE run.review = "none" /\ HasProject /\ \E d \in Fresh(v), s \in CaseIndex :
              w = WithDesign(v, d, s, r, Submitted(Drafted(run, d, "published"), d))
  <2>1. PICK d \in Fresh(v), s \in CaseIndex :
            w = WithDesign(v, d, s, r, Submitted(Drafted(run, d, "published"), d))
    BY <1>4
  <2> DEFINE new == Submitted(Drafted(run, d, "published"), d)
             sz == [v.sizes EXCEPT ![d] = s]
  <2>2. /\ sz \in Sizes /\ Grown(v.sizes, sz) /\ Dense(sz) /\ sz[d] # 0 /\ d \in Designs
        /\ run.appr[d] = "none"
    BY <1>1, FreshDesign
  <2> HIDE DEF sz
  <2>3. RowInv(sz, run)
    BY <2>2, GrownRow
  <2>4. "published" \in {Refused(run)} \cup When(HasProject, {"published"})
    BY <1>4 DEF When
  <2>5. new \in RunRows /\ RowInv(sz, new) /\ Keeps(run, new) /\ Undecided(run, new)
    BY <1>4, <2>2, <2>3, <2>4, SubmittedRow
  <2> HIDE DEF new
  <2>6. Keeps(v.runs[r], new) /\ Undecided(v.runs[r], new)
    BY <2>5, SameKept
  <2>7. Redone(v, r, new, sz) \in Outcome(v)
    BY <1>1, <2>2, <2>5, <2>6, RedoneOutcome
  <2> QED BY <1>1, <2>1, <2>7, WithDesignRedone DEF new, sz
<1> QED BY <1>2, <1>3, <1>4 DEF GraphResults, When

LEMMA StartRunOutcome ==
    ASSUME NEW v, Sound(v), NEW r \in Runs, NEW w \in StartRun(v, r)
    PROVE  w \in Outcome(v)
<1>1. /\ v.runs[r] \in RunRows /\ RowInv(v.sizes, v.runs[r])
      /\ v.runs[r].status = "pending" /\ w \in GraphResults(v, r, v.runs[r])
  BY DEF Sound, Views, StartRun, When
<1>2. v.runs[r].mode # "none"
  BY <1>1 DEF RowInv, AbsentRun
<1> QED BY <1>1, <1>2, GraphOutcome

(* The poll commits the new run and what its graph left together. *)
LEMMA PollIssueOutcome ==
    ASSUME NEW v, Sound(v), NEW w \in PollIssue(v)
    PROVE  w \in Outcome(v)
<1>1. PICK r \in FreeRuns(v) : w \in StartRun(Created(v, r, "graph"), r)
  BY DEF PollIssue, When
<1>2. v \in Views /\ r \in Runs /\ v.runs[r].mode = "none"
  BY <1>1 DEF FreeRuns, Sound
<1> DEFINE run == [AbsentRun EXCEPT !.mode = "graph", !.status = "pending",
                      !.stage = IF "graph" = "workspace" THEN "intake_ready" ELSE "none"]
<1>3. /\ run \in RunRows /\ RowInv(v.sizes, run) /\ run.mode = "graph"
      /\ run.status = "pending" /\ run.appr = AbsentRun.appr
      /\ run.subject = AbsentRun.subject /\ run.vers = AbsentRun.vers
  BY <1>2, CreatedRow DEF AbsentRun, Views
<1>4. Created(v, r, "graph") = With(v, r, run)
  BY DEF Created
<1> HIDE DEF run
<1>5. v.runs[r] = AbsentRun
  BY <1>2 DEF Sound, RowInv
<1> DEFINE u == With(v, r, run)
<1>6. /\ u = [runs |-> [v.runs EXCEPT ![r] = run], sizes |-> v.sizes, cases |-> v.cases]
      /\ u.runs[r] = run
  BY <1>2 DEF With, Views
<1> HIDE DEF u
<1>7. Fresh(u) = Fresh(v)
  BY <1>6 DEF Fresh
<1>8. ASSUME NEW new PROVE With(u, r, new) = With(v, r, new)
  <2>1. With(u, r, new) = [runs |-> [v.runs EXCEPT ![r] = new],
                           sizes |-> v.sizes, cases |-> v.cases]
    BY <1>2, <1>6 DEF With, Views
  <2> QED BY <1>2, <2>1 DEF With, Views
<1>9. ASSUME NEW d, NEW s, NEW new
      PROVE  WithDesign(u, d, s, r, new) = WithDesign(v, d, s, r, new)
  <2>1. u \in [runs : {u.runs}, sizes : {v.sizes}, cases : {v.cases}]
    BY <1>6
  <2> DEFINE sz == [v.sizes EXCEPT ![d] = s]
  <2>2. [u EXCEPT !.sizes[d] = s] = [runs |-> u.runs, sizes |-> sz, cases |-> v.cases]
    BY <1>6, <2>1
  <2>3. u.runs = [v.runs EXCEPT ![r] = run]
    BY <1>6
  <2> DEFINE x == [u EXCEPT !.sizes[d] = s]
  <2>4. x = [runs |-> [v.runs EXCEPT ![r] = run], sizes |-> sz, cases |-> v.cases]
    BY <2>2, <2>3
  <2> HIDE DEF sz, x
  <2>5. [x EXCEPT !.runs[r] = new]
           = [runs |-> [[v.runs EXCEPT ![r] = run] EXCEPT ![r] = new],
              sizes |-> sz, cases |-> v.cases]
    BY <2>4
  <2>6. [[v.runs EXCEPT ![r] = run] EXCEPT ![r] = new] = [v.runs EXCEPT ![r] = new]
    BY <1>2 DEF Views
  <2>7. WithDesign(u, d, s, r, new) = Redone(v, r, new, sz)
    BY <2>5, <2>6 DEF WithDesign, With, Redone, x
  <2> QED BY <1>2, <2>7, WithDesignRedone DEF sz
<1>10. w \in GraphResults(u, r, run)
  BY <1>1, <1>3, <1>4, <1>6 DEF StartRun, When, u
<1>11. w \in GraphResults(v, r, run)
  <2>1. CASE w = With(u, r, [run EXCEPT !.status = "failed"])
    BY <1>8, <2>1 DEF GraphResults
  <2>2. CASE run.review = "none" /\ \E d \in Fresh(u), s \in CaseIndex :
                w = WithDesign(u, d, s, r,
                        [Drafted(run, d, Refused(run)) EXCEPT !.status = "failed"])
    <3>1. PICK d \in Fresh(v), s \in CaseIndex :
              w = WithDesign(u, d, s, r, [Drafted(run, d, Refused(run)) EXCEPT !.status = "failed"])
      BY <1>7, <2>2
    <3>2. w = WithDesign(v, d, s, r, [Drafted(run, d, Refused(run)) EXCEPT !.status = "failed"])
      BY <1>9, <3>1
    <3>3. w \in When(run.review = "none",
                    {WithDesign(v, d1, s1, r,
                        [Drafted(run, d1, Refused(run)) EXCEPT !.status = "failed"]) :
                        d1 \in Fresh(v), s1 \in CaseIndex})
      BY <2>2, <3>2 DEF When
    <3> QED BY <3>3 DEF GraphResults
  <2>3. CASE run.review = "none" /\ HasProject /\ \E d \in Fresh(u), s \in CaseIndex :
                w = WithDesign(u, d, s, r, Submitted(Drafted(run, d, "published"), d))
    <3>1. PICK d \in Fresh(v), s \in CaseIndex :
              w = WithDesign(u, d, s, r, Submitted(Drafted(run, d, "published"), d))
      BY <1>7, <2>3
    <3>2. w = WithDesign(v, d, s, r, Submitted(Drafted(run, d, "published"), d))
      BY <1>9, <3>1
    <3> QED BY <2>3, <3>2 DEF GraphResults, When
  <2> QED BY <1>10, <2>1, <2>2, <2>3 DEF GraphResults, When
<1> QED BY <1>2, <1>3, <1>5, <1>11, GraphOutcome

LEMMA StartDiesOutcome ==
    ASSUME NEW v, Sound(v), NEW r \in Runs, NEW w \in StartDies(v, r)
    PROVE  w \in Outcome(v)
<1>1. /\ v.runs[r] \in RunRows /\ RowInv(v.sizes, v.runs[r])
      /\ v.runs[r].status = "pending" /\ w = With(v, r, [v.runs[r] EXCEPT !.status = "running"])
  BY DEF Sound, Views, StartDies, When
<1> DEFINE run == [v.runs[r] EXCEPT !.status = "running"]
<1>2. run \in RunRows /\ run.status = "running"
  BY <1>1 DEF RunRows, RunStatus
<1>3. v.runs[r].mode # "none" /\ Told(run)
  BY <1>1, <1>2 DEF RowInv, AbsentRun, Told
<1> QED BY <1>1, <1>2, <1>3, EditedOutcome DEF RowInv, RunRows

-----------------------------------------------------------------------------
(* The workspace: what each call leaves. *)

LEMMA AnalyzeOutcome ==
    ASSUME NEW v, Sound(v), NEW r \in Runs, NEW w \in AnalyzeRequirements(v, r)
    PROVE  w \in Outcome(v)
<1> DEFINE run == [v.runs[r] EXCEPT !.analysed = TRUE, !.status = "pending",
                                    !.stage = "analysis_ready"]
<1>1. /\ v.runs[r] \in RunRows /\ RowInv(v.sizes, v.runs[r])
      /\ v.runs[r].mode # "none" /\ w = With(v, r, run)
  BY DEF Sound, Views, AnalyzeRequirements, When
<1>2. run \in RunRows /\ run.status = "pending"
  BY <1>1 DEF RunRows, RunStatus, Stages
<1>3. Told(run)
  BY <1>2 DEF Told
<1> QED BY <1>1, <1>2, <1>3, EditedOutcome DEF RowInv, RunRows

LEMMA PreparePlanOutcome ==
    ASSUME NEW v, Sound(v), NEW r \in Runs, NEW w \in PreparePlan(v, r)
    PROVE  w \in Outcome(v)
<1> DEFINE run == [v.runs[r] EXCEPT !.plan = @ + 1, !.approvedPlan = 0,
                                    !.stage = "awaiting_plan_approval"]
<1>1. /\ v.runs[r] \in RunRows /\ RowInv(v.sizes, v.runs[r])
      /\ v.runs[r].mode # "none" /\ v.runs[r].plan < MaxPlans /\ w = With(v, r, run)
  BY DEF Sound, Views, PreparePlan, When
<1>2. v.runs[r].plan + 1 \in 0..MaxPlans /\ 0 \in 0..MaxPlans
  BY <1>1, DesignBounds DEF RunRows
<1>3. /\ run \in RunRows /\ run.status = v.runs[r].status /\ run.appr = v.runs[r].appr
      /\ run.approvedPlan = 0
  BY <1>1, <1>2 DEF RunRows, Stages
<1>4. Told(run)
  BY <1>1, <1>3 DEF RowInv, Told, Pending
<1> QED BY <1>1, <1>3, <1>4, EditedOutcome DEF RunRows

LEMMA ApprovePlanOutcome ==
    ASSUME NEW v, Sound(v), NEW r \in Runs, NEW w \in ApprovePlan(v, r)
    PROVE  w \in Outcome(v)
<1> DEFINE run == [v.runs[r] EXCEPT !.approvedPlan = v.runs[r].plan, !.stage = "plan_approved"]
<1>1. /\ v.runs[r] \in RunRows /\ RowInv(v.sizes, v.runs[r])
      /\ v.runs[r].mode # "none" /\ w = With(v, r, run)
  BY DEF Sound, Views, ApprovePlan, When, RowInv, AbsentRun
<1>2. /\ run \in RunRows /\ run.status = v.runs[r].status /\ run.appr = v.runs[r].appr
      /\ run.approvedPlan = run.plan
  BY <1>1 DEF RunRows, Stages
<1>3. Told(run)
  BY <1>1, <1>2 DEF RowInv, Told, Pending
<1> QED BY <1>1, <1>2, <1>3, EditedOutcome DEF RunRows

LEMMA PlanRevisionOutcome ==
    ASSUME NEW v, Sound(v), NEW r \in Runs, NEW w \in RequestPlanRevision(v, r)
    PROVE  w \in Outcome(v)
<1> DEFINE run == [v.runs[r] EXCEPT !.approvedPlan = 0, !.stage = "plan_revision_requested"]
<1>1. /\ v.runs[r] \in RunRows /\ RowInv(v.sizes, v.runs[r])
      /\ v.runs[r].mode # "none" /\ w = With(v, r, run)
  BY DEF Sound, Views, RequestPlanRevision, When, RowInv, AbsentRun
<1>2. 0 \in 0..MaxPlans
  BY DesignBounds
<1>3. /\ run \in RunRows /\ run.status = v.runs[r].status /\ run.appr = v.runs[r].appr
      /\ run.approvedPlan = 0
  BY <1>1, <1>2 DEF RunRows, Stages
<1>4. Told(run)
  BY <1>1, <1>3 DEF RowInv, Told, Pending
<1> QED BY <1>1, <1>3, <1>4, EditedOutcome DEF RunRows

LEMMA PostCommentOutcome ==
    ASSUME NEW v, Sound(v), NEW r \in Runs, NEW w \in PostComment(v, r)
    PROVE  w \in Outcome(v)
<1> DEFINE run == [v.runs[r] EXCEPT !.posted = @ + 1]
<1>1. /\ v.runs[r] \in RunRows /\ RowInv(v.sizes, v.runs[r])
      /\ v.runs[r].mode # "none" /\ v.runs[r].posted < MaxComments /\ w = With(v, r, run)
  BY DEF Sound, Views, PostComment, When, RowInv, AbsentRun
<1>2. v.runs[r].posted + 1 \in 0..MaxComments
  BY <1>1, DesignBounds DEF RunRows
<1>3. /\ run \in RunRows /\ run.status = v.runs[r].status /\ run.appr = v.runs[r].appr
  BY <1>1, <1>2 DEF RunRows
<1>4. Told(run)
  BY <1>1, <1>3 DEF RowInv, Told, Pending
<1> QED BY <1>1, <1>3, <1>4, EditedOutcome DEF RowInv, RunRows

LEMMA GenerateOutcome ==
    ASSUME NEW v, Sound(v), NEW r \in Runs, NEW w \in GenerateTestCases(v, r)
    PROVE  w \in Outcome(v)
<1>1. /\ v \in Views /\ v.runs[r] \in RunRows /\ RowInv(v.sizes, v.runs[r])
      /\ v.runs[r].mode # "none" /\ v.runs[r].review = "none"
  BY DEF Sound, Views, GenerateTestCases, When, RowInv, AbsentRun
<1>2. PICK d \in Fresh(v), s \in CaseIndex,
           review \in {Refused(v.runs[r])} \cup When(HasProject, {"published"}) :
          w = WithDesign(v, d, s, r, [Submitted(Drafted(v.runs[r], d, review), d) EXCEPT
                                         !.stage = "awaiting_test_case_review"])
  BY DEF GenerateTestCases, When
<1> DEFINE old == Submitted(Drafted(v.runs[r], d, review), d)
           new == [old EXCEPT !.stage = "awaiting_test_case_review"]
           sz == [v.sizes EXCEPT ![d] = s]
<1>3. /\ sz \in Sizes /\ Grown(v.sizes, sz) /\ Dense(sz) /\ sz[d] # 0
      /\ d \in Designs /\ v.runs[r].appr[d] = "none"
  BY <1>1, FreshDesign
<1> HIDE DEF sz
<1>4. RowInv(sz, v.runs[r])
  BY <1>1, <1>3, GrownRow
<1>5. /\ old \in RunRows /\ RowInv(sz, old) /\ old.mode # "none"
      /\ Keeps(v.runs[r], old) /\ Undecided(v.runs[r], old)
  BY <1>1, <1>3, <1>4, SubmittedRow
<1> HIDE DEF old
<1>6. /\ new \in RunRows /\ new.mode # "none" /\ new.appr = old.appr
      /\ new.review = old.review /\ new.vers = old.vers /\ new.subject = old.subject
      /\ new.approvedPlan = old.approvedPlan /\ new.plan = old.plan
      /\ new.current = old.current /\ new.design = old.design /\ new.status = old.status
  BY <1>5 DEF RunRows, Stages
<1> HIDE DEF new
<1>7. RowInv(sz, new)
  BY <1>5, <1>6 DEF RowInv, Single, Founded, Newest, Pending, Told
<1>8. Keeps(v.runs[r], new) /\ Undecided(v.runs[r], new)
  BY <1>5, <1>6 DEF Keeps, Lasting, Undecided
<1>9. Redone(v, r, new, sz) \in Outcome(v)
  BY <1>1, <1>3, <1>6, <1>7, <1>8, RedoneOutcome
<1> QED BY <1>1, <1>2, <1>9, WithDesignRedone DEF new, old, sz

-----------------------------------------------------------------------------
(* Revisions while an approval is pending. *)

(* k designs from the next number on leave the numbering dense. *)
LEMMA FreshDesigns ==
    ASSUME NEW v, Sound(v), NEW d \in Fresh(v), NEW k \in Nat \ {0},
           d + k - 1 \in Designs, NEW s \in Redrafts(d, k)
    PROVE  LET sz == [e \in Designs |-> IF e \in d..(d + k - 1) THEN s[e] ELSE v.sizes[e]]
           IN  /\ sz \in Sizes /\ Grown(v.sizes, sz) /\ Dense(sz)
               /\ sz[d + k - 1] # 0
<1>1. /\ d \in Designs /\ v.sizes[d] = 0 /\ v.sizes \in Sizes /\ Dense(v.sizes)
      /\ \A e \in 1..(d - 1) : v.sizes[e] # 0
  BY DEF Fresh, Views, Sound
<1>2. \A e \in d..(d + k - 1) : s[e] \in 0..MaxCases /\ s[e] # 0
  BY DesignBounds DEF Redrafts, CaseIndex
<1>3. \A e \in Designs : e \in Int /\ d \in Int /\ 0 < e /\ 0 < d
  BY <1>1, DesignBounds DEF Designs
<1>4. \A e \in Designs : e >= d => v.sizes[e] = 0
  BY <1>1, <1>3 DEF Dense
<1> DEFINE sz == [e \in Designs |-> IF e \in d..(d + k - 1) THEN s[e] ELSE v.sizes[e]]
<1>5. /\ \A e \in Designs : e \in d..(d + k - 1) => sz[e] = s[e]
      /\ \A e \in Designs : e \notin d..(d + k - 1) => sz[e] = v.sizes[e]
  OBVIOUS
<1>6. sz \in Sizes
  BY <1>1, <1>2 DEF Sizes
<1> HIDE DEF sz
<1>7. Grown(v.sizes, sz)
  BY <1>3, <1>4, <1>5 DEF Grown
<1>8. Dense(sz)
  <2> SUFFICES ASSUME NEW a \in Designs, NEW e \in Designs, e < a, sz[a] # 0
               PROVE  sz[e] # 0
    BY DEF Dense
  <2>1. CASE e < d
    <3>1. e \notin d..(d + k - 1) /\ e \in 1..(d - 1)
      BY <1>3, <2>1
    <3> QED BY <1>1, <1>5, <3>1
  <2>2. CASE e \in d..(d + k - 1)
    BY <1>2, <1>5, <2>2
  <2>3. CASE e > d + k - 1
    <3>1. a \notin d..(d + k - 1) /\ a >= d
      BY <1>3, <2>3
    <3> QED BY <1>4, <1>5, <3>1
  <2> QED BY <1>3, <2>1, <2>2, <2>3
<1>9. sz[d + k - 1] # 0
  <2>1. d + k - 1 \in d..(d + k - 1)
    BY <1>3
  <2> QED BY <1>2, <1>5, <2>1
<1> QED BY <1>6, <1>7, <1>8, <1>9 DEF sz

(* The last revision is current, newest and what approval a is about. *)
LEMMA RevisedRow ==
    ASSUME NEW old, NEW sz \in Sizes, RowInv(sz, old), old.mode # "none",
           NEW run \in RunRows, run.mode # "none", run.approvedPlan \in {0, run.plan},
           run.review = old.review, run.appr = old.appr, run.subject = old.subject,
           run.vers = old.vers, NEW a \in Pending(run),
           NEW n \in NextVersions(run), NEW d \in Designs, NEW k \in Nat \ {0},
           n + k - 1 \in Designs, d + k - 1 \in Designs, sz[d + k - 1] # 0
    PROVE  LET new == Superseded(run, a, n, d, k)
           IN  /\ new \in RunRows /\ RowInv(sz, new)
               /\ Keeps(old, new) /\ Undecided(old, new)
<1>1. /\ n \in Designs /\ n \in Int /\ d \in Int /\ 0 < n /\ 0 < d
      /\ \A m \in Designs : m \in Int /\ (run.vers[m] # 0 => m < n)
  BY DesignBounds DEF NextVersions, Designs
<1> DEFINE vs == [m \in Designs |-> IF m \in n..(n + k - 1) THEN d + (m - n) ELSE run.vers[m]]
           ss == [run.subject EXCEPT ![a] = d + k - 1]
           new == Superseded(run, a, n, d, k)
<1>2. ASSUME NEW m \in Designs PROVE vs[m] \in 0..MaxDesigns
  <2>1. CASE m \in n..(n + k - 1)
    <3>1. d + (m - n) >= 1 /\ d + (m - n) <= d + k - 1 /\ d + (m - n) \in Int
      BY <1>1, <2>1
    <3>2. d + k - 1 <= MaxDesigns
      BY DesignBounds DEF Designs
    <3>3. d + (m - n) \in 0..MaxDesigns
      BY <1>1, <3>1, <3>2, DesignBounds
    <3> QED BY <2>1, <3>3
  <2>2. CASE m \notin n..(n + k - 1)
    BY <2>2 DEF RunRows, VersionRows
  <2> QED BY <2>1, <2>2
<1>3. vs \in VersionRows
  BY <1>2 DEF VersionRows
<1>4. vs[n + k - 1] = d + k - 1
  <2>1. n + k - 1 \in n..(n + k - 1) /\ d + ((n + k - 1) - n) = d + k - 1
    BY <1>1
  <2>2. vs[n + k - 1] = d + ((n + k - 1) - n)
    BY <2>1
  <2> QED BY <2>1, <2>2
<1>5. ASSUME NEW m \in Designs
      PROVE  /\ vs[m] # 0 => m <= n + k - 1
             /\ vs[m] # run.vers[m] => run.vers[m] = 0
             /\ vs[m] = 0 => run.vers[m] = 0
  <2>1. m \in n..(n + k - 1) => run.vers[m] = 0
    BY <1>1
  <2>2. m \notin n..(n + k - 1) => vs[m] = run.vers[m]
    OBVIOUS
  <2>3. vs[m] # 0 => m <= n + k - 1
    BY <1>1
  <2> QED BY <2>1, <2>2, <2>3
<1> HIDE DEF vs
<1>6. n + k - 1 \in 0..MaxDesigns /\ d + k - 1 \in 0..MaxDesigns
  BY DesignBounds DEF Designs
<1>7. a \in Designs /\ run.appr[a] = "pending"
  BY DEF Pending
<1>8. /\ ss \in SubjectRows /\ ss[a] = d + k - 1
      /\ \A j \in Designs : j # a => ss[j] = run.subject[j]
  BY <1>6, <1>7 DEF RunRows, SubjectRows
<1>9. new = [run EXCEPT !.vers = vs, !.current = n + k - 1, !.subject = ss,
                        !.design = d + k - 1, !.status = "awaiting_approval"]
  BY DEF Superseded, RunRows, vs
<1> HIDE DEF ss
<1>10. /\ new \in RunRows /\ new.vers = vs /\ new.current = n + k - 1
       /\ new.subject = ss /\ new.design = d + k - 1
       /\ new.status = "awaiting_approval" /\ new.appr = run.appr /\ new.review = run.review
       /\ new.mode = run.mode /\ new.approvedPlan \in {0, new.plan}
  <2>1. /\ new.vers = vs /\ new.current = n + k - 1 /\ new.subject = ss
        /\ new.design = d + k - 1 /\ new.status = "awaiting_approval"
        /\ new.appr = run.appr /\ new.review = run.review /\ new.mode = run.mode
        /\ new.approvedPlan \in {0, new.plan}
    BY <1>9 DEF RunRows
  <2> DEFINE mid == [run EXCEPT !.vers = vs, !.subject = ss]
  <2>2. mid \in RunRows
    BY <1>3, <1>8 DEF RunRows
  <2>3. new = [mid EXCEPT !.current = n + k - 1, !.design = d + k - 1,
                          !.status = "awaiting_approval"]
    BY <1>9 DEF RunRows
  <2> HIDE DEF mid, new
  <2>4. ASSUME NEW c \in 0..MaxDesigns, NEW e \in 0..MaxDesigns
        PROVE  [mid EXCEPT !.current = c, !.design = e, !.status = "awaiting_approval"]
                   \in RunRows
    BY <2>2 DEF RunRows, RunStatus
  <2>5. new \in RunRows
    BY <1>6, <2>3, <2>4
  <2> QED BY <2>1, <2>5
<1> HIDE DEF new
<1>11. Single(new)
  <2>1. ASSUME HasProject, new.review = "none" PROVE FALSE
    BY <1>7, <1>10, <2>1 DEF RowInv, Single
  <2> QED BY <1>10, <2>1 DEF RowInv, Single
<1>12. Newest(new)
  <2>1. ASSUME NEW j \in Pending(new), new.review # "none" PROVE j = a
    BY <1>7, <1>10, <2>1 DEF RowInv, Single, Pending
  <2> QED BY <1>4, <1>5, <1>8, <1>10, <2>1 DEF Newest
<1>13. Founded(sz, new)
  <2>1. 1 \in Designs
    BY <1>1, DesignBounds DEF Designs
  <2>2. ASSUME NEW j \in Designs, run.appr[j] # "none"
        PROVE  sz[j] # 0 /\ vs[1] # 0 /\ ss[j] \in Designs /\ sz[ss[j]] # 0
    BY <1>5, <1>8, <2>1, <2>2 DEF RowInv, Founded
  <2> QED BY <1>10, <2>2 DEF Founded
<1>14. Told(new)
  BY <1>7, <1>10 DEF Told, Pending
<1>15. ASSUME NEW j \in Designs
       PROVE  /\ old.appr[j] \in Decided => Lasting(old, new, j)
              /\ new.appr[j] = old.appr[j]
  <2>1. Pending(old) # {}
    BY <1>7 DEF Pending
  <2>2. old.appr[j] \in Decided => j # a
    BY <1>7 DEF Decided
  <2> QED BY <1>5, <1>8, <1>10, <2>1, <2>2 DEF Lasting
<1>16. Keeps(old, new) /\ Undecided(old, new)
  BY <1>15 DEF Keeps, Undecided
<1>17. ~HasProject => new.review = "none"
  BY <1>10 DEF RowInv
<1> QED BY <1>10, <1>11, <1>12, <1>13, <1>14, <1>16, <1>17 DEF RowInv, new, vs, ss

LEMMA RevisionsOutcome ==
    ASSUME NEW v, Sound(v), NEW r \in Runs, v.runs[r].mode # "none",
           NEW run \in RunRows, run.mode # "none", run.approvedPlan \in {0, run.plan},
           run.review = v.runs[r].review, run.appr = v.runs[r].appr,
           run.subject = v.runs[r].subject, run.vers = v.runs[r].vers,
           NEW k \in Nat \ {0}, NEW w \in Revisions(v, r, run, k)
    PROVE  w \in Outcome(v)
<1>1. PICK a \in Pending(run), n \in NextVersions(run), d \in Fresh(v) :
          /\ n + k - 1 \in Designs /\ d + k - 1 \in Designs
          /\ \E s \in Redrafts(d, k) : w = Revised(v, r, run, a, n, d, k, s)
  BY DEF Revisions
<1>2. PICK s \in Redrafts(d, k) : w = Revised(v, r, run, a, n, d, k, s)
  BY <1>1
<1> DEFINE sz == [e \in Designs |-> IF e \in d..(d + k - 1) THEN s[e] ELSE v.sizes[e]]
           new == Superseded(run, a, n, d, k)
           u == [v EXCEPT !.sizes = [e \in Designs |->
                                        IF e \in d..(d + k - 1) THEN s[e] ELSE @[e]]]
<1>3. sz \in Sizes /\ Grown(v.sizes, sz) /\ Dense(sz) /\ sz[d + k - 1] # 0
  BY <1>1, FreshDesigns
<1>4. d \in Designs
  BY DEF Fresh
<1>5. v \in Views /\ u = [runs |-> v.runs, sizes |-> sz, cases |-> v.cases]
  BY DEF Sound, Views
<1>6. w = With(u, r, new)
  BY <1>2 DEF Revised
<1> HIDE DEF sz, u
<1>7. RowInv(sz, v.runs[r])
  BY <1>3, GrownRow DEF Sound, Views
<1>8. new \in RunRows /\ RowInv(sz, new) /\ Keeps(v.runs[r], new) /\ Undecided(v.runs[r], new)
  BY <1>1, <1>3, <1>4, <1>7, RevisedRow
<1> HIDE DEF new
<1>9. With(u, r, new) = Redone(v, r, new, sz)
  BY <1>5 DEF With, Redone
<1> QED BY <1>3, <1>5, <1>6, <1>8, <1>9, RedoneOutcome

LEMMA EvolveOutcome ==
    ASSUME NEW v, Sound(v), NEW r \in Runs, NEW w \in Evolve(v, r)
    PROVE  w \in Outcome(v)
<1>1. /\ v.runs[r] \in RunRows /\ RowInv(v.sizes, v.runs[r])
      /\ v.runs[r].status = "awaiting_approval" /\ w \in Revisions(v, r, v.runs[r], 1)
  BY DEF Sound, Views, Evolve, When, Reviewable
<1>2. v.runs[r].mode # "none" /\ v.runs[r].approvedPlan \in {0, v.runs[r].plan}
  BY <1>1 DEF RowInv, AbsentRun
<1> QED BY <1>1, <1>2, RevisionsOutcome

LEMMA ReviseCasesOutcome ==
    ASSUME NEW v, Sound(v), NEW r \in Runs, NEW w \in ReviseCases(v, r)
    PROVE  w \in Outcome(v)
<1> DEFINE run == [v.runs[r] EXCEPT !.stage = "awaiting_test_case_review"]
<1>1. /\ v.runs[r] \in RunRows /\ RowInv(v.sizes, v.runs[r])
      /\ v.runs[r].status = "awaiting_approval" /\ w \in Revisions(v, r, run, 1)
  BY DEF Sound, Views, ReviseCases, When, Reviewable
<1>2. /\ run \in RunRows /\ run.review = v.runs[r].review /\ run.appr = v.runs[r].appr
      /\ run.subject = v.runs[r].subject /\ run.vers = v.runs[r].vers
      /\ v.runs[r].mode # "none" /\ run.mode # "none" /\ run.approvedPlan \in {0, run.plan}
  BY <1>1 DEF RowInv, AbsentRun, RunRows, Stages
<1> HIDE DEF run
<1> QED BY <1>1, <1>2, RevisionsOutcome

LEMMA ReadRow ==
    ASSUME NEW run \in RunRows, NEW outcome
    PROVE  LET new == Read(run, outcome)
           IN  /\ new \in RunRows /\ new.mode = run.mode /\ new.status = run.status
               /\ new.review = run.review /\ new.appr = run.appr
               /\ new.subject = run.subject /\ new.vers = run.vers
               /\ new.current = run.current /\ new.design = run.design
               /\ new.approvedPlan = run.approvedPlan /\ new.plan = run.plan
<1> DEFINE es == [c \in Comments |->
                     IF c \notin Unread(run) THEN run.events[c]
                     ELSE IF outcome[c] = "failed" THEN "failed" ELSE "processed"]
<1>1. es \in EventRows
  BY DEF EventRows, RunRows
<1> HIDE DEF es
<1>2. [run EXCEPT !.events = es] \in RunRows
  BY <1>1 DEF RunRows
<1>3. Read(run, outcome) = [run EXCEPT !.events = es]
  BY DEF Read, es
<1> QED BY <1>2, <1>3 DEF RunRows

LEMMA ProcessCommentsOutcome ==
    ASSUME NEW v, Sound(v), NEW r \in Runs, NEW w \in ProcessComments(v, r)
    PROVE  w \in Outcome(v)
<1>1. /\ v.runs[r] \in RunRows /\ RowInv(v.sizes, v.runs[r])
      /\ v.runs[r].status = "awaiting_approval"
  BY DEF Sound, Views, ProcessComments, When, Reviewable
<1>2. PICK outcome \in [Unread(v.runs[r]) -> Outcomes] :
          LET k == Cardinality({c \in Unread(v.runs[r]) : outcome[c] = "revised"})
          IN  w \in IF k = 0 THEN {With(v, r, Read(v.runs[r], outcome))}
                    ELSE Revisions(v, r, Read(v.runs[r], outcome), k)
  BY DEF ProcessComments, When
<1> DEFINE k == Cardinality({c \in Unread(v.runs[r]) : outcome[c] = "revised"})
           run == Read(v.runs[r], outcome)
<1>3. k \in Nat
  <2>1. v.runs[r].posted \in Nat
    BY <1>1, DesignBounds DEF RunRows
  <2>2. IsFiniteSet(1..v.runs[r].posted)
    BY <2>1, FS_Interval
  <2>3. {c \in Unread(v.runs[r]) : outcome[c] = "revised"} \subseteq 1..v.runs[r].posted
    BY DEF Unread
  <2>4. IsFiniteSet({c \in Unread(v.runs[r]) : outcome[c] = "revised"})
    BY <2>2, <2>3, FS_Subset
  <2> QED BY <2>4, FS_CardinalityType
<1>4. w \in IF k = 0 THEN {With(v, r, run)} ELSE Revisions(v, r, run, k)
  BY <1>2
<1>5. /\ run \in RunRows /\ run.mode = v.runs[r].mode /\ run.status = v.runs[r].status
      /\ run.review = v.runs[r].review /\ run.appr = v.runs[r].appr
      /\ run.subject = v.runs[r].subject /\ run.vers = v.runs[r].vers
      /\ run.current = v.runs[r].current /\ run.design = v.runs[r].design
      /\ run.approvedPlan = v.runs[r].approvedPlan /\ run.plan = v.runs[r].plan
  BY <1>1, ReadRow
<1> HIDE DEF run, k
<1>6. /\ v.runs[r].mode # "none"
      /\ v.runs[r].approvedPlan \in {0, v.runs[r].plan} /\ Told(v.runs[r])
  BY <1>1 DEF RowInv, AbsentRun
<1>7. CASE k = 0
  <2>1. Told(run)
    BY <1>5, <1>6 DEF Told, Pending
  <2>2. With(v, r, run) \in Outcome(v)
    BY <1>5, <1>6, <2>1, EditedOutcome
  <2> QED BY <1>4, <1>7, <2>2
<1>8. CASE k # 0
  BY <1>1, <1>3, <1>4, <1>5, <1>6, <1>8, RevisionsOutcome
<1> QED BY <1>7, <1>8

-----------------------------------------------------------------------------
(* The decision and the registry: what each call leaves. *)

(* new is row old with approval k decided. *)
DecidedAs(old, new, k, how, status) ==
    /\ k \in Pending(old) /\ how \in Decided /\ new.appr[k] = how
    /\ \A j \in Designs \ {k} : new.appr[j] = old.appr[j]
    /\ new.status = status
    /\ (how = "approved" /\ status = "completed") \/ (how = "rejected" /\ status = "rejected")
    /\ new.mode = old.mode /\ new.review = old.review /\ new.vers = old.vers
    /\ new.subject = old.subject /\ new.approvedPlan = old.approvedPlan
    /\ new.plan = old.plan /\ new.current = old.current /\ new.design = old.design

LEMMA DecidedFields ==
    ASSUME NEW old \in RunRows, NEW k \in Pending(old), NEW stage \in Stages,
           NEW how, NEW status,
           (how = "approved" /\ status = "completed")
               \/ (how = "rejected" /\ status = "rejected")
    PROVE  LET new == [old EXCEPT !.appr[k] = how, !.status = status, !.stage = stage]
           IN  new \in RunRows /\ DecidedAs(old, new, k, how, status)
<1> DEFINE as == [old.appr EXCEPT ![k] = how]
           new == [old EXCEPT !.appr[k] = how, !.status = status, !.stage = stage]
<1>1. k \in Designs /\ how \in Decided /\ status \in RunStatus
  BY DEF Pending, Decided, RunStatus
<1>2. as \in ApprovalRows /\ as[k] = how /\ \A j \in Designs \ {k} : as[j] = old.appr[j]
  BY <1>1 DEF RunRows, ApprovalRows, Decisions, Decided
<1>3. new = [old EXCEPT !.appr = as, !.status = status, !.stage = stage]
  BY DEF RunRows
<1> HIDE DEF as, new
<1>4. /\ new \in RunRows /\ new.appr = as /\ new.status = status
      /\ new.mode = old.mode /\ new.review = old.review /\ new.vers = old.vers
      /\ new.subject = old.subject /\ new.approvedPlan = old.approvedPlan
      /\ new.plan = old.plan /\ new.current = old.current /\ new.design = old.design
  BY <1>1, <1>2, <1>3 DEF RunRows
<1> QED BY <1>1, <1>2, <1>4 DEF DecidedAs, new

LEMMA DecidedRow ==
    ASSUME NEW sz, NEW old \in RunRows, RowInv(sz, old), NEW new \in RunRows,
           NEW k, NEW how, NEW status, DecidedAs(old, new, k, how, status)
    PROVE  /\ RowInv(sz, new) /\ k \in Designs /\ old.appr[k] = "pending"
           /\ new.appr[k] = how /\ \A j \in Designs \ {k} : new.appr[j] = old.appr[j]
           /\ new.subject = old.subject /\ new.vers = old.vers
<1>1. k \in Designs /\ old.appr[k] = "pending" /\ how \in Decided
  BY DEF Pending, DecidedAs
<1>2. new.appr[k] = how /\ \A j \in Designs \ {k} : new.appr[j] = old.appr[j]
  BY DEF DecidedAs
<1>3. (how = "approved" /\ new.status = "completed")
          \/ (how = "rejected" /\ new.status = "rejected")
  BY DEF DecidedAs
<1>4. /\ new.mode = old.mode /\ new.review = old.review /\ new.vers = old.vers
      /\ new.subject = old.subject /\ new.approvedPlan = old.approvedPlan
      /\ new.plan = old.plan /\ new.current = old.current /\ new.design = old.design
  BY DEF DecidedAs
<1>5. \A j \in Designs : new.appr[j] # "none" => old.appr[j] # "none"
  BY <1>1, <1>2
<1>6. Single(new)
  <2>1. Single(old)
    BY DEF RowInv
  <2>2. HasProject => old.review # "none"
    BY <1>1, <2>1 DEF Single
  <2> QED BY <1>4, <1>5, <2>1, <2>2 DEF Single
<1>7. Founded(sz, new)
  BY <1>4, <1>5 DEF RowInv, Founded
<1>8. Newest(new)
  <2>1. Pending(new) \subseteq Pending(old)
    BY <1>1, <1>2 DEF Pending, Decided
  <2> QED BY <1>4, <2>1 DEF RowInv, Newest
<1>9. Told(new)
  BY <1>1, <1>2, <1>3 DEF Told
<1>10. old.mode # "none"
  BY <1>1 DEF RowInv, AbsentRun
<1>11. RowInv(sz, new)
  BY <1>4, <1>6, <1>7, <1>8, <1>9, <1>10 DEF RowInv
<1> QED BY <1>1, <1>2, <1>4, <1>11

LEMMA RejectOutcome ==
    ASSUME NEW v, Sound(v), NEW r \in Runs, NEW w \in Reject(v, r)
    PROVE  w \in Outcome(v)
<1>1. PICK k \in Pending(v.runs[r]) :
          w = With(v, r, [v.runs[r] EXCEPT !.appr[k] = "rejected", !.status = "rejected"])
  BY DEF Reject
<1>2. v \in Views /\ v.runs[r] \in RunRows /\ RowInv(v.sizes, v.runs[r])
  BY DEF Sound, Views
<1> DEFINE old == v.runs[r]
           run == [old EXCEPT !.appr[k] = "rejected", !.status = "rejected", !.stage = old.stage]
<1>3. old.stage \in Stages /\ run = [old EXCEPT !.appr[k] = "rejected", !.status = "rejected"]
  BY <1>2 DEF RunRows
<1>4. /\ run \in RunRows /\ RowInv(v.sizes, run) /\ k \in Designs /\ old.appr[k] = "pending"
      /\ run.appr[k] = "rejected" /\ \A j \in Designs \ {k} : run.appr[j] = old.appr[j]
      /\ run.subject = old.subject /\ run.vers = old.vers
  <2>1. run \in RunRows /\ DecidedAs(old, run, k, "rejected", "rejected")
    BY <1>2, <1>3, DecidedFields
  <2> HIDE DEF run
  <2> QED BY <1>2, <2>1, DecidedRow
<1>5. w = With(v, r, run)
  BY <1>1, <1>3
<1> HIDE DEF run
<1>7. Keeps(old, run)
  BY <1>4 DEF Keeps, Lasting, Decided
<1>8. v.sizes \in Sizes /\ Grown(v.sizes, v.sizes) /\ Dense(v.sizes)
  BY <1>2 DEF Views, Grown, Sound
<1>9. /\ w \in Views /\ Sound(w) /\ Stand(v, w) /\ w.cases = v.cases
      /\ w.runs[r] = run /\ \A q \in Runs \ {r} : w.runs[q] = v.runs[q]
  <2>1. w = Redone(v, r, run, v.sizes)
    BY <1>2, <1>5, WithRedone
  <2> QED BY <1>2, <1>4, <1>7, <1>8, <2>1, RedoneSound
<1>10. Decides(v, w, r, k, "rejected")
  <2>1. \A q \in Runs \ {r} : Undecided(v.runs[q], w.runs[q])
    BY <1>9 DEF Undecided
  <2>2. \A j \in Designs :
          Decision(w.runs[r].appr[j]) = IF j = k THEN "rejected" ELSE Decision(v.runs[r].appr[j])
    BY <1>4, <1>9 DEF Decision
  <2> QED BY <1>4, <2>1, <2>2 DEF Decides, Decision
<1> QED BY <1>4, <1>9, <1>10 DEF Outcome, Promise

(* The registry after a call that materialises the cases of a design. *)
LEMMA MaterialisedCase ==
    ASSUME NEW v, Sound(v), NEW r \in Runs, NEW d \in Designs, NEW ok \in SUBSET CaseIndex,
           NEW i \in CaseIndex
    PROVE  LET old == v.cases[i]
               new == Materialised(v, r, d, ok)[i]
           IN  /\ new \in CaseRows
               /\ i > v.sizes[d] => new = old
               /\ old.run # 0 => new.run = old.run /\ new.design = old.design
               /\ old.run = 0 /\ i <= v.sizes[d] => new.run = r /\ new.design = d
               /\ old.pub = "published" => new.pub = "published"
               /\ new.session = old.session
               /\ new.run = 0 => new = AbsentCase
<1>1. v.cases[i] \in CaseRows /\ v.sizes[d] \in Int /\ i \in Int
  BY DesignBounds DEF Sound, Views, Sizes, CaseIndex
<1>2. r \in 0..MaxRuns /\ d \in 0..MaxDesigns /\ r # 0
  BY DesignBounds DEF Runs, Designs
<1>3. v.cases[i].run = 0 => v.cases[i] = AbsentCase
  BY DesignBounds DEF Sound, CasesBacked, Runs
<1> DEFINE kept == IF v.cases[i].run # 0 THEN v.cases[i]
                   ELSE [AbsentCase EXCEPT !.run = r, !.design = d]
<1>4. /\ kept \in CaseRows /\ kept.run # 0 /\ kept.session = v.cases[i].session
      /\ kept.pub = v.cases[i].pub
      /\ v.cases[i].run # 0 => kept = v.cases[i]
      /\ v.cases[i].run = 0 => kept.run = r /\ kept.design = d
  BY <1>1, <1>2, <1>3 DEF AbsentCase, CaseRows
<1>5. Materialised(v, r, d, ok)[i] =
          IF i > v.sizes[d] THEN v.cases[i]
          ELSE IF kept.pub = "published" \/ i \in ok THEN [kept EXCEPT !.pub = "published"]
          ELSE [kept EXCEPT !.pub = IF HasProject THEN "failed" ELSE @]
  BY DEF Materialised
<1> HIDE DEF kept
<1>6. CASE i > v.sizes[d]
  BY <1>1, <1>3, <1>5, <1>6
<1>7. CASE ~(i > v.sizes[d])
  BY <1>1, <1>4, <1>5, <1>7 DEF CaseRows
<1> QED BY <1>6, <1>7

(* The view after such a call, for a run that keeps its other approvals. *)
LEMMA RecordedView ==
    ASSUME NEW v, Sound(v), NEW r \in Runs, NEW k \in Designs,
           v.runs[r].appr[k] \in {"pending", "approved"},
           NEW run \in RunRows, RowInv(v.sizes, run),
           run.appr[k] = "approved",
           \A j \in Designs \ {k} : run.appr[j] = v.runs[r].appr[j],
           run.subject = v.runs[r].subject, run.vers = v.runs[r].vers,
           NEW w \in Recorded(v, r, run, k)
    PROVE  /\ w \in Views /\ Sound(w) /\ Stand(v, w) /\ w.runs[r] = run
           /\ \A q \in Runs \ {r} : w.runs[q] = v.runs[q]
           /\ run.subject[k] \in Designs
           /\ \E ok \in SUBSET CaseIndex : w.cases = Materialised(v, r, run.subject[k], ok)
<1> DEFINE d == run.subject[k]
<1>1. /\ v \in Views /\ v.sizes \in Sizes
      /\ \A i \in CaseIndex : v.cases[i] \in CaseRows
  BY DEF Sound, Views
<1>0. d \in Designs
  BY DEF RowInv, Founded
<1>2. PICK ok \in SUBSET CaseIndex :
          w = [With(v, r, run) EXCEPT !.cases = Materialised(v, r, d, ok)]
  BY DEF Recorded, When
<1> HIDE DEF d
<1> DEFINE cs == Materialised(v, r, d, ok)
<1>3. w = [runs |-> [v.runs EXCEPT ![r] = run], sizes |-> v.sizes, cases |-> cs]
  BY <1>1, <1>2 DEF With, Views
<1>4. cs = [i \in CaseIndex |-> cs[i]]
  BY DEF Materialised
<1>5. \A i \in CaseIndex :
         /\ cs[i] \in CaseRows
         /\ i > v.sizes[d] => cs[i] = v.cases[i]
         /\ v.cases[i].run # 0 => cs[i].run = v.cases[i].run /\ cs[i].design = v.cases[i].design
         /\ v.cases[i].run = 0 /\ i <= v.sizes[d] =>
                cs[i].run = r /\ cs[i].design = d
         /\ cs[i].run = 0 => cs[i] = AbsentCase
  BY <1>0, MaterialisedCase
<1> HIDE DEF cs
<1>6. cs \in [CaseIndex -> CaseRows]
  BY <1>4, <1>5
<1>7. /\ w \in Views /\ w.sizes = v.sizes /\ w.cases = cs /\ w.runs[r] = run
      /\ \A q \in Runs \ {r} : w.runs[q] = v.runs[q]
  BY <1>1, <1>3, <1>6 DEF Views
<1>8. Stand(v, w)
  <2> SUFFICES ASSUME NEW q \in Runs, NEW j \in Designs, v.runs[q].appr[j] \in Decided
               PROVE  Lasting(v.runs[q], w.runs[q], j)
    BY DEF Stand
  <2>1. CASE q = r
    BY <1>7, <2>1 DEF Lasting, Decided
  <2>2. CASE q # r
    BY <1>7, <2>2 DEF Lasting
  <2> QED BY <2>1, <2>2
<1>9. \A q \in Runs : RowInv(w.sizes, w.runs[q])
  BY <1>7 DEF Sound
<1>10. \A i \in CaseIndex : i \in Int /\ v.sizes[d] \in Int
  BY <1>0, <1>1, DesignBounds DEF CaseIndex, Sizes
<1>11. CasesBacked(w)
  <2> SUFFICES ASSUME NEW i \in CaseIndex, cs[i] # AbsentCase
               PROVE  /\ cs[i].run \in Runs
                      /\ \E j \in Approved(w.runs[cs[i].run]) :
                            cs[i].design = w.runs[cs[i].run].subject[j]
                      /\ i <= v.sizes[cs[i].design]
    BY <1>7 DEF CasesBacked
  <2>1. CASE v.cases[i].run = 0
    <3>1. i <= v.sizes[d]
      <4>1. ASSUME i > v.sizes[d] PROVE FALSE
        <5>1. cs[i].run = 0
          BY <1>5, <2>1, <4>1
        <5> QED BY <1>5, <5>1
      <4> QED BY <1>10, <4>1
    <3>2. cs[i].run = r /\ cs[i].design = d
      BY <1>5, <2>1, <3>1
    <3>3. k \in Approved(w.runs[r]) /\ d = w.runs[r].subject[k]
      BY <1>7 DEF Approved, d
    <3> QED BY <3>1, <3>2, <3>3
  <2>2. CASE v.cases[i].run # 0
    <3>1. v.cases[i] # AbsentCase
      BY <2>2 DEF AbsentCase
    <3>2. v.cases[i].run \in Runs /\ i <= v.sizes[v.cases[i].design]
      BY <3>1 DEF Sound, CasesBacked
    <3>3. PICK j \in Approved(v.runs[v.cases[i].run]) :
              v.cases[i].design = v.runs[v.cases[i].run].subject[j]
      BY <3>1 DEF Sound, CasesBacked
    <3>4. /\ j \in Approved(w.runs[v.cases[i].run])
          /\ w.runs[v.cases[i].run].subject[j] = v.runs[v.cases[i].run].subject[j]
      BY <1>8, <3>2 DEF Stand, Lasting, Decided, Approved
    <3> QED BY <1>5, <2>2, <3>2, <3>3, <3>4
  <2> QED BY <2>1, <2>2
<1>12. ASSUME NEW q \in Runs PROVE Backlogged(w, q)
  <2> SUFFICES ASSUME NEW j \in Approved(w.runs[q])
               PROVE  \A i \in CaseIndex :
                          i <= w.sizes[w.runs[q].subject[j]] => w.cases[i].run # 0
    BY DEF Backlogged
  <2>1. CASE q = r /\ j = k
    <3>1. \A i \in CaseIndex : i <= v.sizes[d] => cs[i].run # 0
      BY <1>5, DesignBounds DEF Runs
    <3> QED BY <1>7, <2>1, <3>1 DEF d
  <2>2. CASE q # r \/ j # k
    <3>1. j \in Approved(v.runs[q]) /\ w.runs[q].subject[j] = v.runs[q].subject[j]
      BY <1>7, <2>2 DEF Approved
    <3> QED BY <1>5, <1>7, <3>1 DEF Sound, Backlogged
  <2> QED BY <2>1, <2>2
<1>13. Sound(w)
  BY <1>7, <1>9, <1>11, <1>12 DEF Sound
<1> QED BY <1>0, <1>7, <1>8, <1>13 DEF cs, d

LEMMA ApprovedOutcome ==
    ASSUME NEW v, Sound(v), NEW r \in Runs, NEW k, NEW run \in RunRows,
           DecidedAs(v.runs[r], run, k, "approved", "completed"),
           NEW w \in Recorded(v, r, run, k)
    PROVE  w \in Outcome(v)
<1>0. /\ RowInv(v.sizes, run) /\ k \in Designs
      /\ v.runs[r].appr[k] = "pending" /\ run.appr[k] = "approved"
      /\ \A j \in Designs \ {k} : run.appr[j] = v.runs[r].appr[j]
      /\ run.subject = v.runs[r].subject /\ run.vers = v.runs[r].vers
  <2>1. v.runs[r] \in RunRows /\ RowInv(v.sizes, v.runs[r])
    BY DEF Sound, Views
  <2> QED BY <2>1, DecidedRow
<1>1. /\ w \in Views /\ Sound(w) /\ Stand(v, w) /\ w.runs[r] = run
      /\ \A q \in Runs \ {r} : w.runs[q] = v.runs[q]
      /\ run.subject[k] \in Designs
      /\ \E ok \in SUBSET CaseIndex : w.cases = Materialised(v, r, run.subject[k], ok)
  BY <1>0, RecordedView
<1> DEFINE d == run.subject[k]
<1>2. PICK ok \in SUBSET CaseIndex : w.cases = Materialised(v, r, d, ok)
  BY <1>1
<1>3. d \in Designs /\ v.sizes \in Sizes
  BY <1>1 DEF Sound, Views
<1> HIDE DEF d
<1> DEFINE S == {i \in CaseIndex : i <= v.sizes[d]}
           T == {i \in S : w.cases[i].pub = "published"}
<1>4. \A i \in CaseIndex : i \notin S => i > v.sizes[d]
  BY <1>3, DesignBounds DEF CaseIndex, Sizes
<1>5. ASSUME NEW i \in CaseIndex
      PROVE  /\ w.cases[i].run = IF i \in S /\ v.cases[i].run = 0 THEN r ELSE v.cases[i].run
             /\ w.cases[i].pub = "published" <=> v.cases[i].pub = "published" \/ i \in T
             /\ w.cases[i].session = v.cases[i].session
  BY <1>2, <1>3, <1>4, MaterialisedCase
<1>6. Decides(v, w, r, k, "approved")
  <2>1. \A q \in Runs \ {r} : Undecided(v.runs[q], w.runs[q])
    BY <1>1 DEF Undecided
  <2>2. \A j \in Designs : run.appr[j] = IF j = k THEN "approved" ELSE v.runs[r].appr[j]
    BY <1>0
  <2>3. \A j \in Designs :
          Decision(w.runs[r].appr[j]) = IF j = k THEN "approved" ELSE Decision(v.runs[r].appr[j])
    BY <1>1, <2>2 DEF Decision
  <2> QED BY <1>0, <2>1, <2>3 DEF Decides, Decision
<1>7. S \in SUBSET CaseIndex /\ T \in SUBSET S
  OBVIOUS
<1> HIDE DEF S, T
<1>8. Listed(v, w, r, S, T)
  BY <1>5 DEF Listed
<1>9. Promise(v, w)
  BY <1>0, <1>6, <1>7, <1>8 DEF Promise
<1> QED BY <1>1, <1>9 DEF Outcome

LEMMA ApproveOutcome ==
    ASSUME NEW v, Sound(v), NEW r \in Runs, NEW w \in Approve(v, r)
    PROVE  w \in Outcome(v)
<1>1. PICK k \in Pending(v.runs[r]) :
          w \in Recorded(v, r, [v.runs[r] EXCEPT !.appr[k] = "approved",
                                                 !.status = "completed"], k)
  BY DEF Approve
<1> DEFINE run == [v.runs[r] EXCEPT !.appr[k] = "approved", !.status = "completed",
                                    !.stage = v.runs[r].stage]
<1>2. v.runs[r] \in RunRows /\ v.runs[r].stage \in Stages
  BY DEF Sound, Views, RunRows
<1>3. run = [v.runs[r] EXCEPT !.appr[k] = "approved", !.status = "completed"]
  BY <1>2 DEF RunRows
<1>4. run \in RunRows /\ DecidedAs(v.runs[r], run, k, "approved", "completed")
  BY <1>2, DecidedFields
<1>5. w \in Recorded(v, r, run, k)
  BY <1>1, <1>3
<1> HIDE DEF run
<1> QED BY <1>4, <1>5, ApprovedOutcome

LEMMA ApproveDesignOutcome ==
    ASSUME NEW v, Sound(v), NEW r \in Runs, NEW w \in ApproveDesign(v, r)
    PROVE  w \in Outcome(v)
<1>1. PICK k \in Asked(v.runs[r]) :
          w \in Recorded(v, r, [v.runs[r] EXCEPT !.appr[k] = "approved", !.status = "completed",
                                                 !.stage = "approved"], k)
  BY DEF ApproveDesign
<1> DEFINE run == [v.runs[r] EXCEPT !.appr[k] = "approved", !.status = "completed",
                                    !.stage = "approved"]
<1>2. k \in Pending(v.runs[r]) /\ "approved" \in Stages /\ v.runs[r] \in RunRows
  BY DEF Asked, Stages, Sound, Views
<1>3. run \in RunRows /\ DecidedAs(v.runs[r], run, k, "approved", "completed")
  BY <1>2, DecidedFields
<1>4. w \in Recorded(v, r, run, k)
  BY <1>1
<1> HIDE DEF run
<1> QED BY <1>3, <1>4, ApprovedOutcome

(* Publishing again records nothing new: the approval recorded every case. *)
LEMMA PublishOutcome ==
    ASSUME NEW v, Sound(v), NEW r \in Runs, NEW w \in PublishDesign(v, r)
    PROVE  w \in Outcome(v)
<1> DEFINE run == [v.runs[r] EXCEPT !.stage = "automation_ready"]
<1>1. PICK k \in Designs : v.runs[r].appr[k] = "approved" /\ w \in Recorded(v, r, run, k)
  BY DEF PublishDesign, When
<1>0. v.runs[r] \in RunRows /\ RowInv(v.sizes, v.runs[r])
  BY DEF Sound, Views
<1>2. /\ run \in RunRows /\ run.appr = v.runs[r].appr /\ run.status = v.runs[r].status
      /\ run.mode = v.runs[r].mode /\ run.review = v.runs[r].review
      /\ run.subject = v.runs[r].subject /\ run.approvedPlan = v.runs[r].approvedPlan
      /\ run.plan = v.runs[r].plan /\ run.vers = v.runs[r].vers
      /\ run.current = v.runs[r].current /\ run.design = v.runs[r].design
  BY <1>0 DEF RunRows, Stages
<1> HIDE DEF run
<1>3. RowInv(v.sizes, run)
  BY <1>0, <1>1, <1>2 DEF RowInv, AbsentRun, Single, Founded, Newest, Pending, Told
<1>4. /\ w \in Views /\ Sound(w) /\ Stand(v, w) /\ w.runs[r] = run
      /\ \A q \in Runs \ {r} : w.runs[q] = v.runs[q]
      /\ run.subject[k] \in Designs
      /\ \E ok \in SUBSET CaseIndex : w.cases = Materialised(v, r, run.subject[k], ok)
  BY <1>1, <1>2, <1>3, RecordedView
<1> DEFINE d == run.subject[k]
<1>5. /\ d \in Designs
      /\ \E ok \in SUBSET CaseIndex : w.cases = Materialised(v, r, d, ok)
  BY <1>4
<1> HIDE DEF d
<1>6. \A i \in CaseIndex : i <= v.sizes[d] => v.cases[i].run # 0
  BY <1>1, <1>2 DEF Sound, Backlogged, Approved, d
<1>7. \A i \in CaseIndex : i > v.sizes[d] \/ i <= v.sizes[d]
  BY <1>5, DesignBounds DEF Sound, Views, Sizes, CaseIndex
<1> DEFINE S == {i \in CaseIndex : v.cases[i].run # 0 /\ w.cases[i].pub = "published"}
<1>8. ASSUME NEW i \in CaseIndex
      PROVE  /\ w.cases[i].run = v.cases[i].run
             /\ w.cases[i].pub = "published" <=> v.cases[i].pub = "published" \/ i \in S
             /\ w.cases[i].session = v.cases[i].session
  BY <1>5, <1>6, <1>7, MaterialisedCase
<1>9. S \in SUBSET {i \in CaseIndex : v.cases[i].run # 0}
  OBVIOUS
<1> HIDE DEF S
<1>10. SameDecisions(v, w) /\ Published(v, w, S)
  BY <1>2, <1>4, <1>8 DEF SameDecisions, Undecided, Published
<1>11. Promise(v, w)
  BY <1>9, <1>10 DEF Promise
<1> QED BY <1>4, <1>11 DEF Outcome

(* A call that changes neither the runs nor what the registry holds. *)
LEMMA CaseOutcome ==
    ASSUME NEW v, Sound(v), NEW i \in CaseIndex, v.cases[i].run # 0, NEW new \in CaseRows,
           new.run = v.cases[i].run, new.design = v.cases[i].design,
           NEW w, w = [runs |-> v.runs, sizes |-> v.sizes, cases |-> [v.cases EXCEPT ![i] = new]]
    PROVE  w \in Views /\ Sound(w) /\ Stand(v, w) /\ SameDecisions(v, w)
<1>1. v \in Views /\ v.cases \in [CaseIndex -> CaseRows]
  BY DEF Sound, Views
<1>2. /\ w.runs = v.runs /\ w.sizes = v.sizes /\ w.cases \in [CaseIndex -> CaseRows]
      /\ w.cases[i] = new /\ \A j \in CaseIndex \ {i} : w.cases[j] = v.cases[j]
  BY <1>1
<1>3. w \in Views
  BY <1>1, <1>2 DEF Views
<1>4. CasesBacked(w)
  <2>1. CasesBacked(v) /\ v.cases[i] # AbsentCase
    BY DEF Sound, AbsentCase
  <2>2. ASSUME NEW j \in CaseIndex
        PROVE  \/ w.cases[j] = v.cases[j]
               \/ /\ v.cases[j] # AbsentCase /\ w.cases[j].run = v.cases[j].run
                  /\ w.cases[j].design = v.cases[j].design
    BY <1>2, <2>1
  <2> SUFFICES ASSUME NEW j \in CaseIndex, w.cases[j] # AbsentCase
               PROVE  /\ w.cases[j].run \in Runs
                      /\ \E k \in Approved(w.runs[w.cases[j].run]) :
                            w.cases[j].design = w.runs[w.cases[j].run].subject[k]
                      /\ j <= w.sizes[w.cases[j].design]
    BY DEF CasesBacked
  <2>3. /\ v.cases[j] # AbsentCase /\ w.cases[j].run = v.cases[j].run
        /\ w.cases[j].design = v.cases[j].design
    BY <2>2
  <2> QED BY <1>2, <2>1, <2>3 DEF CasesBacked
<1>5. \A r \in Runs : Backlogged(w, r)
  BY <1>2 DEF Sound, Backlogged
<1>6. Sound(w)
  BY <1>2, <1>3, <1>4, <1>5 DEF Sound
<1> QED BY <1>2, <1>3, <1>6 DEF Stand, Lasting, SameDecisions, Undecided

LEMMA PublishCaseOutcome ==
    ASSUME NEW v, Sound(v), NEW i \in CaseIndex, NEW w \in PublishCase(v, i)
    PROVE  w \in Outcome(v)
<1> DEFINE new == [v.cases[i] EXCEPT !.pub = "published"]
<1>1. /\ v \in Views /\ v.cases[i] \in CaseRows /\ v.cases[i].run # 0
      /\ w = [v EXCEPT !.cases[i].pub = "published"]
  BY DEF Sound, Views, PublishCase, When
<1>2. /\ new \in CaseRows /\ new.run = v.cases[i].run /\ new.design = v.cases[i].design
      /\ new.pub = "published" /\ new.session = v.cases[i].session
  BY <1>1 DEF CaseRows
<1>3. w = [runs |-> v.runs, sizes |-> v.sizes, cases |-> [v.cases EXCEPT ![i] = new]]
  BY <1>1 DEF Views
<1> HIDE DEF new
<1>4. w \in Views /\ Sound(w) /\ Stand(v, w) /\ SameDecisions(v, w)
  BY <1>1, <1>2, <1>3, CaseOutcome
<1>5. Published(v, w, {i})
  BY <1>1, <1>2, <1>3 DEF Published, Views
<1>6. {i} \in SUBSET {j \in CaseIndex : v.cases[j].run # 0}
  BY <1>1
<1>7. Promise(v, w)
  BY <1>4, <1>5, <1>6 DEF Promise
<1> QED BY <1>4, <1>7 DEF Outcome

LEMMA AutomateOutcome ==
    ASSUME NEW v, Sound(v), NEW i \in CaseIndex, NEW w \in Automate(v, i)
    PROVE  w \in Outcome(v)
<1> DEFINE new == [v.cases[i] EXCEPT !.session = TRUE]
<1>1. /\ v \in Views /\ v.cases[i] \in CaseRows /\ v.cases[i] # AbsentCase
      /\ v.cases[i].pub = "published" /\ ~v.cases[i].session
      /\ w = [v EXCEPT !.cases[i].session = TRUE]
  BY DEF Sound, Views, Automate, When, AbsentCase
<1>2. v.cases[i].run # 0
  BY <1>1, DesignBounds DEF Sound, CasesBacked, Runs
<1>3. new \in CaseRows /\ new.run = v.cases[i].run /\ new.design = v.cases[i].design
  BY <1>1 DEF CaseRows
<1>4. w = [runs |-> v.runs, sizes |-> v.sizes, cases |-> [v.cases EXCEPT ![i] = new]]
  BY <1>1 DEF Views
<1>5. w.cases = [v.cases EXCEPT ![i].session = TRUE]
  BY <1>4
<1> HIDE DEF new
<1>6. w \in Views /\ Sound(w) /\ Stand(v, w) /\ SameDecisions(v, w)
  BY <1>2, <1>3, <1>4, CaseOutcome
<1>7. Promise(v, w)
  BY <1>1, <1>5, <1>6 DEF Promise, Automated
<1> QED BY <1>6, <1>7 DEF Outcome

-----------------------------------------------------------------------------
(* The specification. *)

LEMMA InitSound == Init => Sound(View)
<1> SUFFICES ASSUME Init PROVE Sound(View)
  OBVIOUS
<1>1. AbsentRun \in RunRows /\ AbsentCase \in CaseRows
  BY DesignBounds DEF AbsentRun, RunRows, RunStatus, Stages, Decisions, ReviewState,
                      ApprovalRows, SubjectRows, VersionRows, EventRows, AbsentCase, CaseRows
<1>2. View \in Views
  BY <1>1, DesignBounds DEF Init, View, Views, Sizes
<1>3. RowInv(sizes, AbsentRun)
  BY DEF RowInv, AbsentRun, Single, Founded, Newest, Told
<1> QED BY <1>2, <1>3 DEF Init, View, Sound, Dense, CasesBacked, Backlogged, Approved, AbsentRun

(* A committed call leaves one of its results. *)
LEMMA CommittedOutcome ==
    ASSUME Sound(View), NEW results, Committed(results),
           \A w \in results : w \in Outcome(View)
    PROVE  View' \in Outcome(View)
<1>1. PICK w \in results : runs' = w.runs /\ sizes' = w.sizes /\ cases' = w.cases
  BY DEF Committed
<1>2. w \in Views
  BY <1>1 DEF Outcome
<1>3. View' = w
  BY <1>1, <1>2 DEF View, Views
<1> QED BY <1>1, <1>3

LEMMA RunStepOutcome ==
    ASSUME Sound(View), NEW r \in Runs, RunStep(r)
    PROVE  View' \in Outcome(View)
<1>1. CASE StartRequest(r)
  BY <1>1, StartRunOutcome, CommittedOutcome DEF StartRequest
<1>2. CASE DeadStart(r)
  BY <1>2, StartDiesOutcome, CommittedOutcome DEF DeadStart
<1>3. CASE AnalyzeRequest(r)
  BY <1>3, AnalyzeOutcome, CommittedOutcome DEF AnalyzeRequest
<1>4. CASE PreparePlanRequest(r)
  BY <1>4, PreparePlanOutcome, CommittedOutcome DEF PreparePlanRequest
<1>5. CASE ApprovePlanRequest(r)
  BY <1>5, ApprovePlanOutcome, CommittedOutcome DEF ApprovePlanRequest
<1>6. CASE RevisePlanRequest(r)
  BY <1>6, PlanRevisionOutcome, CommittedOutcome DEF RevisePlanRequest
<1>7. CASE GenerateRequest(r)
  BY <1>7, GenerateOutcome, CommittedOutcome DEF GenerateRequest
<1>8. CASE ReviseCasesRequest(r)
  BY <1>8, ReviseCasesOutcome, CommittedOutcome DEF ReviseCasesRequest
<1>9. CASE EvolveRequest(r)
  BY <1>9, EvolveOutcome, CommittedOutcome DEF EvolveRequest
<1>10. CASE Comment(r)
  BY <1>10, PostCommentOutcome, CommittedOutcome DEF Comment
<1>11. CASE CommentsRequest(r)
  BY <1>11, ProcessCommentsOutcome, CommittedOutcome DEF CommentsRequest
<1>12. CASE ApproveRequest(r)
  BY <1>12, ApproveOutcome, CommittedOutcome DEF ApproveRequest
<1>13. CASE ApproveDesignRequest(r)
  BY <1>13, ApproveDesignOutcome, CommittedOutcome DEF ApproveDesignRequest
<1>14. CASE RejectRequest(r)
  BY <1>14, RejectOutcome, CommittedOutcome DEF RejectRequest
<1>15. CASE PublishRequest(r)
  BY <1>15, PublishOutcome, CommittedOutcome DEF PublishRequest
<1> QED BY <1>1, <1>2, <1>3, <1>4, <1>5, <1>6, <1>7, <1>8, <1>9, <1>10, <1>11, <1>12,
           <1>13, <1>14, <1>15 DEF RunStep

LEMMA NextOutcome ==
    ASSUME Sound(View), Next
    PROVE  View' \in Outcome(View)
<1>1. CASE CreateRequest
  <2>1. \A w \in CreateRun(View) : w \in Outcome(View)
    BY CreatedOutcome DEF CreateRun
  <2> QED BY <1>1, <2>1, CommittedOutcome DEF CreateRequest
<1>2. CASE PollRequest
  BY <1>2, PollIssueOutcome, CommittedOutcome DEF PollRequest
<1>3. CASE CreateWorkspaceRequest
  <2>1. \A w \in CreateWorkspaceRun(View) : w \in Outcome(View)
    BY CreatedOutcome DEF CreateWorkspaceRun, When
  <2> QED BY <1>3, <2>1, CommittedOutcome DEF CreateWorkspaceRequest
<1>4. CASE \E r \in Runs : RunStep(r)
  BY <1>4, RunStepOutcome
<1>5. CASE \E i \in CaseIndex : PublishCaseRequest(i) \/ AutomateRequest(i)
  <2>1. PICK i \in CaseIndex : PublishCaseRequest(i) \/ AutomateRequest(i)
    BY <1>5
  <2>2. CASE PublishCaseRequest(i)
    BY <2>2, PublishCaseOutcome, CommittedOutcome DEF PublishCaseRequest
  <2>3. CASE AutomateRequest(i)
    BY <2>3, AutomateOutcome, CommittedOutcome DEF AutomateRequest
  <2> QED BY <2>1, <2>2, <2>3
<1> QED BY <1>1, <1>2, <1>3, <1>4, <1>5 DEF Next

(* Every step keeps the view sound, and the decisions. *)
LEMMA StepSound ==
    ASSUME Sound(View), [Next]_vars
    PROVE  Sound(View)' /\ ((Stand(View, View') /\ Promise(View, View')) \/ UNCHANGED vars)
<1>1. CASE Next
  BY <1>1, NextOutcome DEF Outcome
<1>2. CASE UNCHANGED vars
  <2>1. View' = View
    BY <1>2 DEF vars, View
  <2>2. Sound(View')
    BY <2>1
  <2> QED BY <1>2, <2>2
<1> QED BY <1>1, <1>2

LEMMA Inductive == Spec => []Sound(View)
<1>1. Init => Sound(View)
  BY InitSound
<1>2. Sound(View) /\ [Next]_vars => Sound(View)'
  BY StepSound
<1> QED BY <1>1, <1>2, PTL DEF Spec

(* Type correctness: every call, of whatever operation, leaves rows within
   their columns. *)
THEOREM Types == Spec => []TypeOK
<1>1. Sound(View) => TypeOK
  BY DEF Sound, View, Views, Sizes, TypeOK
<1> QED BY <1>1, Inductive, PTL

(* What the reviewer sees, what the run's state holds and what the approval is
   about agree while the decision on a reviewed run is pending. *)
THEOREM OpenDesign == Spec => []OpenDesignIsCurrent
<1>1. Sound(View) => OpenDesignIsCurrent
  BY DEF Sound, View, RowInv, Newest, OpenDesignIsCurrent
<1> QED BY <1>1, Inductive, PTL

(* The status of a run tells its decision. *)
THEOREM Status == Spec => []StatusTold
<1>1. Sound(View) => StatusTold
  BY DEF Sound, View, RowInv, Told, StatusTold
<1> QED BY <1>1, Inductive, PTL

(* The approval of a plan does not outlive the plan. *)
THEOREM Plan == Spec => []ApprovedPlanIsLatest
<1>1. Sound(View) => ApprovedPlanIsLatest
  BY DEF Sound, View, RowInv, ApprovedPlanIsLatest
<1> QED BY <1>1, Inductive, PTL

(* The backlog holds only cases of designs approved in the run that recorded
   them. *)
THEOREM Backing == Spec => []CasesApproved
<1>1. Sound(View) => CasesApproved
  BY DEF Sound, View, CasesBacked, AbsentCase, CasesApproved
<1> QED BY <1>1, Inductive, PTL

(* Approval leaves no case of the design out of the backlog. *)
THEOREM Recording == Spec => []ApprovedIsRecorded
<1>1. Sound(View) => ApprovedIsRecorded
  BY DEF Sound, View, Backlogged, ApprovedIsRecorded
<1> QED BY <1>1, Inductive, PTL

(* Every decision is final, and so are what it was about and the versions of a
   run that waits for no other. *)
THEOREM Final == Spec => DecisionStands
<1>1. Sound(View) /\ [Next]_vars =>
        [\A r \in Runs : \A k \in Designs : runs[r].appr[k] \in {"approved", "rejected"} =>
            /\ runs'[r].appr[k] = runs[r].appr[k]
            /\ runs'[r].subject[k] = runs[r].subject[k]
            /\ \A n \in Designs : runs'[r].vers[n] # runs[r].vers[n] =>
                  runs[r].vers[n] = 0 /\ Pending(runs[r]) # {}]_vars
  BY StepSound DEF Stand, Lasting, Decided, View
<1> QED BY <1>1, Inductive, PTL DEF Spec, DecisionStands

-----------------------------------------------------------------------------
(* Refinement of DesignGate. *)

LEMMA GateInitial == Init => Backlog!GateInit
BY DEF Init, Backlog!GateInit, RunDecisions, CaseOrigins, CasesPublished, CasesAutomated,
       Decision, AbsentRun, AbsentCase

LEMMA GateStep ==
    ASSUME Sound(View), Promise(View, View')
    PROVE  [Backlog!GateNext]_<<RunDecisions, CaseOrigins, CasesPublished, CasesAutomated>>
<1>1. cases \in [CaseIndex -> CaseRows] /\ \A i \in CaseIndex : cases[i].session \in BOOLEAN
  BY DEF Sound, View, Views, CaseRows
<1>2. CASE SameDecisions(View, View') /\ cases' = cases
  BY <1>2 DEF SameDecisions, Undecided, View, RunDecisions, CaseOrigins, CasesPublished,
              CasesAutomated
<1>7. ASSUME NEW r \in Runs, NEW k \in Designs, NEW how, Decides(View, View', r, k, how)
      PROVE  /\ RunDecisions[r][k] = "open"
             /\ RunDecisions' = [RunDecisions EXCEPT ![r][k] = how]
  <2>1. RunDecisions[r][k] = "open"
    BY <1>7 DEF Decides, View, RunDecisions
  <2>2. [RunDecisions[r] EXCEPT ![k] = how] = RunDecisions'[r]
    BY <1>7 DEF Decides, View, RunDecisions
  <2>3. \A q \in Runs \ {r} : RunDecisions'[q] = RunDecisions[q]
    BY <1>7 DEF Decides, Undecided, View, RunDecisions
  <2> QED BY <2>1, <2>2, <2>3 DEF RunDecisions
<1>3. CASE \E r \in Runs, k \in Designs : Decides(View, View', r, k, "rejected") /\ cases' = cases
  <2>1. PICK r \in Runs, k \in Designs : Decides(View, View', r, k, "rejected") /\ cases' = cases
    BY <1>3
  <2>2. /\ RunDecisions[r][k] = "open"
        /\ RunDecisions' = [RunDecisions EXCEPT ![r][k] = "rejected"]
    BY <1>7, <2>1
  <2>3. UNCHANGED <<CaseOrigins, CasesPublished, CasesAutomated>>
    BY <2>1 DEF CaseOrigins, CasesPublished, CasesAutomated
  <2>4. Backlog!RejectRun(r, k)
    BY <2>2, <2>3 DEF Backlog!RejectRun
  <2> QED BY <2>4 DEF Backlog!GateNext
<1>4. CASE \E r \in Runs, k \in Designs, S \in SUBSET CaseIndex : \E T \in SUBSET S :
              Decides(View, View', r, k, "approved") /\ Listed(View, View', r, S, T)
  <2>1. PICK r \in Runs, k \in Designs, S \in SUBSET CaseIndex, T \in SUBSET CaseIndex :
            /\ T \in SUBSET S
            /\ Decides(View, View', r, k, "approved") /\ Listed(View, View', r, S, T)
    BY <1>4
  <2>2. /\ RunDecisions[r][k] = "open"
        /\ RunDecisions' = [RunDecisions EXCEPT ![r][k] = "approved"]
    BY <1>7, <2>1
  <2>3. CaseOrigins' = [i \in CaseIndex |->
                           IF i \in S /\ CaseOrigins[i] = 0 THEN r ELSE CaseOrigins[i]]
    BY <2>1 DEF Listed, View, CaseOrigins
  <2>4. CasesPublished' = CasesPublished \cup T /\ CasesAutomated' = CasesAutomated
    BY <2>1 DEF Listed, View, CasesPublished, CasesAutomated
  <2>5. Backlog!ApproveRun(r, k)
    BY <2>1, <2>2, <2>3, <2>4 DEF Backlog!ApproveRun
  <2> QED BY <2>5 DEF Backlog!GateNext
<1>5. CASE \E S \in SUBSET {i \in CaseIndex : cases[i].run # 0} :
              SameDecisions(View, View') /\ Published(View, View', S)
  <2>1. PICK S \in SUBSET {i \in CaseIndex : cases[i].run # 0} :
            SameDecisions(View, View') /\ Published(View, View', S)
    BY <1>5
  <2>2. RunDecisions' = RunDecisions
    BY <2>1 DEF SameDecisions, Undecided, View, RunDecisions
  <2>3. /\ CaseOrigins' = CaseOrigins /\ CasesAutomated' = CasesAutomated
        /\ CasesPublished' = CasesPublished \cup S
    BY <2>1 DEF Published, View, CaseOrigins, CasesPublished, CasesAutomated
  <2>4. S \in SUBSET {i \in CaseIndex : CaseOrigins[i] # 0}
    BY <2>1 DEF CaseOrigins
  <2>5. Backlog!PublishCases
    BY <2>2, <2>3, <2>4 DEF Backlog!PublishCases
  <2> QED BY <2>5 DEF Backlog!GateNext
<1>6. CASE \E i \in CaseIndex : SameDecisions(View, View') /\ Automated(View, View', i)
  <2>1. PICK i \in CaseIndex :
            /\ SameDecisions(View, View') /\ cases[i].pub = "published" /\ ~cases[i].session
            /\ cases' = [cases EXCEPT ![i].session = TRUE]
    BY <1>6 DEF Automated, View
  <2>2. RunDecisions' = RunDecisions
    BY <2>1 DEF SameDecisions, Undecided, View, RunDecisions
  <2>3. /\ cases'[i].run = cases[i].run /\ cases'[i].pub = cases[i].pub /\ cases'[i].session
        /\ \A j \in CaseIndex \ {i} : cases'[j] = cases[j]
    BY <1>1, <2>1 DEF CaseRows
  <2>4. /\ CaseOrigins' = CaseOrigins /\ CasesPublished' = CasesPublished
        /\ CasesAutomated' = CasesAutomated \cup {i} /\ i \in CasesPublished \ CasesAutomated
    BY <2>1, <2>3 DEF CaseOrigins, CasesPublished, CasesAutomated
  <2>5. Backlog!AutomateCase(i)
    BY <2>2, <2>4 DEF Backlog!AutomateCase
  <2> QED BY <2>5 DEF Backlog!GateNext
<1> QED BY <1>2, <1>3, <1>4, <1>5, <1>6 DEF Promise, View

(* Refinement: every behaviour of the workflow, seen through the decisions and
   the backlog, is a behaviour of DesignGate. *)
THEOREM Implementation == Spec => ImplementsDesignGate
<1>1. Init => Backlog!GateInit
  BY GateInitial
<1>2. Sound(View) /\ [Next]_vars =>
        [Backlog!GateNext]_<<RunDecisions, CaseOrigins, CasesPublished, CasesAutomated>>
  <2> SUFFICES ASSUME Sound(View), [Next]_vars
               PROVE  [Backlog!GateNext]_<<RunDecisions, CaseOrigins, CasesPublished,
                                           CasesAutomated>>
    OBVIOUS
  <2>1. CASE Promise(View, View')
    BY <2>1, GateStep
  <2>2. CASE UNCHANGED vars
    BY <2>2 DEF vars, RunDecisions, CaseOrigins, CasesPublished, CasesAutomated
  <2> QED BY <2>1, <2>2, StepSound
<1> QED BY <1>1, <1>2, Inductive, PTL DEF Spec, ImplementsDesignGate, Backlog!GateSpec,
           Backlog!gateVars

=============================================================================
