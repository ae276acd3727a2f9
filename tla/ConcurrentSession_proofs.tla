------------------------ MODULE ConcurrentSession_proofs ------------------------
(***************************************************************************)
(* ConcurrentSession for any number of clients and every value of the      *)
(* bounds: CompletedRounds, PlanPause, RoundsClosedOnce, CountedWhenClosed *)
(* and PrOnce.                                                             *)
(*                                                                         *)
(* A request works on rows that may be stale, so nothing is known of the   *)
(* job it sees but its type: the gate of AutomationSession does not hold   *)
(* here.  RowStep is what every endpoint guarantees of any well-typed      *)
(* view all the same; the three ways an endpoint can treat the rounds      *)
(* (LeavesRounds, ClosesRound, PausesRound) each give it.                  *)
(*                                                                         *)
(* PlanPause is not inductive as it stands: it says nothing of the rows    *)
(* the requests in flight have read.  PauseInv adds that as long as round  *)
(* 1 is not closed no request has seen a job that was generated, run or    *)
(* put to review, nor a counter that moved.                                *)
(***************************************************************************)
EXTENDS ConcurrentSession, AutomationSession_proofs

IsClosed(e) == e.status \in {"completed", "failed"}
IsOpen(e)   == e.status \in {"absent", "in_progress"}

(* A job of which nothing has been generated, run or put to review. *)
Quiet(j) ==
    /\ ~j.patch /\ j.exec = "none"
    /\ j.status \notin {"awaiting_automation_review", "approved_for_pr", "pr_creation_failed"}

(* What a call that read v may leave as w. *)
RowStep(v, w) ==
    /\ w \in Views
    /\ w.pr = v.pr \/ v.pr.via = "none"
    /\ \A n \in 1..MaxRounds :
          w.rounds[n] # v.rounds[n] =>
              /\ Earned(w.rounds[n])
              /\ n = 1 \/ v.rounds[n].status = "absent"
    /\ w.sess.round # v.sess.round =>
          /\ w.sess.round \in 1..MaxRounds
          /\ IsClosed(w.rounds[w.sess.round])
          /\ w.rounds[w.sess.round] # v.rounds[w.sess.round]
    /\ w.rounds[1] # v.rounds[1] =>
          IsClosed(w.rounds[1]) \/ v.rounds[1].status = "absent"
    /\ IsOpen(v.rounds[1]) /\ Quiet(v.job) /\ v.sess.round = 0 =>
          IsClosed(w.rounds[1]) \/ (Quiet(w.job) /\ w.sess.round = 0)

-----------------------------------------------------------------------------
(* The ways an endpoint treats the rounds. *)

(* It leaves the rounds and the counter alone. *)
LEMMA LeavesRounds ==
    ASSUME NEW v \in Views, NEW w \in Views, SameRounds(v, w),
           w.pr = v.pr \/ v.pr.via = "none", Quiet(v.job) => Quiet(w.job)
    PROVE  RowStep(v, w)
BY DEF RowStep, SameRounds

(* It closes round 1 or the next one, and may count it. *)
LEMMA ClosesRound ==
    ASSUME NEW v \in Views, NEW w \in Views, NEW n \in 1..MaxRounds, NEW e \in Rounds,
           w.pr = v.pr, w.rounds = [v.rounds EXCEPT ![n] = e],
           w.sess.round \in {v.sess.round, n}, IsClosed(e), Earned(e),
           n = 1 \/ n = v.sess.round + 1,
           v.rounds[n].status = "absent" \/ (n = 1 /\ v.rounds[n].status = "in_progress")
    PROVE  RowStep(v, w)
<1>1. v.rounds \in [1..MaxRounds -> Rounds] /\ v.sess.round \in Nat
  BY DEF Views, Sessions
<1>2. \A m \in 1..MaxRounds : w.rounds[m] = IF m = n THEN e ELSE v.rounds[m]
  BY <1>1
<1>3. e # v.rounds[n]
  BY DEF IsClosed
<1>4. w.rounds[n] = e /\ w.rounds[n] # v.rounds[n]
  BY <1>2, <1>3
<1>5. \A m \in 1..MaxRounds :
          w.rounds[m] # v.rounds[m] =>
              Earned(w.rounds[m]) /\ (m = 1 \/ v.rounds[m].status = "absent")
  BY <1>2
<1>6. w.sess.round # v.sess.round => w.sess.round = n
  OBVIOUS
<1>7. w.rounds[1] # v.rounds[1] => IsClosed(w.rounds[1])
  BY <1>2, FirstSlot
<1>8. v.sess.round = 0 => IsClosed(w.rounds[1])
  BY <1>4
<1> QED BY <1>4, <1>5, <1>6, <1>7, <1>8 DEF RowStep

(* It opens round 1 and pauses. *)
LEMMA PausesRound ==
    ASSUME NEW v \in Views, NEW w \in Views, NEW e \in Rounds,
           w.pr = v.pr, w.rounds = [v.rounds EXCEPT ![1] = e],
           w.sess.round = v.sess.round, Earned(e),
           v.rounds[1].status = "absent", Quiet(v.job) => Quiet(w.job)
    PROVE  RowStep(v, w)
<1>1. v.rounds \in [1..MaxRounds -> Rounds]
  BY DEF Views
<1>2. \A m \in 1..MaxRounds : w.rounds[m] = IF m = 1 THEN e ELSE v.rounds[m]
  BY <1>1
<1> QED BY <1>2 DEF RowStep

-----------------------------------------------------------------------------
(* The shared parts of the endpoints. *)

(* Keeping or syncing a result keeps the rounds and the pull request. *)
LEMMA SyncedRows ==
    ASSUME NEW v \in Views, NEW r \in Results
    PROVE  /\ Kept(v, r) \in Views /\ SameRounds(v, Kept(v, r))
           /\ Kept(v, r).job = r.job /\ Kept(v, r).pr = v.pr
           /\ Synced(v, r) \in Views /\ SameRounds(v, Synced(v, r))
           /\ Synced(v, r).job = r.job /\ Synced(v, r).disk = r.disk
           /\ Synced(v, r).pr = v.pr
<1>1. Synced(v, r).pr = v.pr
  BY DEF Synced, Kept, Views
<1> QED BY <1>1, KeptView, KeptRounds, SyncedView

(* The plan columns of a view. *)
LEMMA PlanColumnsRows ==
    ASSUME NEW s \in Views, NEW a \in Plans, NEW c \in Plans
    PROVE  /\ LET w == [s EXCEPT !.sess.approvedPlan = a]
              IN  w \in Views /\ w.job = s.job /\ w.pr = s.pr
           /\ LET w == [s EXCEPT !.sess.approvedPlan = a, !.sess.currentPlan = c]
              IN  w \in Views /\ w.job = s.job /\ w.pr = s.pr
           /\ LET w == [s EXCEPT !.sess.currentPlan = c]
              IN  w \in Views /\ w.job = s.job /\ w.disk = s.disk /\ w.pr = s.pr
BY DEF Views, Sessions

(* A failed preparation and the planning services leave a quiet job quiet. *)
LEMMA StatusQuiet ==
    ASSUME NEW j \in Jobs, Quiet(j),
           NEW s \in {"failed", "planning_changes", "generating_code", "awaiting_plan_approval"}
    PROVE  Quiet(Status(j, s))
BY DEF Quiet, Status, Jobs

(* Planning. *)
LEMMA PlanJobQuiet ==
    ASSUME NEW j \in Jobs, Quiet(j), NEW d, NEW r \in PlanJob(j, d)
    PROVE  Quiet(r.job)
<1> DEFINE k(p) == [j EXCEPT !.status = "generating_code", !.plan = p]
<1>1. Quiet(Status(j, "failed"))
  BY StatusQuiet
<1>2. \A p : Quiet(k(p))
  BY DEF Quiet, Jobs
<1> HIDE DEF k
<1>3. r = Res(Status(j, "failed"), d, "rejected") \/ \E p : r = Res(k(p), d, "ok")
  BY DEF PlanJob, When, k
<1> QED BY <1>1, <1>2, <1>3 DEF Res

(* Start and plan in one engine call. *)
LEMMA PlanOnlyQuiet ==
    ASSUME NEW j \in Jobs, Quiet(j), NEW d \in Disks, NEW r \in PlanOnly(j, d)
    PROVE  Quiet(r.job)
<1> DEFINE k == [j EXCEPT !.status = "planning_changes", !.ctx = TRUE]
<1>1. PICK q \in StartJob(j, d) : r \in PlanJob(q.job, q.disk)
  BY DEF PlanOnly
<1>2. q.job \in Jobs
  BY StartJobDraft DEF Draft, Sound, Results
<1>3. Quiet(Status(j, "failed")) /\ Quiet(k)
  BY StatusQuiet DEF Quiet, Jobs
<1> HIDE DEF k
<1>4. q.job = Status(j, "failed") \/ q.job = k
  BY DEF StartJob, When, Res, k
<1> QED BY <1>1, <1>2, <1>3, <1>4, PlanJobQuiet

(* Parking a planned job. *)
LEMMA AwaitPlanQuiet ==
    ASSUME NEW r \in Results, Quiet(r.job) PROVE Quiet(AwaitPlan(r).job)
<1>1. AwaitPlan(r).job = Status(r.job, "awaiting_plan_approval")
  BY DEF AwaitPlan, Status, Results
<1> QED BY <1>1, StatusQuiet DEF Results

(* The initial engine errors close round 1. *)
LEMMA InitialFailsRow ==
    ASSUME NEW v \in Views, NEW r \in Results, IsOpen(v.rounds[1])
    PROVE  RowStep(v, InitialFails(v, r))
<1> DEFINE s == Synced(v, r)
           w == InitialFails(v, r)
           e == [s.rounds[1] EXCEPT !.trigger = "initial", !.status = "failed",
                                    !.request = "none"]
<1>1. s \in Views /\ SameRounds(v, s) /\ s.pr = v.pr
  BY SyncedRows
<1>2. w = [FailRound(s, 1, "initial", "none") EXCEPT !.sess.round = IF @ = 0 THEN 1 ELSE @]
  BY DEF InitialFails
<1> HIDE DEF s, w
<1>3. e \in Rounds /\ e.status = "failed"
  BY <1>1, FirstSlot, FailedEntry DEF Views, Triggers
<1>4. FailRound(s, 1, "initial", "none") = [s EXCEPT !.rounds[1] = e]
  BY <1>1 DEF FailRound, Views
<1> HIDE DEF e
<1>5. /\ w.rounds = [v.rounds EXCEPT ![1] = e]
      /\ w.sess.round \in {v.sess.round, 1}
      /\ w.pr = v.pr
  BY <1>1, <1>2, <1>4 DEF Views, Sessions, SameRounds
<1>6. w \in Views
  <2> DEFINE f == FailRound(s, 1, "initial", "none")
  <2>1. f \in Views
    <3>1. [s EXCEPT !.rounds[1] = e] \in Views
      BY <1>1, <1>3 DEF Views
    <3> QED BY <1>4, <3>1
  <2>2. w = [f EXCEPT !.sess.round = IF @ = 0 THEN 1 ELSE @]
    BY <1>2
  <2> HIDE DEF f
  <2> QED BY <2>1, <2>2, FirstSlot DEF Views, Sessions
<1>7. v.rounds[1].status = "absent" \/ v.rounds[1].status = "in_progress"
  BY DEF IsOpen
<1>8. RowStep(v, w)
  BY <1>3, <1>5, <1>6, <1>7, FirstSlot, ClosesRound DEF IsClosed, Earned
<1> QED BY <1>8 DEF w

(* A workspace that cannot be prepared. *)
LEMMA PreparationFailsRow ==
    ASSUME NEW v \in Views PROVE RowStep(v, PreparationFails(v))
<1> DEFINE k == Status(v.job, "failed")
           r == Res(k, v.disk, "rejected")
<1>1. k \in Jobs /\ (Quiet(v.job) => Quiet(k))
  BY OpenStatuses, StatusDraft, StatusQuiet DEF Views
<1> HIDE DEF k
<1>2. r \in Results /\ r.job = k
  BY <1>1, OpenStatuses DEF Res, Results, Views
<1> HIDE DEF r
<1>3. /\ Synced(v, r) \in Views /\ SameRounds(v, Synced(v, r))
      /\ Synced(v, r).job = k /\ Synced(v, r).pr = v.pr
  BY <1>2, SyncedRows
<1>4. RowStep(v, Synced(v, r))
  BY <1>1, <1>3, LeavesRounds
<1> QED BY <1>4 DEF PreparationFails, r, k

(* A review round that fails before it is counted. *)
LEMMA FailRoundRow ==
    ASSUME NEW v \in Views, NEW w \in Views, SameRounds(v, w), w.pr = v.pr,
           NEW n \in 1..MaxRounds, n = v.sess.round + 1, v.rounds[n].status = "absent",
           NEW t \in Triggers
    PROVE  RowStep(v, FailRound(w, n, t, "failed"))
<1> DEFINE e == [w.rounds[n] EXCEPT !.trigger = t, !.status = "failed", !.request = "failed"]
           u == FailRound(w, n, t, "failed")
<1>1. e \in Rounds /\ e.status = "failed"
  <2>1. w.rounds[n] \in Rounds
    BY DEF Views
  <2> QED BY <2>1, FailedEntry
<1>2. u = [w EXCEPT !.rounds[n] = e]
  BY DEF FailRound, Views
<1> HIDE DEF e, u
<1>3. /\ u.rounds = [v.rounds EXCEPT ![n] = e] /\ u.sess.round = v.sess.round
      /\ u.pr = v.pr
  BY <1>2 DEF Views, SameRounds
<1>5. u \in Views
  BY <1>1, <1>2 DEF Views
<1>4. RowStep(v, u)
  BY <1>1, <1>3, <1>5, ClosesRound DEF IsClosed, Earned
<1> QED BY <1>4 DEF u

(* A round that is recorded and counted. *)
LEMMA RecordRow ==
    ASSUME NEW v \in Views, NEW w \in Views, SameRounds(v, w), w.pr = v.pr,
           NEW n \in 1..MaxRounds, n = 1 \/ n = v.sess.round + 1,
           v.rounds[n].status = "absent" \/ (n = 1 /\ v.rounds[n].status = "in_progress"),
           NEW t \in Triggers, NEW s \in {"completed", "failed"},
           NEW q \in {"none", "applied", "failed"}, NEW p \in BOOLEAN,
           s = "completed" =>
               w.job.exec = "passed" /\ (p => w.job.ranOn = w.disk.now)
    PROVE  RowStep(v, Record(w, n, t, s, q, p))
<1> DEFINE patched == p /\ w.job.patch
           e == [trigger |-> t, status |-> s, request |-> q,
                 patch |-> IF patched THEN w.disk.now ELSE 0,
                 attempt |-> w.job.exec, ranOn |-> w.job.ranOn]
           current == IF patched THEN n ELSE w.sess.currentPatch
           u == Record(w, n, t, s, q, p)
<1>1. e \in Rounds
  <2>1. /\ w.disk.now \in Contents /\ w.job.ranOn \in Contents
        /\ w.job.exec \in Verdicts
    BY DEF Views, Jobs, Disks
  <2>2. 0 \in Contents
    BY BoundsAssumption DEF Contents
  <2> QED BY <2>1, <2>2 DEF Rounds
<1>2. IsClosed(e) /\ Earned(e)
  BY DEF Earned, IsClosed
<1>3. current \in 0..MaxRounds /\ n \in 0..MaxRounds
  BY BoundsAssumption DEF Views, Sessions
<1>4. u = [w EXCEPT !.rounds[n] = e, !.sess.currentPatch = current, !.sess.round = n]
  BY DEF Record, Views, Sessions
<1> HIDE DEF e, current, u
<1>5. /\ u.rounds = [v.rounds EXCEPT ![n] = e] /\ u.sess.round = n
      /\ u.pr = v.pr /\ u \in Views
  BY <1>1, <1>3, <1>4 DEF Views, Sessions, SameRounds
<1>6. RowStep(v, u)
  BY <1>1, <1>2, <1>5, ClosesRound
<1> QED BY <1>6 DEF u

-----------------------------------------------------------------------------
(* One lemma per endpoint. *)

(* Views and the parts of them. *)
LEMMA ViewParts ==
    ASSUME NEW v \in Views
    PROVE  /\ v.job \in Jobs /\ v.disk \in Disks /\ v.job.plan \in Plans
           /\ v.sess \in Sessions /\ v.sess.currentPlan \in Plans
           /\ v.rounds \in [1..MaxRounds -> Rounds]
           /\ v.disk.now \in Contents
BY DEF Views, Sessions, Jobs, Disks

(* The view left untouched but for the session status. *)
LEMMA UntouchedRow ==
    ASSUME NEW v \in Views, NEW e \in Ends
    PROVE  /\ RowStep(v, Synced(v, Untouched(v, e)))
           /\ Untouched(v, e) \in Results
           /\ Untouched(v, e).job = v.job
<1>1. Untouched(v, e) \in Results /\ Untouched(v, e).job = v.job
  BY UntouchedResult DEF Untouched, Res
<1> QED BY <1>1, SyncedRows, LeavesRounds

(* POST prepare-plan. *)
LEMMA PreparePlanRow ==
    ASSUME NEW v \in Views, NEW w \in PreparePlan(v)
    PROVE  RowStep(v, w)
<1> DEFINE results == When(CanBegin(v) /\ Slot(v, 1), PlanOnly(v.job, v.disk))
           paused == [AbsentRound EXCEPT !.trigger = "initial", !.status = "in_progress"]
           ready(r) == [Synced(v, AwaitPlan(r)) EXCEPT
                            !.rounds[1] = paused,
                            !.sess.approvedPlan = 0, !.sess.currentPlan = r.job.plan]
<1>1. results \subseteq Results
  BY ViewParts, PlanOnlyDraft, DraftResult DEF When, DraftFrom
<1>2. ASSUME NEW r \in results
      PROVE  v.rounds[1].status = "absent" /\ (Quiet(v.job) => Quiet(r.job))
  BY <1>2, ViewParts, PlanOnlyQuiet DEF When, Slot
<1>3. Untouched(v, "rejected") \in Results
  BY OpenStatuses, UntouchedRow
<1>4. paused \in Rounds /\ paused.status = "in_progress"
  BY AbsentRoundType DEF Rounds, Triggers
<1> HIDE DEF results, paused
<1>5. ASSUME NEW r \in results PROVE RowStep(v, ready(r))
  <2> DEFINE s == Synced(v, AwaitPlan(r))
             u == [s EXCEPT !.rounds[1] = paused,
                            !.sess.approvedPlan = 0, !.sess.currentPlan = r.job.plan]
  <2>1. AwaitPlan(r) \in Results /\ r.job.plan \in Plans
    BY <1>1, AwaitPlanResult DEF Results, Jobs
  <2>2. /\ s \in Views /\ SameRounds(v, s) /\ s.pr = v.pr
        /\ s.job = AwaitPlan(r).job
    BY <2>1, SyncedRows
  <2>3. Quiet(v.job) => Quiet(s.job)
    BY <1>1, <1>2, <2>2, AwaitPlanQuiet
  <2> HIDE DEF s
  <2>4. /\ u \in Views /\ u.job = s.job /\ u.pr = v.pr
        /\ u.rounds = [v.rounds EXCEPT ![1] = paused] /\ u.sess.round = v.sess.round
    BY <1>4, <2>1, <2>2, FirstSlot DEF Views, Sessions, SameRounds
  <2> HIDE DEF u
  <2>5. RowStep(v, u)
    BY <1>2, <1>4, <2>3, <2>4, PausesRound DEF Earned
  <2> QED BY <2>5 DEF u, s
<1> HIDE DEF ready
<1>6. \/ w = Synced(v, Untouched(v, "ok"))
      \/ w = PreparationFails(v)
      \/ v.rounds[1].status = "absent" /\ w = InitialFails(v, Untouched(v, "rejected"))
      \/ \E r \in results : w = InitialFails(v, r) \/ w = ready(r)
  BY DEF PreparePlan, When, Raised, Succeeded, Slot, results, ready, paused
<1>7. CASE w = Synced(v, Untouched(v, "ok"))
  BY <1>7, OpenStatuses, UntouchedRow
<1>8. CASE w = PreparationFails(v)
  BY <1>8, PreparationFailsRow
<1>9. CASE v.rounds[1].status = "absent" /\ w = InitialFails(v, Untouched(v, "rejected"))
  BY <1>3, <1>9, InitialFailsRow DEF IsOpen
<1>10. CASE \E r \in results : w = InitialFails(v, r) \/ w = ready(r)
  BY <1>1, <1>2, <1>5, <1>10, InitialFailsRow DEF IsOpen
<1> QED BY <1>6, <1>7, <1>8, <1>9, <1>10

(* POST approve-plan. *)
LEMMA ApprovePlanRow ==
    ASSUME NEW v \in Views, NEW w \in ApprovePlan(v)
    PROVE  RowStep(v, w)
<1> DEFINE s == Synced(v, Untouched(v, "ok"))
<1>1. w = [s EXCEPT !.sess.approvedPlan = v.job.plan]
  BY DEF ApprovePlan, When
<1>2. s \in Views /\ SameRounds(v, s) /\ s.pr = v.pr /\ s.job = v.job
  BY OpenStatuses, UntouchedRow, SyncedRows
<1> HIDE DEF s
<1>3. w \in Views /\ w.job = s.job /\ w.pr = s.pr /\ SameRounds(v, w)
  BY <1>1, <1>2, ViewParts, FirstSlot, PlanColumnsRows, PlanColumns
<1> QED BY <1>2, <1>3, LeavesRounds

(* POST request-plan-revision, rejected plans included. *)
LEMMA RevisePlanRow ==
    ASSUME NEW v \in Views, NEW w \in RevisePlan(v)
    PROVE  RowStep(v, w)
<1> DEFINE j == Status(v.job, "planning_changes")
           results == When(AtPlanGate(v), PlanJob(j, v.disk))
<1>1. j \in Jobs /\ (Quiet(v.job) => Quiet(j))
  BY ViewParts, OpenStatuses, StatusDraft, StatusQuiet
<1> HIDE DEF j
<1>2. results \subseteq Results
  BY <1>1, ViewParts, PlanJobDraft, DraftResult DEF When, DraftFrom
<1>3. ASSUME NEW r \in results, Quiet(v.job) PROVE Quiet(r.job)
  BY <1>1, <1>3, PlanJobQuiet DEF When
<1>4. PICK r \in results :
          \/ w = [Kept(v, r) EXCEPT !.sess.approvedPlan = 0]
          \/ w = [Synced(v, AwaitPlan(r)) EXCEPT
                     !.sess.approvedPlan = 0, !.sess.currentPlan = r.job.plan]
  BY DEF RevisePlan, Raised, Succeeded, j
<1> HIDE DEF results
<1>5. r \in Results /\ AwaitPlan(r) \in Results /\ r.job.plan \in Plans
  BY <1>2, AwaitPlanResult DEF Results, Jobs
<1>6. CASE w = [Kept(v, r) EXCEPT !.sess.approvedPlan = 0]
  <2> DEFINE s == Kept(v, r)
  <2>1. s \in Views /\ SameRounds(v, s) /\ s.pr = v.pr /\ s.job = r.job
    BY <1>5, SyncedRows
  <2> HIDE DEF s
  <2>2. w = [s EXCEPT !.sess.approvedPlan = 0]
    BY <1>6 DEF s
  <2>3. w \in Views /\ w.job = s.job /\ w.pr = s.pr /\ SameRounds(v, w)
    BY <2>1, <2>2, FirstSlot, PlanColumnsRows, PlanColumns
  <2> QED BY <1>3, <2>1, <2>3, LeavesRounds
<1>7. CASE w = [Synced(v, AwaitPlan(r)) EXCEPT
                   !.sess.approvedPlan = 0, !.sess.currentPlan = r.job.plan]
  <2> DEFINE s == Synced(v, AwaitPlan(r))
  <2>1. /\ s \in Views /\ SameRounds(v, s) /\ s.pr = v.pr
        /\ s.job = AwaitPlan(r).job
    BY <1>5, SyncedRows
  <2> HIDE DEF s
  <2>2. w = [s EXCEPT !.sess.approvedPlan = 0, !.sess.currentPlan = r.job.plan]
    BY <1>7 DEF s
  <2>3. w \in Views /\ w.job = s.job /\ w.pr = s.pr /\ SameRounds(v, w)
    <3> DEFINE p == r.job.plan
    <3>1. p \in Plans /\ w = [s EXCEPT !.sess.approvedPlan = 0, !.sess.currentPlan = p]
      BY <1>5, <2>2
    <3> HIDE DEF p
    <3>2. w \in Views /\ w.job = s.job /\ w.pr = s.pr
      BY <2>1, <3>1, FirstSlot DEF Views, Sessions
    <3>3. SameRounds(v, w)
      BY <2>1, <3>1 DEF Views, Sessions, SameRounds
    <3> QED BY <3>2, <3>3
  <2>4. Quiet(v.job) => Quiet(s.job)
    BY <1>3, <1>5, <2>1, AwaitPlanQuiet
  <2> QED BY <2>1, <2>3, <2>4, LeavesRounds
<1> QED BY <1>4, <1>6, <1>7

(* Round 1, recorded after its run. *)
LEMMA FirstRoundRow ==
    ASSUME NEW v \in Views, NEW r \in Results, NEW plan \in Plans,
           IsOpen(v.rounds[1]), r.job.status = "failed" \/ RunStands(r)
    PROVE  RowStep(v, FirstRound(v, r, plan))
<1> DEFINE done == [r EXCEPT !.job = Reconciled(r.job)]
           s == Synced(v, done)
           u == [s EXCEPT !.sess.currentPlan = plan]
           status == IF done.job.status = "failed" THEN "failed" ELSE "completed"
<1>1. done \in Results
  BY ReconciledType DEF Results
<1>2. status = "completed" => RunStands(done)
  BY ReconciledRun
<1>3. FirstRound(v, r, plan) = Record(u, 1, "initial", status, "none", TRUE)
  BY DEF FirstRound, Results
<1>4. status \in {"completed", "failed"}
  OBVIOUS
<1> HIDE DEF done, status
<1>5. /\ s \in Views /\ SameRounds(v, s) /\ s.pr = v.pr
      /\ s.job = done.job /\ s.disk = done.disk
  BY <1>1, SyncedRows
<1> HIDE DEF s
<1>6. /\ u \in Views /\ u.job = done.job /\ u.disk = done.disk /\ SameRounds(v, u)
      /\ u.pr = v.pr
  BY <1>5, PlanColumnsRows, PlanColumns
<1> HIDE DEF u
<1>7. status = "completed" => u.job.exec = "passed" /\ (TRUE => u.job.ranOn = u.disk.now)
  BY <1>2, <1>6 DEF RunStands
<1>8. "initial" \in Triggers /\ "none" \in {"none", "applied", "failed"}
  BY DEF Triggers
<1>9. v.rounds[1].status = "absent" \/ (1 = 1 /\ v.rounds[1].status = "in_progress")
  BY DEF IsOpen
<1>10. RowStep(v, Record(u, 1, "initial", status, "none", TRUE))
  BY <1>4, <1>6, <1>7, <1>8, <1>9, FirstSlot, RecordRow
<1> QED BY <1>3, <1>10

(* POST start, with an approved plan or in one shot. *)
LEMMA StartSessionRow ==
    ASSUME NEW v \in Views, NEW w \in StartSession(v)
    PROVE  RowStep(v, w)
<1> DEFINE j == Status(v.job, "generating_code")
           approved == When(AtPlanGate(v) /\ v.sess.approvedPlan # 0, AfterPlan(j, v.disk))
           oneShot == When(CanBegin(v) /\ Slot(v, 1),
                           Initial(v.job, v.disk) \cup {Untouched(v, "engine")})
<1>1. j \in Jobs /\ GateInv(j) /\ j.status \notin Closed
  BY ViewParts, OpenStatuses, StatusDraft
<1> HIDE DEF j
<1>2. approved \subseteq Results /\ oneShot \subseteq Results
  <2>1. AfterPlan(j, v.disk) \subseteq Results
    BY <1>1, ViewParts, AfterPlanDraft, DraftResult
  <2>2. Initial(v.job, v.disk) \subseteq Results
    BY ViewParts, InitialDraft, DraftResult DEF DraftFrom
  <2>3. Untouched(v, "engine") \in Results
    BY UntouchedResult, OpenStatuses
  <2> QED BY <2>1, <2>2, <2>3 DEF When
<1>3. ASSUME NEW r \in Succeeded(approved) PROVE r.job.status = "failed" \/ RunStands(r)
  <2>1. r \in Succeeded(AfterPlan(j, v.disk))
    BY <1>3 DEF Succeeded, When
  <2> QED BY <1>1, <2>1, ViewParts, AfterPlanTested
<1>4. ASSUME NEW r \in Succeeded(oneShot) PROVE r.job.status = "failed" \/ RunStands(r)
  <2>1. r \in Succeeded(Initial(v.job, v.disk))
    BY <1>4 DEF Succeeded, When, Untouched, Res
  <2> QED BY <2>1, ViewParts, InitialTested
<1>5. ASSUME NEW r \in approved \cup oneShot PROVE IsOpen(v.rounds[1])
  BY <1>5 DEF When, AtPlanGate, Slot, IsOpen
<1>6. \/ w = PreparationFails(v)
      \/ \E r \in approved \cup oneShot : w = InitialFails(v, r)
      \/ \E r \in Succeeded(approved) : w = FirstRound(v, r, v.sess.currentPlan)
      \/ \E r \in Succeeded(oneShot) : w = FirstRound(v, r, r.job.plan)
  <2> HIDE DEF approved, oneShot
  <2> QED BY DEF StartSession, When, Raised, approved, oneShot, j
<1> HIDE DEF approved, oneShot
<1>7. CASE w = PreparationFails(v)
  BY <1>7, PreparationFailsRow
<1>8. CASE \E r \in approved \cup oneShot : w = InitialFails(v, r)
  BY <1>2, <1>5, <1>8, InitialFailsRow
<1>9. CASE \E r \in Succeeded(approved) : w = FirstRound(v, r, v.sess.currentPlan)
  BY <1>2, <1>3, <1>5, <1>9, ViewParts, FirstRoundRow DEF Succeeded
<1>10. CASE \E r \in Succeeded(oneShot) : w = FirstRound(v, r, r.job.plan)
  <2>1. \A r \in Results : r.job.plan \in Plans
    BY DEF Results, Jobs
  <2> QED BY <1>2, <1>4, <1>5, <1>10, <2>1, FirstRoundRow DEF Succeeded
<1> QED BY <1>6, <1>7, <1>8, <1>9, <1>10

(* POST request-revision. *)
LEMMA ReviseSessionRow ==
    ASSUME NEW v \in Views, NEW w \in ReviseSession(v)
    PROVE  RowStep(v, w)
<1> DEFINE n == v.sess.round + 1
           results == Revision(v.job, v.disk) \cup {Untouched(v, "engine")}
           applied == {r \in Succeeded(results) : r.disk.now # v.disk.now}
           done(r) == [r EXCEPT !.job = Reconciled(r.job)]
<1>1. results \subseteq Results
  <2>1. Revision(v.job, v.disk) \subseteq Results
    BY ViewParts, RevisionDraft, DraftResult DEF DraftFrom
  <2>2. Untouched(v, "engine") \in Results
    BY UntouchedResult, OpenStatuses
  <2> QED BY <2>1, <2>2
<1>2. ASSUME Slot(v, n), NEW r \in results
      PROVE  RowStep(v, FailRound(Synced(v, r), n, "review_revision", "failed"))
  BY <1>1, <1>2, SyncedRows, FailRoundRow DEF Slot, Triggers
<1>3. ASSUME Slot(v, n), NEW r \in applied
      PROVE  RowStep(v, Record(Synced(v, done(r)), n, "review_revision",
                               RoundStatus(done(r).job), "applied", TRUE))
  <2>1. r \in Succeeded(Revision(v.job, v.disk)) /\ r \in Results
    BY <1>1, <1>3 DEF Succeeded, Untouched, Res
  <2>2. r.job.status \in {"failed", "awaiting_human_input"} \/ RunStands(r)
    BY <2>1, ViewParts, RevisionTested
  <2>3. done(r) \in Results
    BY <2>1, ReconciledType DEF Results
  <2>4. RoundStatus(done(r).job) = "completed" => RunStands(done(r))
    BY <2>1, <2>2, ReconciledRun DEF RoundStatus
  <2>5. RoundStatus(done(r).job) \in {"completed", "failed"}
    BY DEF RoundStatus
  <2> HIDE DEF done, applied, results
  <2>6. /\ Synced(v, done(r)) \in Views /\ SameRounds(v, Synced(v, done(r)))
        /\ Synced(v, done(r)).job = done(r).job /\ Synced(v, done(r)).disk = done(r).disk
        /\ Synced(v, done(r)).pr = v.pr
    BY <2>3, SyncedRows
  <2> QED BY <1>3, <2>4, <2>5, <2>6, RecordRow DEF RunStands, Triggers, Slot
<1>4. ASSUME NEW r \in applied PROVE done(r) = [r EXCEPT !.job = Reconciled(@)]
  BY <1>1 DEF Succeeded, Results
<1> HIDE DEF done
<1>5. /\ Slot(v, n)
      /\ \/ \E r \in results : w = FailRound(Synced(v, r), n, "review_revision", "failed")
         \/ \E r \in applied : w = Record(Synced(v, done(r)), n, "review_revision",
                                          RoundStatus(done(r).job), "applied", TRUE)
  BY <1>4 DEF ReviseSession, When
<1> QED BY <1>2, <1>3, <1>5

(* POST manual-edit-ack. *)
LEMMA AckSessionRow ==
    ASSUME NEW v \in Views, NEW w \in AckSession(v)
    PROVE  RowStep(v, w)
<1> DEFINE n == v.sess.round + 1
<1>1. ASSUME Slot(v, n)
      PROVE  RowStep(v, FailRound(Synced(v, Untouched(v, "engine")), n,
                                  "manual_edit_rerun", "failed"))
  <2>1. Untouched(v, "engine") \in Results
    BY UntouchedResult, OpenStatuses
  <2> QED BY <1>1, <2>1, SyncedRows, FailRoundRow DEF Slot, Triggers
<1>2. ASSUME Slot(v, n), NEW r \in AckJob(v.job, v.disk)
      PROVE  RowStep(v, Record(Synced(v, r), n, "manual_edit_rerun",
                               RoundStatus(r.job), "applied", FALSE))
  <2>1. r \in Sound /\ r \in Results
    BY <1>2, ViewParts, AckJobDraft, DraftResult DEF DraftFrom, Draft
  <2>2. RoundStatus(r.job) = "completed" => r.job.exec = "passed"
    BY <2>1 DEF RoundStatus, Sound, GateInv, Gated
  <2>3. RoundStatus(r.job) \in {"completed", "failed"}
    BY DEF RoundStatus
  <2>4. /\ Synced(v, r) \in Views /\ SameRounds(v, Synced(v, r))
        /\ Synced(v, r).job = r.job /\ Synced(v, r).pr = v.pr
    BY <2>1, SyncedRows
  <2> QED BY <1>2, <2>2, <2>3, <2>4, RecordRow DEF Slot, Triggers
<1> QED BY <1>1, <1>2 DEF AckSession, When

(* POST approve: of an approved job, or of one the reconciliation may first
   have moved to review.  A quiet job is neither. *)
LEMMA ApproveSessionRow ==
    ASSUME NEW v \in Views, NEW w \in ApproveSession(v)
    PROVE  RowStep(v, w)
<1>1. CASE w = Synced(v, Untouched(v, "ok"))
  BY <1>1, OpenStatuses, UntouchedRow
<1>2. ASSUME NEW r \in ApproveJob(Reconciled(v.job), v.disk), w = Synced(v, r)
      PROVE  RowStep(v, w)
  <2> DEFINE j == Reconciled(v.job)
             k == [j EXCEPT !.status = "approved_for_pr", !.approvedOn = j.ranOn]
  <2>1. j \in Jobs
    BY ViewParts, ReconciledType
  <2>2. Quiet(v.job) => j.status # "awaiting_automation_review"
    BY DEF Quiet, Reconciled
  <2> HIDE DEF j
  <2>3. k \in Jobs
    BY <2>1 DEF Jobs, JobStatus
  <2>4. j.status = "awaiting_automation_review" /\ r = Res(k, v.disk, "ok")
    BY <1>2 DEF ApproveJob, When, j
  <2> HIDE DEF k
  <2>5. r \in Results
    BY <2>3, <2>4, ViewParts, OpenStatuses DEF Res, Results
  <2>6. Synced(v, r) \in Views /\ SameRounds(v, Synced(v, r)) /\ Synced(v, r).pr = v.pr
    BY <2>5, SyncedRows
  <2> QED BY <1>2, <2>2, <2>4, <2>6, LeavesRounds
<1> QED BY <1>1, <1>2 DEF ApproveSession, When

(* The end of the pull-request pipeline of the session. *)
LEMMA PrSyncRow ==
    ASSUME NEW v \in Views, NEW w \in Views, SameRounds(v, w),
           w.pr = v.pr \/ v.pr.via = "none", ~Quiet(v.job)
    PROVE  RowStep(v, [w EXCEPT !.sess.status = SessionStatusOf(w.job.status)])
<1> DEFINE s == SessionStatusOf(w.job.status)
           u == [w EXCEPT !.sess.status = s]
<1>1. s \in SessionStatus
  BY SessionStatusType
<1> HIDE DEF s
<1>2. u \in Views /\ u.pr = w.pr /\ SameRounds(v, u)
  BY <1>1 DEF Views, Sessions, SameRounds
<1> HIDE DEF u
<1>3. RowStep(v, u)
  BY <1>2, LeavesRounds
<1> QED BY <1>3 DEF u, s

(* A pull request that opens. *)
LEMMA OpenedRow ==
    ASSUME NEW v \in Views, NEW r \in Results, NEW via \in {"session", "job"},
           NEW content \in Contents
    PROVE  Opened(v, r, via, content) \in Views /\ SameRounds(v, Opened(v, r, via, content))
<1> DEFINE w == Kept(v, r)
           p == [via |-> via, content |-> content, approved |-> r.job.approvedOn]
           u == [w EXCEPT !.job.status = "pr_created", !.pr = p]
<1>1. w \in Views /\ SameRounds(v, w)
  BY SyncedRows
<1>2. p \in Prs
  BY DEF Prs, Results, Jobs
<1>3. Opened(v, r, via, content) = u
  BY DEF Opened
<1> HIDE DEF w, p
<1>4. u \in Views /\ SameRounds(v, u)
  BY <1>1, <1>2 DEF Views, Jobs, JobStatus, SameRounds
<1> QED BY <1>3, <1>4

(* POST create-pr: every way it fails, and the pull request, which only opens
   where there is none. *)
LEMMA CreatePrSessionRow ==
    ASSUME NEW v \in Views, NEW w \in CreatePrSession(v)
    PROVE  RowStep(v, w)
<1> DEFINE ready == UNION {Refreshed(v.job, d) : d \in PrWorkspaces(v)}
           unready == {Res(v.job, d, "ok") : d \in PrWorkspaces(v) \cup {v.disk}}
                      \cup {Res(RefreshFails(v.job, d), d, "ok") : d \in PrWorkspaces(v)}
           applied == {[r EXCEPT !.disk = Patched(v, @)] : r \in ready}
           sync(u) == [u EXCEPT !.sess.status = SessionStatusOf(u.job.status)]
<1>1. PrAllowed(v.job) => ~Quiet(v.job)
  BY DEF PrAllowed, Quiet
<1>2. PrWorkspaces(v) \subseteq Disks /\ (PrWorkspaces(v) # {} => v.sess.currentPatch # 0)
  BY ViewParts, PatchedType DEF PrWorkspaces
<1>3. ASSUME NEW r \in ready PROVE r \in Results /\ v.sess.currentPatch # 0
  BY <1>2, <1>3, ViewParts, RefreshedType
<1>4. ASSUME NEW r \in applied PROVE r \in Results /\ r.disk.now \in Contents
  <2>1. PICK q \in ready : r = [q EXCEPT !.disk = Patched(v, @)]
    OBVIOUS
  <2>2. q \in Results /\ v.sess.currentPatch # 0
    BY <1>3
  <2>3. Patched(v, q.disk) \in Disks
    BY <2>2, PatchedType DEF Results
  <2> HIDE DEF ready, applied
  <2>4. r \in Results /\ r.disk \in Disks
    BY <2>1, <2>2, <2>3 DEF Results
  <2> QED BY <2>4 DEF Disks
<1>5. ASSUME NEW r \in unready PROVE r \in Results
  BY <1>2, <1>5, ViewParts, RefreshFailsType, OpenStatuses DEF Res, Results
<1>6. ASSUME NEW r \in Results, PrAllowed(v.job)
      PROVE  RowStep(v, sync(Kept(v, PrFailed(r))))
  <2> DEFINE q == Res(Status(r.job, "pr_creation_failed"), r.disk, r.end)
  <2>1. PrFailed(r) = q
    BY DEF PrFailed, Status, Res, Results
  <2>2. q \in Results
    BY DEF Res, Status, Results, Jobs, JobStatus
  <2> HIDE DEF q
  <2>3. Kept(v, q) \in Views /\ SameRounds(v, Kept(v, q)) /\ Kept(v, q).pr = v.pr
    BY <2>2, SyncedRows
  <2> QED BY <1>1, <1>6, <2>1, <2>3, PrSyncRow
<1>7. ASSUME NEW r \in applied, PrAllowed(v.job), CanOpen(v)
      PROVE  RowStep(v, sync(Opened(v, r, "session", r.disk.now)))
  <2>1. /\ Opened(v, r, "session", r.disk.now) \in Views
        /\ SameRounds(v, Opened(v, r, "session", r.disk.now))
    BY <1>4, <1>7, OpenedRow
  <2> QED BY <1>1, <1>7, <2>1, PrSyncRow DEF CanOpen
<1> HIDE DEF sync
<1>8. /\ PrAllowed(v.job)
      /\ \/ \E r \in unready \cup ready \cup applied : w = sync(Kept(v, PrFailed(r)))
         \/ CanOpen(v) /\ \E r \in applied : w = sync(Opened(v, r, "session", r.disk.now))
  <2> HIDE DEF ready, unready, applied
  <2> QED BY DEF CreatePrSession, When, ready, unready, applied, sync
<1> HIDE DEF ready, unready, applied
<1> QED BY <1>3, <1>4, <1>5, <1>6, <1>7, <1>8

(* Every endpoint. *)
LEMMA CallRow ==
    ASSUME NEW v \in Views, NEW op, NEW w \in CallResults(op, v)
    PROVE  RowStep(v, w)
<1>1. \/ w \in PreparePlan(v) \/ w \in ApprovePlan(v) \/ w \in RevisePlan(v)
      \/ w \in StartSession(v) \/ w \in ReviseSession(v) \/ w \in AckSession(v)
      \/ w \in ApproveSession(v) \/ w \in CreatePrSession(v)
  BY DEF CallResults
<1> QED BY <1>1, PreparePlanRow, ApprovePlanRow, RevisePlanRow, StartSessionRow,
           ReviseSessionRow, AckSessionRow, ApproveSessionRow, CreatePrSessionRow

-----------------------------------------------------------------------------
(* The specification. *)

CallTypes == [op : Calls, job : Jobs, sess : Sessions, gate : BOOLEAN]

PauseInv ==
    IsOpen(rounds[1]) =>
        /\ Quiet(job) /\ sess.round = 0
        /\ \A c \in Clients :
              calls[c] # Idle => Quiet(calls[c].job) /\ calls[c].sess.round = 0

ConcurrentInv ==
    /\ TypeOK /\ calls \in [Clients -> {Idle} \cup CallTypes]
    /\ CompletedRounds /\ PauseInv

(* A fresh session. *)
LEMMA InitConcurrent == ConcurrentInit => ConcurrentInv
<1> SUFFICES ASSUME ConcurrentInit PROVE ConcurrentInv
  OBVIOUS
<1>1. TypeOK /\ CompletedRounds
  BY InitLInv DEF ConcurrentInit, LInv, IInv
<1>2. calls = [c \in Clients |-> Idle]
  BY DEF ConcurrentInit
<1>3. Quiet(job) /\ sess.round = 0
  BY DEF ConcurrentInit, Init, NewJob, NewSession, Quiet
<1> QED BY <1>1, <1>2, <1>3 DEF ConcurrentInv, PauseInv

(* Begin reads the rows as they are. *)
LEMMA BeginStep ==
    ASSUME ConcurrentInv, NEW c \in Clients, NEW op \in Calls, Begin(c, op)
    PROVE  ConcurrentInv'
<1> DEFINE call == [op |-> op, job |-> job, sess |-> sess, gate |-> AtPlanGate(View)]
<1>1. /\ UNCHANGED vars /\ calls' = [calls EXCEPT ![c] = call]
      /\ calls \in [Clients -> {Idle} \cup CallTypes]
  BY DEF Begin, ConcurrentInv
<1>2. call \in CallTypes
  BY DEF CallTypes, ConcurrentInv, TypeOK, AtPlanGate
<1>3. call.job = job /\ call.sess = sess
  OBVIOUS
<1> HIDE DEF call
<1>4. calls' \in [Clients -> {Idle} \cup CallTypes]
  BY <1>1, <1>2
<1>5. TypeOK' /\ CompletedRounds'
  BY <1>1 DEF vars, ConcurrentInv, TypeOK, CompletedRounds
<1>6. PauseInv'
  <2>1. ASSUME NEW b \in Clients, calls'[b] # Idle, IsOpen(rounds[1])
        PROVE  Quiet(calls'[b].job) /\ calls'[b].sess.round = 0
    BY <1>1, <1>3, <2>1 DEF ConcurrentInv, PauseInv
  <2> QED BY <1>1, <2>1 DEF vars, ConcurrentInv, PauseInv
<1> QED BY <1>4, <1>5, <1>6 DEF ConcurrentInv

(* A request that ends without effect. *)
LEMMA EndStep ==
    ASSUME ConcurrentInv, NEW c \in Clients, Abort(c) \/ UNCHANGED cvars
    PROVE  ConcurrentInv'
<1>1. UNCHANGED vars /\ (calls' = calls \/ calls' = [calls EXCEPT ![c] = Idle])
  BY DEF Abort, cvars, vars
<1>2. TypeOK' /\ CompletedRounds'
  BY <1>1 DEF vars, ConcurrentInv, TypeOK, CompletedRounds
<1>3. calls' \in [Clients -> {Idle} \cup CallTypes]
  BY <1>1 DEF ConcurrentInv
<1>4. PauseInv'
  <2>1. ASSUME NEW b \in Clients, calls'[b] # Idle, IsOpen(rounds[1])
        PROVE  Quiet(calls'[b].job) /\ calls'[b].sess.round = 0
    BY <1>1, <2>1 DEF ConcurrentInv, PauseInv
  <2> QED BY <1>1, <2>1 DEF vars, ConcurrentInv, PauseInv
<1> QED BY <1>2, <1>3, <1>4 DEF ConcurrentInv

-----------------------------------------------------------------------------
(* The commit. *)

(* What the locked part works on. *)
LEMMA SeenView ==
    ASSUME ConcurrentInv, NEW call \in CallTypes
    PROVE  /\ Seen(call) \in Views
           /\ Seen(call).job = call.job /\ Seen(call).pr = pr
           /\ Seen(call).sess.round = call.sess.round
           /\ \A n \in 2..MaxRounds : Seen(call).rounds[n] = rounds[n]
           /\ Seen(call).rounds[1].status =
                  IF call.gate THEN "in_progress" ELSE rounds[1].status
<1> DEFINE row == [call.sess EXCEPT !.currentPlan = sess.currentPlan,
                                    !.currentPatch = sess.currentPatch]
           s == IF call.gate THEN "in_progress" ELSE rounds[1].status
           e == [rounds[1] EXCEPT !.status = s]
           entries == [rounds EXCEPT ![1] = e]
<1>1. /\ job \in Jobs /\ sess \in Sessions /\ rounds \in [1..MaxRounds -> Rounds]
      /\ pr \in Prs /\ disk \in Disks
  BY DEF ConcurrentInv, TypeOK
<1>2. row \in Sessions /\ row.round = call.sess.round
  BY <1>1 DEF CallTypes, Sessions
<1>3. s \in {"absent", "in_progress", "completed", "failed"}
  BY <1>1, FirstSlot DEF Rounds
<1>4. Seen(call) = [job |-> call.job, sess |-> row, rounds |-> entries, pr |-> pr,
                    disk |-> disk]
  <2>1. View.rounds[1].status = rounds[1].status
    BY DEF View
  <2>2. s = IF call.gate THEN "in_progress" ELSE View.rounds[1].status
    BY <2>1
  <2> HIDE DEF s
  <2>3. Seen(call) = [View EXCEPT !.job = call.job, !.sess = row, !.rounds[1].status = s]
    BY <2>2 DEF Seen
  <2> HIDE DEF row
  <2> QED BY <2>3 DEF View
<1> HIDE DEF s, row
<1>5. e \in Rounds /\ e.status = s
  BY <1>1, <1>3, FirstSlot DEF Rounds
<1> HIDE DEF e
<1>6. /\ entries \in [1..MaxRounds -> Rounds] /\ entries[1] = e
      /\ \A n \in 2..MaxRounds : entries[n] = rounds[n]
  BY <1>1, <1>5, FirstSlot
<1> HIDE DEF entries
<1>7. Seen(call) \in Views
  BY <1>1, <1>2, <1>4, <1>6 DEF Views, CallTypes
<1> QED BY <1>2, <1>4, <1>5, <1>6, <1>7 DEF s

(* The job row is a mixture of what it is, and of what the call left. *)
LEMMA JobsAfterMix ==
    ASSUME NEW call \in CallTypes, NEW left \in Jobs, job \in Jobs,
           NEW k \in JobsAfter(call, left)
    PROVE  /\ k \in Jobs
           /\ Quiet(job) /\ Quiet(left) => Quiet(k)
<1> DEFINE updated == Updated(job, call.job, left)
           dated == [updated EXCEPT
                        !.approvedOn = IF call.op = "approve" THEN left.approvedOn ELSE @]
           written == [dated EXCEPT !.status = left.status]
           rerun == [written EXCEPT !.exec = left.exec, !.ranOn = left.ranOn]
<1>1. updated \in Jobs /\ (Quiet(job) /\ Quiet(left) => Quiet(updated))
  BY DEF Updated, Jobs, Quiet
<1> HIDE DEF updated
<1>2. dated \in Jobs /\ (Quiet(job) /\ Quiet(left) => Quiet(dated))
  BY <1>1 DEF Jobs, Quiet
<1> HIDE DEF dated
<1>3. written \in Jobs /\ (Quiet(job) /\ Quiet(left) => Quiet(written))
  BY <1>2 DEF Jobs, Quiet
<1> HIDE DEF written
<1>4. rerun \in Jobs /\ (Quiet(job) /\ Quiet(left) => Quiet(rerun))
  BY <1>3 DEF Jobs, Quiet
<1> HIDE DEF rerun
<1>5. k \in {job, written, rerun}
  BY DEF JobsAfter, When, updated, dated, written, rerun
<1> QED BY <1>3, <1>4, <1>5

(* The session row after the call. *)
LEMMA SessionAfterType ==
    ASSUME NEW call \in CallTypes, NEW left \in Sessions, NEW k, sess \in Sessions
    PROVE  /\ SessionAfter(call, left, k) \in Sessions
           /\ SessionAfter(call, left, k).round =
                  IF left.round # call.sess.round THEN left.round ELSE sess.round
<1> DEFINE own == IF call.op \in {"request-revision", "manual-edit-ack"}
                  THEN SessionStatusOf(k.status) ELSE left.status
           p == IF left.approvedPlan # call.sess.approvedPlan \/ call.op = "approve-plan"
                THEN left.approvedPlan ELSE sess.approvedPlan
           s == IF own # call.sess.status \/ call.op = "create-pr" THEN own ELSE sess.status
           n == IF left.round # call.sess.round THEN left.round ELSE sess.round
<1>1. SessionAfter(call, left, k)
        = [sess EXCEPT !.status = s, !.round = n, !.approvedPlan = p,
                       !.currentPlan = left.currentPlan, !.currentPatch = left.currentPatch]
  BY DEF SessionAfter, Sessions
<1>2. own \in SessionStatus
  BY SessionStatusType DEF Sessions
<1> HIDE DEF own
<1>3. s \in SessionStatus /\ p \in Plans /\ n \in 0..MaxRounds
  BY <1>2 DEF Sessions
<1> HIDE DEF s, p
<1>4. SessionAfter(call, left, k) \in Sessions /\ SessionAfter(call, left, k).round = n
  BY <1>1, <1>3 DEF Sessions
<1> QED BY <1>4

(* The rows a commit leaves. *)
LEMMA CommitRows ==
    ASSUME ConcurrentInv, NEW c \in Clients, Commit(c)
    PROVE  \E left \in Views :
               LET call == calls[c]
                   seen == Seen(call)
               IN  /\ call # Idle /\ call \in CallTypes
                   /\ seen \in Views /\ RowStep(seen, left)
                   /\ job' \in JobsAfter(call, left.job)
                   /\ sess' = SessionAfter(call, left.sess, job')
                   /\ rounds' \in [1..MaxRounds -> Rounds]
                   /\ \A n \in 1..MaxRounds :
                         rounds'[n] = IF left.rounds[n] # seen.rounds[n]
                                      THEN left.rounds[n] ELSE rounds[n]
                   /\ pr' = left.pr /\ disk' = left.disk
                   /\ calls' = [calls EXCEPT ![c] = Idle]
<1> DEFINE call == calls[c]
           seen == Seen(call)
<1>1. call # Idle /\ call \in CallTypes
  BY DEF Commit, ConcurrentInv
<1> HIDE DEF call
<1>2. seen \in Views
  BY <1>1, SeenView
<1>3. PICK left \in CallResults(call.op, seen) :
          /\ job' \in JobsAfter(call, left.job)
          /\ sess' = SessionAfter(call, left.sess, job')
          /\ rounds' = Updated(rounds, seen.rounds, left.rounds)
          /\ pr' = left.pr /\ disk' = left.disk
          /\ calls' = [calls EXCEPT ![c] = Idle]
  BY DEF Commit, call
<1> HIDE DEF seen
<1>4. RowStep(seen, left) /\ left \in Views
  BY <1>2, CallRow DEF RowStep
<1>5. rounds \in [1..MaxRounds -> Rounds] /\ left.rounds \in [1..MaxRounds -> Rounds]
  BY <1>4 DEF ConcurrentInv, TypeOK, Views
<1>6. /\ rounds' \in [1..MaxRounds -> Rounds]
      /\ \A n \in 1..MaxRounds :
            rounds'[n] = IF left.rounds[n] # seen.rounds[n] THEN left.rounds[n] ELSE rounds[n]
  BY <1>3, <1>5 DEF Updated
<1> QED BY <1>1, <1>2, <1>3, <1>4, <1>6 DEF call, seen

(* Types and completed rounds: an entry a commit writes is earned. *)
LEMMA CommitTypes ==
    ASSUME ConcurrentInv, NEW c \in Clients, Commit(c)
    PROVE  /\ TypeOK' /\ CompletedRounds'
           /\ calls' \in [Clients -> {Idle} \cup CallTypes]
<1>1. PICK left \in Views :
          /\ calls[c] \in CallTypes /\ RowStep(Seen(calls[c]), left)
          /\ job' \in JobsAfter(calls[c], left.job)
          /\ sess' = SessionAfter(calls[c], left.sess, job')
          /\ rounds' \in [1..MaxRounds -> Rounds]
          /\ \A n \in 1..MaxRounds :
                rounds'[n] = IF left.rounds[n] # Seen(calls[c]).rounds[n]
                             THEN left.rounds[n] ELSE rounds[n]
          /\ pr' = left.pr /\ disk' = left.disk
          /\ calls' = [calls EXCEPT ![c] = Idle]
  BY CommitRows
<1>2. job \in Jobs /\ sess \in Sessions /\ calls \in [Clients -> {Idle} \cup CallTypes]
  BY DEF ConcurrentInv, TypeOK
<1>3. left.job \in Jobs /\ left.sess \in Sessions /\ left.pr \in Prs /\ left.disk \in Disks
  BY DEF Views
<1>4. job' \in Jobs
  BY <1>1, <1>2, <1>3, JobsAfterMix
<1>5. sess' \in Sessions
  BY <1>1, <1>2, <1>3, SessionAfterType
<1>6. TypeOK'
  BY <1>1, <1>3, <1>4, <1>5 DEF TypeOK
<1>7. \A n \in 1..MaxRounds : Earned(rounds'[n])
  <2>1. \A n \in 1..MaxRounds : Earned(rounds[n])
    BY DEF ConcurrentInv, CompletedRounds, Earned
  <2>2. \A n \in 1..MaxRounds :
            left.rounds[n] # Seen(calls[c]).rounds[n] => Earned(left.rounds[n])
    BY <1>1 DEF RowStep
  <2> QED BY <1>1, <2>1, <2>2
<1>8. CompletedRounds'
  BY <1>7 DEF CompletedRounds, Earned
<1> QED BY <1>1, <1>2, <1>6, <1>8

(* The pause: a commit that leaves round 1 open has seen, and left, a quiet
   job. *)
LEMMA CommitPause ==
    ASSUME ConcurrentInv, NEW c \in Clients, Commit(c)
    PROVE  PauseInv'
<1> DEFINE call == calls[c]
           seen == Seen(call)
<1>1. PICK left \in Views :
          /\ call # Idle /\ call \in CallTypes
          /\ seen \in Views /\ RowStep(seen, left)
          /\ job' \in JobsAfter(call, left.job)
          /\ sess' = SessionAfter(call, left.sess, job')
          /\ \A n \in 1..MaxRounds :
                rounds'[n] = IF left.rounds[n] # seen.rounds[n]
                             THEN left.rounds[n] ELSE rounds[n]
          /\ calls' = [calls EXCEPT ![c] = Idle]
  BY CommitRows
<1>2. /\ job \in Jobs /\ sess \in Sessions /\ left.job \in Jobs /\ left.sess \in Sessions
      /\ calls \in [Clients -> {Idle} \cup CallTypes]
  BY DEF ConcurrentInv, TypeOK, Views
<1>3. /\ seen.job = call.job /\ seen.sess.round = call.sess.round
      /\ seen.rounds[1].status = IF call.gate THEN "in_progress" ELSE rounds[1].status
  BY <1>1, SeenView
<1>4. rounds[1] \in Rounds /\ seen.rounds[1] \in Rounds /\ left.rounds[1] \in Rounds
  BY <1>1, FirstSlot DEF ConcurrentInv, TypeOK, Views
<1>5. rounds'[1] = IF left.rounds[1] # seen.rounds[1] THEN left.rounds[1] ELSE rounds[1]
  BY <1>1, FirstSlot
<1>6. SUFFICES ASSUME IsOpen(rounds'[1])
               PROVE  /\ Quiet(job') /\ sess'.round = 0
                      /\ \A b \in Clients : calls'[b] # Idle =>
                            Quiet(calls'[b].job) /\ calls'[b].sess.round = 0
  BY DEF PauseInv
<1> HIDE DEF seen
<1>7. IsOpen(rounds[1]) /\ IsOpen(seen.rounds[1])
  <2>1. CASE left.rounds[1] = seen.rounds[1]
    BY <1>3, <1>5, <1>6, <2>1 DEF IsOpen
  <2>2. CASE left.rounds[1] # seen.rounds[1]
    <3>1. seen.rounds[1].status = "absent"
      BY <1>1, <1>5, <1>6, <2>2 DEF RowStep, IsOpen, IsClosed
    <3> QED BY <1>3, <3>1 DEF IsOpen
  <2> QED BY <2>1, <2>2
<1>8. /\ Quiet(job) /\ sess.round = 0
      /\ \A b \in Clients : calls[b] # Idle => Quiet(calls[b].job) /\ calls[b].sess.round = 0
  BY <1>7 DEF ConcurrentInv, PauseInv
<1>9. Quiet(seen.job) /\ seen.sess.round = 0 /\ call.sess.round = 0
  BY <1>1, <1>3, <1>8
<1>10. Quiet(left.job) /\ left.sess.round = 0
  <2>1. IsClosed(left.rounds[1]) => left.rounds[1] # seen.rounds[1]
    BY <1>7 DEF IsClosed, IsOpen
  <2>2. ~IsClosed(left.rounds[1])
    BY <1>5, <1>6, <2>1 DEF IsClosed, IsOpen
  <2> QED BY <1>1, <1>7, <1>9, <2>2 DEF RowStep
<1>11. Quiet(job')
  BY <1>1, <1>2, <1>8, <1>10, JobsAfterMix
<1>12. sess'.round = 0
  BY <1>1, <1>2, <1>8, <1>9, <1>10, SessionAfterType
<1>13. \A b \in Clients : calls'[b] # Idle => Quiet(calls'[b].job) /\ calls'[b].sess.round = 0
  BY <1>1, <1>2, <1>8
<1> QED BY <1>11, <1>12, <1>13

(* One case per action. *)
LEMMA ConcurrentStep ==
    ASSUME ConcurrentInv, [ConcurrentNext]_cvars PROVE ConcurrentInv'
<1>1. CASE \E c \in Clients, op \in Calls : Begin(c, op)
  BY <1>1, BeginStep
<1>2. CASE \E c \in Clients : Commit(c)
  BY <1>2, CommitTypes, CommitPause DEF ConcurrentInv
<1>3. CASE \E c \in Clients : Abort(c)
  BY <1>3, EndStep
<1>4. CASE UNCHANGED cvars
  <2>1. PauseInv' /\ TypeOK' /\ CompletedRounds'
        /\ calls' \in [Clients -> {Idle} \cup CallTypes]
    BY <1>4 DEF cvars, ConcurrentInv, PauseInv, TypeOK, CompletedRounds
  <2> QED BY <2>1 DEF ConcurrentInv
<1> QED BY <1>1, <1>2, <1>3, <1>4 DEF ConcurrentNext

-----------------------------------------------------------------------------
(* The theorems. *)

(* The inductive invariant. *)
THEOREM ConcurrentInvariance == ConcurrentSpec => []ConcurrentInv
<1>1. ConcurrentInit => ConcurrentInv
  BY InitConcurrent
<1>2. ConcurrentInv /\ [ConcurrentNext]_cvars => ConcurrentInv'
  BY ConcurrentStep
<1> QED BY <1>1, <1>2, PTL DEF ConcurrentSpec

(* Also when requests overlap and work on stale rows, a round is completed
   only on a passing run of the content it records. *)
THEOREM ConcurrentCompletedRounds == ConcurrentSpec => []CompletedRounds
<1>1. ConcurrentInv => CompletedRounds
  BY DEF ConcurrentInv
<1> QED BY <1>1, ConcurrentInvariance, PTL

(* Also when requests overlap, nothing is generated, run or counted while
   round 1 pauses for the approval of its plan. *)
THEOREM ConcurrentPlanPause == ConcurrentSpec => []PlanPause
<1>1. ConcurrentInv => PlanPause
  BY DEF ConcurrentInv, PauseInv, PlanPause, IsOpen, Quiet
<1> QED BY <1>1, ConcurrentInvariance, PTL

(* What a step does to the rounds, the counter and the pull request. *)
LEMMA ConcurrentRowsStep ==
    ASSUME ConcurrentInv, [ConcurrentNext]_cvars
    PROVE  /\ \A n \in 2..MaxRounds : IsClosed(rounds[n]) => rounds'[n] = rounds[n]
           /\ sess'.round # sess.round => IsClosed(rounds'[sess'.round])
           /\ pr.via # "none" => pr' = pr
<1>1. CASE UNCHANGED vars
  BY <1>1 DEF vars
<1>2. CASE \E c \in Clients : Commit(c)
  <2>1. PICK c \in Clients : Commit(c)
    BY <1>2
  <2> DEFINE call == calls[c]
             seen == Seen(call)
  <2>2. PICK left \in Views :
            /\ call \in CallTypes /\ RowStep(seen, left)
            /\ sess' = SessionAfter(call, left.sess, job')
            /\ \A n \in 1..MaxRounds :
                  rounds'[n] = IF left.rounds[n] # seen.rounds[n]
                               THEN left.rounds[n] ELSE rounds[n]
            /\ pr' = left.pr
    BY <2>1, CommitRows
  <2>3. /\ seen.pr = pr /\ seen.sess.round = call.sess.round
        /\ \A n \in 2..MaxRounds : seen.rounds[n] = rounds[n]
    BY <2>2, SeenView
  <2> HIDE DEF seen
  <2>4. ASSUME NEW n \in 2..MaxRounds, IsClosed(rounds[n]) PROVE rounds'[n] = rounds[n]
    <3>1. n \in 1..MaxRounds /\ n # 1
      BY BoundsAssumption
    <3>2. seen.rounds[n].status # "absent"
      BY <2>3, <2>4 DEF IsClosed
    <3> QED BY <2>2, <3>1, <3>2 DEF RowStep
  <2>5. ASSUME sess'.round # sess.round PROVE IsClosed(rounds'[sess'.round])
    <3>1. left.sess \in Sessions /\ sess \in Sessions
      BY DEF Views, ConcurrentInv, TypeOK
    <3>2. sess'.round = left.sess.round /\ left.sess.round # seen.sess.round
      BY <2>2, <2>3, <2>5, <3>1, SessionAfterType
    <3> QED BY <2>2, <3>2 DEF RowStep
  <2>6. pr.via # "none" => pr' = pr
    BY <2>2, <2>3 DEF RowStep
  <2> QED BY <2>4, <2>5, <2>6
<1> QED BY <1>1, <1>2 DEF ConcurrentNext, Begin, Abort, cvars, vars

(* No review round is worked twice, however many requests took its number. *)
THEOREM ClosedOnce == ConcurrentSpec => RoundsClosedOnce
<1>1. ConcurrentInv /\ [ConcurrentNext]_cvars =>
          [\A n \in 2..MaxRounds :
              rounds[n].status \in {"completed", "failed"} => rounds'[n] = rounds[n]]_cvars
  BY ConcurrentRowsStep DEF IsClosed
<1> QED BY <1>1, ConcurrentInvariance, PTL DEF ConcurrentSpec, RoundsClosedOnce

(* current_round_number only moves to a closed round, also backwards. *)
THEOREM CountedClosed == ConcurrentSpec => CountedWhenClosed
<1>1. ConcurrentInv /\ [ConcurrentNext]_cvars =>
          [sess'.round # sess.round =>
              rounds'[sess'.round].status \in {"completed", "failed"}]_cvars
  BY ConcurrentRowsStep DEF IsClosed
<1> QED BY <1>1, ConcurrentInvariance, PTL DEF ConcurrentSpec, CountedWhenClosed

(* Racing attempts open one pull request and push nothing over it. *)
THEOREM OnePullRequest == ConcurrentSpec => PrOnce
<1>1. ConcurrentInv /\ [ConcurrentNext]_cvars => [pr.via # "none" => pr' = pr]_cvars
  BY ConcurrentRowsStep
<1> QED BY <1>1, ConcurrentInvariance, PTL DEF ConcurrentSpec, PrOnce

===============================================================================
