--------------------------- MODULE SessionOps_proofs ---------------------------
(***************************************************************************)
(* What every operator of the control plane guarantees, for all values of  *)
(* the constants.                                                          *)
(*                                                                         *)
(* Job services and engine adapters, as inclusions of their result sets:   *)
(*   Sound - well-typed results whose job satisfies GateInv;               *)
(*   Draft - sound results that neither approve nor publish the job.       *)
(* Session endpoints and pull-request pipelines: the view they leave is    *)
(* well typed, its job satisfies GateInv, and the step of the job is one   *)
(* the gate allows (Outcome).                                              *)
(***************************************************************************)
EXTENDS PullRequestOps, TLAPS

Results == [job : Jobs, disk : Disks, end : Ends]

(* Why ReviewGate holds: a job that is shown, approved or published has a
   passing run, the state it can be published from has the prerequisites of
   one, and an approval is of the latest run. *)
Gated  == {"awaiting_automation_review", "approved_for_pr", "pr_created"}
Closed == {"approved_for_pr", "pr_creation_failed", "pr_created"}

GateInv(j) ==
    /\ j.status \in Gated => j.exec = "passed"
    /\ j.status \in Gated \cup Closed => ExecPrereq(j)
    /\ j.status = "approved_for_pr" => j.approvedOn = j.ranOn

Sound == {r \in Results : GateInv(r.job)}
Draft == {r \in Sound : r.job.status \notin Closed}

(* What a service other than the approval leaves of job j: nothing when j is
   approved or published. *)
DraftFrom(j) == {r \in Draft : j.status \notin Closed}

-----------------------------------------------------------------------------

(* Statuses that ask for nothing, statuses that are not closed, ends. *)
LEMMA OpenStatuses ==
    /\ {"failed", "awaiting_human_input", "planning_changes", "awaiting_plan_approval",
        "generating_code", "executing", "revising_after_review"}
          \subseteq JobStatus \ (Gated \cup Closed)
    /\ {"failed", "awaiting_human_input", "awaiting_automation_review"}
          \subseteq JobStatus \ Closed
    /\ {"ok", "rejected", "engine"} \subseteq Ends
BY DEF JobStatus, Gated, Closed, Ends

(* A write leaves a workspace. *)
LEMMA WriteType == ASSUME NEW d \in Disks PROVE Write(d) \subseteq Disks
<1> DEFINE e == [d EXCEPT !.now = d.made + 1, !.made = d.made + 1]
<1>1. d.made < MaxContents => d.made + 1 \in Contents
  BY BoundsAssumption DEF Disks, Contents
<1>2. d.made < MaxContents => e \in Disks
  BY <1>1 DEF Disks
<1> QED BY <1>2 DEF Write, When

(* A guarded set of results is within T when the set is, under the guard. *)
LEMMA WhenSub ==
    ASSUME NEW c \in BOOLEAN, NEW S, NEW T, c => S \subseteq T
    PROVE  When(c, S) \subseteq T
BY DEF When

(* A job moved to a status that asks for nothing. *)
LEMMA StatusDraft ==
    ASSUME NEW j \in Jobs, NEW s \in JobStatus \ (Gated \cup Closed)
    PROVE  /\ Status(j, s) \in Jobs
           /\ GateInv(Status(j, s))
           /\ ExecPrereq(Status(j, s)) = ExecPrereq(j)
           /\ Status(j, s).status = s
BY DEF Status, Jobs, GateInv, Gated, Closed, ExecPrereq

(* The result record of such a job. *)
LEMMA ResDraft ==
    ASSUME NEW j \in Jobs, GateInv(j), j.status \notin Closed, NEW d \in Disks,
           NEW e \in Ends
    PROVE  Res(j, d, e) \in Draft
BY DEF Res, Draft, Sound, Results

(* A test run on a job with its prerequisites. *)
LEMMA RanDraft ==
    ASSUME NEW j \in Jobs, ExecPrereq(j), NEW d \in Disks, NEW verdict \in {"passed", "failed"},
           NEW s \in JobStatus \ Closed, s \in Gated => verdict = "passed"
    PROVE  Ran(j, d, verdict, s) \in Draft
<1> DEFINE k == [j EXCEPT !.exec = verdict, !.ranOn = d.now, !.status = s]
<1>1. k \in Jobs
  BY DEF Jobs, Disks, Verdicts
<1>2. k.status = s /\ k.exec = verdict /\ ExecPrereq(k)
  BY DEF Jobs, ExecPrereq
<1>3. GateInv(k) /\ k.status \notin Closed
  BY <1>2 DEF GateInv, Closed
<1>4. Ran(j, d, verdict, s) = Res(k, d, "ok")
  BY DEF Ran
<1>5. "ok" \in Ends
  BY DEF Ends
<1> HIDE DEF k
<1> QED BY <1>1, <1>3, <1>4, <1>5, ResDraft

(* Starting a job. *)
LEMMA StartJobDraft ==
    ASSUME NEW j \in Jobs, NEW d \in Disks
    PROVE  StartJob(j, d) \subseteq Draft
<1> DEFINE k == [j EXCEPT !.status = "planning_changes", !.ctx = TRUE]
<1>2. Res(Status(j, "failed"), d, "ok") \in Draft
  BY OpenStatuses, StatusDraft, ResDraft
<1>3. k \in Jobs /\ k.status = "planning_changes"
  BY DEF Jobs, JobStatus
<1>4. GateInv(k) /\ k.status \notin Closed
  BY <1>3 DEF GateInv, Gated, Closed
<1> HIDE DEF k
<1>5. Res(k, d, "ok") \in Draft
  BY <1>3, <1>4, OpenStatuses, ResDraft
<1> QED BY <1>2, <1>5 DEF StartJob, When, k

(* Planning a job. *)
LEMMA PlanJobDraft ==
    ASSUME NEW j \in Jobs, NEW d \in Disks
    PROVE  PlanJob(j, d) \subseteq DraftFrom(j)
<1> DEFINE k(p) == [j EXCEPT !.status = "generating_code", !.plan = p]
<1>1. ASSUME NEW p \in Plans PROVE Res(k(p), d, "ok") \in Draft
  <2>1. k(p) \in Jobs /\ k(p).status = "generating_code"
    BY DEF Jobs, JobStatus
  <2>2. GateInv(k(p)) /\ k(p).status \notin Closed
    BY <2>1 DEF GateInv, Gated, Closed
  <2> HIDE DEF k
  <2> QED BY <2>1, <2>2, OpenStatuses, ResDraft
<1>2. Res(Status(j, "failed"), d, "rejected") \in Draft
  BY OpenStatuses, StatusDraft, ResDraft
<1>3. j.status = "planning_changes" => j.status \notin Closed
  BY DEF Closed
<1> HIDE DEF k
<1> QED BY <1>1, <1>2, <1>3 DEF PlanJob, When, DraftFrom, k

(* Generating the patch of a job: rejected, or in the workspace. *)
LEMMA GenerateOnDraft ==
    ASSUME NEW j \in Jobs, NEW before \in Disks, NEW after \in Disks
    PROVE  GenerateOn(j, before, after) \subseteq DraftFrom(j)
<1> DEFINE k == [j EXCEPT !.status = "executing", !.patch = TRUE]
<1>1. ASSUME NEW x \in Disks PROVE Res(Status(j, "failed"), x, "rejected") \in Draft
  BY OpenStatuses, StatusDraft, ResDraft
<1>2. k \in Jobs /\ k.status = "executing"
  BY DEF Jobs, JobStatus
<1>3. GateInv(k) /\ k.status \notin Closed
  BY <1>2 DEF GateInv, Gated, Closed
<1>4. j.status = "generating_code" => j.status \notin Closed
  BY DEF Closed
<1> HIDE DEF k
<1>5. Res(k, after, "ok") \in Draft
  BY <1>2, <1>3, OpenStatuses, ResDraft
<1> QED BY <1>1, <1>4, <1>5 DEF GenerateOn, InvalidPatch, When, DraftFrom, k

(* Writing a patch, for any patch the engine can produce. *)
LEMMA GenerateJobDraft ==
    ASSUME NEW j \in Jobs, NEW d \in Disks
    PROVE  GenerateJob(j, d) \subseteq DraftFrom(j)
BY WriteType, GenerateOnDraft DEF GenerateJob

(* Executing the tests of a job. *)
LEMMA ExecuteJobDraft ==
    ASSUME NEW j \in Jobs, NEW d \in Disks
    PROVE  ExecuteJob(j, d) \subseteq DraftFrom(j)
<1>1. ASSUME ExecPrereq(j)
      PROVE  /\ Ran(j, d, "passed", "awaiting_automation_review") \in Draft
             /\ Ran(j, d, "failed", "failed") \in Draft
  BY <1>1, OpenStatuses, RanDraft DEF Gated
<1>2. j.status = "executing" => j.status \notin Closed
  BY DEF Closed
<1> QED BY <1>1, <1>2 DEF ExecuteJob, When, DraftFrom

(* The run that ends a revision or an acknowledgement. *)
LEMMA FinalizeDraft ==
    ASSUME NEW j \in Jobs, NEW d \in Disks, ExecPrereq(j)
    PROVE  Finalize(j, d) \subseteq Draft
<1>1. Ran(j, d, "passed", "awaiting_automation_review") \in Draft
  BY OpenStatuses, RanDraft DEF Gated
<1>2. Ran(j, d, "failed", "awaiting_human_input") \in Draft
  BY OpenStatuses, RanDraft DEF Gated
<1>3. Ran(j, d, "failed", "failed") \in Draft
  BY OpenStatuses, RanDraft DEF Gated
<1> QED BY <1>1, <1>2, <1>3 DEF Finalize

(* The one repair of a failed job. *)
LEMMA RepairJobDraft ==
    ASSUME NEW j \in Jobs, NEW d \in Disks
    PROVE  RepairJob(j, d) \subseteq DraftFrom(j)
<1> DEFINE k == [j EXCEPT !.repaired = TRUE]
<1>1. k \in Jobs /\ ExecPrereq(k) = ExecPrereq(j)
  BY DEF Jobs, ExecPrereq
<1> HIDE DEF k
<1>2. ASSUME NEW s \in {"awaiting_human_input", "failed"}, NEW x \in Disks
      PROVE  Res(Status(k, s), x, "ok") \in Draft
  <2>1. s \in JobStatus \ (Gated \cup Closed)
    BY OpenStatuses
  <2>2. Status(k, s) \in Jobs /\ GateInv(Status(k, s)) /\ Status(k, s).status \notin Closed
    BY <1>1, <2>1, StatusDraft
  <2> QED BY <2>2, OpenStatuses, ResDraft
<1>3. ASSUME ExecPrereq(j), NEW x \in Disks
      PROVE  /\ Ran(k, x, "passed", "awaiting_automation_review") \in Draft
             /\ Ran(k, x, "failed", "failed") \in Draft
  BY <1>1, <1>3, OpenStatuses, RanDraft DEF Gated
<1>4. CanRepair(j) => ExecPrereq(j) /\ j.status \notin Closed
  BY DEF CanRepair, ExecPrereq, Closed
<1>5. Write(d) \subseteq Disks
  BY WriteType
<1>6. CASE ~CanRepair(j)
  BY <1>6 DEF RepairJob, When
<1>7. CASE CanRepair(j)
  <2>1. SUFFICES ASSUME NEW r \in RepairJob(j, d) PROVE r \in Draft
    BY <1>4, <1>7 DEF DraftFrom
  <2>2. \/ \E s \in {"awaiting_human_input", "failed"} : r = Res(Status(k, s), d, "ok")
        \/ \E x \in Write(d) :
              r \in {Res(Status(k, "failed"), x, "ok"),
                     Ran(k, x, "passed", "awaiting_automation_review"),
                     Ran(k, x, "failed", "failed")}
    BY <1>7 DEF RepairJob, RepairApplied, InvalidRepair, When, Write, k
  <2> QED BY <1>2, <1>3, <1>4, <1>5, <1>7, <2>2
<1> QED BY <1>6, <1>7

(* A revision in place, from revising_after_review. *)
LEMMA ReviseOnDraft ==
    ASSUME NEW j \in Jobs, ExecPrereq(j), NEW before \in Disks, NEW after \in Disks
    PROVE  ReviseOn(j, before, after) \subseteq Draft
<1> DEFINE k == [j EXCEPT !.patch = TRUE]
<1>1. k \in Jobs /\ ExecPrereq(k)
  BY DEF Jobs, ExecPrereq
<1>2. ASSUME NEW x \in Disks PROVE Res(Status(j, "failed"), x, "ok") \in Draft
  BY OpenStatuses, StatusDraft, ResDraft
<1> HIDE DEF k
<1>3. Finalize(k, after) \subseteq Draft
  BY <1>1, FinalizeDraft
<1> QED BY <1>2, <1>3 DEF ReviseOn, InvalidRepair, k

(* A review revision leaves the job open, failed, or with a fresh run. *)
LEMMA ReviseJobDraft ==
    ASSUME NEW j \in Jobs, NEW d \in Disks
    PROVE  ReviseJob(j, d) \subseteq DraftFrom(j)
<1> DEFINE k == Status(j, "revising_after_review")
<1>1. k \in Jobs /\ ExecPrereq(k) = ExecPrereq(j)
  BY OpenStatuses, StatusDraft
<1>2. CanRevise(j) => ExecPrereq(j) /\ j.status \notin Closed
  BY DEF CanRevise, Closed
<1> HIDE DEF k
<1>3. ASSUME CanRevise(j), NEW x \in Write(d) PROVE ReviseOn(k, d, x) \subseteq Draft
  BY <1>1, <1>2, <1>3, WriteType, ReviseOnDraft
<1> QED BY <1>2, <1>3 DEF ReviseJob, When, DraftFrom, k

(* A manual edit acknowledged. *)
LEMMA AckJobDraft ==
    ASSUME NEW j \in Jobs, NEW d \in Disks
    PROVE  AckJob(j, d) \subseteq DraftFrom(j)
<1>1. CanAck(j) => ExecPrereq(j) /\ j.status \notin Closed
  BY DEF CanAck, Closed
<1> QED BY <1>1, FinalizeDraft DEF AckJob, When, DraftFrom

(* Approval: the one job service that closes a job, and only an approvable
   one. *)
LEMMA ApproveJobSound ==
    ASSUME NEW j \in Jobs, GateInv(j), NEW d \in Disks, NEW r \in ApproveJob(j, d)
    PROVE  /\ r \in Sound
           /\ r.disk = d
           /\ r.job.status = "approved_for_pr"
           /\ r.job.exec = "passed" /\ j.exec = "passed"
           /\ j.status \notin Closed
<1> DEFINE k == [j EXCEPT !.status = "approved_for_pr", !.approvedOn = j.ranOn]
<1>1. j.status = "awaiting_automation_review" /\ r = Res(k, d, "ok")
  BY DEF ApproveJob, When
<1>2. j.exec = "passed" /\ ExecPrereq(j) /\ j.status \notin Closed
  BY <1>1 DEF GateInv, Gated, Closed
<1>3. k \in Jobs /\ k.status = "approved_for_pr" /\ k.approvedOn = k.ranOn /\ k.exec = j.exec
  BY DEF Jobs, JobStatus
<1>4. ExecPrereq(k)
  BY <1>2 DEF ExecPrereq, Jobs
<1>5. GateInv(k)
  BY <1>2, <1>3, <1>4 DEF GateInv
<1> HIDE DEF k
<1> QED BY <1>1, <1>2, <1>3, <1>5, OpenStatuses DEF Res, Sound, Results

(* Reconciling a stuck job keeps its run, and only a passing one is put to
   review. *)
LEMMA ReconciledSound ==
    ASSUME NEW j \in Jobs, GateInv(j)
    PROVE  /\ Reconciled(j) \in Jobs /\ GateInv(Reconciled(j))
           /\ Reconciled(j).exec = j.exec
           /\ Reconciled(j).status \in Closed <=> j.status \in Closed
<1> DEFINE k == Status(j, "awaiting_automation_review")
<1>1. k \in Jobs /\ k.exec = j.exec /\ k.status = "awaiting_automation_review"
  BY DEF Status, Jobs, JobStatus
<1>2. ExecPrereq(j) => ExecPrereq(k)
  BY DEF Status, Jobs, ExecPrereq
<1>3. j.exec = "passed" /\ ExecPrereq(j) => GateInv(k)
  BY <1>1, <1>2 DEF GateInv, Gated
<1> HIDE DEF k
<1>4. CASE j.status \in StuckAfterSuccess /\ j.exec = "passed" /\ ExecPrereq(j)
  <2>1. Reconciled(j) = k
    BY <1>4 DEF Reconciled, k
  <2> QED BY <1>1, <1>3, <1>4, <2>1 DEF StuckAfterSuccess, Closed
<1>5. CASE ~(j.status \in StuckAfterSuccess /\ j.exec = "passed" /\ ExecPrereq(j))
  BY <1>5 DEF Reconciled
<1> QED BY <1>4, <1>5

-----------------------------------------------------------------------------
(* Adapters. *)

(* Start and plan in one engine call. *)
LEMMA PlanOnlyDraft ==
    ASSUME NEW j \in Jobs, NEW d \in Disks
    PROVE  PlanOnly(j, d) \subseteq DraftFrom(j)
<1>1. StartJob(j, d) # {} => j.status \notin Closed
  BY DEF StartJob, When, Closed
<1>2. ASSUME NEW r \in StartJob(j, d) PROVE PlanJob(r.job, r.disk) \subseteq Draft
  BY StartJobDraft, PlanJobDraft DEF Draft, Sound, Results, DraftFrom
<1> QED BY <1>1, <1>2 DEF PlanOnly, DraftFrom

(* An engine that raises leaves the job as it was. *)
LEMMA EngineStopsDraft ==
    ASSUME NEW j \in Jobs, GateInv(j), j.status \notin Closed, NEW d \in Disks
    PROVE  EngineStops(j, d) \subseteq Draft
BY WriteType, OpenStatuses, ResDraft DEF EngineStops

(* A CLI run read back as a patch. *)
LEMMA CliGenerateDraft ==
    ASSUME NEW j \in Jobs, GateInv(j), j.status \notin Closed, NEW d \in Disks
    PROVE  CliGenerate(j, d) \subseteq Draft
BY EngineStopsDraft, GenerateOnDraft, WriteType DEF CliGenerate, ReadBack, DraftFrom

(* Generate and execute in one engine call. *)
LEMMA AfterPlanDraft ==
    ASSUME NEW j \in Jobs, GateInv(j), j.status \notin Closed, NEW d \in Disks
    PROVE  AfterPlan(j, d) \subseteq Draft
<1> DEFINE generated == IF Engine = "stub" THEN GenerateJob(j, d) ELSE CliGenerate(j, d)
<1>1. generated \subseteq Draft
  BY GenerateJobDraft, CliGenerateDraft DEF DraftFrom
<1> HIDE DEF generated
<1>2. ASSUME NEW r \in generated PROVE ExecuteJob(r.job, r.disk) \subseteq Draft
  BY <1>1, ExecuteJobDraft DEF Draft, Sound, Results, DraftFrom
<1>3. AfterPlan(j, d) = Raised(generated)
          \cup UNION {ExecuteJob(r.job, r.disk) : r \in Succeeded(generated)}
  BY DEF AfterPlan, generated
<1> QED BY <1>1, <1>2, <1>3 DEF Raised, Succeeded

(* The one-shot first round: start, plan, generate and execute. *)
LEMMA InitialDraft ==
    ASSUME NEW j \in Jobs, NEW d \in Disks
    PROVE  Initial(j, d) \subseteq DraftFrom(j)
<1>1. PlanOnly(j, d) \subseteq DraftFrom(j)
  BY PlanOnlyDraft
<1>2. ASSUME NEW r \in PlanOnly(j, d) PROVE AfterPlan(r.job, r.disk) \subseteq DraftFrom(j)
  BY <1>1, AfterPlanDraft DEF DraftFrom, Draft, Sound, Results
<1> QED BY <1>1, <1>2 DEF Initial, Raised, Succeeded

(* A review revision through either engine. *)
LEMMA RevisionDraft ==
    ASSUME NEW j \in Jobs, NEW d \in Disks
    PROVE  Revision(j, d) \subseteq DraftFrom(j)
<1> DEFINE k == Status(j, "revising_after_review")
<1>1. k \in Jobs /\ GateInv(k) /\ k.status \notin Closed /\ ExecPrereq(k) = ExecPrereq(j)
  BY OpenStatuses, StatusDraft
<1>2. CanRevise(j) => ExecPrereq(j) /\ j.status \notin Closed
  BY DEF CanRevise, Closed
<1> HIDE DEF k
<1>3. EngineStops(k, d) \subseteq Draft
  BY <1>1, EngineStopsDraft
<1>4. ASSUME CanRevise(j), NEW x \in Write(d) PROVE ReviseOn(k, x, x) \subseteq Draft
  BY <1>1, <1>2, <1>4, WriteType, ReviseOnDraft
<1>5. CanRevise(j) => CliRevise(k, d) \subseteq Draft
  BY <1>3, <1>4 DEF CliRevise, ReadBackScoped
<1> QED BY <1>2, <1>5, ReviseJobDraft DEF Revision, When, DraftFrom, k

-----------------------------------------------------------------------------
(* Session endpoints and pull-request pipelines. *)

Views == [job : Jobs, sess : Sessions, rounds : [1..MaxRounds -> Rounds],
          pr : Prs, disk : Disks]

SoundViews == {v \in Views : GateInv(v.job)}

Open(j)       == j.status \notin Closed
Releasable(j) == j.status \in {"approved_for_pr", "pr_creation_failed"}

(* The steps of a job the gate allows: none, work, approval, publication of
   a passing run, and publication that failed. *)
GateStep(j, k) ==
    \/ k.status = j.status /\ k.exec = j.exec
    \/ Open(j) /\ Open(k)
    \/ Open(j) /\ j.exec = "passed" /\ k.exec = "passed" /\ k.status = "approved_for_pr"
    \/ Releasable(j) /\ k.status = "pr_created" /\ k.exec = "passed"
    \/ Releasable(j) /\ k.status \notin {"pr_created", "awaiting_automation_review"}

Outcome(v) == {w \in SoundViews : GateStep(v.job, w.job)}

-----------------------------------------------------------------------------

(* Session rows and rounds play no part in the gate. *)
LEMMA SameJob ==
    ASSUME NEW v, NEW w \in Outcome(v), NEW u \in Views, u.job = w.job
    PROVE  u \in Outcome(v)
BY DEF Outcome, SoundViews

(* Keeping a result keeps the view well typed. *)
LEMMA KeptView ==
    ASSUME NEW v \in Views, NEW r \in Results
    PROVE  /\ Kept(v, r) \in Views
           /\ Kept(v, r).job = r.job /\ Kept(v, r).disk = r.disk
           /\ Kept(v, r).sess = v.sess /\ Kept(v, r).rounds = v.rounds
           /\ Kept(v, r).pr = v.pr
BY DEF Kept, Views, Results

(* A job endpoint that keeps a gated result. *)
LEMMA KeptOutcome ==
    ASSUME NEW v \in Views, NEW r \in Sound, GateStep(v.job, r.job)
    PROVE  Kept(v, r) \in Outcome(v)
BY KeptView DEF Sound, Outcome, SoundViews

(* Every job status has a session status. *)
LEMMA SessionStatusType ==
    ASSUME NEW s PROVE SessionStatusOf(s) \in SessionStatus
BY DEF SessionStatusOf, SessionStatus

(* A session endpoint that syncs its status after a gated result. *)
LEMMA SyncedOutcome ==
    ASSUME NEW v \in Views, NEW r \in Sound, GateStep(v.job, r.job)
    PROVE  /\ Synced(v, r) \in Outcome(v)
           /\ Synced(v, r).job = r.job /\ Synced(v, r).disk = r.disk
<1> DEFINE w == Kept(v, r)
<1>1. w \in Outcome(v) /\ w \in Views /\ w.job = r.job /\ w.disk = r.disk
  BY KeptOutcome, KeptView DEF Sound
<1> HIDE DEF w
<1>2. Synced(v, r) = [w EXCEPT !.sess.status = SessionStatusOf(r.job.status)]
  BY DEF Synced, w
<1>3. Synced(v, r) \in Views
  BY <1>1, <1>2, SessionStatusType DEF Views, Sessions
<1>4. Synced(v, r).job = r.job /\ Synced(v, r).disk = r.disk
  BY <1>1, <1>2 DEF Views
<1> QED BY <1>1, <1>3, <1>4, SameJob

(* An endpoint that leaves the job alone. *)
LEMMA UntouchedSound ==
    ASSUME NEW v \in SoundViews, NEW e \in Ends
    PROVE  Untouched(v, e) \in Sound /\ GateStep(v.job, Untouched(v, e).job)
BY DEF Untouched, Res, Sound, Results, SoundViews, Views, GateStep

(* Writing a failed or a finished round leaves the job alone. *)
LEMMA AbsentRoundType ==
    AbsentRound \in Rounds
BY BoundsAssumption DEF AbsentRound, Rounds, Triggers, Contents, Verdicts

(* Closing a round as failed leaves the job alone. *)
LEMMA FailRoundOutcome ==
    ASSUME NEW v, NEW w \in Outcome(v), NEW n \in 1..MaxRounds,
           NEW t \in Triggers, NEW q \in {"none", "applied", "failed"}
    PROVE  FailRound(w, n, t, q) \in Outcome(v)
<1> DEFINE e == [w.rounds[n] EXCEPT !.trigger = t, !.status = "failed", !.request = q]
<1>1. w \in Views
  BY DEF Outcome, SoundViews
<1>2. e \in Rounds
  BY <1>1 DEF Rounds, Views
<1>3. FailRound(w, n, t, q) = [w EXCEPT !.rounds[n] = e]
  BY <1>1 DEF FailRound, Views
<1> HIDE DEF e
<1>4. FailRound(w, n, t, q) \in Views /\ FailRound(w, n, t, q).job = w.job
  BY <1>1, <1>2, <1>3 DEF Views
<1> QED BY <1>4, SameJob

(* Recording a finished round leaves the job alone. *)
LEMMA RecordOutcome ==
    ASSUME NEW v, NEW w \in Outcome(v), NEW n \in 1..MaxRounds, NEW t \in Triggers,
           NEW s \in {"completed", "failed"}, NEW q \in {"none", "applied", "failed"},
           NEW p \in BOOLEAN
    PROVE  Record(w, n, t, s, q, p) \in Outcome(v)
<1> DEFINE patched == p /\ w.job.patch
           e == [trigger |-> t, status |-> s, request |-> q,
                 patch |-> IF patched THEN w.disk.now ELSE 0,
                 attempt |-> w.job.exec, ranOn |-> w.job.ranOn]
           current == IF patched THEN n ELSE w.sess.currentPatch
<1>1. w \in Views
  BY DEF Outcome, SoundViews
<1>2. e \in Rounds
  BY <1>1, BoundsAssumption DEF Views, Rounds, Jobs, Disks, Contents
<1>3. current \in 0..MaxRounds /\ n \in 0..MaxRounds
  BY <1>1, BoundsAssumption DEF Views, Sessions
<1> DEFINE entries == [w.rounds EXCEPT ![n] = e]
           row == [w.sess EXCEPT !.currentPatch = current, !.round = n]
<1>4. Record(w, n, t, s, q, p) = [w EXCEPT !.rounds = entries, !.sess = row]
  BY <1>1 DEF Record, Views
<1> HIDE DEF e, current
<1>5. entries \in [1..MaxRounds -> Rounds] /\ row \in Sessions
  BY <1>1, <1>2, <1>3 DEF Views, Sessions
<1> HIDE DEF entries, row
<1>6. /\ Record(w, n, t, s, q, p) \in Views
      /\ Record(w, n, t, s, q, p).job = w.job
  BY <1>1, <1>4, <1>5 DEF Views
<1> QED BY <1>6, SameJob

(* Drafts are gated steps of the job they were made from. *)
LEMMA DraftStep ==
    ASSUME NEW j, NEW r \in DraftFrom(j)
    PROVE  r \in Sound /\ GateStep(j, r.job) /\ Open(j) /\ Open(r.job)
BY DEF DraftFrom, Draft, GateStep, Open

(* A job parked for the approval of its plan. *)
LEMMA AwaitPlanDraft ==
    ASSUME NEW j, NEW r \in DraftFrom(j)
    PROVE  AwaitPlan(r) \in DraftFrom(j) /\ AwaitPlan(r).job.plan = r.job.plan
<1>1. r \in Results /\ r.job \in Jobs
  BY DEF DraftFrom, Draft, Sound, Results
<1>2. AwaitPlan(r) = [r EXCEPT !.job = Status(r.job, "awaiting_plan_approval")]
  BY <1>1 DEF AwaitPlan, Status, Results
<1>3. /\ Status(r.job, "awaiting_plan_approval") \in Jobs
      /\ GateInv(Status(r.job, "awaiting_plan_approval"))
      /\ Status(r.job, "awaiting_plan_approval").status \notin Closed
      /\ Status(r.job, "awaiting_plan_approval").plan = r.job.plan
  BY <1>1, OpenStatuses, StatusDraft DEF Status, Jobs
<1> QED BY <1>1, <1>2, <1>3 DEF DraftFrom, Draft, Sound, Results

(* The reconciliation that follows a step is part of it. *)
LEMMA ReconciledDraft ==
    ASSUME NEW j, NEW r \in DraftFrom(j)
    PROVE  [r EXCEPT !.job = Reconciled(r.job)] \in DraftFrom(j)
<1>1. r \in Results /\ r.job \in Jobs /\ GateInv(r.job) /\ r.job.status \notin Closed
  BY DEF DraftFrom, Draft, Sound, Results
<1>2. /\ Reconciled(r.job) \in Jobs /\ GateInv(Reconciled(r.job))
      /\ Reconciled(r.job).status \notin Closed
  BY <1>1, ReconciledSound
<1> QED BY <1>1, <1>2 DEF DraftFrom, Draft, Sound, Results

(* The session may change its own row and its rounds. *)
LEMMA RowsOutcome ==
    ASSUME NEW v, NEW w \in Outcome(v), NEW row \in Sessions,
           NEW entries \in [1..MaxRounds -> Rounds]
    PROVE  [w EXCEPT !.rounds = entries, !.sess = row] \in Outcome(v)
<1> DEFINE u == [w EXCEPT !.rounds = entries, !.sess = row]
<1>1. w \in Views
  BY DEF Outcome, SoundViews
<1>2. u \in Views /\ u.job = w.job
  BY <1>1 DEF Views
<1> QED BY <1>2, SameJob

-----------------------------------------------------------------------------
(* Start. *)

(* The smallest members of the bounded ranges. *)
LEMMA FirstSlot == 1 \in 1..MaxRounds /\ 1 \in 0..MaxRounds /\ 0 \in 0..MaxRounds /\ 0 \in Plans
BY BoundsAssumption DEF Plans

(* The initial engine errors of a first round. *)
LEMMA InitialFailsOutcome ==
    ASSUME NEW v \in Views, NEW r \in Sound, GateStep(v.job, r.job)
    PROVE  InitialFails(v, r) \in Outcome(v)
<1> DEFINE w == FailRound(Synced(v, r), 1, "initial", "none")
           row == [w.sess EXCEPT !.round = IF w.sess.round = 0 THEN 1 ELSE w.sess.round]
<1>1. w \in Outcome(v)
  BY FirstSlot, SyncedOutcome, FailRoundOutcome DEF Triggers
<1> HIDE DEF w
<1>2. w \in Views
  BY <1>1 DEF Outcome, SoundViews
<1>3. row \in Sessions /\ w.rounds \in [1..MaxRounds -> Rounds]
  BY <1>2, FirstSlot DEF Views, Sessions
<1>4. InitialFails(v, r) = [w EXCEPT !.rounds = w.rounds, !.sess = row]
  BY <1>2 DEF InitialFails, w, Views
<1> HIDE DEF row
<1>5. [w EXCEPT !.rounds = w.rounds, !.sess = row] \in Outcome(v)
  BY <1>1, <1>3, RowsOutcome
<1> QED BY <1>4, <1>5

(* A workspace that cannot be prepared fails the open job. *)
LEMMA PreparationFailsOutcome ==
    ASSUME NEW v \in Views, Open(v.job)
    PROVE  PreparationFails(v) \in Outcome(v)
<1> DEFINE r == Res(Status(v.job, "failed"), v.disk, "rejected")
<1>1. r \in Draft
  BY OpenStatuses, StatusDraft, ResDraft DEF Views
<1>2. r \in Sound /\ GateStep(v.job, r.job)
  BY <1>1, DraftStep DEF DraftFrom, Open
<1> QED BY <1>2, SyncedOutcome DEF PreparationFails

(* Both ways a plan becomes the current one. *)
LEMMA PlanReadyOutcome ==
    ASSUME NEW v \in Views, NEW r \in DraftFrom(v.job),
           NEW entries \in [1..MaxRounds -> Rounds]
    PROVE  [Synced(v, AwaitPlan(r)) EXCEPT
               !.rounds = entries,
               !.sess.approvedPlan = 0, !.sess.currentPlan = r.job.plan] \in Outcome(v)
<1> DEFINE w == Synced(v, AwaitPlan(r))
           row == [w.sess EXCEPT !.approvedPlan = 0, !.currentPlan = r.job.plan]
<1>1. w \in Outcome(v)
  BY AwaitPlanDraft, DraftStep, SyncedOutcome
<1>2. r.job.plan \in Plans
  BY DEF DraftFrom, Draft, Sound, Results, Jobs
<1> HIDE DEF w
<1>3. w \in Views
  BY <1>1 DEF Outcome, SoundViews
<1>4. row \in Sessions
  BY <1>2, <1>3, FirstSlot DEF Views, Sessions
<1>5. [w EXCEPT !.rounds = entries, !.sess.approvedPlan = 0, !.sess.currentPlan = r.job.plan]
          = [w EXCEPT !.rounds = entries, !.sess = row]
  BY <1>3 DEF Views
<1>6. [w EXCEPT !.rounds = entries, !.sess = row] \in Outcome(v)
  BY <1>1, <1>4, RowsOutcome
<1> QED BY <1>5, <1>6 DEF w

(* The statuses from which planning and starting are possible are open. *)
LEMMA StartsOpen ==
    ASSUME NEW v
    PROVE  /\ CanBegin(v) => Open(v.job)
           /\ AtPlanGate(v) => Open(v.job)
BY DEF CanBegin, AtPlanGate, Open, Closed

(* An open job may become any draft. *)
LEMMA OpenDraft ==
    ASSUME NEW j, Open(j) PROVE Draft \subseteq DraftFrom(j)
BY DEF Open, DraftFrom

(* An endpoint that only syncs the session status. *)
LEMMA UntouchedOutcome ==
    ASSUME NEW v \in SoundViews, NEW e \in Ends
    PROVE  /\ Synced(v, Untouched(v, e)) \in Outcome(v)
           /\ InitialFails(v, Untouched(v, e)) \in Outcome(v)
BY UntouchedSound, SyncedOutcome, InitialFailsOutcome DEF SoundViews

(* POST prepare-plan. *)
LEMMA PreparePlanOutcome ==
    ASSUME NEW v \in SoundViews
    PROVE  PreparePlan(v) \subseteq Outcome(v)
<1> DEFINE results == When(CanBegin(v) /\ Slot(v, 1), PlanOnly(v.job, v.disk))
           paused == [AbsentRound EXCEPT !.trigger = "initial", !.status = "in_progress"]
           entries == [v.rounds EXCEPT ![1] = paused]
           ready(r) == [Synced(v, AwaitPlan(r)) EXCEPT
                            !.rounds[1] = paused,
                            !.sess.approvedPlan = 0, !.sess.currentPlan = r.job.plan]
<1>1. v \in Views /\ v.job \in Jobs /\ v.disk \in Disks
  BY DEF SoundViews, Views
<1>2. results \subseteq DraftFrom(v.job)
  BY <1>1, PlanOnlyDraft DEF When
<1>3. entries \in [1..MaxRounds -> Rounds]
  <2>1. paused \in Rounds
    BY AbsentRoundType DEF Rounds, Triggers
  <2> QED BY <1>1, <2>1 DEF Views
<1>4. ASSUME NEW r \in results PROVE ready(r) \in Outcome(v)
  <2>1. AwaitPlan(r) \in Sound /\ GateStep(v.job, AwaitPlan(r).job)
    BY <1>2, AwaitPlanDraft, DraftStep
  <2>2. Synced(v, AwaitPlan(r)) \in Views /\ Synced(v, AwaitPlan(r)).rounds = v.rounds
    BY <1>1, <2>1, SyncedOutcome, KeptView DEF Synced, Outcome, SoundViews, Sound, Views
  <2>3. ready(r) = [Synced(v, AwaitPlan(r)) EXCEPT
                       !.rounds = entries,
                       !.sess.approvedPlan = 0, !.sess.currentPlan = r.job.plan]
    BY <2>2 DEF Views
  <2> QED BY <1>1, <1>2, <1>3, <2>3, PlanReadyOutcome
<1> HIDE DEF results, ready
<1>5. ASSUME NEW w \in PreparePlan(v)
      PROVE  \/ w = Synced(v, Untouched(v, "ok"))
             \/ CanBegin(v) /\ w = PreparationFails(v)
             \/ w = InitialFails(v, Untouched(v, "rejected"))
             \/ \E r \in results : w = InitialFails(v, r) \/ w = ready(r)
  BY DEF PreparePlan, When, Raised, Succeeded, results, ready
<1>6. ASSUME NEW r \in results PROVE InitialFails(v, r) \in Outcome(v)
  BY <1>1, <1>2, DraftStep, InitialFailsOutcome
<1>7. CanBegin(v) => PreparationFails(v) \in Outcome(v)
  BY <1>1, StartsOpen, PreparationFailsOutcome
<1> QED BY <1>4, <1>5, <1>6, <1>7, OpenStatuses, UntouchedOutcome

(* POST approve-plan. *)
LEMMA ApprovePlanOutcome ==
    ASSUME NEW v \in SoundViews
    PROVE  ApprovePlan(v) \subseteq Outcome(v)
<1> DEFINE w == Synced(v, Untouched(v, "ok"))
           row == [w.sess EXCEPT !.approvedPlan = v.job.plan]
<1>1. w \in Outcome(v)
  BY OpenStatuses, UntouchedOutcome
<1>2. v.job.plan \in Plans
  BY DEF SoundViews, Views, Jobs
<1> HIDE DEF w
<1>3. w \in Views
  BY <1>1 DEF Outcome, SoundViews
<1>4. row \in Sessions
  BY <1>2, <1>3 DEF Views, Sessions
<1>5. [w EXCEPT !.sess.approvedPlan = v.job.plan] = [w EXCEPT !.rounds = w.rounds, !.sess = row]
  BY <1>3 DEF Views
<1>6. w.rounds \in [1..MaxRounds -> Rounds]
  BY <1>3 DEF Views
<1> HIDE DEF row
<1>7. [w EXCEPT !.rounds = w.rounds, !.sess = row] \in Outcome(v)
  BY <1>1, <1>4, <1>6, RowsOutcome
<1> QED BY <1>5, <1>7 DEF ApprovePlan, When, w

(* POST request-plan-revision, rejected plans included. *)
LEMMA RevisePlanOutcome ==
    ASSUME NEW v \in SoundViews
    PROVE  RevisePlan(v) \subseteq Outcome(v)
<1> DEFINE results == When(AtPlanGate(v), PlanJob(Status(v.job, "planning_changes"), v.disk))
           rejected(r) == [Kept(v, r) EXCEPT !.sess.approvedPlan = 0]
           ready(r) == [Synced(v, AwaitPlan(r)) EXCEPT
                            !.sess.approvedPlan = 0, !.sess.currentPlan = r.job.plan]
<1>1. v \in Views /\ v.job \in Jobs /\ v.disk \in Disks
  BY DEF SoundViews, Views
<1>2. results \subseteq DraftFrom(v.job)
  <2>1. PlanJob(Status(v.job, "planning_changes"), v.disk) \subseteq Draft
    BY <1>1, OpenStatuses, StatusDraft, PlanJobDraft DEF DraftFrom
  <2> QED BY <2>1, StartsOpen, OpenDraft DEF When
<1>3. ASSUME NEW r \in results PROVE rejected(r) \in Outcome(v)
  <2> DEFINE w == Kept(v, r)
             row == [w.sess EXCEPT !.approvedPlan = 0]
  <2>1. w \in Outcome(v)
    BY <1>1, <1>2, DraftStep, KeptOutcome
  <2>2. w \in Views
    BY <2>1 DEF Outcome, SoundViews
  <2> HIDE DEF w
  <2>3. row \in Sessions /\ w.rounds \in [1..MaxRounds -> Rounds]
    BY <2>2, FirstSlot DEF Views, Sessions
  <2>4. [w EXCEPT !.sess.approvedPlan = 0] = [w EXCEPT !.rounds = w.rounds, !.sess = row]
    BY <2>2 DEF Views
  <2> HIDE DEF row
  <2>5. [w EXCEPT !.rounds = w.rounds, !.sess = row] \in Outcome(v)
    BY <2>1, <2>3, RowsOutcome
  <2> QED BY <2>4, <2>5 DEF w
<1>4. ASSUME NEW r \in results PROVE ready(r) \in Outcome(v)
  <2> DEFINE w == Synced(v, AwaitPlan(r))
  <2>1. w \in Views
    BY <1>1, <1>2, AwaitPlanDraft, DraftStep, SyncedOutcome DEF Outcome, SoundViews
  <2> HIDE DEF w
  <2>2. /\ w.rounds \in [1..MaxRounds -> Rounds]
        /\ [w EXCEPT !.sess.approvedPlan = 0, !.sess.currentPlan = r.job.plan]
             = [w EXCEPT !.rounds = w.rounds,
                         !.sess.approvedPlan = 0, !.sess.currentPlan = r.job.plan]
    BY <2>1 DEF Views
  <2> QED BY <1>1, <1>2, <2>2, PlanReadyOutcome DEF w
<1> HIDE DEF results, rejected, ready
<1>5. RevisePlan(v) = {rejected(r) : r \in Raised(results)} \cup {ready(r) : r \in Succeeded(results)}
  BY DEF RevisePlan, results, rejected, ready
<1> QED BY <1>3, <1>4, <1>5 DEF Raised, Succeeded

(* The recording of the first round after its run. *)
LEMMA FirstRoundOutcome ==
    ASSUME NEW v \in SoundViews, NEW r \in DraftFrom(v.job), NEW plan \in Plans
    PROVE  FirstRound(v, r, plan) \in Outcome(v)
<1> DEFINE done == [r EXCEPT !.job = Reconciled(r.job)]
           w == Synced(v, done)
           row == [w.sess EXCEPT !.currentPlan = plan]
           u == [w EXCEPT !.sess.currentPlan = plan]
           s == IF done.job.status = "failed" THEN "failed" ELSE "completed"
<1>1. r \in Results
  BY DEF DraftFrom, Draft, Sound
<1>2. done \in DraftFrom(v.job)
  BY ReconciledDraft
<1>3. FirstRound(v, r, plan) = Record(u, 1, "initial", s, "none", TRUE)
  BY <1>1 DEF FirstRound, Results
<1> HIDE DEF done
<1>4. w \in Outcome(v)
  BY <1>2, DraftStep, SyncedOutcome DEF SoundViews
<1> HIDE DEF w
<1>5. w \in Views
  BY <1>4 DEF Outcome, SoundViews
<1>6. row \in Sessions /\ w.rounds \in [1..MaxRounds -> Rounds]
  BY <1>5 DEF Views, Sessions
<1>7. u = [w EXCEPT !.rounds = w.rounds, !.sess = row]
  BY <1>5 DEF Views
<1> HIDE DEF row, u
<1>8. u \in Outcome(v)
  BY <1>4, <1>6, <1>7, RowsOutcome
<1>9. s \in {"completed", "failed"}
  OBVIOUS
<1> HIDE DEF s
<1> QED BY <1>3, <1>8, <1>9, FirstSlot, RecordOutcome DEF Triggers

(* POST start, with an approved plan or in one shot. *)
LEMMA StartSessionOutcome ==
    ASSUME NEW v \in SoundViews
    PROVE  StartSession(v) \subseteq Outcome(v)
<1> DEFINE approved == When(AtPlanGate(v) /\ v.sess.approvedPlan # 0,
                            AfterPlan(Status(v.job, "generating_code"), v.disk))
           oneShot == When(CanBegin(v) /\ Slot(v, 1),
                           Initial(v.job, v.disk) \cup {Untouched(v, "engine")})
<1>1. v \in Views /\ v.job \in Jobs /\ v.disk \in Disks
  BY DEF SoundViews, Views
<1>2. approved \subseteq DraftFrom(v.job)
  <2>1. AfterPlan(Status(v.job, "generating_code"), v.disk) \subseteq Draft
    BY <1>1, OpenStatuses, StatusDraft, AfterPlanDraft
  <2> QED BY <2>1, StartsOpen, OpenDraft DEF When
<1>3. Initial(v.job, v.disk) \subseteq DraftFrom(v.job)
  BY <1>1, InitialDraft
<1>4. /\ Succeeded(oneShot) \subseteq DraftFrom(v.job)
      /\ \A r \in Raised(oneShot) : r \in DraftFrom(v.job) \/ r = Untouched(v, "engine")
  BY <1>3 DEF Succeeded, Raised, When, Untouched, Res
<1> HIDE DEF approved, oneShot
<1>5. ASSUME NEW w \in StartSession(v)
      PROVE  \/ CanBegin(v) /\ w = PreparationFails(v)
             \/ \E r \in Raised(approved \cup oneShot) : w = InitialFails(v, r)
             \/ \E r \in Succeeded(approved) : w = FirstRound(v, r, v.sess.currentPlan)
             \/ \E r \in Succeeded(oneShot) : w = FirstRound(v, r, r.job.plan)
  BY DEF StartSession, When, approved, oneShot
<1>6. ASSUME NEW r \in Raised(approved \cup oneShot) PROVE InitialFails(v, r) \in Outcome(v)
  <2>1. r \in DraftFrom(v.job) \/ r = Untouched(v, "engine")
    BY <1>2, <1>4 DEF Raised
  <2> QED BY <1>1, <2>1, OpenStatuses, DraftStep, InitialFailsOutcome, UntouchedOutcome
<1>7. ASSUME NEW r \in Succeeded(approved)
      PROVE  FirstRound(v, r, v.sess.currentPlan) \in Outcome(v)
  <2>1. v.sess.currentPlan \in Plans /\ r \in DraftFrom(v.job)
    BY <1>1, <1>2 DEF Succeeded, Views, Sessions
  <2> QED BY <2>1, FirstRoundOutcome
<1>8. ASSUME NEW r \in Succeeded(oneShot) PROVE FirstRound(v, r, r.job.plan) \in Outcome(v)
  <2>1. r \in DraftFrom(v.job)
    BY <1>4
  <2>2. r.job.plan \in Plans
    BY <2>1 DEF DraftFrom, Draft, Sound, Results, Jobs
  <2> QED BY <2>1, <2>2, FirstRoundOutcome
<1>9. CanBegin(v) => PreparationFails(v) \in Outcome(v)
  BY <1>1, StartsOpen, PreparationFailsOutcome
<1> QED BY <1>5, <1>6, <1>7, <1>8, <1>9

-----------------------------------------------------------------------------
(* Review. *)

(* POST request-revision of the session. *)
LEMMA ReviseSessionOutcome ==
    ASSUME NEW v \in SoundViews
    PROVE  ReviseSession(v) \subseteq Outcome(v)
<1> DEFINE n == v.sess.round + 1
           results == Revision(v.job, v.disk) \cup {Untouched(v, "engine")}
           applied == {r \in Succeeded(results) : r.disk.now # v.disk.now}
           done(r) == [r EXCEPT !.job = Reconciled(r.job)]
<1>1. v \in Views /\ v.job \in Jobs /\ v.disk \in Disks
  BY DEF SoundViews, Views
<1>2. applied \subseteq DraftFrom(v.job)
  BY <1>1, RevisionDraft DEF Succeeded, Untouched, Res
<1>3. ASSUME NEW r \in results PROVE r \in Sound /\ GateStep(v.job, r.job)
  BY <1>1, RevisionDraft, DraftStep, OpenStatuses, UntouchedSound
<1>4. ASSUME n \in 1..MaxRounds, NEW r \in results
      PROVE  FailRound(Synced(v, r), n, "review_revision", "failed") \in Outcome(v)
  BY <1>1, <1>3, <1>4, SyncedOutcome, FailRoundOutcome DEF Triggers
<1>5. ASSUME n \in 1..MaxRounds, NEW r \in applied
      PROVE  Record(Synced(v, done(r)), n, "review_revision",
                    RoundStatus(done(r).job), "applied", TRUE) \in Outcome(v)
  <2>1. done(r) \in DraftFrom(v.job)
    BY <1>2, ReconciledDraft
  <2>2. Synced(v, done(r)) \in Outcome(v)
    BY <1>1, <2>1, DraftStep, SyncedOutcome
  <2>3. RoundStatus(done(r).job) \in {"completed", "failed"}
    BY DEF RoundStatus
  <2> QED BY <1>5, <2>2, <2>3, RecordOutcome DEF Triggers
<1>6. ASSUME NEW r \in applied PROVE done(r) = [r EXCEPT !.job = Reconciled(@)]
  BY <1>2 DEF DraftFrom, Draft, Sound, Results
<1> HIDE DEF done
<1>7. ASSUME NEW w \in ReviseSession(v)
      PROVE  /\ n \in 1..MaxRounds
             /\ \/ \E r \in results : w = FailRound(Synced(v, r), n, "review_revision", "failed")
                \/ \E r \in applied : w = Record(Synced(v, done(r)), n, "review_revision",
                                                 RoundStatus(done(r).job), "applied", TRUE)
  BY <1>6 DEF ReviseSession, When, Slot
<1> QED BY <1>4, <1>5, <1>7

(* POST manual-edit-ack of the session. *)
LEMMA AckSessionOutcome ==
    ASSUME NEW v \in SoundViews
    PROVE  AckSession(v) \subseteq Outcome(v)
<1> DEFINE n == v.sess.round + 1
<1>1. v \in Views /\ v.job \in Jobs /\ v.disk \in Disks
  BY DEF SoundViews, Views
<1>2. ASSUME n \in 1..MaxRounds
      PROVE  FailRound(Synced(v, Untouched(v, "engine")), n, "manual_edit_rerun", "failed")
                 \in Outcome(v)
  BY <1>2, OpenStatuses, UntouchedOutcome, FailRoundOutcome DEF Triggers
<1>3. ASSUME n \in 1..MaxRounds, NEW r \in AckJob(v.job, v.disk)
      PROVE  Record(Synced(v, r), n, "manual_edit_rerun", RoundStatus(r.job), "applied", FALSE)
                 \in Outcome(v)
  <2>1. Synced(v, r) \in Outcome(v)
    BY <1>1, AckJobDraft, DraftStep, SyncedOutcome
  <2>2. RoundStatus(r.job) \in {"completed", "failed"}
    BY DEF RoundStatus
  <2> QED BY <1>3, <2>1, <2>2, RecordOutcome DEF Triggers
<1> QED BY <1>2, <1>3 DEF AckSession, When, Slot

(* Approval through the session: of a job that is approved already, or of one
   the reconciliation may first have moved to review. *)
LEMMA ApproveSessionOutcome ==
    ASSUME NEW v \in SoundViews
    PROVE  ApproveSession(v) \subseteq Outcome(v)
<1>1. v \in Views /\ v.job \in Jobs /\ v.disk \in Disks /\ GateInv(v.job)
  BY DEF SoundViews, Views
<1>2. ASSUME NEW r \in ApproveJob(Reconciled(v.job), v.disk)
      PROVE  Synced(v, r) \in Outcome(v)
  <2> DEFINE j == Reconciled(v.job)
  <2>1. /\ j \in Jobs /\ GateInv(j) /\ j.exec = v.job.exec
        /\ j.status \in Closed <=> v.job.status \in Closed
    BY <1>1, ReconciledSound
  <2> HIDE DEF j
  <2>2. /\ r \in Sound /\ r.job.status = "approved_for_pr" /\ r.job.exec = "passed"
        /\ j.exec = "passed" /\ j.status \notin Closed
    BY <1>1, <2>1, ApproveJobSound DEF j
  <2>3. GateStep(v.job, r.job)
    BY <2>1, <2>2 DEF GateStep, Open
  <2> QED BY <1>1, <2>2, <2>3, SyncedOutcome
<1> QED BY <1>2, OpenStatuses, UntouchedOutcome DEF ApproveSession, When

-----------------------------------------------------------------------------
(* The pull request. *)

(* Writing the current patch onto the branch leaves a workspace. *)
LEMMA PatchedType ==
    ASSUME NEW v \in Views, v.sess.currentPatch # 0, NEW d \in Disks
    PROVE  Patched(v, d) \in Disks
<1>1. v.sess.currentPatch \in 1..MaxRounds
  BY BoundsAssumption DEF Views, Sessions
<1>2. v.rounds[v.sess.currentPatch].patch \in Contents
  BY <1>1 DEF Views, Rounds
<1> QED BY <1>2 DEF Patched, Disks

(* The tests before the commit: ready to commit means passed, and whatever
   they say the job stays where it is. *)
LEMMA RefreshedType ==
    ASSUME NEW j \in Jobs, NEW d \in Disks, NEW r \in Refreshed(j, d)
    PROVE  /\ r \in Results /\ r.disk = d
           /\ r.job.exec = "passed" /\ r.job.status = j.status
           /\ ExecPrereq(r.job) = ExecPrereq(j)
<1> DEFINE k == [j EXCEPT !.exec = "passed", !.ranOn = d.now]
<1>1. k \in Jobs /\ k.exec = "passed" /\ k.status = j.status
  BY DEF Jobs, Disks, Verdicts
<1>2. ExecPrereq(k) = ExecPrereq(j)
  BY DEF Jobs, ExecPrereq
<1> HIDE DEF k
<1>3. CASE r = Res(k, d, "ok")
  BY <1>1, <1>2, <1>3, OpenStatuses DEF Res, Results
<1>4. CASE r = Res(j, d, "ok") /\ j.exec = "passed"
  BY <1>4, OpenStatuses DEF Res, Results
<1> QED BY <1>3, <1>4 DEF Refreshed, When, k

(* A failing run before the commit keeps the row well typed. *)
LEMMA RefreshFailsType ==
    ASSUME NEW j \in Jobs, NEW d \in Disks
    PROVE  /\ RefreshFails(j, d) \in Jobs
           /\ RefreshFails(j, d).status = j.status
           /\ ExecPrereq(RefreshFails(j, d)) = ExecPrereq(j)
<1>1. RefreshFails(j, d) \in Jobs /\ RefreshFails(j, d).status = j.status
  BY DEF RefreshFails, Jobs, Disks, Verdicts
<1>2. ExecPrereq(RefreshFails(j, d)) = ExecPrereq(j)
  BY DEF RefreshFails, Jobs, ExecPrereq
<1> QED BY <1>1, <1>2

(* A job moved by a pull-request step that did not open one. *)
LEMMA RetreatSound ==
    ASSUME NEW j \in Jobs, Releasable(j), NEW k \in Jobs, ExecPrereq(k),
           NEW d \in Disks, NEW e \in Ends,
           NEW s \in {"pr_creation_failed", "awaiting_human_input", "failed"}
    PROVE  /\ Res(Status(k, s), d, e) \in Sound
           /\ GateStep(j, Res(Status(k, s), d, e).job)
<1>1. Status(k, s) \in Jobs /\ Status(k, s).status = s
  BY DEF Status, Jobs, JobStatus
<1>2. ExecPrereq(Status(k, s))
  BY DEF Status, Jobs, ExecPrereq
<1>3. GateInv(Status(k, s))
  BY <1>1, <1>2 DEF GateInv, Gated
<1> QED BY <1>1, <1>3 DEF Res, Sound, Results, GateStep

(* A pull request that opened on a passing run. *)
LEMMA OpenedOutcome ==
    ASSUME NEW v \in SoundViews, Releasable(v.job), NEW r \in Results,
           r.job.exec = "passed", ExecPrereq(r.job),
           NEW via \in {"session", "job"}, NEW content \in Contents
    PROVE  /\ Opened(v, r, via, content) \in Outcome(v)
           /\ Opened(v, r, via, content).job.status = "pr_created"
<1> DEFINE w == Kept(v, r)
           k == [r.job EXCEPT !.status = "pr_created"]
           p == [via |-> via, content |-> content, approved |-> r.job.approvedOn]
           u == [w EXCEPT !.job = k, !.pr = p]
<1>1. v \in Views /\ r.job \in Jobs
  BY DEF SoundViews, Results
<1>2. w \in Views /\ w.job = r.job
  BY <1>1, KeptView
<1> HIDE DEF w
<1>3. k \in Jobs /\ k.status = "pr_created" /\ k.exec = "passed"
  BY <1>1 DEF Jobs, JobStatus
<1>4. ExecPrereq(k)
  BY <1>1 DEF Jobs, ExecPrereq
<1>5. GateInv(k) /\ GateStep(v.job, k)
  BY <1>3, <1>4 DEF GateInv, GateStep
<1>6. p \in Prs
  BY <1>1 DEF Prs, Jobs
<1>7. Opened(v, r, via, content) = u
  BY <1>2 DEF Opened, w, Views
<1> HIDE DEF k, p
<1>8. u \in Views /\ u.job = k
  BY <1>2, <1>3, <1>6 DEF Views
<1> HIDE DEF u
<1> QED BY <1>3, <1>5, <1>7, <1>8 DEF Outcome, SoundViews

(* The session status follows the job at the end of the session pipeline. *)
LEMMA PrSyncOutcome ==
    ASSUME NEW v, NEW w \in Outcome(v)
    PROVE  [w EXCEPT !.sess.status = SessionStatusOf(w.job.status)] \in Outcome(v)
<1> DEFINE row == [w.sess EXCEPT !.status = SessionStatusOf(w.job.status)]
<1>1. w \in Views
  BY DEF Outcome, SoundViews
<1>2. row \in Sessions /\ w.rounds \in [1..MaxRounds -> Rounds]
  BY <1>1, SessionStatusType DEF Views, Sessions
<1>3. [w EXCEPT !.sess.status = SessionStatusOf(w.job.status)]
        = [w EXCEPT !.rounds = w.rounds, !.sess = row]
  BY <1>1 DEF Views
<1> HIDE DEF row
<1>4. [w EXCEPT !.rounds = w.rounds, !.sess = row] \in Outcome(v)
  BY <1>2, RowsOutcome
<1> QED BY <1>3, <1>4

(* POST create-pr of the session: every way it fails, and the pull request. *)
LEMMA CreatePrSessionOutcome ==
    ASSUME NEW v \in SoundViews
    PROVE  CreatePrSession(v) \subseteq Outcome(v)
<1> DEFINE ready == UNION {Refreshed(v.job, d) : d \in PrWorkspaces(v)}
           unready == {Res(v.job, d, "ok") : d \in PrWorkspaces(v) \cup {v.disk}}
                      \cup {Res(RefreshFails(v.job, d), d, "ok") : d \in PrWorkspaces(v)}
           applied == {[r EXCEPT !.disk = Patched(v, r.disk)] : r \in ready}
           sync(w) == [w EXCEPT !.sess.status = SessionStatusOf(w.job.status)]
<1>1. v \in Views /\ v.job \in Jobs /\ v.disk \in Disks /\ GateInv(v.job)
  BY DEF SoundViews, Views
<1>2. PrAllowed(v.job) => Releasable(v.job) /\ ExecPrereq(v.job)
  BY <1>1 DEF PrAllowed, Releasable, GateInv, Closed
<1>3. PrWorkspaces(v) \subseteq Disks /\ (PrWorkspaces(v) # {} => v.sess.currentPatch # 0)
  BY <1>1, PatchedType DEF PrWorkspaces
<1>4. ASSUME NEW r \in ready, PrAllowed(v.job)
      PROVE  r \in Results /\ r.job.exec = "passed" /\ ExecPrereq(r.job)
             /\ v.sess.currentPatch # 0
  BY <1>1, <1>2, <1>3, <1>4, RefreshedType
<1>5. ASSUME NEW r \in applied, PrAllowed(v.job)
      PROVE  r \in Results /\ r.job.exec = "passed" /\ ExecPrereq(r.job)
  <2>1. PICK q \in ready : r = [q EXCEPT !.disk = Patched(v, q.disk)]
    OBVIOUS
  <2>2. q \in Results /\ q.job.exec = "passed" /\ ExecPrereq(q.job) /\ v.sess.currentPatch # 0
    BY <1>4, <1>5
  <2>3. Patched(v, q.disk) \in Disks
    BY <1>1, <2>2, PatchedType DEF Results
  <2> HIDE DEF ready, applied
  <2> QED BY <2>1, <2>2, <2>3 DEF Results
<1>6. ASSUME NEW r \in unready, PrAllowed(v.job)
      PROVE  r \in Results /\ ExecPrereq(r.job)
  BY <1>1, <1>2, <1>3, <1>6, RefreshFailsType, OpenStatuses DEF Res, Results
<1>7. ASSUME NEW r \in Results, ExecPrereq(r.job), PrAllowed(v.job)
      PROVE  sync(Kept(v, PrFailed(r))) \in Outcome(v)
  <2> DEFINE q == Res(Status(r.job, "pr_creation_failed"), r.disk, r.end)
  <2>1. PrFailed(r) = q
    BY DEF PrFailed, Status, Res, Results
  <2>2. q \in Sound /\ GateStep(v.job, q.job)
    BY <1>1, <1>2, <1>7, RetreatSound DEF Results
  <2> HIDE DEF q
  <2>3. Kept(v, q) \in Outcome(v)
    BY <1>1, <2>2, KeptOutcome
  <2> QED BY <2>1, <2>3, PrSyncOutcome
<1>8. ASSUME NEW r \in applied, PrAllowed(v.job)
      PROVE  sync(Opened(v, r, "session", r.disk.now)) \in Outcome(v)
  <2>1. r \in Results /\ r.job.exec = "passed" /\ ExecPrereq(r.job) /\ r.disk.now \in Contents
    BY <1>5, <1>8 DEF Results, Disks
  <2>2. Opened(v, r, "session", r.disk.now) \in Outcome(v)
    BY <1>2, <1>8, <2>1, OpenedOutcome
  <2> QED BY <2>2, PrSyncOutcome
<1>9. applied = {[r EXCEPT !.disk = Patched(v, @)] : r \in ready}
  <2>1. \A r \in ready : r \in Results
    BY <1>1, <1>3, RefreshedType
  <2> HIDE DEF ready
  <2> QED BY <2>1 DEF Results
<1> HIDE DEF ready, unready, sync
<1>10. ASSUME NEW w \in CreatePrSession(v)
       PROVE  /\ PrAllowed(v.job)
              /\ \/ \E r \in unready \cup ready \cup applied : w = sync(Kept(v, PrFailed(r)))
                 \/ \E r \in applied : w = sync(Opened(v, r, "session", r.disk.now))
  BY <1>9 DEF CreatePrSession, When, ready, unready, sync
<1> HIDE DEF applied
<1> QED BY <1>4, <1>5, <1>6, <1>7, <1>8, <1>10

(* POST create-pr of the job: every way it stops, and the pull request. *)
LEMMA CreatePrJobOutcome ==
    ASSUME NEW v \in SoundViews
    PROVE  CreatePrJob(v) \subseteq Outcome(v)
<1> DEFINE ready == Refreshed(v.job, v.disk)
           stop(k, s) == Res(Status(k, s), v.disk, "ok")
<1>1. v \in Views /\ v.job \in Jobs /\ v.disk \in Disks /\ GateInv(v.job)
  BY DEF SoundViews, Views
<1>2. v.job.status = "approved_for_pr" => Releasable(v.job) /\ ExecPrereq(v.job)
  BY <1>1 DEF Releasable, GateInv, Closed
<1>3. ASSUME NEW r \in ready, v.job.status = "approved_for_pr"
      PROVE  /\ r \in Results /\ r.disk = v.disk /\ r.job.exec = "passed" /\ ExecPrereq(r.job)
             /\ [r EXCEPT !.job.status = "failed"] = Res(Status(r.job, "failed"), v.disk, r.end)
  <2>1. r \in Results /\ r.disk = v.disk /\ r.job.exec = "passed" /\ ExecPrereq(r.job)
    BY <1>1, <1>2, <1>3, RefreshedType
  <2> QED BY <2>1 DEF Results, Res, Status
<1>4. ASSUME NEW k \in Jobs, ExecPrereq(k), v.job.status = "approved_for_pr", NEW e \in Ends,
             NEW s \in {"awaiting_human_input", "failed"}
      PROVE  Kept(v, Res(Status(k, s), v.disk, e)) \in Outcome(v)
  BY <1>1, <1>2, <1>4, RetreatSound, KeptOutcome
<1>5. ASSUME NEW r \in ready, v.job.status = "approved_for_pr"
      PROVE  /\ Kept(v, [r EXCEPT !.job.status = "failed"]) \in Outcome(v)
             /\ Opened(v, r, "job", r.disk.now) \in Outcome(v)
  <2>1. r \in Results /\ r.job \in Jobs /\ r.end \in Ends /\ r.disk.now \in Contents
    BY <1>3, <1>5 DEF Results, Disks
  <2> QED BY <1>2, <1>3, <1>4, <1>5, <2>1, OpenedOutcome
<1>6. Untouched(v, "ok") = Res(v.job, v.disk, "ok")
  BY DEF Untouched
<1>7. [Untouched(v, "ok") EXCEPT !.job.status = "failed"] = stop(v.job, "failed")
  BY DEF Untouched, Res, Status
<1> HIDE DEF ready
<1>8. ASSUME NEW w \in CreatePrJob(v)
      PROVE  /\ v.job.status = "approved_for_pr"
             /\ \/ w = Kept(v, stop(v.job, "awaiting_human_input"))
                \/ \E s \in {"awaiting_human_input", "failed"} :
                       w = Kept(v, stop(RefreshFails(v.job, v.disk), s))
                \/ w = Kept(v, stop(v.job, "failed"))
                \/ \E r \in ready : \/ w = Kept(v, [r EXCEPT !.job.status = "failed"])
                                    \/ w = Opened(v, r, "job", r.disk.now)
  BY <1>7 DEF CreatePrJob, When, ready
<1>9. RefreshFails(v.job, v.disk) \in Jobs
      /\ ExecPrereq(RefreshFails(v.job, v.disk)) = ExecPrereq(v.job)
  BY <1>1, RefreshFailsType
<1>10. ASSUME v.job.status = "approved_for_pr", NEW s \in {"awaiting_human_input", "failed"}
       PROVE  /\ Kept(v, stop(v.job, s)) \in Outcome(v)
              /\ Kept(v, stop(RefreshFails(v.job, v.disk), s)) \in Outcome(v)
  <2>1. ExecPrereq(v.job) /\ "ok" \in Ends
    BY <1>2, <1>10, OpenStatuses
  <2> QED BY <1>1, <1>4, <1>9, <1>10, <2>1
<1> HIDE DEF stop
<1> QED BY <1>5, <1>8, <1>10

===============================================================================
