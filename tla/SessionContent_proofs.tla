------------------------- MODULE SessionContent_proofs -------------------------
(***************************************************************************)
(* What is in the workspace, behind the session's status and in its pull   *)
(* request, for every bound of AutomationSession: PrCarriesRecorded,       *)
(* RepairSpent and UntestedOnlyByFailure for any calls of both APIs and    *)
(* either engine, SessionStatusSynced for the calls of the session API.    *)
(*                                                                         *)
(* Every property needs the same two facts of a step.  Leads: what a job   *)
(* service does to the workspace and to the run the job stands on; bytes   *)
(* stay or are new.  Served and Serves: which results of job services a    *)
(* session endpoint works with, and what it writes to its own rows for     *)
(* one.  A property then needs a lemma per job service and one for Served, *)
(* not one per endpoint.                                                   *)
(***************************************************************************)
EXTENDS AutomationSession_proofs

-----------------------------------------------------------------------------
(* What a job service does to the workspace and to the run it stands on. *)

(* The bytes of a workspace stay, or are new: never those of an older run. *)
DiskStep(d, e) ==
    /\ d.made <= e.made /\ e.made <= MaxContents
    /\ e.now = d.now \/ (d.made < e.now /\ e.now <= e.made)

(* A job that is not over: its last passing run may still be approved. *)
Live(j) == j.status \notin {"failed", "awaiting_human_input"} \cup Closed

SameRun(j, k) == k.ranOn = j.ranOn /\ k.exec = j.exec /\ (Live(k) => Live(j))

Leads(j, d, r) ==
    /\ DiskStep(d, r.disk)
    /\ r.job.approvedOn = j.approvedOn
    /\ r.job.status \notin Closed \/ r.job = j
    /\ r.job.ranOn = r.disk.now \/ SameRun(j, r.job)

(* A write by the system. *)
LEMMA WriteStep ==
    ASSUME NEW d \in Disks, NEW e \in Write(d)
    PROVE  e \in Disks /\ DiskStep(d, e) /\ e.human = d.human
<1>1. e \in Disks
  BY WriteType
<1>2. d.made \in Nat /\ d.made <= MaxContents /\ MaxContents \in Nat
  BY BoundsAssumption DEF Disks, Contents
<1>3. CASE e = d
  BY <1>1, <1>2, <1>3 DEF DiskStep
<1>4. CASE d.made < MaxContents /\ e = [d EXCEPT !.now = d.made + 1, !.made = d.made + 1]
  <2>1. e.now = d.made + 1 /\ e.made = d.made + 1 /\ e.human = d.human
    BY <1>4 DEF Disks
  <2> QED BY <1>1, <1>2, <1>4, <2>1 DEF DiskStep
<1> QED BY <1>3, <1>4 DEF Write, When

(* A workspace that is left alone. *)
LEMMA SameDisk == ASSUME NEW d \in Disks PROVE DiskStep(d, d)
BY BoundsAssumption DEF DiskStep, Disks, Contents

(* One write after another. *)
LEMMA DiskTrans ==
    ASSUME NEW d \in Disks, NEW e \in Disks, NEW f \in Disks, DiskStep(d, e), DiskStep(e, f)
    PROVE  DiskStep(d, f)
<1>1. /\ d.made \in Nat /\ e.made \in Nat /\ f.made \in Nat
      /\ d.now \in Nat /\ e.now \in Nat /\ f.now \in Nat
  BY DEF Disks, Contents
<1> QED BY <1>1, BoundsAssumption DEF DiskStep

(* A job that moves on without a run. *)
LEMMA StatusLeads ==
    ASSUME NEW j \in Jobs, NEW s, s \notin Closed, NEW d, NEW e, DiskStep(d, e), NEW end,
           s \in {"failed", "awaiting_human_input"} \/ Live(j)
    PROVE  Leads(j, d, Res(Status(j, s), e, end))
BY DEF Status, Jobs, Res, Leads, SameRun, Live

(* A run. *)
LEMMA RanLeads ==
    ASSUME NEW j \in Jobs, NEW d, NEW e \in Disks, DiskStep(d, e), NEW verdict,
           NEW s, s \notin Closed
    PROVE  Leads(j, d, Ran(j, e, verdict, s))
BY DEF Ran, Res, Jobs, Leads

(* A service that goes on from the result of one that ran no tests. *)
LEMMA LeadsOn ==
    ASSUME NEW j \in Jobs, NEW d \in Disks, NEW r \in Results, NEW q \in Results,
           Leads(j, d, r), SameRun(j, r.job), r.job.status \notin Closed,
           Leads(r.job, r.disk, q)
    PROVE  Leads(j, d, q)
<1>1. DiskStep(d, q.disk)
  BY DiskTrans DEF Leads, Results
<1> QED BY <1>1 DEF Leads, SameRun

(* Changes of a job that no run depends on. *)
LEMMA LeadsFrom ==
    ASSUME NEW j, NEW k, k.ranOn = j.ranOn, k.exec = j.exec, k.approvedOn = j.approvedOn,
           Live(j), NEW d, NEW r, Leads(k, d, r), r.job.status \notin Closed
    PROVE  Leads(j, d, r)
BY DEF Leads, SameRun

(* The end of a review or of an edit. *)
LEMMA FinalizeLeads ==
    ASSUME NEW j \in Jobs, NEW d, NEW e \in Disks, DiskStep(d, e), NEW r \in Finalize(j, e)
    PROVE  Leads(j, d, r)
BY RanLeads, OpenStatuses DEF Finalize, Closed

(* The scan of the framework. *)
LEMMA StartJobLeads ==
    ASSUME NEW j \in Jobs, NEW d \in Disks, NEW r \in StartJob(j, d)
    PROVE  Leads(j, d, r) /\ SameRun(j, r.job) /\ r.job.status \notin Closed
<1> DEFINE k == [j EXCEPT !.status = "planning_changes", !.ctx = TRUE]
<1>1. DiskStep(d, d) /\ j.status = "pending" /\ Live(j)
  BY SameDisk DEF StartJob, When, Live, Closed
<1>2. Leads(j, d, Res(k, d, "ok")) /\ SameRun(j, k) /\ k.status \notin Closed
  BY <1>1 DEF Leads, SameRun, Live, Jobs, Closed, Res
<1>3. /\ Leads(j, d, Res(Status(j, "failed"), d, "ok"))
      /\ SameRun(j, Status(j, "failed")) /\ Status(j, "failed").status \notin Closed
  BY <1>1, StatusLeads DEF Closed, SameRun, Live, Status, Jobs
<1>4. \/ r = Res(k, d, "ok") /\ r.job = k
      \/ r = Res(Status(j, "failed"), d, "ok") /\ r.job = Status(j, "failed")
  BY DEF StartJob, When, Res
<1> HIDE DEF k
<1> QED BY <1>2, <1>3, <1>4

(* The plan. *)
LEMMA PlanJobLeads ==
    ASSUME NEW j \in Jobs, NEW d \in Disks, NEW r \in PlanJob(j, d)
    PROVE  Leads(j, d, r) /\ SameRun(j, r.job) /\ r.job.status \notin Closed
<1>1. DiskStep(d, d) /\ j.status = "planning_changes" /\ Live(j)
  BY SameDisk DEF PlanJob, When, Live, Closed
<1>2. ASSUME NEW p, r = Res([j EXCEPT !.status = "generating_code", !.plan = p], d, "ok")
      PROVE  Leads(j, d, r) /\ SameRun(j, r.job) /\ r.job.status \notin Closed
  BY <1>1, <1>2 DEF Leads, SameRun, Live, Jobs, Closed, Res
<1>3. CASE r = Res(Status(j, "failed"), d, "rejected")
  <2>1. Leads(j, d, r)
    BY <1>1, <1>3, StatusLeads DEF Closed
  <2> QED BY <1>3, <2>1 DEF Closed, SameRun, Live, Status, Jobs, Res
<1> QED BY <1>2, <1>3 DEF PlanJob, When

(* The patch. *)
LEMMA GenerateOnLeads ==
    ASSUME NEW j \in Jobs, NEW d \in Disks, NEW before \in Disks, NEW after \in Disks,
           DiskStep(d, before), DiskStep(d, after), NEW r \in GenerateOn(j, before, after)
    PROVE  Leads(j, d, r) /\ SameRun(j, r.job) /\ r.job.status \notin Closed
<1> DEFINE k == [j EXCEPT !.status = "executing", !.patch = TRUE]
<1>1. j.status = "generating_code" /\ Live(j)
  BY DEF GenerateOn, When, Live, Closed
<1>2. Leads(j, d, Res(k, after, "ok")) /\ SameRun(j, k) /\ k.status \notin Closed
  BY <1>1 DEF Leads, SameRun, Live, Jobs, Closed, Res
<1>3. ASSUME NEW x \in {before, after}, NEW e
      PROVE  /\ Leads(j, d, Res(Status(j, "failed"), x, e))
             /\ SameRun(j, Status(j, "failed")) /\ Status(j, "failed").status \notin Closed
  BY <1>1, StatusLeads DEF Closed, SameRun, Live, Status, Jobs
<1>4. \/ r = Res(k, after, "ok") /\ r.job = k
      \/ \E x \in {before, after} :
             r = Res(Status(j, "failed"), x, "rejected") /\ r.job = Status(j, "failed")
  BY DEF GenerateOn, InvalidPatch, When, Res
<1> HIDE DEF k
<1> QED BY <1>2, <1>3, <1>4

(* Generation by the in-process provider. *)
LEMMA GenerateJobLeads ==
    ASSUME NEW j \in Jobs, NEW d \in Disks, NEW r \in GenerateJob(j, d)
    PROVE  Leads(j, d, r) /\ SameRun(j, r.job) /\ r.job.status \notin Closed
BY WriteStep, SameDisk, GenerateOnLeads DEF GenerateJob

(* The test run after a generation. *)
LEMMA ExecuteJobLeads ==
    ASSUME NEW j \in Jobs, NEW d \in Disks, NEW r \in ExecuteJob(j, d)
    PROVE  Leads(j, d, r)
BY SameDisk, RanLeads DEF ExecuteJob, When, Closed

(* The one repair. *)
LEMMA RepairJobLeads ==
    ASSUME NEW j \in Jobs, NEW d \in Disks, NEW r \in RepairJob(j, d)
    PROVE  Leads(j, d, r)
<1> DEFINE k == [j EXCEPT !.repaired = TRUE]
<1>1. k \in Jobs /\ k.ranOn = j.ranOn /\ k.exec = j.exec /\ k.approvedOn = j.approvedOn
  BY DEF Jobs
<1>2. ASSUME NEW q, Leads(k, d, q), q.job.status \notin Closed,
             q.job.ranOn = q.disk.now \/ ~Live(q.job)
      PROVE  Leads(j, d, q)
  BY <1>1, <1>2 DEF Leads, SameRun
<1> HIDE DEF k
<1>3. ASSUME NEW x \in Disks, DiskStep(d, x), NEW s \in {"failed", "awaiting_human_input"}
      PROVE  Leads(j, d, Res(Status(k, s), x, "ok"))
  <2>1. Leads(k, d, Res(Status(k, s), x, "ok"))
    BY <1>1, <1>3, StatusLeads DEF Closed
  <2>2. Res(Status(k, s), x, "ok").job.status = s
    BY <1>1 DEF Res, Status, Jobs
  <2> QED BY <1>2, <2>1, <2>2 DEF Live, Closed
<1>4. ASSUME NEW x \in Disks, DiskStep(d, x), NEW verdict,
             NEW s \in {"failed", "awaiting_automation_review"}
      PROVE  Leads(j, d, Ran(k, x, verdict, s))
  <2>1. Leads(k, d, Ran(k, x, verdict, s))
    BY <1>1, <1>4, RanLeads DEF Closed
  <2>2. /\ Ran(k, x, verdict, s).job.ranOn = Ran(k, x, verdict, s).disk.now
        /\ Ran(k, x, verdict, s).job.status = s
    BY <1>1 DEF Ran, Res, Jobs
  <2> QED BY <1>2, <2>1, <2>2 DEF Closed
<1>5. \E x \in Disks :
          /\ DiskStep(d, x)
          /\ \/ \E s \in {"failed", "awaiting_human_input"} : r = Res(Status(k, s), x, "ok")
             \/ \E verdict \in {"passed", "failed"} :
                    \E s \in {"failed", "awaiting_automation_review"} : r = Ran(k, x, verdict, s)
  BY WriteStep, SameDisk DEF RepairJob, RepairApplied, InvalidRepair, When, k
<1> QED BY <1>3, <1>4, <1>5

(* A revision from revising_after_review. *)
LEMMA ReviseOnLeads ==
    ASSUME NEW j \in Jobs, Live(j), NEW d \in Disks, NEW before \in Disks,
           NEW after \in Disks, DiskStep(d, before), DiskStep(d, after),
           NEW r \in ReviseOn(j, before, after)
    PROVE  Leads(j, d, r) /\ r.job.status \notin Closed
<1> DEFINE k == [j EXCEPT !.patch = TRUE]
<1>1. k \in Jobs /\ k.ranOn = j.ranOn /\ k.exec = j.exec /\ k.approvedOn = j.approvedOn
  BY DEF Jobs
<1>2. ASSUME NEW x \in {before, after}, r = Res(Status(j, "failed"), x, "ok")
      PROVE  Leads(j, d, r) /\ r.job.status \notin Closed
  <2>1. Leads(j, d, r)
    BY <1>2, StatusLeads DEF Closed
  <2> QED BY <1>2, <2>1 DEF Status, Jobs, Res, Closed
<1>3. CASE r \in Finalize(k, after)
  <2> HIDE DEF k
  <2>1. Leads(k, d, r)
    BY <1>1, <1>3, FinalizeLeads
  <2>2. r.job.status \notin Closed
    BY <1>1, <1>3, RanRow DEF Finalize, Closed
  <2> QED BY <1>1, <2>1, <2>2, LeadsFrom
<1> QED BY <1>2, <1>3 DEF ReviseOn, InvalidRepair

(* A review revision through either engine. *)
LEMMA RevisionLeads ==
    ASSUME NEW j \in Jobs, NEW d \in Disks, NEW r \in Revision(j, d) \cup ReviseJob(j, d)
    PROVE  Leads(j, d, r) /\ r.job.status \notin Closed
<1> DEFINE k == Status(j, "revising_after_review")
<1>1. /\ k \in Jobs /\ k.ranOn = j.ranOn /\ k.exec = j.exec /\ k.approvedOn = j.approvedOn
      /\ k.status = "revising_after_review" /\ Live(k)
  BY OpenStatuses, StatusDraft DEF Status, Jobs, Live, Closed
<1>2. Live(j)
  BY DEF Revision, ReviseJob, When, CanRevise, Live, Closed
<1> HIDE DEF k
<1>3. \E x \in Write(d) :
          r = Res(k, x, "engine") \/ r \in ReviseOn(k, d, x) \/ r \in ReviseOn(k, x, x)
  BY DEF Revision, ReviseJob, CliRevise, EngineStops, ReadBackScoped, When, k
<1>4. PICK x \in Write(d) :
          r = Res(k, x, "engine") \/ r \in ReviseOn(k, d, x) \/ r \in ReviseOn(k, x, x)
  BY <1>3
<1>5. x \in Disks /\ DiskStep(d, x) /\ DiskStep(d, d)
  BY WriteStep, SameDisk
<1>6. CASE r = Res(k, x, "engine")
  BY <1>1, <1>2, <1>5, <1>6 DEF Leads, SameRun, Res, Closed
<1>7. CASE r \in ReviseOn(k, d, x) \/ r \in ReviseOn(k, x, x)
  <2>1. Leads(k, d, r) /\ r.job.status \notin Closed
    BY <1>1, <1>5, <1>7, ReviseOnLeads
  <2> QED BY <1>1, <1>2, <2>1, LeadsFrom
<1> QED BY <1>4, <1>6, <1>7

(* Generation by either engine, and the run. *)
LEMMA AfterPlanLeads ==
    ASSUME NEW j \in Jobs, GateInv(j), Live(j), NEW d \in Disks, NEW r \in AfterPlan(j, d)
    PROVE  Leads(j, d, r)
<1> DEFINE generated == IF Engine = "stub" THEN GenerateJob(j, d) ELSE CliGenerate(j, d)
<1>1. j.status \notin Closed
  BY DEF Live
<1>2. generated \subseteq Results
  BY <1>1, GenerateJobDraft, CliGenerateDraft, DraftResult DEF DraftFrom
<1>3. ASSUME NEW q \in generated
      PROVE  Leads(j, d, q) /\ SameRun(j, q.job) /\ q.job.status \notin Closed
  <2>1. CASE q \in GenerateJob(j, d)
    BY <2>1, GenerateJobLeads
  <2>2. CASE q \in EngineStops(j, d)
    <3>1. PICK x \in Write(d) : q = Res(j, x, "engine")
      BY <2>2 DEF EngineStops
    <3>2. DiskStep(d, x)
      BY <3>1, WriteStep
    <3> QED BY <1>1, <3>1, <3>2 DEF Leads, SameRun, Res
  <2>3. ASSUME NEW x \in Write(d), q \in GenerateOn(j, x, x)
        PROVE  Leads(j, d, q) /\ SameRun(j, q.job) /\ q.job.status \notin Closed
    BY <2>3, WriteStep, GenerateOnLeads
  <2> QED BY <1>3, <2>1, <2>2, <2>3 DEF CliGenerate, ReadBack
<1> HIDE DEF generated
<1>4. AfterPlan(j, d) = Raised(generated)
          \cup UNION {ExecuteJob(q.job, q.disk) : q \in Succeeded(generated)}
  BY DEF AfterPlan, generated
<1>5. CASE r \in Raised(generated)
  BY <1>3, <1>5 DEF Raised
<1>6. CASE \E q \in generated : r \in ExecuteJob(q.job, q.disk)
  <2>1. PICK q \in generated : r \in ExecuteJob(q.job, q.disk)
    BY <1>6
  <2>2. q.job \in Jobs /\ q.disk \in Disks /\ q \in Results
    BY <1>2, <2>1 DEF Results
  <2>3. Leads(q.job, q.disk, r) /\ r \in Results
    BY <2>1, <2>2, ExecuteJobLeads, ExecuteJobDraft, DraftResult DEF DraftFrom
  <2> QED BY <1>3, <2>1, <2>2, <2>3, LeadsOn
<1> QED BY <1>4, <1>5, <1>6 DEF Succeeded

(* The plan of a fresh job. *)
LEMMA PlanOnlyLeads ==
    ASSUME NEW j \in Jobs, NEW d \in Disks, NEW r \in PlanOnly(j, d)
    PROVE  Leads(j, d, r) /\ SameRun(j, r.job) /\ r.job.status \notin Closed
<1>1. PICK q \in StartJob(j, d) : r \in PlanJob(q.job, q.disk)
  BY DEF PlanOnly
<1>2. q \in Results /\ q.job \in Jobs /\ q.disk \in Disks
  BY <1>1, StartJobDraft, DraftResult DEF Results
<1>3. Leads(j, d, q) /\ SameRun(j, q.job) /\ q.job.status \notin Closed
  BY <1>1, StartJobLeads
<1>4. Leads(q.job, q.disk, r) /\ SameRun(q.job, r.job) /\ r.job.status \notin Closed
  BY <1>1, <1>2, PlanJobLeads
<1>5. r \in Results
  BY <1>1, <1>2, PlanJobDraft, DraftResult DEF DraftFrom
<1>6. Leads(j, d, r)
  BY <1>2, <1>3, <1>4, <1>5, LeadsOn
<1> QED BY <1>3, <1>4, <1>6 DEF SameRun

(* Planning that succeeds goes on to the generation. *)
LEMMA PlannedStatus ==
    ASSUME NEW j \in Jobs, NEW d \in Disks, NEW q \in Succeeded(PlanOnly(j, d))
    PROVE  q.job.status = "generating_code"
<1>1. PICK p \in StartJob(j, d) : q \in PlanJob(p.job, p.disk)
  BY DEF Succeeded, PlanOnly
<1>2. p.job \in Jobs
  BY <1>1, StartJobDraft DEF Draft, Sound, Results
<1>3. q.end = "ok"
  BY DEF Succeeded
<1>4. q # Res(Status(p.job, "failed"), p.disk, "rejected")
  BY <1>3 DEF Res
<1>5. q \in {Res([p.job EXCEPT !.status = "generating_code", !.plan = n], p.disk, "ok") :
               n \in {p.job.plan + 1} \cap Plans}
  BY <1>1, <1>4 DEF PlanJob, When
<1>6. PICK n \in Plans :
          q = Res([p.job EXCEPT !.status = "generating_code", !.plan = n], p.disk, "ok")
  BY <1>5
<1> QED BY <1>2, <1>6 DEF Res, Jobs

(* The one-shot start. *)
LEMMA InitialLeads ==
    ASSUME NEW j \in Jobs, NEW d \in Disks, NEW r \in Initial(j, d)
    PROVE  Leads(j, d, r)
<1>1. CASE r \in PlanOnly(j, d)
  BY <1>1, PlanOnlyLeads
<1>2. CASE \E q \in Succeeded(PlanOnly(j, d)) : r \in AfterPlan(q.job, q.disk)
  <2>1. PICK q \in Succeeded(PlanOnly(j, d)) : r \in AfterPlan(q.job, q.disk)
    BY <1>2
  <2>2. /\ q \in Draft /\ q \in Results /\ q.job \in Jobs /\ q.disk \in Disks
        /\ GateInv(q.job) /\ q.job.status \notin Closed
    BY <2>1, PlanOnlyDraft DEF Succeeded, DraftFrom, Draft, Sound, Results
  <2>3. Leads(j, d, q) /\ SameRun(j, q.job)
    BY <2>1, PlanOnlyLeads DEF Succeeded
  <2>4. q.job.status = "generating_code"
    BY <2>1, PlannedStatus
  <2>5. Live(q.job)
    BY <2>4 DEF Live, Closed
  <2>6. Leads(q.job, q.disk, r) /\ r \in Results
    BY <2>1, <2>2, <2>5, AfterPlanLeads, AfterPlanDraft, DraftResult
  <2> QED BY <2>2, <2>3, <2>6, LeadsOn
<1> QED BY <1>1, <1>2 DEF Initial, Raised

-----------------------------------------------------------------------------
(* What a session endpoint makes of a result. *)

(* A round that was not worked has no patch version. *)
Blank(v) ==
    \A n \in 1..MaxRounds :
        v.rounds[n].status \in {"absent", "in_progress"} => v.rounds[n].patch = 0

SamePatches(v, w) ==
    /\ w.sess.currentPatch = v.sess.currentPatch
    /\ \A n \in 1..MaxRounds : w.rounds[n].patch = v.rounds[n].patch

(* The round n records what is on disk, of a job that ran on it or is over. *)
NewPatch(v, w, n) ==
    /\ v.rounds[n].patch = 0 /\ w.rounds[n].patch = w.disk.now
    /\ w.sess.currentPatch = n
    /\ \A m \in 1..MaxRounds : m # n => w.rounds[m].patch = v.rounds[m].patch
    /\ w.job.status \notin Closed
    /\ Live(w.job) => w.job.ranOn = w.disk.now

Patches(v, w) == SamePatches(v, w) \/ \E n \in 1..MaxRounds : NewPatch(v, w, n)

Serves(v, w, r) ==
    /\ w.job = r.job /\ w.disk = r.disk /\ w.pr = v.pr
    /\ Patches(v, w) /\ Blank(w)

InStep(w) == w.sess.status = SessionStatusOf(w.job.status)

(* A result kept, and synced. *)
LEMMA SyncedServes ==
    ASSUME NEW v \in Views, Blank(v), NEW r \in Results
    PROVE  LET s == Synced(v, r)
           IN  /\ s \in Views /\ s.job = r.job /\ s.disk = r.disk /\ s.pr = v.pr
               /\ s.rounds = v.rounds /\ s.sess.currentPatch = v.sess.currentPatch
               /\ s.sess.round = v.sess.round
               /\ InStep(s) /\ SamePatches(v, s) /\ Blank(s) /\ Serves(v, s, r)
<1> DEFINE k == Kept(v, r)
<1>1. /\ k \in Views /\ k.job = r.job /\ k.disk = r.disk /\ k.sess = v.sess
      /\ k.rounds = v.rounds /\ k.pr = v.pr
  BY KeptView
<1> DEFINE s == Synced(v, r)
<1>2. s = [k EXCEPT !.sess.status = SessionStatusOf(r.job.status)]
  BY DEF Synced
<1> HIDE DEF k
<1>3. /\ s \in Views /\ s.job = r.job /\ s.disk = r.disk
  BY SyncedView
<1>4. /\ s.pr = v.pr /\ s.rounds = v.rounds
      /\ s.sess.currentPatch = v.sess.currentPatch /\ s.sess.round = v.sess.round
      /\ s.sess.status = SessionStatusOf(r.job.status)
  BY <1>1, <1>2 DEF Views, Sessions
<1> HIDE DEF s
<1>5. InStep(s) /\ SamePatches(v, s) /\ Blank(s)
  BY <1>3, <1>4 DEF InStep, SamePatches, Blank
<1> QED BY <1>3, <1>4, <1>5 DEF Serves, Patches, s

(* Closing a round as failed leaves the patch versions alone. *)
LEMMA FailRoundServes ==
    ASSUME NEW v, NEW r, NEW s \in Views, s.job = r.job, s.disk = r.disk, s.pr = v.pr,
           SamePatches(v, s), Blank(s), InStep(s), NEW n \in 1..MaxRounds, NEW t, NEW q
    PROVE  LET w == FailRound(s, n, t, q)
           IN  Serves(v, w, r) /\ InStep(w) /\ w.sess = s.sess
<1> DEFINE e == [s.rounds[n] EXCEPT !.trigger = t, !.status = "failed", !.request = q]
           w == FailRound(s, n, t, q)
<1>1. e.patch = s.rounds[n].patch /\ e.status = "failed"
  BY DEF Views, Rounds
<1>2. w = [s EXCEPT !.rounds[n] = e]
  BY DEF FailRound, Views
<1> HIDE DEF e
<1>3. /\ w.job = s.job /\ w.disk = s.disk /\ w.pr = s.pr /\ w.sess = s.sess
      /\ \A m \in 1..MaxRounds : w.rounds[m] = IF m = n THEN e ELSE s.rounds[m]
  BY <1>2 DEF Views
<1> HIDE DEF w
<1>4. SamePatches(v, w) /\ Blank(w)
  BY <1>1, <1>3 DEF SamePatches, Blank
<1>5. InStep(w)
  BY <1>3 DEF InStep
<1> QED BY <1>3, <1>4, <1>5 DEF Serves, Patches, w

(* The initial engine errors of a first round. *)
LEMMA InitialFailsServes ==
    ASSUME NEW v \in Views, Blank(v), NEW r \in Results
    PROVE  Serves(v, InitialFails(v, r), r) /\ InStep(InitialFails(v, r))
<1> DEFINE s == Synced(v, r)
           f == FailRound(s, 1, "initial", "none")
           w == InitialFails(v, r)
<1>1. /\ s \in Views /\ s.job = r.job /\ s.disk = r.disk /\ s.pr = v.pr
      /\ InStep(s) /\ SamePatches(v, s) /\ Blank(s)
  BY SyncedServes
<1>2. w = [f EXCEPT !.sess.round = IF @ = 0 THEN 1 ELSE @]
  BY DEF InitialFails
<1>3. f.sess = s.sess /\ Serves(v, f, r) /\ InStep(f)
  <2> HIDE DEF s
  <2> QED BY <1>1, FirstSlot, FailRoundServes
<1>4. f = [s EXCEPT !.rounds = f.rounds]
  <2> HIDE DEF s
  <2> QED BY <1>1 DEF FailRound, Views
<1> HIDE DEF s, f
<1>5. /\ w.job = f.job /\ w.disk = f.disk /\ w.pr = f.pr /\ w.rounds = f.rounds
      /\ w.sess.currentPatch = f.sess.currentPatch /\ w.sess.status = f.sess.status
  BY <1>1, <1>2, <1>3, <1>4 DEF Views, Sessions
<1> HIDE DEF w
<1>6. Serves(v, w, r) /\ InStep(w)
  BY <1>3, <1>5 DEF Serves, Patches, SamePatches, NewPatch, Blank, InStep
<1> QED BY <1>6 DEF w

(* Recording a round without a patch version, or with the one on disk. *)
LEMMA RecordServes ==
    ASSUME NEW v, NEW r, NEW s \in Views, s.job = r.job, s.disk = r.disk, s.pr = v.pr,
           SamePatches(v, s), Blank(s), InStep(s), NEW n \in 1..MaxRounds, NEW t,
           NEW status \in {"completed", "failed"}, NEW q, NEW p \in BOOLEAN,
           v.rounds[n].patch = 0,
           p => s.job.status \notin Closed /\ (Live(s.job) => s.job.ranOn = s.disk.now)
    PROVE  LET w == Record(s, n, t, status, q, p) IN Serves(v, w, r) /\ InStep(w)
<1> DEFINE patched == p /\ s.job.patch
           e == [trigger |-> t, status |-> status, request |-> q,
                 patch |-> IF patched THEN s.disk.now ELSE 0,
                 attempt |-> s.job.exec, ranOn |-> s.job.ranOn]
           w == Record(s, n, t, status, q, p)
<1>1. e.patch = (IF patched THEN s.disk.now ELSE 0) /\ e.status = status
  OBVIOUS
<1>2. /\ w.job = s.job /\ w.disk = s.disk /\ w.pr = s.pr
      /\ w.rounds = [s.rounds EXCEPT ![n] = e]
      /\ w.sess.currentPatch = (IF patched THEN n ELSE s.sess.currentPatch)
      /\ w.sess.status = s.sess.status
  BY DEF Record, Views, Sessions
<1> HIDE DEF e, w
<1>3. \A m \in 1..MaxRounds : w.rounds[m] = IF m = n THEN e ELSE s.rounds[m]
  BY <1>2 DEF Views
<1>4. Blank(w)
  BY <1>1, <1>3 DEF Blank
<1>5. InStep(w)
  BY <1>2 DEF InStep
<1>6. CASE patched
  <2>1. NewPatch(v, w, n)
    BY <1>1, <1>2, <1>3, <1>6 DEF NewPatch, SamePatches
  <2> QED BY <1>2, <1>4, <1>5, <2>1 DEF Serves, Patches, w
<1>7. CASE ~patched
  <2>1. SamePatches(v, w)
    BY <1>1, <1>2, <1>3, <1>7 DEF SamePatches
  <2> QED BY <1>2, <1>4, <1>5, <2>1 DEF Serves, Patches, w
<1> QED BY <1>6, <1>7

-----------------------------------------------------------------------------
(* One lemma per session endpoint. *)

Planned(v) ==
    PlanOnly(v.job, v.disk)
    \cup When(AtPlanGate(v), PlanJob(Status(v.job, "planning_changes"), v.disk))

Worked(v) ==
    When(AtPlanGate(v), AfterPlan(Status(v.job, "generating_code"), v.disk))
    \cup Initial(v.job, v.disk) \cup Revision(v.job, v.disk) \cup AckJob(v.job, v.disk)

Promoted(r) == [r EXCEPT !.job = Reconciled(r.job)]

(* The results session endpoints work with, other than those of approve and
   create-pr. *)
Served(v) ==
    {Untouched(v, e) : e \in Ends}
    \cup When(CanBegin(v), {Res(Status(v.job, "failed"), v.disk, "rejected")})
    \cup Planned(v) \cup {AwaitPlan(r) : r \in Succeeded(Planned(v))}
    \cup Worked(v) \cup {Promoted(r) : r \in Succeeded(Worked(v))}

(* Every one is a result. *)
LEMMA ServedResults ==
    ASSUME NEW v \in SoundViews
    PROVE  /\ Served(v) \subseteq Results
           /\ Planned(v) \subseteq Results /\ Worked(v) \subseteq Draft
<1>1. v \in Views /\ v.job \in Jobs /\ v.disk \in Disks
  BY DEF SoundViews, Views
<1>2. ASSUME NEW s \in {"planning_changes", "generating_code", "failed"}
      PROVE  /\ Status(v.job, s) \in Jobs /\ GateInv(Status(v.job, s))
             /\ Status(v.job, s).status \notin Closed
  <2>1. s \in JobStatus \ (Gated \cup Closed)
    BY <1>2, OpenStatuses
  <2> QED BY <1>1, <2>1, StatusDraft
<1>3. Planned(v) \subseteq Results
  <2>1. PlanOnly(v.job, v.disk) \subseteq Results
    BY <1>1, PlanOnlyDraft, DraftResult DEF DraftFrom
  <2>2. PlanJob(Status(v.job, "planning_changes"), v.disk) \subseteq Results
    BY <1>1, <1>2, PlanJobDraft, DraftResult DEF DraftFrom
  <2> QED BY <2>1, <2>2 DEF Planned, When
<1>4. Worked(v) \subseteq Draft
  <2>1. AfterPlan(Status(v.job, "generating_code"), v.disk) \subseteq Draft
    BY <1>1, <1>2, AfterPlanDraft
  <2>2. Initial(v.job, v.disk) \cup Revision(v.job, v.disk) \cup AckJob(v.job, v.disk)
            \subseteq Draft
    BY <1>1, InitialDraft, RevisionDraft, AckJobDraft DEF DraftFrom
  <2> QED BY <2>1, <2>2 DEF Worked, When
<1>5. \A e \in Ends : Untouched(v, e) \in Results
  BY <1>1, UntouchedResult
<1>6. Res(Status(v.job, "failed"), v.disk, "rejected") \in Results
  BY <1>1, <1>2, OpenStatuses DEF Res, Results
<1>7. \A r \in Succeeded(Planned(v)) : AwaitPlan(r) \in Results
  BY <1>3, AwaitPlanResult DEF Succeeded
<1>8. \A r \in Succeeded(Worked(v)) : Promoted(r) \in Results
  BY <1>4, DraftResult, ReconciledType DEF Succeeded, Promoted, Results
<1> QED BY <1>3, <1>4, <1>5, <1>6, <1>7, <1>8, DraftResult DEF Served, When

(* What a session endpoint leaves: one of those results, its session status
   in step but for a plan revision whose plan was refused. *)
ServedBy(v, w) ==
    \E r \in Served(v) :
        /\ Serves(v, w, r)
        /\ \/ InStep(w)
           \/ /\ w.sess.status = v.sess.status
              /\ AtPlanGate(v) /\ w.job.status = "failed"

(* POST prepare-plan. *)
LEMMA PreparePlanServes ==
    ASSUME NEW v \in SoundViews, Blank(v), NEW w \in PreparePlan(v)
    PROVE  ServedBy(v, w)
<1> DEFINE results == When(CanBegin(v) /\ Slot(v, 1), PlanOnly(v.job, v.disk))
           paused == [AbsentRound EXCEPT !.trigger = "initial", !.status = "in_progress"]
<1>1. v \in Views
  BY DEF SoundViews
<1>2. ASSUME NEW r \in Served(v)
      PROVE  /\ Serves(v, Synced(v, r), r) /\ InStep(Synced(v, r))
             /\ Serves(v, InitialFails(v, r), r) /\ InStep(InitialFails(v, r))
  BY <1>1, <1>2, ServedResults, SyncedServes, InitialFailsServes
<1>3. /\ Untouched(v, "ok") \in Served(v) /\ Untouched(v, "rejected") \in Served(v)
      /\ CanBegin(v) => Res(Status(v.job, "failed"), v.disk, "rejected") \in Served(v)
      /\ results \subseteq Planned(v) /\ Planned(v) \subseteq Served(v)
  BY OpenStatuses DEF Served, Planned, When
<1>4. CASE w = Synced(v, Untouched(v, "ok"))
  BY <1>2, <1>3, <1>4 DEF ServedBy
<1>5. CASE CanBegin(v) /\ w = PreparationFails(v)
  BY <1>2, <1>3, <1>5 DEF ServedBy, PreparationFails
<1>6. CASE w = InitialFails(v, Untouched(v, "rejected"))
  BY <1>2, <1>3, <1>6 DEF ServedBy
<1>7. CASE \E r \in Raised(results) : w = InitialFails(v, r)
  BY <1>2, <1>3, <1>7 DEF ServedBy, Raised
<1>8. ASSUME NEW r \in Succeeded(results),
             w = [Synced(v, AwaitPlan(r)) EXCEPT
                     !.rounds[1] = paused, !.sess.approvedPlan = 0,
                     !.sess.currentPlan = r.job.plan]
      PROVE  ServedBy(v, w)
  <2> DEFINE a == AwaitPlan(r)
             s == Synced(v, a)
  <2>1. a \in Served(v) /\ v.rounds[1].patch = 0
    BY <1>3, <1>8, FirstSlot DEF Served, Succeeded, Slot, When, Blank
  <2>2. a \in Results
    BY <2>1, ServedResults
  <2> HIDE DEF a
  <2>3. /\ s \in Views /\ s.job = a.job /\ s.disk = a.disk /\ s.pr = v.pr
        /\ s.rounds = v.rounds /\ SamePatches(v, s) /\ Blank(s) /\ InStep(s)
    BY <1>1, <2>2, SyncedServes
  <2> HIDE DEF s
  <2>4. /\ w.job = s.job /\ w.disk = s.disk /\ w.pr = s.pr
        /\ w.rounds = [s.rounds EXCEPT ![1] = paused]
        /\ w.sess.currentPatch = s.sess.currentPatch /\ w.sess.status = s.sess.status
    BY <1>8, <2>3 DEF Views, Sessions, s, a
  <2>5. paused.patch = 0
    BY DEF AbsentRound
  <2> HIDE DEF paused
  <2>6. \A m \in 1..MaxRounds : w.rounds[m] = IF m = 1 THEN paused ELSE s.rounds[m]
    BY <2>3, <2>4 DEF Views
  <2>7. SamePatches(v, w) /\ Blank(w) /\ InStep(w)
    BY <2>1, <2>3, <2>4, <2>5, <2>6 DEF SamePatches, Blank, InStep
  <2> QED BY <2>1, <2>3, <2>4, <2>7 DEF ServedBy, Serves, Patches
<1> QED BY <1>4, <1>5, <1>6, <1>7, <1>8 DEF PreparePlan, When

(* Writing the plan columns of a session plays no part in what a call leaves. *)
SameButPlan(s, w) ==
    /\ w.job = s.job /\ w.disk = s.disk /\ w.pr = s.pr /\ w.rounds = s.rounds
    /\ w.sess.currentPatch = s.sess.currentPatch /\ w.sess.status = s.sess.status

LEMMA PlanColumnsServes ==
    ASSUME NEW v, NEW r, NEW s, Serves(v, s, r), NEW w, SameButPlan(s, w)
    PROVE  Serves(v, w, r)
BY DEF SameButPlan, Serves, Patches, SamePatches, NewPatch, Blank

(* POST approve-plan and request-plan-revision. *)
LEMMA PlanGateServes ==
    ASSUME NEW v \in SoundViews, Blank(v), NEW w \in ApprovePlan(v) \cup RevisePlan(v)
    PROVE  ServedBy(v, w)
<1> DEFINE results == When(AtPlanGate(v), PlanJob(Status(v.job, "planning_changes"), v.disk))
<1>1. v \in Views /\ v.job \in Jobs
  BY DEF SoundViews, Views
<1>2. ASSUME NEW r \in Served(v)
      PROVE  /\ r \in Results /\ Synced(v, r) \in Views
             /\ Serves(v, Synced(v, r), r) /\ InStep(Synced(v, r))
  BY <1>1, <1>2, ServedResults, SyncedServes
<1>3. results \subseteq Served(v) /\ \A r \in Succeeded(results) : AwaitPlan(r) \in Served(v)
  BY DEF Served, Planned, Succeeded
<1>4. CASE w \in ApprovePlan(v)
  <2> DEFINE s == Synced(v, Untouched(v, "ok"))
  <2>1. w = [s EXCEPT !.sess.approvedPlan = v.job.plan]
    BY <1>4 DEF ApprovePlan, When
  <2>2. Untouched(v, "ok") \in Served(v)
    BY OpenStatuses DEF Served
  <2>3. s \in Views /\ Serves(v, s, Untouched(v, "ok")) /\ InStep(s)
    BY <1>2, <2>2
  <2> HIDE DEF s
  <2>4. SameButPlan(s, w)
    BY <2>1, <2>3 DEF Views, Sessions, SameButPlan
  <2>5. Serves(v, w, Untouched(v, "ok"))
    BY <2>3, <2>4, PlanColumnsServes
  <2> QED BY <2>2, <2>3, <2>4, <2>5 DEF ServedBy, InStep, SameButPlan
<1>5. ASSUME NEW r \in Raised(results), w = [Kept(v, r) EXCEPT !.sess.approvedPlan = 0]
      PROVE  ServedBy(v, w)
  <2> DEFINE k == Kept(v, r)
  <2>1. r \in Served(v) /\ r \in Results /\ AtPlanGate(v)
    BY <1>2, <1>3, <1>5 DEF Raised, When
  <2>2. /\ k \in Views /\ k.job = r.job /\ k.disk = r.disk /\ k.sess = v.sess
        /\ k.rounds = v.rounds /\ k.pr = v.pr
    BY <1>1, <2>1, KeptView
  <2>3. r.job.status = "failed"
    <3>1. r \in PlanJob(Status(v.job, "planning_changes"), v.disk) /\ r.end # "ok"
      BY <1>5 DEF Raised, When
    <3>2. \A i, d : Res(i, d, "ok").end = "ok"
      BY DEF Res
    <3>3. r = Res(Status(Status(v.job, "planning_changes"), "failed"), v.disk, "rejected")
      BY <3>1, <3>2 DEF PlanJob, When
    <3> QED BY <1>1, <3>3 DEF Res, Status, Jobs
  <2> HIDE DEF k
  <2>4. Serves(v, k, r)
    BY <2>2 DEF Serves, Patches, SamePatches, Blank
  <2>5. w = [k EXCEPT !.sess.approvedPlan = 0]
    BY <1>5 DEF k
  <2>6. SameButPlan(k, w)
    BY <2>2, <2>5 DEF Views, Sessions, SameButPlan
  <2>7. Serves(v, w, r)
    BY <2>4, <2>6, PlanColumnsServes
  <2> QED BY <2>1, <2>2, <2>3, <2>6, <2>7 DEF ServedBy, SameButPlan
<1>6. ASSUME NEW r \in Succeeded(results),
             w = [Synced(v, AwaitPlan(r)) EXCEPT !.sess.approvedPlan = 0,
                                                 !.sess.currentPlan = r.job.plan]
      PROVE  ServedBy(v, w)
  <2> DEFINE a == AwaitPlan(r)
             s == Synced(v, a)
  <2>1. a \in Served(v)
    BY <1>3, <1>6
  <2>2. s \in Views /\ Serves(v, s, a) /\ InStep(s)
    BY <1>2, <2>1
  <2>3. w = [s EXCEPT !.sess.approvedPlan = 0, !.sess.currentPlan = r.job.plan]
    BY <1>6
  <2> HIDE DEF a, s
  <2>4. SameButPlan(s, w)
    BY <2>2, <2>3 DEF Views, Sessions, SameButPlan
  <2>5. Serves(v, w, a)
    BY <2>2, <2>4, PlanColumnsServes
  <2> QED BY <2>1, <2>2, <2>4, <2>5 DEF ServedBy, InStep, SameButPlan
<1> QED BY <1>4, <1>5, <1>6 DEF RevisePlan

(* Round 1, recorded after its run. *)
LEMMA FirstRoundServes ==
    ASSUME NEW v \in Views, Blank(v), v.rounds[1].patch = 0, NEW r \in Draft,
           r.job.status = "failed" \/ RunStands(r), NEW plan \in Plans
    PROVE  Serves(v, FirstRound(v, r, plan), Promoted(r)) /\ InStep(FirstRound(v, r, plan))
<1> DEFINE done == Promoted(r)
           s == Synced(v, done)
           u == [s EXCEPT !.sess.currentPlan = plan]
           status == IF done.job.status = "failed" THEN "failed" ELSE "completed"
<1>1. r \in Results /\ r.job \in Jobs /\ r.job.status \notin Closed
  BY DraftResult DEF Draft, Results
<1>2. done \in Results /\ done.job = Reconciled(r.job) /\ done.disk = r.disk
  BY <1>1, ReconciledType DEF Promoted, Results
<1>3. done.job.status \notin Closed /\ (Live(done.job) => done.job.ranOn = done.disk.now)
  BY <1>1, <1>2 DEF Reconciled, Status, Jobs, Closed, Live, RunStands, StuckAfterSuccess
<1>4. FirstRound(v, r, plan) = Record(u, 1, "initial", status, "none", TRUE)
  BY <1>1 DEF FirstRound, Promoted, Results
<1>5. status \in {"completed", "failed"}
  OBVIOUS
<1> HIDE DEF done, status
<1>6. /\ s \in Views /\ s.job = done.job /\ s.disk = done.disk /\ s.pr = v.pr
      /\ SamePatches(v, s) /\ Blank(s) /\ InStep(s)
  BY <1>2, SyncedServes
<1> HIDE DEF s
<1>7. /\ u \in Views /\ u.job = s.job /\ u.disk = s.disk /\ u.pr = s.pr
      /\ u.rounds = s.rounds /\ u.sess.currentPatch = s.sess.currentPatch
      /\ u.sess.status = s.sess.status
  BY <1>6 DEF Views, Sessions
<1> HIDE DEF u
<1>8. SamePatches(v, u) /\ Blank(u) /\ InStep(u)
  BY <1>6, <1>7 DEF SamePatches, Blank, InStep
<1>9. /\ u.job.status \notin Closed /\ (Live(u.job) => u.job.ranOn = u.disk.now)
      /\ u.job = done.job /\ u.disk = done.disk /\ u.pr = v.pr
  BY <1>3, <1>6, <1>7
<1>10. LET w == Record(u, 1, "initial", status, "none", TRUE)
       IN  Serves(v, w, done) /\ InStep(w)
  BY <1>5, <1>7, <1>8, <1>9, FirstSlot, RecordServes
<1> QED BY <1>4, <1>10 DEF done

(* POST start. *)
LEMMA StartSessionServes ==
    ASSUME NEW v \in SoundViews, Blank(v), NEW w \in StartSession(v)
    PROVE  ServedBy(v, w)
<1> DEFINE j == Status(v.job, "generating_code")
           approved == When(AtPlanGate(v) /\ v.sess.approvedPlan # 0, AfterPlan(j, v.disk))
           oneShot == When(CanBegin(v) /\ Slot(v, 1),
                           Initial(v.job, v.disk) \cup {Untouched(v, "engine")})
<1>1. v \in Views /\ v.job \in Jobs /\ v.disk \in Disks /\ v.sess.currentPlan \in Plans
  BY DEF SoundViews, Views, Sessions
<1>2. j \in Jobs /\ GateInv(j) /\ j.status \notin Closed
  BY <1>1, OpenStatuses, StatusDraft
<1>3. ASSUME NEW r \in Served(v)
      PROVE  /\ Serves(v, Synced(v, r), r) /\ InStep(Synced(v, r))
             /\ Serves(v, InitialFails(v, r), r) /\ InStep(InitialFails(v, r))
  BY <1>1, <1>3, ServedResults, SyncedServes, InitialFailsServes
<1>4. /\ CanBegin(v) => Res(Status(v.job, "failed"), v.disk, "rejected") \in Served(v)
      /\ approved \subseteq Served(v) /\ oneShot \subseteq Served(v)
      /\ approved \subseteq Worked(v) /\ Succeeded(oneShot) \subseteq Worked(v)
  BY OpenStatuses DEF Served, Worked, When, Untouched, Res, Succeeded
<1>5. ASSUME NEW r \in approved \cup oneShot PROVE v.rounds[1].patch = 0
  BY <1>5, FirstSlot DEF When, AtPlanGate, Slot, Blank
<1>6. ASSUME NEW r \in Succeeded(approved) \cup Succeeded(oneShot)
      PROVE  /\ r \in Worked(v) /\ r \in Draft /\ r.end = "ok"
             /\ r.job.status = "failed" \/ RunStands(r)
             /\ v.rounds[1].patch = 0 /\ r.job.plan \in Plans
  <2>1. r \in Worked(v) /\ r.end = "ok"
    BY <1>4, <1>6 DEF Succeeded
  <2>2. r \in Draft /\ r.job.plan \in Plans
    BY <2>1, ServedResults DEF Draft, Sound, Results, Jobs
  <2>3. CASE r \in Succeeded(approved)
    <3> HIDE DEF j
    <3>1. r \in Succeeded(AfterPlan(j, v.disk))
      BY <2>3 DEF Succeeded, When
    <3> QED BY <1>1, <1>2, <1>5, <2>1, <2>2, <2>3, <3>1, AfterPlanTested DEF Succeeded
  <2>4. CASE r \in Succeeded(oneShot)
    <3>1. r \in Succeeded(Initial(v.job, v.disk))
      BY <2>4 DEF Succeeded, When, Untouched, Res
    <3> QED BY <1>1, <1>5, <2>1, <2>2, <2>4, <3>1, InitialTested DEF Succeeded
  <2> QED BY <1>6, <2>3, <2>4
<1>7. ASSUME NEW r \in Succeeded(approved) \cup Succeeded(oneShot), NEW plan \in Plans,
             w = FirstRound(v, r, plan)
      PROVE  ServedBy(v, w)
  <2>1. Promoted(r) \in Served(v)
    BY <1>6, <1>7 DEF Served, Succeeded
  <2>2. Serves(v, w, Promoted(r)) /\ InStep(w)
    BY <1>1, <1>6, <1>7, FirstRoundServes
  <2> QED BY <2>1, <2>2 DEF ServedBy
<1>8. \/ CanBegin(v) /\ w = PreparationFails(v)
      \/ \E r \in approved \cup oneShot : w = InitialFails(v, r)
      \/ \E r \in Succeeded(approved) : w = FirstRound(v, r, v.sess.currentPlan)
      \/ \E r \in Succeeded(oneShot) : w = FirstRound(v, r, r.job.plan)
  <2> HIDE DEF approved, oneShot
  <2> QED BY DEF StartSession, When, Raised, approved, oneShot, j
<1> HIDE DEF approved, oneShot
<1>9. CASE CanBegin(v) /\ w = PreparationFails(v)
  BY <1>3, <1>4, <1>9 DEF ServedBy, PreparationFails
<1>10. CASE \E r \in approved \cup oneShot : w = InitialFails(v, r)
  BY <1>3, <1>4, <1>10 DEF ServedBy
<1>11. CASE \E r \in Succeeded(approved) : w = FirstRound(v, r, v.sess.currentPlan)
  BY <1>1, <1>7, <1>11
<1>12. CASE \E r \in Succeeded(oneShot) : w = FirstRound(v, r, r.job.plan)
  BY <1>6, <1>7, <1>12
<1> QED BY <1>8, <1>9, <1>10, <1>11, <1>12

(* POST request-revision and manual-edit-ack of the session. *)
LEMMA ReviewServes ==
    ASSUME NEW v \in SoundViews, Blank(v), NEW w \in ReviseSession(v) \cup AckSession(v)
    PROVE  ServedBy(v, w)
<1> DEFINE n == v.sess.round + 1
           results == Revision(v.job, v.disk) \cup {Untouched(v, "engine")}
           applied == {r \in Succeeded(results) : r.disk.now # v.disk.now}
<1>1. v \in Views /\ v.job \in Jobs /\ v.disk \in Disks
  BY DEF SoundViews, Views
<1>2. n \in 1..MaxRounds /\ v.rounds[n].patch = 0
  BY DEF ReviseSession, AckSession, When, Slot, Blank
<1>3. ASSUME NEW r \in Served(v)
      PROVE  LET s == Synced(v, r)
             IN  /\ s \in Views /\ s.job = r.job /\ s.disk = r.disk /\ s.pr = v.pr
                 /\ SamePatches(v, s) /\ Blank(s) /\ InStep(s)
  BY <1>1, <1>3, ServedResults, SyncedServes
<1>4. ASSUME NEW r \in Served(v), NEW t, w = FailRound(Synced(v, r), n, t, "failed")
      PROVE  ServedBy(v, w)
  BY <1>2, <1>3, <1>4, FailRoundServes DEF ServedBy
<1>5. ASSUME NEW r \in Served(v), NEW t, NEW p \in BOOLEAN,
             p => r.job.status \notin Closed /\ (Live(r.job) => r.job.ranOn = r.disk.now),
             w = Record(Synced(v, r), n, t, RoundStatus(r.job), "applied", p)
      PROVE  ServedBy(v, w)
  <2> DEFINE s == Synced(v, r)
  <2>1. RoundStatus(r.job) \in {"completed", "failed"}
    BY DEF RoundStatus
  <2>2. /\ s \in Views /\ s.job = r.job /\ s.disk = r.disk /\ s.pr = v.pr
        /\ SamePatches(v, s) /\ Blank(s) /\ InStep(s)
    BY <1>3, <1>5
  <2>3. w = Record(s, n, t, RoundStatus(r.job), "applied", p)
    BY <1>5
  <2> HIDE DEF s
  <2>4. Serves(v, w, r) /\ InStep(w)
    BY <1>2, <1>5, <2>1, <2>2, <2>3, RecordServes
  <2> QED BY <1>5, <2>4 DEF ServedBy
<1>6. CASE w \in ReviseSession(v)
  <2>1. results \subseteq Served(v)
    BY OpenStatuses DEF Served, Worked
  <2>2. ASSUME NEW r \in applied
        PROVE  /\ Promoted(r) \in Served(v)
               /\ Promoted(r).job.status \notin Closed
               /\ Live(Promoted(r).job) => Promoted(r).job.ranOn = Promoted(r).disk.now
               /\ Promoted(r) = [r EXCEPT !.job = Reconciled(@)]
    <3>1. r \in Succeeded(Revision(v.job, v.disk)) /\ r \in Succeeded(Worked(v))
      BY <2>2 DEF Succeeded, Untouched, Res, Worked
    <3>2. r \in Draft /\ r \in Results
      BY <3>1, ServedResults, DraftResult DEF Succeeded
    <3>3. r.job.status \in {"failed", "awaiting_human_input"} \/ RunStands(r)
      BY <1>1, <3>1, RevisionTested
    <3>4. Promoted(r).job = Reconciled(r.job) /\ Promoted(r).disk = r.disk
      BY <3>2 DEF Promoted, Results
    <3>5. r.job \in Jobs /\ r.job.status \notin Closed
      BY <3>2 DEF Draft, Results
    <3>6. /\ Promoted(r).job.status \notin Closed
          /\ Live(Promoted(r).job) => Promoted(r).job.ranOn = Promoted(r).disk.now
      BY <3>3, <3>4, <3>5
         DEF Reconciled, Status, Jobs, Closed, Live, RunStands, StuckAfterSuccess
    <3>7. Promoted(r) \in Served(v)
      BY <3>1 DEF Served
    <3> QED BY <3>2, <3>6, <3>7 DEF Promoted, Results
  <2>3. \/ \E r \in results : w = FailRound(Synced(v, r), n, "review_revision", "failed")
        \/ \E r \in applied : w = Record(Synced(v, Promoted(r)), n, "review_revision",
                                        RoundStatus(Promoted(r).job), "applied", TRUE)
    <3> HIDE DEF applied, results
    <3> QED BY <1>6, <2>2 DEF ReviseSession, When, applied, results
  <2> HIDE DEF applied, results
  <2> QED BY <1>4, <1>5, <2>1, <2>2, <2>3
<1>7. CASE w \in AckSession(v)
  <2>1. Untouched(v, "engine") \in Served(v) /\ AckJob(v.job, v.disk) \subseteq Served(v)
    BY OpenStatuses DEF Served, Worked
  <2>2. \/ w = FailRound(Synced(v, Untouched(v, "engine")), n, "manual_edit_rerun", "failed")
        \/ \E r \in AckJob(v.job, v.disk) :
               w = Record(Synced(v, r), n, "manual_edit_rerun", RoundStatus(r.job),
                          "applied", FALSE)
    BY <1>7 DEF AckSession, When
  <2> QED BY <1>4, <1>5, <2>1, <2>2
<1> QED BY <1>6, <1>7

-----------------------------------------------------------------------------
(* One lemma for all the results a session endpoint works with. *)

(* The results of planning. *)
LEMMA PlannedLeads ==
    ASSUME NEW v \in SoundViews, NEW r \in Planned(v)
    PROVE  /\ Leads(v.job, v.disk, r) /\ SameRun(v.job, r.job)
           /\ r.job.status \notin Closed /\ Live(v.job)
<1>1. v.job \in Jobs /\ v.disk \in Disks
  BY DEF SoundViews, Views
<1>2. CASE r \in PlanOnly(v.job, v.disk)
  <2>1. Live(v.job)
    BY <1>2 DEF PlanOnly, StartJob, When, Live, Closed
  <2> QED BY <1>1, <1>2, <2>1, PlanOnlyLeads
<1>3. CASE AtPlanGate(v) /\ r \in PlanJob(Status(v.job, "planning_changes"), v.disk)
  <2> DEFINE k == Status(v.job, "planning_changes")
  <2>1. Live(v.job)
    BY <1>3 DEF AtPlanGate, Live, Closed
  <2>2. /\ k \in Jobs /\ k.ranOn = v.job.ranOn /\ k.exec = v.job.exec
        /\ k.approvedOn = v.job.approvedOn
    BY <1>1, OpenStatuses, StatusDraft DEF Status, Jobs
  <2> HIDE DEF k
  <2>3. Leads(k, v.disk, r) /\ SameRun(k, r.job) /\ r.job.status \notin Closed
    BY <1>1, <1>3, <2>2, PlanJobLeads DEF k
  <2>4. Leads(v.job, v.disk, r)
    BY <2>1, <2>2, <2>3, LeadsFrom
  <2> QED BY <2>1, <2>2, <2>3, <2>4 DEF SameRun
<1> QED BY <1>2, <1>3 DEF Planned, When

(* The results of a run, of a revision and of an acknowledgement. *)
LEMMA WorkedLeads ==
    ASSUME NEW v \in SoundViews, NEW r \in Worked(v)
    PROVE  Leads(v.job, v.disk, r)
<1>1. v.job \in Jobs /\ v.disk \in Disks
  BY DEF SoundViews, Views
<1>2. CASE AtPlanGate(v) /\ r \in AfterPlan(Status(v.job, "generating_code"), v.disk)
  <2> DEFINE k == Status(v.job, "generating_code")
  <2>1. Live(v.job)
    BY <1>2 DEF AtPlanGate, Live, Closed
  <2>2. /\ k \in Jobs /\ GateInv(k) /\ k.ranOn = v.job.ranOn /\ k.exec = v.job.exec
        /\ k.approvedOn = v.job.approvedOn /\ k.status = "generating_code"
    BY <1>1, OpenStatuses, StatusDraft DEF Status, Jobs
  <2>3. Live(k)
    BY <2>2 DEF Live, Closed
  <2> HIDE DEF k
  <2>4. Leads(k, v.disk, r)
    BY <1>1, <1>2, <2>2, <2>3, AfterPlanLeads DEF k
  <2>5. r.job.status \notin Closed
    BY ServedResults DEF Draft
  <2> QED BY <2>1, <2>2, <2>4, <2>5, LeadsFrom
<1>3. CASE r \in Initial(v.job, v.disk)
  BY <1>1, <1>3, InitialLeads
<1>4. CASE r \in Revision(v.job, v.disk)
  BY <1>1, <1>4, RevisionLeads
<1>5. CASE r \in AckJob(v.job, v.disk)
  BY <1>1, <1>5, SameDisk, FinalizeLeads DEF AckJob, When
<1> QED BY <1>2, <1>3, <1>4, <1>5 DEF Worked, When

(* All of them. *)
LEMMA ServedLeads ==
    ASSUME NEW v \in SoundViews, NEW r \in Served(v)
    PROVE  Leads(v.job, v.disk, r)
<1>1. v.job \in Jobs /\ v.disk \in Disks /\ DiskStep(v.disk, v.disk)
  BY SameDisk DEF SoundViews, Views
<1>2. ASSUME NEW e \in Ends, r = Untouched(v, e) PROVE Leads(v.job, v.disk, r)
  BY <1>1, <1>2 DEF Untouched, Res, Leads, SameRun
<1>3. CASE CanBegin(v) /\ r = Res(Status(v.job, "failed"), v.disk, "rejected")
  BY <1>1, <1>3, StatusLeads DEF Closed
<1>4. CASE r \in Planned(v)
  BY <1>4, PlannedLeads
<1>5. ASSUME NEW q \in Planned(v), r = AwaitPlan(q) PROVE Leads(v.job, v.disk, r)
  <2>1. q \in Results /\ q.job \in Jobs
    BY ServedResults DEF Results
  <2>2. /\ r.disk = q.disk /\ r.job.ranOn = q.job.ranOn /\ r.job.exec = q.job.exec
        /\ r.job.approvedOn = q.job.approvedOn /\ r.job.status = "awaiting_plan_approval"
    BY <1>5, <2>1 DEF AwaitPlan, Results, Jobs
  <2> QED BY <1>5, <2>2, PlannedLeads DEF Leads, SameRun, Closed
<1>6. CASE r \in Worked(v)
  BY <1>6, WorkedLeads
<1>7. ASSUME NEW q \in Worked(v), r = Promoted(q) PROVE Leads(v.job, v.disk, r)
  <2>1. q \in Results /\ q.job \in Jobs /\ q.job.status \notin Closed
    BY ServedResults, DraftResult DEF Draft, Results
  <2>2. r.disk = q.disk /\ r.job = Reconciled(q.job)
    BY <1>7, <2>1 DEF Promoted, Results
  <2>3. /\ r.job.ranOn = q.job.ranOn /\ r.job.exec = q.job.exec
        /\ r.job.approvedOn = q.job.approvedOn /\ r.job.status \notin Closed
        /\ Live(r.job) => Live(q.job)
    BY <2>1, <2>2 DEF Reconciled, Status, Jobs, StuckAfterSuccess, Live, Closed
  <2>4. Leads(v.job, v.disk, q)
    BY <1>7, WorkedLeads
  <2> QED BY <2>2, <2>3, <2>4 DEF Leads, SameRun
<1> QED BY <1>2, <1>3, <1>4, <1>5, <1>6, <1>7 DEF Served, When, Succeeded

-----------------------------------------------------------------------------
(* Approval and publication. *)

(* The approval of a job whose last run passed, and that is shown or reconciled. *)
Approves(j, k) ==
    /\ Live(j) /\ j.exec = "passed"
    /\ j.status \in StuckAfterSuccess \cup {"awaiting_automation_review"}
    /\ k.status = "approved_for_pr" /\ k.exec = j.exec
    /\ k.ranOn = j.ranOn /\ k.approvedOn = j.ranOn

(* The rounds stay. *)
SameRows(v, w) == w.rounds = v.rounds /\ w.sess.currentPatch = v.sess.currentPatch

CurrentContent(v) == v.rounds[v.sess.currentPatch].patch

(* No longer live, and not approved. *)
Ended(j) == j.status \in {"failed", "awaiting_human_input", "pr_created", "pr_creation_failed"}

(* A pull-request attempt may leave the current patch version in the
   workspace, and opens a session's pull request on nothing else. *)
Publishes(v, w) ==
    /\ Releasable(v.job) /\ Ended(w.job) /\ w.job.approvedOn = v.job.approvedOn
    /\ \/ w.disk = v.disk
       \/ v.sess.currentPatch # 0 /\ w.disk = [v.disk EXCEPT !.now = CurrentContent(v)]
    /\ \/ w.job.ranOn \in {v.job.ranOn, v.disk.now}
       \/ v.sess.currentPatch # 0 /\ w.job.ranOn = CurrentContent(v)
    /\ \/ w.pr = v.pr
       \/ w.pr.via = "job" /\ w.pr.approved = v.job.approvedOn
       \/ /\ w.pr = [via |-> "session", content |-> w.disk.now,
                     approved |-> v.job.approvedOn]
          /\ v.sess.currentPatch # 0 /\ w.disk.now = CurrentContent(v)

(* The approval service of the job. *)
LEMMA ApproveJobApproves ==
    ASSUME NEW j \in Jobs, GateInv(j), NEW d \in Disks, NEW r \in ApproveJob(j, d)
    PROVE  r.disk = d /\ Approves(j, r.job) /\ r \in Results
<1>1. j.status = "awaiting_automation_review" /\ j.exec = "passed"
  BY DEF ApproveJob, When, GateInv, Gated
<1>2. r \in Results /\ r.disk = d
  BY ApproveJobSound DEF Sound
<1>3. r.job = [j EXCEPT !.status = "approved_for_pr", !.approvedOn = j.ranOn]
  BY DEF ApproveJob, When, Res
<1> QED BY <1>1, <1>2, <1>3 DEF Approves, Live, Closed, Jobs

(* POST approve of the session. *)
LEMMA ApproveSessionServes ==
    ASSUME NEW v \in SoundViews, Blank(v), NEW w \in ApproveSession(v)
    PROVE  /\ w.disk = v.disk /\ w.pr = v.pr /\ SameRows(v, w) /\ InStep(w)
           /\ w.job = v.job \/ Approves(v.job, w.job)
<1>1. v \in Views /\ v.job \in Jobs /\ v.disk \in Disks /\ GateInv(v.job)
  BY DEF SoundViews, Views
<1>2. ASSUME NEW r \in Results, w = Synced(v, r)
      PROVE  /\ w.job = r.job /\ w.disk = r.disk /\ w.pr = v.pr
             /\ SameRows(v, w) /\ InStep(w)
  BY <1>1, <1>2, SyncedServes DEF SameRows
<1>3. CASE w = Synced(v, Untouched(v, "ok"))
  <2>1. Untouched(v, "ok") \in Results
    BY <1>1, OpenStatuses, UntouchedResult
  <2> QED BY <1>2, <1>3, <2>1 DEF Untouched, Res
<1>4. ASSUME NEW r \in ApproveJob(Reconciled(v.job), v.disk), w = Synced(v, r)
      PROVE  /\ w.disk = v.disk /\ w.pr = v.pr /\ SameRows(v, w) /\ InStep(w)
             /\ Approves(v.job, w.job)
  <2> DEFINE k == Reconciled(v.job)
  <2>1. /\ k \in Jobs /\ GateInv(k) /\ k.exec = v.job.exec
        /\ k.status \in Closed <=> v.job.status \in Closed
    BY <1>1, ReconciledSound
  <2>2. /\ k.ranOn = v.job.ranOn /\ (Live(k) => Live(v.job))
        /\ k = v.job \/ v.job.status \in StuckAfterSuccess
    BY <1>1 DEF Reconciled, Status, Jobs, StuckAfterSuccess, Live, Closed
  <2>3. r.disk = v.disk /\ Approves(k, r.job) /\ r \in Results
    <3> HIDE DEF k
    <3> QED BY <1>1, <1>4, <2>1, ApproveJobApproves DEF k
  <2> HIDE DEF k
  <2> QED BY <1>2, <1>4, <2>1, <2>2, <2>3 DEF Approves
<1> QED BY <1>3, <1>4 DEF ApproveSession, When

(* What an attempt works with: the workspace as it is or with the current
   patch version, and a run of one of them or the run of before. *)
WorkspaceOf(v, d) ==
    \/ d = v.disk
    \/ v.sess.currentPatch # 0 /\ d = [v.disk EXCEPT !.now = CurrentContent(v)]

Attempt(v, r) ==
    /\ r \in Results /\ r.job.approvedOn = v.job.approvedOn
    /\ WorkspaceOf(v, r.disk)
    /\ \/ r.job.ranOn \in {v.job.ranOn, v.disk.now}
       \/ v.sess.currentPatch # 0 /\ r.job.ranOn = CurrentContent(v)

(* The workspaces of a pull-request attempt. *)
LEMMA PrWorkspacesOf ==
    ASSUME NEW v \in Views, NEW d \in PrWorkspaces(v)
    PROVE  v.sess.currentPatch # 0 /\ d \in Disks /\ WorkspaceOf(v, d)
BY PatchedType DEF PrWorkspaces, Patched, WorkspaceOf, CurrentContent, Views

(* Writing the current patch version, again or for the first time. *)
LEMMA PatchedOf ==
    ASSUME NEW v \in Views, v.sess.currentPatch # 0, NEW d \in Disks, WorkspaceOf(v, d)
    PROVE  /\ Patched(v, d) = [v.disk EXCEPT !.now = CurrentContent(v)]
           /\ Patched(v, d) \in Disks /\ WorkspaceOf(v, Patched(v, d))
           /\ Patched(v, d).now = CurrentContent(v)
<1>1. Patched(v, d) \in Disks
  BY PatchedType
<1>2. v.disk \in Disks
  BY DEF Views
<1>3. Patched(v, d) = [v.disk EXCEPT !.now = CurrentContent(v)]
  BY <1>2 DEF Patched, WorkspaceOf, CurrentContent, Disks
<1>4. Patched(v, d).now = CurrentContent(v)
  BY DEF Patched, CurrentContent, Disks
<1> QED BY <1>1, <1>3, <1>4 DEF WorkspaceOf

(* The tests before the commit. *)
LEMMA RefreshedAttempt ==
    ASSUME NEW v \in Views, NEW d \in Disks, WorkspaceOf(v, d),
           NEW r \in Refreshed(v.job, d)
    PROVE  Attempt(v, r) /\ r.disk = d
<1>1. v.job \in Jobs /\ v.disk \in Disks
  BY DEF Views
<1>2. r \in Results /\ r.disk = d
  BY <1>1, RefreshedType
<1>3. r.job.approvedOn = v.job.approvedOn /\ r.job.ranOn \in {v.job.ranOn, d.now}
  <2> DEFINE k == [v.job EXCEPT !.exec = "passed", !.ranOn = d.now]
  <2>1. k.approvedOn = v.job.approvedOn /\ k.ranOn = d.now
    BY <1>1 DEF Jobs
  <2>2. r \in When(v.job.exec = "passed", {Res(v.job, d, "ok")}) \cup {Res(k, d, "ok")}
    BY DEF Refreshed
  <2> HIDE DEF k
  <2>3. r.job = v.job \/ r.job = k
    BY <2>2 DEF When, Res
  <2> QED BY <2>1, <2>3
<1>4. d.now = v.disk.now \/ (v.sess.currentPatch # 0 /\ d.now = CurrentContent(v))
  BY <1>1 DEF WorkspaceOf, Disks
<1> QED BY <1>2, <1>3, <1>4 DEF Attempt

(* The tests failed. *)
LEMMA RefreshFailsAttempt ==
    ASSUME NEW v \in Views, NEW d \in Disks, WorkspaceOf(v, d)
    PROVE  Attempt(v, Res(RefreshFails(v.job, d), d, "ok"))
<1>1. v.job \in Jobs /\ v.disk \in Disks
  BY DEF Views
<1>2. RefreshFails(v.job, d) \in Jobs
  BY <1>1, RefreshFailsType
<1>3. /\ RefreshFails(v.job, d).approvedOn = v.job.approvedOn
      /\ RefreshFails(v.job, d).ranOn = d.now
  BY <1>1 DEF RefreshFails, Jobs
<1>4. d.now = v.disk.now \/ (v.sess.currentPatch # 0 /\ d.now = CurrentContent(v))
  BY <1>1 DEF WorkspaceOf, Disks
<1> QED BY <1>2, <1>3, <1>4 DEF Attempt, Res, Results, Ends

(* The attempt before anything was run. *)
LEMMA UnrunAttempt ==
    ASSUME NEW v \in Views, NEW d \in Disks, WorkspaceOf(v, d)
    PROVE  Attempt(v, Res(v.job, d, "ok"))
BY DEF Attempt, Res, Results, Views, Ends

(* An attempt that failed keeps the pull request as it was. *)
LEMMA FailedPublishes ==
    ASSUME NEW v \in Views, Releasable(v.job), NEW r, Attempt(v, r),
           NEW w, w.disk = r.disk, w.pr = v.pr, Ended(w.job),
           w.job.approvedOn = r.job.approvedOn, w.job.ranOn = r.job.ranOn
    PROVE  Publishes(v, w)
BY DEF Attempt, WorkspaceOf, Publishes

(* POST create-pr of the session. *)
LEMMA CreatePrSessionPublishes ==
    ASSUME NEW v \in SoundViews, NEW w \in CreatePrSession(v)
    PROVE  Publishes(v, w) /\ SameRows(v, w) /\ InStep(w)
<1> DEFINE ready == UNION {Refreshed(v.job, d) : d \in PrWorkspaces(v)}
           unready == {Res(v.job, d, "ok") : d \in PrWorkspaces(v) \cup {v.disk}}
                      \cup {Res(RefreshFails(v.job, d), d, "ok") : d \in PrWorkspaces(v)}
           applied == {[r EXCEPT !.disk = Patched(v, r.disk)] : r \in ready}
<1>1. v \in Views /\ v.disk \in Disks /\ WorkspaceOf(v, v.disk)
  BY DEF SoundViews, Views, WorkspaceOf
<1>2. ASSUME NEW r \in ready PROVE Attempt(v, r) /\ v.sess.currentPatch # 0
  BY <1>1, <1>2, PrWorkspacesOf, RefreshedAttempt
<1>3. ASSUME NEW r \in unready PROVE Attempt(v, r)
  BY <1>1, <1>3, PrWorkspacesOf, UnrunAttempt, RefreshFailsAttempt
<1>4. ASSUME NEW r \in applied
      PROVE  Attempt(v, r) /\ v.sess.currentPatch # 0 /\ r.disk.now = CurrentContent(v)
  <2>1. PICK q \in ready : r = [q EXCEPT !.disk = Patched(v, q.disk)]
    BY <1>4
  <2>2. Attempt(v, q) /\ v.sess.currentPatch # 0 /\ q \in Results /\ q.disk \in Disks
        /\ WorkspaceOf(v, q.disk)
    BY <1>2 DEF Attempt, Results
  <2>3. /\ Patched(v, q.disk) \in Disks /\ WorkspaceOf(v, Patched(v, q.disk))
        /\ Patched(v, q.disk).now = CurrentContent(v)
    BY <1>1, <2>2, PatchedOf
  <2>4. r \in Results /\ r.job = q.job /\ r.disk = Patched(v, q.disk)
    BY <2>1, <2>2, <2>3 DEF Results
  <2> QED BY <2>2, <2>3, <2>4 DEF Attempt
<1>5. /\ Releasable(v.job)
      /\ \/ \E r \in unready \cup ready \cup applied :
                w = [Kept(v, PrFailed(r)) EXCEPT
                        !.sess.status = SessionStatusOf(Kept(v, PrFailed(r)).job.status)]
         \/ \E r \in applied :
                w = [Opened(v, r, "session", r.disk.now) EXCEPT
                        !.sess.status =
                            SessionStatusOf(Opened(v, r, "session", r.disk.now).job.status)]
  <2> HIDE DEF ready, unready
  <2>1. applied = {[r EXCEPT !.disk = Patched(v, @)] : r \in ready}
    <3>1. ASSUME NEW r \in ready
          PROVE  [r EXCEPT !.disk = Patched(v, @)] = [r EXCEPT !.disk = Patched(v, r.disk)]
      BY <1>2, <3>1 DEF Attempt, Results
    <3> QED BY <3>1
  <2> DEFINE sync(u) == [u EXCEPT !.sess.status = SessionStatusOf(u.job.status)]
  <2> HIDE DEF applied
  <2>2. CreatePrSession(v) =
            When(PrAllowed(v.job),
                 {sync(Kept(v, PrFailed(r))) : r \in unready \cup ready \cup applied}
                 \cup When(CanOpen(v),
                           {sync(Opened(v, r, "session", r.disk.now)) : r \in applied}))
    BY <2>1 DEF CreatePrSession, ready, unready
  <2>3. /\ PrAllowed(v.job)
        /\ \/ \E r \in unready \cup ready \cup applied : w = sync(Kept(v, PrFailed(r)))
           \/ \E r \in applied : w = sync(Opened(v, r, "session", r.disk.now))
    <3> HIDE DEF sync
    <3> QED BY <2>2 DEF When
  <2> QED BY <2>3 DEF PrAllowed, Releasable
<1> HIDE DEF ready, unready, applied
<1>6. ASSUME NEW r \in unready \cup ready \cup applied,
             w = [Kept(v, PrFailed(r)) EXCEPT
                     !.sess.status = SessionStatusOf(Kept(v, PrFailed(r)).job.status)]
      PROVE  Publishes(v, w) /\ SameRows(v, w) /\ InStep(w)
  <2> DEFINE k == Kept(v, PrFailed(r))
  <2>1. Attempt(v, r) /\ r \in Results
    BY <1>2, <1>3, <1>4, <1>6 DEF Attempt
  <2>2. /\ PrFailed(r).disk = r.disk /\ PrFailed(r).job.status = "pr_creation_failed"
        /\ PrFailed(r).job.approvedOn = r.job.approvedOn
        /\ PrFailed(r).job.ranOn = r.job.ranOn /\ PrFailed(r) \in Results
    BY <2>1 DEF PrFailed, Results, Jobs, JobStatus
  <2>3. /\ k \in Views /\ k.job = PrFailed(r).job /\ k.disk = r.disk /\ k.sess = v.sess
        /\ k.rounds = v.rounds /\ k.pr = v.pr
    BY <1>1, <2>2, KeptView
  <2>4. w = [k EXCEPT !.sess.status = SessionStatusOf(k.job.status)]
    BY <1>6
  <2> HIDE DEF k
  <2>5. /\ w.job = k.job /\ w.disk = k.disk /\ w.pr = k.pr /\ w.rounds = k.rounds
        /\ w.sess.currentPatch = k.sess.currentPatch
        /\ w.sess.status = SessionStatusOf(w.job.status)
    BY <2>3, <2>4 DEF Views, Sessions
  <2>6. Publishes(v, w)
    BY <1>1, <1>5, <2>1, <2>2, <2>3, <2>5, FailedPublishes DEF Ended
  <2> QED BY <2>3, <2>5, <2>6 DEF SameRows, InStep
<1>7. ASSUME NEW r \in applied,
             w = [Opened(v, r, "session", r.disk.now) EXCEPT
                     !.sess.status =
                         SessionStatusOf(Opened(v, r, "session", r.disk.now).job.status)]
      PROVE  Publishes(v, w) /\ SameRows(v, w) /\ InStep(w)
  <2> DEFINE k == Kept(v, r)
             o == Opened(v, r, "session", r.disk.now)
             p == [via |-> "session", content |-> r.disk.now, approved |-> r.job.approvedOn]
  <2>1. /\ Attempt(v, r) /\ r \in Results /\ r.job \in Jobs
        /\ v.sess.currentPatch # 0 /\ r.disk.now = CurrentContent(v)
    BY <1>4, <1>7 DEF Attempt, Results
  <2>2. /\ k \in Views /\ k.job = r.job /\ k.disk = r.disk /\ k.sess = v.sess
        /\ k.rounds = v.rounds /\ k.pr = v.pr
    BY <1>1, <2>1, KeptView
  <2>3. o = [k EXCEPT !.job.status = "pr_created", !.pr = p]
    BY DEF Opened
  <2>4. w = [o EXCEPT !.sess.status = SessionStatusOf(o.job.status)]
    BY <1>7
  <2> HIDE DEF k, p
  <2>5. /\ o.job = [r.job EXCEPT !.status = "pr_created"] /\ o.disk = r.disk /\ o.pr = p
        /\ o.rounds = v.rounds /\ o.sess = v.sess /\ v.sess \in Sessions
        /\ o = [k EXCEPT !.job = o.job, !.pr = p]
    BY <1>1, <2>2, <2>3 DEF Views
  <2> HIDE DEF o
  <2>6. /\ w.job = o.job /\ w.disk = o.disk /\ w.pr = o.pr /\ w.rounds = o.rounds
        /\ w.sess.currentPatch = o.sess.currentPatch
        /\ w.sess.status = SessionStatusOf(w.job.status)
    BY <2>2, <2>4, <2>5 DEF Views, Sessions
  <2>7. /\ w.job.status = "pr_created" /\ w.job.approvedOn = v.job.approvedOn
        /\ w.job.ranOn = r.job.ranOn
    BY <2>1, <2>5, <2>6 DEF Jobs, Attempt
  <2>8. w.pr = [via |-> "session", content |-> w.disk.now, approved |-> v.job.approvedOn]
    BY <2>1, <2>5, <2>6 DEF p, Attempt
  <2>9. w.disk = r.disk /\ Ended(w.job) /\ SameRows(v, w) /\ InStep(w)
    BY <2>5, <2>6, <2>7 DEF Ended, SameRows, InStep
  <2> QED BY <1>5, <2>1, <2>7, <2>8, <2>9 DEF Publishes, Attempt, WorkspaceOf
<1> QED BY <1>5, <1>6, <1>7

(* POST create-pr of the job. *)
LEMMA CreatePrJobPublishes ==
    ASSUME NEW v \in SoundViews, NEW w \in CreatePrJob(v)
    PROVE  Publishes(v, w) /\ SameRows(v, w) /\ w.sess = v.sess
<1> DEFINE ready == Refreshed(v.job, v.disk)
           fails == RefreshFails(v.job, v.disk)
<1>1. /\ v \in Views /\ v.job \in Jobs /\ v.disk \in Disks /\ WorkspaceOf(v, v.disk)
  BY DEF SoundViews, Views, WorkspaceOf
<1>2. Releasable(v.job)
  BY DEF CreatePrJob, When, Releasable
<1>3. ASSUME NEW r \in ready \cup {Untouched(v, "ok")} PROVE Attempt(v, r)
  BY <1>1, <1>3, RefreshedAttempt, UnrunAttempt DEF Untouched
<1>4. /\ fails \in Jobs /\ fails.approvedOn = v.job.approvedOn /\ fails.ranOn = v.disk.now
  BY <1>1, RefreshFailsType DEF RefreshFails, Jobs
<1>5. ASSUME NEW q, Attempt(v, q), NEW s \in {"failed", "awaiting_human_input"},
             NEW r, r.job = Status(q.job, s), r.disk = q.disk, w = Kept(v, r)
      PROVE  Publishes(v, w) /\ SameRows(v, w) /\ w.sess = v.sess
  <2>1. q.job \in Jobs
    BY <1>5 DEF Attempt, Results
  <2>2. /\ r.job.status = s /\ r.job.approvedOn = q.job.approvedOn
        /\ r.job.ranOn = q.job.ranOn
    BY <1>5, <2>1 DEF Status, Jobs
  <2>3. /\ w.job = r.job /\ w.disk = r.disk /\ w.sess = v.sess /\ w.rounds = v.rounds
        /\ w.pr = v.pr
    BY <1>1, <1>5 DEF Kept, Views
  <2>4. Ended(w.job)
    BY <2>2, <2>3 DEF Ended
  <2>5. Publishes(v, w)
    BY <1>1, <1>2, <1>5, <2>2, <2>3, <2>4, FailedPublishes
  <2> QED BY <2>3, <2>5 DEF SameRows
<1>6. \/ w = Kept(v, Res(Status(v.job, "awaiting_human_input"), v.disk, "ok"))
      \/ \E s \in {"awaiting_human_input", "failed"} :
             w = Kept(v, Res(Status(fails, s), v.disk, "ok"))
      \/ \E r \in ready \cup {Untouched(v, "ok")} :
             w = Kept(v, [r EXCEPT !.job.status = "failed"])
      \/ \E r \in ready : w = Opened(v, r, "job", r.disk.now)
  <2> HIDE DEF ready, fails
  <2> QED BY DEF CreatePrJob, When, ready, fails
<1>7. CASE w = Kept(v, Res(Status(v.job, "awaiting_human_input"), v.disk, "ok"))
  <2> DEFINE q == Res(v.job, v.disk, "ok")
             r == Res(Status(v.job, "awaiting_human_input"), v.disk, "ok")
  <2>1. Attempt(v, q) /\ r.job = Status(q.job, "awaiting_human_input") /\ r.disk = q.disk
    BY <1>1, UnrunAttempt DEF Res
  <2> HIDE DEF q, r
  <2> QED BY <1>5, <1>7, <2>1 DEF r
<1>8. ASSUME NEW s \in {"awaiting_human_input", "failed"},
             w = Kept(v, Res(Status(fails, s), v.disk, "ok"))
      PROVE  Publishes(v, w) /\ SameRows(v, w) /\ w.sess = v.sess
  <2> DEFINE q == Res(fails, v.disk, "ok")
             r == Res(Status(fails, s), v.disk, "ok")
  <2>1. Attempt(v, q)
    BY <1>1, RefreshFailsAttempt
  <2>2. r.job = Status(q.job, s) /\ r.disk = q.disk
    BY DEF Res
  <2> HIDE DEF q, r, fails
  <2> QED BY <1>5, <1>8, <2>1, <2>2 DEF r
<1>9. ASSUME NEW q \in ready \cup {Untouched(v, "ok")},
             w = Kept(v, [q EXCEPT !.job.status = "failed"])
      PROVE  Publishes(v, w) /\ SameRows(v, w) /\ w.sess = v.sess
  <2> DEFINE r == [q EXCEPT !.job.status = "failed"]
  <2>1. Attempt(v, q) /\ q \in Results
    BY <1>3, <1>9 DEF Attempt
  <2>2. r.job = Status(q.job, "failed") /\ r.disk = q.disk
    BY <2>1 DEF Results, Status
  <2> HIDE DEF r
  <2> QED BY <1>5, <1>9, <2>1, <2>2 DEF r
<1>10. ASSUME NEW r \in ready, w = Opened(v, r, "job", r.disk.now)
       PROVE  Publishes(v, w) /\ SameRows(v, w) /\ w.sess = v.sess
  <2> DEFINE k == Kept(v, r)
             p == [via |-> "job", content |-> r.disk.now, approved |-> r.job.approvedOn]
  <2>1. Attempt(v, r) /\ r \in Results /\ r.job \in Jobs /\ r.disk = v.disk
    BY <1>1, <1>3, <1>10, RefreshedAttempt DEF Attempt, Results
  <2>2. /\ k \in Views /\ k.job = r.job /\ k.disk = r.disk /\ k.sess = v.sess
        /\ k.rounds = v.rounds
    BY <1>1, <2>1, KeptView
  <2>3. w = [k EXCEPT !.job.status = "pr_created", !.pr = p]
    BY <1>10 DEF Opened
  <2>4. p.via = "job" /\ p.approved = r.job.approvedOn
    OBVIOUS
  <2> HIDE DEF k, p
  <2>5. /\ w.job = [r.job EXCEPT !.status = "pr_created"] /\ w.disk = r.disk /\ w.pr = p
        /\ w.rounds = v.rounds /\ w.sess = v.sess
    BY <2>2, <2>3 DEF Views
  <2>6. /\ w.job.status = "pr_created" /\ w.job.approvedOn = v.job.approvedOn
        /\ w.job.ranOn = r.job.ranOn
    BY <2>1, <2>5 DEF Jobs, Attempt
  <2>7. Ended(w.job) /\ SameRows(v, w)
    BY <2>5, <2>6 DEF Ended, SameRows
  <2> QED BY <1>2, <2>1, <2>4, <2>5, <2>6, <2>7 DEF Publishes, Attempt
<1> QED BY <1>6, <1>7, <1>8, <1>9, <1>10

-----------------------------------------------------------------------------
(* The origin of what is published. *)

(* The content x is the current patch version if any version holds it. *)
Traced(v, x) ==
    /\ x # 0
    /\ \A n \in 1..MaxRounds :
          v.rounds[n].patch = x => v.sess.currentPatch # 0 /\ CurrentContent(v) = x

(* Every content was issued before. *)
Issued(v) ==
    /\ \A n \in 1..MaxRounds : v.rounds[n].patch <= v.disk.made
    /\ v.disk.now <= v.disk.made /\ v.job.ranOn <= v.disk.made
    /\ v.job.approvedOn <= v.disk.made /\ v.pr.approved <= v.disk.made

(* The workspace, the run a job may be approved on and the run it was
   approved on are each the current patch version or none that was recorded. *)
Origin(v) ==
    /\ v.sess.currentPatch # 0 => CurrentContent(v) # 0
    /\ Traced(v, v.disk.now)
    /\ Live(v.job) /\ v.job.exec = "passed" => Traced(v, v.job.ranOn)
    /\ Releasable(v.job) => Traced(v, v.job.approvedOn)

(* What was approved for an open pull request is not recorded, and will not
   be, unless it is what the pull request carries. *)
Carried(v) ==
    v.pr.via = "session" =>
        /\ v.pr.approved # 0
        /\ \/ v.disk.now = v.pr.approved
           \/ \E n \in 1..MaxRounds : v.rounds[n].patch = v.pr.approved
           => v.pr.content = v.pr.approved

ContentInv(v) == Blank(v) /\ Issued(v) /\ Origin(v) /\ Carried(v)

(* The numbers among the rows. *)
LEMMA ContentNumbers ==
    ASSUME NEW v \in Views
    PROVE  /\ v.disk.made \in Nat /\ v.disk.now \in Nat /\ v.disk.made <= MaxContents
           /\ v.job.ranOn \in Nat /\ v.job.approvedOn \in Nat
           /\ v.pr.approved \in Nat /\ MaxContents \in Nat
           /\ \A n \in 1..MaxRounds : v.rounds[n].patch \in Nat
           /\ v.sess.currentPatch # 0 => v.sess.currentPatch \in 1..MaxRounds
<1>1. MaxRounds \in Nat /\ MaxContents \in Nat
  BY BoundsAssumption
<1>2. /\ v.disk.made \in Contents /\ v.disk.now \in Contents /\ v.job.ranOn \in Contents
      /\ v.job.approvedOn \in Contents /\ v.pr.approved \in Contents
      /\ \A n \in 1..MaxRounds : v.rounds[n].patch \in Contents
      /\ v.sess.currentPatch \in 0..MaxRounds
  BY DEF Views, Disks, Jobs, Prs, Rounds, Sessions
<1> QED BY <1>1, <1>2 DEF Contents

(* The versions two views have in common trace alike. *)
LEMMA TracedSame ==
    ASSUME NEW v \in Views, NEW w, SamePatches(v, w), NEW x
    PROVE  /\ Traced(v, x) <=> Traced(w, x)
           /\ v.sess.currentPatch # 0 => CurrentContent(w) = CurrentContent(v)
BY ContentNumbers DEF SamePatches, Traced, CurrentContent

(* Bytes that stay, that are new, or that are the current patch version. *)
LEMMA TracedBytes ==
    ASSUME NEW v \in Views, Issued(v), Origin(v), NEW x,
           \/ x = v.disk.now
           \/ x \in Nat /\ v.disk.made < x
           \/ v.sess.currentPatch # 0 /\ x = CurrentContent(v)
    PROVE  Traced(v, x)
<1>1. CASE x \in Nat /\ v.disk.made < x
  BY <1>1, ContentNumbers DEF Issued, Traced
<1> QED BY <1>1 DEF Origin, Traced

(* A step that leaves the patch versions alone. *)
LEMMA ContentStays ==
    ASSUME NEW v \in Views, NEW w \in Views, ContentInv(v), SamePatches(v, w), Blank(w),
           v.disk.made <= w.disk.made,
           \/ w.disk.now = v.disk.now
           \/ v.disk.made < w.disk.now /\ w.disk.now <= w.disk.made
           \/ v.sess.currentPatch # 0 /\ w.disk.now = CurrentContent(v),
           \/ w.job.ranOn \in {v.job.ranOn, v.disk.now, w.disk.now}
           \/ v.sess.currentPatch # 0 /\ w.job.ranOn = CurrentContent(v),
           w.job.approvedOn \in {v.job.approvedOn, v.job.ranOn},
           Live(w.job) /\ w.job.exec = "passed" =>
               \/ w.job.ranOn = w.disk.now
               \/ w.job.ranOn = v.job.ranOn /\ Live(v.job) /\ v.job.exec = "passed",
           Releasable(w.job) =>
               \/ w.job.approvedOn = v.job.approvedOn /\ Releasable(v.job)
               \/ w.job.approvedOn = v.job.ranOn /\ Live(v.job) /\ v.job.exec = "passed",
           \/ w.pr = v.pr
           \/ w.pr.via = "job" /\ w.pr.approved = v.job.approvedOn
           \/ /\ w.pr = [via |-> "session", content |-> w.disk.now,
                         approved |-> v.job.approvedOn]
              /\ v.sess.currentPatch # 0 /\ w.disk.now = CurrentContent(v)
              /\ Releasable(v.job)
    PROVE  ContentInv(w)
<1>1. /\ v.disk.made \in Nat /\ v.disk.now \in Nat /\ v.job.ranOn \in Nat
      /\ v.job.approvedOn \in Nat /\ v.pr.approved \in Nat
      /\ w.disk.made \in Nat /\ w.disk.now \in Nat
      /\ \A n \in 1..MaxRounds : v.rounds[n].patch \in Nat
      /\ v.sess.currentPatch # 0 => v.sess.currentPatch \in 1..MaxRounds
  BY ContentNumbers
<1>2. /\ \A n \in 1..MaxRounds : v.rounds[n].patch <= w.disk.made
      /\ v.disk.now <= w.disk.made /\ v.job.ranOn <= w.disk.made
      /\ v.job.approvedOn <= w.disk.made /\ v.pr.approved <= w.disk.made
      /\ v.sess.currentPatch # 0 => CurrentContent(v) <= w.disk.made
  BY <1>1 DEF ContentInv, Issued, CurrentContent
<1>3. /\ w.sess.currentPatch = v.sess.currentPatch
      /\ \A n \in 1..MaxRounds : w.rounds[n].patch = v.rounds[n].patch
      /\ v.sess.currentPatch # 0 => CurrentContent(w) = CurrentContent(v)
  BY TracedSame DEF SamePatches
<1>4. Issued(w)
  <2>1. w.disk.now <= w.disk.made
    BY <1>2
  <2>2. w.job.ranOn <= w.disk.made /\ w.job.approvedOn <= w.disk.made
    BY <1>2, <2>1
  <2>3. w.pr.approved <= w.disk.made
    BY <1>2
  <2> QED BY <1>2, <1>3, <2>1, <2>2, <2>3 DEF Issued
<1>5. Traced(w, w.disk.now)
  BY <1>1, TracedBytes, TracedSame DEF ContentInv
<1>6. Live(w.job) /\ w.job.exec = "passed" => Traced(w, w.job.ranOn)
  BY <1>5, TracedSame DEF ContentInv, Origin
<1>7. Releasable(w.job) => Traced(w, w.job.approvedOn)
  BY TracedSame DEF ContentInv, Origin
<1>8. Origin(w)
  BY <1>3, <1>5, <1>6, <1>7 DEF ContentInv, Origin
<1>9. Carried(w)
  <2>1. CASE w.pr = v.pr
    <3>1. SUFFICES ASSUME v.pr.via = "session",
                          \/ w.disk.now = v.pr.approved
                          \/ \E n \in 1..MaxRounds : v.rounds[n].patch = v.pr.approved
                   PROVE  v.pr.content = v.pr.approved
      BY <1>3, <2>1 DEF ContentInv, Carried
    <3>2. \/ v.disk.now = v.pr.approved
          \/ \E n \in 1..MaxRounds : v.rounds[n].patch = v.pr.approved
      <4>1. v.pr.approved <= v.disk.made
        BY DEF ContentInv, Issued
      <4>2. ~(v.disk.made < v.pr.approved)
        BY <1>1, <4>1
      <4> QED BY <1>1, <3>1, <4>2 DEF CurrentContent
    <3> QED BY <3>1, <3>2 DEF ContentInv, Carried
  <2>2. CASE w.pr.via = "job"
    BY <2>2 DEF Carried
  <2>3. CASE /\ w.pr = [via |-> "session", content |-> w.disk.now,
                         approved |-> v.job.approvedOn]
             /\ v.sess.currentPatch # 0 /\ w.disk.now = CurrentContent(v)
             /\ Releasable(v.job)
    <3>1. Traced(v, v.job.approvedOn)
      BY <2>3 DEF ContentInv, Origin
    <3>2. w.pr.approved = v.job.approvedOn /\ w.pr.content = w.disk.now
      BY <2>3
    <3> QED BY <1>3, <2>3, <3>1, <3>2 DEF Traced, Carried
  <2> QED BY <2>1, <2>2, <2>3
<1> QED BY <1>4, <1>8, <1>9 DEF ContentInv

(* A step that records a patch version. *)
LEMMA ContentRecorded ==
    ASSUME NEW v \in Views, NEW w \in Views, ContentInv(v), NEW n \in 1..MaxRounds,
           NewPatch(v, w, n), Blank(w), DiskStep(v.disk, w.disk),
           w.job.ranOn \in {v.job.ranOn, w.disk.now},
           w.job.approvedOn = v.job.approvedOn, w.pr = v.pr
    PROVE  ContentInv(w)
<1>1. /\ v.disk.made \in Nat /\ v.disk.now \in Nat /\ v.job.ranOn \in Nat
      /\ v.job.approvedOn \in Nat /\ v.pr.approved \in Nat
      /\ w.disk.made \in Nat /\ w.disk.now \in Nat
      /\ \A m \in 1..MaxRounds : v.rounds[m].patch \in Nat
  BY ContentNumbers
<1>2. /\ \A m \in 1..MaxRounds : v.rounds[m].patch <= w.disk.made
      /\ w.disk.now <= w.disk.made /\ v.job.ranOn <= w.disk.made
      /\ v.job.approvedOn <= w.disk.made /\ v.pr.approved <= w.disk.made
  BY <1>1 DEF ContentInv, Issued, DiskStep
<1>3. Issued(w)
  BY <1>2 DEF Issued, NewPatch
<1>4. n # 0 /\ CurrentContent(w) = w.disk.now
  BY DEF NewPatch, CurrentContent
<1>5. w.disk.now # 0
  BY <1>1 DEF ContentInv, Origin, Traced, DiskStep
<1>6. Traced(w, w.disk.now)
  BY <1>4, <1>5 DEF Traced, NewPatch
<1>7. Origin(w)
  BY <1>4, <1>5, <1>6 DEF Origin, NewPatch, Releasable, Closed
<1>8. Carried(w)
  <2>1. SUFFICES ASSUME v.pr.via = "session",
                        \/ w.disk.now = v.pr.approved
                        \/ \E m \in 1..MaxRounds : w.rounds[m].patch = v.pr.approved
                 PROVE  v.pr.content = v.pr.approved
    BY DEF ContentInv, Carried
  <2>2. \/ w.disk.now = v.pr.approved
        \/ \E m \in 1..MaxRounds : v.rounds[m].patch = v.pr.approved
    BY <2>1 DEF NewPatch
  <2>3. v.pr.approved <= v.disk.made
    BY DEF ContentInv, Issued
  <2>4. ~(v.disk.made < v.pr.approved)
    BY <1>1, <2>3
  <2> QED BY <2>1, <2>2, <2>4 DEF ContentInv, Carried, DiskStep
<1> QED BY <1>3, <1>7, <1>8 DEF ContentInv

(* A session endpoint. *)
LEMMA ServedContent ==
    ASSUME NEW v \in SoundViews, NEW w \in Views, ContentInv(v), ServedBy(v, w)
    PROVE  ContentInv(w)
<1>1. PICK r \in Served(v) : Serves(v, w, r)
  BY DEF ServedBy
<1>2. v \in Views /\ Leads(v.job, v.disk, r) /\ w.job = r.job /\ w.disk = r.disk
      /\ w.pr = v.pr /\ Patches(v, w) /\ Blank(w)
  BY <1>1, ServedLeads DEF Serves, SoundViews
<1>3. /\ DiskStep(v.disk, w.disk) /\ w.job.approvedOn = v.job.approvedOn
      /\ w.job.status \notin Closed \/ w.job = v.job
      /\ w.job.ranOn = w.disk.now \/ SameRun(v.job, w.job)
  BY <1>2 DEF Leads
<1>4. w.job.ranOn \in {v.job.ranOn, w.disk.now}
  BY <1>3 DEF SameRun
<1>5. ASSUME NEW n \in 1..MaxRounds, NewPatch(v, w, n) PROVE ContentInv(w)
  BY <1>2, <1>3, <1>4, <1>5, ContentRecorded
<1>6. CASE SamePatches(v, w)
  <2>1. /\ v.disk.made <= w.disk.made
        /\ \/ w.disk.now = v.disk.now
           \/ v.disk.made < w.disk.now /\ w.disk.now <= w.disk.made
    BY <1>3 DEF DiskStep
  <2>2. Live(w.job) /\ w.job.exec = "passed" =>
            \/ w.job.ranOn = w.disk.now
            \/ w.job.ranOn = v.job.ranOn /\ Live(v.job) /\ v.job.exec = "passed"
    BY <1>3 DEF SameRun
  <2>3. Releasable(w.job) => w.job.approvedOn = v.job.approvedOn /\ Releasable(v.job)
    BY <1>3 DEF Releasable, Closed
  <2> QED BY <1>2, <1>3, <1>4, <1>6, <2>1, <2>2, <2>3, ContentStays
<1> QED BY <1>2, <1>5, <1>6 DEF Patches

(* A job service, or one whose rows were lost: the session's rows stay. *)
LEMMA LedContent ==
    ASSUME NEW v \in Views, NEW w \in Views, ContentInv(v), SameRows(v, w), w.pr = v.pr,
           NEW r, Leads(v.job, v.disk, r), w.disk = r.disk, w.job \in {r.job, v.job}
    PROVE  ContentInv(w)
<1>1. SamePatches(v, w) /\ Blank(w)
  BY DEF SameRows, SamePatches, ContentInv, Blank
<1>2. /\ v.disk.made <= w.disk.made
      /\ \/ w.disk.now = v.disk.now
         \/ v.disk.made < w.disk.now /\ w.disk.now <= w.disk.made
  BY DEF Leads, DiskStep
<1>3. /\ w.job.ranOn \in {v.job.ranOn, w.disk.now}
      /\ w.job.approvedOn = v.job.approvedOn
  BY DEF Leads, SameRun
<1>4. Live(w.job) /\ w.job.exec = "passed" =>
          \/ w.job.ranOn = w.disk.now
          \/ w.job.ranOn = v.job.ranOn /\ Live(v.job) /\ v.job.exec = "passed"
  BY DEF Leads, SameRun
<1>5. Releasable(w.job) => w.job.approvedOn = v.job.approvedOn /\ Releasable(v.job)
  BY <1>3 DEF Leads, Releasable, Closed
<1> QED BY <1>1, <1>2, <1>3, <1>4, <1>5, ContentStays

(* Approval. *)
LEMMA ApprovedContent ==
    ASSUME NEW v \in Views, NEW w \in Views, ContentInv(v), SameRows(v, w), w.pr = v.pr,
           w.disk = v.disk, w.job = v.job \/ Approves(v.job, w.job)
    PROVE  ContentInv(w)
<1>1. SamePatches(v, w) /\ Blank(w)
  BY DEF SameRows, SamePatches, ContentInv, Blank
<1>2. v.disk.made <= w.disk.made
  BY ContentNumbers
<1>3. /\ w.job.ranOn = v.job.ranOn /\ w.job.approvedOn \in {v.job.approvedOn, v.job.ranOn}
      /\ Live(w.job) => w.job = v.job
      /\ Releasable(w.job) =>
             \/ w.job = v.job
             \/ w.job.approvedOn = v.job.ranOn /\ Live(v.job) /\ v.job.exec = "passed"
  BY DEF Approves, Live, Closed
<1> QED BY <1>1, <1>2, <1>3, ContentStays

(* A pull-request attempt, also one whose rows were lost. *)
LEMMA PublishedContent ==
    ASSUME NEW v \in Views, NEW w \in Views, ContentInv(v), SameRows(v, w),
           NEW u, Publishes(v, u), w.pr = u.pr, w.disk = u.disk, w.job \in {u.job, v.job}
    PROVE  ContentInv(w)
<1>1. SamePatches(v, w) /\ Blank(w)
  BY DEF SameRows, SamePatches, ContentInv, Blank
<1>2. v.disk \in Disks /\ v.disk.made <= v.disk.made
  BY ContentNumbers DEF Views
<1>3. /\ v.disk.made <= w.disk.made
      /\ \/ w.disk.now = v.disk.now
         \/ v.sess.currentPatch # 0 /\ w.disk.now = CurrentContent(v)
  BY <1>2 DEF Publishes, Disks
<1>4. /\ Releasable(v.job) /\ ~Live(v.job) /\ ~Live(w.job)
      /\ w.job.approvedOn = v.job.approvedOn
      /\ \/ w.job.ranOn \in {v.job.ranOn, v.disk.now, w.disk.now}
         \/ v.sess.currentPatch # 0 /\ w.job.ranOn = CurrentContent(v)
  BY DEF Publishes, Releasable, Live, Closed, Ended
<1>5. \/ w.pr = v.pr
      \/ w.pr.via = "job" /\ w.pr.approved = v.job.approvedOn
      \/ /\ w.pr = [via |-> "session", content |-> w.disk.now,
                    approved |-> v.job.approvedOn]
         /\ v.sess.currentPatch # 0 /\ w.disk.now = CurrentContent(v)
         /\ Releasable(v.job)
  BY <1>4 DEF Publishes
<1> QED BY <1>1, <1>3, <1>4, <1>5, ContentStays

-----------------------------------------------------------------------------
(* The specification. *)

CInv == IInv /\ ContentInv(View)

(* A fresh session. *)
LEMMA InitContent == Init => CInv
<1> SUFFICES ASSUME Init PROVE ContentInv(View)
  BY InitIInv DEF CInv
<1>1. /\ View.job = NewJob /\ View.sess = NewSession /\ View.pr = NoPr /\ View.disk = NewDisk
      /\ \A n \in 1..MaxRounds : View.rounds[n] = AbsentRound
  BY DEF Init, View
<1> HIDE DEF View
<1> QED BY <1>1
        DEF ContentInv, Blank, Issued, Origin, Carried, Traced, CurrentContent, NewJob,
            NewSession, NoPr, NewDisk, AbsentRound, Live, Releasable

(* The rows after a step. *)
After == [job |-> job', sess |-> sess', rounds |-> rounds', pr |-> pr', disk |-> disk']

LEMMA AfterContent == ASSUME ContentInv(After) PROVE ContentInv(View)'
BY DEF After, View, ContentInv, Blank, Issued, Origin, Carried, Traced, CurrentContent

LEMMA AfterViews == ASSUME IInv, [Next]_vars PROVE After \in Views
BY StepOutcome DEF IInv, TypeOK, After, Views

(* What a call commits is what the rows are after it. *)
LEMMA CommittedRows ==
    ASSUME NEW STATE results, results \subseteq Views, Committed(results)
    PROVE  After \in results
BY DEF Committed, Views, After

(* The three things a call of the session API does: work, approve, publish. *)
LEMMA SessionServes ==
    ASSUME CInv, SessionNext
    PROVE  \/ ServedBy(View, After)
           \/ /\ After.disk = View.disk /\ After.pr = View.pr
              /\ SameRows(View, After) /\ InStep(After)
              /\ After.job = View.job \/ Approves(View.job, After.job)
           \/ Publishes(View, After) /\ SameRows(View, After) /\ InStep(After)
<1>1. View \in SoundViews /\ Blank(View)
  BY IInvView DEF CInv, ContentInv
<1>2. \A v : Outcome(v) \subseteq Views
  BY DEF Outcome, SoundViews
<1>3. CASE PreparePlanRequest
  <2>1. After \in PreparePlan(View)
    BY <1>1, <1>2, <1>3, PreparePlanOutcome, CommittedRows DEF PreparePlanRequest
  <2> QED BY <1>1, <2>1, PreparePlanServes
<1>4. CASE ApprovePlanRequest
  <2>1. After \in ApprovePlan(View)
    BY <1>1, <1>2, <1>4, ApprovePlanOutcome, CommittedRows DEF ApprovePlanRequest
  <2> QED BY <1>1, <2>1, PlanGateServes
<1>5. CASE RevisePlanRequest
  <2>1. After \in RevisePlan(View)
    BY <1>1, <1>2, <1>5, RevisePlanOutcome, CommittedRows DEF RevisePlanRequest
  <2> QED BY <1>1, <2>1, PlanGateServes
<1>6. CASE StartRequest
  <2>1. After \in StartSession(View)
    BY <1>1, <1>2, <1>6, StartSessionOutcome, CommittedRows DEF StartRequest
  <2> QED BY <1>1, <2>1, StartSessionServes
<1>7. CASE ReviseRequest
  <2>1. After \in ReviseSession(View)
    BY <1>1, <1>2, <1>7, ReviseSessionOutcome, CommittedRows DEF ReviseRequest
  <2> QED BY <1>1, <2>1, ReviewServes
<1>8. CASE AckRequest
  <2>1. After \in AckSession(View)
    BY <1>1, <1>2, <1>8, AckSessionOutcome, CommittedRows DEF AckRequest
  <2> QED BY <1>1, <2>1, ReviewServes
<1>9. CASE ApproveRequest
  <2>1. After \in ApproveSession(View)
    BY <1>1, <1>2, <1>9, ApproveSessionOutcome, CommittedRows DEF ApproveRequest
  <2> QED BY <1>1, <2>1, ApproveSessionServes
<1>10. CASE CreatePrRequest
  <2>1. After \in CreatePrSession(View)
    BY <1>1, <1>2, <1>10, CreatePrSessionOutcome, CommittedRows DEF CreatePrRequest
  <2> QED BY <1>1, <2>1, CreatePrSessionPublishes
<1> QED BY <1>3, <1>4, <1>5, <1>6, <1>7, <1>8, <1>9, <1>10 DEF SessionNext

(* The services behind the job endpoints other than approve and create-pr. *)
JobServices(j, d) ==
    StartJob(j, d) \cup PlanJob(j, d) \cup GenerateJob(j, d) \cup ExecuteJob(j, d)
    \cup RepairJob(j, d) \cup ReviseJob(j, d) \cup AckJob(j, d)

LEMMA JobServicesLead ==
    ASSUME NEW j \in Jobs, NEW d \in Disks, NEW r \in JobServices(j, d)
    PROVE  Leads(j, d, r)
<1>1. CASE r \in AckJob(j, d)
  BY <1>1, SameDisk, FinalizeLeads DEF AckJob, When
<1> QED BY <1>1, StartJobLeads, PlanJobLeads, GenerateJobLeads, ExecuteJobLeads,
           RepairJobLeads, RevisionLeads DEF JobServices

(* A call of the job API, which leaves the session's rows alone. *)
LEMMA JobServes ==
    ASSUME IInv, JobNext
    PROVE  /\ After.sess = View.sess /\ SameRows(View, After)
           /\ \/ /\ After.pr = View.pr
                 /\ \E r \in JobServices(job, disk) : After.job = r.job /\ After.disk = r.disk
              \/ /\ After.pr = View.pr /\ After.disk = View.disk
                 /\ Approves(View.job, After.job)
              \/ Publishes(View, After)
<1>1. View \in SoundViews /\ job \in Jobs /\ disk \in Disks /\ GateInv(job)
  BY IInvView DEF IInv, TypeOK
<1>2. View.job = job /\ View.disk = disk
  BY DEF View
<1>3. ASSUME NEW STATE results, Committed(JobCall(results))
      PROVE  /\ After.sess = View.sess /\ SameRows(View, After) /\ After.pr = View.pr
             /\ \E r \in results : After.job = r.job /\ After.disk = r.disk
  <2>1. PICK r \in results :
            /\ job' = Kept(View, r).job /\ sess' = Kept(View, r).sess
            /\ rounds' = Kept(View, r).rounds /\ pr' = Kept(View, r).pr
            /\ disk' = Kept(View, r).disk
    BY <1>3 DEF Committed, JobCall
  <2>2. job' = r.job /\ disk' = r.disk /\ sess' = sess /\ rounds' = rounds /\ pr' = pr
    BY <2>1 DEF Kept, View
  <2> QED BY <2>2 DEF After, View, SameRows
<1>4. CASE ApproveJobRequest
  <2>1. Committed(JobCall(ApproveJob(job, disk)))
    BY <1>4 DEF ApproveJobRequest
  <2>2. PICK r \in ApproveJob(job, disk) : After.job = r.job /\ After.disk = r.disk
    BY <1>3, <2>1
  <2>3. r.disk = disk /\ Approves(job, r.job)
    BY <1>1, <2>2, ApproveJobApproves
  <2> QED BY <1>2, <1>3, <2>1, <2>2, <2>3
<1>5. CASE CreatePrJobRequest
  <2>1. CreatePrJob(View) \subseteq Views
    BY <1>1, CreatePrJobOutcome DEF Outcome, SoundViews
  <2>2. After \in CreatePrJob(View)
    BY <1>5, <2>1, CommittedRows DEF CreatePrJobRequest
  <2> QED BY <1>1, <2>2, CreatePrJobPublishes
<1>6. ASSUME NEW STATE results, results \subseteq JobServices(job, disk),
             Committed(JobCall(results))
      PROVE  /\ After.sess = View.sess /\ SameRows(View, After) /\ After.pr = View.pr
             /\ \E r \in JobServices(job, disk) : After.job = r.job /\ After.disk = r.disk
  BY <1>3, <1>6
<1>7. CASE StartJobRequest
  BY <1>6, <1>7 DEF StartJobRequest, JobServices
<1>8. CASE PlanJobRequest
  BY <1>6, <1>8 DEF PlanJobRequest, JobServices
<1>9. CASE GenerateJobRequest
  BY <1>6, <1>9 DEF GenerateJobRequest, JobServices
<1>10. CASE ExecuteJobRequest
  BY <1>6, <1>10 DEF ExecuteJobRequest, JobServices
<1>11. CASE RepairJobRequest
  BY <1>6, <1>11 DEF RepairJobRequest, JobServices
<1>12. CASE ReviseJobRequest
  BY <1>6, <1>12 DEF ReviseJobRequest, JobServices
<1>13. CASE AckJobRequest
  BY <1>6, <1>13 DEF AckJobRequest, JobServices
<1> QED BY <1>4, <1>5, <1>7, <1>8, <1>9, <1>10, <1>11, <1>12, <1>13 DEF JobNext

(* A person's edit leaves new bytes; a call that dies leaves the rows, and the
   workspace and the pull request of the call it might have been. *)
LEMMA OutsideServes ==
    ASSUME CInv, HumanEdit \/ InterruptedRequest
    PROVE  /\ After.job = View.job /\ After.sess = View.sess /\ SameRows(View, After)
           /\ \/ /\ After.pr = View.pr
                 /\ \E r : Leads(View.job, View.disk, r) /\ After.disk = r.disk
              \/ \E u : Publishes(View, u) /\ After.pr = u.pr /\ After.disk = u.disk
<1>1. /\ View \in SoundViews /\ Blank(View) /\ job \in Jobs /\ disk \in Disks
      /\ View.job = job /\ View.disk = disk
  BY IInvView DEF CInv, ContentInv, IInv, TypeOK, View
<1>2. After.job = View.job /\ After.sess = View.sess /\ SameRows(View, After)
  BY DEF HumanEdit, InterruptedRequest, After, View, SameRows
<1>3. CASE HumanEdit
  <2>1. disk.made \in Nat /\ disk.made < MaxContents /\ MaxContents \in Nat
    BY <1>1, <1>3, BoundsAssumption DEF HumanEdit, Disks, Contents
  <2>2. disk'.now = disk.made + 1 /\ disk'.made = disk.made + 1
    BY <1>3 DEF HumanEdit
  <2>3. DiskStep(disk, disk')
    BY <2>1, <2>2 DEF DiskStep
  <2>4. Leads(job, disk, Res(job, disk', "ok"))
    BY <2>3 DEF Leads, SameRun, Res
  <2>5. Res(job, disk', "ok").disk = disk' /\ After.disk = disk' /\ After.pr = View.pr
    BY <1>3 DEF HumanEdit, Res, After, View
  <2> QED BY <1>1, <1>2, <2>4, <2>5
<1>4. CASE InterruptedRequest
  <2> DEFINE services == GenerateJob(job, disk) \cup ReviseJob(job, disk) \cup RepairJob(job, disk)
  <2>1. PICK u \in StartSession(View) \cup ReviseSession(View) \cup CreatePrSession(View)
                       \cup JobCall(services) \cup CreatePrJob(View) :
                pr' = u.pr /\ disk' = u.disk
    BY <1>4 DEF InterruptedRequest
  <2>2. After.pr = u.pr /\ After.disk = u.disk
    BY <2>1 DEF After
  <2>3. CASE u \in StartSession(View) \cup ReviseSession(View)
    <3>1. PICK r \in Served(View) : Serves(View, u, r)
      BY <1>1, <2>3, StartSessionServes, ReviewServes DEF ServedBy
    <3>2. Leads(View.job, View.disk, r) /\ u.disk = r.disk /\ u.pr = View.pr
      BY <1>1, <3>1, ServedLeads DEF Serves
    <3> QED BY <1>2, <2>2, <3>2
  <2>4. CASE u \in JobCall(services)
    <3>1. PICK r \in services : u = Kept(View, r)
      BY <2>4 DEF JobCall
    <3>2. u.disk = r.disk /\ u.pr = View.pr
      BY <3>1 DEF Kept, View
    <3>3. r \in JobServices(job, disk)
      BY <3>1 DEF JobServices
    <3>4. Leads(View.job, View.disk, r)
      BY <1>1, <3>3, JobServicesLead
    <3> QED BY <1>2, <2>2, <3>2, <3>4
  <2>5. CASE u \in CreatePrSession(View) \cup CreatePrJob(View)
    <3>1. Publishes(View, u)
      BY <1>1, <2>5, CreatePrSessionPublishes, CreatePrJobPublishes
    <3> QED BY <1>2, <2>2, <3>1
  <2> QED BY <2>1, <2>3, <2>4, <2>5
<1> QED BY <1>3, <1>4

(* The invariant is inductive. *)
LEMMA ContentStep ==
    ASSUME CInv, [Next]_vars PROVE CInv'
<1>1. /\ View \in SoundViews /\ View \in Views /\ After \in Views /\ ContentInv(View)
      /\ job \in Jobs /\ disk \in Disks /\ View.job = job /\ View.disk = disk
  BY IInvView, AfterViews DEF CInv, SoundViews, IInv, TypeOK, View
<1>2. SUFFICES ContentInv(After)
  BY StepOutcome, AfterContent DEF CInv
<1>3. CASE SessionNext
  <2>1. CASE ServedBy(View, After)
    BY <1>1, <2>1, ServedContent
  <2>2. CASE /\ After.disk = View.disk /\ After.pr = View.pr /\ SameRows(View, After)
             /\ After.job = View.job \/ Approves(View.job, After.job)
    BY <1>1, <2>2, ApprovedContent
  <2>3. CASE Publishes(View, After) /\ SameRows(View, After)
    BY <1>1, <2>3, PublishedContent
  <2> QED BY <1>3, <2>1, <2>2, <2>3, SessionServes
<1>4. CASE JobNext
  <2>1. SameRows(View, After)
    BY <1>4, JobServes DEF CInv
  <2>2. CASE /\ After.pr = View.pr
             /\ \E r \in JobServices(job, disk) : After.job = r.job /\ After.disk = r.disk
    <3>1. PICK r \in JobServices(job, disk) : After.job = r.job /\ After.disk = r.disk
      BY <2>2
    <3>2. Leads(View.job, View.disk, r)
      BY <1>1, JobServicesLead
    <3> QED BY <1>1, <2>1, <2>2, <3>1, <3>2, LedContent
  <2>3. CASE After.pr = View.pr /\ After.disk = View.disk /\ Approves(View.job, After.job)
    BY <1>1, <2>1, <2>3, ApprovedContent
  <2>4. CASE Publishes(View, After)
    BY <1>1, <2>1, <2>4, PublishedContent
  <2> QED BY <1>4, <2>2, <2>3, <2>4, JobServes DEF CInv
<1>5. CASE HumanEdit \/ InterruptedRequest
  <2>1. After.job = View.job /\ SameRows(View, After)
    BY <1>5, OutsideServes
  <2>2. CASE /\ After.pr = View.pr
             /\ \E r : Leads(View.job, View.disk, r) /\ After.disk = r.disk
    BY <1>1, <2>1, <2>2, LedContent
  <2>3. CASE \E u : Publishes(View, u) /\ After.pr = u.pr /\ After.disk = u.disk
    BY <1>1, <2>1, <2>3, PublishedContent
  <2> QED BY <1>5, <2>2, <2>3, OutsideServes
<1>6. CASE UNCHANGED vars
  <2>1. After = View
    BY <1>6 DEF vars, After, View
  <2> QED BY <1>1, <2>1
<1> QED BY <1>3, <1>4, <1>5, <1>6 DEF Next

(* The origin of every content is known in every state. *)
THEOREM ContentInvariance == Spec => []CInv
<1>1. Init => CInv
  BY InitContent
<1>2. CInv /\ [Next]_vars => CInv'
  BY ContentStep
<1> QED BY <1>1, <1>2, PTL DEF Spec

(* A pull request the session opened carries the content its approval was
   given for whenever that content was recorded as a patch version of the
   session, for either engine, any calls of both APIs, edits in between, and
   calls that die after git and GitHub have acted. *)
THEOREM RecordedIsCarried == Spec => []PrCarriesRecorded
<1>1. CInv => PrCarriesRecorded
  BY DEF CInv, ContentInv, Carried, PrCarriesRecorded, View
<1> QED BY <1>1, ContentInvariance, PTL

-----------------------------------------------------------------------------
(* The session status. *)

JobApi ==
    {"job/start", "job/plan", "job/generate", "job/execute", "job/repair", "job/approve",
     "job/request-revision", "job/manual-edit-ack", "job/create-pr"}

(* Without calls of the job API the session status stays in step. *)
LEMMA StatusStep ==
    ASSUME Calls \cap JobApi = {}, CInv, SessionStatusSynced, [Next]_vars
    PROVE  SessionStatusSynced'
<1>1. ~JobNext
  BY DEF JobNext, JobApi, StartJobRequest, PlanJobRequest, GenerateJobRequest,
         ExecuteJobRequest, RepairJobRequest, ApproveJobRequest, ReviseJobRequest,
         AckJobRequest, CreatePrJobRequest
<1>2. CASE SessionNext
  <2>1. CASE InStep(After)
    BY <2>1 DEF InStep, After, SessionStatusSynced
  <2>2. CASE ServedBy(View, After) /\ ~InStep(After)
    <3>1. sess'.status = sess.status /\ job.status = "awaiting_plan_approval"
          /\ job'.status = "failed"
      BY <2>2 DEF ServedBy, AtPlanGate, After, View
    <3>2. sess.status = "plan_ready"
      BY <3>1 DEF SessionStatusSynced, SessionStatusOf
    <3> QED BY <3>1, <3>2 DEF SessionStatusSynced
  <2> QED BY <1>2, <2>1, <2>2, SessionServes
<1>3. CASE HumanEdit \/ InterruptedRequest \/ UNCHANGED vars
  BY <1>3 DEF HumanEdit, InterruptedRequest, vars, SessionStatusSynced
<1> QED BY <1>1, <1>2, <1>3 DEF Next

(* Used through its own API alone, a session shows the status of its job, but
   for a plan revision whose plan was refused, whatever the order of the calls
   and wherever one dies; the job API is what takes them apart. *)
THEOREM StatusInStep ==
    ASSUME Calls \cap JobApi = {} PROVE Spec => []SessionStatusSynced
<1>1. Init => CInv /\ SessionStatusSynced
  BY InitContent DEF Init, NewJob, NewSession, SessionStatusSynced, SessionStatusOf
<1>2. CInv /\ SessionStatusSynced /\ [Next]_vars => (CInv /\ SessionStatusSynced)'
  BY ContentStep, StatusStep
<1> QED BY <1>1, <1>2, PTL DEF Spec

-----------------------------------------------------------------------------
(* What was tested is what is in the workspace. *)

Shown == {"awaiting_automation_review", "approved_for_pr"}

(* What is shown or approved is what was run, or a person's edit of it. *)
Tested(j, d) == j.status \in Shown => d.now \in {j.ranOn, d.human}

(* A job that is not shown, or ran on what is there. *)
LEMMA HiddenOrRun ==
    ASSUME NEW r, r.job.status \notin Shown \/ r.job.ranOn = r.disk.now
    PROVE  Tested(r.job, r.disk)
BY DEF Tested

(* A run and its consequence. *)
LEMMA RanTested ==
    ASSUME NEW j \in Jobs, NEW d, NEW verdict, NEW s
    PROVE  Tested(Ran(j, d, verdict, s).job, Ran(j, d, verdict, s).disk)
<1>1. Ran(j, d, verdict, s).job.ranOn = Ran(j, d, verdict, s).disk.now
  BY DEF Ran, Res, Jobs
<1> HIDE DEF Ran
<1> QED BY <1>1, HiddenOrRun

(* A job that is left in another status, whatever was written before. *)
LEMMA HiddenTested ==
    ASSUME NEW j \in Jobs, NEW s, s \notin Shown, NEW d, NEW e
    PROVE  Tested(Res(Status(j, s), d, e).job, Res(Status(j, s), d, e).disk)
BY DEF Tested, Res, Status, Jobs

(* The scan, the plan and the patch. *)
LEMMA DraftingTested ==
    ASSUME NEW j \in Jobs, NEW d \in Disks,
           NEW r \in StartJob(j, d) \cup PlanJob(j, d) \cup GenerateJob(j, d)
    PROVE  Tested(r.job, r.disk)
<1>1. CASE r \in StartJob(j, d)
  <2>1. \/ r.job = Status(j, "failed")
        \/ r.job = [j EXCEPT !.status = "planning_changes", !.ctx = TRUE]
    BY <1>1 DEF StartJob, When, Res
  <2> QED BY <2>1 DEF Tested, Shown, Status, Jobs
<1>2. CASE r \in PlanJob(j, d)
  <2>1. \/ r = Res(Status(j, "failed"), d, "rejected")
        \/ \E p : r = Res([j EXCEPT !.status = "generating_code", !.plan = p], d, "ok")
    BY <1>2 DEF PlanJob, When
  <2>2. ASSUME NEW p, r = Res([j EXCEPT !.status = "generating_code", !.plan = p], d, "ok")
        PROVE  r.job.status = "generating_code"
    BY <2>2 DEF Res, Jobs
  <2>3. CASE r = Res(Status(j, "failed"), d, "rejected")
    BY <2>3, HiddenTested DEF Shown
  <2> QED BY <2>1, <2>2, <2>3 DEF Tested, Shown
<1>3. CASE r \in GenerateJob(j, d)
  <2>1. PICK x \in Write(d) : r \in GenerateOn(j, d, x)
    BY <1>3 DEF GenerateJob
  <2>2. \/ r.job = [j EXCEPT !.status = "executing", !.patch = TRUE]
        \/ r.job = Status(j, "failed")
    BY <2>1 DEF GenerateOn, InvalidPatch, When, Res
  <2> QED BY <2>2 DEF Tested, Shown, Status, Jobs
<1> QED BY <1>1, <1>2, <1>3

(* The repair. *)
LEMMA RepairJobTested ==
    ASSUME NEW j \in Jobs, NEW d \in Disks, NEW r \in RepairJob(j, d)
    PROVE  Tested(r.job, r.disk)
<1> DEFINE k == [j EXCEPT !.repaired = TRUE]
<1>1. k \in Jobs
  BY DEF Jobs
<1>2. \/ \E x, e : \E s \in {"failed", "awaiting_human_input"} : r = Res(Status(k, s), x, e)
      \/ \E x, verdict : \E s \in {"failed", "awaiting_automation_review"} :
             r = Ran(k, x, verdict, s)
  <2> HIDE DEF k
  <2> QED BY DEF RepairJob, RepairApplied, InvalidRepair, When, k
<1>3. "failed" \notin Shown /\ "awaiting_human_input" \notin Shown
  BY DEF Shown
<1> HIDE DEF k
<1> QED BY <1>1, <1>2, <1>3, HiddenTested, RanTested

(* A run of the job, the review of one, and a revision, once it returns. *)
LEMMA FinishedTested ==
    ASSUME NEW r, \/ r.job.status \in {"failed", "awaiting_human_input"}
                  \/ RunStands(r)
    PROVE  Tested(r.job, r.disk)
BY HiddenOrRun DEF Shown, RunStands

(* Every job service but the approval. *)
LEMMA JobServicesTested ==
    ASSUME NEW j \in Jobs, NEW d \in Disks, NEW r \in JobServices(j, d)
    PROVE  Tested(r.job, r.disk)
<1>1. CASE r \in StartJob(j, d) \cup PlanJob(j, d) \cup GenerateJob(j, d)
  BY <1>1, DraftingTested
<1>2. CASE r \in ExecuteJob(j, d)
  BY <1>2, RanTested DEF ExecuteJob, When
<1>3. CASE r \in RepairJob(j, d)
  BY <1>3, RepairJobTested
<1>4. CASE r \in ReviseJob(j, d)
  <2> DEFINE k == Status(j, "revising_after_review")
  <2>1. k \in Jobs /\ Write(d) \subseteq Disks
    BY OpenStatuses, StatusDraft, WriteType
  <2>2. PICK x \in Write(d) : r \in ReviseOn(k, d, x)
    BY <1>4 DEF ReviseJob, When
  <2> HIDE DEF k
  <2> QED BY <2>1, <2>2, ReviseOnTested, FinishedTested
<1>5. CASE r \in AckJob(j, d)
  BY <1>5, RanTested DEF AckJob, Finalize, When
<1> QED BY <1>1, <1>2, <1>3, <1>4, <1>5 DEF JobServices

(* An engine that stops, or whose patch is refused, shows nothing. *)
LEMMA RaisedTested ==
    ASSUME NEW v \in SoundViews, NEW r \in Raised(Worked(v))
    PROVE  Tested(r.job, r.disk)
<1> DEFINE g == Status(v.job, "generating_code")
           k == Status(v.job, "revising_after_review")
<1>1. v.job \in Jobs /\ v.disk \in Disks /\ g \in Jobs /\ k \in Jobs
  BY OpenStatuses, StatusDraft DEF SoundViews, Views
<1>2. ASSUME NEW j \in Jobs, NEW d, NEW q \in EngineStops(j, d), j.status \notin Shown
      PROVE  Tested(q.job, q.disk)
  BY <1>2 DEF EngineStops, Res, Tested
<1>3. ASSUME NEW j \in Jobs, NEW x, NEW y, NEW q \in Raised(GenerateOn(j, x, y))
      PROVE  Tested(q.job, q.disk)
  <2>1. q.job = Status(j, "failed")
    BY <1>3 DEF Raised, GenerateOn, InvalidPatch, When, Res
  <2> QED BY <2>1 DEF Tested, Shown, Status, Jobs
<1>4. ASSUME NEW j \in Jobs, NEW d \in Disks, NEW q \in Raised(AfterPlan(j, d)),
             j.status = "generating_code"
      PROVE  Tested(q.job, q.disk)
  <2>1. q.end # "ok" /\ q \in AfterPlan(j, d)
    BY <1>4 DEF Raised
  <2>2. \A e : q \notin ExecuteJob(e.job, e.disk)
    BY <2>1 DEF ExecuteJob, Ran, Res, When
  <2>3. q \in IF Engine = "stub" THEN GenerateJob(j, d) ELSE CliGenerate(j, d)
    BY <2>1, <2>2 DEF AfterPlan, Raised
  <2>4. \/ q \in EngineStops(j, d)
        \/ \E x, y : q \in GenerateOn(j, x, y)
    BY <2>3 DEF GenerateJob, CliGenerate, ReadBack
  <2>5. j.status \notin Shown
    BY <1>4 DEF Shown
  <2> QED BY <1>2, <1>3, <2>1, <2>4, <2>5 DEF Raised
<1>5. CASE r \in AfterPlan(g, v.disk)
  <2>1. g.status = "generating_code"
    BY <1>1 DEF Status, Jobs
  <2> HIDE DEF g
  <2> QED BY <1>1, <1>4, <1>5, <2>1 DEF Raised
<1>6. CASE r \in Initial(v.job, v.disk)
  <2>1. CASE r \in PlanOnly(v.job, v.disk)
    <3>1. PICK q \in StartJob(v.job, v.disk) : r \in PlanJob(q.job, q.disk)
      BY <2>1 DEF PlanOnly
    <3>2. q.job \in Jobs /\ q.disk \in Disks
      BY <1>1, <3>1, StartJobDraft DEF Draft, Sound, Results
    <3> QED BY <3>1, <3>2, DraftingTested
  <2>2. ASSUME NEW q \in Succeeded(PlanOnly(v.job, v.disk)), r \in AfterPlan(q.job, q.disk)
        PROVE  Tested(r.job, r.disk)
    <3>1. q.job \in Jobs /\ q.disk \in Disks /\ q.job.status = "generating_code"
      BY <1>1, PlanOnlyDraft, PlannedStatus DEF Succeeded, DraftFrom, Draft, Sound, Results
    <3> QED BY <1>4, <2>2, <3>1 DEF Raised
  <2> QED BY <1>6, <2>1, <2>2 DEF Initial, Raised
<1>7. CASE r \in Revision(v.job, v.disk)
  <2>1. r \in EngineStops(k, v.disk) \/ \E x \in Write(v.disk), y \in {v.disk} \cup Write(v.disk) :
                                            r \in ReviseOn(k, y, x)
    BY <1>7 DEF Revision, CliRevise, ReadBackScoped, ReviseJob, When
  <2>2. k.status = "revising_after_review" /\ Write(v.disk) \subseteq Disks
    BY <1>1, WriteType DEF Status, Jobs
  <2>3. k.status \notin Shown
    BY <2>2 DEF Shown
  <2> HIDE DEF k
  <2> QED BY <1>1, <1>2, <2>1, <2>2, <2>3, ReviseOnTested, FinishedTested
<1>8. CASE r \in AckJob(v.job, v.disk)
  BY <1>1, <1>8, RanTested DEF AckJob, Finalize, When
<1> QED BY <1>5, <1>6, <1>7, <1>8 DEF Worked, Raised, When

(* An engine that returns has run what it leaves, or leaves the job failed or
   with a person. *)
LEMMA WorkedEnds ==
    ASSUME NEW v \in SoundViews, NEW r \in Succeeded(Worked(v))
    PROVE  r.job.status \in {"failed", "awaiting_human_input"} \/ RunStands(r)
<1> DEFINE g == Status(v.job, "generating_code")
<1>1. /\ v.job \in Jobs /\ v.disk \in Disks
      /\ g \in Jobs /\ GateInv(g) /\ g.status \notin Closed
  <2>1. v.job \in Jobs /\ v.disk \in Disks
    BY DEF SoundViews, Views
  <2> QED BY <2>1, OpenStatuses, StatusDraft
<1> HIDE DEF g
<1>2. CASE r \in AfterPlan(g, v.disk)
  BY <1>1, <1>2, AfterPlanTested DEF Succeeded
<1>3. CASE r \in Initial(v.job, v.disk)
  BY <1>1, <1>3, InitialTested DEF Succeeded
<1>4. CASE r \in Revision(v.job, v.disk)
  BY <1>1, <1>4, RevisionTested DEF Succeeded
<1>5. CASE r \in AckJob(v.job, v.disk)
  BY <1>1, <1>5, FinalizeTested DEF AckJob, When
<1> QED BY <1>2, <1>3, <1>4, <1>5 DEF Worked, Succeeded, When, g

(* Every result a session endpoint works with. *)
LEMMA ServedTested ==
    ASSUME NEW v \in SoundViews, Tested(v.job, v.disk), NEW r \in Served(v)
    PROVE  Tested(r.job, r.disk)
<1>1. v.job \in Jobs /\ v.disk \in Disks
  BY DEF SoundViews, Views
<1>2. CASE \E e \in Ends : r = Untouched(v, e)
  BY <1>2 DEF Untouched, Res
<1>3. CASE r = Res(Status(v.job, "failed"), v.disk, "rejected")
  BY <1>1, <1>3, HiddenTested DEF Shown
<1>4. CASE r \in Planned(v)
  <2>1. \E j \in Jobs, d \in Disks : r \in PlanJob(j, d)
    <3>1. ASSUME NEW q \in StartJob(v.job, v.disk) PROVE q.job \in Jobs /\ q.disk \in Disks
      BY <1>1, StartJobDraft DEF Draft, Sound, Results
    <3>2. Status(v.job, "planning_changes") \in Jobs
      BY <1>1, OpenStatuses, StatusDraft
    <3> QED BY <1>1, <1>4, <3>1, <3>2 DEF Planned, PlanOnly, When
  <2> QED BY <2>1, DraftingTested
<1>5. ASSUME NEW q \in Planned(v), r = AwaitPlan(q) PROVE Tested(r.job, r.disk)
  <2>1. r.job.status = "awaiting_plan_approval"
    BY <1>5, ServedResults DEF AwaitPlan, Results, Jobs
  <2> QED BY <2>1 DEF Tested, Shown
<1>6. CASE r \in Worked(v)
  <2>1. CASE r.end = "ok"
    BY <1>6, <2>1, WorkedEnds, FinishedTested DEF Succeeded
  <2>2. CASE r.end # "ok"
    BY <1>6, <2>2, RaisedTested DEF Raised
  <2> QED BY <2>1, <2>2
<1>7. ASSUME NEW q \in Succeeded(Worked(v)), r = Promoted(q) PROVE Tested(r.job, r.disk)
  <2>1. q \in Results
    BY ServedResults, DraftResult DEF Succeeded
  <2>2. q.job.status \in {"failed", "awaiting_human_input"} \/ RunStands(q)
    BY WorkedEnds
  <2>3. r.job.status \in {"failed", "awaiting_human_input"} \/ RunStands(r)
    BY <1>7, <2>1, <2>2, ReconciledRun DEF Promoted
  <2> QED BY <2>3, FinishedTested
<1> QED BY <1>2, <1>3, <1>4, <1>5, <1>6, <1>7 DEF Served, When, Succeeded

(* A call that commits keeps the workspace of what is shown tested, but for the
   approval of a job that an engine left in the middle. *)
LEMMA TestedStep ==
    ASSUME CInv, Tested(job, disk), [Next]_vars
    PROVE  \/ Tested(job', disk')
           \/ UNCHANGED <<job, sess, rounds>>
           \/ job.status \in StuckAfterSuccess /\ job'.status = "approved_for_pr"
<1>1. /\ View \in SoundViews /\ job \in Jobs /\ disk \in Disks
      /\ View.job = job /\ View.disk = disk
  BY IInvView DEF CInv, IInv, TypeOK, View
<1>2. After.job = job' /\ After.disk = disk'
  BY DEF After
<1>3. ASSUME Approves(View.job, After.job), After.disk = View.disk
      PROVE  \/ Tested(job', disk')
             \/ job.status \in StuckAfterSuccess /\ job'.status = "approved_for_pr"
  BY <1>1, <1>2, <1>3 DEF Approves, Tested, Shown
<1>4. ASSUME Publishes(View, After) PROVE Tested(job', disk')
  BY <1>2, <1>4 DEF Publishes, Ended, Tested, Shown
<1>5. CASE SessionNext
  <2>1. CASE ServedBy(View, After)
    <3>1. PICK r \in Served(View) : After.job = r.job /\ After.disk = r.disk
      BY <2>1 DEF ServedBy, Serves
    <3>2. Tested(r.job, r.disk)
      BY <1>1, <3>1, ServedTested
    <3> QED BY <1>2, <3>1, <3>2
  <2>2. CASE After.disk = View.disk /\ After.job = View.job
    BY <1>1, <1>2, <2>2
  <2> QED BY <1>3, <1>4, <1>5, <2>1, <2>2, SessionServes
<1>6. CASE JobNext
  <2>1. CASE \E r \in JobServices(job, disk) : After.job = r.job /\ After.disk = r.disk
    BY <1>1, <1>2, <2>1, JobServicesTested
  <2> QED BY <1>3, <1>4, <1>6, <2>1, JobServes DEF CInv
<1>7. CASE HumanEdit
  BY <1>7 DEF HumanEdit
<1>8. CASE InterruptedRequest \/ UNCHANGED vars
  BY <1>8 DEF InterruptedRequest, vars
<1> QED BY <1>5, <1>6, <1>7, <1>8 DEF Next

(* With either engine, and whatever calls are made, edited around or die: bytes
   of the service come behind a run that never saw them only when a request dies
   after it wrote, or when a job that an engine left in the middle is approved. *)
THEOREM UntestedByFailure == Spec => UntestedOnlyByFailure
<1>1. \A j, d : Tested(j, d) <=>
          (j.status \in {"awaiting_automation_review", "approved_for_pr"} =>
              d.now \in {j.ranOn, d.human})
  BY DEF Tested, Shown
<1>2. /\ EngineOutputTested <=> Tested(job, disk)
      /\ EngineOutputTested' <=> Tested(job', disk')
  BY <1>1 DEF EngineOutputTested
<1>3. CInv /\ [Next]_vars =>
          (EngineOutputTested /\ ~EngineOutputTested' =>
              \/ UNCHANGED <<job, sess, rounds>>
              \/ job.status \in StuckAfterSuccess /\ job'.status = "approved_for_pr")
  BY <1>2, TestedStep
<1> QED BY <1>3, ContentInvariance, PTL DEF Spec, UntestedOnlyByFailure

-----------------------------------------------------------------------------
(* A failed job whose repair is spent. *)

Spent(j) == j.status = "failed" /\ j.repaired

(* The workspace stays, and the job stays or was run on it. *)
LeftAlone(j, d, k, e) ==
    /\ e = d
    /\ k = j \/ (k.repaired /\ k.ranOn = d.now /\ k.patch = j.patch)

(* What a run leaves of a spent job. *)
LEMMA SpentFinalize ==
    ASSUME NEW j \in Jobs, Spent(j), NEW d, NEW r \in Finalize(j, d)
    PROVE  LeftAlone(j, d, r.job, r.disk) /\ Reconciled(r.job) = r.job
<1>1. ASSUME NEW verdict, NEW s \in {"awaiting_automation_review", "awaiting_human_input", "failed"}
      PROVE  LET q == Ran(j, d, verdict, s)
             IN  LeftAlone(j, d, q.job, q.disk) /\ Reconciled(q.job) = q.job
  <2> DEFINE q == Ran(j, d, verdict, s)
  <2>1. /\ q.disk = d /\ q.job.repaired = j.repaired /\ q.job.ranOn = d.now
        /\ q.job.patch = j.patch /\ q.job.status = s
    BY <1>1 DEF Ran, Res, Jobs
  <2> HIDE DEF q
  <2>2. LeftAlone(j, d, q.job, q.disk) /\ Reconciled(q.job) = q.job
    BY <1>1, <2>1 DEF LeftAlone, Spent, Reconciled, StuckAfterSuccess
  <2> QED BY <2>2 DEF q
<1> QED BY <1>1 DEF Finalize

(* The job services have nothing to do but that run. *)
LEMMA SpentServices ==
    ASSUME NEW j \in Jobs, Spent(j), NEW d \in Disks
    PROVE  /\ JobServices(j, d) = AckJob(j, d) /\ AckJob(j, d) \subseteq Finalize(j, d)
           /\ GenerateJob(j, d) = {} /\ ReviseJob(j, d) = {} /\ RepairJob(j, d) = {}
           /\ PlanOnly(j, d) = {} /\ Initial(j, d) = {} /\ Revision(j, d) = {}
<1>1. /\ StartJob(j, d) = {} /\ PlanJob(j, d) = {} /\ ExecuteJob(j, d) = {}
      /\ RepairJob(j, d) = {} /\ ReviseJob(j, d) = {} /\ Revision(j, d) = {}
  BY DEF Spent, StartJob, PlanJob, ExecuteJob, RepairJob, ReviseJob, Revision, CanRepair,
         CanRevise, When
<1>2. GenerateJob(j, d) = {}
  BY DEF Spent, GenerateJob, GenerateOn, When
<1>3. PlanOnly(j, d) = {}
  BY <1>1 DEF PlanOnly
<1>4. Initial(j, d) = {}
  BY <1>3 DEF Initial, Raised, Succeeded
<1>5. AckJob(j, d) \subseteq Finalize(j, d)
  BY DEF AckJob, When
<1> QED BY <1>1, <1>2, <1>3, <1>4, <1>5 DEF JobServices

(* Nor has a session endpoint. *)
LEMMA SpentServed ==
    ASSUME NEW v \in SoundViews, Spent(v.job), NEW r \in Served(v)
    PROVE  LeftAlone(v.job, v.disk, r.job, r.disk)
<1>1. v.job \in Jobs /\ v.disk \in Disks
  BY DEF SoundViews, Views
<1>2. ~AtPlanGate(v) /\ ~CanBegin(v)
  BY DEF Spent, AtPlanGate, CanBegin
<1>3. Planned(v) = {}
  BY <1>1, <1>2, SpentServices DEF Planned, When
<1>4. Worked(v) \subseteq Finalize(v.job, v.disk)
  BY <1>1, <1>2, SpentServices DEF Worked, When
<1>5. CASE \E e \in Ends : r = Untouched(v, e)
  BY <1>5 DEF Untouched, Res, LeftAlone
<1>6. CASE r \in Worked(v)
  BY <1>1, <1>4, <1>6, SpentFinalize
<1>7. ASSUME NEW q \in Worked(v), r = Promoted(q)
      PROVE  LeftAlone(v.job, v.disk, r.job, r.disk)
  <2>1. q \in Results /\ LeftAlone(v.job, v.disk, q.job, q.disk) /\ Reconciled(q.job) = q.job
    BY <1>1, <1>4, ServedResults, DraftResult, SpentFinalize
  <2>2. r.job = q.job /\ r.disk = q.disk
    BY <1>7, <2>1 DEF Promoted, Results
  <2> QED BY <2>1, <2>2
<1> QED BY <1>2, <1>3, <1>5, <1>6, <1>7 DEF Served, When, Succeeded

(* Any step. *)
LEMMA SpentStep ==
    ASSUME CInv, Spent(job), [Next]_vars
    PROVE  \/ LeftAlone(job, disk, job', disk')
           \/ job' = job /\ disk'.human = disk'.now
<1>1. /\ View \in SoundViews /\ job \in Jobs /\ disk \in Disks
      /\ View.job = job /\ View.disk = disk /\ Blank(View)
  BY IInvView DEF CInv, ContentInv, IInv, TypeOK, View
<1>2. After.job = job' /\ After.disk = disk'
  BY DEF After
<1>3. ~Live(job) /\ ~Releasable(job)
  BY DEF Spent, Live, Releasable
<1>4. \A w : ~Approves(View.job, w.job) /\ ~Publishes(View, w)
  BY <1>1, <1>3 DEF Approves, Publishes
<1>5. CASE SessionNext
  <2>1. CASE ServedBy(View, After)
    <3>1. PICK r \in Served(View) : After.job = r.job /\ After.disk = r.disk
      BY <2>1 DEF ServedBy, Serves
    <3>2. LeftAlone(job, disk, r.job, r.disk)
      BY <1>1, <3>1, SpentServed
    <3> QED BY <1>2, <3>1, <3>2
  <2>2. CASE After.disk = View.disk /\ After.job = View.job
    BY <1>1, <1>2, <2>2 DEF LeftAlone
  <2> QED BY <1>4, <1>5, <2>1, <2>2, SessionServes
<1>6. CASE JobNext
  <2>1. PICK r \in JobServices(job, disk) : After.job = r.job /\ After.disk = r.disk
    BY <1>4, <1>6, JobServes DEF CInv
  <2>2. LeftAlone(job, disk, r.job, r.disk)
    BY <1>1, <2>1, SpentServices, SpentFinalize
  <2> QED BY <1>2, <2>1, <2>2
<1>7. CASE HumanEdit
  BY <1>7 DEF HumanEdit
<1>8. CASE InterruptedRequest
  <2>1. GenerateJob(job, disk) \cup ReviseJob(job, disk) \cup RepairJob(job, disk) = {}
    BY <1>1, SpentServices
  <2>2. JobCall({}) = {}
    BY DEF JobCall
  <2>3. PICK u \in StartSession(View) \cup ReviseSession(View) \cup CreatePrSession(View)
                       \cup CreatePrJob(View) : disk' = u.disk
    BY <1>8, <2>1, <2>2 DEF InterruptedRequest
  <2>4. u \in StartSession(View) \cup ReviseSession(View)
    BY <1>1, <1>4, <2>3, CreatePrSessionPublishes, CreatePrJobPublishes
  <2>5. PICK r \in Served(View) : u.disk = r.disk
    BY <1>1, <2>4, StartSessionServes, ReviewServes DEF ServedBy, Serves
  <2>6. r.disk = disk
    BY <1>1, <2>5, SpentServed DEF LeftAlone
  <2> QED BY <1>8, <2>3, <2>5, <2>6 DEF InterruptedRequest, LeftAlone
<1>9. CASE UNCHANGED vars
  BY <1>9 DEF vars, LeftAlone
<1> QED BY <1>5, <1>6, <1>7, <1>8, <1>9 DEF Next

(* Once its one repair is spent, no call of either API, and no call that dies,
   writes the workspace of a failed job or gives the job more than a run of
   the workspace as it is. *)
THEOREM SpentLeftAlone == Spec => RepairSpent
<1>1. CInv /\ [Next]_vars =>
          (job.status = "failed" /\ job.repaired =>
              /\ disk'.now # disk.now => disk'.human = disk'.now /\ job' = job
              /\ job' # job => job'.repaired /\ job'.ranOn = disk.now /\ job'.patch = job.patch)
  BY SpentStep DEF Spent, LeftAlone
<1> QED BY <1>1, ContentInvariance, PTL DEF Spec, RepairSpent

===============================================================================
