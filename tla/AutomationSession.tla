--------------------------- MODULE AutomationSession ---------------------------
(***************************************************************************)
(* One automation session with its job, served one request at a time: one  *)
(* action per endpoint of /automation/sessions/{id} and of                 *)
(* /automation/jobs/{id}, a person editing the workspace, and a request    *)
(* that dies before its transaction commits.  Each request is one database *)
(* transaction; the workspace and GitHub are outside it.                   *)
(***************************************************************************)
EXTENDS PullRequestOps

CONSTANT Calls   \* the operations clients use

AllCalls ==
    {"prepare-plan", "approve-plan", "request-plan-revision", "start",
     "request-revision", "manual-edit-ack", "approve", "create-pr",
     "job/start", "job/plan", "job/generate", "job/execute", "job/repair",
     "job/approve", "job/request-revision", "job/manual-edit-ack",
     "job/create-pr", "edit", "interrupt"}

ASSUME CallsAssumption == Calls \subseteq AllCalls

VARIABLES
    job,      \* the automation_jobs row
    sess,     \* the automation_sessions row
    rounds,   \* the automation_revision_rounds rows, by round_number
    pr,       \* the pull request on GitHub
    disk      \* the workspace directory

vars == <<job, sess, rounds, pr, disk>>

View == [job |-> job, sess |-> sess, rounds |-> rounds, pr |-> pr,
         disk |-> disk]

Init ==
    /\ job = NewJob
    /\ sess = NewSession
    /\ rounds = [n \in 1..MaxRounds |-> AbsentRound]
    /\ pr = NoPr
    /\ disk = NewDisk

(* A job endpoint runs one job service and leaves the session rows alone. *)
JobCall(results) == {Kept(View, r) : r \in results}

Committed(results) ==
    \E v \in results :
        /\ job' = v.job /\ sess' = v.sess /\ rounds' = v.rounds
        /\ pr' = v.pr /\ disk' = v.disk

-----------------------------------------------------------------------------
(* /automation/sessions/{id} *)

PreparePlanRequest     == "prepare-plan" \in Calls /\ Committed(PreparePlan(View))
ApprovePlanRequest     == "approve-plan" \in Calls /\ Committed(ApprovePlan(View))
RevisePlanRequest      == "request-plan-revision" \in Calls /\ Committed(RevisePlan(View))
StartRequest           == "start" \in Calls /\ Committed(StartSession(View))
ReviseRequest          == "request-revision" \in Calls /\ Committed(ReviseSession(View))
AckRequest             == "manual-edit-ack" \in Calls /\ Committed(AckSession(View))
ApproveRequest         == "approve" \in Calls /\ Committed(ApproveSession(View))
CreatePrRequest        == "create-pr" \in Calls /\ Committed(CreatePrSession(View))

(* /automation/jobs/{id} *)

StartJobRequest    == "job/start" \in Calls /\ Committed(JobCall(StartJob(job, disk)))
PlanJobRequest     == "job/plan" \in Calls /\ Committed(JobCall(PlanJob(job, disk)))
GenerateJobRequest == "job/generate" \in Calls /\ Committed(JobCall(GenerateJob(job, disk)))
ExecuteJobRequest  == "job/execute" \in Calls /\ Committed(JobCall(ExecuteJob(job, disk)))
RepairJobRequest   == "job/repair" \in Calls /\ Committed(JobCall(RepairJob(job, disk)))
ApproveJobRequest  == "job/approve" \in Calls /\ Committed(JobCall(ApproveJob(job, disk)))
ReviseJobRequest   == "job/request-revision" \in Calls /\ Committed(JobCall(ReviseJob(job, disk)))
AckJobRequest      == "job/manual-edit-ack" \in Calls /\ Committed(JobCall(AckJob(job, disk)))
CreatePrJobRequest == "job/create-pr" \in Calls /\ Committed(CreatePrJob(View))

(* Outside the service. *)

(* A person edits the generated files in the workspace. *)
HumanEdit ==
    /\ "edit" \in Calls
    /\ disk.made < MaxContents
    /\ disk' = [now |-> disk.made + 1, made |-> disk.made + 1, human |-> disk.made + 1]
    /\ UNCHANGED <<job, sess, rounds, pr>>

(* A request dies, or raises an error its route does not commit, after all
   its side effects: the rows stay, the workspace and GitHub do not roll
   back. *)
InterruptedRequest ==
    /\ "interrupt" \in Calls
    /\ \E v \in StartSession(View) \cup ReviseSession(View) \cup CreatePrSession(View)
                \cup JobCall(GenerateJob(job, disk) \cup ReviseJob(job, disk)
                             \cup RepairJob(job, disk))
                \cup CreatePrJob(View) :
          pr' = v.pr /\ disk' = v.disk
    /\ UNCHANGED <<job, sess, rounds>>

SessionNext ==
    \/ PreparePlanRequest \/ ApprovePlanRequest \/ RevisePlanRequest \/ StartRequest
    \/ ReviseRequest \/ AckRequest \/ ApproveRequest \/ CreatePrRequest

JobNext ==
    \/ StartJobRequest \/ PlanJobRequest \/ GenerateJobRequest \/ ExecuteJobRequest
    \/ RepairJobRequest \/ ApproveJobRequest \/ ReviseJobRequest \/ AckJobRequest
    \/ CreatePrJobRequest

Next == SessionNext \/ JobNext \/ HumanEdit \/ InterruptedRequest

Spec == Init /\ [][Next]_vars

-----------------------------------------------------------------------------
(* Properties. *)

(* Every row and the workspace hold values their columns can hold. *)
TypeOK ==
    /\ job \in Jobs
    /\ sess \in Sessions
    /\ rounds \in [1..MaxRounds -> Rounds]
    /\ pr \in Prs
    /\ disk \in Disks

(* A job shown to a reviewer, approved, or with its pull request open has a
   passing latest run and the scan, context and plan or patch the run needs:
   no endpoint of either API, in any order, reaches these states around the
   test run. *)
ReviewGate ==
    job.status \in {"awaiting_automation_review", "approved_for_pr", "pr_created"} =>
        job.exec = "passed" /\ ExecPrereq(job)

(* While a job is approved its latest run is the run that was approved. *)
ApprovedRunStands ==
    job.status = "approved_for_pr" => job.approvedOn = job.ranOn

(* plan_approved_at set means: the plan in the job is the plan that was
   approved and the current plan version. *)
ApprovedPlanInForce ==
    sess.approvedPlan # 0 =>
        sess.approvedPlan = job.plan /\ sess.approvedPlan = sess.currentPlan

(* While round 1 pauses for plan approval nothing has been generated or run. *)
PlanPause ==
    rounds[1].status = "in_progress" =>
        ~job.patch /\ job.exec = "none" /\ sess.round = 0

(* The round ledger agrees with current_round_number: rounds up to it are
   closed, and beyond it there is at most one, the paused first round or a
   round that failed. *)
RoundLedger ==
    \A n \in 1..MaxRounds :
        /\ n <= sess.round => rounds[n].status \in {"completed", "failed"}
        /\ n = sess.round + 1 =>
               \/ rounds[n].status \in {"absent", "failed"}
               \/ rounds[n].status = "in_progress" /\ rounds[n].trigger = "initial"
        /\ n > sess.round + 1 => rounds[n].status = "absent"

(* A completed round records a passing attempt, and when it records a patch
   version the attempt ran on exactly that content. *)
CompletedRounds ==
    \A n \in 1..MaxRounds :
        rounds[n].status = "completed" =>
            /\ rounds[n].attempt = "passed"
            /\ rounds[n].patch \in {0, rounds[n].ranOn}

(* The stored session status follows the job, except after a plan revision
   whose plan was rejected. *)
SessionStatusSynced ==
    \/ sess.status = SessionStatusOf(job.status)
    \/ sess.status = "plan_ready" /\ job.status = "failed"

(* What a reviewer sees or has approved was tested, unless a person edited
   the workspace since: the service itself never leaves newer bytes of its
   own behind a passing run. *)
EngineOutputTested ==
    job.status \in {"awaiting_automation_review", "approved_for_pr"} =>
        disk.now \in {job.ranOn, disk.human}

(* In what is shown or approved, bytes of the service come to stand behind a run
   that never saw them in two ways only: a request died after it wrote, and its
   rows stayed; or an approval promoted a job that an engine left in the middle. *)
UntestedOnlyByFailure ==
    [][EngineOutputTested /\ ~EngineOutputTested' =>
          \/ UNCHANGED <<job, sess, rounds>>
          \/ job.status \in StuckAfterSuccess /\ job'.status = "approved_for_pr"]_vars

(* The session's pull request carries the content whose run was approved. *)
PrCarriesApproved ==
    pr.via = "session" => pr.content = pr.approved

(* ... at least when that content is one the session recorded as a patch
   version: no other version is published in its place. *)
PrCarriesRecorded ==
    pr.via = "session" /\ (\E n \in 1..MaxRounds : rounds[n].patch = pr.approved) =>
        pr.content = pr.approved

(* The next review round can be opened through the session whenever the same
   revision would be accepted through the job. *)
SessionLoopOpen ==
    CanRevise(job) /\ sess.round \in 1..(MaxRounds - 1) => Slot(View, sess.round + 1)

(* A failed job whose one repair is spent is left alone by the service: only
   a person changes its workspace, and the only step of the job is a test run
   of the workspace as it is. *)
RepairSpent ==
    [][job.status = "failed" /\ job.repaired =>
          /\ disk'.now # disk.now => disk'.human = disk'.now /\ job' = job
          /\ job' # job => job'.repaired /\ job'.ranOn = disk.now /\ job'.patch = job.patch]_vars

(* The control plane implements the gate its users rely on. *)
GatePhase ==
    CASE job.status = "awaiting_automation_review" -> "in_review"
      [] job.status \in {"approved_for_pr", "pr_creation_failed"} -> "approved"
      [] job.status = "pr_created" -> "published"
      [] OTHER -> "working"

Gate == INSTANCE PrGate WITH phase <- GatePhase, passed <- job.exec = "passed"

ImplementsGate == Gate!GateSpec

=============================================================================
