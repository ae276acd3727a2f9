---------------------------- MODULE AutomationOps ----------------------------
(***************************************************************************)
(* The services of the automation control plane as operators: what one     *)
(* call may make of the rows it loaded.  Each operator takes the rows as   *)
(* they were read and returns the SET of results a committed call can      *)
(* leave; a call that raises an error the route does not commit (every     *)
(* ValueError) has no result in the set.  The modules that EXTEND this one *)
(* decide when a call reads, when it commits, and what happens to others   *)
(* in between.                                                             *)
(*                                                                         *)
(* Data is abstracted to what the properties tell apart.  A plan touches   *)
(* one test file, and that file in a workspace is one number, its content: *)
(* 1 is the plain checkout, every write that changes something issues the  *)
(* next number, and 0 stands for no content.  A change plan is its version *)
(* number, 0 for none.                                                     *)
(***************************************************************************)
EXTENDS Naturals, FiniteSets

CONSTANTS
    Engine,       \* "stub" (in-process provider) or "cli" (claude_code, copilot_agent)
    MaxRounds,    \* bound: revision rounds of the session
    MaxPlans,     \* bound: change plans created
    MaxContents   \* bound: distinct workspace contents

ASSUME EngineAssumption == Engine \in {"stub", "cli"}
ASSUME BoundsAssumption ==
    MaxRounds \in Nat \ {0} /\ MaxPlans \in Nat /\ MaxContents \in Nat \ {0}

-----------------------------------------------------------------------------
(* Rows. *)

JobStatus ==
    {"pending", "planning_changes", "awaiting_plan_approval", "generating_code",
     "executing", "revising_after_review", "awaiting_automation_review",
     "awaiting_human_input", "approved_for_pr", "pr_created",
     "pr_creation_failed", "failed"}

SessionStatus ==
    {"pending", "planning", "plan_ready", "generating", "executing",
     "awaiting_review", "approved_for_pr", "pr_created", "pr_failed", "failed"}

Plans    == 0..MaxPlans
Contents == 0..MaxContents
Verdicts == {"none", "passed", "failed"}

(* automation_jobs.  ctx: framework_summary, case_spec and repo_context are
   all stored.  exec is execution_result_json.success, ranOn the content that
   run saw.  approvedOn is the content whose run a reviewer approved (history,
   no column holds it). *)
Jobs == [status : JobStatus, ctx : BOOLEAN, plan : Plans, patch : BOOLEAN,
         exec : Verdicts, ranOn : Contents, repaired : BOOLEAN,
         approvedOn : Contents]

NewJob == [status |-> "pending", ctx |-> FALSE, plan |-> 0, patch |-> FALSE,
           exec |-> "none", ranOn |-> 0, repaired |-> FALSE, approvedOn |-> 0]

(* The workspace directory.  made: contents issued so far; human: the last
   content written by a person, 0 if none. *)
Disks   == [now : Contents, made : Contents, human : Contents]
NewDisk == [now |-> 1, made |-> 1, human |-> 0]

When(condition, results) == IF condition THEN results ELSE {}

(* What a write by the system leaves: the same bytes, or a content never seen. *)
Write(d) ==
    {d} \cup When(d.made < MaxContents,
                  {[d EXCEPT !.now = d.made + 1, !.made = d.made + 1]})

(* One result of a job service: the row, the workspace, and how it ended:
   "ok", or the class of error the caller sees.  *)
Ends == {"ok", "rejected", "engine"}
Res(j, d, end) == [job |-> j, disk |-> d, end |-> end]

-----------------------------------------------------------------------------
(* Job services. *)

ExecPrereq(j) == j.ctx /\ (j.plan # 0 \/ j.patch)

Status(j, s) == [j EXCEPT !.status = s]

(* The scan, the case spec and the repo context are built, or the job fails. *)
StartJob(j, d) ==
    When(j.status = "pending",
         {Res(Status(j, "failed"), d, "ok"),
          Res([j EXCEPT !.status = "planning_changes", !.ctx = TRUE], d, "ok")})

PlanJob(j, d) ==
    When(j.status = "planning_changes" /\ j.ctx,
         {Res(Status(j, "failed"), d, "rejected")}
         \cup {Res([j EXCEPT !.status = "generating_code", !.plan = p], d, "ok") :
                  p \in {j.plan + 1} \cap Plans})

(* validate_generated_patch and validate_repair_patch: a patch that is
   malformed or leaves the plan is refused before any of it is written.  The
   first raises, the second is an outcome of the call. *)
InvalidPatch(j, before)  == Res(Status(j, "failed"), before, "rejected")
InvalidRepair(j, before) == Res(Status(j, "failed"), before, "ok")

(* The patch is refused (disk as before), apply_generated_patch fails after
   writing some of the files, or all of them are in place (disk as after). *)
GenerateOn(j, before, after) ==
    When(j.status = "generating_code" /\ j.ctx /\ j.plan # 0,
         {InvalidPatch(j, before), Res(Status(j, "failed"), after, "rejected")}
         \cup {Res([j EXCEPT !.status = "executing", !.patch = TRUE], after, "ok")})

GenerateJob(j, d) == UNION {GenerateOn(j, d, x) : x \in Write(d)}

(* A Playwright run on the workspace as it is. *)
Ran(j, d, verdict, status) ==
    Res([j EXCEPT !.exec = verdict, !.ranOn = d.now, !.status = status], d, "ok")

ExecuteJob(j, d) ==
    When(j.status = "executing" /\ ExecPrereq(j),
         {Ran(j, d, "passed", "awaiting_automation_review"),
          Ran(j, d, "failed", "failed")})

(* finalize_post_review_execution: a failing run may ask for a person. *)
Finalize(j, d) ==
    {Ran(j, d, "passed", "awaiting_automation_review"),
     Ran(j, d, "failed", "awaiting_human_input"),
     Ran(j, d, "failed", "failed")}

(* Fault: the repair may be tried again. *)
CanRepairAgain(j) == j.status = "failed" /\ j.exec = "failed" /\ j.ctx /\ j.plan # 0

(* Failure analysis decides whether a person is asked, nothing is done, or a
   patch is tried once and the tests run again. *)
CanRepair(j) ==
    j.status = "failed" /\ ~j.repaired /\ j.exec = "failed" /\ j.ctx /\ j.plan # 0

(* The patch is refused while it is applied, or in place and the tests run. *)
RepairApplied(j, d) ==
    {Res(Status(j, "failed"), d, "ok"),
     Ran(j, d, "passed", "awaiting_automation_review"),
     Ran(j, d, "failed", "failed")}

RepairJob(j, d) ==
    LET tried == [j EXCEPT !.repaired = TRUE]
        skipped == {Res(Status(tried, s), d, "ok") :
                       s \in {"awaiting_human_input", "failed"}}
    IN  When(CanRepair(j),
             skipped \cup {InvalidRepair(tried, d)}
                     \cup UNION {RepairApplied(tried, x) : x \in Write(d)})

ApproveJob(j, d) ==
    When(j.status = "awaiting_automation_review",
         {Res([j EXCEPT !.status = "approved_for_pr", !.approvedOn = j.ranOn], d, "ok")})

(* Fault: a revision that fails returns without setting the status. *)
ReviseOnUnset(j, before, after) ==
    {Res(j, x, "ok") : x \in {before, after}}
    \cup Finalize([j EXCEPT !.patch = TRUE], after)

(* From revising_after_review: the patch is not produced or invalid, fails
   while it is applied, or is in place and the tests run again. *)
ReviseOn(j, before, after) ==
    {InvalidRepair(j, before), Res(Status(j, "failed"), after, "ok")}
    \cup Finalize([j EXCEPT !.patch = TRUE], after)

CanRevise(j) == j.status = "awaiting_automation_review" /\ ExecPrereq(j)

ReviseJob(j, d) ==
    When(CanRevise(j),
         UNION {ReviseOn(Status(j, "revising_after_review"), d, x) : x \in Write(d)})

CanAck(j) ==
    j.status \in {"awaiting_automation_review", "failed"} /\ ExecPrereq(j)

AckJob(j, d) == When(CanAck(j), Finalize(j, d))

(* reconcile_job_for_session_approve *)
StuckAfterSuccess == {"executing", "revising_after_review", "generating_code"}

(* Fault: the stored execution result is not looked at. *)
ReconciledBlind(j) ==
    IF j.status \in StuckAfterSuccess /\ ExecPrereq(j)
    THEN Status(j, "awaiting_automation_review")
    ELSE j

Reconciled(j) ==
    IF j.status \in StuckAfterSuccess /\ j.exec = "passed" /\ ExecPrereq(j)
    THEN Status(j, "awaiting_automation_review")
    ELSE j

-----------------------------------------------------------------------------
(* Coding engine adapters: sequences of job services in one call.  A CLI    *)
(* edits the workspace itself; its patch is read back from disk, so         *)
(* applying it changes nothing, and a CLI that times out, exits non-zero or *)
(* leaves a planned file out raises after it may have written.              *)

Succeeded(results) == {r \in results : r.end = "ok"}
Raised(results)    == {r \in results : r.end # "ok"}

(* A failed start leaves a job that planning refuses (ValueError): no result. *)
PlanOnly(j, d) ==
    UNION {PlanJob(r.job, r.disk) : r \in StartJob(j, d)}

(* Fault: the job gets back the status it had before the revision. *)
EngineStopsRestored(j, d) ==
    {Res(IF j.status = "revising_after_review" THEN Status(j, "awaiting_automation_review") ELSE j,
         x, "engine") : x \in Write(d)}

EngineStops(j, d) == {Res(j, x, "engine") : x \in Write(d)}

(* A patch read from disk holds what the files hold now. *)
ReadBack(j, d)       == GenerateOn(j, d, d)
ReadBackScoped(j, d) == ReviseOn(j, d, d)

(* claude_code and copilot_agent take the same steps. *)
CliGenerate(j, d) == EngineStops(j, d) \cup UNION {ReadBack(j, x) : x \in Write(d)}
CliRevise(j, d) == EngineStops(j, d) \cup UNION {ReadBackScoped(j, x) : x \in Write(d)}

AfterPlan(j, d) ==
    LET generated == IF Engine = "stub" THEN GenerateJob(j, d) ELSE CliGenerate(j, d)
    IN  Raised(generated)
        \cup UNION {ExecuteJob(r.job, r.disk) : r \in Succeeded(generated)}

Initial(j, d) ==
    LET planned == PlanOnly(j, d)
    IN  Raised(planned)
        \cup UNION {AfterPlan(r.job, r.disk) : r \in Succeeded(planned)}

Revision(j, d) ==
    IF Engine = "stub" THEN ReviseJob(j, d)
    ELSE When(CanRevise(j), CliRevise(Status(j, "revising_after_review"), d))

=============================================================================
