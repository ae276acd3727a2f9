------------------------------ MODULE SessionOps ------------------------------
(***************************************************************************)
(* The session control plane over one automation job: each endpoint of     *)
(* /automation/sessions (and the pull-request endpoint of the job) as the  *)
(* set of results a committed call can leave, given a view v of the rows   *)
(* the call read.  A view is a record                                      *)
(*   [job, sess, rounds, pr, disk]                                         *)
(***************************************************************************)
EXTENDS AutomationOps

(* automation_sessions.  approvedPlan abstracts plan_approved_at: 0 while it
   is null, else the plan that was in the job when it was set.  currentPlan:
   the plan of the current automation_plan_versions row, 0 if none;
   currentPatch: the round of the current automation_patch_versions row. *)
Sessions == [status : SessionStatus, round : 0..MaxRounds,
             approvedPlan : Plans, currentPlan : Plans,
             currentPatch : 0..MaxRounds]

NewSession == [status |-> "pending", round |-> 0, approvedPlan |-> 0,
               currentPlan |-> 0, currentPatch |-> 0]

(* automation_revision_rounds, with the review request, the patch version
   (the content hydrated from disk) and the execution attempt (its verdict
   and the content it saw) recorded for the round. *)
Triggers == {"none", "initial", "review_revision", "manual_edit_rerun"}
Rounds == [trigger : Triggers,
           status  : {"absent", "in_progress", "completed", "failed"},
           request : {"none", "applied", "failed"},
           patch   : Contents, attempt : Verdicts, ranOn : Contents]

AbsentRound == [trigger |-> "none", status |-> "absent", request |-> "none",
                patch |-> 0, attempt |-> "none", ranOn |-> 0]

(* The pull request on GitHub: the content it carries and the content its
   approval was given for; via "none" while there is none. *)
Prs  == [via : {"none", "session", "job"}, content : Contents, approved : Contents]
NoPr == [via |-> "none", content |-> 0, approved |-> 0]

(* Fault: the job status is stored as it is. *)
SessionStatusRaw(status) == status

SessionStatusOf(status) ==
    CASE status = "pending"                -> "pending"
      [] status = "planning_changes"       -> "planning"
      [] status = "awaiting_plan_approval" -> "plan_ready"
      [] status = "generating_code"        -> "generating"
      [] status \in {"executing", "revising_after_review"} -> "executing"
      [] status \in {"awaiting_automation_review", "awaiting_human_input"} -> "awaiting_review"
      [] status = "approved_for_pr"        -> "approved_for_pr"
      [] status = "pr_created"             -> "pr_created"
      [] status = "pr_creation_failed"     -> "pr_failed"
      [] OTHER                             -> "failed"

-----------------------------------------------------------------------------
(* Shared parts. *)

(* Fault: no unique constraint on the round number. *)
SlotAny(v, n) == n \in 1..MaxRounds

(* Unique (session, round_number): the insert fails when the row exists. *)
Slot(v, n) == n \in 1..MaxRounds /\ v.rounds[n].status = "absent"

(* The result of a job service, left by a job endpoint. *)
Kept(v, r) == [v EXCEPT !.job = r.job, !.disk = r.disk]

(* Fault: the session status is not synced. *)
SyncedNever(v, r) == Kept(v, r)

(* ... and by a session endpoint, which syncs the session status. *)
Synced(v, r) ==
    [Kept(v, r) EXCEPT !.sess.status = SessionStatusOf(r.job.status)]

Untouched(v, end) == Res(v.job, v.disk, end)

FailRound(v, n, trigger, request) ==
    [v EXCEPT !.rounds[n] = [@ EXCEPT !.trigger = trigger,
                                      !.status = "failed",
                                      !.request = request]]

(* Fault: current_round_number does not advance. *)
RecordInPlace(v, n, trigger, status, request, withPatch) ==
    LET patched == withPatch /\ v.job.patch
    IN  [v EXCEPT
           !.rounds[n] = [trigger |-> trigger, status |-> status, request |-> request,
                          patch |-> IF patched THEN v.disk.now ELSE 0,
                          attempt |-> v.job.exec, ranOn |-> v.job.ranOn],
           !.sess.currentPatch = IF patched THEN n ELSE @]

(* Fault: the old current patch version keeps its flag. *)
RecordKeepsPatch(v, n, trigger, status, request, withPatch) ==
    LET s == RecordInPlace(v, n, trigger, status, request, withPatch)
    IN  [s EXCEPT !.sess.round = n,
                  !.sess.currentPatch = IF v.sess.currentPatch # 0 THEN v.sess.currentPatch ELSE @]

(* A finished round with what it recorded; status is decided by the caller. *)
Record(v, n, trigger, status, request, withPatch) ==
    LET patched == withPatch /\ v.job.patch
    IN  [v EXCEPT
           !.rounds[n] = [trigger |-> trigger, status |-> status, request |-> request,
                          patch |-> IF patched THEN v.disk.now ELSE 0,
                          attempt |-> v.job.exec, ranOn |-> v.job.ranOn],
           !.sess.currentPatch = IF patched THEN n ELSE @,
           !.sess.round = n]

(* Fault: the test of the start path is used for review rounds too. *)
RoundStatusAsStart(j) == IF j.status = "failed" THEN "failed" ELSE "completed"

RoundStatus(j) ==
    IF j.status = "awaiting_automation_review" THEN "completed" ELSE "failed"

-----------------------------------------------------------------------------
(* Start: with or without a pause for plan approval. *)

CanBegin(v) == v.sess.round = 0 /\ v.job.status = "pending"

AtPlanGate(v) ==
    /\ v.job.status = "awaiting_plan_approval"
    /\ v.rounds[1].trigger = "initial" /\ v.rounds[1].status = "in_progress"

(* Clone, bootstrap or runtime preparation fails before round 1 exists. *)
PreparationFails(v) ==
    Synced(v, Res(Status(v.job, "failed"), v.disk, "rejected"))

AwaitPlan(r) == [r EXCEPT !.job.status = "awaiting_plan_approval"]

(* Fault: the round is left in progress. *)
InitialFailsOpen(v, r) ==
    [Synced(v, r) EXCEPT
        !.rounds[1] = [AbsentRound EXCEPT !.trigger = "initial", !.status = "in_progress"],
        !.sess.round = IF @ = 0 THEN 1 ELSE @]

(* _handle_initial_engine_errors *)
InitialFails(v, r) ==
    LET s == FailRound(Synced(v, r), 1, "initial", "none")
    IN  [s EXCEPT !.sess.round = IF @ = 0 THEN 1 ELSE @]

PreparePlan(v) ==
    LET slot    == CanBegin(v) /\ Slot(v, 1)
        results == When(slot, PlanOnly(v.job, v.disk))
    IN  When(v.job.status = "awaiting_plan_approval", {Synced(v, Untouched(v, "ok"))})
        \cup When(CanBegin(v), {PreparationFails(v)})
        \cup When(slot, {InitialFails(v, Untouched(v, "rejected"))})
        \cup {InitialFails(v, r) : r \in Raised(results)}
        \cup {[Synced(v, AwaitPlan(r)) EXCEPT
                  !.rounds[1] = [AbsentRound EXCEPT !.trigger = "initial",
                                                    !.status = "in_progress"],
                  !.sess.approvedPlan = 0,
                  !.sess.currentPlan = r.job.plan] : r \in Succeeded(results)}

ApprovePlan(v) ==
    When(AtPlanGate(v),
         {[Synced(v, Untouched(v, "ok")) EXCEPT !.sess.approvedPlan = v.job.plan]})

(* Fault: plan_approved_at survives the revision of the plan. *)
RevisePlanApproved(v) ==
    LET results == When(AtPlanGate(v), PlanJob(Status(v.job, "planning_changes"), v.disk))
    IN  {Kept(v, r) : r \in Raised(results)}
        \cup {[Synced(v, AwaitPlan(r)) EXCEPT !.sess.currentPlan = r.job.plan] :
                  r \in Succeeded(results)}

(* A rejected plan is committed as it was raised: the job has failed, the
   session status is not synced and the round stays in progress. *)
RevisePlan(v) ==
    LET results == When(AtPlanGate(v), PlanJob(Status(v.job, "planning_changes"), v.disk))
    IN  {[Kept(v, r) EXCEPT !.sess.approvedPlan = 0] : r \in Raised(results)}
        \cup {[Synced(v, AwaitPlan(r)) EXCEPT
                  !.sess.approvedPlan = 0,
                  !.sess.currentPlan = r.job.plan] : r \in Succeeded(results)}

FirstRound(v, r, plan) ==
    LET done == [r EXCEPT !.job = Reconciled(@)]
        s    == [Synced(v, done) EXCEPT !.sess.currentPlan = plan]
    IN  Record(s, 1, "initial", IF done.job.status = "failed" THEN "failed" ELSE "completed",
               "none", TRUE)

(* Engine configuration, repository access and scan errors come before the
   job is touched; round 1 exists by then. *)
StartSession(v) ==
    LET approved == When(AtPlanGate(v) /\ v.sess.approvedPlan # 0,
                         AfterPlan(Status(v.job, "generating_code"), v.disk))
        oneShot  == When(CanBegin(v) /\ Slot(v, 1),
                         Initial(v.job, v.disk) \cup {Untouched(v, "engine")})
    IN  When(CanBegin(v), {PreparationFails(v)})
        \cup {InitialFails(v, r) : r \in Raised(approved \cup oneShot)}
        \cup {FirstRound(v, r, v.sess.currentPlan) : r \in Succeeded(approved)}
        \cup {FirstRound(v, r, r.job.plan) : r \in Succeeded(oneShot)}

-----------------------------------------------------------------------------
(* Review. *)

(* The round number is taken from the session row.  Bootstrap and engine
   configuration fail before the job's status is looked at; a revision that
   leaves the scoped files as they were is an error whatever the tests said.
   None of these moves current_round_number. *)
ReviseSession(v) ==
    LET n       == v.sess.round + 1
        results == Revision(v.job, v.disk) \cup {Untouched(v, "engine")}
        applied == {r \in Succeeded(results) : r.disk.now # v.disk.now}
        done(r) == [r EXCEPT !.job = Reconciled(@)]
    IN  When(Slot(v, n),
             {FailRound(Synced(v, r), n, "review_revision", "failed") : r \in results \ applied}
             \cup {Record(Synced(v, done(r)), n, "review_revision",
                          RoundStatus(done(r).job), "applied", TRUE) : r \in applied})

AckSession(v) ==
    LET n == v.sess.round + 1
    IN  When(Slot(v, n),
             {FailRound(Synced(v, Untouched(v, "engine")), n, "manual_edit_rerun", "failed")}
             \cup {Record(Synced(v, r), n, "manual_edit_rerun", RoundStatus(r.job),
                          "applied", FALSE) : r \in AckJob(v.job, v.disk)})

ApproveSession(v) ==
    When(v.job.status = "approved_for_pr", {Synced(v, Untouched(v, "ok"))})
    \cup {Synced(v, r) : r \in ApproveJob(Reconciled(v.job), v.disk)}

=============================================================================
