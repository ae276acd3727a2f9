---------------------------- MODULE PullRequestOps ----------------------------
(***************************************************************************)
(* Opening the pull request: the pipelines of the session and of the job   *)
(* endpoint as sets of committed results.  Both refresh the branch from    *)
(* the base, run the tests again when the base moved or the last run did   *)
(* not pass, commit, push and call GitHub.  They differ in what they       *)
(* commit: the session writes the files of the current patch version onto  *)
(* the branch first, the job commits the workspace as it is.               *)
(* Whether git and GitHub let a step pass is left open here: every step may *)
(* fail, and a workspace may have to be cloned again.                      *)
(***************************************************************************)
EXTENDS SessionOps

(* Fault: the refusal of GitHub is taken for an answer. *)
CanOpenTwice(v) == v.pr.via \in {"none", "session", "job"}

(* GitHub refuses a second pull request for the same head and base. *)
CanOpen(v) == v.pr.via = "none"

(* The rows as the tests before the commit leave them: not run when the base
   did not move and the last run passed. *)
Refreshed(j, d) ==
    When(j.exec = "passed", {Res(j, d, "ok")})
    \cup {Res([j EXCEPT !.exec = "passed", !.ranOn = d.now], d, "ok")}

RefreshFails(j, d) == [j EXCEPT !.exec = "failed", !.ranOn = d.now]

Opened(v, r, via, content) ==
    [Kept(v, r) EXCEPT !.job.status = "pr_created",
                       !.pr = [via |-> via, content |-> content,
                               approved |-> r.job.approvedOn]]

(* The files of the current patch version on the branch. *)
Patched(v, d) == [d EXCEPT !.now = v.rounds[v.sess.currentPatch].patch]

(* ensure_pr_workspace_ready keeps the working tree while it is usable, else
   clones again and applies the current patch; without a patch version there
   is no pull request. *)
PrWorkspaces(v) ==
    IF v.sess.currentPatch = 0 THEN {} ELSE {v.disk, Patched(v, v.disk)}

(* Fault: the reviewer's approval is not required. *)
PrAllowedInReview(j) ==
    j.status \in {"awaiting_automation_review", "approved_for_pr", "pr_creation_failed"}

(* A failed attempt may be retried; approval is not asked for again. *)
PrAllowed(j) == j.status \in {"approved_for_pr", "pr_creation_failed"}

(* Fault: the failure is not stored in the job status. *)
PrFailedSilently(r) == r

(* Whatever status the failing step set, the handler writes
   pr_creation_failed over it; the test result stays. *)
PrFailed(r) == [r EXCEPT !.job.status = "pr_creation_failed"]

CreatePrSession(v) ==
    LET ready    == UNION {Refreshed(v.job, d) : d \in PrWorkspaces(v)}
        unready  == {Res(v.job, d, "ok") : d \in PrWorkspaces(v) \cup {v.disk}}
                    \cup {Res(RefreshFails(v.job, d), d, "ok") : d \in PrWorkspaces(v)}
        applied  == {[r EXCEPT !.disk = Patched(v, @)] : r \in ready}
        sync(w)  == [w EXCEPT !.sess.status = SessionStatusOf(w.job.status)]
    IN  When(PrAllowed(v.job),
             {sync(Kept(v, PrFailed(r))) : r \in unready \cup ready \cup applied}
             \cup When(CanOpen(v), {sync(Opened(v, r, "session", r.disk.now)) : r \in applied}))

(* A merge conflict asks for a person, a failing run for a person or a
   repair; every other failure fails the job. *)
CreatePrJob(v) ==
    LET ready == Refreshed(v.job, v.disk)
        stops == {Res(Status(v.job, "awaiting_human_input"), v.disk, "ok")}
                 \cup {Res(Status(RefreshFails(v.job, v.disk), s), v.disk, "ok") :
                          s \in {"awaiting_human_input", "failed"}}
                 \cup {[r EXCEPT !.job.status = "failed"] : r \in ready \cup {Untouched(v, "ok")}}
    IN  When(v.job.status = "approved_for_pr",
             {Kept(v, r) : r \in stops}
             \cup When(CanOpen(v), {Opened(v, r, "job", r.disk.now) : r \in ready}))

=============================================================================
