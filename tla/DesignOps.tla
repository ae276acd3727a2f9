------------------------------- MODULE DesignOps -------------------------------
(***************************************************************************)
(* The workflow runs of one Jira story: each endpoint of /workflow, of     *)
(* /approvals, of /jira/pickup and of the test-design workspace as the set *)
(* of results a committed call can leave, given a view v of the rows       *)
(*   [runs, sizes, cases]                                                  *)
(* A test design is the number of its artifact; sizes[d] is how many test  *)
(* cases it drafts, 0 while it does not exist.  The registry of test cases *)
(* is keyed by story and case index, so all runs of the story share it.    *)
(***************************************************************************)
EXTENDS Integers, FiniteSets

CONSTANTS
    MaxRuns,       \* bound: workflow runs of the story
    MaxDesigns,    \* bound: test designs made for the story
    MaxPlans,      \* bound: test design plans of a run
    MaxComments,   \* bound: @QSwarm comments on a review issue
    MaxCases,      \* test cases of a design, 10 in the code
    HasProject     \* the key of the story names its Jira project: it has a hyphen

ASSUME DesignBounds ==
    /\ MaxRuns \in Nat /\ MaxDesigns \in Nat /\ MaxPlans \in Nat
    /\ MaxComments \in Nat /\ MaxCases \in Nat
    /\ HasProject \in BOOLEAN

Runs      == 1..MaxRuns
Designs   == 1..MaxDesigns
Comments  == 1..MaxComments
CaseIndex == 1..MaxCases

RunStatus ==
    {"none", "pending", "running", "awaiting_approval", "rejected", "completed", "failed"}

(* Runs that keep the story from being picked up again. *)
ActiveStatus == {"pending", "running", "awaiting_approval"}

(* product_workspace.stage; "none" while the blob has no stage. *)
Stages ==
    {"none", "intake_ready", "analysis_ready", "awaiting_plan_approval",
     "plan_revision_requested", "plan_approved", "awaiting_test_case_review",
     "approved", "automation_ready"}

(* The approvals rows of a run, each named by the design it was requested for,
   and the artifact_id of each; the review issue row, the version rows by number,
   and what became of each comment of the review issue. *)
Decisions   == {"none", "pending", "approved", "rejected"}
ApprovalRows == [Designs -> Decisions]
SubjectRows == [Designs -> 0..MaxDesigns]
ReviewState == {"none", "failed", "published"}
VersionRows == [Designs -> 0..MaxDesigns]
EventRows   == [Comments -> {"none", "processed", "failed"}]

(* A workflow_runs row with the rows that reference it.  stage, approvedPlan
   (the plan that was newest when plan_approved_at was set, 0 while it is null),
   design (test_design_artifact_id) and asked (approval_id) are in
   graph_state_json.  plan: the newest plan artifact.  current: the number of the
   version that is_current.  posted: comments on the review issue. *)
RunRows == [mode : {"none", "graph", "workspace"}, status : RunStatus, stage : Stages,
            approvedPlan : 0..MaxPlans, design : 0..MaxDesigns, asked : 0..MaxDesigns,
            analysed : BOOLEAN, plan : 0..MaxPlans,
            appr : ApprovalRows, subject : SubjectRows, review : ReviewState,
            vers : VersionRows, current : 0..MaxDesigns,
            posted : 0..MaxComments, events : EventRows]

AbsentRun == [mode |-> "none", status |-> "none", stage |-> "none",
              approvedPlan |-> 0, design |-> 0, asked |-> 0,
              analysed |-> FALSE, plan |-> 0,
              appr |-> [k \in Designs |-> "none"], subject |-> [k \in Designs |-> 0],
              review |-> "none",
              vers |-> [n \in Designs |-> 0], current |-> 0,
              posted |-> 0, events |-> [c \in Comments |-> "none"]]

(* A test_case_records row: run 0 while there is none; session: automated.
   Every call that makes a row tries to publish it before it commits; the key
   of a story without a project is refused before the attempt is written down. *)
CaseRows == [run : 0..MaxRuns, design : 0..MaxDesigns,
             pub : {"none", "failed", "published"}, session : BOOLEAN]

AbsentCase == [run |-> 0, design |-> 0, pub |-> "none", session |-> FALSE]

When(b, S) == IF b THEN S ELSE {}

With(v, r, run) == [v EXCEPT !.runs[r] = run]

(* The view with a new design of s cases, and run as the row of r. *)
WithDesign(v, d, s, r, run) == With([v EXCEPT !.sizes[d] = s], r, run)

Fresh(v) == {d \in Designs : v.sizes[d] = 0 /\ \A e \in 1..(d - 1) : v.sizes[e] # 0}

FreeRuns(v) == {r \in Runs : v.runs[r].mode = "none"
                             /\ \A q \in 1..(r - 1) : v.runs[q].mode # "none"}

ActiveRuns(v) == {r \in Runs : v.runs[r].status \in ActiveStatus}

-----------------------------------------------------------------------------
(* Runs: workflow_service, the graph, jira_polling_service. *)

Created(v, r, mode) ==
    With(v, r, [AbsentRun EXCEPT !.mode = mode, !.status = "pending",
                   !.stage = IF mode = "workspace" THEN "intake_ready" ELSE "none"])

(* POST /workflow/runs asks nothing of the other runs. *)
CreateRun(v) == {Created(v, r, "graph") : r \in FreeRuns(v)}

(* Fault: version 1 is written again. *)
DraftedAnew(run, d, review) ==
    [run EXCEPT !.vers[1] = d, !.current = IF run.vers[1] = 0 THEN 1 ELSE @,
                !.design = d, !.review = review]

(* A test design drafted for a run, with version 1 and the review issue row.
   A version 1 that exists is kept; a second review issue row is refused by its
   unique constraint. *)
Drafted(run, d, review) ==
    [run EXCEPT !.vers[1] = IF @ = 0 THEN d ELSE @,
                !.current = IF run.vers[1] = 0 THEN 1 ELSE @,
                !.design = d, !.review = review]

(* The review issue row after a publication that Jira refused; one that has no
   project to go to writes none. *)
Refused(run) == IF HasProject THEN "failed" ELSE run.review

(* A further approval, about design d. *)
Submitted(run, d) ==
    [run EXCEPT !.status = "awaiting_approval", !.appr[d] = "pending", !.subject[d] = d,
                !.asked = d]

Pending(run) == {k \in Designs : run.appr[k] = "pending"}

(* Fault: an exception of a node is not caught by start_run. *)
GraphResultsUncaught(v, r, run) ==
    When(run.review = "none" /\ HasProject,
         {WithDesign(v, d, s, r, Submitted(Drafted(run, d, "published"), d)) :
             d \in Fresh(v), s \in CaseIndex})

(* The graph from fetch_story to create_approval_request.  A node that raises
   rolls everything back; a refused publication ends the graph with its rows
   kept. *)
GraphResults(v, r, run) ==
    {With(v, r, [run EXCEPT !.status = "failed"])}
    \cup When(run.review = "none",
           {WithDesign(v, d, s, r, [Drafted(run, d, Refused(run)) EXCEPT !.status = "failed"]) :
               d \in Fresh(v), s \in CaseIndex})
    \cup When(run.review = "none" /\ HasProject,
           {WithDesign(v, d, s, r, Submitted(Drafted(run, d, "published"), d)) :
               d \in Fresh(v), s \in CaseIndex})

(* start_run of a pending run, of either mode. *)
StartRun(v, r) ==
    When(v.runs[r].status = "pending", GraphResults(v, r, v.runs[r]))

(* evaluate_pickup_candidate: the story is labelled, open and clear, and ...
   What Jira's search returns has a project. *)
Eligible(v) == HasProject /\ ActiveRuns(v) = {}

(* One labelled issue of POST /jira/pickup/poll. *)
PollIssue(v) ==
    When(Eligible(v),
         UNION {StartRun(Created(v, r, "graph"), r) : r \in FreeRuns(v)})

(* What start_run and the poll have committed when the process dies. *)
StartDies(v, r) ==
    When(v.runs[r].status = "pending",
         {With(v, r, [v.runs[r] EXCEPT !.status = "running"])})

-----------------------------------------------------------------------------
(* The workspace: from the story to drafted test cases. *)

CreateWorkspaceRun(v) ==
    When(ActiveRuns(v) = {}, {Created(v, r, "workspace") : r \in FreeRuns(v)})

(* Fault: the stage is written into the status. *)
AnalyzeMixedUp(v, r) ==
    When(v.runs[r].mode = "workspace",
         {With(v, r, [v.runs[r] EXCEPT !.analysed = TRUE, !.status = "analysis_ready"])})

(* No test of the run's status: any workspace run may be analysed again. *)
AnalyzeRequirements(v, r) ==
    When(v.runs[r].mode = "workspace",
         {With(v, r, [v.runs[r] EXCEPT !.analysed = TRUE, !.status = "pending",
                                       !.stage = "analysis_ready"])})

(* Fault: the approval of the plan before it is kept. *)
PreparePlanApproved(v, r) ==
    LET run == v.runs[r]
    IN  When(run.mode = "workspace" /\ run.analysed /\ run.plan < MaxPlans,
             {With(v, r, [run EXCEPT !.plan = @ + 1, !.stage = "awaiting_plan_approval"])})

PreparePlan(v, r) ==
    LET run == v.runs[r]
    IN  When(run.mode = "workspace" /\ run.analysed /\ run.plan < MaxPlans,
             {With(v, r, [run EXCEPT !.plan = @ + 1, !.approvedPlan = 0,
                                     !.stage = "awaiting_plan_approval"])})

ApprovePlan(v, r) ==
    LET run == v.runs[r]
    IN  When(run.stage \in {"awaiting_plan_approval", "plan_revision_requested"},
             {With(v, r, [run EXCEPT !.approvedPlan = run.plan, !.stage = "plan_approved"])})

RequestPlanRevision(v, r) ==
    When(v.runs[r].stage = "awaiting_plan_approval",
         {With(v, r, [v.runs[r] EXCEPT !.approvedPlan = 0,
                                       !.stage = "plan_revision_requested"])})

(* Only the approval of the plan is asked for.  A refused publication is only a
   warning: an approval is created, one more each time a story without a project,
   which has no review issue row to be refused by, is generated again. *)
GenerateTestCases(v, r) ==
    LET run == v.runs[r]
    IN  When(run.approvedPlan # 0 /\ run.review = "none",
             {WithDesign(v, d, s, r,
                 [Submitted(Drafted(run, d, review), d) EXCEPT
                     !.stage = "awaiting_test_case_review"]) :
                 d \in Fresh(v), s \in CaseIndex,
                 review \in {Refused(run)} \cup When(HasProject, {"published"})})

-----------------------------------------------------------------------------
(* Revisions while an approval is pending. *)

(* Fault: the highest number itself. *)
HighestVersion(run) ==
    {n \in Designs : /\ \A m \in Designs : run.vers[m] # 0 => m <= n
                    /\ (n = 1 \/ run.vers[n] # 0)}

(* compute_next_version_number: one above the highest of the run. *)
NextVersions(run) ==
    {n \in Designs : /\ \A m \in Designs : run.vers[m] # 0 => m < n
                    /\ (n = 1 \/ run.vers[n - 1] # 0)}

Reviewable(run) == run.status = "awaiting_approval" /\ Pending(run) # {}

(* Fault: the approval is not moved to the new design. *)
RevisedUnseen(v, r, run, a, n, d, k, s) ==
    [v EXCEPT
        !.sizes = [e \in Designs |-> IF e \in d..(d + k - 1) THEN s[e] ELSE @[e]],
        !.runs[r] = [run EXCEPT
            !.vers = [m \in Designs |-> IF m \in n..(n + k - 1) THEN d + (m - n) ELSE @[m]],
            !.current = n + k - 1, !.design = d + k - 1]]

(* Fault: the new version is not made current. *)
RevisedBehind(v, r, run, a, n, d, k, s) ==
    [v EXCEPT
        !.sizes = [e \in Designs |-> IF e \in d..(d + k - 1) THEN s[e] ELSE @[e]],
        !.runs[r] = [run EXCEPT
            !.vers = [m \in Designs |-> IF m \in n..(n + k - 1) THEN d + (m - n) ELSE @[m]],
            !.subject[a] = d + k - 1, !.design = d + k - 1]]

(* k revisions one after the other: designs d, d+1, ... become versions n, n+1,
   ...; the last is current and what approval a is about. *)
Superseded(run, a, n, d, k) ==
    [run EXCEPT
        !.vers = [m \in Designs |-> IF m \in n..(n + k - 1) THEN d + (m - n) ELSE @[m]],
        !.current = n + k - 1, !.subject[a] = d + k - 1, !.design = d + k - 1,
        !.status = "awaiting_approval"]

(* s gives the cases of the designs. *)
Revised(v, r, run, a, n, d, k, s) ==
    With([v EXCEPT !.sizes = [e \in Designs |-> IF e \in d..(d + k - 1) THEN s[e] ELSE @[e]]],
         r, Superseded(run, a, n, d, k))

(* refine and regenerate add, drop and rewrite cases, and leave at least one. *)
Redrafts(d, k) == [d..(d + k - 1) -> CaseIndex]

(* _get_pending_approval takes any of the pending approvals. *)
Revisions(v, r, run, k) ==
    UNION {{Revised(v, r, run, a, n, d, k, s) : s \in Redrafts(d, k)} :
              a \in Pending(run), n \in {m \in NextVersions(run) : m + k - 1 \in Designs},
              d \in {e \in Fresh(v) : e + k - 1 \in Designs}}

(* refine and regenerate.  A refused delta comment keeps only a feedback row. *)
Evolve(v, r) ==
    When(Reviewable(v.runs[r]), Revisions(v, r, v.runs[r], 1))

(* The revision asked for in the UI sets the stage as well. *)
ReviseCases(v, r) ==
    When(Reviewable(v.runs[r]),
         Revisions(v, r, [v.runs[r] EXCEPT !.stage = "awaiting_test_case_review"], 1))

(* Someone writes an @QSwarm comment on the review issue. *)
PostComment(v, r) ==
    When(v.runs[r].review = "published" /\ v.runs[r].posted < MaxComments,
         {With(v, r, [v.runs[r] EXCEPT !.posted = @ + 1])})

Unread(run) == {c \in 1..run.posted : run.events[c] = "none"}

(* Fault: the events of an earlier call are not looked at. *)
ReadAgain(run, outcome) ==
    [run EXCEPT !.events = [c \in Comments |->
        IF c > run.posted THEN @[c] ELSE IF c \in DOMAIN outcome THEN "processed" ELSE "failed"]]

(* Every unread comment gets its event, and a comment that failed is not read
   again; only those revised made a version. *)
Outcomes == {"failed", "replied", "revised"}

Read(run, outcome) ==
    [run EXCEPT !.events = [c \in Comments |->
        IF c \notin Unread(run) THEN @[c]
        ELSE IF outcome[c] = "failed" THEN "failed" ELSE "processed"]]

ProcessComments(v, r) ==
    LET run == v.runs[r]
        Answered(outcome) ==
            LET k == Cardinality({c \in Unread(run) : outcome[c] = "revised"})
            IN  IF k = 0 THEN {With(v, r, Read(run, outcome))}
                ELSE Revisions(v, r, Read(run, outcome), k)
    IN  When(Reviewable(run) /\ run.review = "published",
             UNION {Answered(outcome) : outcome \in [Unread(run) -> Outcomes]})

-----------------------------------------------------------------------------
(* The decision, the registry of test cases and their automation. *)

(* Fault: the index starts at 0. *)
MaterialisedShort(v, r, d, ok) ==
    [i \in CaseIndex |->
        IF i >= v.sizes[d] \/ v.cases[i].run # 0 THEN v.cases[i]
        ELSE [run |-> r, design |-> d, pub |-> IF i \in ok THEN "published" ELSE "failed",
              session |-> FALSE]]

(* Fault: an existing registry key is overwritten. *)
MaterialisedOver(v, r, d, ok) ==
    [i \in CaseIndex |->
        IF i > v.sizes[d] THEN v.cases[i]
        ELSE [run |-> r, design |-> d, pub |-> IF i \in ok THEN "published" ELSE "failed",
              session |-> FALSE]]

(* Cases 1..sizes[d] of design d: a case whose registry key exists is kept,
   whichever run made it.  Jira takes those in ok of the unpublished ones. *)
Materialised(v, r, d, ok) ==
    [i \in CaseIndex |->
        LET kept == IF v.cases[i].run # 0 THEN v.cases[i]
                    ELSE [AbsentCase EXCEPT !.run = r, !.design = d]
        IN  IF i > v.sizes[d] THEN v.cases[i]
            ELSE IF kept.pub = "published" \/ i \in ok THEN [kept EXCEPT !.pub = "published"]
            ELSE [kept EXCEPT !.pub = IF HasProject THEN "failed" ELSE @]]

(* The registry after approval k of the run, which is left as run. *)
Recorded(v, r, run, k) ==
    {[With(v, r, run) EXCEPT !.cases = Materialised(v, r, run.subject[k], ok)] :
        ok \in SUBSET When(HasProject, CaseIndex)}

(* Fault: every pending approval of the run is granted with the one decided. *)
ApproveEvery(v, r) ==
    LET run == v.runs[r]
    IN  UNION {Recorded(v, r, [run EXCEPT !.appr = [a \in Designs |->
                                   IF @[a] = "pending" THEN "approved" ELSE @[a]],
                                          !.status = "completed"], k) : k \in Pending(run)}

(* POST /approvals/{id}/approve asks only that the approval is pending. *)
Approve(v, r) ==
    LET run == v.runs[r]
    IN  UNION {Recorded(v, r, [run EXCEPT !.appr[k] = "approved", !.status = "completed"], k) :
                  k \in Pending(run)}

(* The approval the UI decides: the one last asked for. *)
Asked(run) == IF run.asked = 0 THEN Pending(run) ELSE Pending(run) \cap {run.asked}

(* The UI also asks that the approval is about the current version. *)
ApproveDesign(v, r) ==
    LET run == v.runs[r]
    IN  UNION {Recorded(v, r, [run EXCEPT !.appr[k] = "approved", !.status = "completed",
                                          !.stage = "approved"], k) :
                  k \in {a \in Asked(run) : run.subject[a] = run.vers[run.current]}}

(* Fault: the run keeps its status. *)
RejectQuietly(v, r) ==
    {With(v, r, [v.runs[r] EXCEPT !.appr[k] = "rejected"]) : k \in Pending(v.runs[r])}

Reject(v, r) ==
    {With(v, r, [v.runs[r] EXCEPT !.appr[k] = "rejected", !.status = "rejected"]) :
        k \in Pending(v.runs[r])}

(* Fault: neither the status nor the approval is looked at. *)
PublishUnapproved(v, r) ==
    UNION {Recorded(v, r, v.runs[r], k) : k \in {a \in Designs : v.runs[r].appr[a] # "none"}}

PublishDesign(v, r) ==
    LET run == v.runs[r]
    IN  When(run.status = "completed",
             UNION {Recorded(v, r, [run EXCEPT !.stage = "automation_ready"], k) :
                       k \in {a \in Designs : run.appr[a] = "approved"}})

(* One case, by hand; a refusal of Jira rolls the call back. *)
PublishCase(v, i) ==
    When(HasProject /\ v.cases[i].run # 0 /\ v.cases[i].pub # "published",
         {[v EXCEPT !.cases[i].pub = "published"]})

(* create_automation_session_from_test_case. *)
Automate(v, i) ==
    When(v.cases[i].pub = "published" /\ ~v.cases[i].session,
         {[v EXCEPT !.cases[i].session = TRUE]})

=============================================================================
