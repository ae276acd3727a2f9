----------------------------- MODULE TestDesignRun -----------------------------
(***************************************************************************)
(* The workflow runs of one story, served one request at a time: one       *)
(* action per endpoint that changes rows of /workflow/runs, /approvals,    *)
(* /jira and /ui/v1/test-design-runs, comments on the review issue, and a  *)
(* process that dies in start_run after its first commit.                  *)
(***************************************************************************)
EXTENDS DesignOps

CONSTANT Calls   \* the operations clients use

AllCalls ==
    {"create", "start", "poll", "dies", "create-workspace", "analyze", "prepare-plan",
     "approve-plan", "revise-plan", "generate", "evolve", "revise-cases", "comment",
     "process-comments", "approve", "approve-design", "reject", "publish", "publish-case",
     "automate"}

ASSUME CallsAssumption == Calls \subseteq AllCalls

VARIABLES
    runs,    \* the workflow_runs rows of the story, with the rows that reference them
    sizes,   \* the test design artifacts: how many cases each drafts
    cases    \* the test_case_records rows of the story, by case index

vars == <<runs, sizes, cases>>

View == [runs |-> runs, sizes |-> sizes, cases |-> cases]

Init ==
    /\ runs = [r \in Runs |-> AbsentRun]
    /\ sizes = [d \in Designs |-> 0]
    /\ cases = [i \in CaseIndex |-> AbsentCase]

Committed(results) ==
    \E v \in results : runs' = v.runs /\ sizes' = v.sizes /\ cases' = v.cases

-----------------------------------------------------------------------------
(* /workflow/runs, /jira/pickup/poll *)

CreateRequest   == "create" \in Calls /\ Committed(CreateRun(View))
StartRequest(r) == "start" \in Calls /\ Committed(StartRun(View, r))
DeadStart(r)    == "dies" \in Calls /\ Committed(StartDies(View, r))
PollRequest     == "poll" \in Calls /\ Committed(PollIssue(View))

(* /ui/v1/stories/{key}/test-design-runs, /ui/v1/test-design-runs/{id} *)

CreateWorkspaceRequest == "create-workspace" \in Calls /\ Committed(CreateWorkspaceRun(View))
AnalyzeRequest(r)      == "analyze" \in Calls /\ Committed(AnalyzeRequirements(View, r))
PreparePlanRequest(r)  == "prepare-plan" \in Calls /\ Committed(PreparePlan(View, r))
ApprovePlanRequest(r)  == "approve-plan" \in Calls /\ Committed(ApprovePlan(View, r))
RevisePlanRequest(r)   == "revise-plan" \in Calls /\ Committed(RequestPlanRevision(View, r))
GenerateRequest(r)     == "generate" \in Calls /\ Committed(GenerateTestCases(View, r))
ReviseCasesRequest(r)  == "revise-cases" \in Calls /\ Committed(ReviseCases(View, r))
ApproveDesignRequest(r) == "approve-design" \in Calls /\ Committed(ApproveDesign(View, r))
PublishRequest(r)      == "publish" \in Calls /\ Committed(PublishDesign(View, r))

(* /workflow/runs/{id}/test-design, /jira/review-comments, /approvals/{id} *)

EvolveRequest(r)   == "evolve" \in Calls /\ Committed(Evolve(View, r))
Comment(r)         == "comment" \in Calls /\ Committed(PostComment(View, r))
CommentsRequest(r) == "process-comments" \in Calls /\ Committed(ProcessComments(View, r))
ApproveRequest(r)  == "approve" \in Calls /\ Committed(Approve(View, r))
RejectRequest(r)   == "reject" \in Calls /\ Committed(Reject(View, r))

(* /ui/v1/test-cases/{id} *)

PublishCaseRequest(i) == "publish-case" \in Calls /\ Committed(PublishCase(View, i))
AutomateRequest(i)    == "automate" \in Calls /\ Committed(Automate(View, i))

RunStep(r) ==
    \/ StartRequest(r) \/ DeadStart(r) \/ AnalyzeRequest(r) \/ PreparePlanRequest(r)
    \/ ApprovePlanRequest(r) \/ RevisePlanRequest(r) \/ GenerateRequest(r)
    \/ ReviseCasesRequest(r) \/ EvolveRequest(r) \/ Comment(r) \/ CommentsRequest(r)
    \/ ApproveRequest(r) \/ ApproveDesignRequest(r) \/ RejectRequest(r) \/ PublishRequest(r)

Next ==
    \/ CreateRequest \/ PollRequest \/ CreateWorkspaceRequest
    \/ \E r \in Runs : RunStep(r)
    \/ \E i \in CaseIndex : PublishCaseRequest(i) \/ AutomateRequest(i)

Spec == Init /\ [][Next]_vars

-----------------------------------------------------------------------------
(* Every row stays in its columns. *)
TypeOK ==
    /\ runs \in [Runs -> RunRows]
    /\ sizes \in [Designs -> 0..MaxCases]
    /\ cases \in [CaseIndex -> CaseRows]

(* While a decision on a reviewed run is pending, the design the reviewer sees
   (the current version, which is the newest), the one in the run's state and the
   one the approval is about are the same, through comments, refine and the UI.
   A run without a review issue row can be drafted again beside its version 1. *)
OpenDesignIsCurrent ==
    \A r \in Runs : runs[r].review # "none" => \A k \in Pending(runs[r]) :
        /\ runs[r].current \in Designs
        /\ runs[r].subject[k] = runs[r].vers[runs[r].current]
        /\ runs[r].design = runs[r].subject[k]
        /\ \A n \in Designs : runs[r].vers[n] # 0 => n <= runs[r].current

(* A status a client reads tells of a decision: completed was approved,
   rejected was rejected, awaiting_approval still has a pending approval. *)
StatusTold ==
    \A r \in Runs :
        /\ runs[r].status = "completed" => \E k \in Designs : runs[r].appr[k] = "approved"
        /\ runs[r].status = "rejected" => \E k \in Designs : runs[r].appr[k] = "rejected"
        /\ runs[r].status = "awaiting_approval" => Pending(runs[r]) # {}

(* A plan counts as approved only while no newer plan has been prepared. *)
ApprovedPlanIsLatest ==
    \A r \in Runs : runs[r].approvedPlan \in {0, runs[r].plan}

Approved(run) == {k \in Designs : run.appr[k] = "approved"}

(* A case in the backlog comes from a design that was approved in the run
   that recorded it. *)
CasesApproved ==
    \A i \in CaseIndex : cases[i].run # 0 =>
        /\ cases[i].run \in Runs
        /\ \E k \in Approved(runs[cases[i].run]) :
              cases[i].design = runs[cases[i].run].subject[k]
        /\ i <= sizes[cases[i].design]

(* An approval leaves no index of its design without a case. *)
ApprovedIsRecorded ==
    \A r \in Runs : \A k \in Approved(runs[r]) :
        \A i \in CaseIndex : i <= sizes[runs[r].subject[k]] => cases[i].run # 0

(* "Idempotent per workflow run + case index (skips existing registry_key)"
   (materialize_test_cases_from_approved_workflow): an approved run has a case
   of its own for each index of its design. *)
RegistryPerRun ==
    \A r \in Runs : \A k \in Approved(runs[r]) :
        \A i \in CaseIndex : i <= sizes[runs[r].subject[k]] => cases[i].run = r

(* A decision is final, and what was decided on can be read back: later calls
   neither take it back nor change its design, and a run whose approvals are all
   decided gets no further version, nor any version another design. *)
DecisionStands ==
    [][\A r \in Runs : \A k \in Designs : runs[r].appr[k] \in {"approved", "rejected"} =>
          /\ runs'[r].appr[k] = runs[r].appr[k]
          /\ runs'[r].subject[k] = runs[r].subject[k]
          /\ \A n \in Designs : runs'[r].vers[n] # runs[r].vers[n] =>
                runs[r].vers[n] = 0 /\ Pending(runs[r]) # {}]_vars

(* What the gate sees. *)
Decision(row) == IF row \in {"approved", "rejected"} THEN row ELSE "open"

RunDecisions   == [r \in Runs |-> [k \in Designs |-> Decision(runs[r].appr[k])]]
CaseOrigins    == [i \in CaseIndex |-> cases[i].run]
CasesPublished == {i \in CaseIndex : cases[i].pub = "published"}
CasesAutomated == {i \in CaseIndex : cases[i].session}

Backlog ==
    INSTANCE DesignGate WITH
        Run <- Runs, Request <- Designs, Case <- CaseIndex, NoRun <- 0,
        decision <- RunDecisions, origin <- CaseOrigins,
        published <- CasesPublished, automated <- CasesAutomated

(* The workflow keeps the promise of DesignGate. *)
ImplementsDesignGate == Backlog!GateSpec

=============================================================================
