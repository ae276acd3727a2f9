---------------------------- MODULE ConcurrentDesign ----------------------------
(***************************************************************************)
(* The same endpoints served by several threads.  A request reads the run  *)
(* and approval rows once (Begin), checks them, and at the end writes only *)
(* the columns it changed (Commit); the rows of versions, comment events,  *)
(* the review issue and the registry are read again by the statement that  *)
(* needs them, and a unique constraint ends the later of two inserts       *)
(* (RolledBack).  start_run commits "running" before its graph begins.     *)
(***************************************************************************)
EXTENDS TestDesignRun

CONSTANTS
    Clients,
    MaxIssues   \* bound: the Jira issues of a test case are counted up to it

VARIABLES
    calls,    \* what the request of each client read, or Idle
    issues    \* the Jira issues created for each test case

cvars == <<runs, sizes, cases, calls, issues>>

Idle == [op |-> "idle"]

RunResults(op, v, r) ==
    CASE op = "analyze"          -> AnalyzeRequirements(v, r)
      [] op = "prepare-plan"     -> PreparePlan(v, r)
      [] op = "approve-plan"     -> ApprovePlan(v, r)
      [] op = "revise-plan"      -> RequestPlanRevision(v, r)
      [] op = "generate"         -> GenerateTestCases(v, r)
      [] op = "evolve"           -> Evolve(v, r)
      [] op = "revise-cases"     -> ReviseCases(v, r)
      [] op = "process-comments" -> ProcessComments(v, r)
      [] op = "approve"          -> Approve(v, r)
      [] op = "approve-design"   -> ApproveDesign(v, r)
      [] op = "reject"           -> Reject(v, r)
      [] op = "publish"          -> PublishDesign(v, r)
      [] op = "graph"            -> GraphResults(v, r, v.runs[r])
      [] OTHER                   -> {}

ConcurrentInit ==
    /\ Init
    /\ calls = [c \in Clients |-> Idle]
    /\ issues = [i \in CaseIndex |-> 0]

-----------------------------------------------------------------------------
(* Requests on a run. *)

Begin(c, op, r) ==
    /\ calls[c] = Idle
    /\ RunResults(op, View, r) # {} /\ op # "graph"
    /\ calls' = [calls EXCEPT ![c] = [op |-> op, at |-> r, read |-> runs[r]]]
    /\ UNCHANGED <<runs, sizes, cases, issues>>

(* The row a request works on: the columns of workflow_runs and approvals as
   it read them, the other tables as they are. *)
Seen(call) ==
    LET run == runs[call.at]
    IN  IF call.op = "graph"
        THEN [run EXCEPT
                 !.stage = call.read.stage, !.approvedPlan = call.read.approvedPlan,
                 !.design = call.read.design, !.asked = call.read.asked]
        ELSE [run EXCEPT
                 !.status = call.read.status, !.stage = call.read.stage,
                 !.approvedPlan = call.read.approvedPlan, !.design = call.read.design,
                 !.asked = call.read.asked,
                 !.appr = call.read.appr, !.subject = call.read.subject,
                 !.posted = call.read.posted]

(* Of the approvals, a request writes the columns it changed. *)
Changed(seen, left, now) == [k \in Designs |-> IF left[k] # seen[k] THEN left[k] ELSE now[k]]

(* Fault: a revision writes the status it read, changed or not. *)
WrittenStatus(call, seen, left) ==
    LET run == runs[call.at]
    IN  [left EXCEPT !.appr = Changed(seen.appr, @, run.appr),
                     !.subject = Changed(seen.subject, @, run.subject),
                     !.posted = run.posted]

(* What it leaves of that row; graph_state_json is one column, which a graph that
   raised does not write.  analyze, generate and the graph flush a status first. *)
Written(call, seen, left) ==
    LET run     == runs[call.at]
        always  == call.op \in {"analyze", "generate", "graph"}
        blob(x) == <<x.stage, x.approvedPlan, x.design, x.asked>>
        newBlob == blob(left) # blob(seen)
    IN  [left EXCEPT
            !.status = IF always \/ @ # seen.status THEN @ ELSE run.status,
            !.stage = IF newBlob THEN @ ELSE run.stage,
            !.approvedPlan = IF newBlob THEN @ ELSE run.approvedPlan,
            !.design = IF newBlob THEN @ ELSE run.design,
            !.asked = IF newBlob THEN @ ELSE run.asked,
            !.appr = Changed(seen.appr, @, run.appr),
            !.subject = Changed(seen.subject, @, run.subject),
            !.posted = run.posted]

OneMore(i) == IF issues[i] < MaxIssues THEN issues[i] + 1 ELSE MaxIssues

(* Jira creates an issue for each case that becomes published; when it creates
   one and the answer is lost, the case is recorded as failed. *)
Issued(left) ==
    \E lost \in SUBSET {i \in CaseIndex : cases[i].pub # "published" /\ left[i].pub = "failed"} :
        LET grown == lost \cup {i \in CaseIndex : cases[i].pub # "published"
                                                  /\ left[i].pub = "published"}
        IN  issues' = [i \in CaseIndex |-> IF i \in grown THEN OneMore(i) ELSE issues[i]]

Commit(c) ==
    LET call == calls[c]
        seen == Seen(call)
    IN  /\ call # Idle /\ call.op \notin {"start", "picked", "poll", "publish-case", "automate"}
        /\ \E left \in RunResults(call.op, With(View, call.at, seen), call.at) :
              /\ runs' = [runs EXCEPT ![call.at] = Written(call, seen, left.runs[call.at])]
              /\ sizes' = left.sizes
              /\ cases' = left.cases
              /\ Issued(IF call.op \in {"approve", "approve-design", "publish"}
                        THEN left.cases ELSE cases)
        /\ calls' = [calls EXCEPT ![c] = Idle]

(* The request fails and rolls back: a unique constraint, a check, Jira, or the
   end of its process.  A graph that fails is in GraphResults; a process that
   ends while the graph runs is left to TestDesignRun. *)
RolledBack(c) ==
    /\ calls[c] # Idle /\ calls[c].op # "graph"
    /\ calls' = [calls EXCEPT ![c] = Idle]
    /\ UNCHANGED <<runs, sizes, cases, issues>>

-----------------------------------------------------------------------------
(* Starting a run, and picking a story up. *)

BeginStart(c, r) ==
    /\ calls[c] = Idle \/ (calls[c].op = "picked" /\ calls[c].at = r)
    /\ runs[r].status = "pending"
    /\ calls' = [calls EXCEPT ![c] = [op |-> "start", at |-> r, read |-> runs[r]]]
    /\ UNCHANGED <<runs, sizes, cases, issues>>

(* The first commit of start_run; its graph follows with what was read. *)
MarkRunning(c) ==
    /\ calls[c].op = "start"
    /\ runs' = [runs EXCEPT ![calls[c].at].status = "running"]
    /\ calls' = [calls EXCEPT ![c].op = "graph"]
    /\ UNCHANGED <<sizes, cases, issues>>

(* The poll has asked Jira and found no active run of the story. *)
BeginPoll(c) ==
    /\ calls[c] = Idle
    /\ PollIssue(View) # {}
    /\ calls' = [calls EXCEPT ![c] = [op |-> "poll"]]
    /\ UNCHANGED <<runs, sizes, cases, issues>>

CommitPoll(c) ==
    /\ calls[c].op = "poll"
    /\ \E r \in FreeRuns(View) :
          /\ runs' = Created(View, r, "graph").runs
          /\ calls' = [calls EXCEPT ![c] = [op |-> "picked", at |-> r]]
    /\ UNCHANGED <<sizes, cases, issues>>

BeginCreate(c) ==
    /\ calls[c] = Idle
    /\ CreateWorkspaceRun(View) # {}
    /\ calls' = [calls EXCEPT ![c] = [op |-> "create-workspace"]]
    /\ UNCHANGED <<runs, sizes, cases, issues>>

CommitCreate(c) ==
    /\ calls[c].op = "create-workspace"
    /\ \E r \in FreeRuns(View) : runs' = Created(View, r, "workspace").runs
    /\ calls' = [calls EXCEPT ![c] = Idle]
    /\ UNCHANGED <<sizes, cases, issues>>

-----------------------------------------------------------------------------
(* Requests on a test case. *)

BeginCase(c, op, i) ==
    /\ calls[c] = Idle
    /\ \/ op = "publish-case" /\ PublishCase(View, i) # {}
       \/ op = "automate" /\ Automate(View, i) # {}
    /\ calls' = [calls EXCEPT ![c] = [op |-> op, at |-> i]]
    /\ UNCHANGED <<runs, sizes, cases, issues>>

(* Fault: the failure is written over what is there. *)
CommitCaseFailed(c) ==
    /\ calls[c].op = "publish-case"
    /\ cases' = [cases EXCEPT ![calls[c].at].pub = "failed"]
    /\ calls' = [calls EXCEPT ![c] = Idle]
    /\ UNCHANGED <<runs, sizes, issues>>

(* The case was unpublished when it was read.  A refusal, or an answer that is
   lost after Jira created the issue, rolls the row back. *)
CommitCase(c) ==
    LET i == calls[c].at
    IN  /\ \/ /\ calls[c].op = "publish-case"
              /\ issues' = [issues EXCEPT ![i] = OneMore(i)]
              /\ \/ cases' = [cases EXCEPT ![i].pub = "published"]
                 \/ UNCHANGED cases
           \/ /\ calls[c].op = "automate"
              /\ cases' = [cases EXCEPT ![i].session = TRUE]
              /\ UNCHANGED issues
        /\ calls' = [calls EXCEPT ![c] = Idle]
        /\ UNCHANGED <<runs, sizes>>

(* A comment is Jira's. *)
CommentPosted(r) ==
    /\ "comment" \in Calls /\ Committed(PostComment(View, r))
    /\ UNCHANGED <<calls, issues>>

ClientStep(c) ==
    \/ \E op \in Calls, r \in Runs : Begin(c, op, r)
    \/ Commit(c)
    \/ "start" \in Calls /\ \E r \in Runs : BeginStart(c, r)
    \/ "poll" \in Calls /\ BeginPoll(c)
    \/ "create-workspace" \in Calls /\ BeginCreate(c)
    \/ \E op \in Calls, i \in CaseIndex : BeginCase(c, op, i)
    \/ MarkRunning(c) \/ CommitPoll(c) \/ CommitCreate(c) \/ CommitCase(c)

ConcurrentNext ==
    \/ \E c \in Clients : ClientStep(c) \/ RolledBack(c)
    \/ \E r \in Runs : CommentPosted(r)

(* A thread that has begun its last transaction ends it, since the calls to
   Jira time out. *)
ConcurrentSpec ==
    ConcurrentInit /\ [][ConcurrentNext]_cvars /\ \A c \in Clients : WF_cvars(Commit(c))

-----------------------------------------------------------------------------
(* The version shown as current is the newest, whatever revisions overlap. *)
NewestIsCurrent ==
    \A r \in Runs : \A n \in Designs : runs[r].vers[n] # 0 => n <= runs[r].current

(* A version keeps its design: no revision takes the number of another. *)
VersionsStand ==
    [][\A r \in Runs : \A n \in Designs :
          runs[r].vers[n] # 0 => runs'[r].vers[n] = runs[r].vers[n]]_cvars

(* What became of a comment is decided once, by one of the overlapping calls
   that read it. *)
CommentOnce ==
    [][\A r \in Runs : \A k \in Comments :
          runs[r].events[k] # "none" => runs'[r].events[k] = runs[r].events[k]]_cvars

(* A case in the backlog keeps the run and the design it came from, and is not
   taken back from published or automated by a call that read it earlier. *)
CasesStand ==
    [][\A i \in CaseIndex :
          /\ cases[i].run # 0 => /\ cases'[i].run = cases[i].run
                                 /\ cases'[i].design = cases[i].design
          /\ cases[i].pub = "published" => cases'[i].pub = "published"
          /\ cases[i].session => cases'[i].session]_cvars

(* A run that was started is not left running: start_run marks it failed when
   the graph fails.  Its process is taken not to end. *)
StartedRunEnds == \A r \in Runs : runs[r].status = "running" ~> runs[r].status # "running"

(* "Registry materialization and publication are idempotent; repeated publish
   does not duplicate Jira issues" (docs/UI_API_CONTRACT.md). *)
OneIssuePerCase == \A i \in CaseIndex : issues[i] <= 1

=============================================================================
