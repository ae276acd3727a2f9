# QSwarm: TLA+ models of the test design workflow and the automation control plane

QSwarm turns a Jira story into a reviewed test design, the approved design into a
backlog of test cases, and a test case into a pull request with Playwright test
code. It is a FastAPI service over PostgreSQL (`src/backend/app`). This directory
models both halves, with TLC runs on small instances and TLAPS proofs for all
values of the constants. `PROJECT.json` lists the runs, the theorems, the
hazards, and for every definition the lines it models.

## Inventory

| Component | State it keeps | Operations | Modelled in |
|---|---|---|---|
| Workflow runs, approvals, graph (`workflow_service`, `approval_service`, `routes/workflow`, `workflows/`) | `workflow_runs`, `approvals` | create, start (and its graph), approve, reject | `DesignOps`, `TestDesignRun`, `ConcurrentDesign` |
| Test design workspace (`test_design_workspace_service`) | the workspace blob of the run, requirement and plan artifacts | create, analyze, plan, approve or revise the plan, generate, revise, approve, publish | the same |
| Test design versions, evolution, review comments (`test_design_evolution_service`, `test_design_version_service`, `jira_review_comment_service`) | versions, review issue, comment events | refine, regenerate, answer comments | the same |
| Test case registry and publication (`test_case_registry_service`, `test_case_publication_service`) | `test_case_records`, Jira issues | materialise, publish, automate | the same |
| Jira pickup and polling (`jira_pickup_service`, `jira_polling_service`) | runs | poll | the same |
| Session control plane (`automation_session_service`, `automation_session_review_state`, `routes/automation_sessions`) | `automation_sessions`, revision rounds, plan and patch versions, execution attempts, review requests | create, prepare-plan, approve-plan, request-plan-revision, start, request-revision, manual-edit-ack, approve, create-pr | `SessionOps`, `AutomationSession`, `ConcurrentSession` |
| Automation jobs (`automation_job_service`, `routes/automation`) | `automation_jobs`: status, plan, patch, last test result, repair result | start, plan, generate, execute, repair, approve-for-pr, request-revision, manual-edit-ack, create-pr | `AutomationOps`, `AutomationSession` |
| Review, repair, execution services | the job row and the workspace | finalise a run, revise, one repair | `AutomationOps` |
| Coding engines (`automation_engine`, `providers/coding`) | the workspace directory | plan only, execute after plan, initial run, revision | `AutomationOps` |
| Pull request creation (`automation_pr_service`, `pr_creation_service`) | `code_review_requests`, `pr_records`, git, GitHub | the two create-pr pipelines | `PullRequestOps`, `PrPipeline` |
| GitHub adapter, git workspace, connectors | the clone, the pushed branch | branch, fetch, merge, commit, push, open | `PrPipeline` |
| Workspace cache, materialisation, bootstrap (`workspace_cache_service`, `repo_workspace_service`, `repo_bootstrap_service`, `framework_runtime_service`) | `workspace_cache_entries`, the directory of a session, its packages, the browser | clone or refresh, install, reuse, expire, clone again | `SessionWorkspace`; `PrPipeline` for what a rebuilt clone does to git |
| Repository connections, branch policies, UI v1, audit, prompts, agents, schemas | configuration and read models | create, update, render | not modelled: no state machine |

How they interact. A route handler is synchronous and runs in a thread of its
own with one database session; it calls one service, which calls others
directly, and commits once (or, on named errors, commits the failed rows and
answers with an error; any other error rolls back). `start_run` is the exception:
it commits `running` before its graph begins. Everything a call does to Jira, the
workspace, git and GitHub is outside that transaction. The halves meet in a test
case record: a published record gets one automation session. A session owns one
job; both have endpoints of their own, and both change the job.

What is hard here: two APIs over one run and two over one job; runs of one story
that share a registry; reviewers who comment in Jira while others revise in the
UI; error paths that commit half of what the happy path would; a CLI engine that
writes before it fails; a workspace and an issue tracker that do not roll back;
threads that check rows they read before the lock; directories under `/tmp` that
a killed clone or installation leaves half done; a publication pipeline whose
steps leave traces in git that the next attempt meets. `PROJECT.json` gives each
hazard with its line and the properties on it.

What makes each part correct. A run: the design under decision is the one the
reviewer sees; a decision is final and its subject stays readable; every
status tells a decision. The backlog: only approved designs, every case of
them recorded, nothing taken back, no second issue or session. A job or session:
approval only on a passing run, of the content that ran; rounds, plans and patch
versions that say what happened. A pull request: once, tested, with the history
of its branch, and with the approved content. A workspace: what an engine
needs is installed for what is checked out, whatever went wrong before.

## Modules

| Module | What it is |
|---|---|
| `DesignOps` | every endpoint of the workflow half as an operator from the rows of a story to the set of results a committed call may leave |
| `TestDesignRun` | its state machine: one action per endpoint, the reviewer's comments, a start that dies |
| `DesignGate` | its abstract promise: each request for approval decided once, a backlog fed by approvals only, automation once and after publication |
| `ConcurrentDesign` | the same endpoints from several threads: read, then write and commit; the issues Jira really has |
| `AutomationOps` | the job services and the engine adapters in the form of `DesignOps` |
| `SessionOps` | the session services, in the same form |
| `PullRequestOps` | both create-pr endpoints as one operation each |
| `AutomationSession` | the state machine: one action per endpoint, a person editing files, a request that dies |
| `PrGate` | its abstract promise: a pull request only after an approval, an approval only on a passing run, published is final |
| `ConcurrentSession` | the session endpoints from several threads: read, then locked write and commit |
| `PrPipeline` | the session's create-pr step by step, with retries, failures and a moving base |
| `SessionWorkspace` | the session's directory through every request that prepares, uses or publishes from it, step by step, with faults |
| `MC*` | instances for TLC |
| `*_proofs` | lemmas and theorems |

**Operators that return sets of results.** A service is called from several
endpoints and composed with others inside one transaction. The `*Ops` modules
therefore have no variables: `ReviseJob(j, d)` is the set of records
`[job, disk, end]` that a committed call may leave from job row `j` and
workspace `d`, `Approve(v, r)` the set of views of the story's rows; a call that
raises an error its route does not commit has no result. An endpoint composes
these sets the way the code composes the calls (`Revision`, `Reconciled`,
`Record`; `PollIssue` is `StartRun` of a `Created` run), and the whole handler,
the status synchronisation and recording of artefacts included, is one action of
the state machine. The concurrent modules use the same operators on a view that
may be stale, and the proofs are about the operators.

### The workflow half

**Rows.** `runs[r]` is a `workflow_runs` row with the rows that belong to it: the
approvals (`appr[k]`, each named by the design `k` it was requested for, and
`subject[k]`, the design it is about by now), the review issue (`review`), the version rows
(`vers`, `current`) and the comment events (`posted`, `events`). `mode` tells a
run of the Jira graph from one of the UI workspace. `stage`, `approvedPlan`, `design` and `asked` (`approval_id`, the
approval the UI decides) live in one JSON column. `approvedPlan` is the plan that was newest when
`plan_approved_at` was set, so that "the plan is approved" can be asked of a
plan. `cases[i]` is the registry row of case index `i`: its key is made of the
story and the index, so all runs of the story meet in it.

**Stories without a project.** `HasProject` says whether the key of the story
names its Jira project. When it does, every draft leaves a review issue row,
published or failed, and the unique constraint on that row refuses a second draft
of the run. When it does not (a numeric issue id, a key without a hyphen), the
publisher stops before it writes a row (`Refused`): the graph fails with its design
kept, and `generate_test_cases`, which asks only for an approved plan, can be called
again and again, after a decision too. Each call makes a new design and a further
pending approval, while version 1 stays what it was (`Drafted`, `Submitted`). The
other services then take any pending approval (`Pending`), or the one last asked
for (`Asked`).

**Data.** A test design is a number and, in `sizes`, how many cases it drafts:
which cases exist is what the registry and the versions tell apart. Refining,
regenerating and answering a comment may change the number of cases and never
leave zero. The text of stories, plans, cases, comments and replies is left out,
and so are the tests an issue must pass to be picked up, except the one that
looks at other runs. Outcomes of Jira calls are nondeterministic.

**Comments.** `ProcessComments` answers every comment without an event in one
call: each fails, is replied to, or makes a version, in any combination; the
versions of a call are consecutive and the last becomes current.

**Concurrency.** Nothing locks and the session does not autoflush. `Begin` keeps
the run and approval rows a request read (its checks were made on them), and
`Commit` applies the operation to these columns and to the other tables as they
are by then, and writes only what it changed (`Written`); the JSON column is
written whole. Unique constraints, failed checks, refusals of Jira and an ended
process are `RolledBack`. A start has its two commits, a poll reads for active
runs in one transaction and creates in another. `issues` counts what Jira really
created, whatever the rows say.

### The automation half

**Data.** The generated file is a number: content 1 is the checkout, every write
issues the next number. That is enough to ask whether the content that ran, the
content a reviewer approved, the content of a patch version and the content of
the pull request are the same. `approvedOn` (in the job) is history: the content
of the run a reviewer approved. A change plan is its version number; scan, case
spec and context are one flag `ctx`. `exec` and `ranOn` are the stored verdict
and the content it saw. In `AutomationSession` the variables are the rows (`job`,
`sess`, `rounds`), the workspace `disk`, and `pr` on GitHub.

**Engines.** `Engine = "stub"` is the in-process provider: the service validates
a patch and writes it. `Engine = "cli"` (Claude Code, Copilot agent) edits the
workspace itself, and its timeout or failure may come after it wrote.

**Concurrency.** `SessionLocal` does not autoflush, PostgreSQL runs READ
COMMITTED and no query locks: a request checks the row it read, and its first
flush waits for and then holds the row lock. So `Begin` takes a snapshot and
checks it, and `Commit` is everything from the first flush on, applied to the
rows of now: an UPDATE writes only columns that changed against the snapshot
(`Updated`). A `start` after the plan gate also keeps the round it found.
A revision, an acknowledgement and a start of round 1 insert a round;
`(session, round_number)` is unique, so the loser of two inserts aborts. Taking
the session and job rows in one snapshot is an abstraction. Job endpoints run
their engine before the first write to the row and are not in this module.

**The publication pipeline.** `PrPipeline` follows `run_session_pr_pipeline`:
workspace, branch, fetch, merge, test, commit, push, open, store. `row` is the
request's uncommitted copy of the job, `job` the stored row. Errors the route
commits store `pr_creation_failed` (`StepFails`: git or GitHub answered); a worker
that dies, a git command over its time limit, which `subprocess` kills and raises,
and a lost answer from GitHub roll the row back (`RequestDies`). A git killed while
it writes the index may leave its lock or an unmerged index (`clone.blocked`):
`ensure_branch` of every later attempt is refused by it. A base commit in
`Conflicting` touches the files of the patch; its merge is refused each time.
Constants say at which steps faults may happen. The module assumes that test artefacts are ignored
by git, that the workspace is the session's managed clone, and that the patch
differs from the base (a patch equal to it is an error before the commit, as any
other failure of that step).

**The workspace.** `SessionWorkspace` runs one request at a time through its
`step`s. `row` is the request's copy of the rows (path, rounds, status, active
cache entries), `db` the committed ones. A command that fails or runs out of time
ends in an error handler that commits (`StepFails`, `Stored`), a process that dies
commits nothing (`RequestDies`), and neither cleans the directory. A directory
is what later steps can see of it: its `.git`, the commit checked out, the commit
npm last finished for, and whether `node_modules` is neither that nor empty; a
killed git may leave a lock. `edits` says that tracked files of the managed clone
differ from its HEAD, as npm, an engine or a reapplied patch may leave them;
nothing but the publication, which commits them, takes them away. `checkout -B`
carries them along, unless the branch has changed the same files since HEAD
(`Touching`): then git refuses (`Overwritten`, `EditsMet`). Between requests files vanish (`FilesLost`), the
branch moves and cache entries fall due. The engine is its effect on status and
rounds, which `AutomationSession` takes apart, and the publication the two ways
it ends, which `PrPipeline` takes apart. The repository is a Playwright project
that can be cloned; other frameworks are refused before anything is installed.

## Runs

All runs say `CHECK_DEADLOCK FALSE`: once a run is decided and its cases are
published, a job is published, or the bounds are used up, no endpoint accepts a
call, and that is the intended end.

| Run | Shows | Size |
|---|---|---|
| `design_stories` | three stories, each through every order of its calls: one run through every endpoint, with comments, refused Jira calls and a start that dies; two runs that feed one backlog; one run of a story without a project, generated again and again. The open design is the newest, the status tells a decision, the approved plan is the latest, a decision stands, the backlog holds only approved designs, all of each; refinement of `DesignGate` | 240,353 states |
| `design_concurrent` | two clients on one run: version numbers, comments and cases stand, the status tells the decision, a started run ends | 102,069 states |
| `session_cli` | every session endpoint, manual edits and dying requests, CLI engine: review gate, approved run stands, the plan in force, round ledger, status synchronisation, what the pull request carries, the two ways in which untested bytes come to be shown | 146,466 states |
| `mixed_stub` | job and session endpoints on one job: refinement of `PrGate`, nothing the service wrote is shown untested, one repair | 167,955 states |
| `concurrent_all` | two clients from start to pull request, plan gate included: rounds record what ran, closed review rounds are final, the counter moves only to a closed round, plan pause, one pull request | 265,404 states |
| `workspace` | the session's directory under failing commands, dying processes and lost files: hosted engines find it installed, first rounds find it fresh, the cache follows it, leftovers do not stop the next start, but for three kinds | 135,769 states |
| `pr_pipeline` | publication step by step, any step failing or dying, conflicts and locks: past the tests there is one way only, history kept, branch frozen | 30,470 states |
| `design_registry` | violated: the second approved run of a story records no case, because the keys of the first exist | |
| `untested_base` | violated: after a death between merge and stored run, the retry publishes a base that was never tested | |
| `publish_twice` | violated: two publications that overlap, or a retry after a lost answer, create two Jira issues for a case | |
| `loop_wedged` | violated: after a failed revision no round can be opened through the session | |
| `handoff_after_ack` | violated: after an acknowledged manual edit the pull request is not what was approved | |

The violated runs each check a sentence of a doc, a docstring or an error
message of the repository; the findings in `PROJECT.json` quote it.

**The workflow half.** `OpenDesignIsCurrent` relates the approval, the current
version and the run's state: every path that revises a design (comments, refine,
regenerate, the UI) has to move all of them, and only the UI's approve checks it.
It asks for a review issue row: without one a run is
drafted again beside its version 1. `StatusTold` relates status and approval,
which different services write: a workspace run may be analysed or generated
again after a decision, which moves its status but may not claim another
decision. `DecisionStands` is about each approval: whatever is generated later,
what was decided keeps its decision and its design, and a run whose approvals are
all decided gets no further version. `ApprovedPlanIsLatest` says that
preparing a plan withdraws an approval. `CasesApproved`, `ApprovedIsRecorded` and
`RegistryPerRun` relate the shared registry to the runs that feed it: the first
two hold, and the third, which the service's docstring claims, does not. In
`ConcurrentDesign`, `NewestIsCurrent`, `VersionsStand` and `CommentOnce` hold
through the unique constraints alone, `CasesStand` because a row is only written
towards published and automated. `OpenDesignIsCurrent` is a serial property: a
decision that overlaps a revision can be about the design before it.

**The automation half**, in the order of the review loop: `PlanPause` and
`ApprovedPlanInForce` are the plan gate; `RoundLedger` and `CompletedRounds` relate the
counter, the rounds and what each recorded; `ReviewGate`, `ApprovedRunStands`, `EngineOutputTested`,
`UntestedOnlyByFailure` and `RepairSpent` relate a status to the test run behind it; `PrCarriesRecorded` and
`PrCarriesApproved` relate approval and pull request; `SessionStatusSynced`
relates the two status columns. `PrCarriesRecorded` is the strongest form that
holds: when the approved content is one of the recorded patch versions, no other
version is published in its place. The unconditional `PrCarriesApproved` fails
where an edit (or a request that died after writing) put content on disk that no
version records. `EngineOutputTested` holds while engines fail cleanly and no
request dies. `UntestedOnlyByFailure` says of every engine and every call what
breaks it: a request that died after it wrote and left its rows, or an approval
that promotes a job which an engine left in the middle (`Reconciled`). Both happen
in `session_cli`: a revision whose CLI stops leaves the job in
`revising_after_review` with its older pass, which is what approve promotes.

**The publication.** `PublishedTested`, as the documentation has it, fails: a merge
survives in the clone when its request dies, and the next attempt finds nothing to
merge and the pass of the run before. `TestedUnlessCut` is what holds under every
fault: the history variable `unrun` collects the bases that became HEAD in such an
attempt, or with a new clone, and nothing else is published without a passing run
of what is on the branch. In particular an attempt whose tests failed is not
followed by one that publishes the same tree. A deterministic conflict, a
lock, and a push that was refused once (the branch then exists and the commit is
empty) make every retry fail: that is the code, and no property asks for progress.

**Concurrent sessions.** `RoundsClosedOnce` and `CountedWhenClosed` hold by the
unique round number alone, although counter and status are read before the lock.
`RoundsClosedOnce` starts at round 2: after a plan approval a second start works
round 1 again, which is why the counter can move back to it, but to a closed round.

**The workspace.** `HostedReady` relates the installation to the checkout at the
engine, across requests: a half-filled `node_modules` must never count as
installed in a hosted workspace. `FirstRoundFresh` is about the HEAD of the
clone that a dead request left, not about its tree: edits that the branch does
not touch survive the checkout. `CacheTracksWorkspace` has one exception, the code's own: create-pr
stores the path of its new clone before it knows that the patch fits, and the
cache row comes after. `LeftoversHeal` has three: files in the way that are not
QSwarm's; the lock of a killed git, which nothing removes; and edits of an earlier
engine or npm to files that the branch has changed since, over which git refuses
every later checkout. `HostedReady` leaves out what prepares nothing: the start
after a plan approval, and create-pr's test rerun.

**Where the instances stop short of a property.** Some choices of constants are
made because a property fails beyond them; each is a behaviour of the code:

- `EngineOutputTested` is checked with the in-process engine and without dying
  calls; `UntestedOnlyByFailure` is about the rest.
- `ReviewGate` is a serial property. In `ConcurrentSession` an approval that
  overlaps a failing revision approves the failed run, and two starts after the
  plan approval both work round 1.
- `OpenDesignIsCurrent` is about runs with a review issue row. Without one, a
  second generation asks for an approval of a new design while version 1, the
  current one, keeps the first: the UI then refuses to approve the review it shows
  (`stale_version_not_approvable`), and the approvals endpoint grants it.
- `design_concurrent` has a project: two pending approvals of a run without a
  review issue row may be decided in overlapping requests, and the status then
  tells one of them only.
- `StartedRunEnds` takes the process not to end while the graph runs. Otherwise
  the run stays `running`, which `StartDies` reaches in `design_stories`.

**Bounds.** Design runs: `MaxDesigns` 3, a design and two revisions, one
design each for two runs and a revision, or a decided design and two generated
after it; `MaxPlans` 2, a plan and the one that
withdraws its approval; `MaxComments` 2, so that one call answers two comments
with one revision, two, or none, and two calls can follow each other; `MaxCases`
2, so that a revision or a later run can have more cases than the one before, or
fewer; two clients, as every race is between two reads. The story with
two runs leaves the comments and the plan gate out (`StoryCalls`), the other two
have one run (`OneRun`); `design_concurrent` leaves the plan gate out.
`MaxIssues` is a counter of Jira issues that saturates: 0 where no property reads
it, 2 where the question is whether there is a second. Automation runs:
`MaxRounds` 2 or 3, one round before, the failing or racing one and one after;
the third lets a failed round be followed by one more attempt. `MaxPlans` 2: a
plan and its revision. `MaxContents` 3 or 4: checkout, the first patch, a
revision, a manual edit or the write of a request that dies. `PrPipeline`: three
base moves (one merged by each of two attempts, the second commit in conflict with
the patch, one after it), three faults (fail, die or lose the workspace, then two
more).
A bound cuts off only further runs, designs,
comments, rounds, plans, contents or faults. `SessionWorkspace`: two commits (one
move, over edited files), two rounds, and three faults, so that a request can die in the leavings of
another and files be lost as well.

**Fairness.** `ConcurrentDesign` assumes `WF` on `Commit(c)`: a thread in its
last transaction ends it, since its calls to Jira have time limits and a node
that raises is caught by `start_run`, which stores `failed`. Nothing is assumed
of clients. The other modules are safety only: nothing obliges a reviewer to act
or a client to retry, and the service schedules no retry.

## Proofs

| Module | Theorem | Statement |
|---|---|---|
| `TestDesignRun_proofs` | `Types` | `Spec => []TypeOK` |
| | `OpenDesign` | `Spec => []OpenDesignIsCurrent` |
| | `Status` | `Spec => []StatusTold` |
| | `Plan` | `Spec => []ApprovedPlanIsLatest` |
| | `Backing` | `Spec => []CasesApproved` |
| | `Recording` | `Spec => []ApprovedIsRecorded` |
| | `Final` | `Spec => DecisionStands` |
| | `Implementation` | `Spec => ImplementsDesignGate`: every endpoint step is a step of `DesignGate` or a stutter |
| `AutomationSession_proofs` | `Types` | `Spec => []TypeOK` |
| | `Gatekeeping` | `Spec => []ReviewGate` |
| | `ApprovalStands` | `Spec => []ApprovedRunStands` |
| | `Implementation` | `Spec => ImplementsGate`: every endpoint step is a step of `PrGate` or a stutter |
| | `LedgerInStep` | `Spec => []RoundLedger` |
| | `CompletedOnTested` | `Spec => []CompletedRounds` |
| | `ApprovalInForce` | `Spec => []ApprovedPlanInForce` |
| `SessionContent_proofs` | `ContentInvariance` | `Spec => []CInv` |
| | `RecordedIsCarried` | `Spec => []PrCarriesRecorded` |
| | `StatusInStep` | `Spec => []SessionStatusSynced`, for `Calls` without job endpoints |
| | `UntestedByFailure` | `Spec => UntestedOnlyByFailure` |
| | `SpentLeftAlone` | `Spec => RepairSpent` |
| `ConcurrentSession_proofs` | `ConcurrentInvariance` | `ConcurrentSpec => []ConcurrentInv` |
| | `ConcurrentCompletedRounds` | `ConcurrentSpec => []CompletedRounds` |
| | `ConcurrentPlanPause` | `ConcurrentSpec => []PlanPause` |
| | `ClosedOnce` | `ConcurrentSpec => RoundsClosedOnce` |
| | `CountedClosed` | `ConcurrentSpec => CountedWhenClosed` |
| | `OnePullRequest` | `ConcurrentSpec => PrOnce` |
| `ConcurrentDesign_proofs` | `DesignInvariance` | `ConcurrentSpec => []DesignInv` |
| | `CurrentIsNewest` | `ConcurrentSpec => []NewestIsCurrent` |
| | `ConcurrentStatus` | `ConcurrentSpec => []StatusTold`, for a story with a project |
| | `VersionsKept` | `ConcurrentSpec => VersionsStand` |
| | `CommentsDecidedOnce` | `ConcurrentSpec => CommentOnce` |
| | `CasesKept` | `ConcurrentSpec => CasesStand` |
| `SessionWorkspace_proofs` | `Invariance` | `Spec => []IInv` |
| | `Types` | `Spec => []TypeOK` |
| | `EngineFindsHostedReady` | `Spec => []HostedReady` |
| | `FirstRoundIsFresh` | `Spec => []FirstRoundFresh` |
| | `CacheFollowsPath` | `Spec => []CacheTracksWorkspace` |
| | `StartHealsLeftovers` | `Spec => LeftoversHeal` |
| `PrPipeline_proofs` | `PipelineTypes` | `Spec => []TypeOK` |
| | `History` | `Spec => PushKeepsHistory` |
| | `Frozen` | `Spec => PrBranchFrozen` |
| | `Published` | `Spec => []TestedUnlessCut` |

Assumptions: the ASSUMEs of the modules (an engine is stub or cli, bounds are
naturals, `Calls` and the fault sets are subsets of the named ones), nothing on
their values otherwise, and in particular nothing on how many `Clients` there
are. Two theorems state a further hypothesis, named in the table.
`SessionOps_proofs` has no theorem of its own: it holds the lemmas about the
operators (types, statuses, where results come from) that the session proofs cite.

*TestDesignRun.* All eight theorems follow from one inductive invariant,
`Sound(View)`. Its conjuncts are the checked invariants and what they need to be
inductive: a run that does not exist has the empty row, so that creating one
touches no decision; a pending approval of a run is about a design that exists and
about its newest version where the run has a review issue row (`RowInv`); for a
story with a project there is no approval without that row, and one at most; for
one without, a further approval is a new entry beside the decided ones, so that a
second draft adds a request and touches no decision; the subject of an approval is a design that
exists, and designs are numbered without gaps (`Dense`), so that a revision takes
a design no approval is about and cannot change the number of cases behind a
decision; a registry row that does not exist is the empty row (`CasesBacked`).
`Outcome(v)` is the set of sound views in which the decisions of `v` stand and
which a step of `DesignGate` reaches; there is one lemma per operation, saying
that its results are in `Outcome(v)`, and `NextOutcome` collects them, one case
per action. Revisions are proved for any number of comments answered in one call.

*AutomationSession.* `ReviewGate` alone is not inductive: a job in
`pr_creation_failed` is retried without a new approval and is published on a
verdict which may be a rerun, and an approved job is published on the verdict
the approval left. `GateInv` adds what a closed job keeps (its prerequisites,
the run it was approved on), and `IInv == TypeOK /\ GateInv(job)` is inductive.
The argument is by composition, not by unfolding the next-state relation: each
job service has a lemma that its results are `Sound` and where they may come
from (`DraftFrom`), each session endpoint a lemma that its views are in
`Outcome(v)`, which says both that the view is sound and that the step of the
job is one the gate allows (`GateStep`); `StepOutcome` collects them, one case
per action. The same lemmas give the invariant and the refinement.

*Rounds and plan of the session.* `LInv` (`IInv` with both ledger properties) is
inductive for every set of `Calls`: only session endpoints write the rounds, each
at `current_round_number + 1`, so a lemma per endpoint has to show one entry,
closed and counted (`ClosesNext`) or left behind as failed or paused
(`LeavesNext`). That a completed round stands on its run comes from what the
adapters return (`AfterPlanTested`, `RevisionTested`): every returned result that
is neither failed nor waiting for a person has run on the bytes it leaves.
`ApprovedPlanInForce` needs `PlanInv`: while an approval is in force the job is
past its planning, and a paused job holds the current plan version; without these
a later `plan` could write another plan behind the approval. Every service that
does not plan moves a job only onwards with the plan it has (`Later`).

*What the session's rows say of the contents.* `PrCarriesRecorded` is not inductive:
it speaks of a pull request that is open, and a later step could record the
approved content as a version. `ContentInv` therefore follows every content that
can matter: the workspace, the run a job may be approved on and the one it was
approved on are each the *current* patch version, or recorded by no version
(`Origin`); numbers are issued once (`Issued`); a round that was not worked has
no patch (`Blank`), so a version is never overwritten; and what was approved for
an open pull request is on disk or recorded only if it is what the pull
request carries (`Carried`). Two facts per step carry all of it. `Leads`, one lemma per
job service: bytes stay or are new, and the run either stays or is one of the
bytes left. `Serves`, one lemma per session endpoint: what it writes for a result.
`RepairSpent` follows from `Leads` and what each service asks of a failed job.
`StatusInStep` needs `Calls \cap JobApi = {}`: the job endpoints leave the
session row alone, so a client that uses both APIs does take the statuses apart.
`UntestedByFailure` has no hypothesis: every job service returns a job that is
not shown or bytes that its run saw (`JobServicesTested`), an engine that stops
or whose patch is refused shows nothing (`RaisedTested`), and the approval, which
writes no bytes, starts from a job under review or promotes a stuck one
(`Approves`); what is left is the request that dies.

*Concurrent sessions.* A request works on rows that may be stale, so the gate of
`AutomationSession` cannot be assumed of the view it sees. `RowStep(v, w)` is what
each endpoint guarantees of any well-typed view: a round it changes is closed on
what it ran, only round 1 is worked twice, the counter moves with a round it
closed, an open pull request is kept. The action properties follow, since
`Commit` writes only what changed. `PlanPause` is not inductive, as it says nothing
of what the requests in flight have read; `PauseInv` adds that while round 1 is
not closed no request has seen a job generated, run or under review.

*Concurrent designs.* `Moves(op, v, r, w)` says what a call that worked on view `v` may
have done to the row of `r`: versions and answered comments stay, versions form a
ladder up to the current one, status and decision move together. It carries over
to the row the commit finds because the columns that must not go back are never
written from the early read, and because an approval that a call read
is still there when it commits. `DesignInv` is `OrderedRow` of every row and `CallFits` of every
call in flight: its run still exists, the status it read told a decision, and the
approvals it read are still there. With a project a run has one approval
(`AskedOnce`), which is why two decisions that overlap are about the same one.

*PrPipeline.* `GitInv` says what the clone and the pushed branch keep wherever a
request stops: origin was pushed by this clone only if this clone has committed
the patch, so a clone that has pushed cannot reach the push again. `RunInv` says
at each step that a passing verdict was earned on the tree at HEAD, or that HEAD
is known to be `unrun` (`Fits`); that a failed verdict never gets past `NeedsRun`
is the rest of it.

*SessionWorkspace.* No property is inductive alone: what an engine finds depends on
what the steps before it could rely on. `IInv` adds `Stages` (which operation is
at a step, and what status it was let in with), `Clones` (a request that cloned
has the path and the commit; a session that has not started has no managed path),
`Installs` (between npm and the engine the packages stay those of the checkout)
and `Cached` (the entries are one, and when it follows the path). One lemma per
part, one case per action. Edits need no invariant of their own, as `EditsMet` names the
state in which git refuses; `StartHealsLeftovers` needs all parts, to see that no
other refusal of a start is left.

Only model-checked: `StartedRunEnds`, since liveness under fairness and ENABLED
are out of the prover's reach, and `EngineOutputTested`, which holds within the
extent of its run only and whose general form, `UntestedOnlyByFailure`, has a
theorem. So has every other invariant, action property and refinement of a passing
run. What lies beyond a hypothesis is false rather than unproved: the five violated
runs, and `SessionStatusSynced` and `StatusTold` where the table restricts them.
Recursively defined functions over all inputs are out of the
prover's reach as well; the models use none that a theorem needs.

## Plan

1. Done: both halves serially against their gates, both under concurrent
   requests, the publication pipeline, the workspace, and the theorems above.
2. Done: a theorem for every safety property of a passing run, for any number of
   clients in the concurrent modules.
3. The patch validator as a pure operator checked against a reference definition.
4. Concurrent job endpoints (execute, repair), whose engines run before the lock.

## Not modelled

Prompt and document building, the failure analyser's text, framework detection
and the Playwright process (outcomes only), the HTTP of the Jira
client and its document formats (outcomes only), which labels and fields make an
issue eligible, replies to comments, the bookkeeping of feedback, JSON shapes,
audit rows, settings, authentication, the UI's read models, providers other than
GitHub (their adapters only raise), `jira_draft_test_case_sync` (it has no
caller), and the contents of plans, designs, cases and patches.
