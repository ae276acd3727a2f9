------------------------------ MODULE PrPipeline ------------------------------
(***************************************************************************)
(* The session's create-pr step by step: the workspace, the branch, fetch, *)
(* merge, test run, commit, push and GitHub, with a base branch that moves *)
(* meanwhile, steps that fail, and requests that die.  AutomationSession   *)
(* has the whole call as one step; here are the states it leaves in git    *)
(* and on GitHub, and what a retry finds there.                            *)
(*                                                                         *)
(* One approved patch version, and a base branch whose commits are         *)
(* numbered: a tree is the base it contains, with or without the commit of *)
(* the patch.  Test artefacts are ignored by git, so that a commit and a   *)
(* clean working tree say something about the patch only.                  *)
(***************************************************************************)
EXTENDS Naturals

Steps == {"workspace", "branch", "fetch", "merge", "test", "commit", "push", "open", "store"}

CONSTANTS
    FailsAt,          \* steps that may raise an error whose route commits
    DiesAt,           \* steps before which a request may die, its rows rolled back
    LosesWorkspace,   \* the workspace directory may vanish between requests
    Conflicting,      \* commits to the base branch that touch the files of the patch
    MaxBase,          \* bound: commits to the base branch
    MaxFaults         \* bound: faults of any kind

ASSUME FaultsAssumption ==
    FailsAt \subseteq Steps /\ DiesAt \subseteq Steps /\ LosesWorkspace \in BOOLEAN
ASSUME ConflictAssumption == Conflicting \subseteq Nat
ASSUME BoundsAssumption == MaxBase \in Nat /\ MaxFaults \in Nat

Bases == 0..MaxBase

PrStatus == {"approved_for_pr", "pr_creation_failed", "pr_created"}
Jobs == [status : PrStatus, passed : BOOLEAN, ranOn : Bases]
Clones == [id : 1..(MaxFaults + 1), usable : BOOLEAN, head : Bases,
           patched : BOOLEAN, tracking : Bases, blocked : BOOLEAN]

VARIABLES
    job,      \* the stored job: its status, last verdict and the base that run saw
    row,      \* the same row as the request has it, not committed
    pc,       \* the next step of the request, or "idle"
    clone,    \* the workspace: which clone, HEAD, the patch committed or not, origin/base,
              \* and whether a killed git left a lock or an unmerged index in it
    origin,   \* the pushed branch: by which clone (0: absent), and its HEAD
    base,     \* the base branch on GitHub
    pr,       \* TRUE once the pull request is open; it shows the pushed branch
    unrun,    \* history: the bases that became HEAD while no run on them was stored
    faults

vars == <<job, row, pc, clone, origin, base, pr, unrun, faults>>

CloneOf(n, b) ==
    [id |-> n, usable |-> TRUE, head |-> b, patched |-> FALSE, tracking |-> b,
     blocked |-> FALSE]

Init ==
    /\ job = [status |-> "approved_for_pr", passed |-> TRUE, ranOn |-> 0]
    /\ row = job
    /\ pc = "idle"
    /\ clone = CloneOf(1, 0)
    /\ origin = [clone |-> 0, head |-> 0]
    /\ base = 0
    /\ pr = FALSE
    /\ unrun = {}
    /\ faults = 0

-----------------------------------------------------------------------------
(* How a request ends. *)

Fault(enabled) == enabled /\ faults < MaxFaults /\ faults' = faults + 1

(* Every error of the pipeline is stored as pr_creation_failed, with the test
   result of this attempt. *)
Store(r, status) ==
    /\ job' = [r EXCEPT !.status = status]
    /\ row' = job'
    /\ pc' = "idle"

(* Fault: the status the job's own pipeline ends with. *)
RefusedFailed == Store(row, "failed") /\ UNCHANGED <<clone, origin, base, pr, unrun, faults>>

Refused == Store(row, "pr_creation_failed") /\ UNCHANGED <<clone, origin, base, pr, unrun, faults>>

Go(step) == pc' = step

(* A call is accepted while the pull request is not stored as created. *)
Request ==
    /\ pc = "idle"
    /\ job.status \in {"approved_for_pr", "pr_creation_failed"}
    /\ row' = job
    /\ Go("workspace")
    /\ UNCHANGED <<job, clone, origin, base, pr, unrun, faults>>

-----------------------------------------------------------------------------
(* The steps. *)

(* ensure_pr_workspace_ready: a missing workspace is cloned again from the
   base of now, and the patch written into it.  A base that comes with the new
   clone is HEAD without a merge. *)
EnsureWorkspace ==
    /\ pc = "workspace"
    /\ \/ clone.usable /\ UNCHANGED <<clone, unrun>>
       \/ /\ ~clone.usable
          /\ clone' = CloneOf(clone.id + 1, base)
          /\ unrun' = unrun \cup {base}
    /\ Go("branch")
    /\ UNCHANGED <<job, row, origin, base, pr, faults>>

(* ensure_branch: a new clone has only the local base branch, so the branch
   starts there whatever was pushed before; later calls check it out, which
   git refuses for good over the lock or the unmerged index of a killed git. *)
EnsureBranch ==
    /\ pc = "branch"
    /\ \/ clone.blocked /\ Refused
       \/ /\ ~clone.blocked
          /\ Go("fetch")
          /\ UNCHANGED <<job, row, clone, origin, base, pr, unrun, faults>>

(* fetch_base_branch: a failed fetch is noted and the old origin/base used. *)
Fetch ==
    /\ pc = "fetch"
    /\ \/ clone' = [clone EXCEPT !.tracking = base] /\ UNCHANGED faults
       \/ Fault("fetch" \in FailsAt) /\ UNCHANGED clone
    /\ Go("merge")
    /\ UNCHANGED <<job, row, origin, base, pr, unrun>>

(* Fault: the tests run again only when this merge brought something. *)
NeedsRunIfUpdated(updated) == updated

NeedsRun(updated) == updated \/ ~row.passed

(* A commit between HEAD and origin/base that touches the files of the patch:
   git refuses to merge it, and refuses again on every retry. *)
Conflicts == \E b \in Conflicting : clone.head < b /\ b <= clone.tracking

(* refresh_branch_from_base; a conflict is aborted and ends the attempt. *)
Merge ==
    /\ pc = "merge"
    /\ \/ Conflicts /\ Refused
       \/ /\ ~Conflicts
          /\ clone' = [clone EXCEPT !.head = clone.tracking]
          /\ Go(IF NeedsRun(clone.tracking # clone.head) THEN "test" ELSE "commit")
          /\ UNCHANGED <<job, row, origin, base, pr, unrun, faults>>

(* The run that is repeated on the merged tree, with the patch in place. *)
TestsPass ==
    /\ pc = "test"
    /\ row' = [row EXCEPT !.passed = TRUE, !.ranOn = clone.head]
    /\ Go("commit")
    /\ UNCHANGED <<job, clone, origin, base, pr, unrun, faults>>

TestsFail ==
    /\ pc = "test"
    /\ Fault(TRUE)
    /\ Store([row EXCEPT !.passed = FALSE, !.ranOn = clone.head], "pr_creation_failed")
    /\ UNCHANGED <<clone, origin, base, pr, unrun>>

(* Fault: a branch that has the patch is taken for a fresh commit. *)
CommitAgain ==
    /\ pc = "commit"
    /\ clone' = [clone EXCEPT !.patched = TRUE]
    /\ Go("push")
    /\ UNCHANGED <<job, row, origin, base, pr, unrun, faults>>

(* reapply_current_patch_for_pr_commit, git add and git commit: a branch that
   has the patch already shows no difference, which is an error. *)
Commit ==
    /\ pc = "commit"
    /\ \/ clone.patched /\ Refused
       \/ /\ ~clone.patched
          /\ clone' = [clone EXCEPT !.patched = TRUE]
          /\ Go("push")
          /\ UNCHANGED <<job, row, origin, base, pr, unrun, faults>>

(* Fault: git push --force. *)
AcceptedForced == TRUE

(* git push without force: only what extends the branch on GitHub. *)
Accepted == origin.clone \in {0, clone.id}

Push ==
    /\ pc = "push"
    /\ \/ ~Accepted /\ Refused
       \/ /\ Accepted
          /\ origin' = [clone |-> clone.id, head |-> clone.head]
          /\ Go("open")
          /\ UNCHANGED <<job, row, clone, base, pr, unrun, faults>>

(* create_pull_request; GitHub refuses a second one for the branch. *)
Open ==
    /\ pc = "open"
    /\ \/ pr /\ Refused
       \/ /\ ~pr
          /\ pr' = TRUE
          /\ Go("store")
          /\ UNCHANGED <<job, row, clone, origin, base, unrun, faults>>

StoreCreated ==
    /\ pc = "store"
    /\ Store(row, "pr_created")
    /\ UNCHANGED <<clone, origin, base, pr, unrun, faults>>

Progress ==
    \/ EnsureWorkspace \/ EnsureBranch \/ Fetch \/ Merge \/ TestsPass
    \/ Commit \/ Push \/ Open \/ StoreCreated

-----------------------------------------------------------------------------
(* What happens to it. *)

(* A step returns an error, which is stored: git answers with another exit code
   than 0, GitHub refuses, a run cannot be started.  git has ended by itself and
   taken its lock with it. *)
StepFails ==
    /\ Fault(pc \in FailsAt \ {"fetch"})
    /\ Store(row, "pr_creation_failed")
    /\ unrun' = IF pc = "test" THEN unrun \cup {clone.head} ELSE unrun
    /\ UNCHANGED <<clone, origin, base, pr>>

(* The steps in which git writes the index: killed there, it leaves its lock, or
   a merge that nobody aborts. *)
WritesIndex == {"branch", "merge", "commit"}

(* The worker dies, or the step raises what no route commits (a git command is
   killed at its time limit, the answer of GitHub is lost): before "store" the
   pull request is open and nobody knows. *)
RequestDies ==
    /\ Fault(pc \in DiesAt)
    /\ row' = job
    /\ Go("idle")
    /\ \/ UNCHANGED clone
       \/ pc \in WritesIndex /\ clone' = [clone EXCEPT !.blocked = TRUE]
    /\ unrun' = IF pc \in {"test", "commit"} THEN unrun \cup {clone.head} ELSE unrun
    /\ UNCHANGED <<job, origin, base, pr>>

WorkspaceLost ==
    /\ pc = "idle" /\ clone.usable
    /\ Fault(LosesWorkspace)
    /\ clone' = [clone EXCEPT !.usable = FALSE]
    /\ UNCHANGED <<job, row, pc, origin, base, pr, unrun>>

BaseMoves ==
    /\ base < MaxBase
    /\ base' = base + 1
    /\ UNCHANGED <<job, row, pc, clone, origin, pr, unrun, faults>>

Next ==
    \/ Request \/ Progress \/ TestsFail
    \/ StepFails \/ RequestDies \/ WorkspaceLost \/ BaseMoves

Spec == Init /\ [][Next]_vars

-----------------------------------------------------------------------------
(* Properties. *)

(* Rows, clones and branches hold what git and the columns can hold. *)
TypeOK ==
    /\ job \in Jobs /\ row \in Jobs
    /\ pc \in Steps \cup {"idle"}
    /\ clone \in Clones
    /\ origin \in [clone : 0..(MaxFaults + 1), head : Bases]
    /\ base \in Bases /\ pr \in BOOLEAN /\ unrun \subseteq Bases
    /\ faults \in 0..MaxFaults

(* What is published was tested as published: the stored verdict is a pass on
   the base that is on the branch.  The documentation says so of a base that
   the merge brings in; the code forgets a merge whose attempt was cut short
   before its run was stored. *)
PublishedTested == job.status = "pr_created" => job.passed /\ job.ranOn = origin.head

(* That is the only way past the tests, whatever fails, dies or gets lost: a
   session is stored as published on a passing run of what is on its branch,
   or on a base that an attempt cut short between its merge and its commit, or
   a new clone, had left at HEAD.  In particular an attempt whose tests failed
   is never followed by one that publishes the same tree untested. *)
TestedUnlessCut ==
    job.status = "pr_created" =>
        job.passed /\ (job.ranOn = origin.head \/ origin.head \in unrun)

(* A branch on GitHub never goes back: what was pushed stays in it. *)
PushKeepsHistory ==
    [][origin.clone # 0 =>
          origin'.clone = origin.clone /\ origin'.head >= origin.head]_origin

(* Once the pull request is open its branch stays as it was reviewed and
   tested, also when the attempt that opened it never knew. *)
PrBranchFrozen == [][pr => origin' = origin]_vars

=============================================================================
