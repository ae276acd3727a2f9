---------------------------- MODULE SessionWorkspace ----------------------------
(***************************************************************************)
(* The directory an automation session works in: cloned or found by start, *)
(* given its npm packages and browser before an engine runs in it, looked  *)
(* for or cloned again by create-pr, and tracked by rows of the workspace  *)
(* cache.  One request at a time, step by step; what a request did on disk *)
(* stays when it fails or dies, what it wrote to its rows is committed     *)
(* when it fails and lost when it dies.                                    *)
(*                                                                         *)
(* A session knows a repository it can be cloned from.  The repository is  *)
(* a Playwright project whose default branch has commits 1, 2, ....        *)
(***************************************************************************)
EXTENDS Naturals, FiniteSets

Steps == {"workspace", "prepare", "clone", "checkout", "bootstrap", "npm", "browser",
          "engine", "reapply", "publish"}

CONSTANTS
    FailsAt,      \* steps whose command may fail or run out of time
    Touching,     \* commits of the target branch to files that engines or npm edit
    MaxBase,      \* bound: commits of the target branch
    MaxRounds,    \* bound: rounds of the session
    MaxFaults     \* bound: faults of any kind

ASSUME FaultsAssumption == FailsAt \subseteq Steps \ {"engine"}
ASSUME TouchingAssumption == Touching \subseteq Nat
ASSUME BoundsAssumption ==
    MaxBase \in Nat \ {0} /\ MaxRounds \in Nat \ {0} /\ MaxFaults \in Nat

Bases == 0..MaxBase

(* The path a user declared, and <root>/sessions/<session id>/repo. *)
Paths == {"declared", "managed"}

(* partial: .git of a clone that was killed, nothing checked out; plain: files
   without .git.  lock: a killed git left its lock file, or a .git it refuses.
   head: the commit checked out.  deps: the commit for which npm last ended
   well, 0 if none; half: node_modules is neither that nor empty. *)
Trees == [dir : {"absent", "partial", "clone", "plain"}, lock : BOOLEAN,
          head : Bases, deps : Bases, half : BOOLEAN]

NoTree == [dir |-> "absent", lock |-> FALSE, head |-> 0, deps |-> 0, half |-> FALSE]

(* Job and session statuses by what the session endpoints accept: stopped is
   any that is neither reviewed nor published from. *)
Status == {"pending", "plan_ready", "reviewable", "stopped", "approved", "pr_failed",
           "pr_created"}

(* The rows: repo_path, current_round_number, the highest round row, and the
   cache entries that are active, due once expires_at has passed. *)
Rows == [status : Status, path : Paths \cup {"none"}, round : 0..MaxRounds,
         last : 0..MaxRounds, cache : SUBSET [path : Paths, due : BOOLEAN]]

Ops == {"start", "plan", "execute", "revise", "ack", "create-pr"}

VARIABLES
    db,        \* the rows as committed
    op,        \* the operation of the request, or "none"
    step,      \* its next step, or "idle"
    row,       \* the rows as it has them
    cloned,    \* the mode of its preparation is cloned_workspace
    asked,     \* the target branch when it began
    ws,        \* what is at each path
    edits,     \* tracked files of the managed clone differ from its HEAD
    browser,   \* Chromium is installed
    base,      \* the target branch on GitHub
    faults

vars == <<db, op, step, row, cloned, asked, ws, edits, browser, base, faults>>

request == <<op, asked>>

NewRows(path) ==
    [status |-> "pending", path |-> path, round |-> 0, last |-> 0, cache |-> {}]

(* A session is created with or without a path of a project. *)
Init ==
    /\ db \in {NewRows("none"), NewRows("declared")}
    /\ op = "none" /\ step = "idle"
    /\ row = db
    /\ cloned = FALSE /\ asked = 1
    /\ ws = [p \in Paths |->
                IF p = "declared" /\ db.path = p
                THEN [NoTree EXCEPT !.dir = "clone", !.head = 1] ELSE NoTree]
    /\ edits = FALSE
    /\ browser = FALSE
    /\ base = 1
    /\ faults = 0

-----------------------------------------------------------------------------
(* How a request begins and ends. *)

Begin(o, r, s) ==
    /\ step = "idle"
    /\ op' = o /\ row' = r /\ step' = s
    /\ cloned' = FALSE /\ asked' = base
    /\ UNCHANGED <<db, ws, edits, browser, base, faults>>

End(rows) ==
    /\ db' = rows /\ row' = rows
    /\ op' = "none" /\ step' = "idle" /\ cloned' = FALSE
    /\ UNCHANGED asked

(* What the error paths store: the job of a first round has failed, the round
   of a review stays in the ledger, the pull request can be tried again. *)
Stored(r) ==
    CASE op \in {"start", "plan", "execute"} -> [r EXCEPT !.status = "stopped"]
      [] op = "create-pr"                    -> [r EXCEPT !.status = "pr_failed"]
      [] OTHER                               -> r

Refused == End(Stored(row)) /\ UNCHANGED <<ws, edits, browser, base, faults>>

Go(s) == step' = s /\ UNCHANGED request

-----------------------------------------------------------------------------
(* The requests. *)

StartRequest ==
    /\ db.status = "pending" /\ db.round = 0
    /\ \E o \in {"start", "plan"} : Begin(o, db, "prepare")

(* start, once the plan has been approved: no preparation of any kind. *)
ExecuteRequest == db.status = "plan_ready" /\ Begin("execute", db, "engine")

(* request-revision and manual-edit-ack take the next round first, whatever the
   status; a revision also looks for its directory before that. *)
ReviewRequest ==
    LET next == db.round + 1
    IN  /\ next > db.last /\ next <= MaxRounds
        /\ \/ /\ db.path # "none" /\ ws[db.path].dir # "absent"
              /\ Begin("revise", [db EXCEPT !.last = next], "bootstrap")
           \/ Begin("ack", [db EXCEPT !.last = next], "bootstrap")

(* approve asks nothing of the workspace; it may promote a stopped job. *)
ApproveRequest ==
    /\ step = "idle"
    /\ db.status \in {"reviewable", "stopped"}
    /\ End([db EXCEPT !.status = "approved"])
    /\ UNCHANGED <<ws, edits, browser, base, faults>>

CreatePrRequest ==
    db.status \in {"approved", "pr_failed"} /\ Begin("create-pr", db, "workspace")

-----------------------------------------------------------------------------
(* Cache entries. *)

Entry(path) == [path |-> path, due |-> FALSE]

(* Fault: the active rows of the session are left active. *)
UpsertKept(entries, path) == {e \in entries : ~e.due} \cup {Entry(path)}

(* Fault: the row gets no expiry. *)
UpsertUndated(entries, path) == {[path |-> path]}

(* _upsert_active_cache: what was active is expired. *)
Upsert(entries, path) == {Entry(path)}

(* mark_workspace_used, after the entries that were due have been expired. *)
MarkUsed(entries, path) ==
    LET active == {e \in entries : ~e.due}
    IN  IF \E e \in active : e.path = path THEN active ELSE Upsert(active, path)

-----------------------------------------------------------------------------
(* The directory. *)

IsGit(path) == path # "none" /\ ws[path].dir \in {"partial", "clone"}

(* ensure_pr_workspace_ready: a stored path that is a git work tree is used as
   it is; else it is forgotten and the session prepared again. *)
EnsureWorkspace ==
    /\ step = "workspace"
    /\ IF IsGit(row.path)
       THEN row' = [row EXCEPT !.cache = MarkUsed(@, row.path)] /\ Go("publish")
       ELSE row' = [row EXCEPT !.path = "none", !.cache = {e \in @ : ~e.due}] /\ Go("prepare")
    /\ UNCHANGED <<db, cloned, ws, edits, browser, base, faults>>

Existing == row.path # "none" /\ ws[row.path].dir # "absent"

(* Fault: any directory that is not a finished clone is in the way. *)
ObstructedUnlessCloned == ws["managed"].dir \in {"plain", "partial"}

(* Files without .git, where the clone would go. *)
Obstructed == ws["managed"].dir = "plain"

(* prepare_automation_session_workspace: an existing directory as it is, or a
   clone, or the clone that an earlier request left. *)
Prepare ==
    /\ step = "prepare"
    /\ \/ /\ Existing
          /\ Go("bootstrap")
          /\ UNCHANGED <<db, row, cloned, ws, edits, browser, base, faults>>
       \/ ~Existing /\ Obstructed /\ Refused
       \/ /\ ~Existing /\ ~Obstructed
          /\ IF ws["managed"].dir = "absent"
             THEN ws' = [ws EXCEPT !["managed"] = [NoTree EXCEPT !.dir = "partial"]] /\ Go("clone")
             ELSE UNCHANGED ws /\ Go("checkout")
          /\ UNCHANGED <<db, row, cloned, edits, browser, base, faults>>

(* git clone ends. *)
Cloned ==
    /\ step = "clone"
    /\ ws' = [ws EXCEPT !["managed"].dir = "clone", !["managed"].head = base]
    /\ Go("checkout")
    /\ UNCHANGED <<db, row, cloned, edits, browser, base, faults>>

(* Fault: a clone that was there is not moved to the branch of now. *)
CheckedOutStale(tree) ==
    [tree EXCEPT !.dir = "clone", !.head = IF tree.dir = "clone" THEN @ ELSE base]

CheckedOut(tree) == [tree EXCEPT !.dir = "clone", !.head = base]

(* git stops at the lock of the git that was killed. *)
LockMet == step = "checkout" /\ ws["managed"].lock /\ Refused

(* Local changes to files that the target branch has changed since HEAD: nothing
   resets or cleans the clone of an earlier request before its checkout. *)
Overwritten == edits /\ \E b \in Touching : ws["managed"].head < b /\ b <= base

(* git refuses to overwrite them. *)
EditsMet == step = "checkout" /\ Overwritten /\ Refused

(* git fetch and checkout -B of the target branch, which carries other local
   changes along; only now is the path stored, and by start a cache row
   written. *)
Checkout ==
    /\ step = "checkout" /\ ~ws["managed"].lock /\ ~Overwritten
    /\ ws' = [ws EXCEPT !["managed"] = CheckedOut(@)]
    /\ cloned' = TRUE
    /\ IF op = "create-pr"
       THEN row' = [row EXCEPT !.path = "managed"] /\ Go("reapply")
       ELSE row' = [row EXCEPT !.path = "managed", !.cache = Upsert(@, "managed")]
            /\ Go("bootstrap")
    /\ UNCHANGED <<db, edits, browser, base, faults>>

(* What npm, an engine or a patch may leave in the files of a clone. *)
Edited(path) == IF path = "managed" /\ ws[path].dir = "clone" THEN {edits, TRUE} ELSE {edits}

(* What a step leaves there, whether it ends, fails or dies: a plan writes no
   file, and the publication commits every change. *)
Left ==
    CASE step = "reapply" \/ (step = "engine" /\ op # "plan") -> Edited(row.path)
      [] step = "publish" /\ row.path = "managed"             -> {edits, FALSE}
      [] OTHER                                                -> {edits}

(* create-pr writes the patch into its new clone, and then the cache row. *)
Reapplied ==
    /\ step = "reapply"
    /\ row' = [row EXCEPT !.cache = Upsert(@, row.path)]
    /\ edits' \in Left
    /\ Go("publish")
    /\ UNCHANGED <<db, cloned, ws, browser, base, faults>>

-----------------------------------------------------------------------------
(* The packages and the browser. *)

(* Fault: only a request that cloned the workspace treats it as hosted. *)
HostedWhenCloned == cloned

(* resolve_workspace_bootstrap_profile: cloned by this request, or stored at
   the managed path. *)
Hosted == cloned \/ row.path = "managed"

(* Hosted workspaces are installed whatever is there, if a supported framework
   is; local ones are left alone when node_modules is not empty.  npm ci begins
   by emptying node_modules, npm install may write package-lock.json. *)
Bootstrap ==
    LET tree    == ws[row.path]
        project == row.path # "none" /\ tree.dir \in {"clone", "plain"}
        skips   == ~Hosted /\ (~project \/ tree.deps # 0 \/ tree.half)
    IN  /\ step = "bootstrap"
        /\ \/ /\ row.path = "none" \/ (Hosted /\ ~project)
              /\ Refused
           \/ /\ row.path # "none" /\ skips
              /\ Go("engine")
              /\ UNCHANGED <<db, row, cloned, ws, edits, browser, base, faults>>
           \/ /\ project /\ ~skips
              /\ \E begun \in {[tree EXCEPT !.half = TRUE],
                               [tree EXCEPT !.deps = 0, !.half = FALSE]} :
                    ws' = [ws EXCEPT ![row.path] = begun]
              /\ edits' \in Edited(row.path)
              /\ Go("npm")
              /\ UNCHANGED <<db, row, cloned, browser, base, faults>>

(* npm ends with 0 and the layout of node_modules is validated. *)
Installed ==
    /\ step = "npm"
    /\ ws' = [ws EXCEPT ![row.path].deps = ws[row.path].head, ![row.path].half = FALSE]
    /\ Go(IF Hosted THEN "browser" ELSE "engine")
    /\ UNCHANGED <<db, row, cloned, edits, browser, base, faults>>

BrowserInstalled ==
    /\ step = "browser"
    /\ browser' = TRUE
    /\ Go("engine")
    /\ UNCHANGED <<db, row, cloned, ws, edits, base, faults>>

-----------------------------------------------------------------------------
(* What the workspace is prepared for. *)

(* The rows a round may leave; none when its number is taken or the status does
   not allow a review, which rolls the request back. *)
RoundResults ==
    CASE op = "plan"  -> IF row.last = 0
                         THEN {[row EXCEPT !.last = 1, !.status = "plan_ready"],
                               [row EXCEPT !.last = 1, !.round = 1, !.status = "stopped"]}
                         ELSE {}
      [] op = "start" -> IF row.last = 0
                         THEN {[row EXCEPT !.last = 1, !.round = 1, !.status = s] :
                                  s \in {"reviewable", "stopped"}}
                         ELSE {}
      [] op = "execute" -> {[row EXCEPT !.round = 1, !.status = s] :
                                s \in {"reviewable", "stopped"}}
      [] OTHER        -> IF row.status = "reviewable"
                         THEN {[row EXCEPT !.round = n, !.status = s] :
                                  n \in {row.round, row.last}, s \in {"reviewable", "stopped"}}
                         ELSE {}

EngineRuns ==
    /\ step = "engine"
    /\ \/ \E left \in RoundResults : End(left)
       \/ RoundResults = {} /\ End(db)
    /\ edits' \in Left
    /\ UNCHANGED <<ws, browser, base, faults>>

(* The publication, which PrPipeline takes apart. *)
Published ==
    /\ step = "publish"
    /\ \E s \in {"pr_created", "pr_failed"} : End([row EXCEPT !.status = s])
    /\ edits' \in Left
    /\ UNCHANGED <<ws, browser, base, faults>>

-----------------------------------------------------------------------------
(* What goes wrong. *)

Fault == faults < MaxFaults /\ faults' = faults + 1

(* git is killed, with or without its lock in place. *)
GitKilled ==
    step \in {"clone", "checkout"} /\ ws' = [ws EXCEPT !["managed"].lock = TRUE]

(* A command fails or is killed at its time limit, and the route commits.  A
   clone that fails removes its directory, one that is killed does not. *)
StepFails ==
    /\ step \in FailsAt
    /\ Fault
    /\ End(Stored(row))
    /\ \/ UNCHANGED ws
       \/ GitKilled
       \/ step = "clone" /\ ws' = [ws EXCEPT !["managed"] = NoTree]
    /\ edits' \in Left
    /\ UNCHANGED <<browser, base>>

(* The process ends, or raises what no route commits. *)
RequestDies ==
    /\ step # "idle"
    /\ Fault
    /\ End(db)
    /\ UNCHANGED ws \/ GitKilled
    /\ edits' \in Left
    /\ UNCHANGED <<browser, base>>

(* The workspace root is under /tmp: between requests a directory may vanish,
   or lose .git or some of its packages; so may the browser. *)
FilesLost ==
    /\ step = "idle"
    /\ Fault
    /\ \/ /\ \E p \in Paths :
                /\ ws[p].dir # "absent"
                /\ \/ ws' = [ws EXCEPT ![p] = NoTree]
                   \/ ws[p].dir = "clone" /\ ws' = [ws EXCEPT ![p].dir = "plain", ![p].lock = FALSE]
                   \/ ws[p].deps # 0 /\ ws' = [ws EXCEPT ![p].half = TRUE]
          /\ edits' = (edits /\ ws'["managed"].dir = "clone")
          /\ UNCHANGED browser
       \/ browser /\ browser' = FALSE /\ UNCHANGED <<ws, edits>>
    /\ UNCHANGED <<db, op, step, row, cloned, asked, base>>

BaseMoves ==
    /\ base < MaxBase
    /\ base' = base + 1
    /\ UNCHANGED <<db, op, step, row, cloned, asked, ws, edits, browser, faults>>

(* QSWARM_WORKSPACE_CACHE_TTL_MINUTES pass without a request. *)
EntryDue ==
    /\ step = "idle"
    /\ \E e \in db.cache : ~e.due
    /\ db' = [db EXCEPT !.cache = {[e EXCEPT !.due = TRUE] : e \in @}]
    /\ row' = db'
    /\ UNCHANGED <<op, step, cloned, asked, ws, edits, browser, base, faults>>

Next ==
    \/ StartRequest \/ ExecuteRequest \/ ReviewRequest \/ ApproveRequest \/ CreatePrRequest
    \/ EnsureWorkspace \/ Prepare \/ Cloned \/ LockMet \/ EditsMet \/ Checkout \/ Reapplied
    \/ Bootstrap \/ Installed \/ BrowserInstalled \/ EngineRuns \/ Published
    \/ StepFails \/ RequestDies \/ FilesLost \/ BaseMoves \/ EntryDue

Spec == Init /\ [][Next]_vars

-----------------------------------------------------------------------------
(* Rows, requests and directories hold what their columns and disks can. *)
TypeOK ==
    /\ db \in Rows /\ row \in Rows
    /\ op \in Ops \cup {"none"} /\ step \in Steps \cup {"idle"}
    /\ cloned \in BOOLEAN /\ asked \in Bases
    /\ ws \in [Paths -> Trees] /\ edits \in BOOLEAN
    /\ browser \in BOOLEAN /\ base \in Bases /\ faults \in 0..MaxFaults

(* "never treat as a casual local skip": whatever earlier requests, deaths and
   losses left behind, an engine that follows a preparation finds a hosted
   workspace with the packages of what is checked out, and a browser. *)
HostedReady ==
    step = "engine" /\ op # "execute" /\ row.path = "managed" =>
        /\ ws["managed"].dir \in {"clone", "plain"}
        /\ ws["managed"].deps = ws["managed"].head /\ ~ws["managed"].half
        /\ browser

(* A first round that works in a clone works on the branch as it was when it
   was asked for, or later, also in the clone of a request that died. *)
FirstRoundFresh ==
    step \in {"engine", "publish"} /\ cloned => ws["managed"].head >= asked

(* One active cache row for a session, and it names the stored path, unless a
   create-pr has just moved the session to a clone that its patch did not fit. *)
CacheTracksWorkspace ==
    /\ Cardinality(db.cache) <= 1
    /\ db.status # "pr_failed" => \A e \in db.cache : db.path \in {"none", e.path}

(* A clone, an installation or a browser that a dead or timed out request left
   half done never makes the next start fail: where nothing fails anew, it only
   fails on files that are not QSwarm's, on a lock that a killed git left, or on
   edits of an earlier engine or npm to files the target branch has changed. *)
LeftoversHeal ==
    [][db.status = "pending" /\ db'.status = "stopped" /\ step # "engine" =>
          \/ faults' > faults
          \/ ws["managed"].dir = "plain" \/ ws["managed"].lock \/ Overwritten]_vars

=============================================================================
