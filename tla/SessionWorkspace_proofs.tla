------------------------- MODULE SessionWorkspace_proofs -------------------------
(***************************************************************************)
(* Theorems about SessionWorkspace for every number of commits, rounds and *)
(* faults and every set of commands that may fail.                         *)
(*                                                                         *)
(* Stages says which operation can be at which step and what it has read   *)
(* of the rows, Clones what a request that cloned may rely on, Installs    *)
(* how far the directory is between the steps of an installation, Cached   *)
(* when the cache rows follow the path.                                    *)
(***************************************************************************)
EXTENDS SessionWorkspace, FiniteSetTheorems, TLAPS

Stages ==
    /\ step = "idle" <=> op = "none"
    /\ step = "idle" => row = db
    /\ row.status = db.status
    /\ op \in {"start", "plan"} => db.status = "pending"
    /\ op = "execute" => db.status = "plan_ready" /\ step = "engine"
    /\ op = "create-pr" => db.status \in {"approved", "pr_failed"}
    /\ step \in {"workspace", "reapply", "publish"} => op = "create-pr"
    /\ step \in {"bootstrap", "npm", "browser", "engine"} => op # "create-pr"
    /\ step \in {"prepare", "clone", "checkout"} => op \in {"start", "plan", "create-pr"}
    /\ step \in {"prepare", "clone", "checkout"} /\ op = "create-pr" => row.path = "none"

Clones ==
    /\ step = "idle" => ~cloned
    /\ asked <= base
    /\ cloned => /\ row.path = "managed"
                 /\ ws["managed"].dir = "clone" /\ ws["managed"].head >= asked
    /\ db.status = "pending" => db.path # "managed"
    /\ op \in {"start", "plan"} /\ row.path = "managed" => cloned
    /\ step = "bootstrap" /\ op \in {"start", "plan"} => row.path # "none"
    /\ op \in {"execute", "revise", "ack"} => row.path = db.path

Ready(tree) == tree.dir \in {"clone", "plain"} /\ tree.deps = tree.head /\ ~tree.half

Installs ==
    /\ step = "npm" => row.path \in Paths /\ ws[row.path].dir \in {"clone", "plain"}
    /\ step \in {"browser", "engine"} /\ op # "execute" /\ row.path = "managed" =>
           Ready(ws["managed"])
    /\ step = "engine" /\ op # "execute" /\ row.path = "managed" => browser

Single(r) == \A e, f \in r.cache : e = f

Tracks(r) == \A e \in r.cache : r.path \in {"none", e.path}

Cached ==
    /\ Single(db) /\ Single(row)
    /\ db.status # "pr_failed" => Tracks(db)
    /\ row.status # "pr_failed" /\ step # "reapply" => Tracks(row)
    /\ step = "reapply" => IsGit(row.path)
    /\ step = "publish" => Tracks(row)

IInv == TypeOK /\ Stages /\ Clones /\ Installs /\ Cached

-----------------------------------------------------------------------------
(* What the helpers make of rows and directories. *)

Entries == [path : Paths, due : BOOLEAN]

LEMMA EntriesKept ==
    ASSUME NEW S \in SUBSET Entries, NEW p \in Paths
    PROVE  /\ Entry(p) \in Entries
           /\ Upsert(S, p) \in SUBSET Entries
           /\ {e \in S : ~e.due} \in SUBSET Entries
           /\ MarkUsed(S, p) \in SUBSET Entries
<1>1. Entry(p) \in Entries
  BY DEF Entry, Entries
<1>2. \A T : Upsert(T, p) \in SUBSET Entries
  BY <1>1 DEF Upsert
<1> QED BY <1>1, <1>2 DEF MarkUsed

(* Whatever sole row a session has, its workspace in use has the only one. *)
LEMMA MarkUsedSole ==
    ASSUME NEW S \in SUBSET Entries, NEW p \in Paths, \A e, f \in S : e = f
    PROVE  MarkUsed(S, p) = {Entry(p)}
<1> DEFINE active == {e \in S : ~e.due}
<1>1. CASE \E e \in active : e.path = p
  <2>1. PICK e \in active : e.path = p
    BY <1>1
  <2>2. e = Entry(p)
    BY <2>1 DEF Entry, Entries
  <2>3. active = {e}
    BY <2>1
  <2> QED BY <1>1, <2>2, <2>3 DEF MarkUsed
<1>2. CASE ~\E e \in active : e.path = p
  BY <1>2 DEF MarkUsed, Upsert
<1> QED BY <1>1, <1>2

LEMMA RowKept ==
    ASSUME NEW r \in Rows
    PROVE  /\ \A s \in Status : [r EXCEPT !.status = s] \in Rows
           /\ \A p \in Paths \cup {"none"} : [r EXCEPT !.path = p] \in Rows
           /\ \A S \in SUBSET Entries : [r EXCEPT !.cache = S] \in Rows
           /\ \A p \in Paths \cup {"none"}, S \in SUBSET Entries :
                 [r EXCEPT !.path = p, !.cache = S] \in Rows
BY DEF Rows, Entries

LEMMA TreeKept ==
    ASSUME NEW t \in Trees
    PROVE  /\ \A b \in BOOLEAN : [t EXCEPT !.lock = b] \in Trees
           /\ \A b \in BOOLEAN : [t EXCEPT !.half = b] \in Trees
           /\ \A d \in {"absent", "partial", "clone", "plain"} :
                 /\ [t EXCEPT !.dir = d] \in Trees
                 /\ \A h \in Bases : [t EXCEPT !.dir = d, !.head = h] \in Trees
                 /\ \A b \in BOOLEAN : [t EXCEPT !.dir = d, !.lock = b] \in Trees
           /\ \A c \in Bases, b \in BOOLEAN : [t EXCEPT !.deps = c, !.half = b] \in Trees
BY DEF Trees

LEMMA NoTreeTyped == NoTree \in Trees
BY BoundsAssumption DEF NoTree, Trees, Bases

LEMMA WsKept ==
    ASSUME NEW w \in [Paths -> Trees], NEW p \in Paths
    PROVE  /\ w[p] \in Trees
           /\ \A t \in Trees : [w EXCEPT ![p] = t] \in [Paths -> Trees]
           /\ [w EXCEPT ![p].lock = TRUE] \in [Paths -> Trees]
           /\ [w EXCEPT ![p].half = TRUE] \in [Paths -> Trees]
           /\ [w EXCEPT ![p].dir = "plain", ![p].lock = FALSE] \in [Paths -> Trees]
           /\ \A c \in Bases : [w EXCEPT ![p].deps = c, ![p].half = FALSE] \in [Paths -> Trees]
<1>1. w[p] \in Trees /\ \A t \in Trees : [w EXCEPT ![p] = t] \in [Paths -> Trees]
  OBVIOUS
<1>2. [w EXCEPT ![p].lock = TRUE] = [w EXCEPT ![p] = [w[p] EXCEPT !.lock = TRUE]]
  OBVIOUS
<1>3. [w EXCEPT ![p].half = TRUE] = [w EXCEPT ![p] = [w[p] EXCEPT !.half = TRUE]]
  OBVIOUS
<1>4. [w EXCEPT ![p].dir = "plain", ![p].lock = FALSE]
          = [w EXCEPT ![p] = [w[p] EXCEPT !.dir = "plain", !.lock = FALSE]]
  OBVIOUS
<1>5. \A c : [w EXCEPT ![p].deps = c, ![p].half = FALSE]
          = [w EXCEPT ![p] = [w[p] EXCEPT !.deps = c, !.half = FALSE]]
  OBVIOUS
<1> QED BY <1>1, <1>2, <1>3, <1>4, <1>5, TreeKept

(* npm that has begun to install has touched nothing but the packages. *)
LEMMA BegunKept ==
    ASSUME NEW t \in Trees,
           NEW b \in {[t EXCEPT !.half = TRUE], [t EXCEPT !.deps = 0, !.half = FALSE]}
    PROVE  b.dir = t.dir /\ b.head = t.head
BY DEF Trees

(* An error path changes nothing but the status. *)
LEMMA StoredKept ==
    ASSUME NEW r \in Rows
    PROVE  /\ Stored(r) \in Rows
           /\ Stored(r).path = r.path /\ Stored(r).cache = r.cache
           /\ op \in {"start", "plan", "execute"} => Stored(r).status = "stopped"
           /\ op = "create-pr" => Stored(r).status = "pr_failed"
           /\ op \notin {"start", "plan", "execute", "create-pr"} => Stored(r) = r
BY DEF Stored, Rows, Status

(* A round moves the counters and the status. *)
LEMMA ResultKept ==
    ASSUME TypeOK, Stages, op # "create-pr", NEW left \in RoundResults
    PROVE  /\ left \in Rows
           /\ left.path = row.path /\ left.cache = row.cache
           /\ left.status \in {"plan_ready", "reviewable", "stopped"}
           /\ row.status # "pr_failed"
<1> DEFINE Moved(r) == /\ r \in Rows
                       /\ r.path = row.path /\ r.cache = row.cache
                       /\ r.status \in {"plan_ready", "reviewable", "stopped"}
<1>1. /\ row \in Rows /\ 1 \in 0..MaxRounds
      /\ row.round \in 0..MaxRounds /\ row.last \in 0..MaxRounds
  BY BoundsAssumption DEF TypeOK, Rows
<1>2. \A s \in Status : s \in {"plan_ready", "reviewable", "stopped"} =>
          /\ \A n \in 0..MaxRounds :
                /\ Moved([row EXCEPT !.last = n, !.status = s])
                /\ Moved([row EXCEPT !.round = n, !.status = s])
          /\ \A n, m \in 0..MaxRounds : Moved([row EXCEPT !.last = n, !.round = m, !.status = s])
  BY <1>1 DEF Rows
<1>3. {"plan_ready", "reviewable", "stopped"} \subseteq Status
  BY DEF Status
<1> HIDE DEF Moved
<1>4. CASE op = "plan"
  <2> DEFINE paused == [row EXCEPT !.last = 1, !.status = "plan_ready"]
             failed == [row EXCEPT !.last = 1, !.round = 1, !.status = "stopped"]
  <2>1. RoundResults = IF row.last = 0 THEN {paused, failed} ELSE {}
    BY <1>4 DEF RoundResults
  <2>2. left = paused \/ left = failed
    <3>1. row.last = 0
      BY <2>1
    <3>2. left \in {paused, failed}
      BY <2>1, <3>1, Zenon
    <3> HIDE DEF paused, failed
    <3> QED BY <3>2, Zenon
  <2>3. Moved(paused)
    BY <1>1, <1>2, <1>3
  <2>4. Moved(failed)
    BY <1>1, <1>2, <1>3
  <2> HIDE DEF paused, failed
  <2>5. Moved(left)
    BY <2>2, <2>3, <2>4
  <2> QED BY <1>4, <2>5 DEF Stages, Moved
<1>5. CASE op = "start"
  <2>1. PICK s \in {"reviewable", "stopped"} :
            left = [row EXCEPT !.last = 1, !.round = 1, !.status = s]
    BY <1>5 DEF RoundResults
  <2>2. Moved(left)
    BY <2>1, <1>1, <1>2, <1>3
  <2> QED BY <1>5, <2>2 DEF Stages, Moved
<1>6. CASE op = "execute"
  <2>1. PICK s \in {"reviewable", "stopped"} : left = [row EXCEPT !.round = 1, !.status = s]
    BY <1>6 DEF RoundResults
  <2>2. Moved(left)
    BY <2>1, <1>1, <1>2, <1>3
  <2> QED BY <1>6, <2>2 DEF Stages, Moved
<1>7. CASE op \notin {"plan", "start", "execute"}
  <2>1. row.status = "reviewable"
    BY <1>7 DEF RoundResults
  <2>2. PICK n \in {row.round, row.last}, s \in {"reviewable", "stopped"} :
            left = [row EXCEPT !.round = n, !.status = s]
    BY <1>7, <2>1 DEF RoundResults
  <2>3. Moved(left)
    BY <2>2, <1>1, <1>2, <1>3
  <2> QED BY <2>1, <2>3 DEF Moved
<1> QED BY <1>4, <1>5, <1>6, <1>7

-----------------------------------------------------------------------------
(* Types. *)

LEMMA TypesInit == Init => TypeOK
<1> SUFFICES ASSUME Init PROVE TypeOK
  OBVIOUS
<1>1. db \in Rows
  BY BoundsAssumption DEF Init, NewRows, Rows, Status, Paths
<1>2. NoTree \in Trees /\ [NoTree EXCEPT !.dir = "clone", !.head = 1] \in Trees
  <2>1. 1 \in Bases /\ 0 \in Bases
    BY BoundsAssumption DEF Bases
  <2> QED BY <2>1, NoTreeTyped, TreeKept
<1>3. ws \in [Paths -> Trees]
  BY <1>2 DEF Init
<1>4. /\ op = "none" /\ step = "idle" /\ row = db /\ cloned = FALSE /\ asked = 1
      /\ browser = FALSE /\ edits = FALSE /\ base = 1 /\ faults = 0
  BY DEF Init
<1>5. 1 \in Bases /\ 0 \in 0..MaxFaults
  BY BoundsAssumption DEF Bases
<1> QED
  BY <1>1, <1>3, <1>4, <1>5 DEF TypeOK

(* Every step says whether the clone is left as its HEAD has it. *)
LEMMA EditsKept ==
    ASSUME edits \in BOOLEAN, [Next]_vars
    PROVE  edits' \in BOOLEAN
<1>1. \A p : Edited(p) \subseteq BOOLEAN
  BY DEF Edited
<1>2. Left \subseteq BOOLEAN
  BY <1>1 DEF Left
<1>3. CASE \/ StartRequest \/ ExecuteRequest \/ ReviewRequest \/ ApproveRequest
           \/ CreatePrRequest \/ EnsureWorkspace \/ Prepare \/ Cloned \/ LockMet \/ EditsMet
           \/ Checkout \/ Installed \/ BrowserInstalled \/ BaseMoves \/ EntryDue
  <2>1. edits' = edits
    BY <1>3
       DEF StartRequest, ExecuteRequest, ReviewRequest, ApproveRequest, CreatePrRequest, Begin,
           Refused, EnsureWorkspace, Prepare, Cloned, LockMet, EditsMet, Checkout, Installed,
           BrowserInstalled, BaseMoves, EntryDue
  <2> QED BY <2>1
<1>4. CASE Bootstrap
  <2>1. edits' = edits \/ edits' \in Edited(row.path)
    BY <1>4 DEF Bootstrap, Refused
  <2> QED BY <1>1, <2>1
<1>5. CASE Reapplied \/ EngineRuns \/ Published \/ StepFails \/ RequestDies
  <2>1. edits' \in Left
    BY <1>5 DEF Reapplied, EngineRuns, Published, StepFails, RequestDies
  <2> QED BY <1>2, <2>1
<1>6. CASE FilesLost
  <2>1. edits' = (edits /\ ws'["managed"].dir = "clone") \/ edits' = edits
    BY <1>6 DEF FilesLost
  <2> QED BY <2>1, Zenon
<1> QED BY <1>3, <1>4, <1>5, <1>6 DEF Next, vars

LEMMA TypesStep ==
    ASSUME IInv, [Next]_vars
    PROVE  TypeOK'
<1> USE BoundsAssumption DEF IInv, TypeOK, Bases, Ops, Steps
<1> edits' \in BOOLEAN
  BY EditsKept
<1>0. /\ row.status \in Status /\ row.path \in Paths \cup {"none"}
      /\ row.cache \in SUBSET Entries
      /\ db.cache \in SUBSET Entries /\ db.status \in Status
      /\ "managed" \in Paths /\ Stored(row) \in Rows
  BY StoredKept DEF Rows, Entries, Paths
<1>1. CASE StartRequest
  BY <1>1 DEF StartRequest, Begin
<1>2. CASE ExecuteRequest
  BY <1>2 DEF ExecuteRequest, Begin
<1>3. CASE ReviewRequest
  <2>1. db.round + 1 \in 0..MaxRounds
    BY <1>3 DEF ReviewRequest, Rows
  <2>2. [db EXCEPT !.last = db.round + 1] \in Rows
    BY <2>1, <1>0 DEF Rows
  <2> QED BY <1>3, <2>2 DEF ReviewRequest, Begin
<1>4. CASE ApproveRequest
  BY <1>4 DEF ApproveRequest, End, Rows, Status
<1>5. CASE CreatePrRequest
  BY <1>5 DEF CreatePrRequest, Begin
<1>6. CASE EnsureWorkspace
  <2>1. row' \in Rows
    <3>1. CASE IsGit(row.path)
      <4>1. MarkUsed(row.cache, row.path) \in SUBSET Entries
        BY <1>0, <3>1, EntriesKept DEF IsGit
      <4>2. row' = [row EXCEPT !.cache = MarkUsed(row.cache, row.path)]
        BY <1>6, <3>1 DEF EnsureWorkspace
      <4> QED BY <4>1, <4>2, <1>0, RowKept
    <3>2. CASE ~IsGit(row.path)
      <4> DEFINE kept == {e \in row.cache : ~e.due}
      <4>1. kept \in SUBSET Entries
        BY <1>0
      <4>2. row' = [row EXCEPT !.path = "none", !.cache = kept]
        BY <1>6, <3>2 DEF EnsureWorkspace
      <4> HIDE DEF kept
      <4> QED BY <4>1, <4>2, <1>0, RowKept
    <3> QED BY <3>1, <3>2
  <2> QED BY <1>6, <2>1 DEF EnsureWorkspace, Go, request
<1>7. CASE Prepare
  <2>1. [NoTree EXCEPT !.dir = "partial"] \in Trees
    BY NoTreeTyped, TreeKept
  <2>2. ws' \in [Paths -> Trees]
    BY <1>7, <2>1 DEF Prepare, Refused
  <2>3. CASE Obstructed /\ Refused
    BY <2>3, <1>0, <2>2 DEF Refused, End
  <2>4. CASE Go("bootstrap") \/ Go("clone") \/ Go("checkout")
    BY <1>7, <2>2, <2>4, <1>0 DEF Prepare, Go, request, Refused, End
  <2> QED BY <1>7, <2>3, <2>4 DEF Prepare
<1>8. CASE Cloned
  <2>1. [ws["managed"] EXCEPT !.dir = "clone", !.head = base] \in Trees
    BY <1>0, TreeKept
  <2>2. ws' = [ws EXCEPT !["managed"] = [ws["managed"] EXCEPT !.dir = "clone", !.head = base]]
    BY <1>8, <1>0, Zenon DEF Cloned
  <2>3. ws' \in [Paths -> Trees]
    BY <2>1, <2>2, <1>0, WsKept
  <2> QED BY <1>8, <2>3 DEF Cloned, Go, request
<1>9. CASE LockMet \/ EditsMet
  BY <1>9, <1>0 DEF LockMet, EditsMet, Refused, End
<1>10. CASE Checkout
  <2>1. CheckedOut(ws["managed"]) \in Trees
    BY <1>0, TreeKept DEF CheckedOut
  <2>2. ws' \in [Paths -> Trees]
    BY <1>10, <2>1, <1>0, WsKept DEF Checkout
  <2>3. Upsert(row.cache, "managed") \in SUBSET Entries
    BY <1>0, EntriesKept
  <2> DEFINE new == Upsert(row.cache, "managed")
  <2>5. new \in SUBSET Entries
    BY <2>3
  <2>4. \/ row' = [row EXCEPT !.path = "managed"]
        \/ row' = [row EXCEPT !.path = "managed", !.cache = new]
    BY <1>10 DEF Checkout
  <2> HIDE DEF new
  <2>6. row' \in Rows
    <3>1. row \in Rows /\ "managed" \in Paths \cup {"none"}
      BY <1>0
    <3>2. [row EXCEPT !.path = "managed"] \in Rows
      BY <3>1, RowKept
    <3>3. [row EXCEPT !.path = "managed", !.cache = new] \in Rows
      BY <3>1, <2>5, RowKept
    <3> QED BY <3>2, <3>3, <2>4
  <2> QED BY <1>10, <2>2, <2>6 DEF Checkout, Go, request
<1>11. CASE Reapplied
  <2>1. row.path \in Paths
    BY <1>0, <1>11 DEF Reapplied, Cached, IsGit
  <2>2. Upsert(row.cache, row.path) \in SUBSET Entries
    BY <2>1, <1>0, EntriesKept
  <2>3. row' = [row EXCEPT !.cache = Upsert(row.cache, row.path)]
    BY <1>11 DEF Reapplied
  <2>4. row' \in Rows
    BY <2>2, <2>3, <1>0, RowKept
  <2> QED BY <1>11, <2>4 DEF Reapplied, Go, request
<1>12. CASE Bootstrap
  <2>1. CASE Refused
    BY <2>1, <1>0 DEF Refused, End
  <2>2. CASE Go("engine") /\ UNCHANGED ws
    BY <1>12, <2>2 DEF Bootstrap, Go, request, Refused, End
  <2>3. CASE ~Refused /\ ~(Go("engine") /\ UNCHANGED ws)
    <3>1. /\ row.path # "none" /\ Go("npm")
          /\ UNCHANGED <<db, row, cloned, browser, base, faults>>
      BY <1>12, <2>3 DEF Bootstrap
    <3>2. PICK begun \in {[ws[row.path] EXCEPT !.half = TRUE],
                          [ws[row.path] EXCEPT !.deps = 0, !.half = FALSE]} :
              ws' = [ws EXCEPT ![row.path] = begun]
      BY <1>12, <2>3 DEF Bootstrap
    <3>3. row.path \in Paths /\ 0 \in 0..MaxBase
      BY <3>1, <1>0
    <3>4. ws[row.path] \in Trees
      BY <3>3, WsKept
    <3>5. [ws[row.path] EXCEPT !.half = TRUE] \in Trees
      BY <3>4, TreeKept
    <3>6. [ws[row.path] EXCEPT !.deps = 0, !.half = FALSE] \in Trees
      BY <3>3, <3>4, TreeKept
    <3>7. begun \in Trees
      BY <3>2, <3>5, <3>6
    <3>8. ws' \in [Paths -> Trees]
      BY <3>2, <3>3, <3>7, WsKept
    <3> QED BY <3>1, <3>8 DEF Go, request
  <2> QED BY <2>1, <2>2, <2>3
<1>13. CASE Installed
  <2>1. row.path \in Paths
    BY <1>13 DEF Installed, Installs
  <2>2. ws[row.path].head \in Bases
    BY <2>1 DEF Trees
  <2>3. ws' \in [Paths -> Trees]
    BY <1>13, <2>1, <2>2, WsKept DEF Installed
  <2> QED BY <1>13, <2>3 DEF Installed, Go, request, Hosted
<1>14. CASE BrowserInstalled
  BY <1>14 DEF BrowserInstalled, Go, request
<1>15. CASE EngineRuns
  <2>1. op # "create-pr"
    BY <1>15 DEF EngineRuns, Stages
  <2> QED BY <1>15, <2>1, ResultKept DEF EngineRuns, End
<1>16. CASE Published
  <2>1. PICK s \in {"pr_created", "pr_failed"} : End([row EXCEPT !.status = s])
    BY <1>16 DEF Published
  <2>2. [row EXCEPT !.status = s] \in Rows
    BY <1>0, RowKept DEF Status
  <2> QED BY <1>16, <2>1, <2>2 DEF Published, End
<1>17. CASE StepFails
  <2>1. ws' \in [Paths -> Trees]
    BY <1>17, <1>0, NoTreeTyped, WsKept DEF StepFails, GitKilled
  <2>2. /\ db' = Stored(row) /\ row' = Stored(row) /\ op' = "none" /\ step' = "idle"
        /\ cloned' = FALSE /\ UNCHANGED <<asked, browser, base>>
    BY <1>17 DEF StepFails, End
  <2>3. faults' \in 0..MaxFaults
    BY <1>17 DEF StepFails, Fault
  <2> QED BY <2>1, <2>2, <2>3, <1>0
<1>18. CASE RequestDies
  <2>1. ws' \in [Paths -> Trees]
    BY <1>18, <1>0, WsKept DEF RequestDies, GitKilled
  <2>2. /\ db' = db /\ row' = db /\ op' = "none" /\ step' = "idle"
        /\ cloned' = FALSE /\ UNCHANGED <<asked, browser, base>>
    BY <1>18 DEF RequestDies, End
  <2>3. faults' \in 0..MaxFaults
    BY <1>18 DEF RequestDies, Fault
  <2> QED BY <2>1, <2>2, <2>3
<1>19. CASE FilesLost
  <2>1. ws' \in [Paths -> Trees]
    BY <1>19, <1>0, NoTreeTyped, WsKept DEF FilesLost
  <2>2. browser' \in BOOLEAN /\ UNCHANGED <<db, op, step, row, cloned, asked, base>>
    BY <1>19 DEF FilesLost
  <2>3. faults' \in 0..MaxFaults
    BY <1>19 DEF FilesLost, Fault
  <2> QED BY <2>1, <2>2, <2>3
<1>20. CASE BaseMoves
  BY <1>20 DEF BaseMoves
<1>21. CASE EntryDue
  <2>1. {[e EXCEPT !.due = TRUE] : e \in db.cache} \in SUBSET Entries
    BY <1>0 DEF Entries
  <2> QED BY <1>21, <2>1, <1>0, RowKept DEF EntryDue
<1>22. CASE UNCHANGED vars
  BY <1>22 DEF vars
<1>23. QED
  BY <1>1, <1>2, <1>3, <1>4, <1>5, <1>6, <1>7, <1>8, <1>9, <1>10, <1>11, <1>12, <1>13,
     <1>14, <1>15, <1>16, <1>17, <1>18, <1>19, <1>20, <1>21, <1>22 DEF Next

-----------------------------------------------------------------------------
(* What is at a step was begun by the request that reaches it. *)
LEMMA StagesStep ==
    ASSUME TypeOK, Stages, Clones, [Next]_vars
    PROVE  Stages'
<1> USE BoundsAssumption, FaultsAssumption DEF Stages, Clones, TypeOK, Rows, Ops, Steps,
       Status, Paths
<1>1. CASE StartRequest
  BY <1>1 DEF StartRequest, Begin
<1>2. CASE ExecuteRequest
  BY <1>2 DEF ExecuteRequest, Begin
<1>3. CASE ReviewRequest
  BY <1>3 DEF ReviewRequest, Begin
<1>4. CASE ApproveRequest
  BY <1>4 DEF ApproveRequest, End
<1>5. CASE CreatePrRequest
  BY <1>5 DEF CreatePrRequest, Begin
<1>6. CASE EnsureWorkspace
  BY <1>6 DEF EnsureWorkspace, Go, request, IsGit
<1>7. CASE Prepare
  BY <1>7 DEF Prepare, Go, request, Existing, Obstructed, Refused, End, Stored
<1>8. CASE Cloned
  BY <1>8 DEF Cloned, Go, request
<1>9. CASE LockMet \/ EditsMet
  BY <1>9 DEF LockMet, EditsMet, Refused, End, Stored
<1>10. CASE Checkout
  BY <1>10 DEF Checkout, Go, request, CheckedOut
<1>11. CASE Reapplied
  BY <1>11 DEF Reapplied, Go, request
<1>12. CASE Bootstrap
  BY <1>12 DEF Bootstrap, Go, request, Hosted, Refused, End, Stored
<1>13. CASE Installed
  BY <1>13 DEF Installed, Go, request, Hosted
<1>14. CASE BrowserInstalled
  BY <1>14 DEF BrowserInstalled, Go, request
<1>15. CASE EngineRuns
  BY <1>15 DEF EngineRuns, RoundResults, End
<1>16. CASE Published
  BY <1>16 DEF Published, End
<1>17. CASE StepFails
  BY <1>17 DEF StepFails, Fault, End, Stored, GitKilled
<1>18. CASE RequestDies
  BY <1>18 DEF RequestDies, Fault, End, GitKilled
<1>19. CASE FilesLost
  BY <1>19 DEF FilesLost, Fault
<1>20. CASE BaseMoves
  BY <1>20 DEF BaseMoves
<1>21. CASE EntryDue
  BY <1>21 DEF EntryDue
<1>22. CASE UNCHANGED vars
  BY <1>22 DEF vars
<1>23. QED
  BY <1>1, <1>2, <1>3, <1>4, <1>5, <1>6, <1>7, <1>8, <1>9, <1>10, <1>11, <1>12, <1>13,
     <1>14, <1>15, <1>16, <1>17, <1>18, <1>19, <1>20, <1>21, <1>22 DEF Next

(* What a clone was made from stays known, and a session keeps its path. *)
LEMMA ClonesStep ==
    ASSUME TypeOK, Stages, Clones, [Next]_vars
    PROVE  Clones'
<1> USE BoundsAssumption, FaultsAssumption DEF Stages, Clones, TypeOK, Rows, Trees, Bases,
       Paths, Status, Ops, Steps
<1>1. CASE StartRequest
  BY <1>1 DEF StartRequest, Begin
<1>2. CASE ExecuteRequest
  BY <1>2 DEF ExecuteRequest, Begin
<1>3. CASE ReviewRequest
  BY <1>3 DEF ReviewRequest, Begin
<1>4. CASE ApproveRequest
  BY <1>4 DEF ApproveRequest, End
<1>5. CASE CreatePrRequest
  BY <1>5 DEF CreatePrRequest, Begin
<1>6. CASE EnsureWorkspace
  BY <1>6 DEF EnsureWorkspace, Go, request, IsGit
<1>7. CASE Prepare
  BY <1>7 DEF Prepare, Go, request, Existing, Obstructed, Refused, End, Stored
<1>8. CASE Cloned
  BY <1>8 DEF Cloned, Go, request
<1>9. CASE LockMet \/ EditsMet
  BY <1>9 DEF LockMet, EditsMet, Refused, End, Stored
<1>10. CASE Checkout
  BY <1>10 DEF Checkout, Go, request, CheckedOut
<1>11. CASE Reapplied
  BY <1>11 DEF Reapplied, Go, request
<1>12. CASE Bootstrap
  <2>1. CASE Refused
    BY <1>12, <2>1 DEF Refused, End, Stored
  <2>2. CASE ~Hosted /\ Go("engine") /\ UNCHANGED <<db, row, cloned, ws, browser, base, faults>>
    BY <1>12, <2>2 DEF Bootstrap, Go, request
  <2>3. CASE /\ row.path \in Paths /\ ws[row.path].dir \in {"clone", "plain"}
             /\ Go("npm") /\ UNCHANGED <<db, row, cloned, browser, base, faults>>
             /\ \E begun \in {[ws[row.path] EXCEPT !.half = TRUE],
                              [ws[row.path] EXCEPT !.deps = 0, !.half = FALSE]} :
                    ws' = [ws EXCEPT ![row.path] = begun]
    <3>1. PICK begun \in {[ws[row.path] EXCEPT !.half = TRUE],
                          [ws[row.path] EXCEPT !.deps = 0, !.half = FALSE]} :
              ws' = [ws EXCEPT ![row.path] = begun]
      BY <2>3
    <3> DEFINE tree == ws[row.path]
    <3>2. tree \in Trees
      BY <2>3
    <3>3. begun \in {[tree EXCEPT !.half = TRUE], [tree EXCEPT !.deps = 0, !.half = FALSE]}
      BY <3>1
    <3>4. begun.dir = tree.dir /\ begun.head = tree.head
      <4> HIDE DEF tree, TypeOK, Trees
      <4> QED BY ONLY <3>2, <3>3, BegunKept
    <3>5. \A p \in Paths : ws'[p].dir = ws[p].dir /\ ws'[p].head = ws[p].head
      BY <2>3, <3>1, <3>4
    <3> QED BY <2>3, <3>5 DEF Go, request
  <2> QED BY <1>12, <2>1, <2>2, <2>3 DEF Bootstrap
<1>13. CASE Installed
  BY <1>13 DEF Installed, Go, request, Hosted
<1>14. CASE BrowserInstalled
  BY <1>14 DEF BrowserInstalled, Go, request
<1>15. CASE EngineRuns
  <2>1. op # "create-pr"
    BY <1>15 DEF EngineRuns
  <2>2. \E left \in RoundResults \cup {db} : End(left)
    BY <1>15 DEF EngineRuns
  <2>3. PICK left \in RoundResults \cup {db} : End(left)
    BY <2>2
  <2>4. CASE left \in RoundResults
    BY <1>15, <2>1, <2>3, <2>4, ResultKept DEF EngineRuns, End
  <2>5. CASE left = db
    BY <1>15, <2>3, <2>5 DEF EngineRuns, End
  <2> QED BY <2>3, <2>4, <2>5
<1>16. CASE Published
  BY <1>16 DEF Published, End
<1>17. CASE StepFails
  <2>1. /\ db' = Stored(row) /\ step' = "idle" /\ op' = "none" /\ ~cloned'
        /\ UNCHANGED <<asked, base>> /\ row' = db'
    BY <1>17 DEF StepFails, End
  <2>2. op # "none" /\ op \in Ops
    BY <1>17 DEF StepFails
  <2>3. db'.path = row.path /\ (db'.status = "pending" => op \in {"revise", "ack"})
    BY <2>1, <2>2, StoredKept
  <2> QED BY <2>1, <2>2, <2>3, StoredKept
<1>18. CASE RequestDies
  BY <1>18 DEF RequestDies, Fault, End, GitKilled
<1>19. CASE FilesLost
  BY <1>19 DEF FilesLost, Fault
<1>20. CASE BaseMoves
  BY <1>20 DEF BaseMoves
<1>21. CASE EntryDue
  BY <1>21 DEF EntryDue
<1>22. CASE UNCHANGED vars
  BY <1>22 DEF vars
<1>23. QED
  BY <1>1, <1>2, <1>3, <1>4, <1>5, <1>6, <1>7, <1>8, <1>9, <1>10, <1>11, <1>12, <1>13,
     <1>14, <1>15, <1>16, <1>17, <1>18, <1>19, <1>20, <1>21, <1>22 DEF Next

(* No step between an installation and the engine takes its packages away. *)
LEMMA InstallsStep ==
    ASSUME TypeOK, Stages, Clones, Installs, [Next]_vars
    PROVE  Installs'
<1> USE BoundsAssumption, FaultsAssumption DEF Stages, Clones, Installs, Ready, TypeOK, Rows,
       Trees, Bases, Paths, Status, Ops, Steps
<1>1. CASE StartRequest
  BY <1>1 DEF StartRequest, Begin
<1>2. CASE ExecuteRequest
  BY <1>2 DEF ExecuteRequest, Begin
<1>3. CASE ReviewRequest
  BY <1>3 DEF ReviewRequest, Begin
<1>4. CASE ApproveRequest
  BY <1>4 DEF ApproveRequest, End
<1>5. CASE CreatePrRequest
  BY <1>5 DEF CreatePrRequest, Begin
<1>6. CASE EnsureWorkspace
  BY <1>6 DEF EnsureWorkspace, Go, request, IsGit
<1>7. CASE Prepare
  BY <1>7 DEF Prepare, Go, request, Existing, Obstructed, Refused, End, Stored
<1>8. CASE Cloned
  BY <1>8 DEF Cloned, Go, request
<1>9. CASE LockMet \/ EditsMet
  BY <1>9 DEF LockMet, EditsMet, Refused, End, Stored
<1>10. CASE Checkout
  BY <1>10 DEF Checkout, Go, request, CheckedOut
<1>11. CASE Reapplied
  BY <1>11 DEF Reapplied, Go, request
<1>12. CASE Bootstrap
  <2>1. CASE Refused
    BY <1>12, <2>1 DEF Refused, End, Stored
  <2>2. CASE ~Hosted /\ Go("engine") /\ UNCHANGED <<db, row, cloned, ws, browser, base, faults>>
    BY <1>12, <2>2 DEF Go, request, Hosted
  <2>3. CASE /\ row.path \in Paths /\ ws[row.path].dir \in {"clone", "plain"}
             /\ Go("npm") /\ UNCHANGED <<db, row, cloned, browser, base, faults>>
             /\ \E begun \in {[ws[row.path] EXCEPT !.half = TRUE],
                              [ws[row.path] EXCEPT !.deps = 0, !.half = FALSE]} :
                    ws' = [ws EXCEPT ![row.path] = begun]
    <3>1. PICK begun \in {[ws[row.path] EXCEPT !.half = TRUE],
                          [ws[row.path] EXCEPT !.deps = 0, !.half = FALSE]} :
              ws' = [ws EXCEPT ![row.path] = begun]
      BY <2>3
    <3> DEFINE tree == ws[row.path]
    <3>2. tree \in Trees
      BY <2>3
    <3>3. begun \in {[tree EXCEPT !.half = TRUE], [tree EXCEPT !.deps = 0, !.half = FALSE]}
      BY <3>1
    <3>4. begun.dir = tree.dir /\ begun.head = tree.head
      <4> HIDE DEF tree, TypeOK, Trees
      <4> QED BY ONLY <3>2, <3>3, BegunKept
    <3>5. \A p \in Paths : ws'[p].dir = ws[p].dir /\ ws'[p].head = ws[p].head
      BY <2>3, <3>1, <3>4
    <3> QED BY <2>3, <3>5 DEF Go, request
  <2> QED BY <1>12, <2>1, <2>2, <2>3 DEF Bootstrap
<1>13. CASE Installed
  BY <1>13 DEF Installed, Go, request, Hosted
<1>14. CASE BrowserInstalled
  BY <1>14 DEF BrowserInstalled, Go, request
<1>15. CASE EngineRuns
  BY <1>15 DEF EngineRuns, RoundResults, End
<1>16. CASE Published
  BY <1>16 DEF Published, End
<1>17. CASE StepFails
  BY <1>17 DEF StepFails, Fault, End, Stored, GitKilled
<1>18. CASE RequestDies
  BY <1>18 DEF RequestDies, Fault, End, GitKilled
<1>19. CASE FilesLost
  BY <1>19 DEF FilesLost, Fault
<1>20. CASE BaseMoves
  BY <1>20 DEF BaseMoves
<1>21. CASE EntryDue
  BY <1>21 DEF EntryDue
<1>22. CASE UNCHANGED vars
  BY <1>22 DEF vars
<1>23. QED
  BY <1>1, <1>2, <1>3, <1>4, <1>5, <1>6, <1>7, <1>8, <1>9, <1>10, <1>11, <1>12, <1>13,
     <1>14, <1>15, <1>16, <1>17, <1>18, <1>19, <1>20, <1>21, <1>22 DEF Next

(* A request that reaches the publication holds the only row of the session. *)
LEMMA EntersPublish ==
    ASSUME TypeOK, Stages, Cached, IsGit(row.path), step' = "publish", UNCHANGED <<db, ws>>,
           row' = [row EXCEPT !.cache = {Entry(row.path)}]
    PROVE  Cached'
<1> DEFINE entries == {Entry(row.path)}
<1>1. row' = [row EXCEPT !.cache = entries]
  OBVIOUS
<1>2. row'.cache = entries /\ row'.path = row.path
  <2> HIDE DEF entries
  <2> QED BY <1>1 DEF TypeOK, Rows
<1>3. Single(row')
  BY <1>2 DEF Single
<1>4. Tracks(row')
  BY <1>2 DEF Tracks, Entry
<1>5. step' = "publish" /\ Single(db)' /\ (db.status # "pr_failed" => Tracks(db))'
  BY DEF Cached
<1> QED BY <1>3, <1>4, <1>5 DEF Cached

(* The cache row follows the path. *)
LEMMA CachedStep ==
    ASSUME TypeOK, Stages, Clones, Cached, [Next]_vars
    PROVE  Cached'
<1> USE BoundsAssumption, FaultsAssumption DEF Stages, Clones, Cached, Single, Tracks,
       TypeOK, Rows, Paths, Status, Ops, Steps
<1>0. /\ row \in Rows /\ db \in Rows /\ "managed" \in Paths
      /\ row.cache \in SUBSET Entries /\ db.cache \in SUBSET Entries
  BY DEF Entries
<1>1. CASE StartRequest
  BY <1>1 DEF StartRequest, Begin
<1>2. CASE ExecuteRequest
  BY <1>2 DEF ExecuteRequest, Begin
<1>3. CASE ReviewRequest
  BY <1>3 DEF ReviewRequest, Begin
<1>4. CASE ApproveRequest
  BY <1>4 DEF ApproveRequest, End
<1>5. CASE CreatePrRequest
  BY <1>5 DEF CreatePrRequest, Begin
<1>6. CASE EnsureWorkspace
  <2>1. CASE IsGit(row.path)
    <3>1. row.path \in Paths
      BY <2>1 DEF IsGit
    <3>2. MarkUsed(row.cache, row.path) = {Entry(row.path)}
      BY <3>1, <1>0, MarkUsedSole
    <3>3. /\ row' = [row EXCEPT !.cache = {Entry(row.path)}]
          /\ step' = "publish" /\ UNCHANGED <<db, ws>>
      BY <1>6, <2>1, <3>2 DEF EnsureWorkspace, Go
    <3> QED BY <2>1, <3>3, EntersPublish
  <2>2. CASE ~IsGit(row.path)
    <3>1. /\ row' = [row EXCEPT !.path = "none", !.cache = {e \in @ : ~e.due}]
          /\ step' = "prepare" /\ UNCHANGED db
      BY <1>6, <2>2 DEF EnsureWorkspace, Go
    <3>2. /\ row'.path = "none" /\ row'.status = row.status
          /\ \A e \in row'.cache : e \in row.cache
      BY <3>1, <1>0
    <3>3. Single(row') /\ Tracks(row')
      BY <3>2
    <3> HIDE DEF Single, Tracks
    <3> QED BY <3>1, <3>3
  <2> QED BY <2>1, <2>2
<1>7. CASE Prepare
  BY <1>7 DEF Prepare, Go, request, Existing, Obstructed, Refused, End, Stored, IsGit
<1>8. CASE Cloned
  BY <1>8 DEF Cloned, Go, request, IsGit
<1>9. CASE LockMet \/ EditsMet
  BY <1>9 DEF LockMet, EditsMet, Refused, End, Stored
<1>10. CASE Checkout
  <2>1. /\ UNCHANGED db /\ ws'["managed"].dir = "clone"
    BY <1>10, <1>0 DEF Checkout, CheckedOut
  <2>2. CASE op = "create-pr"
    <3>1. row' = [row EXCEPT !.path = "managed"] /\ step' = "reapply"
      BY <1>10, <2>2 DEF Checkout, Go
    <3>2. row'.path = "managed" /\ row'.cache = row.cache
      BY <3>1, <1>0
    <3>3. Single(row') /\ IsGit(row.path)'
      BY <2>1, <3>2 DEF IsGit
    <3> HIDE DEF Single, Tracks
    <3> QED BY <2>1, <3>1, <3>3
  <2>3. CASE op # "create-pr"
    <3> DEFINE entries == {Entry("managed")}
    <3>1. row' = [row EXCEPT !.path = "managed", !.cache = entries] /\ step' = "bootstrap"
      BY <1>10, <2>3 DEF Checkout, Go, Upsert
    <3>2. row'.path = "managed" /\ row'.cache = entries
      <4> HIDE DEF entries
      <4> QED BY <3>1, <1>0
    <3>3. Single(row') /\ Tracks(row')
      BY <3>2 DEF Entry
    <3> HIDE DEF Single, Tracks, entries
    <3> QED BY <2>1, <3>1, <3>3
  <2> QED BY <2>2, <2>3
<1>11. CASE Reapplied
  <2>1. /\ row' = [row EXCEPT !.cache = {Entry(row.path)}]
        /\ step' = "publish" /\ UNCHANGED <<db, ws>>
    BY <1>11 DEF Reapplied, Go, Upsert
  <2>2. IsGit(row.path)
    BY <1>11 DEF Reapplied
  <2> QED BY <2>1, <2>2, EntersPublish
<1>12. CASE Bootstrap
  BY <1>12 DEF Bootstrap, Go, request, Hosted, Refused, End, Stored
<1>13. CASE Installed
  BY <1>13 DEF Installed, Go, request, Hosted
<1>14. CASE BrowserInstalled
  BY <1>14 DEF BrowserInstalled, Go, request
<1>15. CASE EngineRuns
  <2>1. op # "create-pr" /\ step = "engine"
    BY <1>15 DEF EngineRuns
  <2>2. PICK left \in RoundResults \cup {db} : End(left)
    BY <1>15 DEF EngineRuns
  <2>3. db' = left /\ row' = left /\ step' = "idle"
    BY <2>2 DEF End
  <2>4. CASE left \in RoundResults
    <3>1. left.path = row.path /\ left.cache = row.cache /\ row.status # "pr_failed"
      BY <2>1, <2>4, ResultKept
    <3> HIDE DEF TypeOK, Rows
    <3> QED BY <2>1, <2>3, <3>1
  <2>5. CASE left = db
    BY <2>3, <2>5
  <2> QED BY <2>2, <2>4, <2>5
<1>16. CASE Published
  BY <1>16 DEF Published, End
<1>17. CASE StepFails
  BY <1>17 DEF StepFails, Fault, End, Stored, GitKilled
<1>18. CASE RequestDies
  BY <1>18 DEF RequestDies, Fault, End, GitKilled
<1>19. CASE FilesLost
  BY <1>19 DEF FilesLost, Fault
<1>20. CASE BaseMoves
  BY <1>20 DEF BaseMoves, IsGit
<1>21. CASE EntryDue
  <2> DEFINE aged == {[e EXCEPT !.due = TRUE] : e \in db.cache}
  <2>1. db' = [db EXCEPT !.cache = aged] /\ row' = db' /\ step' = "idle"
    BY <1>21 DEF EntryDue
  <2>2. \A e, f \in aged : e = f
    <3>1. \A e, f \in db.cache : e = f
      OBVIOUS
    <3> QED BY ONLY <3>1, Zenon
  <2>3. \A e \in aged : \E f \in db.cache : e.path = f.path
    BY <1>0 DEF Entries
  <2> HIDE DEF aged
  <2>4. db'.cache = aged /\ db'.path = db.path /\ db'.status = db.status
    BY <2>1, <1>0
  <2>5. Single(db') /\ (Tracks(db) => Tracks(db'))
    BY <2>2, <2>3, <2>4
  <2> HIDE DEF Single, Tracks
  <2> QED BY <2>1, <2>4, <2>5
<1>22. CASE UNCHANGED vars
  BY <1>22 DEF vars, IsGit
<1>23. QED
  BY <1>1, <1>2, <1>3, <1>4, <1>5, <1>6, <1>7, <1>8, <1>9, <1>10, <1>11, <1>12, <1>13,
     <1>14, <1>15, <1>16, <1>17, <1>18, <1>19, <1>20, <1>21, <1>22 DEF Next

-----------------------------------------------------------------------------
(* The invariant. *)

LEMMA IInvInit == Init => IInv
<1> SUFFICES ASSUME Init PROVE IInv
  OBVIOUS
<1>1. /\ TypeOK
      /\ op = "none" /\ step = "idle" /\ row = db /\ cloned = FALSE /\ asked = base
  BY TypesInit DEF Init
<1>2. /\ db.status = "pending" /\ db.path # "managed" /\ db.cache = {}
  BY DEF Init, NewRows
<1>3. base \in Nat
  BY <1>1 DEF TypeOK, Bases
<1> QED
  BY <1>1, <1>2, <1>3 DEF IInv, Stages, Clones, Installs, Cached, Single, Tracks

(* Every reachable state satisfies the conjunction that its parts need. *)
THEOREM Invariance == Spec => []IInv
<1>1. IInv /\ [Next]_vars => IInv'
  BY TypesStep, StagesStep, ClonesStep, InstallsStep, CachedStep DEF IInv
<1> QED
  BY IInvInit, <1>1, PTL DEF Spec

(* Rows, requests and directories keep their types in every operation. *)
THEOREM Types == Spec => []TypeOK
<1>1. IInv => TypeOK
  BY DEF IInv
<1> QED
  BY Invariance, <1>1, PTL

(* An engine that follows the preparation of a hosted workspace finds the
   packages of what is checked out and the browser, whatever requests that
   failed or died and lost files left (repo_bootstrap_service). *)
THEOREM EngineFindsHostedReady == Spec => []HostedReady
<1>1. IInv => HostedReady
  BY DEF IInv, Installs, Ready, HostedReady
<1> QED
  BY Invariance, <1>1, PTL

(* A first round in a clone is on the branch as it was when it was asked for,
   or later (_clone_or_refresh). *)
THEOREM FirstRoundIsFresh == Spec => []FirstRoundFresh
<1>1. IInv => FirstRoundFresh
  BY DEF IInv, Clones, FirstRoundFresh
<1> QED
  BY Invariance, <1>1, PTL

(* A session has at most one active cache row and it is about the stored path,
   except after a publication that failed (_upsert_active_cache). *)
THEOREM CacheFollowsPath == Spec => []CacheTracksWorkspace
<1>1. ASSUME IInv PROVE CacheTracksWorkspace
  <2>1. \A e, f \in db.cache : e = f
    BY <1>1 DEF IInv, Cached, Single
  <2>2. Cardinality(db.cache) <= 1
    <3>1. CASE db.cache = {}
      BY <3>1, FS_EmptySet
    <3>2. CASE db.cache # {}
      <4>1. PICK e \in db.cache : TRUE
        BY <3>2
      <4>2. db.cache = {e}
        BY <4>1, <2>1
      <4> QED BY <4>2, FS_Singleton
    <3> QED BY <3>1, <3>2
  <2> QED BY <1>1, <2>2 DEF IInv, Cached, Tracks, CacheTracksWorkspace
<1> QED
  BY Invariance, <1>1, PTL

(* Where nothing fails anew, a first request fails only on foreign files, on the
   lock of a killed git, or on edits the target branch has moved over, never on
   what an earlier one left half done (_clone_or_refresh). *)
THEOREM StartHealsLeftovers == Spec => LeftoversHeal
<1> DEFINE Excused == \/ faults' > faults \/ ws["managed"].dir = "plain"
                      \/ ws["managed"].lock \/ Overwritten
           Stops   == db.status = "pending" /\ db'.status = "stopped" /\ step # "engine"
<1>1. ASSUME IInv, Next, Stops PROVE Excused
  <2> USE <1>1 DEF IInv
  <2>1. row.status = "pending" /\ db \in Rows /\ row \in Rows /\ op # "create-pr"
    BY DEF TypeOK, Stages
  <2>2. db' # db /\ db'.status # db.status
    OBVIOUS
  <2>3. CASE Prepare
    BY <2>2, <2>3 DEF Prepare, Obstructed
  <2>4. CASE LockMet \/ EditsMet
    BY <2>4 DEF LockMet, EditsMet
  <2>5. CASE Bootstrap
    <3>1. Refused /\ (row.path = "none" \/ (Hosted /\ ws[row.path].dir \notin {"clone", "plain"}))
      BY <2>2, <2>5 DEF Bootstrap
    <3>2. op \in {"start", "plan", "execute"}
      BY <2>1, <2>2, <3>1, StoredKept DEF Refused, End, TypeOK, Ops
    <3>3. op \in {"start", "plan"} /\ step = "bootstrap"
      BY <2>5, <3>2 DEF Bootstrap, Stages
    <3>4. row.path # "none" /\ (row.path = "managed" => cloned)
      BY <3>3 DEF Clones
    <3> QED BY <3>1, <3>4 DEF Clones, Hosted
  <2>6. CASE StepFails
    BY <2>6 DEF StepFails, Fault, TypeOK
  <2>7. CASE ApproveRequest
    BY <2>1, <2>7 DEF ApproveRequest
  <2>8. CASE Published
    BY <2>1, <2>8 DEF Published, Stages
  <2>9. CASE EngineRuns
    BY <2>9 DEF EngineRuns
  <2>10. CASE EntryDue
    BY <2>1, <2>2, <2>10 DEF EntryDue, Rows
  <2>11. CASE StartRequest \/ ExecuteRequest \/ ReviewRequest \/ CreatePrRequest
    BY <2>2, <2>11 DEF StartRequest, ExecuteRequest, ReviewRequest, CreatePrRequest, Begin
  <2>12. CASE EnsureWorkspace \/ Cloned \/ Checkout \/ Reapplied \/ Installed \/ BrowserInstalled
    BY <2>2, <2>12
       DEF EnsureWorkspace, Cloned, Checkout, Reapplied, Installed, BrowserInstalled
  <2>13. CASE RequestDies \/ FilesLost \/ BaseMoves
    BY <2>2, <2>13 DEF RequestDies, End, FilesLost, BaseMoves
  <2> QED
    BY <2>3, <2>4, <2>5, <2>6, <2>7, <2>8, <2>9, <2>10, <2>11, <2>12, <2>13 DEF Next
<1>2. IInv /\ [Next]_vars => [Stops => Excused]_vars
  BY <1>1
<1> QED
  BY Invariance, <1>2, PTL DEF Spec, LeftoversHeal

=============================================================================
