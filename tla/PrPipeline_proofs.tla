--------------------------- MODULE PrPipeline_proofs ---------------------------
(***************************************************************************)
(* What holds of the publication pipeline for every bound and every set of *)
(* faults.  GitInv is what git keeps true of the workspace and the pushed  *)
(* branch wherever a request stops; RunInv is what the stored and the      *)
(* uncommitted test verdict say of the workspace: of its HEAD, or of what  *)
(* HEAD was before an attempt was cut short, which unrun remembers.        *)
(***************************************************************************)
EXTENDS PrPipeline, TLAPS

(* The clone count is bounded by the faults that lost a clone. *)
CloneCount == clone.id <= faults + 1 /\ (~clone.usable => clone.id <= faults)

Branches ==
    /\ clone.head <= clone.tracking /\ clone.tracking <= base
    /\ origin.clone <= clone.id
    /\ origin.clone = clone.id => clone.patched /\ origin.head <= clone.head
    /\ pc = "push" => clone.patched /\ origin.clone # clone.id
    /\ pc \in {"open", "store"} => origin.clone = clone.id /\ origin.head = clone.head
    /\ pc = "store" => pr
    /\ pr => origin.clone # 0

GitInv == TypeOK /\ CloneCount /\ Branches

Early == {"idle", "workspace", "branch", "fetch", "merge"}
Late  == {"push", "open", "store"}

(* A passing verdict was earned on the tree at HEAD, or HEAD is known unrun. *)
Fits(r) == r.passed => r.ranOn = clone.head \/ clone.head \in unrun

RunInv ==
    /\ pc \in Early => row = job
    /\ ~clone.patched /\ pc \in Early => Fits(job)
    /\ ~clone.patched /\ pc = "commit" => Fits(row)
    /\ pc \in Late => Fits(row)
    /\ pc \in Late \cup {"commit"} => row.passed
    /\ job.status = "pr_created" => pc = "idle" /\ pr
    /\ TestedUnlessCut

-----------------------------------------------------------------------------

(* The initial state, an approved job in its first clone, satisfies GitInv. *)
LEMMA GitStart == Init => GitInv
<1> SUFFICES ASSUME Init PROVE GitInv
  OBVIOUS
<1>1. TypeOK
  <2>1. clone = [id |-> 1, usable |-> TRUE, head |-> 0, patched |-> FALSE, tracking |-> 0,
                 blocked |-> FALSE]
    BY DEF Init, CloneOf
  <2>2. clone \in Clones
    BY <2>1, BoundsAssumption DEF Clones, Bases
  <2>3. job \in Jobs /\ row \in Jobs
    BY BoundsAssumption DEF Init, Jobs, Bases, PrStatus
  <2>4. pr \in BOOLEAN /\ unrun \subseteq Bases
    BY DEF Init
  <2>5. QED
    BY <2>2, <2>3, <2>4, BoundsAssumption DEF Init, TypeOK, Bases, Steps
<1>2. CloneCount /\ Branches
  BY DEF Init, CloneCount, Branches, CloneOf
<1>3. QED
  BY <1>1, <1>2 DEF GitInv

(* Every step of the pipeline, fault or not, keeps GitInv. *)
LEMMA GitStep == GitInv /\ [Next]_vars => GitInv'
<1> SUFFICES ASSUME GitInv, [Next]_vars PROVE GitInv'
  OBVIOUS
<1> USE FaultsAssumption, BoundsAssumption
        DEF GitInv, TypeOK, CloneCount, Branches, Bases, Jobs, Clones, PrStatus, Steps, Go, Fault
<1>1. CASE Request
  BY <1>1 DEF Request
<1>2. CASE EnsureWorkspace
  <2>1. CASE UNCHANGED <<clone, unrun>>
    BY <1>2, <2>1 DEF EnsureWorkspace
  <2>2. CASE ~clone.usable /\ clone' = CloneOf(clone.id + 1, base) /\ unrun' = unrun \cup {base}
    <3>1. clone.id + 1 \in 1..(MaxFaults + 1)
      BY <2>2
    <3>2. clone' \in Clones /\ unrun' \subseteq Bases
      BY <2>2, <3>1 DEF CloneOf
    <3>3. TypeOK'
      BY <1>2, <3>2 DEF EnsureWorkspace
    <3>4. (CloneCount /\ Branches)'
      BY <1>2, <2>2 DEF EnsureWorkspace, CloneOf
    <3>5. QED
      BY <3>3, <3>4
  <2>3. QED
    BY <1>2, <2>1, <2>2 DEF EnsureWorkspace
<1>3. CASE EnsureBranch
  BY <1>3 DEF EnsureBranch, Refused, Store
<1>4. CASE Fetch
  BY <1>4 DEF Fetch
<1>5. CASE Merge
  BY <1>5 DEF Merge, Refused, Store
<1>6. CASE TestsPass
  BY <1>6 DEF TestsPass
<1>7. CASE TestsFail
  <2>1. TypeOK'
    <3>1. job' \in Jobs
      BY <1>7 DEF TestsFail, Store
    <3>2. QED
      BY <1>7, <3>1 DEF TestsFail, Store
  <2>2. (CloneCount /\ Branches)'
    BY <1>7 DEF TestsFail, Store
  <2>3. QED
    BY <2>1, <2>2
<1>8. CASE Commit
  <2>1. TypeOK'
    <3>1. CASE Refused
      BY <3>1 DEF Refused, Store
    <3>2. CASE ~Refused
      <4>1. clone' \in Clones
        BY <1>8, <3>2 DEF Commit
      <4>2. QED
        BY <1>8, <3>2, <4>1 DEF Commit
    <3>3. QED
      BY <3>1, <3>2
  <2>2. (CloneCount /\ Branches)'
    BY <1>8 DEF Commit, Refused, Store
  <2>3. QED
    BY <2>1, <2>2
<1>9. CASE Push
  BY <1>9 DEF Push, Accepted, Refused, Store
<1>10. CASE Open
  <2>1. TypeOK'
    <3>1. pr' \in BOOLEAN
      BY <1>10 DEF Open, Refused
    <3>2. QED
      BY <1>10, <3>1 DEF Open, Refused, Store
  <2>2. (CloneCount /\ Branches)'
    BY <1>10 DEF Open, Refused, Store
  <2>3. QED
    BY <2>1, <2>2
<1>11. CASE StoreCreated
  BY <1>11 DEF StoreCreated, Store
<1>12. CASE StepFails
  BY <1>12 DEF StepFails, Store
<1>13. CASE RequestDies
  <2>1. TypeOK'
    <3>1. clone' \in Clones
      BY <1>13 DEF RequestDies
    <3>2. unrun' \subseteq Bases
      BY <1>13 DEF RequestDies
    <3>3. QED
      BY <1>13, <3>1, <3>2 DEF RequestDies
  <2>2. (CloneCount /\ Branches)'
    <3>1. /\ clone'.id = clone.id /\ clone'.usable = clone.usable /\ clone'.head = clone.head
          /\ clone'.patched = clone.patched /\ clone'.tracking = clone.tracking
      BY <1>13 DEF RequestDies
    <3>2. QED
      BY <1>13, <3>1 DEF RequestDies
  <2>3. QED
    BY <2>1, <2>2
<1>14. CASE WorkspaceLost
  <2>1. TypeOK'
    <3>1. clone' \in Clones
      BY <1>14 DEF WorkspaceLost
    <3>2. QED
      BY <1>14, <3>1 DEF WorkspaceLost
  <2>2. (CloneCount /\ Branches)'
    BY <1>14 DEF WorkspaceLost
  <2>3. QED
    BY <2>1, <2>2
<1>15. CASE BaseMoves
  BY <1>15 DEF BaseMoves
<1>16. CASE UNCHANGED vars
  BY <1>16 DEF vars
<1>17. QED
  BY <1>1, <1>2, <1>3, <1>4, <1>5, <1>6, <1>7, <1>8, <1>9, <1>10, <1>11, <1>12,
     <1>13, <1>14, <1>15, <1>16
  DEF Next, Progress

(* GitInv holds of every reachable state. *)
THEOREM GitInductive == Spec => []GitInv
  BY GitStart, GitStep, PTL DEF Spec

(* Rows, clones and branches keep their types for every bound and fault set. *)
THEOREM PipelineTypes == Spec => []TypeOK
<1>1. GitInv => TypeOK
  BY DEF GitInv
<1>2. QED
  BY <1>1, GitInductive, PTL

(* No attempt rewrites what an earlier one pushed: a new clone is refused, and
   a clone that pushed has nothing to commit. *)
THEOREM History == Spec => PushKeepsHistory
<1>1. GitInv /\ [Next]_vars =>
          [origin.clone # 0 =>
              origin'.clone = origin.clone /\ origin'.head >= origin.head]_origin
  <2> SUFFICES ASSUME GitInv, Next, origin' # origin, origin.clone # 0
               PROVE  origin'.clone = origin.clone /\ origin'.head >= origin.head
    BY DEF vars
  <2>1. Push /\ Accepted
    BY DEF Next, Progress, Request, EnsureWorkspace, EnsureBranch, Fetch, Merge, TestsPass,
           TestsFail, Commit, Push, Open, StoreCreated, Refused, StepFails, RequestDies,
           WorkspaceLost, BaseMoves
  <2>2. QED
    BY <2>1 DEF GitInv, Branches, Push, Accepted
<1>2. QED
  BY <1>1, GitInductive, PTL DEF Spec, PushKeepsHistory

(* Nothing is pushed over a branch whose pull request is open, not even by the
   retry of an attempt that opened it and died. *)
THEOREM Frozen == Spec => PrBranchFrozen
<1>1. GitInv /\ [Next]_vars => [pr => origin' = origin]_vars
  <2> SUFFICES ASSUME GitInv, Next, pr, origin' # origin PROVE FALSE
    BY DEF vars
  <2>1. Push /\ Accepted
    BY DEF Next, Progress, Request, EnsureWorkspace, EnsureBranch, Fetch, Merge, TestsPass,
           TestsFail, Commit, Push, Open, StoreCreated, Refused, StepFails, RequestDies,
           WorkspaceLost, BaseMoves
  <2>2. QED
    BY <2>1 DEF GitInv, Branches, Push, Accepted
<1>2. QED
  BY <1>1, GitInductive, PTL DEF Spec, PrBranchFrozen

-----------------------------------------------------------------------------

(* The approval was given for a passing run of the first clone. *)
LEMMA RunStart == Init => RunInv
  BY DEF Init, RunInv, Early, Late, Fits, CloneOf, TestedUnlessCut

(* A verdict keeps fitting the workspace, whatever step fails or dies. *)
LEMMA RunStep == GitInv /\ RunInv /\ [Next]_vars => RunInv'
<1> SUFFICES ASSUME GitInv, RunInv, [Next]_vars PROVE RunInv'
  OBVIOUS
<1> USE FaultsAssumption
        DEF RunInv, Early, Late, Fits, TestedUnlessCut, GitInv, Branches, TypeOK, Bases, Jobs,
            Clones, PrStatus, Steps, Go, Fault
<1>1. CASE Request
  BY <1>1 DEF Request
<1>2. CASE EnsureWorkspace
  BY <1>2 DEF EnsureWorkspace, CloneOf
<1>3. CASE EnsureBranch
  BY <1>3 DEF EnsureBranch, Refused, Store
<1>4. CASE Fetch
  BY <1>4 DEF Fetch
<1>5. CASE Merge
  BY <1>5 DEF Merge, NeedsRun, Refused, Store
<1>6. CASE TestsPass
  BY <1>6 DEF TestsPass
<1>7. CASE TestsFail
  BY <1>7 DEF TestsFail, Store
<1>8. CASE Commit
  BY <1>8 DEF Commit, Refused, Store
<1>9. CASE Push
  BY <1>9 DEF Push, Accepted, Refused, Store
<1>10. CASE Open
  BY <1>10 DEF Open, Refused, Store
<1>11. CASE StoreCreated
  BY <1>11 DEF StoreCreated, Store
<1>12. CASE StepFails
  BY <1>12 DEF StepFails, Store
<1>13. CASE RequestDies
  BY <1>13 DEF RequestDies
<1>14. CASE WorkspaceLost
  BY <1>14 DEF WorkspaceLost
<1>15. CASE BaseMoves
  BY <1>15 DEF BaseMoves
<1>16. CASE UNCHANGED vars
  BY <1>16 DEF vars
<1>17. QED
  BY <1>1, <1>2, <1>3, <1>4, <1>5, <1>6, <1>7, <1>8, <1>9, <1>10, <1>11, <1>12,
     <1>13, <1>14, <1>15, <1>16
  DEF Next, Progress

(* Whatever fails, dies or is lost, what is published was tested as published
   or is a base that a cut attempt or a new clone had left at HEAD. *)
THEOREM Published == Spec => []TestedUnlessCut
<1>1. RunInv => TestedUnlessCut
  BY DEF RunInv
<1>2. QED
  BY <1>1, RunStart, RunStep, GitInductive, PTL DEF Spec

=============================================================================
