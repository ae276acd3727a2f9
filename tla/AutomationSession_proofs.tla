----------------------- MODULE AutomationSession_proofs -----------------------
(***************************************************************************)
(* Theorems about AutomationSession for every value of its constants: any  *)
(* engine, any bounds, any set of operations clients use.                  *)
(*                                                                         *)
(* IInv is inductive: TypeOK strengthened by GateInv, which says what a    *)
(* closed job (approved, publication failed, published) keeps so that the  *)
(* gate still holds when it moves on.  The proof of the step is            *)
(* StepOutcome: every operation leaves a view in Outcome.                  *)
(***************************************************************************)
EXTENDS AutomationSession, SessionOps_proofs

IInv == TypeOK /\ GateInv(job)

-----------------------------------------------------------------------------

(* The invariant is that the rows form a sound view. *)
LEMMA IInvView == IInv <=> View \in SoundViews
BY DEF IInv, TypeOK, View, SoundViews, Views

(* The rows and workspaces a fresh deployment starts from. *)
LEMMA InitIInv == Init => IInv
<1> SUFFICES ASSUME Init PROVE IInv
  OBVIOUS
<1>1. job \in Jobs /\ GateInv(job)
  BY BoundsAssumption
     DEF Init, NewJob, Jobs, JobStatus, Plans, Contents, Verdicts, GateInv, Gated, Closed
<1>2. sess \in Sessions
  BY BoundsAssumption DEF Init, NewSession, Sessions, SessionStatus, Plans
<1>3. rounds \in [1..MaxRounds -> Rounds]
  BY AbsentRoundType DEF Init
<1>4. pr \in Prs
  BY BoundsAssumption DEF Init, NoPr, Prs, Contents
<1>5. disk \in Disks
  BY BoundsAssumption DEF Init, NewDisk, Disks, Contents
<1> QED BY <1>1, <1>2, <1>3, <1>4, <1>5 DEF IInv, TypeOK

(* A call that commits a sound outcome takes the system there. *)
LEMMA CommittedOutcome ==
    ASSUME NEW STATE results, results \subseteq Outcome(View), Committed(results)
    PROVE  IInv' /\ GateStep(job, job')
<1>1. PICK v \in results :
          /\ job' = v.job /\ sess' = v.sess /\ rounds' = v.rounds
          /\ pr' = v.pr /\ disk' = v.disk
  BY DEF Committed
<1>2. v \in Views /\ GateInv(v.job) /\ GateStep(job, v.job)
  BY <1>1 DEF Outcome, SoundViews, View
<1> QED BY <1>1, <1>2 DEF IInv, TypeOK, Views

(* A job endpoint keeps what its service leaves. *)
LEMMA JobCallOutcome ==
    ASSUME IInv, NEW STATE results, results \subseteq DraftFrom(job)
    PROVE  JobCall(results) \subseteq Outcome(View)
<1>1. View \in Views /\ View.job = job
  BY IInvView DEF SoundViews, View
<1>2. ASSUME NEW r \in results PROVE Kept(View, r) \in Outcome(View)
  <2>1. r \in Sound /\ GateStep(View.job, r.job)
    BY <1>1, <1>2, DraftStep
  <2> QED BY <1>1, <2>1, KeptOutcome
<1> QED BY <1>2 DEF JobCall

(* One case per session endpoint. *)
LEMMA SessionStep ==
    ASSUME IInv, SessionNext PROVE IInv' /\ GateStep(job, job')
<1>1. View \in SoundViews
  BY IInvView
<1>2. CASE PreparePlanRequest
  BY <1>1, <1>2, PreparePlanOutcome, CommittedOutcome DEF PreparePlanRequest
<1>3. CASE ApprovePlanRequest
  BY <1>1, <1>3, ApprovePlanOutcome, CommittedOutcome DEF ApprovePlanRequest
<1>4. CASE RevisePlanRequest
  BY <1>1, <1>4, RevisePlanOutcome, CommittedOutcome DEF RevisePlanRequest
<1>5. CASE StartRequest
  BY <1>1, <1>5, StartSessionOutcome, CommittedOutcome DEF StartRequest
<1>6. CASE ReviseRequest
  BY <1>1, <1>6, ReviseSessionOutcome, CommittedOutcome DEF ReviseRequest
<1>7. CASE AckRequest
  BY <1>1, <1>7, AckSessionOutcome, CommittedOutcome DEF AckRequest
<1>8. CASE ApproveRequest
  BY <1>1, <1>8, ApproveSessionOutcome, CommittedOutcome DEF ApproveRequest
<1>9. CASE CreatePrRequest
  BY <1>1, <1>9, CreatePrSessionOutcome, CommittedOutcome DEF CreatePrRequest
<1> QED BY <1>2, <1>3, <1>4, <1>5, <1>6, <1>7, <1>8, <1>9 DEF SessionNext

(* One case per job endpoint. *)
LEMMA JobStep ==
    ASSUME IInv, JobNext PROVE IInv' /\ GateStep(job, job')
<1>1. View \in SoundViews /\ job \in Jobs /\ disk \in Disks
  BY IInvView DEF IInv, TypeOK
<1>2. CASE StartJobRequest
  <2>1. StartJob(job, disk) \subseteq DraftFrom(job)
    BY <1>1, StartJobDraft DEF DraftFrom, StartJob, When, Closed
  <2> QED BY <1>2, <2>1, JobCallOutcome, CommittedOutcome DEF StartJobRequest
<1>3. CASE PlanJobRequest
  BY <1>1, <1>3, PlanJobDraft, JobCallOutcome, CommittedOutcome DEF PlanJobRequest
<1>4. CASE GenerateJobRequest
  BY <1>1, <1>4, GenerateJobDraft, JobCallOutcome, CommittedOutcome DEF GenerateJobRequest
<1>5. CASE ExecuteJobRequest
  BY <1>1, <1>5, ExecuteJobDraft, JobCallOutcome, CommittedOutcome DEF ExecuteJobRequest
<1>6. CASE RepairJobRequest
  BY <1>1, <1>6, RepairJobDraft, JobCallOutcome, CommittedOutcome DEF RepairJobRequest
<1>7. CASE ApproveJobRequest
  <2>1. ASSUME NEW r \in ApproveJob(job, disk) PROVE Kept(View, r) \in Outcome(View)
    <3>1. r \in Sound /\ GateStep(job, r.job)
      BY <1>1, ApproveJobSound DEF IInv, GateStep, Open
    <3>2. View \in Views /\ View.job = job
      BY <1>1 DEF SoundViews, View
    <3> QED BY <3>1, <3>2, KeptOutcome
  <2>2. JobCall(ApproveJob(job, disk)) \subseteq Outcome(View)
    BY <2>1 DEF JobCall
  <2> QED BY <1>7, <2>2, CommittedOutcome DEF ApproveJobRequest
<1>8. CASE ReviseJobRequest
  BY <1>1, <1>8, ReviseJobDraft, JobCallOutcome, CommittedOutcome DEF ReviseJobRequest
<1>9. CASE AckJobRequest
  BY <1>1, <1>9, AckJobDraft, JobCallOutcome, CommittedOutcome DEF AckJobRequest
<1>10. CASE CreatePrJobRequest
  BY <1>1, <1>10, CreatePrJobOutcome, CommittedOutcome DEF CreatePrJobRequest
<1> QED BY <1>2, <1>3, <1>4, <1>5, <1>6, <1>7, <1>8, <1>9, <1>10 DEF JobNext

(* A person's edit and a call that dies leave the rows alone. *)
LEMMA OutsideStep ==
    ASSUME IInv, HumanEdit \/ InterruptedRequest PROVE IInv' /\ GateStep(job, job')
<1>1. View \in SoundViews /\ job \in Jobs /\ disk \in Disks
  BY IInvView DEF IInv, TypeOK
<1>2. ASSUME job' = job, sess' = sess, rounds' = rounds, pr' \in Prs, disk' \in Disks
      PROVE  IInv' /\ GateStep(job, job')
  BY <1>2 DEF IInv, TypeOK, GateStep
<1>3. CASE HumanEdit
  <2>1. disk.made + 1 \in Contents
    BY <1>1, <1>3, BoundsAssumption DEF HumanEdit, Disks, Contents
  <2>2. disk' \in Disks /\ pr' \in Prs
    BY <1>3, <2>1 DEF HumanEdit, Disks, IInv, TypeOK
  <2> QED BY <1>2, <1>3, <2>2 DEF HumanEdit
<1>4. CASE InterruptedRequest
  <2> DEFINE calls == StartSession(View) \cup ReviseSession(View) \cup CreatePrSession(View)
                      \cup JobCall(GenerateJob(job, disk) \cup ReviseJob(job, disk)
                                   \cup RepairJob(job, disk))
                      \cup CreatePrJob(View)
  <2>1. GenerateJob(job, disk) \cup ReviseJob(job, disk) \cup RepairJob(job, disk)
            \subseteq DraftFrom(job)
    BY <1>1, GenerateJobDraft, ReviseJobDraft, RepairJobDraft
  <2>2. calls \subseteq Outcome(View)
    BY <1>1, <2>1, StartSessionOutcome, ReviseSessionOutcome, CreatePrSessionOutcome,
       CreatePrJobOutcome, JobCallOutcome
  <2>3. \E v \in calls : pr' = v.pr /\ disk' = v.disk
    BY <1>4 DEF InterruptedRequest
  <2> HIDE DEF calls
  <2>4. pr' \in Prs /\ disk' \in Disks
    BY <2>2, <2>3 DEF Outcome, SoundViews, Views
  <2> QED BY <1>2, <1>4, <2>4 DEF InterruptedRequest
<1> QED BY <1>3, <1>4

(* IInv is inductive, and every step is one the gate allows. *)
LEMMA StepOutcome ==
    ASSUME IInv, [Next]_vars PROVE IInv' /\ GateStep(job, job')
<1>1. CASE Next
  BY <1>1, SessionStep, JobStep, OutsideStep DEF Next
<1>2. CASE UNCHANGED vars
  BY <1>2 DEF vars, IInv, TypeOK, GateStep
<1> QED BY <1>1, <1>2

-----------------------------------------------------------------------------
(* The theorems. *)

(* The inductive invariant. *)
THEOREM Inductive == Spec => []IInv
<1>1. Init => IInv
  BY InitIInv
<1>2. IInv /\ [Next]_vars => IInv'
  BY StepOutcome
<1> QED BY <1>1, <1>2, PTL DEF Spec

(* Every row and the workspace always hold values their columns can hold,
   whatever the order of the calls. *)
THEOREM Types == Spec => []TypeOK
<1>1. IInv => TypeOK
  BY DEF IInv
<1> QED BY <1>1, Inductive, PTL

(* No order of the calls of the two APIs puts a job in front of a reviewer,
   approves it or opens its pull request without a passing latest run and
   the prerequisites of one. *)
THEOREM Gatekeeping == Spec => []ReviewGate
<1>1. IInv => ReviewGate
  BY DEF IInv, GateInv, ReviewGate, Gated, Closed
<1> QED BY <1>1, Inductive, PTL

(* An approval is always of the latest run: no operation runs the tests of
   an approved job and leaves it approved. *)
THEOREM ApprovalStands == Spec => []ApprovedRunStands
<1>1. IInv => ApprovedRunStands
  BY DEF IInv, GateInv, ApprovedRunStands
<1> QED BY <1>1, Inductive, PTL

-----------------------------------------------------------------------------
(* The control plane implements PrGate. *)

(* A new job is a new gate. *)
LEMMA GateInitial == Init => Gate!GateInit
BY DEF Init, NewJob, GatePhase, Gate!GateInit

(* A step of the job the gate allows is a step of the gate. *)
LEMMA GateSimulation ==
    ASSUME IInv, IInv', GateStep(job, job')
    PROVE  [Gate!GateNext]_<<GatePhase, job.exec = "passed">>
<1>1. /\ GatePhase = "in_review" => job.exec = "passed"
      /\ GatePhase' = "in_review" => job'.exec = "passed"
  BY DEF IInv, GateInv, GatePhase, Gated
<1>2. CASE job'.status = job.status /\ job'.exec = job.exec
  BY <1>2 DEF GatePhase
<1>3. CASE Open(job) /\ Open(job')
  <2>1. GatePhase \in {"working", "in_review"} /\ GatePhase' \in {"working", "in_review"}
    BY <1>3 DEF Open, Closed, GatePhase
  <2> QED BY <1>1, <2>1 DEF Gate!GateNext, Gate!Work, Gate!Submit
<1>4. CASE /\ Open(job) /\ job.exec = "passed" /\ job'.exec = "passed"
           /\ job'.status = "approved_for_pr"
  <2>1. GatePhase # "published" /\ GatePhase' = "approved"
    BY <1>4 DEF Open, Closed, GatePhase
  <2> QED BY <1>4, <2>1 DEF Gate!GateNext, Gate!Approve
<1>5. CASE Releasable(job) /\ job'.status = "pr_created" /\ job'.exec = "passed"
  <2>1. GatePhase = "approved" /\ GatePhase' = "published"
    BY <1>5 DEF Releasable, GatePhase
  <2> QED BY <1>5, <2>1 DEF Gate!GateNext, Gate!Publish
<1>6. CASE /\ Releasable(job)
           /\ job'.status \notin {"pr_created", "awaiting_automation_review"}
  <2>1. GatePhase = "approved" /\ GatePhase' \in {"approved", "working"}
    BY <1>6 DEF Releasable, GatePhase
  <2> QED BY <2>1 DEF Gate!GateNext, Gate!Retreat
<1> QED BY <1>2, <1>3, <1>4, <1>5, <1>6 DEF GateStep

(* Refinement: every behaviour of the control plane, seen through GatePhase
   and the verdict of the latest run, is a behaviour of the gate. *)
THEOREM Implementation == Spec => ImplementsGate
<1>1. Init => Gate!GateInit
  BY GateInitial
<1>2. IInv /\ IInv' /\ [Next]_vars => [Gate!GateNext]_<<GatePhase, job.exec = "passed">>
  BY StepOutcome, GateSimulation
<1> QED BY <1>1, <1>2, Inductive, PTL DEF Spec, ImplementsGate, Gate!GateSpec

-----------------------------------------------------------------------------
(***************************************************************************)
(* The round ledger and the approved plan of AutomationSession, for every  *)
(* value of the constants and every order of the calls of both APIs:       *)
(* RoundLedger, CompletedRounds and ApprovedPlanInForce.                   *)
(*                                                                         *)
(* The ledger speaks of the session row and the rounds, which only the     *)
(* session endpoints write, always at current_round_number + 1.  Enough is *)
(* then known of a call from the entry it writes there (ClosesNext,        *)
(* LeavesNext) and, for a completed entry, from the run the job service    *)
(* left (AfterPlanTested, RevisionTested).                                 *)
(*                                                                         *)
(* ApprovedPlanInForce is not inductive as it stands: planning a job       *)
(* writes another plan.  PlanInv adds that an approved job is past its     *)
(* planning, and that the plan of a paused job is the current plan         *)
(* version.  Every service but those that plan keeps the plan and never    *)
(* goes back (Later).                                                      *)
(***************************************************************************)

(* RoundLedger and CompletedRounds of the rows a call reads or leaves. *)
Ledger(v) ==
    \A n \in 1..MaxRounds :
        /\ n <= v.sess.round => v.rounds[n].status \in {"completed", "failed"}
        /\ n = v.sess.round + 1 =>
               \/ v.rounds[n].status \in {"absent", "failed"}
               \/ v.rounds[n].status = "in_progress" /\ v.rounds[n].trigger = "initial"
        /\ n > v.sess.round + 1 => v.rounds[n].status = "absent"

Earned(e) ==
    e.status = "completed" => e.attempt = "passed" /\ e.patch \in {0, e.ranOn}

SoundLedger(v) == Ledger(v) /\ \A n \in 1..MaxRounds : Earned(v.rounds[n])

LedgerViews == {v \in SoundViews : SoundLedger(v)}

(* The rounds and the counter two views have in common. *)
SameRounds(v, w) == w.rounds = v.rounds /\ w.sess.round = v.sess.round

-----------------------------------------------------------------------------
(* What a call may do to the ledger. *)

(* The ledger invariants are those of the view of the variables. *)
LEMMA LedgerView ==
    SoundLedger(View) <=> RoundLedger /\ CompletedRounds
BY DEF SoundLedger, Ledger, Earned, View, RoundLedger, CompletedRounds

(* A call that leaves the rounds and the counter alone. *)
LEMMA LedgerStays ==
    ASSUME NEW v, NEW w, SoundLedger(v), SameRounds(v, w)
    PROVE  SoundLedger(w)
BY DEF SoundLedger, Ledger, SameRounds

(* A call that closes the next round and moves the counter to it. *)
LEMMA ClosesNext ==
    ASSUME NEW v \in Views, NEW w, NEW e \in Rounds, NEW n \in 1..MaxRounds,
           SoundLedger(v), n = v.sess.round + 1,
           w.rounds = [v.rounds EXCEPT ![n] = e], w.sess.round = n,
           e.status \in {"completed", "failed"}, Earned(e)
    PROVE  SoundLedger(w)
<1>1. v.sess.round \in Nat /\ v.rounds \in [1..MaxRounds -> Rounds]
  BY DEF Views, Sessions
<1>2. \A m \in 1..MaxRounds : w.rounds[m] = IF m = n THEN e ELSE v.rounds[m]
  BY <1>1
<1>3. Ledger(w)
  BY <1>1, <1>2 DEF SoundLedger, Ledger
<1>4. \A m \in 1..MaxRounds : Earned(w.rounds[m])
  BY <1>2 DEF SoundLedger
<1> QED BY <1>3, <1>4 DEF SoundLedger

(* A call that writes the next round and leaves the counter: the round has
   failed, or it is the first one and pauses. *)
LEMMA LeavesNext ==
    ASSUME NEW v \in Views, NEW w, NEW e \in Rounds, NEW n \in 1..MaxRounds,
           SoundLedger(v), n = v.sess.round + 1,
           w.rounds = [v.rounds EXCEPT ![n] = e], w.sess.round = v.sess.round,
           e.status = "failed" \/ (e.status = "in_progress" /\ e.trigger = "initial")
    PROVE  SoundLedger(w)
<1>1. v.sess.round \in Nat /\ v.rounds \in [1..MaxRounds -> Rounds]
  BY DEF Views, Sessions
<1>2. \A m \in 1..MaxRounds : w.rounds[m] = IF m = n THEN e ELSE v.rounds[m]
  BY <1>1
<1>3. Ledger(w)
  BY <1>1, <1>2 DEF SoundLedger, Ledger
<1>4. \A m \in 1..MaxRounds : Earned(w.rounds[m])
  BY <1>2 DEF SoundLedger, Earned
<1> QED BY <1>3, <1>4 DEF SoundLedger

-----------------------------------------------------------------------------
(* What the shared parts of the endpoints write. *)

(* Results of job services change neither the rounds nor the counter. *)
LEMMA KeptRounds ==
    ASSUME NEW v \in Views, NEW r
    PROVE  /\ SameRounds(v, Kept(v, r))
           /\ SameRounds(v, Synced(v, r))
BY DEF Views, Sessions, Kept, Synced, SameRounds

(* A synced view, its job and its workspace. *)
LEMMA SyncedView ==
    ASSUME NEW v \in Views, NEW r \in Results
    PROVE  /\ Synced(v, r) \in Views
           /\ Synced(v, r).job = r.job /\ Synced(v, r).disk = r.disk
<1> DEFINE w == Kept(v, r)
<1>1. w \in Views /\ w.job = r.job /\ w.disk = r.disk
  BY KeptView
<1>2. Synced(v, r) = [w EXCEPT !.sess.status = SessionStatusOf(r.job.status)]
  BY DEF Synced
<1> HIDE DEF w
<1> QED BY <1>1, <1>2, SessionStatusType DEF Views, Sessions

(* The entry of a round that is closed as failed. *)
LEMMA FailedEntry ==
    ASSUME NEW e \in Rounds, NEW t \in Triggers, NEW q \in {"none", "applied", "failed"}
    PROVE  LET f == [e EXCEPT !.trigger = t, !.status = "failed", !.request = q]
           IN  f \in Rounds /\ f.status = "failed"
BY DEF Rounds

(* The initial engine errors close round 1 and count it. *)
LEMMA InitialFailsCloses ==
    ASSUME NEW v \in Views, NEW r \in Results, SoundLedger(v), v.sess.round = 0
    PROVE  SoundLedger(InitialFails(v, r))
<1> DEFINE s == Synced(v, r)
           e == [s.rounds[1] EXCEPT !.trigger = "initial", !.status = "failed",
                                    !.request = "none"]
<1>1. s \in Views /\ SameRounds(v, s)
  BY SyncedView, KeptRounds
<1>2. InitialFails(v, r) = [FailRound(s, 1, "initial", "none") EXCEPT
                               !.sess.round = IF @ = 0 THEN 1 ELSE @]
  BY DEF InitialFails
<1> HIDE DEF s
<1>3. e \in Rounds /\ e.status = "failed"
  BY <1>1, FirstSlot, FailedEntry DEF Views, Triggers
<1>4. FailRound(s, 1, "initial", "none") = [s EXCEPT !.rounds[1] = e]
  BY <1>1 DEF FailRound, Views
<1> HIDE DEF e
<1>5. /\ InitialFails(v, r).rounds = [v.rounds EXCEPT ![1] = e]
      /\ InitialFails(v, r).sess.round = 1
  BY <1>1, <1>2, <1>4 DEF Views, Sessions, SameRounds
<1> QED BY <1>3, <1>5, FirstSlot, ClosesNext DEF Earned

(* A review round that fails before its run. *)
LEMMA FailRoundLeaves ==
    ASSUME NEW v \in Views, NEW w \in Views, SameRounds(v, w), SoundLedger(v),
           NEW n \in 1..MaxRounds, n = v.sess.round + 1, NEW t \in Triggers
    PROVE  SoundLedger(FailRound(w, n, t, "failed"))
<1> DEFINE e == [w.rounds[n] EXCEPT !.trigger = t, !.status = "failed", !.request = "failed"]
<1>1. e \in Rounds /\ e.status = "failed"
  BY FailedEntry DEF Views
<1>2. FailRound(w, n, t, "failed") = [w EXCEPT !.rounds[n] = e]
  BY DEF FailRound, Views
<1> HIDE DEF e
<1>3. /\ FailRound(w, n, t, "failed").rounds = [v.rounds EXCEPT ![n] = e]
      /\ FailRound(w, n, t, "failed").sess.round = v.sess.round
  BY <1>2 DEF Views, SameRounds
<1> QED BY <1>1, <1>3, LeavesNext

(* A round that is recorded is the next one, and counted; when it is
   completed its run has to have passed on what it records. *)
LEMMA RecordCloses ==
    ASSUME NEW v \in Views, NEW w \in Views, SameRounds(v, w), SoundLedger(v),
           NEW n \in 1..MaxRounds, n = v.sess.round + 1, NEW t \in Triggers,
           NEW s \in {"completed", "failed"}, NEW q \in {"none", "applied", "failed"},
           NEW p \in BOOLEAN,
           s = "completed" =>
               w.job.exec = "passed" /\ (p => w.job.ranOn = w.disk.now)
    PROVE  SoundLedger(Record(w, n, t, s, q, p))
<1> DEFINE patched == p /\ w.job.patch
           e == [trigger |-> t, status |-> s, request |-> q,
                 patch |-> IF patched THEN w.disk.now ELSE 0,
                 attempt |-> w.job.exec, ranOn |-> w.job.ranOn]
<1>1. e \in Rounds
  <2>1. /\ w.disk.now \in Contents /\ w.job.ranOn \in Contents
        /\ w.job.exec \in Verdicts
    BY DEF Views, Jobs, Disks
  <2>2. 0 \in Contents
    BY BoundsAssumption DEF Contents
  <2> QED BY <2>1, <2>2 DEF Rounds
<1>2. e.status = s /\ Earned(e)
  BY DEF Earned
<1>3. /\ Record(w, n, t, s, q, p).rounds = [v.rounds EXCEPT ![n] = e]
      /\ Record(w, n, t, s, q, p).sess.round = n
  BY DEF Record, Views, Sessions, SameRounds
<1> HIDE DEF e
<1> QED BY <1>1, <1>2, <1>3, ClosesNext

(* The two ways round 1 can be opened or worked leave the counter at 0. *)
LEMMA BeforeFirst ==
    ASSUME NEW v \in Views, SoundLedger(v), CanBegin(v) \/ AtPlanGate(v)
    PROVE  v.sess.round = 0
<1>1. v.sess.round \in 0..MaxRounds
  BY DEF Views, Sessions
<1>2. CASE AtPlanGate(v)
  <2>1. v.rounds[1].status = "in_progress"
    BY <1>2 DEF AtPlanGate
  <2>2. ~(1 <= v.sess.round)
    BY <2>1, FirstSlot DEF SoundLedger, Ledger
  <2> QED BY <1>1, <2>2
<1> QED BY <1>2 DEF CanBegin

-----------------------------------------------------------------------------
(* The runs a round is completed on. *)

(* A job in which the run its workspace stands on has passed. *)
RunStands(r) == r.job.exec = "passed" /\ r.job.ranOn = r.disk.now

(* What a run writes. *)
LEMMA RanRow ==
    ASSUME NEW j \in Jobs, NEW d \in Disks, NEW verdict, NEW s
    PROVE  LET r == Ran(j, d, verdict, s)
           IN  /\ r.job.exec = verdict /\ r.job.ranOn = d.now
               /\ r.job.status = s /\ r.disk = d
BY DEF Ran, Res, Jobs

(* Executing the tests fails the job or leaves a standing run. *)
LEMMA ExecuteTested ==
    ASSUME NEW j \in Jobs, NEW d \in Disks, NEW r \in ExecuteJob(j, d)
    PROVE  r.job.status = "failed" \/ RunStands(r)
BY RanRow DEF ExecuteJob, When, RunStands

(* The run that ends a revision asks for a person or a repair unless it
   passed. *)
LEMMA FinalizeTested ==
    ASSUME NEW j \in Jobs, NEW d \in Disks, NEW r \in Finalize(j, d)
    PROVE  r.job.status \in {"failed", "awaiting_human_input"} \/ RunStands(r)
BY RanRow DEF Finalize, RunStands

(* Generate and execute in one engine call. *)
LEMMA AfterPlanTested ==
    ASSUME NEW j \in Jobs, GateInv(j), j.status \notin Closed, NEW d \in Disks,
           NEW r \in Succeeded(AfterPlan(j, d))
    PROVE  r.job.status = "failed" \/ RunStands(r)
<1> DEFINE generated == IF Engine = "stub" THEN GenerateJob(j, d) ELSE CliGenerate(j, d)
<1>1. generated \subseteq Draft
  BY GenerateJobDraft, CliGenerateDraft DEF DraftFrom
<1> HIDE DEF generated
<1>2. AfterPlan(j, d) = Raised(generated)
          \cup UNION {ExecuteJob(q.job, q.disk) : q \in Succeeded(generated)}
  BY DEF AfterPlan, generated
<1>3. PICK q \in generated : r \in ExecuteJob(q.job, q.disk)
  BY <1>2 DEF Succeeded, Raised
<1>4. q.job \in Jobs /\ q.disk \in Disks
  BY <1>1 DEF Draft, Sound, Results
<1> QED BY <1>3, <1>4, ExecuteTested

(* The one-shot first round. *)
LEMMA InitialTested ==
    ASSUME NEW j \in Jobs, NEW d \in Disks, NEW r \in Succeeded(Initial(j, d))
    PROVE  r.job.status = "failed" \/ RunStands(r)
<1>1. PICK q \in PlanOnly(j, d) : r \in AfterPlan(q.job, q.disk)
  BY DEF Initial, Raised, Succeeded
<1>2. /\ q.job \in Jobs /\ q.disk \in Disks
      /\ GateInv(q.job) /\ q.job.status \notin Closed
  BY PlanOnlyDraft DEF DraftFrom, Draft, Sound, Results
<1>3. r \in Succeeded(AfterPlan(q.job, q.disk))
  BY <1>1 DEF Succeeded
<1> QED BY <1>2, <1>3, AfterPlanTested

(* A revision from revising_after_review. *)
LEMMA ReviseOnTested ==
    ASSUME NEW j \in Jobs, NEW before \in Disks, NEW after \in Disks,
           NEW r \in ReviseOn(j, before, after)
    PROVE  r.job.status \in {"failed", "awaiting_human_input"} \/ RunStands(r)
<1> DEFINE k == [j EXCEPT !.patch = TRUE]
<1>1. k \in Jobs
  BY DEF Jobs
<1>2. (\E x \in {before, after} : r = Res(Status(j, "failed"), x, "ok"))
      \/ r \in Finalize(k, after)
  BY DEF ReviseOn, InvalidRepair
<1>3. CASE \E x \in {before, after} : r = Res(Status(j, "failed"), x, "ok")
  BY <1>3 DEF Res, Status, Jobs
<1> HIDE DEF k
<1> QED BY <1>1, <1>2, <1>3, FinalizeTested

(* A review revision through either engine, when it returns. *)
LEMMA RevisionTested ==
    ASSUME NEW j \in Jobs, NEW d \in Disks, NEW r \in Succeeded(Revision(j, d))
    PROVE  r.job.status \in {"failed", "awaiting_human_input"} \/ RunStands(r)
<1> DEFINE k == Status(j, "revising_after_review")
<1>1. k \in Jobs /\ Write(d) \subseteq Disks
  BY OpenStatuses, StatusDraft, WriteType
<1> HIDE DEF k
<1>2. r \notin EngineStops(k, d)
  BY DEF EngineStops, Res, Succeeded
<1>3. \E x \in Write(d) : r \in ReviseOn(k, d, x) \/ r \in ReviseOn(k, x, x)
  BY <1>2 DEF Succeeded, Revision, CliRevise, ReadBackScoped, ReviseJob, When, k
<1> QED BY <1>1, <1>3, ReviseOnTested

(* Reconciling leaves a job. *)
LEMMA ReconciledType ==
    ASSUME NEW j \in Jobs PROVE Reconciled(j) \in Jobs
BY DEF Reconciled, Status, Jobs, JobStatus

(* Reconciling keeps the run, and never takes a job out of failed or
   awaiting_human_input. *)
LEMMA ReconciledRun ==
    ASSUME NEW r \in Results
    PROVE  LET done == [r EXCEPT !.job = Reconciled(r.job)]
           IN  /\ RunStands(r) => RunStands(done)
               /\ r.job.status \in {"failed", "awaiting_human_input"} =>
                      done.job.status = r.job.status
BY DEF Results, Reconciled, Status, Jobs, RunStands, StuckAfterSuccess

-----------------------------------------------------------------------------
(* One lemma per session endpoint. *)

(* The result of a draft is a result. *)
LEMMA DraftResult == Draft \subseteq Results
BY DEF Draft, Sound

(* Writing the plan columns of the session row. *)
LEMMA PlanColumns ==
    ASSUME NEW v, NEW s \in Views, SameRounds(v, s), NEW a, NEW c
    PROVE  /\ SameRounds(v, [s EXCEPT !.sess.approvedPlan = a])
           /\ SameRounds(v, [s EXCEPT !.sess.approvedPlan = a, !.sess.currentPlan = c])
           /\ SameRounds(v, [s EXCEPT !.sess.currentPlan = c])
BY DEF Views, Sessions, SameRounds

(* A plan that was made leaves a result, and so does parking the job for its
   approval. *)
LEMMA AwaitPlanResult ==
    ASSUME NEW r \in Results PROVE AwaitPlan(r) \in Results
<1>1. AwaitPlan(r) = [r EXCEPT !.job = Status(r.job, "awaiting_plan_approval")]
  BY DEF AwaitPlan, Status, Results
<1>2. Status(r.job, "awaiting_plan_approval") \in Jobs
  BY OpenStatuses, StatusDraft DEF Results
<1> QED BY <1>1, <1>2 DEF Results

(* The results of an endpoint that leaves the job alone. *)
LEMMA UntouchedResult ==
    ASSUME NEW v \in Views, NEW e \in Ends PROVE Untouched(v, e) \in Results
BY DEF Untouched, Res, Results, Views

(* POST prepare-plan: round 1 fails, or pauses, or is not reached. *)
LEMMA PreparePlanLedger ==
    ASSUME NEW v \in LedgerViews, NEW w \in PreparePlan(v)
    PROVE  SoundLedger(w)
<1> DEFINE results == When(CanBegin(v) /\ Slot(v, 1), PlanOnly(v.job, v.disk))
           paused == [AbsentRound EXCEPT !.trigger = "initial", !.status = "in_progress"]
           ready(r) == [Synced(v, AwaitPlan(r)) EXCEPT
                            !.rounds[1] = paused,
                            !.sess.approvedPlan = 0, !.sess.currentPlan = r.job.plan]
<1>1. v \in Views /\ SoundLedger(v) /\ v.job \in Jobs /\ v.disk \in Disks
  BY DEF LedgerViews, SoundViews, Views
<1>2. results \subseteq Results
  BY <1>1, PlanOnlyDraft, DraftResult DEF When, DraftFrom
<1>3. paused \in Rounds /\ paused.status = "in_progress" /\ paused.trigger = "initial"
  BY AbsentRoundType DEF AbsentRound, Rounds, Triggers
<1>4. Untouched(v, "rejected") \in Results
  BY <1>1, OpenStatuses, UntouchedResult
<1>5. \/ SameRounds(v, w)
      \/ CanBegin(v) /\ w = InitialFails(v, Untouched(v, "rejected"))
      \/ CanBegin(v) /\ \E r \in results : w = InitialFails(v, r) \/ w = ready(r)
  <2>1. SameRounds(v, Synced(v, Untouched(v, "ok"))) /\ SameRounds(v, PreparationFails(v))
    BY <1>1, KeptRounds DEF PreparationFails
  <2> HIDE DEF ready
  <2> QED BY <2>1 DEF PreparePlan, When, Raised, Succeeded, ready
<1>6. ASSUME CanBegin(v), NEW r \in results PROVE SoundLedger(ready(r))
  <2> DEFINE s == Synced(v, AwaitPlan(r))
  <2>1. SameRounds(v, s) /\ s \in Views
    BY <1>1, <1>2, AwaitPlanResult, KeptRounds, SyncedView
  <2>2. ready(r) = [s EXCEPT !.rounds[1] = paused,
                             !.sess.approvedPlan = 0, !.sess.currentPlan = r.job.plan]
    OBVIOUS
  <2> HIDE DEF s, paused, ready, results
  <2>3. /\ ready(r).rounds = [v.rounds EXCEPT ![1] = paused]
        /\ ready(r).sess.round = v.sess.round
    BY <2>1, <2>2 DEF Views, Sessions, SameRounds
  <2>4. v.sess.round = 0
    BY <1>1, <1>6, BeforeFirst
  <2> QED BY <1>1, <1>3, <2>3, <2>4, FirstSlot, LeavesNext
<1> HIDE DEF ready, results
<1> QED BY <1>1, <1>2, <1>4, <1>5, <1>6, BeforeFirst, InitialFailsCloses, LedgerStays

(* POST approve-plan and request-plan-revision leave the rounds alone. *)
LEMMA PlanGateLedger ==
    ASSUME NEW v \in LedgerViews, NEW w \in ApprovePlan(v) \cup RevisePlan(v)
    PROVE  SoundLedger(w)
<1> DEFINE results == When(AtPlanGate(v), PlanJob(Status(v.job, "planning_changes"), v.disk))
<1>1. v \in Views /\ SoundLedger(v) /\ v.job \in Jobs /\ v.disk \in Disks
  BY DEF LedgerViews, SoundViews, Views
<1>2. results \subseteq Results
  <2>1. Status(v.job, "planning_changes") \in Jobs
    BY <1>1, OpenStatuses, StatusDraft
  <2> QED BY <1>1, <2>1, PlanJobDraft, DraftResult DEF When, DraftFrom
<1>3. ASSUME NEW r \in Results
      PROVE  /\ Kept(v, r) \in Views /\ SameRounds(v, Kept(v, r))
             /\ Synced(v, r) \in Views /\ SameRounds(v, Synced(v, r))
  BY <1>1, KeptView, SyncedView, KeptRounds
<1>4. CASE w \in ApprovePlan(v)
  <2>1. w = [Synced(v, Untouched(v, "ok")) EXCEPT !.sess.approvedPlan = v.job.plan]
    BY <1>4 DEF ApprovePlan, When
  <2>2. Untouched(v, "ok") \in Results
    BY <1>1, UntouchedResult, OpenStatuses
  <2>3. Synced(v, Untouched(v, "ok")) \in Views /\ SameRounds(v, Synced(v, Untouched(v, "ok")))
    BY <1>3, <2>2
  <2>4. SameRounds(v, w)
    BY <2>1, <2>3, PlanColumns
  <2> QED BY <1>1, <2>4, LedgerStays
<1>5. CASE w \in RevisePlan(v)
  <2>1. PICK r \in results :
            \/ w = [Kept(v, r) EXCEPT !.sess.approvedPlan = 0]
            \/ w = [Synced(v, AwaitPlan(r)) EXCEPT
                       !.sess.approvedPlan = 0, !.sess.currentPlan = r.job.plan]
    BY <1>5 DEF RevisePlan, Raised, Succeeded
  <2> HIDE DEF results
  <2>2. /\ Kept(v, r) \in Views /\ SameRounds(v, Kept(v, r))
        /\ Synced(v, AwaitPlan(r)) \in Views /\ SameRounds(v, Synced(v, AwaitPlan(r)))
    BY <1>2, <1>3, AwaitPlanResult
  <2>3. SameRounds(v, [Kept(v, r) EXCEPT !.sess.approvedPlan = 0])
    BY <2>2, PlanColumns
  <2>4. SameRounds(v, [Synced(v, AwaitPlan(r)) EXCEPT
                          !.sess.approvedPlan = 0, !.sess.currentPlan = r.job.plan])
    BY <2>2, PlanColumns
  <2>5. SameRounds(v, w)
    BY <2>1, <2>3, <2>4
  <2> QED BY <1>1, <2>5, LedgerStays
<1> QED BY <1>4, <1>5

(* Round 1, recorded after its run. *)
LEMMA FirstRoundCloses ==
    ASSUME NEW v \in Views, NEW r \in Results, NEW plan \in Plans, SoundLedger(v),
           v.sess.round = 0, r.job.status = "failed" \/ RunStands(r)
    PROVE  SoundLedger(FirstRound(v, r, plan))
<1> DEFINE done == [r EXCEPT !.job = Reconciled(r.job)]
           s == Synced(v, done)
           u == [s EXCEPT !.sess.currentPlan = plan]
           status == IF done.job.status = "failed" THEN "failed" ELSE "completed"
<1>1. done \in Results
  BY ReconciledType DEF Results
<1>2. status = "completed" => RunStands(done)
  BY ReconciledRun
<1>3. FirstRound(v, r, plan) = Record(u, 1, "initial", status, "none", TRUE)
  BY DEF FirstRound, Results
<1>4. status \in {"completed", "failed"}
  OBVIOUS
<1> HIDE DEF done, status
<1>5. s \in Views /\ SameRounds(v, s) /\ s.job = done.job /\ s.disk = done.disk
  BY <1>1, SyncedView, KeptRounds
<1> HIDE DEF s
<1>6. u \in Views /\ u.job = done.job /\ u.disk = done.disk /\ SameRounds(v, u)
  BY <1>5 DEF Views, Sessions, SameRounds
<1> HIDE DEF u
<1>7. status = "completed" => u.job.exec = "passed" /\ (TRUE => u.job.ranOn = u.disk.now)
  BY <1>2, <1>6 DEF RunStands
<1>8. 1 = v.sess.round + 1 /\ "initial" \in Triggers /\ "none" \in {"none", "applied", "failed"}
  BY DEF Triggers
<1>9. SoundLedger(Record(u, 1, "initial", status, "none", TRUE))
  BY <1>4, <1>6, <1>7, <1>8, FirstSlot, RecordCloses
<1> QED BY <1>3, <1>9

(* POST start, with an approved plan or in one shot. *)
LEMMA StartSessionLedger ==
    ASSUME NEW v \in LedgerViews, NEW w \in StartSession(v)
    PROVE  SoundLedger(w)
<1> DEFINE j == Status(v.job, "generating_code")
           approved == When(AtPlanGate(v) /\ v.sess.approvedPlan # 0, AfterPlan(j, v.disk))
           oneShot == When(CanBegin(v) /\ Slot(v, 1),
                           Initial(v.job, v.disk) \cup {Untouched(v, "engine")})
<1>1. v \in Views /\ SoundLedger(v) /\ v.job \in Jobs /\ v.disk \in Disks
  BY DEF LedgerViews, SoundViews, Views
<1>2. j \in Jobs /\ GateInv(j) /\ j.status \notin Closed
  BY <1>1, OpenStatuses, StatusDraft
<1>3. approved \subseteq Results /\ oneShot \subseteq Results
  <2>1. AfterPlan(j, v.disk) \subseteq Results
    BY <1>1, <1>2, AfterPlanDraft, DraftResult
  <2>2. Initial(v.job, v.disk) \subseteq Results
    BY <1>1, InitialDraft, DraftResult DEF DraftFrom
  <2>3. Untouched(v, "engine") \in Results
    BY <1>1, UntouchedResult, OpenStatuses
  <2> QED BY <2>1, <2>2, <2>3 DEF When
<1>4. ASSUME NEW r \in Succeeded(approved) PROVE r.job.status = "failed" \/ RunStands(r)
  <2> HIDE DEF j
  <2>1. r \in Succeeded(AfterPlan(j, v.disk))
    BY <1>4 DEF Succeeded, When
  <2> QED BY <1>1, <1>2, <2>1, AfterPlanTested
<1>5. ASSUME NEW r \in Succeeded(oneShot) PROVE r.job.status = "failed" \/ RunStands(r)
  <2>1. r \in Succeeded(Initial(v.job, v.disk))
    BY <1>5 DEF Succeeded, When, Untouched, Res
  <2> QED BY <1>1, <2>1, InitialTested
<1>6. ASSUME NEW r \in approved \cup oneShot PROVE v.sess.round = 0
  BY <1>1, <1>6, BeforeFirst DEF When
<1>7. SameRounds(v, PreparationFails(v))
  BY <1>1, KeptRounds DEF PreparationFails
<1>8. \/ w = PreparationFails(v)
      \/ \E r \in approved \cup oneShot : w = InitialFails(v, r)
      \/ \E r \in Succeeded(approved) : w = FirstRound(v, r, v.sess.currentPlan)
      \/ \E r \in Succeeded(oneShot) : w = FirstRound(v, r, r.job.plan)
  <2> HIDE DEF approved, oneShot
  <2> QED BY DEF StartSession, When, Raised, approved, oneShot, j
<1> HIDE DEF approved, oneShot
<1>9. CASE w = PreparationFails(v)
  BY <1>1, <1>7, <1>9, LedgerStays
<1>10. CASE \E r \in approved \cup oneShot : w = InitialFails(v, r)
  BY <1>1, <1>3, <1>6, <1>10, InitialFailsCloses
<1>11. CASE \E r \in Succeeded(approved) : w = FirstRound(v, r, v.sess.currentPlan)
  <2>1. v.sess.currentPlan \in Plans
    BY <1>1 DEF Views, Sessions
  <2> QED BY <1>1, <1>3, <1>4, <1>6, <1>11, <2>1, FirstRoundCloses DEF Succeeded
<1>12. CASE \E r \in Succeeded(oneShot) : w = FirstRound(v, r, r.job.plan)
  <2>1. \A r \in Results : r.job.plan \in Plans
    BY DEF Results, Jobs
  <2> QED BY <1>1, <1>3, <1>5, <1>6, <1>12, <2>1, FirstRoundCloses DEF Succeeded
<1> QED BY <1>8, <1>9, <1>10, <1>11, <1>12

(* POST request-revision of the session. *)
LEMMA ReviseSessionLedger ==
    ASSUME NEW v \in LedgerViews, NEW w \in ReviseSession(v)
    PROVE  SoundLedger(w)
<1> DEFINE n == v.sess.round + 1
           results == Revision(v.job, v.disk) \cup {Untouched(v, "engine")}
           applied == {r \in Succeeded(results) : r.disk.now # v.disk.now}
           done(r) == [r EXCEPT !.job = Reconciled(r.job)]
<1>1. v \in Views /\ SoundLedger(v) /\ v.job \in Jobs /\ v.disk \in Disks
  BY DEF LedgerViews, SoundViews, Views
<1>2. results \subseteq Results
  <2>1. Revision(v.job, v.disk) \subseteq Results
    BY <1>1, RevisionDraft, DraftResult DEF DraftFrom
  <2>2. Untouched(v, "engine") \in Results
    BY <1>1, UntouchedResult, OpenStatuses
  <2> QED BY <2>1, <2>2
<1>3. ASSUME n \in 1..MaxRounds, NEW r \in results
      PROVE  SoundLedger(FailRound(Synced(v, r), n, "review_revision", "failed"))
  BY <1>1, <1>2, <1>3, SyncedView, KeptRounds, FailRoundLeaves DEF Triggers
<1>4. ASSUME n \in 1..MaxRounds, NEW r \in applied
      PROVE  SoundLedger(Record(Synced(v, done(r)), n, "review_revision",
                                RoundStatus(done(r).job), "applied", TRUE))
  <2>1. r \in Succeeded(Revision(v.job, v.disk)) /\ r \in Results
    BY <1>2, <1>4 DEF Succeeded, Untouched, Res
  <2>2. r.job.status \in {"failed", "awaiting_human_input"} \/ RunStands(r)
    BY <1>1, <2>1, RevisionTested
  <2>3. done(r) \in Results
    BY <2>1, ReconciledType DEF Results
  <2>4. RoundStatus(done(r).job) = "completed" => RunStands(done(r))
    BY <2>1, <2>2, ReconciledRun DEF RoundStatus
  <2>5. RoundStatus(done(r).job) \in {"completed", "failed"}
    BY DEF RoundStatus
  <2> HIDE DEF done, applied, results
  <2>6. /\ Synced(v, done(r)) \in Views /\ SameRounds(v, Synced(v, done(r)))
        /\ Synced(v, done(r)).job = done(r).job /\ Synced(v, done(r)).disk = done(r).disk
    BY <1>1, <2>3, SyncedView, KeptRounds
  <2> QED BY <1>1, <1>4, <2>4, <2>5, <2>6, RecordCloses DEF RunStands, Triggers
<1>5. ASSUME NEW r \in applied PROVE done(r) = [r EXCEPT !.job = Reconciled(@)]
  BY <1>2 DEF Succeeded, Results
<1> HIDE DEF done
<1>6. /\ n \in 1..MaxRounds
      /\ \/ \E r \in results : w = FailRound(Synced(v, r), n, "review_revision", "failed")
         \/ \E r \in applied : w = Record(Synced(v, done(r)), n, "review_revision",
                                          RoundStatus(done(r).job), "applied", TRUE)
  BY <1>5 DEF ReviseSession, When, Slot
<1> QED BY <1>3, <1>4, <1>6

(* POST manual-edit-ack of the session. *)
LEMMA AckSessionLedger ==
    ASSUME NEW v \in LedgerViews, NEW w \in AckSession(v)
    PROVE  SoundLedger(w)
<1> DEFINE n == v.sess.round + 1
<1>1. v \in Views /\ SoundLedger(v) /\ v.job \in Jobs /\ v.disk \in Disks
  BY DEF LedgerViews, SoundViews, Views
<1>2. ASSUME n \in 1..MaxRounds
      PROVE  SoundLedger(FailRound(Synced(v, Untouched(v, "engine")), n,
                                   "manual_edit_rerun", "failed"))
  <2>1. Untouched(v, "engine") \in Results
    BY <1>1, UntouchedResult, OpenStatuses
  <2> QED BY <1>1, <1>2, <2>1, SyncedView, KeptRounds, FailRoundLeaves DEF Triggers
<1>3. ASSUME n \in 1..MaxRounds, NEW r \in AckJob(v.job, v.disk)
      PROVE  SoundLedger(Record(Synced(v, r), n, "manual_edit_rerun",
                                RoundStatus(r.job), "applied", FALSE))
  <2>1. r \in Sound /\ r \in Results
    BY <1>1, <1>3, AckJobDraft, DraftResult DEF DraftFrom, Draft
  <2>2. RoundStatus(r.job) = "completed" => r.job.exec = "passed"
    BY <2>1 DEF RoundStatus, Sound, GateInv, Gated
  <2>3. RoundStatus(r.job) \in {"completed", "failed"}
    BY DEF RoundStatus
  <2>4. /\ Synced(v, r) \in Views /\ SameRounds(v, Synced(v, r))
        /\ Synced(v, r).job = r.job
    BY <1>1, <2>1, SyncedView, KeptRounds
  <2> QED BY <1>1, <1>3, <2>2, <2>3, <2>4, RecordCloses DEF Triggers
<1> QED BY <1>2, <1>3 DEF AckSession, When, Slot

(* Approval and the two pull-request endpoints leave the rounds alone. *)
LEMMA PublishingLedger ==
    ASSUME NEW v \in LedgerViews,
           NEW w \in ApproveSession(v) \cup CreatePrSession(v) \cup CreatePrJob(v)
    PROVE  SoundLedger(w)
<1>1. v \in Views /\ SoundLedger(v)
  BY DEF LedgerViews, SoundViews
<1>2. ASSUME NEW r PROVE SameRounds(v, Kept(v, r)) /\ SameRounds(v, Synced(v, r))
  BY <1>1, KeptRounds
<1>3. SameRounds(v, w)
  <2>1. CASE w \in ApproveSession(v)
    BY <1>2, <2>1 DEF ApproveSession, When
  <2>2. ASSUME NEW r, NEW via, NEW content, NEW s
        PROVE  /\ SameRounds(v, Opened(v, r, via, content))
               /\ SameRounds(v, [Opened(v, r, via, content) EXCEPT !.sess.status = s])
               /\ SameRounds(v, [Kept(v, r) EXCEPT !.sess.status = s])
    BY <1>1 DEF Views, Sessions, Kept, Opened, SameRounds
  <2>3. CASE w \in CreatePrSession(v)
    <3>1. PICK r, s :
              \/ w = [Kept(v, r) EXCEPT !.sess.status = s]
              \/ w = [Opened(v, r, "session", r.disk.now) EXCEPT !.sess.status = s]
      BY <2>3 DEF CreatePrSession, When
    <3>2. /\ SameRounds(v, [Kept(v, r) EXCEPT !.sess.status = s])
          /\ SameRounds(v, [Opened(v, r, "session", r.disk.now) EXCEPT !.sess.status = s])
      BY <2>2
    <3> QED BY <3>1, <3>2
  <2>4. CASE w \in CreatePrJob(v)
    <3>1. PICK r : w = Kept(v, r) \/ w = Opened(v, r, "job", r.disk.now)
      BY <2>4 DEF CreatePrJob, When
    <3>2. SameRounds(v, Kept(v, r)) /\ SameRounds(v, Opened(v, r, "job", r.disk.now))
      BY <1>2, <2>2
    <3> QED BY <3>1, <3>2
  <2> QED BY <2>1, <2>3, <2>4
<1> QED BY <1>1, <1>3, LedgerStays

-----------------------------------------------------------------------------
(* The specification. *)

LInv == IInv /\ RoundLedger /\ CompletedRounds

(* The invariant is that the rows form a sound view with a sound ledger. *)
LEMMA LInvView == LInv <=> View \in LedgerViews
BY IInvView, LedgerView DEF LInv, LedgerViews

(* A fresh session has no rounds. *)
LEMMA InitLInv == Init => LInv
<1> SUFFICES ASSUME Init PROVE RoundLedger /\ CompletedRounds
  BY InitIInv DEF LInv
<1> QED BY DEF Init, NewSession, AbsentRound, RoundLedger, CompletedRounds

(* A call that commits a view with a sound ledger. *)
LEMMA CommittedLedger ==
    ASSUME NEW STATE results, \A w \in results : SoundLedger(w), Committed(results)
    PROVE  (RoundLedger /\ CompletedRounds)'
<1>1. PICK v \in results : SoundLedger(v) /\ sess' = v.sess /\ rounds' = v.rounds
  BY DEF Committed
<1> QED BY <1>1 DEF SoundLedger, Ledger, Earned, RoundLedger, CompletedRounds

(* A step that leaves the session's rows alone. *)
LEMMA RowsStay ==
    ASSUME LInv, sess' = sess, rounds' = rounds
    PROVE  (RoundLedger /\ CompletedRounds)'
BY DEF LInv, RoundLedger, CompletedRounds

(* One case per endpoint; job endpoints other than create-pr keep the rows. *)
LEMMA LedgerStep ==
    ASSUME LInv, [Next]_vars PROVE LInv'
<1>1. View \in LedgerViews
  BY LInvView
<1>2. SUFFICES (RoundLedger /\ CompletedRounds)'
  BY StepOutcome DEF LInv
<1>3. ASSUME NEW results, Committed(JobCall(results))
      PROVE  sess' = sess /\ rounds' = rounds
  BY <1>3 DEF Committed, JobCall, Kept, View
<1>4. CASE SessionNext
  <2>1. CASE PreparePlanRequest
    BY <1>1, <2>1, PreparePlanLedger, CommittedLedger DEF PreparePlanRequest
  <2>2. CASE ApprovePlanRequest \/ RevisePlanRequest
    BY <1>1, <2>2, PlanGateLedger, CommittedLedger DEF ApprovePlanRequest, RevisePlanRequest
  <2>3. CASE StartRequest
    BY <1>1, <2>3, StartSessionLedger, CommittedLedger DEF StartRequest
  <2>4. CASE ReviseRequest
    BY <1>1, <2>4, ReviseSessionLedger, CommittedLedger DEF ReviseRequest
  <2>5. CASE AckRequest
    BY <1>1, <2>5, AckSessionLedger, CommittedLedger DEF AckRequest
  <2>6. CASE ApproveRequest \/ CreatePrRequest
    BY <1>1, <2>6, PublishingLedger, CommittedLedger DEF ApproveRequest, CreatePrRequest
  <2> QED BY <1>4, <2>1, <2>2, <2>3, <2>4, <2>5, <2>6 DEF SessionNext
<1>5. CASE JobNext
  <2>1. CASE CreatePrJobRequest
    BY <1>1, <2>1, PublishingLedger, CommittedLedger DEF CreatePrJobRequest
  <2>2. CASE ~CreatePrJobRequest
    <3>1. sess' = sess /\ rounds' = rounds
      BY <1>3, <1>5, <2>2
         DEF JobNext, StartJobRequest, PlanJobRequest, GenerateJobRequest, ExecuteJobRequest,
             RepairJobRequest, ApproveJobRequest, ReviseJobRequest, AckJobRequest
    <3> QED BY <3>1, RowsStay
  <2> QED BY <2>1, <2>2
<1>6. CASE HumanEdit \/ InterruptedRequest \/ UNCHANGED vars
  <2>1. sess' = sess /\ rounds' = rounds
    BY <1>6 DEF HumanEdit, InterruptedRequest, vars
  <2> QED BY <2>1, RowsStay
<1> QED BY <1>4, <1>5, <1>6 DEF Next

-----------------------------------------------------------------------------
(* The theorems. *)

(* The inductive invariant of the ledger. *)
THEOREM LedgerInvariance == Spec => []LInv
<1>1. Init => LInv
  BY InitLInv
<1>2. LInv /\ [Next]_vars => LInv'
  BY LedgerStep
<1> QED BY <1>1, <1>2, PTL DEF Spec

(* Whatever the order of the calls of both APIs, and wherever a call dies,
   the rounds up to current_round_number are closed and at most the next one
   exists beyond it, failed or paused for the approval of the first plan: the
   six error paths of a first round and the failed reviews all keep the
   counter and the rows in step. *)
THEOREM LedgerInStep == Spec => []RoundLedger
<1>1. LInv => RoundLedger
  BY DEF LInv
<1> QED BY <1>1, LedgerInvariance, PTL

(* A round is completed only on a passing run, and the patch version read
   back from the workspace after the run is the content that run saw. *)
THEOREM CompletedOnTested == Spec => []CompletedRounds
<1>1. LInv => CompletedRounds
  BY DEF LInv
<1> QED BY <1>1, LedgerInvariance, PTL

-----------------------------------------------------------------------------
(* The approved plan. *)

(* The job before or at the pause for its plan. *)
Early == {"pending", "planning_changes", "awaiting_plan_approval"}

(* The job as it was, or past the pause with the plan it had. *)
Later(j, k) == k = j \/ (k.plan = j.plan /\ k.status \notin Early)

PlanInv(j, s) ==
    /\ s.approvedPlan # 0 =>
           /\ s.approvedPlan = j.plan /\ s.approvedPlan = s.currentPlan
           /\ j.status \notin {"pending", "planning_changes"}
    /\ j.status = "awaiting_plan_approval" => s.currentPlan = j.plan

(* The plan columns two views have in common. *)
SamePlan(v, w) ==
    /\ w.sess.approvedPlan = v.sess.approvedPlan
    /\ w.sess.currentPlan = v.sess.currentPlan

PlanViews == {v \in SoundViews : PlanInv(v.job, v.sess)}

-----------------------------------------------------------------------------
(* The services that do not plan. *)

(* Later is transitive. *)
LEMMA LaterTrans ==
    ASSUME NEW j, NEW k, NEW l, Later(j, k), Later(k, l) PROVE Later(j, l)
BY DEF Later

(* A job moved past the pause. *)
LEMMA StatusLater ==
    ASSUME NEW j \in Jobs, NEW s, s \notin Early
    PROVE  Later(j, Status(j, s)) /\ Status(j, s).status = s
BY DEF Later, Status, Jobs

(* A run. *)
LEMMA RanLater ==
    ASSUME NEW j \in Jobs, NEW d, NEW verdict, NEW s, s \notin Early
    PROVE  Later(j, Ran(j, d, verdict, s).job)
BY DEF Later, Ran, Res, Jobs

(* Statuses past the pause. *)
LEMMA LaterStatuses ==
    {"failed", "generating_code", "executing", "revising_after_review",
     "awaiting_automation_review", "awaiting_human_input", "approved_for_pr",
     "pr_created", "pr_creation_failed"} \cap Early = {}
BY DEF Early

(* Generation, whatever the adapter. *)
LEMMA GenerateOnLater ==
    ASSUME NEW j \in Jobs, NEW a, NEW b, NEW r \in GenerateOn(j, a, b)
    PROVE  Later(j, r.job)
<1> DEFINE k == [j EXCEPT !.status = "executing", !.patch = TRUE]
<1>1. Later(j, k)
  BY DEF Later, Jobs, Early
<1>2. Later(j, Status(j, "failed"))
  BY StatusLater, LaterStatuses
<1> QED BY <1>1, <1>2 DEF GenerateOn, InvalidPatch, When, Res

(* The test run after a generation. *)
LEMMA ExecuteLater ==
    ASSUME NEW j \in Jobs, NEW d, NEW r \in ExecuteJob(j, d)
    PROVE  Later(j, r.job)
BY RanLater, LaterStatuses DEF ExecuteJob, When

(* The test run after a revision or an edit. *)
LEMMA FinalizeLater ==
    ASSUME NEW j \in Jobs, NEW d, NEW r \in Finalize(j, d)
    PROVE  Later(j, r.job)
BY RanLater, LaterStatuses DEF Finalize

(* Generation and its run. *)
LEMMA AfterPlanLater ==
    ASSUME NEW j \in Jobs, GateInv(j), j.status \notin Closed, NEW d \in Disks,
           NEW r \in AfterPlan(j, d)
    PROVE  Later(j, r.job)
<1> DEFINE generated == IF Engine = "stub" THEN GenerateJob(j, d) ELSE CliGenerate(j, d)
<1>1. generated \subseteq Draft
  BY GenerateJobDraft, CliGenerateDraft DEF DraftFrom
<1>2. ASSUME NEW q \in generated PROVE Later(j, q.job) /\ q.job \in Jobs
  <2>1. q \in EngineStops(j, d) \/ \E a, b : q \in GenerateOn(j, a, b)
    BY <1>2 DEF GenerateJob, CliGenerate, ReadBack
  <2>2. q.job \in Jobs
    BY <1>1, <1>2 DEF Draft, Sound, Results
  <2>3. q \in EngineStops(j, d) => q.job = j
    BY DEF EngineStops, Res
  <2> QED BY <2>1, <2>2, <2>3, GenerateOnLater DEF Later
<1> HIDE DEF generated
<1>3. r \in generated \/ \E q \in generated : r \in ExecuteJob(q.job, q.disk)
  <2>1. AfterPlan(j, d) = Raised(generated)
            \cup UNION {ExecuteJob(q.job, q.disk) : q \in Succeeded(generated)}
    BY DEF AfterPlan, generated
  <2> QED BY <2>1 DEF Succeeded, Raised
<1> QED BY <1>2, <1>3, ExecuteLater, LaterTrans

(* A revision in place. *)
LEMMA ReviseOnLater ==
    ASSUME NEW j \in Jobs, NEW a, NEW b, NEW r \in ReviseOn(j, a, b)
    PROVE  r.job.plan = j.plan /\ r.job.status \notin Early
<1> DEFINE k == [j EXCEPT !.patch = TRUE]
<1>1. k \in Jobs /\ k.plan = j.plan
  BY DEF Jobs
<1>2. r \in Finalize(k, b) \/ r.job = Status(j, "failed")
  BY DEF ReviseOn, InvalidRepair, Res
<1> HIDE DEF k
<1>3. ASSUME r \in Finalize(k, b) PROVE r.job.plan = j.plan /\ r.job.status \notin Early
  <2>1. ASSUME NEW verdict, NEW s, s \notin Early
        PROVE  /\ Ran(k, b, verdict, s).job.plan = j.plan
               /\ Ran(k, b, verdict, s).job.status \notin Early
    BY <1>1, <2>1 DEF Ran, Res, Jobs
  <2> QED BY <1>3, <2>1, LaterStatuses DEF Finalize
<1>4. ASSUME r.job = Status(j, "failed") PROVE r.job.plan = j.plan /\ r.job.status \notin Early
  BY <1>4, LaterStatuses DEF Status, Jobs
<1> QED BY <1>2, <1>3, <1>4

(* A review revision through either engine. *)
LEMMA RevisionLater ==
    ASSUME NEW j \in Jobs, NEW d, NEW r \in Revision(j, d) \cup ReviseJob(j, d)
    PROVE  Later(j, r.job)
<1> DEFINE k == Status(j, "revising_after_review")
<1>1. k \in Jobs /\ Later(j, k) /\ k.plan = j.plan
  BY OpenStatuses, LaterStatuses, StatusDraft, StatusLater DEF Status, Jobs
<1>2. r \in EngineStops(k, d) \/ \E a, b : r \in ReviseOn(k, a, b)
  BY DEF Revision, CliRevise, ReadBackScoped, ReviseJob, When
<1> HIDE DEF k
<1>3. r \in EngineStops(k, d) => r.job = k
  BY DEF EngineStops, Res
<1> QED BY <1>1, <1>2, <1>3, ReviseOnLater, LaterTrans DEF Later

(* An acknowledged edit. *)
LEMMA AckLater ==
    ASSUME NEW j \in Jobs, NEW d, NEW r \in AckJob(j, d)
    PROVE  Later(j, r.job)
BY FinalizeLater DEF AckJob, When

(* The repair. *)
LEMMA RepairLater ==
    ASSUME NEW j \in Jobs, NEW d, NEW r \in RepairJob(j, d)
    PROVE  Later(j, r.job)
<1> DEFINE k == [j EXCEPT !.repaired = TRUE]
<1>1. k \in Jobs /\ k.plan = j.plan
  BY DEF Jobs
<1>2. \/ \E s \in {"awaiting_human_input", "failed"} : \E x : r = Res(Status(k, s), x, "ok")
      \/ \E x : r \in {Ran(k, x, "passed", "awaiting_automation_review"),
                       Ran(k, x, "failed", "failed")}
  <2> HIDE DEF k
  <2> QED BY DEF RepairJob, RepairApplied, InvalidRepair, When, k
<1> HIDE DEF k
<1>3. ASSUME NEW s, s \notin Early, NEW x, NEW verdict
      PROVE  /\ Later(j, Status(k, s)) /\ Later(j, Ran(k, x, verdict, s).job)
  BY <1>1, <1>3 DEF Later, Status, Ran, Res, Jobs
<1>4. \A q, x : Res(q, x, "ok").job = q
  BY DEF Res
<1> QED BY <1>2, <1>3, <1>4, LaterStatuses

(* Approval. *)
LEMMA ApproveLater ==
    ASSUME NEW j \in Jobs, NEW d, NEW r \in ApproveJob(j, d)
    PROVE  Later(j, r.job)
<1> DEFINE k == [j EXCEPT !.status = "approved_for_pr", !.approvedOn = j.ranOn]
<1>1. r.job = k
  BY DEF ApproveJob, When, Res
<1>2. k.plan = j.plan /\ k.status = "approved_for_pr"
  BY DEF Jobs
<1> QED BY <1>1, <1>2, LaterStatuses DEF Later

(* Reconciliation. *)
LEMMA ReconciledLater ==
    ASSUME NEW j \in Jobs PROVE Later(j, Reconciled(j))
BY StatusLater, LaterStatuses DEF Reconciled, Later

(* Generation and execution through the job endpoints. *)
LEMMA GenerateLater ==
    ASSUME NEW j \in Jobs, NEW d, NEW r \in GenerateJob(j, d)
    PROVE  Later(j, r.job)
BY GenerateOnLater DEF GenerateJob

-----------------------------------------------------------------------------
(* The services that plan. *)

(* Starting and planning take a job that is before its approval, and do not
   park it. *)
LEMMA PlanningUnparked ==
    ASSUME NEW j \in Jobs, NEW d, NEW r \in StartJob(j, d) \cup PlanJob(j, d)
    PROVE  /\ j.status \in {"pending", "planning_changes"}
           /\ r.job.status # "awaiting_plan_approval"
<1>1. CASE r \in StartJob(j, d)
  <2>1. j.status = "pending"
    BY <1>1 DEF StartJob, When
  <2>2. \/ r.job = Status(j, "failed")
        \/ r.job = [j EXCEPT !.status = "planning_changes", !.ctx = TRUE]
    BY <1>1, <2>1 DEF StartJob, When, Res
  <2> QED BY <2>1, <2>2 DEF Status, Jobs
<1>2. CASE r \in PlanJob(j, d)
  <2>1. j.status = "planning_changes"
    BY <1>2 DEF PlanJob, When
  <2>2. \/ r.job = Status(j, "failed")
        \/ \E p : r.job = [j EXCEPT !.status = "generating_code", !.plan = p]
    <3> DEFINE k(p) == [j EXCEPT !.status = "generating_code", !.plan = p]
    <3> HIDE DEF k
    <3>1. r = Res(Status(j, "failed"), d, "rejected") \/ \E p : r = Res(k(p), d, "ok")
      BY <1>2, <2>1 DEF PlanJob, When, k
    <3>2. r.job = Status(j, "failed") \/ \E p : r.job = k(p)
      BY <3>1 DEF Res
    <3> QED BY <3>2 DEF k
  <2> QED BY <2>1, <2>2 DEF Status, Jobs
<1> QED BY <1>1, <1>2

(* The same for the plan of a first round. *)
LEMMA PlanOnlyUnparked ==
    ASSUME NEW j \in Jobs, NEW d \in Disks, NEW r \in PlanOnly(j, d)
    PROVE  /\ j.status = "pending"
           /\ r.job.status # "awaiting_plan_approval"
<1>1. PICK q \in StartJob(j, d) : r \in PlanJob(q.job, q.disk)
  BY DEF PlanOnly
<1>2. q.job \in Jobs
  BY StartJobDraft DEF Draft, Sound, Results
<1> QED BY <1>1, <1>2, PlanningUnparked DEF StartJob, When

(* The same for a whole first round. *)
LEMMA InitialUnparked ==
    ASSUME NEW j \in Jobs, NEW d \in Disks, NEW r \in Initial(j, d)
    PROVE  r.job.status # "awaiting_plan_approval"
<1>1. \/ r \in PlanOnly(j, d)
      \/ \E q \in PlanOnly(j, d) : r \in AfterPlan(q.job, q.disk)
  BY DEF Initial, Raised, Succeeded
<1>2. ASSUME NEW q \in PlanOnly(j, d), r \in AfterPlan(q.job, q.disk)
      PROVE  r.job.status # "awaiting_plan_approval"
  <2>1. /\ q.job \in Jobs /\ q.disk \in Disks
        /\ GateInv(q.job) /\ q.job.status \notin Closed
    BY PlanOnlyDraft DEF DraftFrom, Draft, Sound, Results
  <2>2. Later(q.job, r.job)
    BY <1>2, <2>1, AfterPlanLater
  <2> QED BY <2>2, PlanOnlyUnparked DEF Later, Early
<1> QED BY <1>1, <1>2, PlanOnlyUnparked

-----------------------------------------------------------------------------
(* What a call may do to the plan columns. *)

(* A call that keeps them and does not plan. *)
LEMMA PlanStays ==
    ASSUME NEW v, NEW w, PlanInv(v.job, v.sess), SamePlan(v, w), Later(v.job, w.job)
    PROVE  PlanInv(w.job, w.sess)
BY DEF PlanInv, SamePlan, Later, Early

(* A call that keeps them, on a job before its approval, and does not park it. *)
LEMMA PlanOpens ==
    ASSUME NEW v, NEW w, PlanInv(v.job, v.sess),
           v.job.status \in {"pending", "planning_changes"},
           w.sess.approvedPlan = v.sess.approvedPlan,
           w.job.status # "awaiting_plan_approval"
    PROVE  PlanInv(w.job, w.sess)
BY DEF PlanInv

(* A call that parks the job with a new current plan. *)
LEMMA PlanParks ==
    ASSUME NEW w, w.sess.approvedPlan = 0, w.sess.currentPlan = w.job.plan
    PROVE  PlanInv(w.job, w.sess)
BY DEF PlanInv

(* The result of a job service leaves the session's plan columns alone. *)
LEMMA KeptPlan ==
    ASSUME NEW v \in Views, NEW r
    PROVE  /\ Kept(v, r).job = r.job /\ SamePlan(v, Kept(v, r))
           /\ Synced(v, r).job = r.job /\ SamePlan(v, Synced(v, r))
BY DEF Views, Sessions, Kept, Synced, SamePlan

(* So do the rounds. *)
LEMMA RoundsPlan ==
    ASSUME NEW v, NEW s \in Views, SamePlan(v, s), NEW n, NEW t, NEW status, NEW q, NEW p
    PROVE  /\ FailRound(s, n, t, q).job = s.job /\ SamePlan(v, FailRound(s, n, t, q))
           /\ Record(s, n, t, status, q, p).job = s.job
           /\ SamePlan(v, Record(s, n, t, status, q, p))
BY DEF Views, Sessions, FailRound, Record, SamePlan

(* And the initial engine errors. *)
LEMMA InitialFailsPlan ==
    ASSUME NEW v \in Views, NEW r \in Results
    PROVE  InitialFails(v, r).job = r.job /\ SamePlan(v, InitialFails(v, r))
<1> DEFINE s == Synced(v, r)
           f == FailRound(s, 1, "initial", "none")
<1>1. s \in Views /\ SamePlan(v, s) /\ s.job = r.job
  BY SyncedView, KeptPlan
<1>2. InitialFails(v, r) = [f EXCEPT !.sess.round = IF @ = 0 THEN 1 ELSE @]
  BY DEF InitialFails
<1> HIDE DEF s
<1>3. /\ f = [s EXCEPT !.rounds[1] = [@ EXCEPT !.trigger = "initial", !.status = "failed",
                                             !.request = "none"]]
      /\ f.job = s.job /\ SamePlan(v, f) /\ f.sess = s.sess
  BY <1>1 DEF FailRound, Views, SamePlan
<1> QED BY <1>1, <1>2, <1>3 DEF Views, Sessions, SamePlan

-----------------------------------------------------------------------------
(* One lemma per session endpoint. *)

(* What is known of a view with a plan in force. *)
LEMMA PlanViewParts ==
    ASSUME NEW v \in PlanViews
    PROVE  /\ v \in Views /\ v.job \in Jobs /\ v.disk \in Disks
           /\ GateInv(v.job) /\ PlanInv(v.job, v.sess)
BY DEF PlanViews, SoundViews, Views

(* A service of the job that does not plan, left by either kind of endpoint. *)
LEMMA LaterPlan ==
    ASSUME NEW v \in PlanViews, NEW r, Later(v.job, r.job)
    PROVE  LET k == Kept(v, r)
               s == Synced(v, r)
           IN  PlanInv(k.job, k.sess) /\ PlanInv(s.job, s.sess)
BY PlanViewParts, KeptPlan, PlanStays

(* The initial engine errors of a first round that did not plan. *)
LEMMA InitialFailsStays ==
    ASSUME NEW v \in PlanViews, NEW r \in Results, Later(v.job, r.job)
    PROVE  LET w == InitialFails(v, r) IN PlanInv(w.job, w.sess)
BY PlanViewParts, InitialFailsPlan, PlanStays

(* And of one that did. *)
LEMMA InitialFailsOpens ==
    ASSUME NEW v \in PlanViews, NEW r \in Results, v.job.status = "pending",
           r.job.status # "awaiting_plan_approval"
    PROVE  LET w == InitialFails(v, r) IN PlanInv(w.job, w.sess)
<1>1. InitialFails(v, r).job = r.job
      /\ InitialFails(v, r).sess.approvedPlan = v.sess.approvedPlan
  BY PlanViewParts, InitialFailsPlan DEF SamePlan
<1> QED BY <1>1, PlanViewParts, PlanOpens

(* A workspace that cannot be prepared. *)
LEMMA PreparationPlan ==
    ASSUME NEW v \in PlanViews
    PROVE  LET w == PreparationFails(v) IN PlanInv(w.job, w.sess)
<1>1. Later(v.job, Res(Status(v.job, "failed"), v.disk, "rejected").job)
  BY PlanViewParts, StatusLater, LaterStatuses DEF Res
<1> QED BY <1>1, LaterPlan DEF PreparationFails

(* An endpoint that leaves the job alone. *)
LEMMA UntouchedPlan ==
    ASSUME NEW v \in PlanViews, NEW e
    PROVE  Later(v.job, Untouched(v, e).job)
BY DEF Untouched, Res, Later

(* A plan that was made and waits for its approval. *)
LEMMA ParkedPlan ==
    ASSUME NEW v \in Views, NEW r \in Results, NEW entries
    PROVE  LET s == Synced(v, AwaitPlan(r))
               w == [s EXCEPT !.sess.approvedPlan = 0, !.sess.currentPlan = r.job.plan]
               u == [s EXCEPT !.rounds[1] = entries,
                              !.sess.approvedPlan = 0, !.sess.currentPlan = r.job.plan]
           IN  PlanInv(w.job, w.sess) /\ PlanInv(u.job, u.sess)
<1> DEFINE s == Synced(v, AwaitPlan(r))
           w == [s EXCEPT !.sess.approvedPlan = 0, !.sess.currentPlan = r.job.plan]
           u == [s EXCEPT !.rounds[1] = entries,
                          !.sess.approvedPlan = 0, !.sess.currentPlan = r.job.plan]
<1>1. s \in Views /\ s.job = AwaitPlan(r).job
  BY AwaitPlanResult, SyncedView
<1>2. AwaitPlan(r).job.plan = r.job.plan
  BY DEF AwaitPlan, Results, Jobs
<1> HIDE DEF s
<1>3. /\ w.job = s.job /\ w.sess.approvedPlan = 0 /\ w.sess.currentPlan = r.job.plan
      /\ u.job = s.job /\ u.sess.approvedPlan = 0 /\ u.sess.currentPlan = r.job.plan
  BY <1>1 DEF Views, Sessions
<1>4. w.sess.currentPlan = w.job.plan /\ u.sess.currentPlan = u.job.plan
  BY <1>1, <1>2, <1>3
<1> HIDE DEF w, u
<1>5. PlanInv(w.job, w.sess) /\ PlanInv(u.job, u.sess)
  BY <1>3, <1>4, PlanParks
<1> QED BY <1>5 DEF s, w, u

(* POST prepare-plan. *)
LEMMA PreparePlanPlan ==
    ASSUME NEW v \in PlanViews, NEW w \in PreparePlan(v)
    PROVE  PlanInv(w.job, w.sess)
<1> DEFINE results == When(CanBegin(v) /\ Slot(v, 1), PlanOnly(v.job, v.disk))
           paused == [AbsentRound EXCEPT !.trigger = "initial", !.status = "in_progress"]
           ready(r) == [Synced(v, AwaitPlan(r)) EXCEPT
                            !.rounds[1] = paused,
                            !.sess.approvedPlan = 0, !.sess.currentPlan = r.job.plan]
<1>1. results \subseteq Results
  BY PlanViewParts, PlanOnlyDraft, DraftResult DEF When, DraftFrom
<1>2. ASSUME NEW r \in results
      PROVE  v.job.status = "pending" /\ r.job.status # "awaiting_plan_approval"
  BY <1>2, PlanViewParts, PlanOnlyUnparked DEF When
<1>3. Untouched(v, "rejected") \in Results
  BY PlanViewParts, OpenStatuses, UntouchedResult
<1> HIDE DEF results, paused
<1>4. ASSUME NEW r \in results PROVE PlanInv(ready(r).job, ready(r).sess)
  BY <1>1, PlanViewParts, ParkedPlan
<1> HIDE DEF ready
<1>5. \/ w = Synced(v, Untouched(v, "ok"))
      \/ w = PreparationFails(v)
      \/ w = InitialFails(v, Untouched(v, "rejected"))
      \/ \E r \in results : w = InitialFails(v, r) \/ w = ready(r)
  BY DEF PreparePlan, When, Raised, Succeeded, results, ready, paused
<1> QED BY <1>1, <1>2, <1>3, <1>4, <1>5, UntouchedPlan, LaterPlan, PreparationPlan,
           InitialFailsStays, InitialFailsOpens

(* POST approve-plan: the plan in the job, the current one. *)
LEMMA ApprovePlanPlan ==
    ASSUME NEW v \in PlanViews, NEW w \in ApprovePlan(v)
    PROVE  PlanInv(w.job, w.sess)
<1> DEFINE s == Synced(v, Untouched(v, "ok"))
<1>1. AtPlanGate(v) /\ w = [s EXCEPT !.sess.approvedPlan = v.job.plan]
  BY DEF ApprovePlan, When
<1>2. Untouched(v, "ok") \in Results /\ Untouched(v, "ok").job = v.job
  BY PlanViewParts, OpenStatuses, UntouchedResult DEF Untouched, Res
<1>3. s \in Views /\ s.job = v.job /\ SamePlan(v, s)
  BY <1>2, PlanViewParts, SyncedView, KeptPlan
<1> HIDE DEF s
<1>4. /\ w.job = v.job /\ w.sess.approvedPlan = v.job.plan
      /\ w.sess.currentPlan = v.sess.currentPlan
  BY <1>1, <1>3 DEF Views, Sessions, SamePlan
<1>5. v.job.status = "awaiting_plan_approval" /\ v.sess.currentPlan = v.job.plan
  BY <1>1, PlanViewParts DEF AtPlanGate, PlanInv
<1> QED BY <1>4, <1>5 DEF PlanInv

(* POST request-plan-revision: the approval is withdrawn first. *)
LEMMA RevisePlanPlan ==
    ASSUME NEW v \in PlanViews, NEW w \in RevisePlan(v)
    PROVE  PlanInv(w.job, w.sess)
<1> DEFINE j == Status(v.job, "planning_changes")
           results == When(AtPlanGate(v), PlanJob(j, v.disk))
<1>1. j \in Jobs
  BY PlanViewParts, OpenStatuses, StatusDraft
<1>2. results \subseteq Results
  BY <1>1, PlanViewParts, PlanJobDraft, DraftResult DEF When, DraftFrom
<1>3. ASSUME NEW r \in results PROVE r.job.status # "awaiting_plan_approval"
  <2> HIDE DEF j
  <2> QED BY <1>1, <1>3, PlanningUnparked DEF When
<1>4. PICK r \in results :
          \/ w = [Kept(v, r) EXCEPT !.sess.approvedPlan = 0]
          \/ w = [Synced(v, AwaitPlan(r)) EXCEPT
                     !.sess.approvedPlan = 0, !.sess.currentPlan = r.job.plan]
  BY DEF RevisePlan, Raised, Succeeded
<1> HIDE DEF results
<1>5. CASE w = [Kept(v, r) EXCEPT !.sess.approvedPlan = 0]
  <2>1. Kept(v, r) \in Views /\ Kept(v, r).job = r.job
    BY <1>2, PlanViewParts, KeptView
  <2>2. w.job = r.job /\ w.sess.approvedPlan = 0
    BY <1>5, <2>1 DEF Views, Sessions
  <2> QED BY <1>3, <2>2 DEF PlanInv
<1>6. CASE w = [Synced(v, AwaitPlan(r)) EXCEPT
                   !.sess.approvedPlan = 0, !.sess.currentPlan = r.job.plan]
  BY <1>2, <1>6, PlanViewParts, ParkedPlan
<1> QED BY <1>4, <1>5, <1>6

(* Round 1 recorded after its run: with the plan that was approved, or with
   the one made in the same call. *)
LEMMA FirstRoundPlan ==
    ASSUME NEW v \in PlanViews, NEW r \in Results, NEW plan \in Plans,
           \/ Later(v.job, r.job) /\ plan = v.sess.currentPlan
           \/ v.job.status = "pending" /\ r.job.status # "awaiting_plan_approval"
    PROVE  LET w == FirstRound(v, r, plan) IN PlanInv(w.job, w.sess)
<1> DEFINE done == [r EXCEPT !.job = Reconciled(r.job)]
           s == Synced(v, done)
           u == [s EXCEPT !.sess.currentPlan = plan]
           status == IF done.job.status = "failed" THEN "failed" ELSE "completed"
           w == Record(u, 1, "initial", status, "none", TRUE)
<1>1. done \in Results /\ done.job = Reconciled(r.job)
  BY ReconciledType DEF Results
<1>2. Later(r.job, done.job)
  BY <1>1, ReconciledLater DEF Results
<1>3. FirstRound(v, r, plan) = w
  BY DEF FirstRound, Results
<1> HIDE DEF done, status
<1>4. s \in Views /\ s.job = done.job /\ SamePlan(v, s)
  BY <1>1, PlanViewParts, SyncedView, KeptPlan
<1> HIDE DEF s
<1>5. /\ u \in Views /\ u.job = done.job /\ u.sess.currentPlan = plan
      /\ u.sess.approvedPlan = v.sess.approvedPlan
  BY <1>4 DEF Views, Sessions, SamePlan
<1> HIDE DEF u
<1>6. w.job = u.job /\ SamePlan(u, w)
  <2>1. SamePlan(u, u)
    BY DEF SamePlan
  <2>2. ASSUME NEW p
        PROVE  /\ Record(u, 1, "initial", status, "none", p).job = u.job
               /\ SamePlan(u, Record(u, 1, "initial", status, "none", p))
    BY <1>5, <2>1, RoundsPlan
  <2> QED BY <2>2
<1>7. CASE Later(v.job, r.job) /\ plan = v.sess.currentPlan
  <2>1. Later(v.job, w.job) /\ SamePlan(v, w)
    BY <1>2, <1>5, <1>6, <1>7, LaterTrans DEF SamePlan
  <2> QED BY <1>3, <2>1, PlanViewParts, PlanStays
<1>8. CASE v.job.status = "pending" /\ r.job.status # "awaiting_plan_approval"
  <2>1. w.job.status # "awaiting_plan_approval"
    BY <1>2, <1>5, <1>6, <1>8 DEF Later, Early
  <2>2. w.sess.approvedPlan = v.sess.approvedPlan
    BY <1>5, <1>6 DEF SamePlan
  <2> QED BY <1>3, <1>8, <2>1, <2>2, PlanViewParts, PlanOpens
<1> QED BY <1>7, <1>8

(* POST start, with an approved plan or in one shot. *)
LEMMA StartSessionPlan ==
    ASSUME NEW v \in PlanViews, NEW w \in StartSession(v)
    PROVE  PlanInv(w.job, w.sess)
<1> DEFINE j == Status(v.job, "generating_code")
           approved == When(AtPlanGate(v) /\ v.sess.approvedPlan # 0, AfterPlan(j, v.disk))
           oneShot == When(CanBegin(v) /\ Slot(v, 1),
                           Initial(v.job, v.disk) \cup {Untouched(v, "engine")})
<1>1. j \in Jobs /\ GateInv(j) /\ j.status \notin Closed /\ Later(v.job, j)
  BY PlanViewParts, OpenStatuses, StatusDraft, StatusLater, LaterStatuses
<1> HIDE DEF j
<1>2. ASSUME NEW r \in approved PROVE r \in Results /\ Later(v.job, r.job)
  <2>1. r \in AfterPlan(j, v.disk)
    BY <1>2 DEF When
  <2> QED BY <1>1, <2>1, PlanViewParts, AfterPlanDraft, DraftResult, AfterPlanLater, LaterTrans
<1>3. ASSUME NEW r \in oneShot
      PROVE  /\ r \in Results /\ v.job.status = "pending"
             /\ r.job.status # "awaiting_plan_approval"
  <2>1. v.job.status = "pending" /\ r \in Initial(v.job, v.disk) \cup {Untouched(v, "engine")}
    BY <1>3 DEF When, CanBegin
  <2>2. CASE r \in Initial(v.job, v.disk)
    BY <2>1, <2>2, PlanViewParts, InitialDraft, DraftResult, InitialUnparked DEF DraftFrom
  <2>3. CASE r = Untouched(v, "engine")
    <3>1. r \in Results
      BY <2>3, PlanViewParts, UntouchedResult, OpenStatuses
    <3>2. r.job = v.job
      BY <2>3 DEF Untouched, Res
    <3> QED BY <2>1, <3>1, <3>2
  <2> QED BY <2>1, <2>2, <2>3
<1> HIDE DEF approved, oneShot
<1>4. \/ w = PreparationFails(v)
      \/ \E r \in approved \cup oneShot : w = InitialFails(v, r)
      \/ \E r \in approved : w = FirstRound(v, r, v.sess.currentPlan)
      \/ \E r \in oneShot : w = FirstRound(v, r, r.job.plan)
  BY DEF StartSession, When, Raised, Succeeded, approved, oneShot, j
<1>5. CASE w = PreparationFails(v)
  BY <1>5, PreparationPlan
<1>6. CASE \E r \in approved \cup oneShot : w = InitialFails(v, r)
  BY <1>2, <1>3, <1>6, InitialFailsStays, InitialFailsOpens
<1>7. CASE \E r \in approved : w = FirstRound(v, r, v.sess.currentPlan)
  <2>1. v.sess.currentPlan \in Plans
    BY PlanViewParts DEF Views, Sessions
  <2> QED BY <1>2, <1>7, <2>1, FirstRoundPlan
<1>8. CASE \E r \in oneShot : w = FirstRound(v, r, r.job.plan)
  <2>1. \A r \in Results : r.job.plan \in Plans
    BY DEF Results, Jobs
  <2> QED BY <1>3, <1>8, <2>1, FirstRoundPlan
<1> QED BY <1>4, <1>5, <1>6, <1>7, <1>8

(* A review round, failed or recorded. *)
LEMMA RoundPlan ==
    ASSUME NEW v \in PlanViews, NEW r \in Results, Later(v.job, r.job),
           NEW n, NEW t, NEW status, NEW q, NEW p
    PROVE  LET f == FailRound(Synced(v, r), n, t, q)
               c == Record(Synced(v, r), n, t, status, q, p)
           IN  PlanInv(f.job, f.sess) /\ PlanInv(c.job, c.sess)
<1>1. Synced(v, r) \in Views /\ Synced(v, r).job = r.job /\ SamePlan(v, Synced(v, r))
  BY PlanViewParts, SyncedView, KeptPlan
<1> QED BY <1>1, PlanViewParts, RoundsPlan, PlanStays

(* POST request-revision and manual-edit-ack of the session. *)
LEMMA ReviewPlan ==
    ASSUME NEW v \in PlanViews, NEW w \in ReviseSession(v) \cup AckSession(v)
    PROVE  PlanInv(w.job, w.sess)
<1> DEFINE done(r) == [r EXCEPT !.job = Reconciled(r.job)]
           results == Revision(v.job, v.disk) \cup {Untouched(v, "engine")}
           applied == {r \in Succeeded(results) : r.disk.now # v.disk.now}
           n == v.sess.round + 1
<1>1. ASSUME NEW r \in results \cup AckJob(v.job, v.disk)
      PROVE  r \in Results /\ Later(v.job, r.job)
  <2>1. CASE r \in Revision(v.job, v.disk)
    BY <2>1, PlanViewParts, RevisionDraft, DraftResult, RevisionLater DEF DraftFrom
  <2>2. CASE r \in AckJob(v.job, v.disk)
    BY <2>2, PlanViewParts, AckJobDraft, DraftResult, AckLater DEF DraftFrom
  <2>3. CASE r = Untouched(v, "engine")
    BY <2>3, PlanViewParts, UntouchedResult, OpenStatuses, UntouchedPlan
  <2> QED BY <1>1, <2>1, <2>2, <2>3
<1>2. ASSUME NEW r \in results
      PROVE  /\ done(r) \in Results /\ Later(v.job, done(r).job)
             /\ done(r) = [r EXCEPT !.job = Reconciled(@)]
  <2>1. r \in Results /\ Later(v.job, r.job)
    BY <1>1
  <2>2. /\ done(r) \in Results /\ done(r).job = Reconciled(r.job)
        /\ done(r) = [r EXCEPT !.job = Reconciled(@)]
    BY <2>1, ReconciledType DEF Results
  <2>3. Later(r.job, Reconciled(r.job))
    BY <2>1, ReconciledLater DEF Results
  <2> QED BY <2>1, <2>2, <2>3, LaterTrans
<1> HIDE DEF done
<1>3. CASE w \in ReviseSession(v)
  <2>1. applied \subseteq results
    BY DEF Succeeded
  <2>2. \A r \in applied : done(r) = [r EXCEPT !.job = Reconciled(@)]
    BY <1>2, <2>1
  <2>3. \/ \E r \in results : w = FailRound(Synced(v, r), n, "review_revision", "failed")
        \/ \E r \in applied : w = Record(Synced(v, done(r)), n, "review_revision",
                                         RoundStatus(done(r).job), "applied", TRUE)
    BY <1>3, <2>2 DEF ReviseSession, When
  <2> HIDE DEF results, applied
  <2> QED BY <1>1, <1>2, <2>1, <2>3, RoundPlan
<1>4. CASE w \in AckSession(v)
  <2>1. \/ w = FailRound(Synced(v, Untouched(v, "engine")), n, "manual_edit_rerun", "failed")
        \/ \E r \in AckJob(v.job, v.disk) :
               w = Record(Synced(v, r), n, "manual_edit_rerun", RoundStatus(r.job), "applied",
                          FALSE)
    BY <1>4 DEF AckSession, When
  <2> QED BY <1>1, <2>1, RoundPlan
<1> QED BY <1>3, <1>4

(* POST approve of the session. *)
LEMMA ApprovePlanKept ==
    ASSUME NEW v \in PlanViews, NEW w \in ApproveSession(v)
    PROVE  PlanInv(w.job, w.sess)
<1>1. Reconciled(v.job) \in Jobs /\ Later(v.job, Reconciled(v.job))
  BY PlanViewParts, ReconciledType, ReconciledLater
<1>2. \A r \in ApproveJob(Reconciled(v.job), v.disk) : Later(v.job, r.job)
  BY <1>1, ApproveLater, LaterTrans
<1>3. \/ w = Synced(v, Untouched(v, "ok"))
      \/ \E r \in ApproveJob(Reconciled(v.job), v.disk) : w = Synced(v, r)
  BY DEF ApproveSession, When
<1> QED BY <1>2, <1>3, LaterPlan, UntouchedPlan

(* What the tests before the commit leave of a job: its plan. *)
Tried(v) == {r \in Results : r.job.plan = v.job.plan}

(* Every refresh, passing or not. *)
LEMMA RefreshedTried ==
    ASSUME NEW v \in PlanViews, NEW d \in Disks
    PROVE  /\ Refreshed(v.job, d) \subseteq Tried(v)
           /\ Res(v.job, d, "ok") \in Tried(v)
           /\ Res(RefreshFails(v.job, d), d, "ok") \in Tried(v)
<1>1. ASSUME NEW k \in Jobs, k.plan = v.job.plan PROVE Res(k, d, "ok") \in Tried(v)
  BY <1>1, OpenStatuses DEF Res, Tried, Results
<1>2. RefreshFails(v.job, d) \in Jobs /\ RefreshFails(v.job, d).plan = v.job.plan
  BY PlanViewParts, RefreshFailsType DEF RefreshFails, Jobs
<1> DEFINE k == [v.job EXCEPT !.exec = "passed", !.ranOn = d.now]
<1>3. k \in Jobs /\ k.plan = v.job.plan
  BY PlanViewParts DEF Jobs, Disks, Verdicts
<1> HIDE DEF k
<1>4. \A r \in Refreshed(v.job, d) : r = Res(v.job, d, "ok") \/ r = Res(k, d, "ok")
  BY DEF Refreshed, When, k
<1> QED BY <1>1, <1>2, <1>3, <1>4, PlanViewParts

(* Every end of the pipelines is past the pause, with that plan. *)
LEMMA TriedEnds ==
    ASSUME NEW v \in PlanViews, NEW r \in Tried(v), NEW via, NEW content
    PROVE  /\ Later(v.job, PrFailed(r).job)
           /\ Later(v.job, [r EXCEPT !.job.status = "failed"].job)
           /\ Later(v.job, Opened(v, r, via, content).job)
           /\ SamePlan(v, Opened(v, r, via, content))
           /\ \A s \in {"awaiting_human_input", "failed"} : Later(v.job, Status(r.job, s))
<1>1. r \in Results /\ r.job \in Jobs /\ r.job.plan = v.job.plan /\ v \in Views
  BY PlanViewParts DEF Tried, Results
<1>2. ASSUME NEW s, s \notin Early
      PROVE  /\ Later(v.job, [r.job EXCEPT !.status = s])
             /\ [r EXCEPT !.job.status = s].job = [r.job EXCEPT !.status = s]
  <2>1. [r.job EXCEPT !.status = s].plan = v.job.plan /\ [r.job EXCEPT !.status = s].status = s
    BY <1>1 DEF Jobs
  <2>2. [r EXCEPT !.job.status = s].job = [r.job EXCEPT !.status = s]
    BY <1>1 DEF Results
  <2> QED BY <1>2, <2>1, <2>2 DEF Later
<1>3. Later(v.job, PrFailed(r).job)
  BY <1>2, LaterStatuses DEF PrFailed
<1>4. Kept(v, r) \in Views /\ Kept(v, r).job = r.job /\ SamePlan(v, Kept(v, r))
  BY <1>1, KeptView, KeptPlan
<1>5. /\ Opened(v, r, via, content).job = [r.job EXCEPT !.status = "pr_created"]
      /\ SamePlan(v, Opened(v, r, via, content))
  BY <1>4 DEF Opened, Views, SamePlan
<1> QED BY <1>2, <1>3, <1>5, LaterStatuses DEF Status

(* The status column is written last in the session pipeline. *)
LEMMA StatusColumn ==
    ASSUME NEW T, NEW U, NEW s,
           NEW x \in [job : T, sess : Sessions, rounds : [1..MaxRounds -> Rounds],
                      pr : U, disk : Disks]
    PROVE  /\ [x EXCEPT !.sess.status = s].job = x.job
           /\ SamePlan(x, [x EXCEPT !.sess.status = s])
BY DEF SamePlan, Sessions

(* A pull request that opened leaves a view of that shape. *)
LEMMA OpenedShape ==
    ASSUME NEW v \in Views, NEW r \in Results, NEW via, NEW content
    PROVE  LET o == Opened(v, r, via, content)
           IN  o \in [job : {o.job}, sess : Sessions, rounds : [1..MaxRounds -> Rounds],
                      pr : {o.pr}, disk : Disks]
<1> DEFINE k == Kept(v, r)
           job_ == [k.job EXCEPT !.status = "pr_created"]
           pr_ == [via |-> via, content |-> content, approved |-> r.job.approvedOn]
<1>1. k \in Views
  BY KeptView
<1>2. Opened(v, r, via, content) = [k EXCEPT !.job = job_, !.pr = pr_]
  BY DEF Opened
<1> HIDE DEF k, job_, pr_
<1> QED BY <1>1, <1>2 DEF Views

(* POST create-pr of the session. *)
LEMMA CreatePrSessionPlan ==
    ASSUME NEW v \in PlanViews, NEW w \in CreatePrSession(v)
    PROVE  PlanInv(w.job, w.sess)
<1> DEFINE ready == UNION {Refreshed(v.job, d) : d \in PrWorkspaces(v)}
           unready == {Res(v.job, d, "ok") : d \in PrWorkspaces(v) \cup {v.disk}}
                      \cup {Res(RefreshFails(v.job, d), d, "ok") : d \in PrWorkspaces(v)}
           applied == {[r EXCEPT !.disk = Patched(v, @)] : r \in ready}
           sync(x) == [x EXCEPT !.sess.status = SessionStatusOf(x.job.status)]
<1>1. PrWorkspaces(v) \subseteq Disks /\ (PrWorkspaces(v) # {} => v.sess.currentPatch # 0)
  BY PlanViewParts, PatchedType DEF PrWorkspaces
<1>2. unready \subseteq Tried(v) /\ ready \subseteq Tried(v)
  BY <1>1, PlanViewParts, RefreshedTried
<1>3. applied \subseteq Tried(v)
  <2>1. ASSUME NEW r \in ready PROVE [r EXCEPT !.disk = Patched(v, @)] \in Tried(v)
    <3>1. v.sess.currentPatch # 0
      BY <1>1, <2>1
    <3>2. r \in Results /\ r.job.plan = v.job.plan
      BY <1>2, <2>1 DEF Tried
    <3>3. Patched(v, r.disk) \in Disks
      BY <3>1, <3>2, PlanViewParts, PatchedType DEF Results
    <3> HIDE DEF ready
    <3> QED BY <3>2, <3>3 DEF Tried, Results
  <2> HIDE DEF ready
  <2> QED BY <2>1
<1> HIDE DEF sync, ready, unready, applied
<1>4. \/ \E r \in unready \cup ready \cup applied : w = sync(Kept(v, PrFailed(r)))
      \/ \E r \in applied : w = sync(Opened(v, r, "session", r.disk.now))
  BY DEF CreatePrSession, When, sync, ready, unready, applied
<1>5. ASSUME NEW r \in Tried(v) PROVE
          LET k == sync(Kept(v, PrFailed(r)))
              o == sync(Opened(v, r, "session", r.disk.now))
          IN  PlanInv(k.job, k.sess) /\ PlanInv(o.job, o.sess)
  <2> DEFINE c == r.disk.now
             k == Kept(v, PrFailed(r))
             o == Opened(v, r, "session", c)
  <2>1. r \in Results /\ PrFailed(r) \in Results /\ v \in Views
    <3>1. [r.job EXCEPT !.status = "pr_creation_failed"] \in Jobs
      BY DEF Tried, Results, Jobs, JobStatus
    <3> QED BY <3>1, PlanViewParts DEF Tried, PrFailed, Results
  <2> HIDE DEF c
  <2>2. Later(v.job, k.job) /\ SamePlan(v, k)
    BY <2>1, TriedEnds, KeptPlan
  <2>3. Later(v.job, o.job) /\ SamePlan(v, o)
    BY TriedEnds
  <2>4. ASSUME NEW s
        PROVE  /\ [k EXCEPT !.sess.status = s].job = k.job
               /\ SamePlan(k, [k EXCEPT !.sess.status = s])
               /\ [o EXCEPT !.sess.status = s].job = o.job
               /\ SamePlan(o, [o EXCEPT !.sess.status = s])
    <3>1. /\ [k EXCEPT !.sess.status = s].job = k.job
          /\ SamePlan(k, [k EXCEPT !.sess.status = s])
      <4>1. k \in Views
        BY <2>1, KeptView
      <4> HIDE DEF k
      <4> QED BY <4>1, StatusColumn DEF Views
    <3>2. /\ [o EXCEPT !.sess.status = s].job = o.job
          /\ SamePlan(o, [o EXCEPT !.sess.status = s])
      <4>1. o \in [job : {o.job}, sess : Sessions, rounds : [1..MaxRounds -> Rounds],
                   pr : {o.pr}, disk : Disks]
        BY <2>1, OpenedShape
      <4> HIDE DEF o
      <4> QED BY <4>1, StatusColumn
    <3> QED BY <3>1, <3>2
  <2> HIDE DEF k, o
  <2>5. /\ sync(k).job = k.job /\ SamePlan(k, sync(k))
        /\ sync(o).job = o.job /\ SamePlan(o, sync(o))
    BY <2>4 DEF sync
  <2>6. SamePlan(v, sync(k)) /\ SamePlan(v, sync(o))
    BY <2>2, <2>3, <2>5 DEF SamePlan
  <2> QED BY <2>2, <2>3, <2>5, <2>6, PlanViewParts, PlanStays DEF k, o, c
<1> QED BY <1>2, <1>3, <1>4, <1>5

(* POST create-pr of the job. *)
LEMMA CreatePrJobPlan ==
    ASSUME NEW v \in PlanViews, NEW w \in CreatePrJob(v)
    PROVE  PlanInv(w.job, w.sess)
<1> DEFINE ready == Refreshed(v.job, v.disk)
           stop(q, s) == Res(Status(q.job, s), v.disk, "ok")
           fails == Res(RefreshFails(v.job, v.disk), v.disk, "ok")
<1>1. ready \subseteq Tried(v) /\ Untouched(v, "ok") \in Tried(v) /\ fails \in Tried(v)
  BY PlanViewParts, RefreshedTried DEF Untouched
<1>2. /\ Untouched(v, "ok").job = v.job
      /\ fails.job = RefreshFails(v.job, v.disk)
  BY DEF Untouched, Res
<1> HIDE DEF ready, fails, stop
<1>3. \/ w = Kept(v, stop(Untouched(v, "ok"), "awaiting_human_input"))
      \/ \E s \in {"awaiting_human_input", "failed"} : w = Kept(v, stop(fails, s))
      \/ \E r \in ready \cup {Untouched(v, "ok")} : w = Kept(v, [r EXCEPT !.job.status = "failed"])
      \/ \E r \in ready : w = Opened(v, r, "job", r.disk.now)
  BY <1>2 DEF CreatePrJob, When, ready, stop
<1>4. ASSUME NEW r \in Tried(v), NEW s \in {"awaiting_human_input", "failed"}
      PROVE  Later(v.job, stop(r, s).job)
  <2>1. stop(r, s).job = Status(r.job, s)
    BY DEF stop, Res
  <2> QED BY <2>1, TriedEnds
<1>5. ASSUME NEW r \in Tried(v)
      PROVE  LET o == Opened(v, r, "job", r.disk.now) IN PlanInv(o.job, o.sess)
  <2> DEFINE o == Opened(v, r, "job", r.disk.now)
  <2>1. Later(v.job, o.job) /\ SamePlan(v, o)
    BY TriedEnds
  <2> HIDE DEF o
  <2>2. PlanInv(o.job, o.sess)
    BY <2>1, PlanViewParts, PlanStays
  <2> QED BY <2>2 DEF o
<1>6. ASSUME NEW r, Later(v.job, r.job), w = Kept(v, r) PROVE PlanInv(w.job, w.sess)
  BY <1>6, LaterPlan
<1>7. \A r \in Tried(v) : Later(v.job, [r EXCEPT !.job.status = "failed"].job)
  BY TriedEnds
<1> QED BY <1>1, <1>3, <1>4, <1>5, <1>6, <1>7

-----------------------------------------------------------------------------
(* The specification. *)

PInv == IInv /\ PlanInv(job, sess)

(* The invariant is that the rows form a sound view with its plan in force. *)
LEMMA PInvView == PInv <=> View \in PlanViews
BY IInvView DEF PInv, PlanViews, View

(* A fresh session has approved nothing. *)
LEMMA InitPInv == Init => PInv
<1> SUFFICES ASSUME Init PROVE PlanInv(job, sess)
  BY InitIInv DEF PInv
<1> QED BY DEF Init, NewSession, NewJob, PlanInv

(* A call that commits a view with its plan in force. *)
LEMMA CommittedPlan ==
    ASSUME NEW STATE results, \A w \in results : PlanInv(w.job, w.sess), Committed(results)
    PROVE  PlanInv(job, sess)'
<1>1. PICK w \in results : PlanInv(w.job, w.sess) /\ sess' = w.sess /\ job' = w.job
  BY DEF Committed
<1> QED BY <1>1 DEF PlanInv

(* Job endpoints: those that plan find no approval, the others keep the plan. *)
LEMMA JobEndpointPlan ==
    ASSUME PInv, NEW STATE results, Committed(JobCall(results)),
           \/ \A r \in results : Later(job, r.job)
           \/ \A r \in results : /\ job.status \in {"pending", "planning_changes"}
                                 /\ r.job.status # "awaiting_plan_approval"
    PROVE  PlanInv(job, sess)'
<1>1. View \in PlanViews /\ View \in Views /\ View.job = job /\ PlanInv(View.job, View.sess)
  BY PInvView, PlanViewParts DEF View
<1>2. ASSUME NEW r \in results
      PROVE  PlanInv(Kept(View, r).job, Kept(View, r).sess)
  <2>1. Kept(View, r).job = r.job /\ SamePlan(View, Kept(View, r))
    BY <1>1, KeptPlan
  <2>2. CASE Later(job, r.job)
    BY <1>1, <2>1, <2>2, PlanStays
  <2>3. CASE /\ job.status \in {"pending", "planning_changes"}
             /\ r.job.status # "awaiting_plan_approval"
    BY <1>1, <2>1, <2>3, PlanOpens DEF SamePlan
  <2> QED BY <2>2, <2>3
<1>3. \A w \in JobCall(results) : PlanInv(w.job, w.sess)
  BY <1>2 DEF JobCall
<1> QED BY <1>3, CommittedPlan

(* One case per endpoint. *)
LEMMA PlanStep ==
    ASSUME PInv, [Next]_vars PROVE PInv'
<1>1. View \in PlanViews /\ job \in Jobs
  BY PInvView DEF PInv, IInv, TypeOK
<1>2. SUFFICES PlanInv(job, sess)'
  BY StepOutcome DEF PInv
<1>3. CASE SessionNext
  <2>1. CASE PreparePlanRequest
    BY <1>1, <2>1, PreparePlanPlan, CommittedPlan DEF PreparePlanRequest
  <2>2. CASE ApprovePlanRequest
    BY <1>1, <2>2, ApprovePlanPlan, CommittedPlan DEF ApprovePlanRequest
  <2>3. CASE RevisePlanRequest
    BY <1>1, <2>3, RevisePlanPlan, CommittedPlan DEF RevisePlanRequest
  <2>4. CASE StartRequest
    BY <1>1, <2>4, StartSessionPlan, CommittedPlan DEF StartRequest
  <2>5. CASE ReviseRequest \/ AckRequest
    BY <1>1, <2>5, ReviewPlan, CommittedPlan DEF ReviseRequest, AckRequest
  <2>6. CASE ApproveRequest
    BY <1>1, <2>6, ApprovePlanKept, CommittedPlan DEF ApproveRequest
  <2>7. CASE CreatePrRequest
    BY <1>1, <2>7, CreatePrSessionPlan, CommittedPlan DEF CreatePrRequest
  <2> QED BY <1>3, <2>1, <2>2, <2>3, <2>4, <2>5, <2>6, <2>7 DEF SessionNext
<1>4. CASE JobNext
  <2>1. CASE StartJobRequest \/ PlanJobRequest
    BY <1>1, <2>1, PlanningUnparked, JobEndpointPlan DEF StartJobRequest, PlanJobRequest
  <2>2. CASE GenerateJobRequest \/ ExecuteJobRequest \/ RepairJobRequest
    BY <1>1, <2>2, GenerateLater, ExecuteLater, RepairLater, JobEndpointPlan
       DEF GenerateJobRequest, ExecuteJobRequest, RepairJobRequest
  <2>3. CASE ApproveJobRequest \/ ReviseJobRequest \/ AckJobRequest
    BY <1>1, <2>3, ApproveLater, RevisionLater, AckLater, JobEndpointPlan
       DEF ApproveJobRequest, ReviseJobRequest, AckJobRequest
  <2>4. CASE CreatePrJobRequest
    BY <1>1, <2>4, CreatePrJobPlan, CommittedPlan DEF CreatePrJobRequest
  <2> QED BY <1>4, <2>1, <2>2, <2>3, <2>4 DEF JobNext
<1>5. CASE HumanEdit \/ InterruptedRequest \/ UNCHANGED vars
  BY <1>5 DEF HumanEdit, InterruptedRequest, vars, PInv, PlanInv
<1> QED BY <1>3, <1>4, <1>5 DEF Next

-----------------------------------------------------------------------------
(* The theorems. *)

(* The inductive invariant of the plan gate. *)
THEOREM PlanInvariance == Spec => []PInv
<1>1. Init => PInv
  BY InitPInv
<1>2. PInv /\ [Next]_vars => PInv'
  BY PlanStep
<1> QED BY <1>1, <1>2, PTL DEF Spec

(* plan_approved_at is only ever set while the plan in the job is the plan
   that was approved and the current version, whatever the order of the calls
   of both APIs and wherever a call dies. *)
THEOREM ApprovalInForce == Spec => []ApprovedPlanInForce
<1>1. PInv => ApprovedPlanInForce
  BY DEF PInv, PlanInv, ApprovedPlanInForce
<1> QED BY <1>1, PlanInvariance, PTL

===============================================================================
