--------------------------- MODULE ConcurrentSession ---------------------------
(***************************************************************************)
(* The session endpoints served by several threads.  Each request has its  *)
(* own database session: it reads the session and job rows once, checks    *)
(* them, and later flushes only the columns it changed.  PostgreSQL runs   *)
(* READ COMMITTED, so what it read may be stale by then; from the first    *)
(* flush to the commit the row is locked, so everything a request does     *)
(* after its first flush (the engine, the tests, git, GitHub) is one step  *)
(* here: Begin is the read, Commit the locked part.                        *)
(*                                                                         *)
(* The rows of the round, plan and patch tables are read after the lock;   *)
(* a second insert of a round number waits for the first and then fails.   *)
(***************************************************************************)
EXTENDS AutomationSession

CONSTANT Clients

VARIABLE calls   \* what each client's request read, or Idle

cvars == <<job, sess, rounds, pr, disk, calls>>

Idle == [op |-> "idle"]

CallResults(op, v) ==
    CASE op = "prepare-plan"          -> PreparePlan(v)
      [] op = "approve-plan"          -> ApprovePlan(v)
      [] op = "request-plan-revision" -> RevisePlan(v)
      [] op = "start"                 -> StartSession(v)
      [] op = "request-revision"      -> ReviseSession(v)
      [] op = "manual-edit-ack"       -> AckSession(v)
      [] op = "approve"               -> ApproveSession(v)
      [] op = "create-pr"             -> CreatePrSession(v)
      [] OTHER                        -> {}

ConcurrentInit == Init /\ calls = [c \in Clients |-> Idle]

(* A request reads the rows; one that fails its checks ends here. *)
Begin(c, op) ==
    /\ calls[c] = Idle
    /\ CallResults(op, View) # {}
    /\ calls' = [calls EXCEPT ![c] = [op |-> op, job |-> job, sess |-> sess,
                                      gate |-> AtPlanGate(View)]]
    /\ UNCHANGED vars

(* What the locked part works on: the rows as they were read, with the
   versions and rounds of now.  A request that found the paused round holds
   on to it. *)
Seen(call) ==
    [View EXCEPT
        !.job = call.job,
        !.sess = [call.sess EXCEPT !.currentPlan = sess.currentPlan,
                                   !.currentPatch = sess.currentPatch],
        !.rounds[1].status = IF call.gate THEN "in_progress" ELSE @]

(* UPDATE of the columns that differ from what was read. *)
Updated(row, read, left) ==
    [column \in DOMAIN row |->
        IF left[column] # read[column] THEN left[column] ELSE row[column]]

(* The job row after the call.  A pull-request attempt always writes the
   status; a test run that repeats the result the row was read with writes it
   again. *)
JobsAfter(call, left) ==
    LET updated == [Updated(job, call.job, left) EXCEPT
                       !.approvedOn = IF call.op = "approve" THEN left.approvedOn ELSE @]
        written == [updated EXCEPT !.status = left.status]
        rerun   == [written EXCEPT !.exec = left.exec, !.ranOn = left.ranOn]
        reruns  == \/ call.op = "create-pr"
                   \/ /\ call.op \in {"request-revision", "manual-edit-ack"}
                      /\ left.status = "awaiting_automation_review"
    IN  When(left = call.job /\ call.op # "create-pr", {job})
        \cup When(left # call.job \/ call.op = "create-pr", {written})
        \cup When(reruns, {rerun})

(* A revision and an acknowledgement refresh the job before they sync. *)
SessionAfter(call, left, jobAfter) ==
    LET own == IF call.op \in {"request-revision", "manual-edit-ack"}
               THEN SessionStatusOf(jobAfter.status)
               ELSE left.status
    IN  [sess EXCEPT
            !.status = IF own # call.sess.status \/ call.op = "create-pr" THEN own ELSE @,
            !.round = IF left.round # call.sess.round THEN left.round ELSE @,
            !.approvedPlan = IF left.approvedPlan # call.sess.approvedPlan
                                \/ call.op = "approve-plan"
                             THEN left.approvedPlan ELSE @,
            !.currentPlan = left.currentPlan,
            !.currentPatch = left.currentPatch]

Commit(c) ==
    LET call == calls[c]
        seen == Seen(call)
    IN  /\ call # Idle
        /\ \E left \in CallResults(call.op, seen) :
              /\ job' \in JobsAfter(call, left.job)
              /\ sess' = SessionAfter(call, left.sess, job')
              /\ rounds' = Updated(rounds, seen.rounds, left.rounds)
              /\ pr' = left.pr
              /\ disk' = left.disk
        /\ calls' = [calls EXCEPT ![c] = Idle]

(* The request dies, or its insert of a round number fails, before it has
   touched anything outside the database. *)
Abort(c) ==
    /\ calls[c] # Idle
    /\ calls' = [calls EXCEPT ![c] = Idle]
    /\ UNCHANGED vars

ConcurrentNext ==
    \E c \in Clients : (\E op \in Calls : Begin(c, op)) \/ Commit(c) \/ Abort(c)

ConcurrentSpec == ConcurrentInit /\ [][ConcurrentNext]_cvars

-----------------------------------------------------------------------------
(* Properties. *)

(* No round of the review is worked twice: once such a round is closed no
   request rewrites it. *)
RoundsClosedOnce ==
    [][\A n \in 2..MaxRounds :
          rounds[n].status \in {"completed", "failed"} => rounds'[n] = rounds[n]]_cvars

(* current_round_number only ever moves to a round that is closed, also when a
   start that read stale rows moves it back. *)
CountedWhenClosed ==
    [][sess'.round # sess.round =>
          rounds'[sess'.round].status \in {"completed", "failed"}]_cvars

(* A session gets one pull request, and nothing is pushed over it: racing
   attempts end at GitHub's refusal of a second one. *)
PrOnce == [][pr.via # "none" => pr' = pr]_cvars

=============================================================================
