-------------------------- MODULE MCAutomationSession --------------------------
(* Instances of AutomationSession for TLC: which operations clients use. *)
EXTENDS AutomationSession

SessionCalls ==
    {"prepare-plan", "approve-plan", "request-plan-revision", "start",
     "request-revision", "manual-edit-ack", "approve", "create-pr"}

(* Every operation but those that leave the rows behind. *)
AllButInterrupt == AllCalls \ {"interrupt"}

SessionAndFailures == SessionCalls \cup {"edit", "interrupt"}

(* Manual edits only, acknowledged or not: no engine revision. *)
EditedSession == (SessionCalls \ {"request-revision"}) \cup {"edit"}

=============================================================================
