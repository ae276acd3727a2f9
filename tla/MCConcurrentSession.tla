-------------------------- MODULE MCConcurrentSession --------------------------
(* Instances of ConcurrentSession for TLC: two clients, interchangeable. *)
EXTENDS ConcurrentSession, TLC

CONSTANTS c1, c2

ClientSymmetry == Permutations(Clients)

(* One-shot start and the review loop up to the pull request. *)
ReviewCalls == {"start", "request-revision", "manual-edit-ack", "approve", "create-pr"}

(* The plan, its approval and the start of its execution. *)
PlanCalls == {"prepare-plan", "approve-plan", "request-plan-revision", "start"}

(* Every endpoint of the session. *)
SessionCalls == ReviewCalls \cup PlanCalls

=============================================================================
