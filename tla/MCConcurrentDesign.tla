--------------------------- MODULE MCConcurrentDesign ---------------------------
(* Instances of ConcurrentDesign for TLC: which requests overlap. *)
EXTENDS ConcurrentDesign

CONSTANTS c1, c2

TwoClients == {c1, c2}

(* A run of either mode, reviewed in Jira and in the UI, decided and published. *)
RunCalls ==
    {"poll", "create-workspace", "start", "evolve", "revise-cases", "comment",
     "process-comments", "approve", "reject", "publish", "publish-case", "automate"}

PublishCalls == {"poll", "start", "approve", "publish", "publish-case"}

=============================================================================
