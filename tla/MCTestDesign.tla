------------------------------ MODULE MCTestDesign ------------------------------
(* Instances of TestDesignRun for TLC: which operations clients use. *)
EXTENDS TestDesignRun

(* Two runs of the story: reviewed from Jira and decided either way. *)
StoryCalls ==
    {"poll", "create-workspace", "start", "analyze", "evolve", "approve",
     "approve-design", "reject", "publish", "publish-case", "automate"}

===============================================================================
