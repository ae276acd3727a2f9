-------------------------------- MODULE PrGate --------------------------------
(***************************************************************************)
(* What the automation control plane promises about pull requests, whatever*)
(* the rounds, plans, patches and engines behind it: test code reaches a   *)
(* pull request only after a reviewer approved it, a reviewer approves only*)
(* when the latest test run passed, nothing is published on a failing run, *)
(* and a published session is final.                                       *)
(***************************************************************************)
VARIABLES
    phase,    \* where the work stands
    passed    \* the latest test run passed

Phases == {"working", "in_review", "approved", "published"}

GateTypeOK == phase \in Phases /\ passed \in BOOLEAN

GateInit == phase = "working" /\ passed = FALSE

(* Work on the code, with or without a test run; it may lose the review. *)
Work == phase \in {"working", "in_review"} /\ phase' = "working" /\ passed' \in BOOLEAN

(* Code whose latest run passed is put to the reviewer. *)
Submit == phase \in {"working", "in_review"} /\ phase' = "in_review" /\ passed' = TRUE

Approve == phase # "published" /\ passed /\ phase' = "approved" /\ UNCHANGED passed

(* The pull request is opened on a passing run: the reviewed one or a newer. *)
Publish == phase = "approved" /\ phase' = "published" /\ passed' = TRUE

(* Publication fails: it may be tried again, or the work is resumed. *)
Retreat == phase = "approved" /\ phase' \in {"approved", "working"} /\ passed' \in BOOLEAN

GateNext == Work \/ Submit \/ Approve \/ Publish \/ Retreat

GateSpec == GateInit /\ [][GateNext]_<<phase, passed>>

=============================================================================
