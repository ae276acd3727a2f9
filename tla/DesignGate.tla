------------------------------- MODULE DesignGate -------------------------------
(***************************************************************************)
(* What the workflow promises about the test cases of a story: each        *)
(* request for the approval of a run is decided once; a case enters the    *)
(* backlog only by the approval of a run and stays as it was recorded; it  *)
(* is automated once, after it has been published.                         *)
(***************************************************************************)
CONSTANTS Run, Request, Case

VARIABLES
    decision,    \* of each request of a run: "open", "approved" or "rejected"
    origin,      \* the run that recorded each case, NoRun while it is not there
    published,   \* cases that have a Jira issue
    automated    \* cases that have an automation session

gateVars == <<decision, origin, published, automated>>

CONSTANT NoRun

GateInit ==
    /\ decision = [r \in Run |-> [k \in Request |-> "open"]]
    /\ origin = [i \in Case |-> NoRun]
    /\ published = {}
    /\ automated = {}

(* Approval records the cases that no earlier run recorded, and publishes. *)
ApproveRun(r, k) ==
    /\ decision[r][k] = "open"
    /\ decision' = [decision EXCEPT ![r][k] = "approved"]
    /\ \E S \in SUBSET Case :
          /\ origin' = [i \in Case |-> IF i \in S /\ origin[i] = NoRun THEN r ELSE origin[i]]
          /\ \E T \in SUBSET S : published' = published \cup T
    /\ UNCHANGED automated

RejectRun(r, k) ==
    /\ decision[r][k] = "open"
    /\ decision' = [decision EXCEPT ![r][k] = "rejected"]
    /\ UNCHANGED <<origin, published, automated>>

PublishCases ==
    /\ \E S \in SUBSET {i \in Case : origin[i] # NoRun} : published' = published \cup S
    /\ UNCHANGED <<decision, origin, automated>>

AutomateCase(i) ==
    /\ i \in published \ automated
    /\ automated' = automated \cup {i}
    /\ UNCHANGED <<decision, origin, published>>

GateNext ==
    \/ \E r \in Run, k \in Request : ApproveRun(r, k) \/ RejectRun(r, k)
    \/ PublishCases
    \/ \E i \in Case : AutomateCase(i)

GateSpec == GateInit /\ [][GateNext]_gateVars

=============================================================================
