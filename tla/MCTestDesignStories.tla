-------------------------- MODULE MCTestDesignStories --------------------------
(* TestDesignRun for TLC: three stories that differ in their clients and in    *)
(* their key, each explored in every order of the calls.                       *)
EXTENDS MCTestDesign

VARIABLE story   \* chosen at the start: "reviewed", "shared" or "keyless"

Shared  == INSTANCE TestDesignRun WITH Calls <- StoryCalls
Keyless == INSTANCE TestDesignRun WITH HasProject <- FALSE

(* Bound: a story with one run. *)
OneRun == \A r \in Runs \ {1} : runs'[r] = AbsentRun

StoriesInit == Init /\ story \in {"reviewed", "shared", "keyless"}

(* One run through every endpoint. *)
ReviewedStep == story = "reviewed" /\ Next /\ OneRun /\ UNCHANGED story

(* Two runs that feed one backlog. *)
SharedStep == story = "shared" /\ Shared!Next /\ UNCHANGED story

(* One run of a story without a project, through every endpoint. *)
KeylessStep == story = "keyless" /\ Keyless!Next /\ OneRun /\ UNCHANGED story

StoriesNext == ReviewedStep \/ SharedStep \/ KeylessStep

StoriesSpec == StoriesInit /\ [][StoriesNext]_<<vars, story>>

================================================================================
