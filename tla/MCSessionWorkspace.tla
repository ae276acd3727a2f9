--------------------------- MODULE MCSessionWorkspace ---------------------------
(* An instance of SessionWorkspace for TLC: the commands that may fail. *)
EXTENDS SessionWorkspace

(* npm includes its validation, bootstrap the detection of the framework. *)
Commands == {"prepare", "clone", "checkout", "bootstrap", "npm", "browser", "reapply"}

(* The second commit of the target branch is to files that engines edit. *)
SecondTouches == {2}

=============================================================================
