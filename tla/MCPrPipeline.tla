------------------------------ MODULE MCPrPipeline ------------------------------
(* Instances of PrPipeline for TLC: where attempts fail. *)
EXTENDS PrPipeline

(* Every step may return an error but the last, which only writes the rows. *)
AllButStore == Steps \ {"store"}

(* The second commit to the base branch touches the files of the patch. *)
SecondConflicts == {2}

=================================================================================
