---------------------------- MODULE MCRuntimeRun ----------------------------
(* Instances of RuntimeRun for TLC: an agent is called once, a skill twice. *)
EXTENDS RuntimeRun

Attempts == [n \in Nodes |-> IF n = "agent" THEN 1 ELSE 2]
=============================================================================
