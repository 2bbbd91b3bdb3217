---------------------------- MODULE MCPilotAgent ----------------------------
(***************************************************************************)
(* PilotAgent on small instances.  The identifiers are model values and    *)
(* interchangeable: no action or property orders them.                     *)
(***************************************************************************)
EXTENDS PilotAgent, TLC

Symmetry == Permutations(Spends) \cup Permutations(OutTasks) \cup Permutations(InTasks)
===============================================================================
