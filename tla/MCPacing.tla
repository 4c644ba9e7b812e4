------------------------------ MODULE MCPacing ------------------------------
(* Pacing with a clock of a few ticks; the constants are in the cfg files. *)
EXTENDS Pacing
=============================================================================
