---------------------------- MODULE MCFileEvents ----------------------------
(* FileEvents on two threads; the constants are in the cfg files. *)
EXTENDS FileEvents
=============================================================================
