---------------------------- MODULE MCConnection ----------------------------
(* Connection with the symmetry of its runs: connections and descriptors are alike. *)
EXTENDS ConnectionTurns, TLC

Symmetry == Permutations(Conn) \cup Permutations(Fd)
=============================================================================
