---------------------------- MODULE MCStatistics ----------------------------
(* Statistics of two threads; latencies within and beyond the trackable range. *)
EXTENDS Statistics

MCLatencies == {0, 14, 16}
=============================================================================
