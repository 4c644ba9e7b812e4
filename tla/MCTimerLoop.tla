---------------------------- MODULE MCTimerLoop -----------------------------
(* TimerLoop with short periods; the constants are in the cfg files. *)
EXTENDS TimerLoop
=============================================================================
