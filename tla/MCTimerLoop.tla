----------------------------- MODULE MCTimerLoop ------------------------------
(* Instances of TimerLoop for TLC. *)
EXTENDS TimerLoop
===============================================================================
