------------------------------ MODULE MCExecutor ------------------------------
(* Instances of Executor for TLC. *)
EXTENDS Executor
===============================================================================
