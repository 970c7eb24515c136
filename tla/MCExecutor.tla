----------------------------- MODULE MCExecutor -----------------------------
(* Instances of Executor: harts as model values, a handful of tasks.        *)
EXTENDS Executor
=============================================================================
