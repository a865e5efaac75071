---------------------------- MODULE MCScheduler ----------------------------
(***************************************************************************)
(* A small instance of Scheduler: three levels and two tasks besides the   *)
(* ones the constructor makes, so that two tasks compete on one level while *)
(* a third one outranks them.                                              *)
(***************************************************************************)
EXTENDS Scheduler

============================================================================
