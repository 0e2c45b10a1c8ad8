------------------------------ MODULE MCEventBus ------------------------------
(* EventBus for TLC. *)
EXTENDS EventBus, TLC

ThreadSymmetry == Permutations(Threads)
===============================================================================
