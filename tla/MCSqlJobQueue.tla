---------------------------- MODULE MCSqlJobQueue ----------------------------
(* SqlJobQueue for TLC: interchangeable handler threads. *)
EXTENDS SqlJobQueue, TLC

ThreadSymmetry == Permutations(Pollers) \cup Permutations(Writers)
===============================================================================
