-------------------------- MODULE MCContentIdentity --------------------------
(* ContentIdentity for TLC: a1 and a2 are encodings of the same music. *)
EXTENDS ContentIdentity, TLC

CONSTANTS a1, a2, b

MCPrintOf(a) == IF a = b THEN "fb" ELSE "fa"
PathSymmetry == Permutations(Paths)
===============================================================================
