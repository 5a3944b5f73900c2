----------------------------- MODULE MCZeroClaw -----------------------------
EXTENDS ZeroClaw, TLC

CONSTANTS c1, c2, c3

(* The rush: every request is of one sender.                               *)
OneSender == [c \in Callers |-> "a"]

(* The neighbours: c2 uses the probe connection, the others a cached one.  *)
TwoSenders == [c \in Callers |-> IF c = c2 THEN "" ELSE "a"]

Interchangeable == Permutations(Callers)
=============================================================================
