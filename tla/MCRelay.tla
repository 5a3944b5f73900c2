------------------------------- MODULE MCRelay -------------------------------
(* Three handlers: two of one session, which are interchangeable, and one  *)
(* of another, with a deadline.                                            *)
EXTENDS Relay, TLC

CONSTANTS h1, h2, h3

TwoSessions == [h \in Handlers |-> IF h = h3 THEN "k2" ELSE "k1"]

Interchangeable == Permutations({h1, h2})
=============================================================================
