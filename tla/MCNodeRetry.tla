---------------------------- MODULE MCNodeRetry ----------------------------
(* Three calls for TLC: two share a rate limit, one is tried once.         *)
EXTENDS NodeRetry

CONSTANTS c1, c2, c3

Attempts == [c \in Calls |-> IF c = c3 THEN 1 ELSE 2]
Rates == [c \in Calls |-> IF c = c3 THEN 0 ELSE 1]
=============================================================================
