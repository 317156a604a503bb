---------------------------- MODULE MCLimiterCalls ----------------------------
(***************************************************************************)
(* Instances of LimiterCalls for TLC: a key with limit 2 and period 2 that *)
(* two goroutines ask for, and one with limit 1 and period 1.              *)
(***************************************************************************)
EXTENDS LimiterCalls, TLC

CONSTANTS k1, k2, c1, c2, c3

MCKeys    == {k1, k2}
MCLimit   == [k \in MCKeys |-> IF k = k1 THEN 2 ELSE 1]
MCPeriod  == [k \in MCKeys |-> IF k = k1 THEN 2 ELSE 1]
MCCallers == {c1, c2, c3}
MCKey     == [c \in MCCallers |-> IF c = c3 THEN k2 ELSE k1]

SameKey   == Permutations({c1, c2})
=============================================================================
