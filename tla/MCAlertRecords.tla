---------------------------- MODULE MCAlertRecords ----------------------------
(***************************************************************************)
(* Instances of AlertRecords for TLC: every rule name of up to three       *)
(* characters, and longer ones with a run of other characters, a leading   *)
(* gap or both.                                                            *)
(***************************************************************************)
EXTENDS AlertRecords

MCLong == {<<"l", "x", "x", "l">>, <<"x", "x", "l", "-", "l">>,
           <<"l", "x", "x", "-", "l">>, <<"x", "x", "l", "l", "x", "x">>}

MCRuleNames == MCLong \cup UNION {[1..k -> Classes] : k \in 0..3}
=============================================================================
