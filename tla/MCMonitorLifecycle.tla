-------------------------- MODULE MCMonitorLifecycle --------------------------
(***************************************************************************)
(* Instances of MonitorLifecycle for TLC.                                  *)
(***************************************************************************)
EXTENDS MonitorLifecycle, TLC

CONSTANTS p1, p2, sAll, sOne, sBad

\* Two valid selectors, the second narrower, and one that does not parse.
MCSpecs   == {sAll, sOne, sBad}
MCSelects == (sAll :> Pods) @@ (sOne :> {p1})

Symmetry ==
    Permutations(Keys) \cup Permutations(Loops) \cup Permutations(Streams)
=============================================================================
