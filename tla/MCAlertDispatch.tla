--------------------------- MODULE MCAlertDispatch ---------------------------
(***************************************************************************)
(* Instances of AlertDispatch for TLC.                                     *)
(***************************************************************************)
EXTENDS AlertDispatch, TLC

CONSTANTS c1, c2

MCOne == <<c1>>
MCTwo == <<c1, c2>>

Symmetry == Permutations(Dispatches)
=============================================================================
