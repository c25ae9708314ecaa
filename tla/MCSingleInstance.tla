-------------------------- MODULE MCSingleInstance --------------------------
(***************************************************************************)
(* SingleInstance for TLC: three launches, which are interchangeable.      *)
(***************************************************************************)
EXTENDS SingleInstance, TLC

CONSTANTS l1, l2, l3

MCLaunches == {l1, l2, l3}
MCSymmetry == Permutations(MCLaunches)
=============================================================================
