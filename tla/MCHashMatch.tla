------------------------------ MODULE MCHashMatch ------------------------------
(***************************************************************************)
(* HashMatch for TLC: three sizes, one of them beyond the limit, and two   *)
(* digests; enough lines for runs of one size inside the sorted list.      *)
(***************************************************************************)
EXTENDS HashMatch

CONSTANTS d1, d2

MCSizes == 1..3
MCDigests == {d1, d2}
MCFallback == <<2, d1>>
===============================================================================
