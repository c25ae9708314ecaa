-------------------------------- MODULE MCJson --------------------------------
(***************************************************************************)
(* Json for TLC: two levels of nesting instead of 32, and items that have  *)
(* to grow with the second one already.                                    *)
(***************************************************************************)
EXTENDS Json

MCMaxDepth == 2
MCFirstCapacity == 1
MCMaxText == 8
MCMaxDamages == 1
===============================================================================
