------------------------------ MODULE MCWinGui ------------------------------
(***************************************************************************)
(* WinGui for TLC: a stick with two volumes and a fixed volume, so that the*)
(* identity of a volume is not its name, one insertion shows as two        *)
(* volumes, and "Show all drives" shows something that must never be       *)
(* scanned unasked.  The auto-scan set has room for that stick and no more.*)
(***************************************************************************)
EXTENDS WinGui

CONSTANTS a1, a2, c1, Stick, Fixed, None

MCVolumes == {a1, a2, c1}
MCIds == {Stick, Fixed}
MCIdentity == [v \in Volumes |-> IF v = c1 THEN Fixed ELSE Stick]
MCRank == [v \in Volumes |-> CASE v = a1 -> 1 [] v = a2 -> 2 [] v = c1 -> 3]
MCUsbIds == {Stick}
Perhaps == {TRUE, FALSE}
=============================================================================
