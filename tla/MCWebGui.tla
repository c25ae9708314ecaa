------------------------------ MODULE MCWebGui ------------------------------
(***************************************************************************)
(* WebGui for TLC: two scans of up to two files (one after another, or the *)
(* second while the first is ending), and a shutdown that gives up after   *)
(* one poll.                                                               *)
(***************************************************************************)
EXTENDS WebGui

MCMaxScans == 2
MCMaxFiles == 2
MCMaxPolls == 1
=============================================================================
