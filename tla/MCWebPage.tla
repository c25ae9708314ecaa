----------------------------- MODULE MCWebPage -----------------------------
(***************************************************************************)
(* WebPage for TLC: two scans, so that a start may be refused and a reply  *)
(* about the first may arrive during the second, and one reload.           *)
(***************************************************************************)
EXTENDS WebPage

MCMaxScans == 2
MCMaxReloads == 1
=============================================================================
