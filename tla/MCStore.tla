------------------------------- MODULE MCStore -------------------------------
(***************************************************************************)
(* Store for TLC: two processes, and two devices "usb:A" and "usb:B",      *)
(* written short as u:A and u:B: the colon is escaped in directory names.  *)
(***************************************************************************)
EXTENDS Store

CONSTANTS p1, p2

MCTwoProcs == {p1, p2}
MCApart == {<<"u", ":", "A">>, <<"u", ":", "B">>}
MCSafe(c) == c \in {"u", "A", "B", "_", "3"}
MCHex(c) == <<"_", "3", "A">>
MCNoFaults == {}
MCFaults == {"create", "write", "rename", "list"}
=============================================================================
