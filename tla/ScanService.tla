----------------------------- MODULE ScanService -----------------------------
(***************************************************************************)
(* What both graphical front ends promise of their scans (src/gui and      *)
(* src/gui_web, each over src/gui/gui_worker.c): scans run one at a time,  *)
(* each ends once and in a way it was really given reason to, a result is  *)
(* presented only of the scan last started, and it stays up until the next *)
(* scan starts or the program closes.                                      *)
(***************************************************************************)
EXTENDS Naturals

CONSTANT MaxScans   \* bound: scans started

Scans == 1..MaxScans
NoScan == 0

VARIABLES
  started,    \* scans started so far
  running,    \* the scan that runs, or NoScan
  asked,      \* scans a cancel was asked for while they ran
  how,        \* how each scan ended
  presented,  \* the scan whose result the user is offered, or NoScan
  closed      \* the program is closing: nothing starts or ends any more

vars == <<started, running, asked, how, presented, closed>>

Init ==
  /\ started = 0 /\ running = NoScan /\ asked = {}
  /\ how = [s \in Scans |-> "none"]
  /\ presented = NoScan /\ closed = FALSE

Start ==
  /\ ~closed /\ running = NoScan /\ started < MaxScans
  /\ started' = started + 1
  /\ running' = started'
  /\ presented' = NoScan
  /\ UNCHANGED <<asked, how, closed>>

AskCancel ==
  /\ ~closed /\ running # NoScan
  /\ asked' = asked \cup {running}
  /\ UNCHANGED <<started, running, how, presented, closed>>

\* on_done: the result is handed over, or there is none.
End ==
  /\ ~closed /\ running # NoScan
  /\ \E h \in {"completed", "removed", "failed"}
                \cup {c \in {"cancelled"} : running \in asked} :
       /\ how' = [how EXCEPT ![running] = h]
       /\ presented' = IF h = "failed" THEN NoScan ELSE running
  /\ running' = NoScan
  /\ UNCHANGED <<started, asked, closed>>

\* The front end goes away; a scan may be left behind unfinished.
Close ==
  /\ ~closed
  /\ closed' = TRUE /\ presented' = NoScan
  /\ UNCHANGED <<started, running, asked, how>>

Next == Start \/ AskCancel \/ End \/ Close

Spec == Init /\ [][Next]_vars
=============================================================================
