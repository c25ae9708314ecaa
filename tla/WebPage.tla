------------------------------ MODULE WebPage ------------------------------
(***************************************************************************)
(* The page of the web GUI (src/gui_web/assets/index.html) and the server  *)
(* it talks to, request by request: what the page believes of a scan is    *)
(* what replies tell it, they arrive in any order, and one whose body is   *)
(* not JSON tells it nothing.  The server's threads are in WebGui; here a  *)
(* request is handled in one step.                                         *)
(***************************************************************************)
EXTENDS Naturals

CONSTANTS
  MaxScans,   \* bound: scans started
  MaxReloads  \* bound: times the user reloads the page

NoScan == 0
Scans == 1..MaxScans

VARIABLES
  scanning, polling,   \* the page: scanning, and whether pollTimer is set
  selected,            \* the page: currentDevice() is there and scannable
  banner,              \* the scan whose verdict is shown
  requests,            \* requests on their way to the server
  replies,             \* replies on their way to the page
  scans,               \* scans started by the server
  busy, done, result,  \* gui_web_app_t
  reloads              \* history

page == <<scanning, polling, selected, banner>>
server == <<scans, busy, done, result>>
vars == <<page, requests, replies, server, reloads>>

Requests == {"devices", "scan", "progress", "cancel", "report"}

(***************************************************************************)
(* The bodies whose length the server gives as a number: the length of the *)
(* text, and the number given, which decides how many bytes are sent.      *)
(***************************************************************************)
Text == [started |-> 20, cancelled |-> 15, running |-> 37, notFound |-> 28,
         noMemory |-> 25, noThread |-> 39, noScan |-> 29, noReport |-> 34,
         noDevices |-> 30, garbled |-> 32]
Sent == [started |-> 21, cancelled |-> 16, running |-> 39, notFound |-> 29,
         noMemory |-> 26, noThread |-> 41, noScan |-> 30, noReport |-> 35,
         noDevices |-> 30, garbled |-> 32]

\* What is sent beyond the text begins with its terminating NUL, which no JSON
\* text may be followed by: response.json() rejects.  The other bodies are sent
\* with the length the writer or strlen gives.
Readable(body) == body \in DOMAIN Text => Sent[body] = Text[body]

Reply(to, ok, body, scan) == [to |-> to, ok |-> ok, body |-> body, scan |-> scan]

Init ==
  /\ scanning = FALSE /\ polling = FALSE /\ selected = FALSE /\ banner = NoScan
  /\ requests = {"devices"} /\ replies = {}
  /\ scans = 0 /\ busy = FALSE /\ done = FALSE /\ result = NoScan
  /\ reloads = 0

-----------------------------------------------------------------------------
(* The user and the timer.                                                 *)

\* startScan: the page is switched over before the server has answered.
StartScan ==
  /\ ~scanning /\ selected
  /\ scanning' = TRUE /\ banner' = NoScan
  /\ requests' = requests \cup {"scan"}
  /\ UNCHANGED <<polling, selected, replies, server, reloads>>

CancelScan ==
  /\ scanning
  /\ requests' = requests \cup {"cancel"}
  /\ UNCHANGED <<page, replies, server, reloads>>

Refresh ==
  /\ ~scanning
  /\ requests' = requests \cup {"devices"}
  /\ UNCHANGED <<page, replies, server, reloads>>

\* pollProgress, every 350 ms whether or not the last one was answered.
Poll ==
  /\ polling
  /\ requests' = requests \cup {"progress"}
  /\ UNCHANGED <<page, replies, server, reloads>>

Reload ==
  /\ reloads < MaxReloads /\ reloads' = reloads + 1
  /\ scanning' = FALSE /\ polling' = FALSE /\ selected' = FALSE /\ banner' = NoScan
  /\ requests' = {"devices"} /\ replies' = {}
  /\ UNCHANGED server

-----------------------------------------------------------------------------
(* The server.                                                             *)

Answer(to, ok, body, scan) ==
  /\ requests' = requests \ {to}
  /\ replies' = replies \cup {Reply(to, ok, body, scan)}

\* handle_devices: the list has a scannable device or none, or there is no list.
ServeDevices ==
  /\ "devices" \in requests
  /\ \/ \E body \in {"some", "none"} : Answer("devices", TRUE, body, NoScan)
     \/ \E body \in {"noDevices", "garbled"} : Answer("devices", FALSE, body, NoScan)
  /\ UNCHANGED <<page, server, reloads>>

\* handle_scan_start.
ServeScan ==
  /\ "scan" \in requests
  /\ \/ /\ busy /\ Answer("scan", FALSE, "running", NoScan)
        /\ UNCHANGED server
     \/ /\ ~busy /\ UNCHANGED server
        /\ \E body \in {"notFound", "noMount", "noMemory"} : Answer("scan", FALSE, body, NoScan)
     \/ /\ ~busy /\ Answer("scan", FALSE, "noThread", NoScan)
        /\ done' = FALSE /\ result' = NoScan
        /\ UNCHANGED <<scans, busy>>
     \/ /\ ~busy /\ scans < MaxScans
        /\ Answer("scan", TRUE, "started", NoScan)
        /\ scans' = scans + 1 /\ busy' = TRUE /\ done' = FALSE /\ result' = NoScan
  /\ UNCHANGED <<page, reloads>>

\* handle_progress; done without a result is told as an error.
ServeProgress ==
  /\ "progress" \in requests
  /\ Answer("progress", TRUE,
            IF ~done THEN "going" ELSE IF result = NoScan THEN "failed" ELSE "done", NoScan)
  /\ UNCHANGED <<page, server, reloads>>

\* handle_cancel; what the scan makes of it is in WebGui.
ServeCancel ==
  /\ "cancel" \in requests
  /\ Answer("cancel", TRUE, "cancelled", NoScan)
  /\ UNCHANGED <<page, server, reloads>>

\* handle_report.
ServeReport ==
  /\ "report" \in requests
  /\ IF ~done \/ result = NoScan
       THEN Answer("report", FALSE, "noScan", NoScan)
       ELSE \/ Answer("report", TRUE, "report", result)
            \/ Answer("report", FALSE, "noReport", NoScan)
  /\ UNCHANGED <<page, server, reloads>>

\* on_scan_done, with or without a result.
ScanDone ==
  /\ busy
  /\ busy' = FALSE /\ done' = TRUE /\ result' \in {scans, NoScan}
  /\ UNCHANGED <<page, requests, replies, scans, reloads>>

-----------------------------------------------------------------------------
(* A reply arrives.                                                        *)

Take(r) == r \in replies /\ replies' = replies \ {r} /\ UNCHANGED <<server, reloads>>

\* api() rejects, and no caller of it catches: the reply is lost on the page.
\* cancelScan does not look at its reply in any case.
Unheard(r) ==
  /\ ~Readable(r.body) \/ r.to = "cancel"
  /\ Take(r)
  /\ UNCHANGED <<page, requests>>

Devices(r) ==
  /\ r.to = "devices" /\ Readable(r.body)
  /\ Take(r)
  /\ selected' = IF r.ok THEN r.body = "some" ELSE selected
  /\ UNCHANGED <<scanning, polling, banner, requests>>

\* The rest of startScan.
Started(r) ==
  /\ r.to = "scan" /\ Readable(r.body)
  /\ Take(r)
  /\ IF r.ok THEN polling' = TRUE /\ UNCHANGED scanning
             ELSE scanning' = FALSE /\ UNCHANGED polling
  /\ UNCHANGED <<selected, banner, requests>>

\* The rest of pollProgress, which at the end asks for the report and the devices.
Progress(r) ==
  /\ r.to = "progress" /\ Readable(r.body)
  /\ Take(r)
  /\ IF r.body = "going" THEN UNCHANGED <<scanning, polling, requests>>
     ELSE /\ polling' = FALSE /\ scanning' = FALSE
          /\ requests' = requests \cup {"devices"}
                           \cup {q \in {"report"} : r.body = "done"}
  /\ UNCHANGED <<selected, banner>>

\* The rest of loadReport.
Report(r) ==
  /\ r.to = "report" /\ Readable(r.body)
  /\ Take(r)
  /\ banner' = IF r.ok THEN r.scan ELSE banner
  /\ UNCHANGED <<scanning, polling, selected, requests>>

-----------------------------------------------------------------------------
User == StartScan \/ CancelScan \/ Refresh \/ Reload
Serve == ServeDevices \/ ServeScan \/ ServeProgress \/ ServeCancel \/ ServeReport
Hear == \E r \in replies : Unheard(r) \/ Devices(r) \/ Started(r) \/ Progress(r) \/ Report(r)

Next == User \/ Poll \/ Serve \/ ScanDone \/ Hear

Spec == Init /\ [][Next]_vars

(***************************************************************************)
(* The timer fires, each request is answered and each reply delivered, and *)
(* scans end; the user need not do anything.                               *)
(***************************************************************************)
FairSpec ==
  /\ Spec
  /\ WF_vars(Poll) /\ WF_vars(ScanDone)
  /\ WF_vars(ServeDevices) /\ WF_vars(ServeScan) /\ WF_vars(ServeProgress)
  /\ WF_vars(ServeCancel) /\ WF_vars(ServeReport)
  /\ \A to \in Requests : SF_vars(\E r \in replies :
       r.to = to /\ (Unheard(r) \/ Devices(r) \/ Started(r) \/ Progress(r) \/ Report(r)))

-----------------------------------------------------------------------------
(* Properties.                                                             *)

\* "Pick a device, Scan, watch progress, Cancel to stop early, the same ...
\* verdict banner": a page that says "Scanning..." while the server scans comes
\* to an end of it some day, since scans end and it asks after them.
ScanIsWatched == (scanning /\ busy) ~> ~scanning
=============================================================================
