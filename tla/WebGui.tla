------------------------------- MODULE WebGui -------------------------------
(***************************************************************************)
(* The web GUI's server process (src/gui_web, src/app_gui_web/main.c): one *)
(* thread accepts connections and runs the route handlers to their end,    *)
(* one detached worker thread per scan runs gui_worker_run, and            *)
(* gui_web_app_t, guarded by one mutex, is what they share.  Each action is*)
(* one critical section of that mutex or what a thread does between two.   *)
(*                                                                         *)
(* A scan is known by its number.  Result pointers are scan numbers too,   *)
(* NoResult standing for NULL, and heap is the set of results allocated.   *)
(***************************************************************************)
EXTENDS Naturals, FiniteSets

CONSTANTS
  MaxScans,  \* bound: scans started
  MaxFiles,  \* bound: files one scan walks
  MaxPolls   \* MAX_WAIT_MS / POLL_MS of gui_web_app_shutdown

ASSUME BoundsAssumption ==
  MaxScans \in Nat /\ MaxFiles \in Nat /\ MaxPolls \in Nat

Scans == 1..MaxScans
NoResult == 0
Requests == {"start", "progress", "cancel", "report", "other"}

VARIABLES
  pc,          \* the server thread: see TypeOK
  request,     \* the request being handled
  stop,        \* g_stop_requested, set by SIGINT or SIGTERM
  polls,       \* waited_ms of gui_web_app_shutdown, in polls
  building,    \* handle_report's result pointer, used without the mutex
  busy, cancelFlag, progress, done, doneStatus, doneResult, \* gui_web_app_t
  worker,      \* per scan, where its thread is
  files,       \* per scan, how many files its thread has walked
  outcome,     \* per scan, how its result says it ended
  heap,        \* results allocated and not freed
  written,     \* report files written or tried: <<scan, format>>
  scans,       \* history: scans started so far
  asked,       \* history: scans a cancel was accepted for
  shown        \* history: the report last sent to a client

app == <<busy, cancelFlag, progress, done, doneStatus, doneResult>>
server == <<pc, request, polls, building>>
threads == <<worker, files, outcome, written>>
history == <<scans, asked, shown>>
vars == <<server, stop, app, threads, heap, history>>

\* Threads that will still call back into the app.
Active == {s \in Scans : worker[s] \in {"scanning", "saving", "finishing"}}
\* gui_web_app_free has not run yet.
AppExists == pc \notin {"freed", "exited", "killed"}

Init ==
  /\ pc = "loop" /\ request = "other" /\ stop = FALSE /\ polls = 0
  /\ building = NoResult
  /\ busy = FALSE /\ cancelFlag = FALSE /\ progress = 0
  /\ done = FALSE /\ doneStatus = "OK" /\ doneResult = NoResult
  /\ worker = [s \in Scans |-> "none"]
  /\ files = [s \in Scans |-> 0]
  /\ outcome = [s \in Scans |-> "none"]
  /\ heap = {} /\ written = {}
  /\ scans = 0 /\ asked = {} /\ shown = NoResult

-----------------------------------------------------------------------------
(* http_server_run.                                                        *)

\* A signal, at any time.
Signal ==
  /\ ~stop /\ pc \notin {"exited", "killed"}
  /\ stop' = TRUE
  /\ UNCHANGED <<server, app, threads, heap, history>>

\* Head of the loop: stop_requested is looked at, then select waits a second.
LoopStops ==
  /\ pc = "loop" /\ stop
  /\ pc' = "shutdown"
  /\ UNCHANGED <<request, polls, building, stop, app, threads, heap, history>>

LoopSelects ==
  /\ pc = "loop" /\ ~stop
  /\ pc' = "select"
  /\ UNCHANGED <<request, polls, building, stop, app, threads, heap, history>>

\* select times out or is interrupted, or nobody connected for so long that
\* the idle timeout ends the server, or a client is accepted.
SelectTimesOut ==
  /\ pc = "select"
  /\ pc' \in {"loop", "shutdown"}
  /\ UNCHANGED <<request, polls, building, stop, app, threads, heap, history>>

Accept ==
  /\ pc = "select"
  /\ pc' = "recv"
  /\ UNCHANGED <<request, polls, building, stop, app, threads, heap, history>>

\* handle_one_connection blocks in recv until the client has sent a whole
\* request or has gone away; a silent client keeps it there.
Receive ==
  /\ pc = "recv"
  /\ request' \in Requests
  /\ pc' = "handle"
  /\ UNCHANGED <<polls, building, stop, app, threads, heap, history>>

ClientGone ==
  /\ pc = "recv"
  /\ pc' = "loop"
  /\ UNCHANGED <<request, polls, building, stop, app, threads, heap, history>>

\* send_all to a client that has reset the connection raises SIGPIPE, which
\* nothing ignores or handles: the process dies, and its memory with it.
BrokenPipe ==
  /\ pc \in {"recv", "handle", "find", "spawn", "build"}
  /\ pc' = "killed"
  /\ building' = NoResult /\ doneResult' = NoResult /\ heap' = {}
  /\ UNCHANGED <<request, polls, stop, busy, cancelFlag, progress, done,
                 doneStatus, threads, history>>

-----------------------------------------------------------------------------
(* The route handlers.                                                     *)

\* Index page, device list, refused and unknown requests: no shared state.
HandleOther ==
  /\ pc = "handle" /\ request = "other"
  /\ pc' = "loop"
  /\ UNCHANGED <<request, polls, building, stop, app, threads, heap, history>>

\* Reads the four fields in one critical section.
HandleProgress ==
  /\ pc = "handle" /\ request = "progress"
  /\ pc' = "loop"
  /\ UNCHANGED <<request, polls, building, stop, app, threads, heap, history>>

HandleCancel ==
  /\ pc = "handle" /\ request = "cancel"
  /\ IF busy THEN cancelFlag' = TRUE /\ asked' = asked \cup {scans}
             ELSE UNCHANGED <<cancelFlag, asked>>
  /\ pc' = "loop"
  /\ UNCHANGED <<request, polls, building, stop, busy, progress, done,
                 doneStatus, doneResult, threads, heap, scans, shown>>

\* handle_scan_start, first critical section: 409 while a scan runs.
StartRefused ==
  /\ pc = "handle" /\ request = "start" /\ busy
  /\ pc' = "loop"
  /\ UNCHANGED <<request, polls, building, stop, app, threads, heap, history>>

\* Mutant: the "already running" answer is left to the page.
StartAlways ==
  /\ pc = "handle" /\ request = "start"
  /\ pc' = "find"
  /\ UNCHANGED <<request, polls, building, stop, app, threads, heap, history>>

StartAllowed ==
  /\ pc = "handle" /\ request = "start" /\ ~busy
  /\ pc' = "find"
  /\ UNCHANGED <<request, polls, building, stop, app, threads, heap, history>>

\* No such device, no mount point, or no memory for the thread's context.
StartFindsNothing ==
  /\ pc = "find"
  /\ pc' = "loop"
  /\ UNCHANGED <<request, polls, building, stop, app, threads, heap, history>>

\* Mutant: the previous cancel request is not cleared.
StartKeepsCancel ==
  /\ pc = "find" /\ scans < MaxScans
  /\ scans' = scans + 1
  /\ heap' = heap \ {doneResult}
  /\ doneResult' = NoResult
  /\ progress' = 0
  /\ busy' = TRUE /\ done' = FALSE /\ doneStatus' = "OK"
  /\ pc' = "spawn"
  /\ UNCHANGED <<request, polls, building, stop, cancelFlag, threads, asked,
                 shown>>

\* Mutant: the previous progress is not cleared.
StartKeepsProgress ==
  /\ pc = "find" /\ scans < MaxScans
  /\ scans' = scans + 1
  /\ heap' = heap \ {doneResult}
  /\ doneResult' = NoResult /\ cancelFlag' = FALSE
  /\ busy' = TRUE /\ done' = FALSE /\ doneStatus' = "OK"
  /\ pc' = "spawn"
  /\ UNCHANGED <<request, polls, building, stop, progress, threads, asked,
                 shown>>

\* Mutant: free_done_result_locked forgets to free the result itself.
StartLeaks ==
  /\ pc = "find" /\ scans < MaxScans
  /\ scans' = scans + 1
  /\ doneResult' = NoResult
  /\ cancelFlag' = FALSE /\ progress' = 0
  /\ busy' = TRUE /\ done' = FALSE /\ doneStatus' = "OK"
  /\ pc' = "spawn"
  /\ UNCHANGED <<request, polls, building, stop, threads, heap, asked, shown>>

\* Second critical section: the app is reset for the new scan.
StartResets ==
  /\ pc = "find" /\ scans < MaxScans
  /\ scans' = scans + 1
  /\ heap' = heap \ {doneResult}
  /\ doneResult' = NoResult
  /\ cancelFlag' = FALSE /\ progress' = 0
  /\ busy' = TRUE /\ done' = FALSE /\ doneStatus' = "OK"
  /\ pc' = "spawn"
  /\ UNCHANGED <<request, polls, building, stop, threads, asked, shown>>

\* pthread_create, and the third critical section when it fails.
StartSpawns ==
  /\ pc = "spawn"
  /\ worker' = [worker EXCEPT ![scans] = "scanning"]
  /\ pc' = "loop"
  /\ UNCHANGED <<request, polls, building, stop, app, files, outcome, written,
                 heap, history>>

\* Mutant: busy is not taken back.
StartSpawnFailsBusy ==
  /\ pc = "spawn"
  /\ pc' = "loop"
  /\ UNCHANGED <<request, polls, building, stop, app, threads, heap, history>>

StartSpawnFails ==
  /\ pc = "spawn"
  /\ busy' = FALSE
  /\ pc' = "loop"
  /\ UNCHANGED <<request, polls, building, stop, cancelFlag, progress, done,
                 doneStatus, doneResult, threads, heap, history>>

\* handle_report: the pointer is read under the mutex...
ReportTaken ==
  /\ pc = "handle" /\ request = "report"
  /\ IF done /\ doneResult # NoResult
       THEN building' = doneResult /\ pc' = "build"
       ELSE pc' = "loop" /\ UNCHANGED building
  /\ UNCHANGED <<request, polls, stop, app, threads, heap, history>>

\* ... and the report is built and sent without it.
ReportSent ==
  /\ pc = "build"
  /\ shown' = building
  /\ building' = NoResult
  /\ pc' = "loop"
  /\ UNCHANGED <<request, polls, stop, app, threads, heap, scans, asked>>

-----------------------------------------------------------------------------
(* A scan's thread: gui_worker_run and its callbacks.                      *)

\* The scan walks a file and reports it (on_scan_progress).  The cancel check
\* of the same round found the flag clear.
WorkerFile(s) ==
  /\ worker[s] = "scanning" /\ AppExists
  /\ ~cancelFlag /\ files[s] < MaxFiles
  /\ files' = [files EXCEPT ![s] = @ + 1]
  /\ progress' = files'[s]
  /\ UNCHANGED <<server, stop, busy, cancelFlag, done, doneStatus, doneResult,
                 worker, outcome, written, heap, history>>

\* The scan ends: at the end of the volume, with the device pulled, or
\* because the cancel check saw the flag.
WorkerScanned(s) ==
  /\ worker[s] = "scanning" /\ AppExists
  /\ worker' = [worker EXCEPT ![s] = "saving"]
  /\ \E how \in {"completed", "removed"}
                  \cup {c \in {"cancelled"} : cancelFlag} :
       outcome' = [outcome EXCEPT ![s] = how]
  /\ heap' = heap \cup {s}
  /\ UNCHANGED <<server, stop, app, files, written, history>>

\* gui_worker_run has no memory for the result: on_done with NULL.
WorkerNoMemory(s) ==
  /\ worker[s] = "scanning" /\ AppExists
  /\ files[s] = 0
  /\ worker' = [worker EXCEPT ![s] = "finishing"]
  /\ UNCHANGED <<server, stop, app, files, outcome, written, heap, history>>

\* Mutant: the app is told first, the reports are written afterwards.
WorkerSavesLater(s) ==
  /\ worker[s] = "saving" /\ AppExists
  /\ worker' = [worker EXCEPT ![s] = "finishing"]
  /\ UNCHANGED <<server, stop, app, files, outcome, written, heap, history>>

\* save_scan_reports: JSON, then CSV; one that fails does not stop the other.
WorkerSaves(s) ==
  /\ worker[s] = "saving" /\ AppExists
  /\ written' = written \cup {<<s, "json">>, <<s, "csv">>}
  /\ worker' = [worker EXCEPT ![s] = "finishing"]
  /\ UNCHANGED <<server, stop, app, files, outcome, heap, history>>

\* The critical section of on_scan_done; the thread then ends by itself.
WorkerDone(s) ==
  /\ worker[s] = "finishing" /\ AppExists
  /\ LET result == IF s \in heap THEN s ELSE NoResult
     IN  /\ heap' = heap \ ({doneResult} \ {result})
         /\ doneResult' = result
         /\ doneStatus' = IF result = s THEN "OK" ELSE "NO_MEMORY"
  /\ done' = TRUE /\ busy' = FALSE
  /\ worker' = [worker EXCEPT ![s] = "ended"]
  /\ UNCHANGED <<server, stop, cancelFlag, progress, files, outcome, written,
                 history>>

Worker(s) == WorkerFile(s) \/ WorkerScanned(s) \/ WorkerNoMemory(s)
               \/ WorkerSaves(s) \/ WorkerDone(s)

-----------------------------------------------------------------------------
(* Shutdown.                                                               *)

\* gui_web_app_shutdown asks the scan to stop...
ShutdownAsks ==
  /\ pc = "shutdown"
  /\ cancelFlag' = (cancelFlag \/ busy)
  /\ asked' = IF busy THEN asked \cup {scans} ELSE asked
  /\ pc' = "poll"
  /\ UNCHANGED <<request, polls, building, stop, busy, progress, done,
                 doneStatus, doneResult, threads, heap, scans, shown>>

\* Mutant: shutdown waits for the scan without a bound.
ShutdownPollsForever ==
  /\ pc = "poll" /\ ~busy
  /\ pc' = "free"
  /\ UNCHANGED <<request, polls, building, stop, app, threads, heap, history>>

\* ... and polls for it, MaxPolls times at most.
ShutdownPolls ==
  /\ pc = "poll"
  /\ IF busy /\ polls < MaxPolls
       THEN polls' = polls + 1 /\ UNCHANGED pc
       ELSE pc' = "free" /\ UNCHANGED polls
  /\ UNCHANGED <<request, building, stop, app, threads, heap, history>>

\* gui_web_app_free.
Free ==
  /\ pc = "free"
  /\ heap' = heap \ {doneResult}
  /\ doneResult' = NoResult
  /\ pc' = "freed"
  /\ UNCHANGED <<request, polls, building, stop, busy, cancelFlag, progress,
                 done, doneStatus, threads, history>>

\* main returns; a thread still alive dies with the process.
Exit ==
  /\ pc = "freed"
  /\ pc' = "exited"
  /\ UNCHANGED <<request, polls, building, stop, app, threads, heap, history>>

-----------------------------------------------------------------------------
Handlers ==
  \/ HandleOther \/ HandleProgress \/ HandleCancel
  \/ StartRefused \/ StartAllowed \/ StartFindsNothing \/ StartResets
  \/ StartSpawns \/ StartSpawnFails
  \/ ReportTaken \/ ReportSent

Shutdown == ShutdownAsks \/ ShutdownPolls \/ Free \/ Exit

Loop == LoopStops \/ LoopSelects \/ SelectTimesOut \/ Accept

Next ==
  \/ Signal
  \/ Loop \/ Receive \/ ClientGone \/ BrokenPipe
  \/ Handlers \/ Shutdown
  \/ \E s \in Scans : Worker(s)

Spec == Init /\ [][Next]_vars

(***************************************************************************)
(* The server thread runs: select returns within a second, a handler goes  *)
(* on to its end.  Whether a scan runs on, or hangs in a read, and whether *)
(* a client ever speaks, is left open: a property that needs it says so.   *)
(***************************************************************************)
ServerFairness == WF_vars(Loop) /\ WF_vars(Handlers) /\ WF_vars(Shutdown)
WorkerFairness == \A s \in Scans : WF_vars(Worker(s))
ClientFairness == WF_vars(Receive \/ ClientGone)

FairSpec == Spec /\ ServerFairness

-----------------------------------------------------------------------------
(* Properties.                                                             *)

\* The app's fields, the threads' states and the report pointer, which is set
\* exactly while a report is being built.
TypeOK ==
  /\ pc \in {"loop", "select", "recv", "handle", "find", "spawn", "build",
             "shutdown", "poll", "free", "freed", "exited", "killed"}
  /\ request \in Requests /\ stop \in BOOLEAN /\ polls \in 0..MaxPolls
  /\ building \in Scans \cup {NoResult}
  /\ building # NoResult <=> pc = "build"
  /\ busy \in BOOLEAN /\ cancelFlag \in BOOLEAN /\ done \in BOOLEAN
  /\ progress \in Nat
  /\ doneStatus \in {"OK", "NO_MEMORY"}
  /\ doneResult \in Scans \cup {NoResult}
  /\ worker \in [Scans -> {"none", "scanning", "saving", "finishing", "ended"}]
  /\ files \in [Scans -> Nat]
  /\ outcome \in [Scans -> {"none", "completed", "cancelled", "removed"}]
  /\ heap \subseteq Scans /\ written \subseteq Scans \X {"json", "csv"}
  /\ scans \in 0..MaxScans /\ asked \subseteq Scans
  /\ shown \in Scans \cup {NoResult}

\* busy is exactly "one scan will still call back": the check-then-act of
\* handle_scan_start over two critical sections lets no second scan in.
OneScan ==
  AppExists =>
    /\ Active \subseteq {scans}
    /\ busy <=> (Active # {} \/ pc = "spawn")

\* handle_report reads *result without the mutex, while on_scan_done and the
\* next scan free results: the one it holds stays allocated.
ReportPointerLive == pc = "build" => building \in heap

\* Results are neither leaked nor freed twice: those allocated are the one the
\* app shows and the one a worker is about to hand over.
HeapExact ==
  AppExists =>
    heap = ({doneResult} \ {NoResult}) \cup
           {s \in Scans : worker[s] \in {"saving", "finishing"} /\ outcome[s] # "none"}

\* A report sent to the page is the one of the scan last started, never of an
\* older scan.
ReportIsCurrent == pc = "build" => building = scans

\* When the page can see that a scan is done, its files have been written: the
\* report on disk is a side effect of scanning, never of viewing.
SavedBeforeShown ==
  doneResult # NoResult => {doneResult} \X {"json", "csv"} \subseteq written

\* A cancel stops the scan it was accepted for and no later one.
CancelledWasAsked == \A s \in Scans : outcome[s] = "cancelled" => s \in asked

\* The progress shown while a scan runs is that scan's.
ProgressBelongsToScan == busy /\ AppExists => progress <= files[scans]

\* Unless it hangs, a scan that was started is over some day, and a failed
\* start does not leave the app busy, whatever the clients do.
ScanEnds == WorkerFairness => (busy ~> (~busy \/ ~AppExists))

\* A request to stop ends the process, a hanging scan notwithstanding, as long
\* as no client connects and then stays silent for ever, and every client reads
\* its reply (a handler's send_all is part of its step here; it has no timeout).
StopEnds == ClientFairness => (stop ~> (pc \in {"exited", "killed"}))

\* The server keeps what a scan service promises: see ScanService.  A start
\* whose thread could not be created is a scan that failed.
Service == INSTANCE ScanService WITH
  started   <- scans,
  running   <- IF busy THEN scans ELSE NoResult,
  how       <- [s \in Scans |->
                  IF worker[s] = "ended"
                    THEN IF outcome[s] = "none" THEN "failed" ELSE outcome[s]
                    ELSE IF worker[s] = "none" /\ s <= scans /\ ~(busy /\ s = scans)
                      THEN "failed" ELSE "none"],
  presented <- doneResult,
  closed    <- ~AppExists

ImplementsScanService == Service!Spec
=============================================================================
