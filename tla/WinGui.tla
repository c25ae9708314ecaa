------------------------------- MODULE WinGui -------------------------------
(***************************************************************************)
(* The Windows GUI (src/gui/gui_window.c over src/gui/gui_worker.c): one   *)
(* window procedure that takes messages one at a time, one worker thread   *)
(* per scan that talks to it through posted messages only, and sticks that *)
(* come and go.                                                            *)
(*                                                                         *)
(* A scan is known by its number.  A volume shown in the device list is a  *)
(* member of Volumes; Rank gives the order the volumes are enumerated in,  *)
(* Identity the device identity, which the volumes of one stick share.     *)
(***************************************************************************)
EXTENDS Naturals, Sequences, FiniteSets

CONSTANTS
  Volumes, Ids, NoVolume, NoId,
  Identity,      \* [Volumes -> Ids], usbs_device_identity
  Rank,          \* [Volumes -> Nat], enumeration order
  UsbIds,        \* identities of USB devices; the other volumes stay attached
  TrackMax,      \* GUI_AUTO_SCAN_TRACK_MAX
  EnumOutcomes,  \* whether usbs_device_enumerate succeeds
  StartOutcomes, \* whether store, allocation and thread of a start succeed
  PostOutcomes,  \* whether the payload of WM_APP_SCAN_DONE is delivered
  MaxScans,      \* bound: scans started
  MaxFiles,      \* bound: files one scan walks
  MaxPlugs       \* bound: times a stick is plugged in

ASSUME VolumesAssumption ==
  /\ NoVolume \notin Volumes /\ NoId \notin Ids
  /\ Identity \in [Volumes -> Ids]
  /\ Rank \in [Volumes -> Nat]
  /\ \A v, w \in Volumes : Rank[v] = Rank[w] => v = w
  /\ UsbIds \subseteq Ids

ASSUME WinGuiAssumption ==
  /\ TrackMax \in Nat /\ MaxScans \in Nat /\ MaxFiles \in Nat /\ MaxPlugs \in Nat
  /\ EnumOutcomes \subseteq BOOLEAN /\ StartOutcomes \subseteq BOOLEAN
  /\ PostOutcomes \subseteq BOOLEAN

Scans == 1..MaxScans
NoScan == 0

VARIABLES
  ui,            \* "pump": taking messages; "join": waiting for the thread
                 \* in handle_scan_done; "closed": the window is gone
  plugged,       \* volumes attached
  changes,       \* WM_DEVICECHANGE notifications not handled yet
  queue,         \* messages the worker has posted, oldest first
  devices, selected, tracked,      \* gui_state_t: list, combo, auto-scan set
  autoScan, showAll,               \* gui_state_t: the two check boxes
  scanning, thread, cancelFlag,    \* gui_state_t
  finalProgress, lastProgress,     \* gui_state_t
  banner,        \* the scan whose verdict is shown
  worker, walked, outcome,         \* per scan: its thread, files, result
  scans,         \* history: scans started so far
  asked,         \* history: scans a cancel was asked for
  handled,       \* history: scans whose result was handled and saved
  autoRuns,      \* history: per identity, auto-scans since it was plugged in
  plugs          \* history: times a stick was plugged in

world   == <<plugged, changes, plugs>>
listing == <<devices, selected, tracked>>
boxes   == <<autoScan, showAll>>
scanState == <<scanning, thread, cancelFlag, finalProgress, lastProgress, banner>>
threads == <<worker, walked, outcome>>
history == <<scans, asked, handled, autoRuns>>
vars == <<ui, world, queue, listing, boxes, scanState, threads, history>>

Progress(s, n) == [kind |-> "progress", scan |-> s, files |-> n]
Done(s) == [kind |-> "done", scan |-> s, files |-> 0]

First(S) == CHOOSE v \in S : \A w \in S : Rank[v] <= Rank[w]
FirstOrNone(S) == IF S = {} THEN NoVolume ELSE First(S)
IdsOf(S) == {Identity[v] : v \in S}
Usb(S) == {v \in S : Identity[v] \in UsbIds}

\* Mutant: the tracked set is pruned even when the enumeration failed.
ListedPruned(all, ok) ==
  LET shown == IF ok THEN IF all THEN plugged ELSE Usb(plugged) ELSE {}
      same  == {v \in shown : selected # NoVolume /\ Identity[v] = Identity[selected]}
  IN  [devices  |-> shown,
       selected |-> FirstOrNone(IF same = {} THEN shown ELSE same),
       tracked  |-> tracked \cap IdsOf(shown)]

\* Mutant: a failed enumeration leaves the selection where it was.
ListedKeepsSelection(all, ok) ==
  LET shown == IF all THEN plugged ELSE Usb(plugged)
      same  == {v \in shown : selected # NoVolume /\ Identity[v] = Identity[selected]}
  IN  IF ok THEN [devices  |-> shown,
                  selected |-> FirstOrNone(IF same = {} THEN shown ELSE same),
                  tracked  |-> tracked \cap IdsOf(shown)]
      ELSE [devices |-> {}, selected |-> selected, tracked |-> tracked]

\* populate_devices: the new list, the selection restored by identity, and
\* the auto-scan set without the identities that are gone.
Listed(all, ok) ==
  LET shown == IF all THEN plugged ELSE Usb(plugged)
      same  == {v \in shown : selected # NoVolume /\ Identity[v] = Identity[selected]}
  IN  IF ok THEN [devices  |-> shown,
                  selected |-> FirstOrNone(IF same = {} THEN shown ELSE same),
                  tracked  |-> tracked \cap IdsOf(shown)]
      ELSE [devices |-> {}, selected |-> NoVolume, tracked |-> tracked]

Init ==
  /\ ui = "pump"
  /\ plugged \in {{v \in Volumes : Identity[v] \notin UsbIds}, Volumes}
  /\ changes = 0 /\ queue = <<>> /\ plugs = 0
  /\ devices = Usb(plugged) /\ selected = FirstOrNone(Usb(plugged))
  /\ tracked = {}
  /\ autoScan = FALSE /\ showAll = FALSE
  /\ scanning = FALSE /\ thread = NoScan /\ cancelFlag = FALSE
  /\ finalProgress = 0 /\ lastProgress = 0 /\ banner = NoScan
  /\ worker = [s \in Scans |-> "none"]
  /\ walked = [s \in Scans |-> 0]
  /\ outcome = [s \in Scans |-> "none"]
  /\ scans = 0 /\ asked = {} /\ handled = {}
  /\ autoRuns = [id \in Ids |-> 0]

-----------------------------------------------------------------------------
(* Sticks come and go; each arrival and removal is notified.               *)

PlugIn(id) ==
  /\ id \in UsbIds /\ id \notin IdsOf(plugged)
  /\ plugs < MaxPlugs
  /\ plugs' = plugs + 1
  /\ plugged' = plugged \cup {v \in Volumes : Identity[v] = id}
  /\ changes' = changes + 1
  /\ autoRuns' = [autoRuns EXCEPT ![id] = 0]
  /\ UNCHANGED <<ui, queue, listing, boxes, scanState, threads, scans, asked,
                 handled>>

PullOut(id) ==
  /\ id \in UsbIds \cap IdsOf(plugged)
  /\ plugged' = {v \in plugged : Identity[v] # id}
  /\ changes' = changes + 1
  /\ UNCHANGED <<ui, queue, plugs, listing, boxes, scanState, threads, history>>

-----------------------------------------------------------------------------
(* The window procedure.                                                   *)

\* Mutant: the cancel flag of the previous scan is not cleared.
StartedKeepsCancel ==
  /\ scans < MaxScans
  /\ scans' = scans + 1
  /\ thread' = scans' /\ scanning' = TRUE
  /\ worker' = [worker EXCEPT ![scans'] = "scanning"]
  /\ finalProgress' = 0 /\ lastProgress' = 0
  /\ banner' = NoScan
  /\ UNCHANGED cancelFlag

\* start_scan_for_device when nothing fails: the thread runs from here on, the
\* old verdict comes down.
Started ==
  /\ scans < MaxScans
  /\ scans' = scans + 1
  /\ thread' = scans' /\ scanning' = TRUE
  /\ worker' = [worker EXCEPT ![scans'] = "scanning"]
  /\ cancelFlag' = FALSE
  /\ finalProgress' = 0 /\ lastProgress' = 0
  /\ banner' = NoScan

\* The store or the allocation fails before anything is reset, or the thread
\* fails after.
NotStarted ==
  /\ \/ UNCHANGED <<cancelFlag, finalProgress>>
     \/ cancelFlag' = FALSE /\ finalProgress' = 0
  /\ UNCHANGED <<scanning, thread, lastProgress, banner, worker, scans>>

ClickScan ==
  /\ ui = "pump" /\ ~scanning
  /\ selected # NoVolume
  /\ \/ TRUE \in StartOutcomes /\ Started
     \/ FALSE \in StartOutcomes /\ NotStarted
  /\ UNCHANGED <<ui, world, queue, listing, boxes, walked, outcome, asked,
                 handled, autoRuns>>

ClickCancel ==
  /\ ui = "pump" /\ scanning
  /\ cancelFlag' = TRUE
  /\ asked' = asked \cup {scans}
  /\ UNCHANGED <<ui, world, queue, listing, boxes, scanning, thread,
                 finalProgress, lastProgress, banner, threads, scans, handled,
                 autoRuns>>

\* The user picks a device; the combo box is disabled during a scan.
Select(v) ==
  /\ ui = "pump" /\ ~scanning
  /\ v \in devices
  /\ selected' = v
  /\ UNCHANGED <<ui, world, queue, devices, tracked, boxes, scanState, threads,
                 history>>

ClickRefresh ==
  /\ ui = "pump" /\ ~scanning
  /\ \E ok \in EnumOutcomes :
       LET l == Listed(showAll, ok)
       IN  devices' = l.devices /\ selected' = l.selected /\ tracked' = l.tracked
  /\ UNCHANGED <<ui, world, queue, boxes, scanState, threads, history>>

ToggleAllDrives ==
  /\ ui = "pump" /\ ~scanning
  /\ showAll' = ~showAll
  /\ \E ok \in EnumOutcomes :
       LET l == Listed(showAll', ok)
       IN  devices' = l.devices /\ selected' = l.selected /\ tracked' = l.tracked
  /\ UNCHANGED <<ui, world, queue, autoScan, scanState, threads, history>>

ToggleAutoScan ==
  /\ ui = "pump"
  /\ autoScan' = ~autoScan
  /\ UNCHANGED <<ui, world, queue, listing, showAll, scanState, threads, history>>

\* handle_device_change during a scan: nothing.
IgnoreChange ==
  /\ ui = "pump" /\ changes > 0 /\ scanning
  /\ changes' = changes - 1
  /\ UNCHANGED <<ui, plugged, plugs, queue, listing, boxes, scanState, threads,
                 history>>

\* What comes of a rebuilt list l: with auto-scan on, the first USB device whose
\* identity is not tracked is tracked and scanned.  auto_scan_set_add stops
\* tracking new identities when the set is full.
AutoScanned(l) ==
  LET new == {v \in Usb(l.devices) : Identity[v] \notin l.tracked}
      id  == Identity[First(new)]
  IN  IF autoScan /\ new # {}
        THEN /\ tracked' = IF Cardinality(l.tracked) < TrackMax
                             THEN l.tracked \cup {id} ELSE l.tracked
             /\ \/ /\ TRUE \in StartOutcomes /\ Started
                   /\ autoRuns' = [autoRuns EXCEPT ![id] = @ + 1]
                \/ /\ FALSE \in StartOutcomes /\ NotStarted
                   /\ UNCHANGED autoRuns
        ELSE /\ tracked' = l.tracked
             /\ UNCHANGED <<scanState, worker, scans, autoRuns>>

\* handle_device_change otherwise: the list is rebuilt.
HandleChange ==
  /\ ui = "pump" /\ changes > 0 /\ ~scanning
  /\ changes' = changes - 1
  /\ \E ok \in EnumOutcomes :
       LET l == Listed(showAll, ok)
       IN  devices' = l.devices /\ selected' = l.selected /\ AutoScanned(l)
  /\ UNCHANGED <<ui, plugged, plugs, queue, boxes, walked, outcome, asked, handled>>

HandleProgress ==
  /\ ui = "pump" /\ queue # <<>> /\ Head(queue).kind = "progress"
  /\ lastProgress' = Head(queue).files
  /\ queue' = Tail(queue)
  /\ UNCHANGED <<ui, world, listing, boxes, scanning, thread, cancelFlag,
                 finalProgress, banner, threads, history>>

\* handle_scan_done takes the message and waits for the thread ...
TakeDone ==
  /\ ui = "pump" /\ queue # <<>> /\ Head(queue).kind = "done"
  /\ ui' = "join"
  /\ UNCHANGED <<world, queue, listing, boxes, scanState, threads, history>>

\* Mutant: the thread is left to end by itself.
HandleDoneNoJoin ==
  /\ ui = "join"
  /\ queue' = Tail(queue) /\ ui' = "pump"
  /\ thread' = NoScan /\ scanning' = FALSE
  /\ lastProgress' = finalProgress
  /\ LET s == Head(queue).scan
     IN  /\ banner' = IF outcome[s] = "failed" THEN NoScan ELSE s
         /\ handled' = handled \cup {s}
  /\ UNCHANGED <<world, listing, boxes, cancelFlag, finalProgress, threads,
                 scans, asked, autoRuns>>

\* Mutant: a scan without a result is joined and then forgotten.
HandleDoneForgets ==
  /\ ui = "join" /\ worker[thread] = "returned"
  /\ queue' = Tail(queue) /\ ui' = "pump"
  /\ thread' = NoScan
  /\ scanning' = (outcome[Head(queue).scan] = "failed")
  /\ lastProgress' = finalProgress
  /\ LET s == Head(queue).scan
     IN  /\ banner' = IF outcome[s] = "failed" THEN NoScan ELSE s
         /\ handled' = handled \cup {s}
  /\ UNCHANGED <<world, listing, boxes, cancelFlag, finalProgress, threads,
                 scans, asked, autoRuns>>

\* ... and then shows and saves what it was handed.
HandleDone ==
  /\ ui = "join" /\ worker[thread] = "returned"
  /\ queue' = Tail(queue) /\ ui' = "pump"
  /\ thread' = NoScan /\ scanning' = FALSE
  /\ lastProgress' = finalProgress
  /\ LET s == Head(queue).scan
     IN  /\ banner' = IF outcome[s] = "failed" THEN NoScan ELSE s
         /\ handled' = handled \cup {s}
  /\ UNCHANGED <<world, listing, boxes, cancelFlag, finalProgress, threads,
                 scans, asked, autoRuns>>

\* WM_CLOSE is refused during a scan; on_destroy joins a thread if there is one.
Close ==
  /\ ui = "pump" /\ ~scanning
  /\ thread # NoScan => worker[thread] = "returned"
  /\ ui' = "closed"
  /\ UNCHANGED <<world, queue, listing, boxes, scanState, threads, history>>

-----------------------------------------------------------------------------
(* The worker thread.                                                      *)

\* Mutant: the count is recorded after the throttle, with the update posted.
WorkerFileThrottled(s) ==
  /\ worker[s] = "scanning" /\ ~cancelFlag /\ walked[s] < MaxFiles
  /\ walked' = [walked EXCEPT ![s] = @ + 1]
  /\ \/ /\ finalProgress' = walked'[s]
        /\ queue' = Append(queue, Progress(s, walked'[s]))
     \/ UNCHANGED <<queue, finalProgress>>
  /\ UNCHANGED <<ui, world, listing, boxes, scanning, thread, cancelFlag,
                 lastProgress, banner, worker, outcome, history>>

\* A file walked: gui_on_progress records the count, then posts it unless the
\* throttle, the allocation or the message queue drops it.
WorkerFile(s) ==
  /\ worker[s] = "scanning" /\ ~cancelFlag /\ walked[s] < MaxFiles
  /\ walked' = [walked EXCEPT ![s] = @ + 1]
  /\ finalProgress' = walked'[s]
  /\ queue' \in {queue, Append(queue, Progress(s, walked'[s]))}
  /\ UNCHANGED <<ui, world, listing, boxes, scanning, thread, cancelFlag,
                 lastProgress, banner, worker, outcome, history>>

\* The scan ends; no memory for its result is the way it can fail.
WorkerScanned(s) ==
  /\ worker[s] = "scanning"
  /\ \E how \in {"completed", "removed"}
                  \cup {c \in {"cancelled"} : cancelFlag}
                  \cup {f \in {"failed"} : walked[s] = 0} :
       outcome' = [outcome EXCEPT ![s] = how]
  /\ worker' = [worker EXCEPT ![s] = "posting"]
  /\ UNCHANGED <<ui, world, queue, listing, boxes, scanState, walked, history>>

\* Mutant: the result overtakes the progress messages.
WorkerSendsDone(s) ==
  /\ worker[s] = "posting"
  /\ queue' = <<Done(s)>> \o queue
  /\ worker' = [worker EXCEPT ![s] = "posted"]
  /\ UNCHANGED <<ui, world, listing, boxes, scanState, walked, outcome, history>>

\* gui_on_done; a payload that cannot be allocated or posted is dropped, and
\* the window is never told.
WorkerPosts(s) ==
  /\ worker[s] = "posting"
  /\ \E delivered \in PostOutcomes :
       queue' = IF delivered THEN Append(queue, Done(s)) ELSE queue
  /\ worker' = [worker EXCEPT ![s] = "posted"]
  /\ UNCHANGED <<ui, world, listing, boxes, scanState, walked, outcome, history>>

WorkerReturns(s) ==
  /\ worker[s] = "posted"
  /\ worker' = [worker EXCEPT ![s] = "returned"]
  /\ UNCHANGED <<ui, world, queue, listing, boxes, scanState, walked, outcome,
                 history>>

Worker(s) == WorkerFile(s) \/ WorkerScanned(s) \/ WorkerPosts(s) \/ WorkerReturns(s)

-----------------------------------------------------------------------------
Pump == HandleProgress \/ TakeDone \/ HandleDone

User ==
  \/ ClickScan \/ ClickCancel \/ ClickRefresh
  \/ ToggleAllDrives \/ ToggleAutoScan \/ Close
  \/ \E v \in Volumes : Select(v)

Device == HandleChange \/ IgnoreChange \/ \E id \in UsbIds : PlugIn(id) \/ PullOut(id)

Next == Pump \/ User \/ Device \/ \E s \in Scans : Worker(s)

Spec == Init /\ [][Next]_vars

\* The message loop takes posted messages, and threads run.
FairSpec ==
  Spec /\ WF_vars(Pump) /\ \A s \in Scans : WF_vars(Worker(s))

-----------------------------------------------------------------------------
(* Properties.                                                             *)

\* The types of the device list, ...
DeviceTypes ==
  /\ plugged \subseteq Volumes /\ changes \in Nat /\ plugs \in 0..MaxPlugs
  /\ devices \subseteq Volumes /\ selected \in devices \cup {NoVolume}
  /\ tracked \subseteq Ids
  /\ autoScan \in BOOLEAN /\ showAll \in BOOLEAN
  /\ autoRuns \in [Ids -> Nat]

\* ... of what the window knows of its scan ...
WindowTypes ==
  /\ ui \in {"pump", "join", "closed"}
  /\ scanning \in BOOLEAN /\ cancelFlag \in BOOLEAN
  /\ thread \in Scans \cup {NoScan} /\ banner \in Scans \cup {NoScan}
  /\ finalProgress \in Nat /\ lastProgress \in Nat
  /\ scans \in 0..MaxScans /\ asked \subseteq Scans /\ handled \subseteq Scans

\* ... and of the threads and their messages.
WorkerTypes ==
  /\ queue \in Seq([kind : {"progress", "done"}, scan : Scans, files : Nat])
  /\ worker \in [Scans -> {"none", "scanning", "posting", "posted", "returned"}]
  /\ walked \in [Scans -> Nat]
  /\ outcome \in [Scans -> {"none", "completed", "removed", "cancelled", "failed"}]

\* The window's fields; the selection is in the list, so that the index the
\* combo box holds is always within state->devices.
TypeOK == DeviceTypes /\ WindowTypes /\ WorkerTypes

\* A thread that has not returned is the one the window will join: nothing it
\* writes (final_progress) can meet a read of the window procedure, and the
\* window state cannot be freed under it.
WorkersJoined ==
  \A s \in Scans :
    worker[s] \notin {"none", "returned"} => scanning /\ thread = s /\ ui # "closed"

\* A verdict on display is that of the scan last started, and none is up while
\* a scan runs ("no longer true of the scan now running"); with it goes the true
\* count of files, not the one the throttled live updates happened to leave.
BannerIsCurrent ==
  /\ scanning => banner = NoScan
  /\ banner # NoScan =>
       /\ banner = scans /\ outcome[banner] \notin {"none", "failed"}
       /\ lastProgress = walked[banner]

\* Messages waiting are those of the scan that runs, the result last: no
\* progress update is handled after the result of its scan.
NoStaleMessage ==
  /\ queue # <<>> => scanning
  /\ \A i \in DOMAIN queue :
       /\ queue[i].scan = scans
       /\ queue[i].kind = "done" => i = Len(queue)

\* One insertion of a stick starts at most one automatic scan, however many
\* volumes and notifications it comes with, failed enumerations included.
AutoScanOnce == \A id \in Ids : autoRuns[id] <= 1

\* The result message of the scan was dropped: its thread has returned, and
\* nothing tells the window.
ResultLost ==
  /\ ui = "pump" /\ thread # NoScan /\ worker[thread] = "returned"
  /\ \A i \in DOMAIN queue : queue[i].kind # "done"

\* A scan that was started is shown as over some day; only the loss of the one
\* message that carries its result can leave the window in "scanning".
ScanningEnds == scanning ~> (~scanning \/ ResultLost)

\* The window keeps what a scan service promises: see ScanService.
Service == INSTANCE ScanService WITH
  started   <- scans,
  running   <- IF scanning THEN scans ELSE NoScan,
  how       <- [s \in Scans |-> IF s \in handled THEN outcome[s] ELSE "none"],
  presented <- IF ui = "closed" THEN NoScan ELSE banner,
  closed    <- ui = "closed"

ImplementsScanService == Service!Spec
=============================================================================
