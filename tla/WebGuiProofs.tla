---------------------------- MODULE WebGuiProofs ----------------------------
(***************************************************************************)
(* The safety of WebGui for any number of scans, files and polls.  One     *)
(* inductive invariant ties the fields of gui_web_app_t to where the server*)
(* thread and the workers are; the checked invariants follow from it.      *)
(***************************************************************************)
EXTENDS WebGui, TLAPS

\* A thread exists only for the scans started, and once its scan is over its
\* result is allocated; a finishing thread has written what it had to write.
WorkerInv ==
  \A s \in Scans :
    /\ s > scans => worker[s] = "none"
    /\ worker[s] = "none" => files[s] = 0 /\ outcome[s] = "none"
    /\ worker[s] = "scanning" => outcome[s] = "none"
    /\ worker[s] = "saving" => outcome[s] # "none"
    /\ worker[s] = "finishing" /\ outcome[s] # "none" =>
         {s} \X {"json", "csv"} \subseteq written

\* While the app exists, its fields describe the scan last started; freeing it
\* leaves no result behind.
AppInv ==
  /\ ~AppExists => doneResult = NoResult
  /\ AppExists =>
       /\ busy => scans \in Scans
       /\ pc = "spawn" => worker[scans] = "none"
       /\ pc = "find" => ~busy
       /\ doneResult # NoResult =>
            /\ doneResult = scans /\ done /\ ~busy
            /\ {scans} \X {"json", "csv"} \subseteq written
       /\ pc = "build" => building = doneResult
       /\ busy /\ cancelFlag => scans \in asked

IInv ==
  /\ TypeOK /\ WorkerInv /\ AppInv
  /\ OneScan /\ HeapExact /\ CancelledWasAsked /\ ProgressBelongsToScan

\* The definitions every step below needs.
USE BoundsAssumption DEF Scans, NoResult

LEMMA InitIInv == Init => IInv
<1> SUFFICES ASSUME Init PROVE IInv
  OBVIOUS
<1> USE DEF Init
<1>1. TypeOK
  <2>1. 0 \in 0..MaxScans /\ 0 \in 0..MaxPolls
    OBVIOUS
  <2>2. /\ worker \in [Scans -> {"none", "scanning", "saving", "finishing", "ended"}]
        /\ outcome \in [Scans -> {"none", "completed", "cancelled", "removed"}]
        /\ files \in [Scans -> Nat]
    OBVIOUS
  <2> QED BY <2>1, <2>2 DEF TypeOK, Requests
<1>2. WorkerInv /\ CancelledWasAsked /\ ProgressBelongsToScan
  BY DEF WorkerInv, CancelledWasAsked, ProgressBelongsToScan
<1>3. AppInv
  BY DEF AppInv
<1>4. Active = {} /\ OneScan
  BY DEF OneScan, Active
<1>5. HeapExact
  BY DEF HeapExact
<1> QED BY <1>1, <1>2, <1>3, <1>4, <1>5 DEF IInv

\* Steps of the server thread that touch nothing but its own position.
LEMMA MoveStep ==
  ASSUME IInv,
         Signal \/ Loop \/ Receive \/ ClientGone \/ HandleOther
           \/ HandleProgress \/ StartRefused \/ StartAllowed \/ StartFindsNothing
           \/ Exit
  PROVE  IInv'
<1> DEFINE Moves ==
      /\ UNCHANGED <<polls, building, app, threads, heap, history>>
      /\ request' \in Requests /\ stop' \in BOOLEAN
      /\ pc' \in {pc, "loop", "select", "recv", "handle", "find", "shutdown",
                  "exited"}
      /\ pc' = "find" => ~busy
      /\ AppExists' <=> AppExists
      /\ pc' # pc => pc \notin {"build", "spawn"}
<1>0. request \in Requests /\ stop \in BOOLEAN
  BY DEF IInv, TypeOK
<1>1. Moves
  <2> USE <1>0 DEF AppExists, server
  <2>1. CASE Signal
    <3>1. pc' = "find" => ~busy
      BY <2>1 DEF Signal, IInv, AppInv
    <3> QED BY <2>1, <3>1 DEF Signal
  <2>2. CASE Loop
    BY <2>2 DEF Loop, LoopStops, LoopSelects, SelectTimesOut, Accept
  <2>3. CASE Receive
    BY <2>3 DEF Receive
  <2>4. CASE ClientGone
    BY <2>4 DEF ClientGone
  <2>5. CASE HandleOther \/ HandleProgress
    BY <2>5 DEF HandleOther, HandleProgress
  <2>6. CASE StartRefused
    BY <2>6 DEF StartRefused
  <2>7. CASE StartAllowed
    BY <2>7 DEF StartAllowed
  <2>8. CASE StartFindsNothing
    BY <2>8 DEF StartFindsNothing
  <2>9. CASE Exit
    BY <2>9 DEF Exit
  <2> QED BY <2>1, <2>2, <2>3, <2>4, <2>5, <2>6, <2>7, <2>8, <2>9
<1> HIDE DEF Moves
<1> USE <1>1 DEF Moves, IInv, AppExists, app, threads, history
<1>2. TypeOK'
  BY DEF TypeOK
<1>4. WorkerInv'
  BY DEF WorkerInv
<1>5. AppInv'
  BY DEF AppInv, TypeOK
<1>6. OneScan'
  BY DEF OneScan, Active
<1>7. HeapExact' /\ CancelledWasAsked' /\ ProgressBelongsToScan'
  BY DEF HeapExact, CancelledWasAsked, ProgressBelongsToScan
<1> QED BY <1>2, <1>4, <1>5, <1>6, <1>7

LEMMA CancelStep ==
  ASSUME IInv, HandleCancel
  PROVE  IInv'
<1> USE DEF IInv, TypeOK, Active, AppExists, server, app, threads, history
<1>1. TypeOK'
  <2>1. asked' \subseteq Scans
    BY DEF HandleCancel, AppInv
  <2> QED BY <2>1 DEF HandleCancel
<1>2. WorkerInv'
  BY DEF HandleCancel, WorkerInv, AppInv, OneScan
<1>3. AppInv'
  BY DEF HandleCancel, WorkerInv, AppInv, OneScan
<1>4. OneScan'
  BY DEF HandleCancel, WorkerInv, AppInv, OneScan
<1>5. HeapExact'
  BY DEF HandleCancel, WorkerInv, AppInv, HeapExact, OneScan
<1>6. CancelledWasAsked'
  BY DEF HandleCancel, WorkerInv, AppInv, CancelledWasAsked, OneScan
<1>7. ProgressBelongsToScan'
  BY DEF HandleCancel, WorkerInv, AppInv, ProgressBelongsToScan, OneScan
<1> QED BY <1>1, <1>2, <1>3, <1>4, <1>5, <1>6, <1>7

LEMMA ResetStep ==
  ASSUME IInv, StartResets
  PROVE  IInv'
<1> USE DEF IInv, TypeOK, Active, AppExists, server, app, threads, history
<1>1. TypeOK'
  <2>1. scans' \in 0..MaxScans
    BY DEF StartResets
  <2> QED BY <2>1 DEF StartResets
<1>2. WorkerInv'
  BY DEF StartResets, WorkerInv, AppInv, OneScan
<1>3. AppInv'
  BY DEF StartResets, WorkerInv, AppInv, OneScan
<1>4. OneScan'
  BY DEF StartResets, WorkerInv, AppInv, OneScan
<1>5. HeapExact'
  BY DEF StartResets, WorkerInv, AppInv, HeapExact, OneScan
<1>6. CancelledWasAsked'
  BY DEF StartResets, WorkerInv, AppInv, CancelledWasAsked, OneScan
<1>7. ProgressBelongsToScan'
  BY DEF StartResets, WorkerInv, AppInv, ProgressBelongsToScan, OneScan
<1> QED BY <1>1, <1>2, <1>3, <1>4, <1>5, <1>6, <1>7

LEMMA SpawnStep ==
  ASSUME IInv, StartSpawns
  PROVE  IInv'
<1> USE DEF IInv, TypeOK, Active, AppExists, server, app, threads, history
<1>1. TypeOK'
  BY DEF StartSpawns, WorkerInv, AppInv, TypeOK
<1>2. WorkerInv'
  BY DEF StartSpawns, WorkerInv, AppInv, OneScan
<1>3. AppInv'
  BY DEF StartSpawns, WorkerInv, AppInv, OneScan
<1>4. OneScan'
  BY DEF StartSpawns, WorkerInv, AppInv, OneScan
<1>5. HeapExact'
  BY DEF StartSpawns, WorkerInv, AppInv, HeapExact, OneScan
<1>6. CancelledWasAsked'
  BY DEF StartSpawns, WorkerInv, AppInv, CancelledWasAsked, OneScan
<1>7. ProgressBelongsToScan'
  BY DEF StartSpawns, WorkerInv, AppInv, ProgressBelongsToScan, OneScan
<1> QED BY <1>1, <1>2, <1>3, <1>4, <1>5, <1>6, <1>7

LEMMA SpawnFailsStep ==
  ASSUME IInv, StartSpawnFails
  PROVE  IInv'
<1> USE DEF IInv, TypeOK, Active, AppExists, server, app, threads, history
<1>1. TypeOK'
  BY DEF StartSpawnFails, WorkerInv, AppInv, TypeOK
<1>2. WorkerInv'
  BY DEF StartSpawnFails, WorkerInv, AppInv, OneScan
<1>3. AppInv'
  BY DEF StartSpawnFails, WorkerInv, AppInv, OneScan
<1>4. OneScan'
  BY DEF StartSpawnFails, WorkerInv, AppInv, OneScan
<1>5. HeapExact'
  BY DEF StartSpawnFails, WorkerInv, AppInv, HeapExact, OneScan
<1>6. CancelledWasAsked'
  BY DEF StartSpawnFails, WorkerInv, AppInv, CancelledWasAsked, OneScan
<1>7. ProgressBelongsToScan'
  BY DEF StartSpawnFails, WorkerInv, AppInv, ProgressBelongsToScan, OneScan
<1> QED BY <1>1, <1>2, <1>3, <1>4, <1>5, <1>6, <1>7

LEMMA ReportStep ==
  ASSUME IInv, ReportTaken \/ ReportSent
  PROVE  IInv'
<1> USE DEF IInv, TypeOK, Active, AppExists, server, app, threads, history
<1>0. /\ UNCHANGED <<request, polls, stop, app, threads, heap, scans, asked>>
      /\ pc' \in {"build", "loop"} /\ pc \in {"handle", "build"}
      /\ building' \in Scans \cup {NoResult} /\ shown' \in Scans \cup {NoResult}
      /\ pc' = "build" => building' = doneResult
      /\ building' # NoResult <=> pc' = "build"
  BY DEF ReportTaken, ReportSent
<1>1. TypeOK'
  BY <1>0 DEF TypeOK
<1>2. WorkerInv'
  BY <1>0 DEF WorkerInv
<1>3. AppInv'
  BY <1>0 DEF AppInv
<1>4. OneScan'
  BY <1>0 DEF OneScan
<1>5. HeapExact'
  BY <1>0 DEF HeapExact
<1>6. CancelledWasAsked'
  BY DEF ReportTaken, ReportSent, WorkerInv, AppInv, CancelledWasAsked, OneScan
<1>7. ProgressBelongsToScan'
  BY DEF ReportTaken, ReportSent, WorkerInv, AppInv, ProgressBelongsToScan,
      OneScan
<1> QED BY <1>1, <1>2, <1>3, <1>4, <1>5, <1>6, <1>7

LEMMA AsksStep ==
  ASSUME IInv, ShutdownAsks
  PROVE  IInv'
<1> USE DEF IInv, TypeOK, Active, AppExists, server, app, threads, history
<1>1. TypeOK'
  BY DEF ShutdownAsks, WorkerInv, AppInv, TypeOK
<1>2. WorkerInv'
  BY DEF ShutdownAsks, WorkerInv, AppInv, OneScan
<1>3. AppInv'
  BY DEF ShutdownAsks, WorkerInv, AppInv, OneScan
<1>4. OneScan'
  BY DEF ShutdownAsks, WorkerInv, AppInv, OneScan
<1>5. HeapExact'
  BY DEF ShutdownAsks, WorkerInv, AppInv, HeapExact, OneScan
<1>6. CancelledWasAsked'
  BY DEF ShutdownAsks, WorkerInv, AppInv, CancelledWasAsked, OneScan
<1>7. ProgressBelongsToScan'
  BY DEF ShutdownAsks, WorkerInv, AppInv, ProgressBelongsToScan, OneScan
<1> QED BY <1>1, <1>2, <1>3, <1>4, <1>5, <1>6, <1>7

LEMMA PollsOrFreesStep ==
  ASSUME IInv, ShutdownPolls \/ Free
  PROVE  IInv'
<1> USE DEF IInv, TypeOK, Active, AppExists, server, app, threads, history
<1>0. /\ UNCHANGED <<request, building, stop, busy, cancelFlag, progress, done,
                     doneStatus, threads, history>>
      /\ heap' \subseteq Scans /\ doneResult' \in {doneResult, NoResult}
      /\ pc \in {"poll", "free"} /\ pc' \in {"poll", "free", "freed"}
      /\ IF pc' = "freed" THEN doneResult' = NoResult
                          ELSE UNCHANGED <<heap, doneResult>>
  BY DEF ShutdownPolls, Free
<1>1. TypeOK'
  <2>1. polls' \in 0..MaxPolls
    BY DEF ShutdownPolls, Free
  <2> QED BY <1>0, <2>1, SMTT(30) DEF TypeOK
<1>2. WorkerInv'
  BY <1>0 DEF WorkerInv
<1>3. AppInv'
  BY <1>0 DEF AppInv
<1>4. OneScan'
  BY <1>0 DEF OneScan
<1>5. HeapExact'
  BY <1>0 DEF HeapExact
<1>6. CancelledWasAsked'
  BY <1>0 DEF CancelledWasAsked
<1>7. ProgressBelongsToScan'
  BY <1>0 DEF ProgressBelongsToScan
<1> QED BY <1>1, <1>2, <1>3, <1>4, <1>5, <1>6, <1>7

LEMMA FileStep ==
  ASSUME IInv, NEW s \in Scans, WorkerFile(s)
  PROVE  IInv'
<1> USE DEF IInv, TypeOK, Active, AppExists, server, app, threads, history
<1>1. TypeOK'
  <2>1. files' \in [Scans -> Nat] /\ progress' \in Nat
    BY DEF WorkerFile
  <2> QED BY <2>1 DEF WorkerFile
<1>2. WorkerInv'
  BY DEF WorkerFile, WorkerInv, AppInv, OneScan
<1>3. AppInv'
  BY DEF WorkerFile, WorkerInv, AppInv, OneScan
<1>4. OneScan'
  BY DEF WorkerFile, WorkerInv, AppInv, OneScan
<1>5. HeapExact'
  BY DEF WorkerFile, WorkerInv, AppInv, HeapExact, OneScan
<1>6. CancelledWasAsked'
  BY DEF WorkerFile, WorkerInv, AppInv, CancelledWasAsked, OneScan
<1>7. ProgressBelongsToScan'
  <2>1. s = scans
    BY DEF WorkerFile, OneScan
  <2>2. files'[s] = files[s] + 1 /\ files[s] \in Nat
    BY DEF WorkerFile
  <2>3. progress' = files'[s] /\ scans' = scans
    BY DEF WorkerFile
  <2> QED BY <2>1, <2>2, <2>3 DEF ProgressBelongsToScan
<1> QED BY <1>1, <1>2, <1>3, <1>4, <1>5, <1>6, <1>7

LEMMA ScannedStep ==
  ASSUME IInv, NEW s \in Scans, WorkerScanned(s)
  PROVE  IInv'
<1> USE DEF IInv, TypeOK, Active, AppExists, server, app, threads, history
<1>1. TypeOK'
  BY DEF WorkerScanned, WorkerInv, AppInv, TypeOK
<1>2. WorkerInv'
  BY DEF WorkerScanned, WorkerInv, AppInv, OneScan
<1>3. AppInv'
  BY DEF WorkerScanned, WorkerInv, AppInv, OneScan
<1>4. OneScan'
  BY DEF WorkerScanned, WorkerInv, AppInv, OneScan
<1>5. HeapExact'
  BY DEF WorkerScanned, WorkerInv, AppInv, HeapExact, OneScan
<1>6. CancelledWasAsked'
  <2>1. /\ s = scans /\ busy
        /\ asked' = asked
        /\ \A r \in Scans : r # s => outcome'[r] = outcome[r]
        /\ outcome'[s] = "cancelled" => cancelFlag
    BY DEF WorkerScanned, OneScan
  <2>2. cancelFlag => s \in asked
    BY <2>1 DEF WorkerScanned, AppInv
  <2> QED BY <2>1, <2>2 DEF CancelledWasAsked
<1>7. ProgressBelongsToScan'
  BY DEF WorkerScanned, WorkerInv, AppInv, ProgressBelongsToScan, OneScan
<1> QED BY <1>1, <1>2, <1>3, <1>4, <1>5, <1>6, <1>7

LEMMA NoMemoryStep ==
  ASSUME IInv, NEW s \in Scans, WorkerNoMemory(s)
  PROVE  IInv'
<1> USE DEF IInv, TypeOK, Active, AppExists, server, app, threads, history
<1>1. TypeOK'
  BY DEF WorkerNoMemory, WorkerInv, AppInv, TypeOK
<1>2. WorkerInv'
  BY DEF WorkerNoMemory, WorkerInv, AppInv, OneScan
<1>3. AppInv'
  BY DEF WorkerNoMemory, WorkerInv, AppInv, OneScan
<1>4. OneScan'
  BY DEF WorkerNoMemory, WorkerInv, AppInv, OneScan
<1>5. HeapExact'
  BY DEF WorkerNoMemory, WorkerInv, AppInv, HeapExact, OneScan
<1>6. CancelledWasAsked'
  BY DEF WorkerNoMemory, WorkerInv, AppInv, CancelledWasAsked, OneScan
<1>7. ProgressBelongsToScan'
  BY DEF WorkerNoMemory, WorkerInv, AppInv, ProgressBelongsToScan, OneScan
<1> QED BY <1>1, <1>2, <1>3, <1>4, <1>5, <1>6, <1>7

LEMMA SavesStep ==
  ASSUME IInv, NEW s \in Scans, WorkerSaves(s)
  PROVE  IInv'
<1> USE DEF IInv, TypeOK, Active, AppExists, server, app, threads, history
<1>1. TypeOK'
  <2>1. written' \subseteq Scans \X {"json", "csv"}
    BY DEF WorkerSaves
  <2>2. worker' \in [Scans -> {"none", "scanning", "saving", "finishing", "ended"}]
    BY DEF WorkerSaves
  <2> QED BY <2>1, <2>2 DEF WorkerSaves
<1>2. WorkerInv'
  BY DEF WorkerSaves, WorkerInv, AppInv, OneScan
<1>3. AppInv'
  BY DEF WorkerSaves, WorkerInv, AppInv, OneScan
<1>4. OneScan'
  BY DEF WorkerSaves, WorkerInv, AppInv, OneScan
<1>5. HeapExact'
  BY DEF WorkerSaves, WorkerInv, AppInv, HeapExact, OneScan
<1>6. CancelledWasAsked'
  BY DEF WorkerSaves, WorkerInv, AppInv, CancelledWasAsked, OneScan
<1>7. ProgressBelongsToScan'
  BY DEF WorkerSaves, WorkerInv, AppInv, ProgressBelongsToScan, OneScan
<1> QED BY <1>1, <1>2, <1>3, <1>4, <1>5, <1>6, <1>7

LEMMA DoneStep ==
  ASSUME IInv, NEW s \in Scans, WorkerDone(s)
  PROVE  IInv'
<1> USE DEF IInv, TypeOK, Active, AppExists, server, app, threads, history
<1>1. TypeOK'
  BY DEF WorkerDone, WorkerInv, AppInv, TypeOK
<1>2. WorkerInv'
  BY DEF WorkerDone, WorkerInv, AppInv, OneScan
<1>3. AppInv'
  <2>1. AppExists /\ s = scans /\ busy /\ pc \notin {"build", "spawn", "find"}
    BY DEF WorkerDone, OneScan, AppInv, HeapExact
  <2>2. s \in heap => {s} \X {"json", "csv"} \subseteq written
    BY <2>1 DEF WorkerDone, HeapExact, WorkerInv, AppInv
  <2> QED BY <2>1, <2>2 DEF WorkerDone, AppInv
<1>8. /\ AppExists /\ AppExists' /\ busy /\ ~busy' /\ doneResult = NoResult
      /\ pc' = pc /\ pc # "spawn" /\ s = scans /\ scans' = scans
  BY DEF WorkerDone, OneScan, AppInv
<1>9. \A t \in Scans : worker'[t] \notin {"scanning", "saving", "finishing"}
  <2>1. \A t \in Scans : t # s => worker[t] \notin {"scanning", "saving", "finishing"}
    BY <1>8 DEF OneScan
  <2> QED BY <2>1 DEF WorkerDone
<1>4. OneScan'
  BY <1>8, <1>9 DEF OneScan
<1>5. HeapExact'
  <2>1. \A t : t \in heap <=> t = s /\ outcome[s] # "none"
    BY <1>8 DEF WorkerDone, HeapExact, OneScan
  <2>2. heap' = heap /\ doneResult' = IF s \in heap THEN s ELSE NoResult
    BY <1>8, <2>1 DEF WorkerDone
  <2>3. heap' = {doneResult'} \ {NoResult}
    BY <2>1, <2>2
  <2> QED BY <1>9, <2>3 DEF HeapExact
<1>6. CancelledWasAsked'
  BY DEF WorkerDone, WorkerInv, AppInv, CancelledWasAsked, OneScan
<1>7. ProgressBelongsToScan'
  BY DEF WorkerDone, WorkerInv, AppInv, ProgressBelongsToScan, OneScan
<1> QED BY <1>1, <1>2, <1>3, <1>4, <1>5, <1>6, <1>7

LEMMA BrokenPipeStep ==
  ASSUME IInv, BrokenPipe
  PROVE  IInv'
<1> USE DEF IInv, BrokenPipe, AppExists, threads, history
<1>1. TypeOK'
  BY DEF TypeOK
<1>2. WorkerInv' /\ AppInv'
  BY DEF WorkerInv, AppInv
<1>3. OneScan' /\ HeapExact' /\ ProgressBelongsToScan' /\ CancelledWasAsked'
  BY DEF OneScan, HeapExact, ProgressBelongsToScan, CancelledWasAsked
<1> QED BY <1>1, <1>2, <1>3

LEMMA StutterStep == ASSUME IInv, UNCHANGED vars PROVE IInv'
BY DEF IInv, TypeOK, WorkerInv, AppInv, OneScan, HeapExact, CancelledWasAsked,
       ProgressBelongsToScan, Active, AppExists, vars, server, app, threads,
       history

\* The invariant is inductive.
LEMMA Invariance == Spec => []IInv
<1>1. IInv /\ [Next]_vars => IInv'
  BY MoveStep, CancelStep, ResetStep, SpawnStep, SpawnFailsStep, ReportStep,
     AsksStep, PollsOrFreesStep, FileStep, ScannedStep, NoMemoryStep, SavesStep,
     DoneStep, BrokenPipeStep, StutterStep
  DEF Next, Handlers, Shutdown, Worker
<1> QED BY InitIInv, <1>1, PTL DEF Spec

\* The app's fields stay in their types.
THEOREM TypeCorrect == Spec => []TypeOK
<1>1. IInv => TypeOK
  BY DEF IInv
<1> QED BY <1>1, Invariance, PTL

\* At most one scan runs, and busy says whether one does.
THEOREM OneScanAtATime == Spec => []OneScan
<1>1. IInv => OneScan
  BY DEF IInv
<1> QED BY <1>1, Invariance, PTL

\* The unlocked result pointer of handle_report stays valid while it is used,
\* and what it points to is the report of the scan last started.
THEOREM ReportIsSafe == Spec => [](ReportPointerLive /\ ReportIsCurrent)
<1>1. IInv => ReportPointerLive /\ ReportIsCurrent
  BY DEF IInv, TypeOK, AppInv, AppExists, HeapExact, ReportPointerLive,
         ReportIsCurrent
<1> QED BY <1>1, Invariance, PTL

\* No result is leaked and none is freed twice.
THEOREM NoLeakNoDoubleFree == Spec => []HeapExact
<1>1. IInv => HeapExact
  BY DEF IInv
<1> QED BY <1>1, Invariance, PTL

\* A report is on disk before any page can see that its scan is done.
THEOREM ReportsAreSavedFirst == Spec => []SavedBeforeShown
<1>1. IInv => SavedBeforeShown
  BY DEF IInv, AppInv, SavedBeforeShown
<1> QED BY <1>1, Invariance, PTL

\* The progress a page is shown while a scan runs was counted by that scan.
THEOREM ProgressIsOfTheScan == Spec => []ProgressBelongsToScan
<1>1. IInv => ProgressBelongsToScan
  BY DEF IInv
<1> QED BY <1>1, Invariance, PTL

\* A cancel never stops a scan it was not accepted for.
THEOREM CancelsAreAsked == Spec => []CancelledWasAsked
<1>1. IInv => CancelledWasAsked
  BY DEF IInv
<1> QED BY <1>1, Invariance, PTL

-----------------------------------------------------------------------------
(* The server is a scan service.                                           *)

Running == IF busy THEN scans ELSE NoResult
How ==
  [s \in Scans |->
     IF worker[s] = "ended"
       THEN IF outcome[s] = "none" THEN "failed" ELSE outcome[s]
       ELSE IF worker[s] = "none" /\ s <= scans /\ ~(busy /\ s = scans)
         THEN "failed" ELSE "none"]

LEMMA ServiceInit == Init => Service!Init
<1> SUFFICES ASSUME Init PROVE Service!Init
  OBVIOUS
<1>1. /\ scans = 0 /\ busy = FALSE /\ asked = {} /\ doneResult = NoResult
      /\ AppExists
  BY DEF Init, AppExists
<1>2. How = [s \in Scans |-> "none"]
  <2>1. \A s \in Scans : worker[s] = "none" /\ ~(s <= scans)
    BY <1>1 DEF Init
  <2> QED BY <2>1 DEF How
<1> QED BY <1>1, <1>2 DEF Service!Init, Service!Scans, Service!NoScan, How

\* A step that changes none of what the service shows is a stutter.
LEMMA ServiceStutter ==
  ASSUME UNCHANGED <<scans, busy, asked, doneResult>>, How' = How,
         AppExists' <=> AppExists
  PROVE  UNCHANGED Service!vars
<1>1. (~AppExists)' = ~AppExists
  BY Zenon
<1> QED BY <1>1 DEF Service!vars, How

\* The critical section that sets busy is the start.
LEMMA ServiceStart ==
  ASSUME IInv, StartResets
  PROVE  Service!Start
<1>1. /\ pc = "find" /\ pc' = "spawn" /\ scans < MaxScans /\ scans' = scans + 1
      /\ busy' /\ doneResult' = NoResult /\ UNCHANGED <<worker, outcome, asked>>
  BY DEF StartResets, threads
<1>2. AppExists /\ AppExists' /\ ~busy
  BY <1>1 DEF AppExists, IInv, AppInv
<1>3. How' = How
  <2>1. \A s \in Scans : s <= scans' <=> s <= scans \/ s = scans'
    BY <1>1 DEF IInv, TypeOK
  <2>2. \A s \in Scans : s <= scans => s # scans'
    BY <1>1 DEF IInv, TypeOK
  <2> QED BY <1>1, <1>2, <2>1, <2>2 DEF How
<1>4. Running = NoResult /\ Running' = scans'
  BY <1>1, <1>2 DEF Running
<1> QED BY <1>1, <1>2, <1>3, <1>4 DEF Service!Start, Service!NoScan, Running, How

\* The two ways a cancel reaches the flag while a scan runs.
LEMMA ServiceCancel ==
  ASSUME IInv, HandleCancel \/ ShutdownAsks
  PROVE  [Service!Next]_(Service!vars)
<1>1. /\ UNCHANGED <<busy, scans, doneResult, worker, outcome>>
      /\ asked' = IF busy THEN asked \cup {scans} ELSE asked
      /\ AppExists /\ AppExists'
  BY DEF HandleCancel, ShutdownAsks, threads, AppExists
<1>2. How' = How
  BY <1>1 DEF How
<1>3. CASE ~busy
  BY <1>1, <1>2, <1>3, ServiceStutter
<1>4. CASE busy
  <2>1. Running = scans /\ scans # NoResult /\ Running' = Running
    BY <1>1, <1>4 DEF Running, IInv, AppInv
  <2>2. Service!AskCancel
    BY <1>1, <1>2, <1>4, <2>1 DEF Service!AskCancel, Service!NoScan, Running, How
  <2> QED BY <2>2 DEF Service!Next
<1> QED BY <1>3, <1>4

\* The thread cannot be created: the scan has failed.
LEMMA ServiceSpawnFails ==
  ASSUME IInv, StartSpawnFails
  PROVE  Service!End
<1>1. /\ pc = "spawn" /\ pc' = "loop" /\ ~busy'
      /\ UNCHANGED <<scans, doneResult, worker, outcome, asked>>
  BY DEF StartSpawnFails, threads, history
<1>2. /\ AppExists /\ AppExists' /\ busy /\ scans \in Scans /\ worker[scans] = "none"
      /\ doneResult = NoResult
  BY <1>1 DEF AppExists, IInv, AppInv, OneScan
<1>3. How' = [How EXCEPT ![scans] = "failed"]
  <2>1. How'[scans] = "failed"
    BY <1>1, <1>2 DEF How
  <2>2. \A s \in Scans : s # scans => How'[s] = How[s]
    BY <1>1 DEF How
  <2>3. DOMAIN How = Scans /\ DOMAIN How' = Scans
    BY DEF How
  <2>4. How = [s \in Scans |-> How[s]] /\ How' = [s \in Scans |-> How'[s]]
    BY DEF How
  <2> HIDE DEF How
  <2> QED BY <1>2, <2>1, <2>2, <2>3, <2>4
<1>4. Running = scans /\ scans # NoResult /\ Running' = NoResult /\ doneResult' = NoResult
  BY <1>1, <1>2 DEF Running
<1> DEFINE Ways == {"completed", "removed", "failed"}
                     \cup {c \in {"cancelled"} : Running \in asked}
<1>5. \E h \in Ways : /\ How' = [How EXCEPT ![Running] = h]
                      /\ doneResult' = IF h = "failed" THEN NoResult ELSE Running
  BY <1>3, <1>4
<1> QED BY <1>1, <1>2, <1>4, <1>5 DEF Service!End, Service!NoScan, Running, How

\* on_scan_done is the end, in the way the thread found.
LEMMA ServiceDone ==
  ASSUME IInv, NEW s \in Scans, WorkerDone(s)
  PROVE  Service!End
<1>1. /\ worker[s] = "finishing" /\ worker' = [worker EXCEPT ![s] = "ended"]
      /\ doneResult' = (IF s \in heap THEN s ELSE NoResult) /\ ~busy'
      /\ pc' = pc /\ AppExists
      /\ UNCHANGED <<scans, outcome, asked>>
  BY DEF WorkerDone, server, history
<1>2. AppExists' /\ busy /\ s = scans /\ pc # "spawn"
  BY <1>1 DEF AppExists, IInv, OneScan, Active, AppInv
<1>3. s \in heap <=> outcome[s] # "none"
  BY <1>1, <1>2 DEF IInv, HeapExact, AppInv
<1>4. /\ outcome[s] \in {"none", "completed", "cancelled", "removed"}
      /\ outcome[s] = "cancelled" => s \in asked
      /\ worker'[s] = "ended"
      /\ \A t \in Scans : t # s => worker'[t] = worker[t]
  BY <1>1 DEF IInv, TypeOK, CancelledWasAsked
<1> DEFINE h == IF outcome[s] = "none" THEN "failed" ELSE outcome[s]
<1>5. How' = [How EXCEPT ![s] = h]
  BY <1>1, <1>2, <1>4 DEF How
<1>6. Running = s /\ s # NoResult /\ Running' = NoResult
  BY <1>1, <1>2 DEF Running
<1> DEFINE Ways == {"completed", "removed", "failed"}
                     \cup {c \in {"cancelled"} : Running \in asked}
<1>7. h \in Ways /\ doneResult' = IF h = "failed" THEN NoResult ELSE Running
  BY <1>1, <1>3, <1>4, <1>6
<1>8. \E w \in Ways : /\ How' = [How EXCEPT ![Running] = w]
                      /\ doneResult' = IF w = "failed" THEN NoResult ELSE Running
  BY <1>5, <1>6, <1>7
<1> QED BY <1>1, <1>2, <1>6, <1>8 DEF Service!End, Service!NoScan, Running, How

\* The app is freed, or the process dies.
LEMMA ServiceClose ==
  ASSUME IInv, Free \/ BrokenPipe
  PROVE  Service!Close
<1>1. /\ doneResult' = NoResult /\ UNCHANGED <<scans, busy, asked, worker, outcome>>
      /\ AppExists /\ ~AppExists'
  BY DEF Free, BrokenPipe, AppExists, threads, history
<1>2. UNCHANGED <<Running, How>>
  BY <1>1 DEF Running, How
<1> QED BY <1>1, <1>2 DEF Service!Close, Service!NoScan, Running, How

\* The thread is there: the service has known of the scan since busy was set.
LEMMA ServiceSpawn ==
  ASSUME IInv, StartSpawns
  PROVE  UNCHANGED Service!vars
<1>1. /\ pc = "spawn" /\ pc' = "loop"
      /\ worker' = [worker EXCEPT ![scans] = "scanning"]
      /\ UNCHANGED <<scans, busy, asked, doneResult, outcome>>
  BY DEF StartSpawns, app, history
<1>2. AppExists /\ AppExists' /\ busy /\ worker[scans] = "none" /\ scans \in Scans
  BY <1>1 DEF AppExists, IInv, AppInv, OneScan
<1>3. How' = How
  BY <1>1, <1>2 DEF How, IInv, TypeOK
<1> QED BY <1>1, <1>2, <1>3, ServiceStutter

\* The steps of a thread before its end.
LEMMA ServiceWorker ==
  ASSUME IInv, NEW s \in Scans,
         WorkerFile(s) \/ WorkerScanned(s) \/ WorkerNoMemory(s) \/ WorkerSaves(s)
  PROVE  UNCHANGED Service!vars
<1>1. /\ worker[s] \in {"scanning", "saving"}
      /\ worker' \in {worker, [worker EXCEPT ![s] = "saving"],
                      [worker EXCEPT ![s] = "finishing"]}
      /\ UNCHANGED <<scans, busy, asked, doneResult, pc>>
  BY DEF WorkerFile, WorkerScanned, WorkerNoMemory, WorkerSaves, server, app, history
<1>2. \A t \in Scans : t # s => worker'[t] = worker[t] /\ outcome'[t] = outcome[t]
  BY DEF WorkerFile, WorkerScanned, WorkerNoMemory, WorkerSaves, IInv, TypeOK
<1>3. worker'[s] \notin {"none", "ended"}
  BY <1>1 DEF IInv, TypeOK
<1>4. How' = How
  BY <1>1, <1>2, <1>3 DEF How
<1>5. AppExists' <=> AppExists
  BY <1>1 DEF AppExists
<1> QED BY <1>1, <1>4, <1>5, ServiceStutter

\* The other steps of the server thread concern itself only.
LEMMA ServiceMove ==
  ASSUME IInv,
         \/ Signal \/ Loop \/ Receive \/ ClientGone \/ HandleOther \/ HandleProgress
         \/ StartRefused \/ StartAllowed \/ StartFindsNothing
         \/ ReportTaken \/ ReportSent \/ ShutdownPolls \/ Exit \/ UNCHANGED vars
  PROVE  UNCHANGED Service!vars
<1>1. UNCHANGED <<scans, busy, asked, doneResult, worker, outcome>>
  BY DEF Signal, Loop, LoopStops, LoopSelects, SelectTimesOut, Accept, Receive,
     ClientGone, HandleOther, HandleProgress, StartRefused, StartAllowed,
     StartFindsNothing, ReportTaken, ReportSent, ShutdownPolls, Exit, vars,
     server, app, threads, history
<1>2. AppExists' <=> AppExists
  BY DEF AppExists, Signal, Loop, LoopStops, LoopSelects, SelectTimesOut, Accept,
     Receive, ClientGone, HandleOther, HandleProgress, StartRefused, StartAllowed,
     StartFindsNothing, ReportTaken, ReportSent, ShutdownPolls, Exit, vars, server
<1>3. How' = How
  BY <1>1 DEF How
<1> QED BY <1>1, <1>2, <1>3, ServiceStutter

LEMMA ServiceStep ==
  ASSUME IInv, [Next]_vars
  PROVE  [Service!Next]_(Service!vars)
BY ServiceStart, ServiceCancel, ServiceSpawnFails, ServiceDone, ServiceClose,
   ServiceSpawn, ServiceWorker, ServiceMove
DEF Next, Handlers, Shutdown, Worker, Service!Next

\* The server implements ScanService: scans one at a time, each with one end that
\* it was really given reason to, presented only while it is the last.
THEOREM ServerIsScanService == Spec => ImplementsScanService
<1>1. IInv /\ [Next]_vars => [Service!Next]_(Service!vars)
  BY ServiceStep
<1> QED BY ServiceInit, <1>1, Invariance, PTL
        DEF Spec, ImplementsScanService, Service!Spec
=============================================================================
