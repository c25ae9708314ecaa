---------------------------- MODULE WinGuiProofs ----------------------------
(***************************************************************************)
(* The safety of WinGui for any volumes, any number of scans, files and    *)
(* insertions.  The invariant has a part for the running scan and its      *)
(* thread, one for the message queue, one for the results and one for the  *)
(* automatic scans; the checked invariants and the refinement follow.      *)
(***************************************************************************)
EXTENDS WinGui, SequenceTheorems, FiniteSetTheorems, WellFoundedInduction, TLAPS

Messages == [kind : {"progress", "done"}, scan : Scans, files : Nat]

\* The running scan is the one last started, it has a thread, and no later
\* one has left a trace.
ScanInv ==
  /\ scanning <=> thread # NoScan
  /\ scanning => thread = scans /\ worker[scans] # "none" /\ ui # "closed"
  /\ \A s \in Scans : s > scans => /\ worker[s] = "none" /\ walked[s] = 0
                                   /\ outcome[s] = "none" /\ s \notin handled
  /\ WorkersJoined

\* A result message is there only once its thread is past posting it, and the
\* window waits for a thread only with that message in hand.
QueueInv ==
  /\ NoStaleMessage
  /\ \A i \in DOMAIN queue :
       queue[i].kind = "done" => worker[scans] \in {"posted", "returned"}
  /\ ui = "join" => queue # <<>> /\ Head(queue).kind = "done"

\* The count recorded is that of the running scan, a thread that posts has a
\* result, a cancelled one was asked to, and what was handled is over.
ResultInv ==
  /\ scanning => finalProgress = walked[scans] /\ scans \notin handled
  /\ scanning /\ cancelFlag => scans \in asked
  /\ \A s \in Scans :
       /\ worker[s] \in {"posting", "posted", "returned"} => outcome[s] # "none"
       /\ outcome[s] = "cancelled" => s \in asked
  /\ BannerIsCurrent

\* A stick that was scanned automatically and is still there is tracked.
AutoInv ==
  /\ tracked \subseteq UsbIds
  /\ \A id \in Ids :
       /\ autoRuns[id] \in {0, 1}
       /\ autoRuns[id] = 1 => id \in tracked \/ id \notin IdsOf(plugged)

IInv == TypeOK /\ ScanInv /\ QueueInv /\ ResultInv

-----------------------------------------------------------------------------
(* The helpers.                                                            *)

\* The order of the natural numbers, as a relation.
Less == {ss \in Nat \X Nat : ss[1] < ss[2]}

\* First really is a member of the set it is asked about: a set of volumes
\* has one that is enumerated first.
LEMMA FirstIsMember ==
  ASSUME NEW S \in SUBSET Volumes, S # {}
  PROVE  First(S) \in S
<1> USE VolumesAssumption
<1> DEFINE T == {Rank[v] : v \in S}
<1>1. T \subseteq Nat /\ T # {}
  OBVIOUS
<1>2. IsWellFoundedOn(Less, Nat)
  BY NatLessThanWellFounded, Zenon DEF OpToRel, Less
<1>3. PICK x \in T : \A y \in T : ~ (<<y, x>> \in Less)
  BY <1>1, <1>2, WFMin
<1>4. \A y \in T : ~ (y < x)
  BY <1>1, <1>3 DEF Less
<1>5. \A y \in T : x <= y
  BY <1>1, <1>4
<1>6. PICK v \in S : x = Rank[v]
  OBVIOUS
<1>7. \A w \in S : Rank[v] <= Rank[w]
  BY <1>5, <1>6
<1>8. \E u \in S : \A w \in S : Rank[u] <= Rank[w]
  BY <1>7
<1> QED BY <1>8 DEF First

\* What populate_devices leaves: a list of attached volumes, a selection from
\* it, and no identity tracked that was not tracked before.
LEMMA ListedIsSound ==
  ASSUME TypeOK, NEW all \in BOOLEAN, NEW ok \in BOOLEAN
  PROVE  LET l == Listed(all, ok)
         IN  /\ l.devices \subseteq Volumes
             /\ l.devices \subseteq plugged
             /\ l.selected \in l.devices \cup {NoVolume}
             /\ l.tracked \subseteq tracked
             /\ ~ok => l.devices = {} /\ l.tracked = tracked
             /\ ok => l.tracked = tracked \cap IdsOf(IF all THEN plugged ELSE Usb(plugged))
             /\ ok => l.devices = (IF all THEN plugged ELSE Usb(plugged))
<1> DEFINE shown == IF all THEN plugged ELSE Usb(plugged)
           same == {v \in shown : selected # NoVolume /\ Identity[v] = Identity[selected]}
           from == IF same = {} THEN shown ELSE same
<1>1. shown \subseteq plugged /\ plugged \subseteq Volumes
  BY DEF TypeOK, DeviceTypes, Usb
<1>2. from \subseteq shown
  OBVIOUS
<1>3. FirstOrNone(from) \in shown \cup {NoVolume}
  BY <1>1, <1>2, FirstIsMember DEF FirstOrNone
<1>4. CASE ok
  <2>1. Listed(all, ok) = [devices  |-> shown, selected |-> FirstOrNone(from),
                           tracked  |-> tracked \cap IdsOf(shown)]
    BY <1>4 DEF Listed
  <2> HIDE DEF shown, from
  <2>2. /\ Listed(all, ok).devices = shown
        /\ Listed(all, ok).selected = FirstOrNone(from)
        /\ Listed(all, ok).tracked = tracked \cap IdsOf(shown)
    BY <2>1
  <2> QED BY <1>1, <1>3, <1>4, <2>2 DEF shown
<1>5. CASE ~ok
  BY <1>5 DEF Listed
<1> QED BY <1>4, <1>5

\* Adding a message at the end.
LEMMA MessageAdded ==
  ASSUME NEW T, NEW q \in Seq(T), NEW m \in T
  PROVE  /\ Append(q, m) \in Seq(T) /\ Append(q, m) # <<>>
         /\ DOMAIN Append(q, m) = 1..(Len(q) + 1) /\ Len(q) \in Nat
         /\ Len(Append(q, m)) = Len(q) + 1
         /\ \A i \in 1..Len(q) : Append(q, m)[i] = q[i]
         /\ Append(q, m)[Len(q) + 1] = m
         /\ q # <<>> => Head(Append(q, m)) = Head(q)
<1>1. Len(q) \in Nat /\ DOMAIN q = 1..Len(q)
  BY LenProperties
<1>2. /\ Append(q, m) \in Seq(T) /\ Append(q, m) # <<>>
      /\ Len(Append(q, m)) = Len(q) + 1
      /\ \A i \in 1..Len(q) : Append(q, m)[i] = q[i]
      /\ Append(q, m)[Len(q) + 1] = m
  BY AppendProperties
<1>3. DOMAIN Append(q, m) = 1..(Len(q) + 1)
  BY <1>2, LenProperties
<1>4. q # <<>> => Head(Append(q, m)) = Head(q)
  BY <1>1, <1>2, EmptySeq
<1> QED BY <1>1, <1>2, <1>3, <1>4

\* Taking the oldest message.
LEMMA MessageTaken ==
  ASSUME NEW T, NEW q \in Seq(T), q # <<>>
  PROVE  /\ Head(q) \in T /\ Tail(q) \in Seq(T)
         /\ 1 \in DOMAIN q /\ Head(q) = q[1]
         /\ Len(q) \in Nat /\ Len(Tail(q)) = Len(q) - 1
         /\ DOMAIN q = 1..Len(q) /\ DOMAIN Tail(q) = 1..(Len(q) - 1)
         /\ \A i \in DOMAIN Tail(q) : i + 1 \in DOMAIN q /\ Tail(q)[i] = q[i + 1]
<1>1. Len(q) \in Nat /\ DOMAIN q = 1..Len(q) /\ Len(q) # 0
  BY LenProperties, EmptySeq
<1>2. /\ Head(q) \in T /\ Tail(q) \in Seq(T)
      /\ Len(Tail(q)) = Len(q) - 1
      /\ \A i \in 1..Len(Tail(q)) : Tail(q)[i] = q[i + 1]
  BY HeadTailProperties
<1>3. DOMAIN Tail(q) = 1..(Len(q) - 1)
  BY <1>2, LenProperties
<1> QED BY <1>1, <1>2, <1>3
-----------------------------------------------------------------------------

(* The types.                                                              *)

USE DEF Scans, NoScan, world, listing, boxes, scanState, threads, history

\* A start leaves the fields of the scan in their types.
LEMMA StartTypes ==
  ASSUME WindowTypes, WorkerTypes, Started \/ NotStarted
  PROVE  /\ scanning' \in BOOLEAN /\ cancelFlag' \in BOOLEAN
         /\ thread' \in Scans \cup {NoScan} /\ banner' \in Scans \cup {NoScan}
         /\ finalProgress' \in Nat /\ lastProgress' \in Nat
         /\ worker' \in [Scans -> {"none", "scanning", "posting", "posted", "returned"}]
         /\ scans' \in 0..MaxScans
<1> USE DEF WindowTypes
<1>0. worker \in [Scans -> {"none", "scanning", "posting", "posted", "returned"}]
  BY DEF WorkerTypes
<1>1. CASE Started
  <2>1. scans' \in Scans
    BY <1>1, WinGuiAssumption DEF Started
  <2>2. worker' \in [Scans -> {"none", "scanning", "posting", "posted", "returned"}]
    BY <1>0, <1>1, <2>1 DEF Started
  <2>3. scanning' \in BOOLEAN /\ cancelFlag' \in BOOLEAN
    BY <1>1, Zenon DEF Started
  <2>4. thread' = scans' /\ finalProgress' = 0 /\ lastProgress' = 0 /\ banner' = NoScan
    BY <1>1 DEF Started
  <2> QED BY <2>1, <2>2, <2>3, <2>4
<1>2. CASE NotStarted
  <2>1. scanning' \in BOOLEAN /\ cancelFlag' \in BOOLEAN
    BY <1>2, Zenon DEF NotStarted
  <2>2. /\ finalProgress' \in {finalProgress, 0}
        /\ UNCHANGED <<thread, lastProgress, banner, worker, scans>>
    BY <1>2 DEF NotStarted
  <2> QED BY <1>0, <2>1, <2>2
<1> QED BY <1>1, <1>2

LEMMA InitTypes == Init => TypeOK
<1> SUFFICES ASSUME Init PROVE TypeOK
  OBVIOUS
<1> USE DEF Init
<1>1. plugged \subseteq Volumes /\ Usb(plugged) \subseteq Volumes
  BY DEF Usb
<1>2. selected \in devices \cup {NoVolume}
  BY <1>1, FirstIsMember DEF FirstOrNone
<1>6. /\ autoScan \in BOOLEAN /\ showAll \in BOOLEAN
      /\ scanning \in BOOLEAN /\ cancelFlag \in BOOLEAN
  BY Zenon
<1>7. /\ devices = Usb(plugged) /\ tracked = {} /\ changes = 0 /\ plugs = 0
      /\ autoRuns \in [Ids -> Nat]
  OBVIOUS
<1>8. /\ ui = "pump" /\ thread = NoScan /\ banner = NoScan
      /\ finalProgress = 0 /\ lastProgress = 0
      /\ scans = 0 /\ asked = {} /\ handled = {}
  OBVIOUS
<1> HIDE DEF Init
<1>3. DeviceTypes
  BY <1>1, <1>2, <1>6, <1>7, WinGuiAssumption DEF DeviceTypes
<1>4. WindowTypes
  BY <1>6, <1>8, WinGuiAssumption DEF WindowTypes
<1>5. WorkerTypes
  BY DEF Init, WorkerTypes
<1> QED BY <1>3, <1>4, <1>5 DEF TypeOK

\* Steps that leave threads and messages alone keep their types, and so on.
LEMMA UnchangedTypes ==
  /\ DeviceTypes /\ UNCHANGED <<world, listing, boxes, autoRuns>> => DeviceTypes'
  /\ WindowTypes /\ UNCHANGED <<ui, scanState, scans, asked, handled>> => WindowTypes'
  /\ WorkerTypes /\ UNCHANGED <<queue, threads>> => WorkerTypes'
<1>1. DeviceTypes /\ UNCHANGED <<world, listing, boxes, autoRuns>> => DeviceTypes'
  BY DEF DeviceTypes
<1>2. WindowTypes /\ UNCHANGED <<ui, scanState, scans, asked, handled>> => WindowTypes'
  BY DEF WindowTypes
<1>3. WorkerTypes /\ UNCHANGED <<queue, threads>> => WorkerTypes'
  BY DEF WorkerTypes
<1> QED BY <1>1, <1>2, <1>3

LEMMA WorldTypes ==
  ASSUME TypeOK, NEW id \in UsbIds, PlugIn(id) \/ PullOut(id)
  PROVE  TypeOK'
<1>1. DeviceTypes'
  <2> USE WinGuiAssumption, VolumesAssumption DEF TypeOK, DeviceTypes
  <2>1. plugged' \subseteq Volumes
    BY DEF PlugIn, PullOut
  <2>2. changes' \in Nat /\ plugs' \in 0..MaxPlugs
    BY DEF PlugIn, PullOut
  <2>3. autoRuns' \in [Ids -> Nat]
    BY DEF PlugIn, PullOut
  <2> QED BY <2>1, <2>2, <2>3 DEF PlugIn, PullOut
<1>2. UNCHANGED <<ui, scanState, scans, asked, handled, queue, threads>>
  BY DEF PlugIn, PullOut
<1> QED BY <1>1, <1>2, UnchangedTypes DEF TypeOK

LEMMA ListTypes ==
  ASSUME TypeOK,
         \/ \E v \in Volumes : Select(v)
         \/ ClickRefresh \/ ToggleAllDrives \/ ToggleAutoScan \/ IgnoreChange
  PROVE  TypeOK'
<1>1. DeviceTypes'
  <2>1. CASE \E v \in Volumes : Select(v)
    BY <2>1 DEF Select, TypeOK, DeviceTypes
  <2>2. CASE ClickRefresh \/ ToggleAllDrives
    <3>1. showAll' \in BOOLEAN
      BY <2>2 DEF ClickRefresh, ToggleAllDrives, TypeOK, DeviceTypes
    <3>2. PICK all \in BOOLEAN, ok \in BOOLEAN :
            /\ devices' = Listed(all, ok).devices
            /\ selected' = Listed(all, ok).selected
            /\ tracked' = Listed(all, ok).tracked
      BY <2>2, <3>1, WinGuiAssumption
      DEF ClickRefresh, ToggleAllDrives, TypeOK, DeviceTypes
    <3>3. /\ devices' \subseteq Volumes /\ selected' \in devices' \cup {NoVolume}
          /\ tracked' \subseteq Ids
      BY <3>2, ListedIsSound DEF TypeOK, DeviceTypes
    <3>4. UNCHANGED <<world, autoScan, autoRuns>>
      BY <2>2 DEF ClickRefresh, ToggleAllDrives
    <3> QED BY <3>1, <3>3, <3>4 DEF TypeOK, DeviceTypes
  <2>3. CASE ToggleAutoScan
    BY <2>3 DEF ToggleAutoScan, TypeOK, DeviceTypes
  <2>4. CASE IgnoreChange
    BY <2>4 DEF IgnoreChange, TypeOK, DeviceTypes
  <2> QED BY <2>1, <2>2, <2>3, <2>4
<1>2. UNCHANGED <<ui, scanState, scans, asked, handled, queue, threads>>
  BY DEF Select, ClickRefresh, ToggleAllDrives, ToggleAutoScan, IgnoreChange
<1> QED BY <1>1, <1>2, UnchangedTypes DEF TypeOK

LEMMA ScanTypes ==
  ASSUME IInv, ClickScan \/ ClickCancel
  PROVE  TypeOK'
<1> USE DEF IInv, TypeOK
<1>1. CASE ClickScan
  <2>1. Started \/ NotStarted
    BY <1>1 DEF ClickScan
  <2>2. UNCHANGED <<ui, world, queue, listing, boxes, walked, outcome, asked,
                    handled, autoRuns>>
    BY <1>1 DEF ClickScan
  <2>3. WindowTypes'
    BY <2>1, <2>2, StartTypes DEF WindowTypes
  <2>4. WorkerTypes'
    BY <2>1, <2>2, StartTypes DEF WorkerTypes
  <2> QED BY <2>2, <2>3, <2>4, UnchangedTypes
<1>2. CASE ClickCancel
  <2>1. cancelFlag' \in BOOLEAN
    BY <1>2, Zenon DEF ClickCancel
  <2>2. /\ asked' = asked \cup {scans}
        /\ UNCHANGED <<ui, scanning, thread, finalProgress, lastProgress, banner,
                       scans, handled>>
    BY <1>2 DEF ClickCancel
  <2>4. scans \in Scans
    BY <1>2, WinGuiAssumption DEF ClickCancel, ScanInv, WindowTypes
  <2>5. WindowTypes'
    BY <2>1, <2>2, <2>4 DEF WindowTypes
  <2>3. UNCHANGED <<world, listing, boxes, autoRuns, queue, threads>>
    BY <1>2 DEF ClickCancel
  <2> QED BY <2>3, <2>5, UnchangedTypes
<1> QED BY <1>1, <1>2

LEMMA ChangeTypes ==
  ASSUME TypeOK, HandleChange
  PROVE  TypeOK'
<1> USE DEF TypeOK
<1>1. PICK ok \in BOOLEAN : /\ devices' = Listed(showAll, ok).devices
                            /\ selected' = Listed(showAll, ok).selected
                            /\ AutoScanned(Listed(showAll, ok))
  BY WinGuiAssumption DEF HandleChange
<1> DEFINE l   == Listed(showAll, ok)
           new == {v \in Usb(l.devices) : Identity[v] \notin l.tracked}
           id  == Identity[First(new)]
<1>2. /\ l.devices \subseteq Volumes /\ l.selected \in l.devices \cup {NoVolume}
      /\ l.tracked \subseteq Ids
  BY ListedIsSound DEF DeviceTypes
<1>3. new # {} => id \in Ids
  <2>1. new \in SUBSET Volumes
    BY <1>2 DEF Usb
  <2>2. new # {} => First(new) \in Volumes
    BY <2>1, FirstIsMember
  <2> QED BY <2>2, VolumesAssumption
<1>4. /\ changes' \in Nat
      /\ UNCHANGED <<ui, plugged, plugs, queue, boxes, walked, outcome, asked, handled>>
  BY DEF HandleChange, DeviceTypes
<1>5. /\ devices' = l.devices /\ selected' = l.selected
      /\ tracked' \in {l.tracked, l.tracked \cup {id}}
      /\ tracked' # l.tracked => new # {}
      /\ autoRuns' # autoRuns => /\ new # {}
                                 /\ autoRuns' = [autoRuns EXCEPT ![id] = @ + 1]
  BY <1>1 DEF AutoScanned
<1>6. Started \/ NotStarted \/ UNCHANGED <<scanState, worker, scans>>
  BY <1>1, Zenon DEF AutoScanned
<1> HIDE DEF l, new, id
<1>7. autoRuns' \in [Ids -> Nat] /\ tracked' \subseteq Ids
  BY <1>2, <1>3, <1>5 DEF DeviceTypes
<1>8. DeviceTypes'
  BY <1>2, <1>4, <1>5, <1>7 DEF DeviceTypes
<1>9. WindowTypes'
  BY <1>4, <1>6, StartTypes DEF WindowTypes
<1>10. WorkerTypes'
  BY <1>4, <1>6, StartTypes DEF WorkerTypes
<1> QED BY <1>8, <1>9, <1>10

\* The messages the window takes, and its end.
LEMMA PumpTypes ==
  ASSUME IInv, HandleProgress \/ TakeDone \/ HandleDone \/ Close
  PROVE  TypeOK'
<1> USE DEF IInv, TypeOK
<1>1. UNCHANGED <<world, listing, boxes, autoRuns, threads>>
  BY DEF HandleProgress, TakeDone, HandleDone, Close
<1>2. queue # <<>> => Head(queue) \in Messages /\ Tail(queue) \in Seq(Messages)
  BY MessageTaken DEF WorkerTypes, Messages
<1>3. CASE HandleProgress
  <2>1. WindowTypes'
    BY <1>2, <1>3 DEF HandleProgress, WindowTypes, Messages
  <2>2. WorkerTypes'
    BY <1>1, <1>2, <1>3 DEF HandleProgress, WorkerTypes, Messages
  <2> QED BY <1>1, <2>1, <2>2, UnchangedTypes
<1>4. CASE TakeDone \/ Close
  <2>1. ui' \in {"join", "closed"} /\ UNCHANGED <<queue, scanState, scans, asked, handled>>
    BY <1>4 DEF TakeDone, Close
  <2>2. WindowTypes'
    BY <2>1 DEF WindowTypes
  <2> QED BY <1>1, <2>1, <2>2, UnchangedTypes
<1>5. CASE HandleDone
  <2>1. queue # <<>>
    BY <1>5 DEF HandleDone, QueueInv
  <2>2. Head(queue).scan \in Scans
    BY <1>2, <2>1 DEF Messages
  <2>3. scanning' \in BOOLEAN
    BY <1>5, Zenon DEF HandleDone
  <2>4. /\ queue' = Tail(queue) /\ ui' = "pump" /\ thread' = NoScan
        /\ lastProgress' = finalProgress
        /\ banner' \in {NoScan, Head(queue).scan}
        /\ handled' = handled \cup {Head(queue).scan}
        /\ UNCHANGED <<cancelFlag, finalProgress, scans, asked>>
    BY <1>5 DEF HandleDone
  <2>5. WindowTypes'
    BY <2>2, <2>3, <2>4 DEF WindowTypes
  <2>6. WorkerTypes'
    BY <1>1, <1>2, <2>1, <2>4 DEF WorkerTypes, Messages
  <2> QED BY <1>1, <2>5, <2>6, UnchangedTypes
<1> QED BY <1>3, <1>4, <1>5

LEMMA WorkerStepTypes ==
  ASSUME TypeOK, NEW s \in Scans, Worker(s)
  PROVE  TypeOK'
<1> USE DEF TypeOK
<1>1. UNCHANGED <<world, listing, boxes, autoRuns>>
  BY DEF Worker, WorkerFile, WorkerScanned, WorkerPosts, WorkerReturns
<1>2. CASE WorkerFile(s)
  <2>1. walked' \in [Scans -> Nat] /\ finalProgress' \in Nat /\ walked'[s] \in Nat
    BY <1>2 DEF WorkerFile, WorkerTypes
  <2>2. WindowTypes'
    BY <1>2, <2>1 DEF WorkerFile, WindowTypes
  <2>3. Progress(s, walked'[s]) \in Messages
    BY <2>1 DEF Progress, Messages
  <2>6. queue' \in {queue, Append(queue, Progress(s, walked'[s]))}
    BY <1>2 DEF WorkerFile
  <2>7. queue \in Seq(Messages)
    BY DEF WorkerTypes, Messages
  <2>8. Append(queue, Progress(s, walked'[s])) \in Seq(Messages)
    BY <2>3, <2>7, MessageAdded
  <2>4. queue' \in Seq(Messages)
    BY <2>6, <2>7, <2>8
  <2>5. WorkerTypes'
    BY <1>2, <2>1, <2>4 DEF WorkerFile, WorkerTypes, Messages
  <2> QED BY <1>1, <2>2, <2>5, UnchangedTypes
<1>3. CASE WorkerScanned(s) \/ WorkerPosts(s) \/ WorkerReturns(s)
  <2>1. UNCHANGED <<ui, scanState, scans, asked, handled, walked>>
    BY <1>3 DEF WorkerScanned, WorkerPosts, WorkerReturns
  <2>2. worker' \in [Scans -> {"none", "scanning", "posting", "posted", "returned"}]
    BY <1>3 DEF WorkerScanned, WorkerPosts, WorkerReturns, WorkerTypes
  <2>3. outcome' \in [Scans -> {"none", "completed", "removed", "cancelled", "failed"}]
    BY <1>3 DEF WorkerScanned, WorkerPosts, WorkerReturns, WorkerTypes
  <2>4. Done(s) \in Messages
    BY DEF Done, Messages
  <2>5. queue' \in {queue, Append(queue, Done(s))}
    BY <1>3 DEF WorkerScanned, WorkerPosts, WorkerReturns
  <2>8. queue \in Seq(Messages)
    BY DEF WorkerTypes, Messages
  <2>9. Append(queue, Done(s)) \in Seq(Messages)
    BY <2>4, <2>8, MessageAdded
  <2>6. queue' \in Seq(Messages)
    BY <2>5, <2>8, <2>9
  <2>7. WorkerTypes'
    BY <2>1, <2>2, <2>3, <2>6 DEF WorkerTypes, Messages
  <2> QED BY <1>1, <2>1, <2>7, UnchangedTypes
<1> QED BY <1>2, <1>3 DEF Worker

LEMMA TypeStep == ASSUME IInv, [Next]_vars PROVE TypeOK'
<1>1. ASSUME UNCHANGED vars PROVE TypeOK'
  BY <1>1, UnchangedTypes DEF vars, IInv, TypeOK
<1> QED BY <1>1, WorldTypes, ListTypes, ScanTypes, ChangeTypes, PumpTypes,
           WorkerStepTypes
        DEF Next, Pump, User, Device, IInv

-----------------------------------------------------------------------------
(* The protocol of window, queue and thread.                               *)

Core == ScanInv /\ QueueInv /\ ResultInv

\* A thread that has not returned is that of the running scan.
LEMMA RunningThread ==
  ASSUME IInv, NEW s \in Scans, worker[s] \notin {"none", "returned"}
  PROVE  scanning /\ thread = s /\ scans = s /\ ui # "closed" /\ s \notin handled
BY DEF IInv, ScanInv, ResultInv, WorkersJoined

\* Sticks, lists and check boxes are no concern of the protocol.
LEMMA FrameStep ==
  ASSUME Core, UNCHANGED <<ui, queue, scanState, threads, scans, asked, handled>>
  PROVE  Core'
<1>1. ScanInv'
  BY DEF Core, ScanInv, WorkersJoined
<1>2. QueueInv'
  BY DEF Core, QueueInv, NoStaleMessage
<1>3. ResultInv'
  BY DEF Core, ResultInv, BannerIsCurrent
<1> QED BY <1>1, <1>2, <1>3 DEF Core

\* A scan is started, or fails to start, when none runs.
LEMMA StartStep ==
  ASSUME IInv, ui = "pump", ~scanning, Started \/ NotStarted,
         UNCHANGED <<ui, queue, walked, outcome, asked, handled>>
  PROVE  Core'
<1>0. queue = <<>>
  BY DEF IInv, QueueInv, NoStaleMessage
<1>1. \A s \in Scans : worker[s] \in {"none", "returned"}
  BY DEF IInv, ScanInv, WorkersJoined
<1>2. CASE Started
  <2>1. /\ scans \in Nat /\ scans' = scans + 1 /\ scans' \in Scans /\ scanning'
        /\ thread' = scans' /\ ~cancelFlag' /\ finalProgress' = 0 /\ banner' = NoScan
        /\ worker' = [worker EXCEPT ![scans'] = "scanning"]
        /\ worker \in [Scans -> {"none", "scanning", "posting", "posted", "returned"}]
    BY <1>2, WinGuiAssumption DEF Started, IInv, TypeOK, WindowTypes, WorkerTypes
  <2>2. /\ worker'[scans'] = "scanning"
        /\ \A s \in Scans : s # scans' => worker'[s] = worker[s]
    BY <2>1
  <2>3. ScanInv'
    <3>1. \A s \in Scans : s > scans' => s > scans /\ s # scans'
      BY <2>1
    <3> QED BY <1>1, <2>1, <2>2, <3>1 DEF IInv, ScanInv, WorkersJoined
  <2>4. QueueInv'
    BY <1>0, <2>1 DEF QueueInv, NoStaleMessage
  <2>5. ResultInv'
    <3>1. walked[scans'] = 0 /\ outcome[scans'] = "none" /\ scans' \notin handled
      BY <2>1 DEF IInv, ScanInv
    <3> QED BY <2>1, <2>2, <3>1 DEF IInv, ResultInv, BannerIsCurrent
  <2> QED BY <2>3, <2>4, <2>5 DEF Core
<1>3. CASE NotStarted
  <2>1. UNCHANGED <<scanning, thread, lastProgress, banner, worker, scans>>
    BY <1>3 DEF NotStarted
  <2>2. ScanInv'
    BY <2>1 DEF IInv, ScanInv, WorkersJoined
  <2>3. QueueInv'
    BY <1>0, <2>1 DEF QueueInv, NoStaleMessage
  <2>4. ResultInv'
    BY <2>1 DEF IInv, ResultInv, BannerIsCurrent
  <2> QED BY <2>2, <2>3, <2>4 DEF Core
<1> QED BY <1>2, <1>3

LEMMA CancelStep == ASSUME IInv, ClickCancel PROVE Core'
<1>1. UNCHANGED <<ui, queue, scanning, thread, finalProgress, lastProgress, banner,
                  threads, scans, handled>>
  BY DEF ClickCancel
<1>2. asked' = asked \cup {scans}
  BY DEF ClickCancel
<1>3. ScanInv'
  BY <1>1 DEF IInv, ScanInv, WorkersJoined
<1>4. QueueInv'
  BY <1>1 DEF IInv, QueueInv, NoStaleMessage
<1>5. ResultInv'
  BY <1>1, <1>2 DEF IInv, ResultInv, BannerIsCurrent
<1> QED BY <1>3, <1>4, <1>5 DEF Core

LEMMA ProgressStep == ASSUME IInv, HandleProgress PROVE Core'
<1>1. /\ queue # <<>> /\ Head(queue).kind = "progress" /\ queue' = Tail(queue)
      /\ UNCHANGED <<ui, scanning, thread, cancelFlag, finalProgress, banner, threads,
                     scans, asked, handled>>
      /\ ui = "pump"
  BY DEF HandleProgress
<1>2. queue \in Seq(Messages)
  BY DEF IInv, TypeOK, WorkerTypes, Messages
<1>3. /\ Len(queue) \in Nat /\ Len(Tail(queue)) = Len(queue) - 1
      /\ DOMAIN queue = 1..Len(queue) /\ DOMAIN Tail(queue) = 1..(Len(queue) - 1)
      /\ \A i \in DOMAIN Tail(queue) : i + 1 \in DOMAIN queue /\ Tail(queue)[i] = queue[i + 1]
  BY <1>1, <1>2, MessageTaken
<1>4. scanning
  BY <1>1 DEF IInv, QueueInv, NoStaleMessage
<1>5. ScanInv'
  BY <1>1 DEF IInv, ScanInv, WorkersJoined
<1>6. QueueInv'
  <2>1. \A i \in DOMAIN queue : /\ queue[i].scan = scans
                                /\ queue[i].kind = "done" => i = Len(queue)
                                /\ queue[i].kind = "done" =>
                                     worker[scans] \in {"posted", "returned"}
    BY DEF IInv, QueueInv, NoStaleMessage
  <2>2. \A i \in DOMAIN queue' : /\ queue'[i].scan = scans
                                 /\ queue'[i].kind = "done" => i = Len(queue')
                                 /\ queue'[i].kind = "done" =>
                                      worker[scans] \in {"posted", "returned"}
    BY <1>1, <1>3, <2>1
  <2> QED BY <1>1, <1>4, <2>2 DEF QueueInv, NoStaleMessage
<1>7. ResultInv'
  BY <1>1, <1>4 DEF IInv, ResultInv, BannerIsCurrent
<1> QED BY <1>5, <1>6, <1>7 DEF Core

LEMMA TakeOrCloseStep == ASSUME IInv, TakeDone \/ Close PROVE Core'
<1>1. UNCHANGED <<queue, scanState, threads, scans, asked, handled>>
  BY DEF TakeDone, Close
<1>2. CASE TakeDone
  <2>1. /\ ui' = "join" /\ queue # <<>> /\ Head(queue).kind = "done"
    BY <1>2 DEF TakeDone
  <2>2. ScanInv'
    BY <1>1, <2>1 DEF IInv, ScanInv, WorkersJoined
  <2>3. QueueInv'
    BY <1>1, <2>1 DEF IInv, QueueInv, NoStaleMessage
  <2>4. ResultInv'
    BY <1>1 DEF IInv, ResultInv, BannerIsCurrent
  <2> QED BY <2>2, <2>3, <2>4 DEF Core
<1>3. CASE Close
  <2>1. ui' = "closed" /\ ~scanning
    BY <1>3 DEF Close
  <2>2. ScanInv'
    BY <1>1, <2>1 DEF IInv, ScanInv, WorkersJoined
  <2>3. QueueInv'
    BY <1>1, <2>1 DEF IInv, QueueInv, NoStaleMessage
  <2>4. ResultInv'
    BY <1>1 DEF IInv, ResultInv, BannerIsCurrent
  <2> QED BY <2>2, <2>3, <2>4 DEF Core
<1> QED BY <1>2, <1>3

\* The result message was the last one, and its thread has returned.
LEMMA DoneStep == ASSUME IInv, HandleDone PROVE Core'
<1>1. /\ ui = "join" /\ worker[thread] = "returned"
      /\ queue' = Tail(queue) /\ ui' = "pump"
      /\ thread' = NoScan /\ ~scanning' /\ lastProgress' = finalProgress
      /\ banner' = (IF outcome[Head(queue).scan] = "failed" THEN NoScan
                                                            ELSE Head(queue).scan)
      /\ handled' = handled \cup {Head(queue).scan}
      /\ UNCHANGED <<cancelFlag, finalProgress, threads, scans, asked>>
  BY DEF HandleDone
<1>2. queue # <<>> /\ Head(queue).kind = "done" /\ queue \in Seq(Messages)
  BY <1>1 DEF IInv, QueueInv, TypeOK, WorkerTypes, Messages
<1>3. /\ 1 \in DOMAIN queue /\ Head(queue) = queue[1]
      /\ Tail(queue) \in Seq(Messages) /\ Len(Tail(queue)) = Len(queue) - 1
  BY <1>2, MessageTaken
<1>4. /\ scanning /\ Head(queue).scan = scans /\ Len(queue) = 1
  BY <1>2, <1>3 DEF IInv, QueueInv, NoStaleMessage
<1>5. queue' = <<>>
  BY <1>1, <1>3, <1>4, EmptySeq
<1>6. thread = scans /\ scans \in Scans
  BY <1>4 DEF IInv, ScanInv, TypeOK, WindowTypes
<1>7. ScanInv'
  <2>1. \A s \in Scans : s > scans => s \notin handled'
    BY <1>1, <1>4, <1>6 DEF IInv, ScanInv
  <2>2. \A s \in Scans : worker[s] \in {"none", "returned"}
    BY <1>1, <1>6 DEF IInv, ScanInv, WorkersJoined
  <2> QED BY <1>1, <2>1, <2>2 DEF IInv, ScanInv, WorkersJoined
<1>8. QueueInv'
  BY <1>1, <1>5 DEF QueueInv, NoStaleMessage
<1>9. ResultInv'
  <2>1. outcome[scans] # "none" /\ finalProgress = walked[scans]
    BY <1>1, <1>4, <1>6 DEF IInv, ResultInv
  <2> QED BY <1>1, <1>4, <2>1 DEF IInv, ResultInv, BannerIsCurrent
<1> QED BY <1>7, <1>8, <1>9 DEF Core

\* A message of the running scan is added behind the others.
LEMMA QueueGrows ==
  ASSUME NEW m \in Messages, NEW q \in Seq(Messages), NEW n,
         \A i \in DOMAIN q : q[i].scan = n /\ q[i].kind # "done", m.scan = n
  PROVE  LET r == Append(q, m)
         IN  /\ \A i \in DOMAIN r : /\ r[i].scan = n
                                    /\ r[i].kind = "done" => i = Len(r) /\ m.kind = "done"
             /\ r # <<>> /\ (q # <<>> => Head(r) = Head(q))
<1>1. /\ Append(q, m) # <<>> /\ Len(q) \in Nat /\ DOMAIN q = 1..Len(q)
      /\ DOMAIN Append(q, m) = 1..(Len(q) + 1) /\ Len(Append(q, m)) = Len(q) + 1
      /\ \A i \in 1..Len(q) : Append(q, m)[i] = q[i]
      /\ Append(q, m)[Len(q) + 1] = m
      /\ q # <<>> => Head(Append(q, m)) = Head(q)
  BY MessageAdded, LenProperties
<1>2. \A i \in 1..(Len(q) + 1) : i \in 1..Len(q) \/ i = Len(q) + 1
  BY <1>1
<1> QED BY <1>1, <1>2

LEMMA FileStep == ASSUME IInv, NEW s \in Scans, WorkerFile(s) PROVE Core'
<1>1. /\ worker[s] = "scanning" /\ ~cancelFlag
      /\ walked' = [walked EXCEPT ![s] = @ + 1] /\ finalProgress' = walked'[s]
      /\ queue' \in {queue, Append(queue, Progress(s, walked'[s]))}
      /\ UNCHANGED <<ui, scanning, thread, cancelFlag, lastProgress, banner, worker,
                     outcome, scans, asked, handled>>
  BY DEF WorkerFile
<1>2. scanning /\ thread = s /\ scans = s /\ scans \in Nat
  BY <1>1, RunningThread DEF IInv, TypeOK, WindowTypes
<1>3. /\ walked'[s] \in Nat
      /\ \A t \in Scans : t # s => walked'[t] = walked[t]
  <2>1. walked \in [Scans -> Nat]
    BY DEF IInv, TypeOK, WorkerTypes
  <2>2. walked'[s] = walked[s] + 1
    BY <1>1, <2>1
  <2>3. \A t \in Scans : t # s => walked'[t] = walked[t]
    BY <1>1, <2>1
  <2> QED BY <2>1, <2>2, <2>3
<1>4. ScanInv'
  <2>1. \A t \in Scans : t > scans => t # s
    BY <1>2
  <2>2. \A t \in Scans : t > scans' => /\ worker'[t] = "none" /\ walked'[t] = 0
                                      /\ outcome'[t] = "none" /\ t \notin handled'
    BY <1>1, <1>3, <2>1 DEF IInv, ScanInv
  <2>3. WorkersJoined'
    BY <1>1 DEF IInv, ScanInv, WorkersJoined
  <2> QED BY <1>1, <1>2, <2>2, <2>3 DEF IInv, ScanInv
<1>5. QueueInv'
  <2>1. Progress(s, walked'[s]) \in Messages /\ queue \in Seq(Messages)
    BY <1>3 DEF Progress, Messages, IInv, TypeOK, WorkerTypes
  <2>2. \A i \in DOMAIN queue : queue[i].scan = s /\ queue[i].kind # "done"
    BY <1>1, <1>2 DEF IInv, QueueInv, NoStaleMessage
  <2>3. CASE queue' = queue
    BY <1>1, <1>2, <2>2, <2>3 DEF IInv, QueueInv, NoStaleMessage
  <2>4. CASE queue' = Append(queue, Progress(s, walked'[s]))
    <3>1. \A i \in DOMAIN queue' : queue'[i].scan = s /\ queue'[i].kind # "done"
      BY <2>1, <2>2, <2>4, QueueGrows DEF Progress
    <3>2. ui # "join"
      <4>1. queue # <<>> => 1 \in DOMAIN queue /\ Head(queue) = queue[1]
        BY <2>1, MessageTaken
      <4> QED BY <2>2, <4>1 DEF IInv, QueueInv
    <3> QED BY <1>1, <1>2, <3>1, <3>2 DEF QueueInv, NoStaleMessage
  <2> QED BY <1>1, <2>3, <2>4
<1>6. ResultInv'
  BY <1>1, <1>2, <1>3 DEF IInv, ResultInv, BannerIsCurrent
<1> QED BY <1>4, <1>5, <1>6 DEF Core

LEMMA ScannedStep == ASSUME IInv, NEW s \in Scans, WorkerScanned(s) PROVE Core'
<1>1. PICK how \in {"completed", "removed", "cancelled", "failed"} :
        /\ outcome' = [outcome EXCEPT ![s] = how]
        /\ how = "cancelled" => cancelFlag
  BY DEF WorkerScanned
<1>2. /\ worker[s] = "scanning" /\ worker' = [worker EXCEPT ![s] = "posting"]
      /\ UNCHANGED <<ui, queue, scanState, walked, scans, asked, handled>>
  BY DEF WorkerScanned
<1>3. scanning /\ thread = s /\ scans = s /\ ui # "closed" /\ scans \in Nat
  BY <1>2, RunningThread DEF IInv, TypeOK, WindowTypes
<1>4. /\ worker'[s] = "posting" /\ outcome'[s] = how
      /\ \A t \in Scans : t # s => worker'[t] = worker[t] /\ outcome'[t] = outcome[t]
  BY <1>1, <1>2 DEF IInv, TypeOK, WorkerTypes
<1>5. ScanInv'
  BY <1>2, <1>3, <1>4 DEF IInv, ScanInv, WorkersJoined
<1>6. QueueInv'
  BY <1>2, <1>3, <1>4 DEF IInv, QueueInv, NoStaleMessage
<1>7. ResultInv'
  BY <1>1, <1>2, <1>3, <1>4 DEF IInv, ResultInv, BannerIsCurrent
<1> QED BY <1>5, <1>6, <1>7 DEF Core

LEMMA PostsStep == ASSUME IInv, NEW s \in Scans, WorkerPosts(s) PROVE Core'
<1>1. /\ worker[s] = "posting" /\ worker' = [worker EXCEPT ![s] = "posted"]
      /\ queue' \in {queue, Append(queue, Done(s))}
      /\ UNCHANGED <<ui, scanState, walked, outcome, scans, asked, handled>>
  BY DEF WorkerPosts
<1>2. scanning /\ thread = s /\ scans = s /\ ui # "closed" /\ scans \in Nat
  BY <1>1, RunningThread DEF IInv, TypeOK, WindowTypes
<1>3. /\ worker'[s] = "posted"
      /\ \A t \in Scans : t # s => worker'[t] = worker[t]
  BY <1>1 DEF IInv, TypeOK, WorkerTypes
<1>4. ScanInv'
  BY <1>1, <1>2, <1>3 DEF IInv, ScanInv, WorkersJoined
<1>5. QueueInv'
  <2>1. Done(s) \in Messages /\ queue \in Seq(Messages)
    BY DEF Done, Messages, IInv, TypeOK, WorkerTypes
  <2>2. \A i \in DOMAIN queue : queue[i].scan = s /\ queue[i].kind # "done"
    BY <1>1, <1>2 DEF IInv, QueueInv, NoStaleMessage
  <2>3. ui # "join"
    <3>1. queue # <<>> => 1 \in DOMAIN queue /\ Head(queue) = queue[1]
      BY <2>1, MessageTaken
    <3> QED BY <2>2, <3>1 DEF IInv, QueueInv
  <2>4. \A i \in DOMAIN queue' : /\ queue'[i].scan = s
                                 /\ queue'[i].kind = "done" => i = Len(queue')
    <3>1. CASE queue' = queue
      BY <2>2, <3>1
    <3>2. CASE queue' = Append(queue, Done(s))
      BY <2>1, <2>2, <3>2, QueueGrows DEF Done
    <3> QED BY <1>1, <3>1, <3>2
  <2> QED BY <1>1, <1>2, <1>3, <2>3, <2>4 DEF QueueInv, NoStaleMessage
<1>6. ResultInv'
  BY <1>1, <1>2, <1>3 DEF IInv, ResultInv, BannerIsCurrent
<1> QED BY <1>4, <1>5, <1>6 DEF Core

LEMMA ReturnsStep == ASSUME IInv, NEW s \in Scans, WorkerReturns(s) PROVE Core'
<1>1. /\ worker[s] = "posted" /\ worker' = [worker EXCEPT ![s] = "returned"]
      /\ UNCHANGED <<ui, queue, scanState, walked, outcome, scans, asked, handled>>
  BY DEF WorkerReturns
<1>2. scanning /\ thread = s /\ scans = s /\ ui # "closed" /\ scans \in Nat
  BY <1>1, RunningThread DEF IInv, TypeOK, WindowTypes
<1>3. /\ worker'[s] = "returned"
      /\ \A t \in Scans : t # s => worker'[t] = worker[t]
  BY <1>1 DEF IInv, TypeOK, WorkerTypes
<1>4. ScanInv'
  BY <1>1, <1>2, <1>3 DEF IInv, ScanInv, WorkersJoined
<1>5. QueueInv'
  BY <1>1, <1>2, <1>3 DEF IInv, QueueInv, NoStaleMessage
<1>6. ResultInv'
  BY <1>1, <1>2, <1>3 DEF IInv, ResultInv, BannerIsCurrent
<1> QED BY <1>4, <1>5, <1>6 DEF Core

LEMMA InitCore == Init => Core
<1> SUFFICES ASSUME Init PROVE Core
  OBVIOUS
<1>1. ScanInv
  <2>1. scanning = FALSE /\ thread = NoScan
    BY DEF Init
  <2>2. \A s \in Scans : worker[s] = "none" /\ walked[s] = 0 /\ outcome[s] = "none"
    BY DEF Init
  <2>3. handled = {}
    BY DEF Init
  <2> QED BY <2>1, <2>2, <2>3 DEF ScanInv, WorkersJoined
<1>2. QueueInv
  BY DEF Init, QueueInv, NoStaleMessage
<1>3. ResultInv
  <2>1. scanning = FALSE /\ banner = NoScan
    BY DEF Init
  <2>2. \A s \in Scans : worker[s] = "none" /\ outcome[s] = "none"
    BY DEF Init
  <2> QED BY <2>1, <2>2 DEF ResultInv, BannerIsCurrent
<1> QED BY <1>1, <1>2, <1>3 DEF Core

LEMMA CoreStep == ASSUME IInv, [Next]_vars PROVE Core'
<1>1. Core
  BY DEF IInv, Core
<1>2. CASE ClickScan \/ HandleChange
  <2>1. CASE Started \/ NotStarted
    BY <1>2, <2>1, StartStep DEF ClickScan, HandleChange
  <2>2. CASE UNCHANGED <<scanState, worker, scans>>
    BY <1>1, <1>2, <2>2, FrameStep DEF ClickScan, HandleChange
  <2> QED BY <1>2, <2>1, <2>2, Zenon DEF ClickScan, HandleChange, AutoScanned
<1>3. CASE \/ \E id \in UsbIds : PlugIn(id) \/ PullOut(id)
           \/ \E v \in Volumes : Select(v)
           \/ ClickRefresh \/ ToggleAllDrives \/ ToggleAutoScan \/ IgnoreChange
  <2>1. UNCHANGED <<ui, queue, scanState, threads, scans, asked, handled>>
    BY <1>3 DEF PlugIn, PullOut, Select, ClickRefresh, ToggleAllDrives,
                ToggleAutoScan, IgnoreChange
  <2> QED BY <1>1, <2>1, FrameStep
<1>4. CASE UNCHANGED vars
  BY <1>1, <1>4, FrameStep DEF vars
<1> QED BY <1>2, <1>3, <1>4, CancelStep, ProgressStep, TakeOrCloseStep, DoneStep,
           FileStep, ScannedStep, PostsStep, ReturnsStep
        DEF Next, Pump, User, Device, Worker

\* The invariant is inductive.
LEMMA Invariance == Spec => []IInv
<1>1. Init => IInv
  BY InitTypes, InitCore DEF IInv, Core
<1>2. IInv /\ [Next]_vars => IInv'
  BY TypeStep, CoreStep DEF IInv, Core
<1> QED BY <1>1, <1>2, PTL DEF Spec

\* The thread of a scan is joined before the window reads what it wrote or goes
\* away: for any number of scans, files and insertions.
THEOREM ThreadsAreJoined == Spec => []WorkersJoined
<1>1. IInv => WorkersJoined
  BY DEF IInv, ScanInv
<1> QED BY <1>1, Invariance, PTL

\* A verdict on display is that of the scan last started, with its true count.
THEOREM BannerBelongsToScan == Spec => []BannerIsCurrent
<1>1. IInv => BannerIsCurrent
  BY DEF IInv, ResultInv
<1> QED BY <1>1, Invariance, PTL

\* No message outlives its scan, and none follows its result.
THEOREM MessagesAreOfTheScan == Spec => []NoStaleMessage
<1>1. IInv => NoStaleMessage
  BY DEF IInv, QueueInv
<1> QED BY <1>1, Invariance, PTL

\* The selection is in the list, and all fields stay in their types.
THEOREM TypeCorrect == Spec => []TypeOK
<1>1. IInv => TypeOK
  BY DEF IInv
<1> QED BY <1>1, Invariance, PTL

-----------------------------------------------------------------------------
(* Automatic scans.                                                        *)

\* A stick that is attached and tracked stays tracked by populate_devices.
LEMMA TrackedStays ==
  ASSUME TypeOK, AutoInv, NEW all \in BOOLEAN, NEW ok \in BOOLEAN,
         NEW id \in tracked \cap IdsOf(plugged)
  PROVE  id \in Listed(all, ok).tracked
<1> DEFINE shown == IF all THEN plugged ELSE Usb(plugged)
<1>1. id \in UsbIds
  BY DEF AutoInv
<1>2. id \in IdsOf(shown)
  BY <1>1 DEF IdsOf, Usb
<1>3. /\ ~ok => Listed(all, ok).tracked = tracked
      /\ ok => Listed(all, ok).tracked = tracked \cap IdsOf(shown)
  BY ListedIsSound
<1> QED BY <1>2, <1>3

\* The list is rebuilt and nothing is scanned.
LEMMA ListedAutoInv ==
  ASSUME TypeOK, AutoInv, NEW all \in BOOLEAN, NEW ok \in BOOLEAN,
         tracked' = Listed(all, ok).tracked, UNCHANGED <<plugged, autoRuns>>
  PROVE  AutoInv'
<1>1. tracked' \subseteq tracked
  BY ListedIsSound
<1>2. \A id \in Ids : autoRuns[id] = 1 => id \in tracked' \/ id \notin IdsOf(plugged)
  BY TrackedStays DEF AutoInv
<1> QED BY <1>1, <1>2 DEF AutoInv, IdsOf

\* As long as the set of tracked identities is not larger than the code's array,
\* the stick that is scanned now is tracked, and was not scanned before.
LEMMA AutoScannedAutoInv ==
  ASSUME TypeOK, AutoInv, IsFiniteSet(UsbIds), Cardinality(UsbIds) <= TrackMax,
         NEW ok \in BOOLEAN, AutoScanned(Listed(showAll, ok)), plugged' = plugged
  PROVE  AutoInv'
<1> DEFINE l   == Listed(showAll, ok)
           new == {v \in Usb(l.devices) : Identity[v] \notin l.tracked}
           id  == Identity[First(new)]
<1>0. showAll \in BOOLEAN
  BY DEF TypeOK, DeviceTypes
<1>1. /\ l.devices \subseteq Volumes /\ l.devices \subseteq plugged
      /\ l.tracked \subseteq tracked
  BY <1>0, ListedIsSound
<1>2. CASE ~(autoScan /\ new # {})
  BY <1>0, <1>2, ListedAutoInv DEF AutoScanned
<1>3. CASE autoScan /\ new # {}
  <2>1. First(new) \in new
    BY <1>1, <1>3, FirstIsMember DEF Usb
  <2>2. /\ id \in UsbIds /\ id \in Ids /\ id \notin l.tracked
        /\ id \in IdsOf(plugged)
    BY <1>1, <2>1, VolumesAssumption DEF Usb, IdsOf
  <2>3. Cardinality(l.tracked) < TrackMax
    <3> HIDE DEF id, l, new
    <3>1. l.tracked \subseteq UsbIds \ {id}
      BY <1>1, <2>2 DEF AutoInv
    <3>2. /\ IsFiniteSet(UsbIds \ {id})
          /\ Cardinality(UsbIds \ {id}) = Cardinality(UsbIds) - 1
      BY <2>2, FS_RemoveElement
    <3>3. Cardinality(l.tracked) <= Cardinality(UsbIds) - 1
      BY <3>1, <3>2, FS_Subset
    <3>4. /\ Cardinality(UsbIds) \in Nat /\ Cardinality(l.tracked) \in Nat
      BY <3>1, <3>2, FS_Subset, FS_CardinalityType
    <3> QED BY <3>3, <3>4, WinGuiAssumption
  <2>4. tracked' = l.tracked \cup {id}
    BY <1>3, <2>3 DEF AutoScanned
  <2>5. id \notin tracked
    BY <1>0, <2>2, TrackedStays
  <2>6. autoRuns[id] = 0
    BY <2>2, <2>5 DEF AutoInv
  <2>7. autoRuns' = autoRuns \/ autoRuns' = [autoRuns EXCEPT ![id] = @ + 1]
    BY <1>3, Zenon DEF AutoScanned
  <2>8. \A x \in Ids : /\ x # id => autoRuns'[x] = autoRuns[x]
                       /\ x = id => autoRuns'[x] \in {0, 1}
    <3>1. autoRuns \in [Ids -> Nat]
      BY DEF TypeOK, DeviceTypes
    <3> HIDE DEF id
    <3> QED BY <2>2, <2>6, <2>7, <3>1
  <2>9. \A x \in Ids : x # id /\ autoRuns[x] = 1 => x \in l.tracked \/ x \notin IdsOf(plugged)
    BY <1>0, TrackedStays DEF AutoInv
  <2>10. tracked' \subseteq UsbIds
    BY <1>1, <2>2, <2>4 DEF AutoInv
  <2>11. IdsOf(plugged') = IdsOf(plugged)
    BY DEF IdsOf
  <2> HIDE DEF id, l, new
  <2> QED BY <2>4, <2>8, <2>9, <2>10, <2>11 DEF AutoInv
<1> QED BY <1>2, <1>3

\* A stick that comes back may be scanned again, one that goes is of no concern.
LEMMA WorldAutoInv ==
  ASSUME TypeOK, AutoInv, NEW id \in UsbIds, PlugIn(id) \/ PullOut(id)
  PROVE  AutoInv'
<1>1. tracked' = tracked
  BY DEF PlugIn, PullOut
<1>2. CASE PlugIn(id)
  <2>1. /\ autoRuns' = [autoRuns EXCEPT ![id] = 0]
        /\ plugged' = plugged \cup {v \in Volumes : Identity[v] = id}
    BY <1>2 DEF PlugIn
  <2>2. \A x \in Ids : x # id /\ x \notin IdsOf(plugged) => x \notin IdsOf(plugged')
    BY <2>1 DEF IdsOf
  <2>3. \A x \in Ids : autoRuns'[x] = IF x = id THEN 0 ELSE autoRuns[x]
    BY <2>1 DEF TypeOK, DeviceTypes
  <2> QED BY <1>1, <2>2, <2>3 DEF AutoInv
<1>3. CASE PullOut(id)
  <2>1. autoRuns' = autoRuns /\ plugged' \subseteq plugged
    BY <1>3 DEF PullOut
  <2>2. \A x \in Ids : x \notin IdsOf(plugged) => x \notin IdsOf(plugged')
    BY <2>1 DEF IdsOf
  <2> QED BY <1>1, <2>1, <2>2 DEF AutoInv
<1> QED BY <1>2, <1>3

LEMMA AutoStep ==
  ASSUME TypeOK, AutoInv, IsFiniteSet(UsbIds), Cardinality(UsbIds) <= TrackMax,
         [Next]_vars
  PROVE  AutoInv'
<1>1. CASE UNCHANGED <<plugged, tracked, autoRuns>>
  BY <1>1 DEF AutoInv, IdsOf
<1>2. CASE ClickRefresh \/ ToggleAllDrives
  <2>1. PICK all \in BOOLEAN, ok \in BOOLEAN : tracked' = Listed(all, ok).tracked
    BY <1>2, WinGuiAssumption DEF ClickRefresh, ToggleAllDrives, TypeOK, DeviceTypes
  <2>2. UNCHANGED <<plugged, autoRuns>>
    BY <1>2 DEF ClickRefresh, ToggleAllDrives
  <2> QED BY <2>1, <2>2, ListedAutoInv
<1>3. CASE HandleChange
  <2>1. PICK ok \in BOOLEAN : AutoScanned(Listed(showAll, ok))
    BY <1>3, WinGuiAssumption DEF HandleChange
  <2>2. plugged' = plugged
    BY <1>3 DEF HandleChange
  <2> QED BY <2>1, <2>2, AutoScannedAutoInv
<1>4. CASE \E id \in UsbIds : PlugIn(id) \/ PullOut(id)
  BY <1>4, WorldAutoInv
<1>5. CASE \/ Pump \/ ClickScan \/ ClickCancel \/ ToggleAutoScan \/ Close
           \/ (\E v \in Volumes : Select(v)) \/ IgnoreChange
           \/ \E s \in Scans : Worker(s)
  <2>1. UNCHANGED <<plugged, tracked, autoRuns>>
    BY <1>5 DEF Pump, HandleProgress, TakeDone, HandleDone, ClickScan, ClickCancel,
       ToggleAutoScan, Close, Select, IgnoreChange, Worker, WorkerFile,
       WorkerScanned, WorkerPosts, WorkerReturns
  <2> QED BY <1>1, <2>1
<1>6. CASE UNCHANGED vars
  BY <1>1, <1>6 DEF vars
<1> QED BY <1>2, <1>3, <1>4, <1>5, <1>6 DEF Next, User, Device

\* One insertion starts at most one automatic scan, for any sticks and volumes,
\* as long as there are no more sticks than GUI_AUTO_SCAN_TRACK_MAX.
THEOREM AutoScansOnce ==
  ASSUME IsFiniteSet(UsbIds), Cardinality(UsbIds) <= TrackMax
  PROVE  Spec => []AutoScanOnce
<1>1. Init => AutoInv
  BY DEF Init, AutoInv
<1>2. TypeOK /\ AutoInv /\ [Next]_vars => AutoInv'
  BY AutoStep
<1>3. AutoInv => AutoScanOnce
  BY DEF AutoInv, AutoScanOnce
<1> QED BY <1>1, <1>2, <1>3, TypeCorrect, PTL DEF Spec

-----------------------------------------------------------------------------
(* The window is a scan service.                                           *)

Running == IF scanning THEN scans ELSE NoScan
How == [s \in Scans |-> IF s \in handled THEN outcome[s] ELSE "none"]
Presented == IF ui = "closed" THEN NoScan ELSE banner

LEMMA ServiceInit == Init => Service!Init
<1> SUFFICES ASSUME Init PROVE Service!Init
  OBVIOUS
<1>1. /\ scans = 0 /\ ~scanning /\ asked = {} /\ handled = {}
      /\ banner = NoScan /\ ui = "pump"
  BY DEF Init
<1> QED BY <1>1 DEF Service!Init, Service!Scans, Service!NoScan

\* A step that changes none of what the service shows is a stutter.
LEMMA ServiceStutter ==
  ASSUME IInv, UNCHANGED <<scans, scanning, asked, handled, banner>>,
         (ui' = "closed") <=> (ui = "closed"),
         \A s \in handled : outcome'[s] = outcome[s]
  PROVE  UNCHANGED Service!vars
<1>1. How' = How
  BY DEF How
<1>2. Running' = Running /\ Presented' = Presented
  BY DEF Running, Presented
<1>3. (ui = "closed")' = (ui = "closed")
  BY Zenon
<1> QED BY <1>1, <1>2, <1>3 DEF Service!vars, How, Running, Presented

\* A start is a start.
LEMMA ServiceStart ==
  ASSUME IInv, ui = "pump", ~scanning, Started, UNCHANGED <<ui, outcome, asked, handled>>
  PROVE  Service!Start
<1>1. /\ scans < MaxScans /\ scans' = scans + 1 /\ scanning' /\ banner' = NoScan
  BY DEF Started
<1>2. Running = NoScan /\ Running' = scans' /\ Presented' = NoScan
  BY <1>1 DEF Running, Presented
<1>3. How' = How
  BY DEF How
<1> QED BY <1>1, <1>2, <1>3 DEF Service!Start, Service!NoScan, Running, Presented, How

\* The cancel button asks on behalf of the running scan.
LEMMA ServiceCancel ==
  ASSUME IInv, ClickCancel
  PROVE  Service!AskCancel
<1>1. /\ ui = "pump" /\ scanning /\ asked' = asked \cup {scans}
      /\ UNCHANGED <<ui, scans, scanning, handled, banner, outcome>>
  BY DEF ClickCancel
<1>2. Running = scans /\ Running # NoScan /\ UNCHANGED <<Running, Presented, How>>
  BY <1>1 DEF Running, Presented, How, IInv, ScanInv, TypeOK, WindowTypes
<1> QED BY <1>1, <1>2 DEF Service!AskCancel, Service!NoScan, Running, Presented, How

\* Handling the result is the end of the scan, in the way its thread found.
LEMMA ServiceEnd ==
  ASSUME IInv, HandleDone
  PROVE  Service!End
<1>1. /\ ui = "join" /\ ui' = "pump" /\ ~scanning' /\ worker[thread] = "returned"
      /\ banner' = (IF outcome[Head(queue).scan] = "failed" THEN NoScan
                                                            ELSE Head(queue).scan)
      /\ handled' = handled \cup {Head(queue).scan}
      /\ UNCHANGED <<outcome, scans, asked>>
  BY DEF HandleDone
<1>2. queue # <<>> /\ queue \in Seq(Messages)
  BY <1>1 DEF IInv, QueueInv, TypeOK, WorkerTypes, Messages
<1>3. 1 \in DOMAIN queue /\ Head(queue) = queue[1]
  BY <1>2, MessageTaken
<1>4. /\ scanning /\ Head(queue).scan = scans
  BY <1>2, <1>3 DEF IInv, QueueInv, NoStaleMessage
<1>5. thread = scans /\ scans \in Scans /\ scans # NoScan
  BY <1>4 DEF IInv, ScanInv, TypeOK, WindowTypes
<1>6. /\ outcome[scans] \in {"completed", "removed", "failed", "cancelled"}
      /\ outcome[scans] = "cancelled" => scans \in asked
  BY <1>1, <1>5 DEF IInv, ResultInv, TypeOK, WorkerTypes
<1>7. How' = [How EXCEPT ![scans] = outcome[scans]]
  BY <1>1, <1>4, <1>5 DEF How
<1>8. /\ Running = scans /\ Running' = NoScan
      /\ Presented' = IF outcome[scans] = "failed" THEN NoScan ELSE scans
  BY <1>1, <1>4 DEF Running, Presented
<1> DEFINE Ways == {"completed", "removed", "failed"}
                     \cup {c \in {"cancelled"} : Running \in asked}
<1>9. outcome[scans] \in Ways
  BY <1>6, <1>8
<1>10. \E h \in Ways : /\ How' = [How EXCEPT ![Running] = h]
                       /\ Presented' = IF h = "failed" THEN NoScan ELSE Running
  BY <1>7, <1>8, <1>9
<1> QED BY <1>1, <1>5, <1>8, <1>10 DEF Service!End, Service!NoScan, Running, Presented, How

\* Closing the window takes the verdict with it.
LEMMA ServiceClose ==
  ASSUME IInv, Close
  PROVE  Service!Close
<1>1. /\ ui = "pump" /\ ui' = "closed"
      /\ UNCHANGED <<scans, scanning, asked, handled, banner, outcome>>
  BY DEF Close
<1>2. UNCHANGED <<Running, How>> /\ Presented' = NoScan
  BY <1>1 DEF Running, How, Presented
<1> QED BY <1>1, <1>2 DEF Service!Close, Service!NoScan, Running, Presented, How

\* A step of a thread shows nothing of itself.
LEMMA ServiceWorker ==
  ASSUME IInv, NEW s \in Scans, Worker(s)
  PROVE  UNCHANGED Service!vars
<1>1. worker[s] \in {"scanning", "posting", "posted"}
  BY DEF Worker, WorkerFile, WorkerScanned, WorkerPosts, WorkerReturns
<1>2. s \notin handled
  BY <1>1, RunningThread
<1>3. \A t \in handled : outcome'[t] = outcome[t]
  BY <1>2 DEF Worker, WorkerFile, WorkerScanned, WorkerPosts, WorkerReturns, IInv,
     TypeOK, WindowTypes, WorkerTypes
<1>4. UNCHANGED <<ui, scans, scanning, asked, handled, banner>>
  BY DEF Worker, WorkerFile, WorkerScanned, WorkerPosts, WorkerReturns
<1> QED BY <1>3, <1>4, ServiceStutter

LEMMA ServiceStep ==
  ASSUME IInv, [Next]_vars
  PROVE  [Service!Next]_(Service!vars)
<1>1. CASE UNCHANGED <<ui, scans, scanning, asked, handled, banner, outcome>>
  BY <1>1, ServiceStutter
<1>2. CASE ClickScan \/ HandleChange
  <2>1. /\ ui = "pump" /\ ~scanning /\ UNCHANGED <<ui, outcome, asked, handled>>
    BY <1>2 DEF ClickScan, HandleChange
  <2>2. Started \/ UNCHANGED <<scanning, banner, scans>>
    BY <1>2, Zenon DEF ClickScan, HandleChange, AutoScanned, NotStarted
  <2> QED BY <1>1, <2>1, <2>2, ServiceStart DEF Service!Next
<1>3. CASE ClickCancel \/ HandleDone \/ Close
  BY <1>3, ServiceCancel, ServiceEnd, ServiceClose DEF Service!Next
<1>4. CASE \E s \in Scans : Worker(s)
  BY <1>4, ServiceWorker
<1>5. CASE TakeDone
  <2>1. /\ ui = "pump" /\ ui' = "join"
        /\ UNCHANGED <<scans, scanning, asked, handled, banner, outcome>>
    BY <1>5 DEF TakeDone
  <2> QED BY <2>1, ServiceStutter
<1>6. CASE \/ HandleProgress \/ ClickRefresh \/ ToggleAllDrives \/ ToggleAutoScan
           \/ (\E v \in Volumes : Select(v)) \/ IgnoreChange
           \/ \E id \in UsbIds : PlugIn(id) \/ PullOut(id)
  <2>1. UNCHANGED <<ui, scans, scanning, asked, handled, banner, outcome>>
    BY <1>6 DEF HandleProgress, ClickRefresh, ToggleAllDrives, ToggleAutoScan,
       Select, IgnoreChange, PlugIn, PullOut
  <2> QED BY <1>1, <2>1
<1>7. CASE UNCHANGED vars
  BY <1>1, <1>7 DEF vars
<1> QED BY <1>2, <1>3, <1>4, <1>5, <1>6, <1>7 DEF Next, Pump, User, Device

\* The window implements ScanService: scans one at a time, each with one end that
\* it was really given reason to, presented only while it is the last.
THEOREM WindowIsScanService == Spec => ImplementsScanService
<1>1. IInv /\ [Next]_vars => [Service!Next]_(Service!vars)
  BY ServiceStep
<1> QED BY ServiceInit, <1>1, Invariance, PTL
        DEF Spec, ImplementsScanService, Service!Spec
=============================================================================
