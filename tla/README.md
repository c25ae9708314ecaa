# USB Sentinel: TLA+ verification

TLA+ models of the parts of USB Sentinel where state, failure and order meet,
TLC configurations that check them on small instances, and proofs that the
TLA+ proof system checks for every value of the constants. Paths below are
those of the repository; the code is under `src/`, its headers under
`include/usbsentinel/`.

Contents: [the system](#the-system), [the modules](#the-modules),
[the runs](#the-runs), [disagreements found](#disagreements-found),
[known departures](#known-departures), [the proofs](#the-proofs),
[what is only model-checked](#what-is-only-model-checked),
[what is not modelled](#what-is-not-modelled), [the plan](#the-plan),
[running it](#running-it).

## The system

USB Sentinel lists the volumes attached, walks one of them read-only, hands
every file to its detectors and writes a report. One scan engine has three
front ends: a command line, a native window (Windows) and a local web server
with a page (Linux, macOS). They run as separate processes and share one report
store.

```
 window (gui_window.c) --start/cancel--> worker thread --progress/done messages--> window
 page --HTTP--> server thread (http_server.c, gui_web_app.c) <--mutex--> worker thread
 command line ----------------------------------------+
                                                      v
                       usbs_scanner_scan (scanner.c) walks, calls detectors per file
                          |                 |                    |
                  platform layer    detectors + location   report.c -> storage.c
                  (fs_*, hash_*)    policy (location.c)     (reports, index.json)
```

### Components

For each: the state it keeps, its operations, what it interacts with, what is
hard about it, and what makes it correct.

**Scan orchestration and walk** (`src/scanner/scanner.c`, `src/core/scan.c`,
`src/detectors/registry.c`). State: `traverse_state_t` (counters, `cancelled`,
`device_removed`), one result slot per per-file detector, the check list.
Operations: `usbs_scanner_scan`, the recursive `walk_dir`,
`classify_path_failure`. Calls the platform layer and the detectors; calls back
for cancellation and progress. Hard: the stick goes and comes back at any point,
a directory that fails may be refused or gone, a cancel arrives anywhere.
Correct when nothing is passed over silently, an abort has a reason, and a
detector's check is all or nothing.

**Location policy** (`src/core/location.c`). Stateless: seven kinds of place on
an internal drive, the first matching rule wins. Hard: places lie inside one
another (Startup in the Start Menu). Correct when no real threat is weighed
down and whatever is left out is counted.

**Detectors** (`src/detectors/`). `autorun.c` (a check of the whole volume after
the walk), `suspicious_filename.c` (names only), `lnk_inspect.c` (a bounded
parser, with policy), `hash_match.c` with `signature_list.c` (a process-wide list
loaded once, a size filter, a binary search). Hard: a file that is listed and
then cannot be read, a list edited by hand, runs of equal sizes. Correct when a
verdict about a file depends on what the file is and not on luck.

**Platform layer** (`src/platform/fs_posix.c`, `fs_win32.c`, `hash_posix.c`,
`sha256.c`). Directory iterators, reads, atomic writes. Hard: the status of a device
that vanished; a write that is cut short.

**Device enumeration** (`src/platform/device_linux.c`, `device_win32.c`,
`device_macos.c`) **and identity** (`src/core/device.c`). State: the list being filled
and the record of the entry being read. On Linux a record is put together from a
directory, a few attribute files, the mount table and the UUID links, one after the
other. Hard: sticks and mounts change between any two reads; the list is made again
when a scan is asked for, and only an identity connects the two lists. Correct when a
volume nothing happens to is listed once and right, and what is scanned is what was
picked.

**JSON** (`src/core/json.c`). A writer with a sticky error and a stack of 32
levels, a recursive-descent reader. Hard: every allocation may fail in the middle
of a nested value. Correct when what is written is JSON, what is read is JSON
(with the literals the reader takes differently, see
[known departures](#known-departures)), and no failing path leaks or frees twice.

**Report builders** (`src/reporting/report.c`) and **report view**
(`src/gui/gui_report_view.c`): a finished result as JSON, CSV, text, and as the
verdict shown; the page draws the verdict a second time in JavaScript. Correct
when "ALL CLEAR" is earned and a threat is what is said loudest, in each of them.

**Page** (`src/gui_web/assets/index.html`). State: `scanning`, the polling timer, the
devices, the banner. It starts a scan, asks for its progress every 350 ms and then for
its report. Hard: replies come in any order and some are not read; a reload forgets
everything while the server goes on scanning. Correct when a scan that the page says
is running comes to an end on the page too.

**Report store** (`src/storage/storage.c`). Files: a directory per device with
two reports per scan, and `index.json`, a cache. Operations: write a report,
refresh the index, look up the last scan. Hard: processes share it without a
lock, calls fail, processes die, the index may be damaged. Correct when saved
reports stay, the last-scan answer depends on no cache, and the index is whole.

**GUI worker** (`src/gui/gui_worker.c`). The body of the scan thread and the
cancel flag, used by both graphical front ends; it ends in exactly one `on_done`.

**Window procedure** (`src/gui/gui_window.c`). State: devices and selection, the
set of identities already scanned automatically, the running thread, the banner.
Operations: messages from the user, the device notifications, the worker's
progress and done messages. Hard: the messages' order, the join, a window closed
or a device pulled during a scan, notifications that come several at a time.

**Web GUI application** (`src/gui_web/gui_web_app.c`) and **HTTP server**
(`src/gui_web/http_server.c`). State behind one mutex: `busy`, the progress, the
last result, the cancel flag. Operations: the routes, the worker's callbacks,
shutdown, free. Hard: check-then-act over two critical sections, a pointer used
after the mutex is released, a shutdown that gives up on a scan, clients that are
silent or leave.

**Launch and single-instance lock** (`src/app_gui_web/main.c`). State: the `flock`
and the address line in the lock file. Hard: a lock belongs to an open file
description, which the browser inherits; every step may fail; the address
outlives its server.

**Command line** (`src/cli/`). A process that scans, prints, saves, and exits with
a status.

**The rest**: logging, paths, environment, error names, version, entry points,
packaging. Stateless, or without behaviour of their own.

`PROJECT.json` lists the components with what is modelled of each, and the
hazards of the code at their lines.

## The modules

| module | models | composed of |
|---|---|---|
| `Scanner` | one scan of one volume: walk, removal, cancel, check list | |
| `FileRules` | location policy, name rules, shortcut rules: what is said of one file | |
| `Verdict` | JSON report, the window's and the page's verdict, the exit status | `Scanner`, `FileRules` |
| `Devices` | the Linux enumeration read by read, identities, who is scanned | |
| `ScanService` | abstract: what a front end promises of its scans | |
| `WebGui` | server loop, routes, worker callbacks, shutdown | implements `ScanService` |
| `WebPage` | the page against the server, requests and replies | |
| `WinGui` | window procedure, message queue, worker, hot-plugging | implements `ScanService` |
| `Store` | report files, index, last scan, several processes | |
| `SingleInstance` | `flock`, address file, browser child, failing starts | |
| `Json` | writer call by call, reader token by token, allocations | |
| `HashMatch` | signature list, size filter, binary search | |
| `MC*` | instances for TLC | one each |
| `*Proofs` | theorems about the module of that name; `VerdictProofs` has those about `Scanner` and `FileRules` too | |

### How they correspond to the code

*Scanner.* `frames` is the stack of `walk_dir` activations, `left` the part of a
listing not fetched yet, in any order. A handle belongs to the attachment
(`epoch`) it was opened under, so it is dead after a removal although the stick
is back. `pc` is the place in `usbs_scanner_scan`/`walk_dir`: `enter` (depth check
and open), `probe` (`classify_path_failure`, which asks about the root after the
failure), `check` (the cancel at the head of the loop), `next` (`dir_next`),
`inspect` (the slots' `on_file`), `finish`, `whole` (`run_whole_check_detectors`).
What the platform answers for a vanished volume is the constant `DeadStatuses`:
`IO` on Windows and for `EIO`, `NOT_FOUND` on POSIX for `ENXIO` and `ENODEV`.
A finding is a file and a severity; `"suppressed"` is a match the policy leaves out
and counts. What a detector says of a file is the constant operator `Says`, with the
way its reading went: all of it, broken off, or not opened at all.

*FileRules.* A path is a sequence of names, a name the sequence of its parts between
dots, in lower case. The tables of extensions are the code's. `Classify` has the
rules in the code's order. The shortcut parser is abstracted to what it concludes:
oversized, malformed, plain, interpreter target, suspicious argument, or both.
The search for override characters and for runs of spaces is a trait of the name.

*Verdict* gives `Scanner` those rules as `Says` (in the `.cfg`: `Says <- Rule`) and
adds `gui_report_summarize`, the fields of the JSON report the page reads, the
page's `summarize`, and the exit status. The reference sets `Exposed` and
`Components` say independently of `Classify` which files lie where users open files
and which in the component store; `Threat` is stated with them.

*Devices.* A block entry is a disk and a partition number; `phase` is the place in
`linux_enumerate` and `handle_block_entry`, one action per read: the next name of the
directory, the partition test, `usb_walk_up`, the attribute files, the `dev` file,
`fill_mount_info`, `media_present`, the push. `own` is `own_partition`, `item` the
`usbs_device_t` on the stack, `items` the list. Between any two reads `World` pulls or
plugs a stick, mounts or unmounts. A line of the mount table says how it is mounted
(`Hows`): by the kernel, by a FUSE helper, whose line has a device number of its own,
on a plain file, or as the root. `purpose` is who enumerates: `handle_devices`,
`handle_scan_start`, or the scan command. What is taken for granted: a device number
names one disk for as long as an enumeration lasts; the walk over at most 12 levels of
`sysfs` is the constant `Usb`; the mount table is read in one step, and so are the
attribute files while the stick is there; the page's `safe_id` stands for the identity. A
mount line carries the volume mounted, where the code keeps a path: that another volume is
mounted at the same path between the look-up and the walk's first open cannot be expressed.

*ScanService* has `Start`, `AskCancel`, `End`, `Close`: scans one at a time, each ends
once, as "cancelled" only if that was asked while it ran, and what is presented is
of the scan last started. `WebGui` and `WinGui` each have the refinement mapping at
their end (`Service`), and the runs check `Service!Spec` as a property. Neither
mapping hides a step: in `WebGui` a start is the critical section that sets `busy`,
an end the one that clears it; in `WinGui` an end is the handling of the done
message, after the join.

*WebGui.* One action per critical section of `gui_web_app_t`, per system call of the
loop that may block, and per step of a worker. `heap` holds the results allocated.
`ReportTaken`/`ReportSent` are the two halves of `handle_report` around the building
of the report outside the mutex. `BrokenPipe` is the write to a client that has
closed its connection, without `MSG_NOSIGNAL`.

*WebPage.* A request is handled in one step, since the threads of the server are in
`WebGui`; requests and replies are sets, so they overtake each other, and several equal
ones count as one. `Take` is the resumption of the function that awaits a reply.
`Text` and `Sent` are, for each reply whose length the code gives as a number, the
length of the text and that number.

*WinGui.* `queue` is the thread's message queue; posting may fail (`PostOutcomes`),
so may enumerating and starting. `Listed` is `populate_devices`, selection and
auto-scan candidates included; `AutoScanned` is the rest of `handle_device_change`.
`ui = "join"` is the wait in `handle_scan_done`.

*Store.* Each action is one system call or the code between two; `pc` says which of the
three files a process writes and what it does next to it. A file is a number
with a content; `index.json` and `index.json.tmp` are names for files. A writer holds
a file by number, so it goes on writing to a file that another process has renamed:
the POSIX semantics of an open descriptor. A crash of a process leaves its files as
they are; the crash of the machine is not modelled.

*SingleInstance.* `keepers` is who has the lock file's description open: the launch
itself ("server") and the browser it started. The lock is released when no one has.

*Json.* Characters are inside tokens. Three tokens stand for the literals that JSON and
the lexer take differently: `"raw string"`, `"loose number"` and `"long number"`; `Lexed`
is what `parse_string_literal` and `parse_number` make of them, and `AsRead` the text as
the reader sees it. The writer's calls come in any order, misuse
included; the reader works token by token with a stack of frames, each with the
blocks it owns. The grammar the two are compared with is stated over spans of the
text and shares no definition with them.

*HashMatch.* A signature file of lines, well-formed or not; `Sorted` is any order
`qsort` may produce; `LowerBound` and `Lookup` are the loops. A digest is a value,
`Partial` that of content nobody listed.

## The runs

Eight runs pass, four find a violation on purpose
([below](#disagreements-found)). "States" are distinct states.

| run | states | shows |
|---|---|---|
| `scanner` | 1 303 868 | `NoSilentLoss`, `AbortIsJustified`, `AllOrNothing`, `EveryCheckReported`, `CancelBounded`, `ClearIsEarned`, `ThreatIsLoud`, `Terminates` |
| `webgui` | 217 490 | `OneScan`, `ReportPointerLive`, `HeapExact`, `SavedBeforeShown`, `ProgressBelongsToScan`, `ImplementsScanService`, `ScanEnds`, `StopEnds` |
| `wingui` | 611 600 | `WorkersJoined`, `BannerIsCurrent`, `NoStaleMessage`, `AutoScanOnce`, `ImplementsScanService`, `ScanningEnds` |
| `devices` | 1 894 332 | `SteadyListed`, `OwnIdentity`, `FoundIsPicked` |
| `store` | 1 398 186 | `SavedStaysSaved`, `LastScanIsNewest`, `IndexMentionsReports`, `IndexWholeAlone`, `IndexTruthful`, `IndexKeepsOthers` |
| `instance_lock` | 3 615 | `OneServer`, `LineIsServers` |
| `json` | 4 112 798 | `FinishedIsJson`, `ReaderExact`, `NoLeak` |
| `hash_match` | 1 233 336 | `MatchesExact` |

The runs of `WinGui`, `Devices` and `Store` check the module's `TypeOK` too: there it says
more than types, that the volume selected is listed, that a record is being filled exactly
while an entry is read, that no file is two things at once. The `TypeOK` of `Scanner`,
`WebGui` and `SingleInstance` are proved, and not run.

**scanner.** The volume has the interesting places of an internal drive: a package
tree with a disguised script, a link and a name too long; a scratch directory of the
project's own tests, which is excluded; a Start Menu with an interpreter shortcut,
which is suppressed there; its Startup folder with the same shortcut, which is high;
below it a directory one level too deep. The root and two directories below it may be
refused, opened or listed, by a volume that is there (or the root is missing: the same
failure to `walk_dir`), one file may be unreadable, the stick may be pulled and put back twice, a cancel may come at any
time, and the slots may not be allocated. A directory of the instance stands for a
chain of directories that list only the next: `Place` gives its path, so the depth
limit is 2 instead of 64. Two attachments more than the first are enough for a
handle to be dead while the root is reachable, and for that to happen again while
the walk unwinds. `AbortIsJustified` names the three reasons the code has for giving up: a
cancel, a removal, a root that does not open; `rootRefused` is the history of the last.
`ClearIsEarned` speaks of both verdicts at once: that they agree
when one says "clean", that the checks that ran are all those registered, but for the
per-file ones when there was no memory for their slots, and that of each file read
every match was at most a note or was counted as suppressed. `ThreatIsLoud` goes the
other way, for scans that had memory for the slots.

**webgui.** Two scans of up to two files (one after another, or a second one
requested while the first is saving), any requests in any order, clients that leave
or stay silent, a stop at any time, a shutdown that gives up after one poll instead
of about fifty. A second scan is what `busy`, the result pointer and the
counters can be confused by; a third adds no new relation, and the proofs cover it.

**wingui.** Two scans of at most one file, with every interleaving of worker, queue and
user; enumerations, starts and posts that fail; a stick with two volumes, so that one
insertion shows as two volumes and an identity is not a volume, that is pulled and put back
once, with the notifications late and in bunches; a fixed drive that "Show all drives" lists
and that must never be scanned unasked. The auto-scan set holds that stick (`TrackMax = 1`).
One scan with a file shows the counts; a second scan is what a late message, a stale banner
or a thread not joined would be mistaken for. More sticks and scans are covered by the proofs.

**devices.** Stick A with two partitions and a serial number, stick B without a partition
table and without a serial number, an internal disk; two orders of the directory, three
mount tables to start from with a FUSE mount, a volume bound to a file and one mounted twice;
one mount point per record (`PointsMax`), so that the second is one too many; three changes
of the system at any point of any enumeration: enough to pull a stick, put it back and
mount it again between two reads of one entry. Enumerations go on without bound, of the page,
of the start of a scan and of the command.

**store.** Two processes, two scans, two devices whose identities stay apart, two
different seconds; a create, a write, a rename or a listing may fail each time it is
tried, one process may be killed anywhere, and the index deleted or overwritten once.
`overlapped` records that two processes have saved at the same time: the three
properties of a refresh hold for as long as none have, the others always. Two scans
are one per device or two of one device, which is what "newest", "other devices'
entries" and a race need. A failing read of an index that is there is left out of the
faults: it is treated as an empty index by design, and the other devices' entries are
gone from it until their next scans.

**instance_lock.** Three launches: one that serves, one that is refused and one that
comes after a crash. Every step may fail, any launch may be killed, any browser may
live on. Launches are interchangeable, and the run uses that symmetry.

**json.** Texts of up to eight tokens, two levels instead of 32, an item array that
must grow with the second item, one token damaged, memory that may run out at every
allocation. Eight tokens hold an object with an array in it, and one level more than
allowed. The damaged token may become any other, the three disputed literals included.

**hash_match.** Files of up to three lines over three sizes, one beyond the limit, and
two digests; one edit; scan after scan. Three lines are the least with a run of
equal sizes beside another size, on either side of it.

### Bounds

`MaxUnplugs`, `MaxDepth` (Scanner); `MaxScans`, `MaxFiles`, `MaxPolls` (WebGui);
`MaxScans`, `MaxFiles`, `MaxPlugs`, `TrackMax` (WinGui); `PointsMax`, `MaxChanges`
(Devices); `MaxScans`, `MaxReloads` (WebPage); `MaxScans`, `MaxClock`,
`MaxCrashes`, `MaxDamages` (Store); `MaxText`, `MaxDamages`, `WriterMaxDepth`,
`ParseMaxDepth`, `FirstCapacity` (Json); `MaxSize`, `MaxLines`, `MaxEdits` (HashMatch).
`MaxDepth`, `MaxPolls`, `TrackMax`, `PointsMax`, `WriterMaxDepth`, `ParseMaxDepth`, `FirstCapacity`
and `MaxSize` are limits of the code with smaller values; the others bound the
exploration only.

### Fairness

*Scanner*: weak fairness of the scan as a whole. It has a thread of its own and waits
for nothing but the operating system; a read that hangs for ever is outside
`Terminates`. *WebGui*: the server thread runs (`ServerFairness`: `select` has a timeout
of a second, a handler does not wait for anyone). Nothing is assumed of workers and
clients in the specification. `ScanEnds` has the fairness of workers as its
premise, `StopEnds` that of clients: a stop ends the process although a scan hangs,
but not while a connected client stays silent, since the server waits for it. A client that
does not read its reply would hold it up likewise (`send_all` has no timeout either); there a
reply is part of the handler's step, so that it is read is taken for granted. *WinGui*:
the message loop takes what is posted, and worker threads run; the user is not
assumed to do anything. *WebPage*: the timer fires, requests are handled, replies are
delivered (strongly, as a poll may overtake a reply again and again), and scans end: under
these the page should come to an end, and does not. `SingleInstance`, `Store`, `Devices`,
`Json` and `HashMatch` state safety only.

## Disagreements found

Four runs check what a comment or a document says and find that the code does
otherwise.

- `scanner_gone_is_end` (`NoSilentLoss`). `fs_posix.c` maps `ENXIO` and `ENODEV` to
  `USBS_ERR_NOT_FOUND`, the status with which `dir_next` also says "end of listing",
  and `walk_dir` takes it for that. A stick pulled in the middle can leave a scan
  `COMPLETED` with nothing skipped, where `scanner.c` promises that a skip is never
  silent.
- `web_page_stuck` (`ScanIsWatched`). `gui_web_app.c` gives the lengths of nine of its fixed
  replies as numbers that are one or two too large, so the body ends in a NUL byte and
  `response.json()` rejects it; nothing on the page catches that. The reply to a start is
  one of them (`gui_web_app.c:502`): the scan runs, and the page says "Scanning..." for ever
  without asking after it, where `README.md` says that one watches the progress and gets a
  verdict. With the right lengths, one scan and no reload the property holds (305 664 states).
- `store_torn_index` (`IndexWhole`). Every process uses the same `index.json.tmp`: one
  can rename the file another has just truncated. ARCHITECTURE.md says that a reader
  never observes a partial file.
- `instance_browser` (`RefusedWhileRunning`). The browser inherits the descriptor of
  the lock file, so the lock outlives the server, where `main.c` says that it is
  released on exit or crash.

## Known departures

Behaviour met while modelling which no run is devoted to. Where a property has to step
around one of these, its comment says so.

- *Scan.* A volume pulled between the walk and the autorun check: `NOT_FOUND` is
  reported as "no autorun.inf" of a completed check. Without memory for the slots the
  per-file checks are absent from the report, and it can still be ALL CLEAR:
  `gui_report_view.h:47-48` says that for this every check must have run, and
  `gui_report_view.c:279` then displays "Every check ran", while the summary looks only at the
  checks that are in the report. `ClearIsEarned` names the exception, and
  `AllClearNeedsEveryCheck` proves that without it the promise is kept. Failing
  `usbs_check_list_push` and `usbs_finding_list_push` are ignored, with the same effect one
  check at a time; that is not modelled. That a tree was cut
  at the depth limit, or a path too long, is logged only.
- *Detectors.* A file a detector cannot open or read is passed over and not counted in
  `paths_skipped`. A shortcut whose reading breaks off is reported as malformed.
  `suspicious_filename.c` says a leading dot is not a separator, and its loop counts it.
  The exclusion of test fixtures is asked before the places where users open files. The
  signature list is loaded once per process, and a load that failed is never retried.
- *Cancelled scans.* `gui_report_view.c` and the page keep "a high-severity hit found before
  a scan was cancelled" louder than "incomplete", but the scanner has discarded such a hit by
  then, with all findings of the scan, and the verdict is INCOMPLETE.
- *Devices.* The volumes of one stick, and sticks of one model without serial numbers, have
  one identity: picking the second scans the first, or is refused if that is not mounted
  (`FoundIsPicked` speaks of the volume only where there is no other of that identity). The
  scan command without a target takes the first USB volume with a medium, mounted or not.
- *Page and verdict.* With the right lengths, replies about the first of two scans that come
  late could still end the second one on the page, or show the first one's report. The page's
  ALL CLEAR does not mention skipped locations. Its table of
  names has `hash_match`, while the id is `hash_match_example`. A cancelled scan is
  explained as having found nothing so far, although findings were discarded.
- *Web server.* A client that connects and stays silent, or does not read its reply,
  blocks every other and a stop. A
  write to a client that has left kills the process and the scan with it. After a
  shutdown that gave up, the worker calls back into an app that has been freed, in the
  moment before the process exits.
- *Window.* A lost done message leaves the window in "scanning" and impossible to close.
  When the list is refreshed the selection may move to another volume of the same stick.
  A stick pulled and put back during a scan is not scanned again, where a comment says that
  it is. When the auto-scan set is full (`GUI_AUTO_SCAN_TRACK_MAX`, eight), the newest
  identity is not guarded: `AutoScanOnce` holds with at most that many sticks.
- *Store.* Two processes can lose an index entry; a corrupt index is not rebuilt from the
  reports. Two scans of one device in one second are ordered by their random ids. Two
  identities that differ only in a character and its escape share a directory.
- *JSON.* The writer accepts a second value outside any container and an object closed
  after a key. It accepts a scalar inside the 32nd container, which the reader rejects.
  A number beyond the range of `long long` is converted without a check. `json.h:96` says
  that malformed JSON returns a non-OK status, and the reader accepts control characters as
  they are inside a string (`json.c:483-587`) and `01`, `1.` and `-.5` as numbers
  (`json.c:605-613`, `631`); a JSON number of 64 characters or more it refuses (`json.c:624`).
  `ReaderExact` is therefore stated over the literals as the lexer takes them. Whether the bytes
  of a string are UTF-8 is asked neither by the reader nor by the model.

## The proofs

TLAPS checks every obligation; nothing is assumed but the named `ASSUME`s on constants,
which TLC evaluates in the runs, and the premises that a theorem states.

**VerdictProofs**, first about the scan, for any finite or infinite tree, depth limit, set of
detectors and number of removals. `TypeCorrect` (`TypeInv`). `AbortsAreJustified` from `AbortInv`: if
the walk stopped early then a cancel was asked, the epoch has moved or the root was refused by
a volume that was there; a dead handle implies that it moved. `NothingLostSilently` proves `NoSilentLoss` under the premise
that `NOT_FOUND` is not in `DeadStatuses`, which is what the violation run drops. Its
invariant, `CoverInv`, says of each directory opened that an entry not accounted for is
still in the `left` of a frame, or is the target about to be entered, or something was
skipped, or the walk has been given up; the obvious property is not inductive because it
is only about the end. `CancelsAreBounded` rests on the check at the head of the loop: where
the next entry is fetched, none has been fetched since the cancel. `ChecksAreAllOrNothing`
and `EveryCheckIsReported` share `RecordInv`: the slots are all there or none is; each slot
holds, of each file walked, no more than its detector says of the whole file, and no less
unless the file could not be read (`SlotInv`); `checks` has nothing before the end but the
traversal. `AllOrNothing` alone says nothing of the slots before they are reported.

Then about the rules, for every path, name and content.
`SuppressionsAreCounted`: on an internal drive a file is said something about exactly when
it would be on a stick, if only "suppressed". `ExposedIsStrict`: where users open files the
policy changes nothing. `AttacksStayHigh`: what has no benign producer is high on every
drive.

Last, for every volume, drive and number of unplugs, the scan and the rules together.
They follow from `RecordInv`, since a verdict is drawn once the
scan has ended and keeps no state. `WholeIsReported` is the bridge: of a file that nothing kept
from being read a completed scan reports exactly what the rules say; `RegistryAssumption` is what
makes the detectors of `Scanner` those of `FileRules`, and TLC evaluates it. Then
`AllClearIsEarned` needs `SuppressionsAreCounted`, for the files about which nothing is said, and
counts the checks that ran; `AllClearNeedsEveryCheck` is what it comes to where the slots can be
allocated (`FALSE \notin SlotOutcomes`): a clean verdict only after every registered check ran. And
`ThreatsAreLoud` needs `AttacksStayHigh` and `ExposedIsStrict`. `ThreatsAreLoud` assumes
`ReferencesHold`: the sets the property is stated with, the places where users open files and the
component store, are what `usbs_location_classify` takes them for. On the instance of the run they
are written down by hand and agree with it.

**WebGuiProofs**, for any number of scans, files and polls. One invariant for all: the
types; `WorkerInv` (what each worker may be doing given `scans` and `busy`); `AppInv` (`done`
and the result pointer); `OneScan`; `HeapExact`; and, for the history, `CancelledWasAsked`
and `ProgressBelongsToScan`. `ReportPointerLive` needs `OneScan` (nobody else can finish or
start while the server thread builds a report, since starts are its own requests and
`busy` is off), and `HeapExact` needs `AppInv`. `SavedBeforeShown` follows from `WorkerInv`.
`ServerIsScanService` is the refinement: with the invariant, each action is a step of
`ScanService` or leaves its variables alone.

**WinGuiProofs**, for any sticks, volumes and identities, any number of scans, files and
insertions. The invariant has four parts beside the types. `ScanInv`: the window scans exactly
while it has a thread, which is that of the scan last started, and no later one has left a
trace. `QueueInv`: what is queued is of that scan, in order, the done message last and only
when its thread is past posting it. `ResultInv`: the counts and outcomes recorded are those of
the threads. `AutoInv`: a stick that was scanned automatically and is still there is in the
auto-scan set. `ThreadsAreJoined`, `BannerBelongsToScan` and `MessagesAreOfTheScan` follow;
each is a conjunct of a part, and none is inductive alone: that a message is of the running
scan needs the join, and that the join ends needs to know where the thread is when its message
is there. `AutoScansOnce` assumes finitely many sticks, at most `TrackMax` of them.
`WindowIsScanService` is the refinement, from the same invariant.

**StoreProofs**, for any number of processes, devices, scans, seconds, crashes and damages, and
any faults. `WriterInv`: no two processes write for one scan, a file is whole exactly when its
writing was reported as done, and a report not yet written is not among the saved. From it,
`ReportsStaySaved`. `NamesInv`: the file a process brings for the index is nobody else's, and
`index.json.tmp` is never the file that is `index.json`. `AloneInv`: while no two processes have
saved at once, what a process has read of the directory and of the index is still true when it
renames. From these `IndexIsWhole`, `RefreshTellsTheTruth` and `OthersAreKept`; the last assumes
that reading the index does not fail. `LastScanIsFound` adds `TimeInv`: scans are numbered in the
order of their seconds, so that the greatest name is the newest report. It and
`RefreshTellsTheTruth` assume `Apart`, that two identities never have one directory, which the
escapes of `usbs_store_safe_id` do not guarantee. `IndexIsNeverFalse` holds with any number of
processes at once, so it cannot use `AloneInv`: `IndexInv` says instead that every entry anywhere
(what a process has found in a directory, what it has read of the index, what stands in any file,
`index.json` or not) names a report of its directory and counts no more than are there. Since
reports only come (`ReportsOnlyCome`), an entry once true stays so wherever it is carried
(`MentionsStays`). That what is found is there needs `GreatestName`: the names of a directory,
ordered by second and then by id, have a greatest one, since no two scans have one id (`IdsInv`).
`TypeCorrect` adds `ContentsInv` to the types the other proofs use: what stands in an index,
which is carried from a file through the memory of a process into another file.

**SingleInstanceProofs**, for any set of launches and faults. The invariant adds to the types:
`LockHeld` (a running launch that did not go without owns the lock, and keeps its
description open), `AddressesServed`, and `LineOfOwner` (the line is that of the owner once it
has written it). `AtMostOneServer` holds with browsers that keep the lock: they make refusals
more frequent, never servers.

**DevicesProofs**, for any sticks, mount tables and changes between two reads. `RecordOk`: a
record is about one entry of the directory, from the moment the entry is taken, so its ids are
those of that stick and its mount lines those of that volume. `FillingInv` and `ListInv` carry it
through the reads and into the list, and `IdentitiesAreOwn` follows. `ScannedIsPicked` adds
`RequestInv`: what the page asks for is what a list once showed of the volume picked (`AsksFor`),
however old that list is; a record found by that identity is of the same stick or of one like it.
`TypeCorrect` says that no record has more mount points than there is room for, whatever the
mount table holds: `MountPoints` is a recursive function over the table, and `MountPointsAre` says
what it returns. `SteadyIsListed` is about change: a volume whose disk nothing happens to during an
enumeration is listed exactly once, as it is, whatever happens to the others. `PlaceInv` says
how far the directory has been read, `HandInv` that what has been filled in of a steady volume
agrees with the system as it is now, `ListedInv` that a steady volume behind the position is in the
list once and one before it is not. That something mounted or unmounted beside a volume leaves its
mount path alone, though lines move up in the table, is `MountedBeside` and `UnmountedBeside`.
The directory is assumed to name each entry once (`DevicesAssumption`), as `sysfs` does.

**HashMatchProofs**, for any sizes, digests, lists of any length and every order the unstable sort
may leave. `LookupsAreExact`: a file is reported exactly when an entry that was kept has its size
and its digest. `LowerBoundExact`: the bisection returns the first entry not smaller, or the end;
it needs that a list sorted by neighbours is sorted (`SortedOrder`) and that the half chosen still
holds the answer (`FirstInHalf`). `LookupExact`: the run of equal sizes from there on has every
entry of the size. `ValidType`: what is kept of a file of lines. An edit of the file after the load changes
nothing (`MatchInv`).

**JsonProofs**, for any depth limits, any length of text and any allocation that fails.
`NothingLeaks`: the property, and that no two owners share a block (`Apart`), is inductive with the
types; each way a call of the reader can end (`CloseKeeps`, `ReplaceKeeps`, `FailFrameKeeps`...)
hands every block over or frees it.
`ReadsExactly` compares the recursive descent with the grammar, which is the recursion `Values`
over depth and `Lists` over length. Its first part is about the grammar alone: what a list is made
of (`ListsAre`), what a value is (`ValuesAre`), that a longer text keeps the values it had
(`ValuesGrow`). `ReaderMoves` is the reader without its memory, nine ways to take a token. Then two
invariants, one per direction, each with a function of the stack that the reader does not
have. `SoundInv`: there are places where the open containers began, such that what has been read of
each is a list of items of the grammar, so that a value accepted is a value. `CompleteInv`: if the
text is JSON, there are places where the open containers end, such that the rest of each is as the
grammar has it, so that the token at hand is one the reader takes. Neither follows from
the property, which speaks of the end only. All of it is about the text `AsRead`, with the
literals as the lexer takes them; `ReadsJson` draws the conclusion to the letter for a text
without a disputed one (`Plain`).
`WritesJson` uses the grammar from the other side: as long as no misuse has gone unnoticed, what is written
is nothing, one value, or the beginning of one: the levels are containers not closed yet, each
with a list of items before the next one begins, and a comma is due exactly where an item stands
(`Written`, again with the places where the levels began). `FinishedIsJson` names the two misuses,
a second value outside any container and an object closed after a key. The proof shows that
there are no others.

## What is only model-checked

Liveness (`Terminates`, `ScanEnds`, `StopEnds`, `ScanningEnds`), which is beyond the provers: it
needs ENABLED, for fairness. Every other property of the runs that pass is a theorem, with the
premises named above. `WebPage` makes one point, that a page can be left scanning, by a run, and
the four disagreements are counterexamples of runs.

Where a proof needs induction over data (the mount table, a sorted list, a text), the library's
theorems are of no use, because they take an operator as parameter. It is done by hand, with two
means. A claim about all numbers is stated of the set of numbers at which it fails; if there is
one there is a least (`LeastExists`, from the well-foundedness of `<` on the natural numbers), and
the step refutes that (`Inductively`). And a recursive function is, by definition, any
function that satisfies its equation, so it has first to be shown that there is one (`LoopRuns`,
`SearchExists`, `ReadsAll`, `ListsUnfold`, `ValuesUnfold`). Where the models recur, they do so by such
functions and by no `RECURSIVE` operator, over which the provers cannot reason.

## What is not modelled

- The Win32 file system layer, and the enumeration of devices on macOS and Windows: calls into
  the operating system. `WinGui` takes what they return as a set of volumes or a failure.
- SHA-256: arithmetic, tested against published vectors.
- The parsing of `.lnk` files, of `autorun.inf`, of lines of the signature list and of HTTP
  request heads: byte by byte, abstracted to their conclusions.
- The text and CSV forms of a report, drawing, layout, wording, logging, paths, environment.
- The layout and texts of the page, and the escapes in the mount table and in device names.
- Memory failing inside detectors, and crashes of the machine.

## The plan

The order was: the scan (what the product is), the two front ends with the service they share,
the store, the launch, the two data structures with an exact specification, the rules and the
verdict over the scan, then what is offered for a scan and the page that asks for it; the proofs
followed the models in the same order.

What is left, in the models: the request head with its `Content-Length` and the bounded receive,
as part of `WebGui`'s `Receive`; the checks and findings that are lost when a push fails, in
`Scanner`; the autorun check read by read, and the enumeration on macOS and Windows, if their
sources gain behaviour of their own.

In the proofs: the safety of what the models gain by that; that what the reader accepts has the
value the grammar gives it, if `Json` is to tell values apart; and that each violation goes away with
its repair, as `NothingLostSilently` shows for the first.

## Running it

From this directory: `tlc -workers 2 -config scanner.cfg MCScanner` (each run's module is in
`PROJECT.json`), `tlapm WebGuiProofs.tla`. The longest run takes about two minutes.

Operators named "Mutant" in a comment are plausible bugs of the definition that follows them.
Nothing uses them; putting one in the place of its original makes the property listed with it in
`PROJECT.json` fail, which is how it is known that the property says something about the code.
