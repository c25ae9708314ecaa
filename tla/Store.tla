-------------------------------- MODULE Store --------------------------------
(***************************************************************************)
(* The report store (src/storage/storage.c over src/platform/fs_posix.c):  *)
(* one directory of reports per device, and index.json, a cache of them.   *)
(* The CLI and the two GUIs are processes that share it without a lock;    *)
(* each action is one system call of theirs, or a run of code between two. *)
(*                                                                         *)
(* A report is known by the number of its scan.  A device identity is a    *)
(* sequence of characters.  index.json and index.json.tmp are names for    *)
(* files, which writers hold open by number: a writer may still be writing *)
(* to a file another process has renamed.                                  *)
(***************************************************************************)
EXTENDS Naturals, Sequences, FiniteSets, SequencesExt

CONSTANTS
  Procs, Identities,
  Safe(_),     \* characters a path component may hold
  Hex(_),      \* of any other character, "_" and its two hexadecimal digits
  Faults,      \* which system calls may fail
  MaxScans,    \* bound: scans started
  MaxClock,    \* bound: seconds passed
  MaxCrashes,  \* bound: processes killed
  MaxDamages   \* bound: times index.json is deleted or corrupted from outside

ASSUME StoreAssumption ==
  /\ Faults \subseteq {"create", "write", "rename", "list", "read"}
  /\ MaxScans \in Nat /\ MaxClock \in Nat /\ MaxCrashes \in Nat /\ MaxDamages \in Nat

Scans == 1..MaxScans
NoScan == 0
NoFile == 0   \* no index.json, or no index.json.tmp; files are numbered from 1
Idle == <<"none", "idle">>   \* a process is at a step of writing one of the files
Formats == {"json", "csv"}

\* usbs_store_safe_id
SafeId(identity) ==
  FlattenSeq([i \in DOMAIN identity |->
                IF Safe(identity[i]) THEN <<identity[i]>> ELSE Hex(identity[i])])

Dirs == {SafeId(i) : i \in Identities}

VARIABLES
  pc, scan,     \* per process: where it is, and in which scan
  last,         \* per process: what refresh_index found in the directory
  existing,     \* per process: the index it has read
  fd,           \* per process: the file it writes the index to
  file,         \* per scan and format: the report file
  ident, stamp, id,     \* per scan: identity, started_at, scan_id
  index, tmp,   \* which file is index.json, index.json.tmp
  content,      \* per file: what it holds
  clock,        \* now, in seconds
  scans,        \* history: scans started
  saved,        \* history: reports write_report said were saved
  crashes, damages,
  overlapped    \* history: two processes have been saving at once

local  == <<pc, scan, last, existing, fd>>
naming == <<ident, stamp, id>>
cache  == <<index, tmp, content>>
counts == <<clock, scans, crashes, damages, overlapped>>
vars == <<local, file, naming, cache, counts, saved>>

NoEntry == [scan |-> NoScan, count |-> 0]
NoIndex == [d \in Dirs |-> NoEntry]
Empty == [state |-> "empty", devices |-> NoIndex]       \* nothing written yet
Garbled == [state |-> "garbled", devices |-> NoIndex]   \* no JSON document
Document(ix) == [state |-> "document", devices |-> ix]
IsDocument(c) == c.state = "document"

Dir(s) == SafeId(ident[s])
\* Mutant: the ending of the name is not looked at.
ReportsInAny(d) == {s \in 1..scans : Dir(s) = d /\ file[s]["json"] # "none"}

\* The names ending in .json that a listing of directory d shows.
ReportsIn(d) == {s \in 1..scans : Dir(s) = d /\ file[s]["json"] \in {"whole", "torn"}}

\* The order of the file names "<timestamp>-<scan-id>.json".
NameBefore(r, s) == stamp[r] < stamp[s] \/ (stamp[r] = stamp[s] /\ id[r] < id[s])

\* Mutant: the first name listed wins.
LastScanFirst(d) ==
  [scan  |-> IF ReportsIn(d) = {} THEN NoScan ELSE CHOOSE s \in ReportsIn(d) :
               \A r \in ReportsIn(d) \ {s} : NameBefore(s, r),
   count |-> Cardinality(ReportsIn(d))]

\* usbs_store_last_scan: the directory is listed, the greatest name wins.
LastScan(d) ==
  [scan  |-> IF ReportsIn(d) = {} THEN NoScan ELSE CHOOSE s \in ReportsIn(d) :
               \A r \in ReportsIn(d) \ {s} : NameBefore(r, s),
   count |-> Cardinality(ReportsIn(d))]

Init ==
  /\ pc = [p \in Procs |-> Idle] /\ scan = [p \in Procs |-> NoScan]
  /\ last = [p \in Procs |-> NoEntry] /\ existing = [p \in Procs |-> NoIndex]
  /\ fd = [p \in Procs |-> NoFile]
  /\ file = [s \in Scans |-> [f \in Formats |-> "none"]]
  /\ ident = [s \in Scans |-> <<>>]
  /\ stamp = [s \in Scans |-> 0] /\ id = [s \in Scans |-> 0]
  /\ index = NoFile /\ tmp = NoFile
  /\ content = [n \in Scans |-> Garbled]
  /\ clock = 0 /\ scans = 0 /\ saved = {} /\ crashes = 0 /\ damages = 0
  /\ overlapped = FALSE

-----------------------------------------------------------------------------
Tick ==
  /\ clock < MaxClock
  /\ clock' = clock + 1
  /\ UNCHANGED <<local, file, naming, cache, scans, crashes, damages, overlapped,
                 saved>>

\* A scan is named when it starts: generate_scan_id draws at random, the clock
\* counts seconds.
Begin(p, i) ==
  /\ pc[p] = Idle /\ scans < MaxScans
  /\ scans' = scans + 1
  /\ scan' = [scan EXCEPT ![p] = scans']
  /\ ident' = [ident EXCEPT ![scans'] = i]
  /\ stamp' = [stamp EXCEPT ![scans'] = clock]
  /\ \E n \in Scans \ {id[s] : s \in 1..scans} : id' = [id EXCEPT ![scans'] = n]
  /\ pc' = [pc EXCEPT ![p] = <<"json", "create">>]
  /\ overlapped' = (overlapped \/ \E q \in Procs \ {p} : pc[q] # Idle)
  /\ UNCHANGED <<last, existing, fd, file, cache, clock, crashes, damages, saved>>

-----------------------------------------------------------------------------
(* write_report_file, for the JSON report and then for the CSV report.     *)

\* Where the process goes when the file is written, and when it is not.
After(f, ok) ==
  IF f = "csv" THEN Idle ELSE IF ok THEN <<"index", "list">> ELSE <<"csv", "create">>

SetFile(p, f, state) == file' = [file EXCEPT ![scan[p]][f] = state]
Goto(p, where) == pc' = [pc EXCEPT ![p] = where]

\* The temporary file is created ...
CreateFile(p, f) ==
  /\ pc[p] = <<f, "create">>
  /\ \/ SetFile(p, f, "temp") /\ Goto(p, <<f, "write">>)
     \/ "create" \in Faults /\ Goto(p, After(f, FALSE)) /\ UNCHANGED file
  /\ UNCHANGED <<scan, last, existing, fd, naming, cache, counts, saved>>

\* Mutant: the result of the write is not looked at.
WriteFileUnchecked(p, f) ==
  /\ pc[p] = <<f, "write">>
  /\ \/ SetFile(p, f, "temp-whole")
     \/ "write" \in Faults /\ UNCHANGED file
  /\ Goto(p, <<f, "rename">>)
  /\ UNCHANGED <<scan, last, existing, fd, naming, cache, counts, saved>>

\* ... written and synced, or deleted again ...
WriteFile(p, f) ==
  /\ pc[p] = <<f, "write">>
  /\ \/ SetFile(p, f, "temp-whole") /\ Goto(p, <<f, "rename">>)
     \/ "write" \in Faults /\ SetFile(p, f, "none") /\ Goto(p, After(f, FALSE))
  /\ UNCHANGED <<scan, last, existing, fd, naming, cache, counts, saved>>

\* ... and renamed to the report's name, or deleted again.
RenameFile(p, f) ==
  /\ pc[p] = <<f, "rename">>
  /\ \/ /\ SetFile(p, f, IF file[scan[p]][f] = "temp-whole" THEN "whole" ELSE "torn")
        /\ saved' = saved \cup {<<scan[p], f>>}
        /\ Goto(p, After(f, TRUE))
     \/ /\ "rename" \in Faults /\ SetFile(p, f, "none") /\ Goto(p, After(f, FALSE))
        /\ UNCHANGED saved
  /\ UNCHANGED <<scan, last, existing, fd, naming, cache, counts>>

-----------------------------------------------------------------------------
(* refresh_index.                                                          *)

ListDir(p) ==
  /\ pc[p] = <<"index", "list">>
  /\ \/ /\ last' = [last EXCEPT ![p] = LastScan(Dir(scan[p]))]
        /\ Goto(p, <<"index", "read">>)
     \/ "list" \in Faults /\ Goto(p, <<"csv", "create">>) /\ UNCHANGED last
  /\ UNCHANGED <<scan, existing, fd, file, naming, cache, counts, saved>>

Readable == index # NoFile /\ IsDocument(content[index])

\* Mutant: an index that is there is not read.
ReadIndexNever(p) ==
  /\ pc[p] = <<"index", "read">>
  /\ existing' = [existing EXCEPT ![p] = NoIndex]
  /\ Goto(p, <<"index", "open">>)
  /\ UNCHANGED <<scan, last, fd, file, naming, cache, counts, saved>>

\* A missing, unreadable or corrupt index is an empty one.
ReadIndex(p) ==
  /\ pc[p] = <<"index", "read">>
  /\ \/ Readable /\ existing' = [existing EXCEPT ![p] = content[index].devices]
     \/ /\ ~Readable \/ "read" \in Faults
        /\ existing' = [existing EXCEPT ![p] = NoIndex]
  /\ Goto(p, <<"index", "open">>)
  /\ UNCHANGED <<scan, last, fd, file, naming, cache, counts, saved>>

\* Mutant: index.json is written in place.
OpenTempInPlace(p) ==
  /\ pc[p] = <<"index", "open">>
  /\ LET n == IF index = NoFile THEN scan[p] ELSE index
     IN  /\ content' = [content EXCEPT ![n] = Empty]
         /\ fd' = [fd EXCEPT ![p] = n]
         /\ tmp' = n
  /\ Goto(p, <<"index", "write">>)
  /\ UNCHANGED <<scan, last, existing, file, naming, index, counts, saved>>

\* open(O_CREAT | O_TRUNC) on index.json.tmp, the same name for every process.
OpenTemp(p) ==
  /\ pc[p] = <<"index", "open">>
  /\ \/ /\ tmp' = IF tmp = NoFile THEN scan[p] ELSE tmp
        /\ content' = [content EXCEPT ![tmp'] = Empty]
        /\ fd' = [fd EXCEPT ![p] = tmp']
        /\ Goto(p, <<"index", "write">>)
     \/ /\ "create" \in Faults /\ Goto(p, <<"index", "unlink">>)
        /\ UNCHANGED <<tmp, content, fd>>
  /\ UNCHANGED <<scan, last, existing, file, naming, index, counts, saved>>

\* Mutant: this device's entry is taken over from the old index.
NewIndexStale(p) ==
  [existing[p] EXCEPT ![Dir(scan[p])] = IF @ = NoEntry THEN last[p] ELSE @]

\* The document: the other devices' entries carried forward, this one's fresh.
NewIndex(p) == [existing[p] EXCEPT ![Dir(scan[p])] = last[p]]

\* Mutant: the result of the write is not looked at.
WriteTempUnchecked(p) ==
  /\ pc[p] = <<"index", "write">>
  /\ \/ content' = [content EXCEPT ![fd[p]] = Document(NewIndex(p))]
     \/ "write" \in Faults /\ UNCHANGED content
  /\ Goto(p, <<"index", "replace">>)
  /\ UNCHANGED <<scan, last, existing, fd, file, naming, index, tmp, counts, saved>>

\* The document written from offset 0.  Over the longer document of another
\* process it leaves a tail that is no JSON.
WriteTemp(p) ==
  /\ pc[p] = <<"index", "write">>
  /\ \/ /\ \E c \in {Document(NewIndex(p)), Garbled} :
             /\ c = Garbled => content[fd[p]] # Empty
             /\ content' = [content EXCEPT ![fd[p]] = c]
        /\ Goto(p, <<"index", "replace">>)
     \/ "write" \in Faults /\ Goto(p, <<"index", "unlink">>) /\ UNCHANGED content
  /\ UNCHANGED <<scan, last, existing, fd, file, naming, index, tmp, counts, saved>>

\* rename: whatever file has the temporary name becomes index.json.
Replace(p) ==
  /\ pc[p] = <<"index", "replace">>
  /\ \/ /\ tmp # NoFile
        /\ index' = tmp /\ tmp' = NoFile
        /\ Goto(p, <<"csv", "create">>)
     \/ /\ "rename" \in Faults \/ tmp = NoFile
        /\ Goto(p, <<"index", "unlink">>) /\ UNCHANGED <<index, tmp>>
  /\ UNCHANGED <<scan, last, existing, fd, file, naming, content, counts, saved>>

\* The temporary name is deleted, whoever's file it has become.
Unlink(p) ==
  /\ pc[p] = <<"index", "unlink">>
  /\ tmp' = NoFile
  /\ Goto(p, <<"csv", "create">>)
  /\ UNCHANGED <<scan, last, existing, fd, file, naming, index, content, counts, saved>>

-----------------------------------------------------------------------------
\* A process is killed; what it wrote stays.
Crash(p) ==
  /\ pc[p] # Idle /\ crashes < MaxCrashes
  /\ crashes' = crashes + 1
  /\ Goto(p, Idle)
  /\ UNCHANGED <<scan, last, existing, fd, file, naming, cache, clock, scans,
                 damages, overlapped, saved>>

\* Something else deletes or corrupts index.json.
Damage ==
  /\ index # NoFile /\ damages < MaxDamages
  /\ damages' = damages + 1
  /\ \/ index' = NoFile /\ UNCHANGED content
     \/ content' = [content EXCEPT ![index] = Garbled] /\ UNCHANGED index
  /\ UNCHANGED <<local, file, naming, tmp, clock, scans, crashes, overlapped, saved>>

WriteReportFile(p) ==
  \E f \in Formats : CreateFile(p, f) \/ WriteFile(p, f) \/ RenameFile(p, f)
RefreshIndex(p) == ListDir(p) \/ ReadIndex(p) \/ OpenTemp(p) \/ WriteTemp(p)
                     \/ Replace(p) \/ Unlink(p)

Next ==
  \/ Tick \/ Damage
  \/ \E p \in Procs :
       \/ \E i \in Identities : Begin(p, i)
       \/ WriteReportFile(p) \/ RefreshIndex(p) \/ Crash(p)

Spec == Init /\ [][Next]_vars

-----------------------------------------------------------------------------
(* Properties.                                                             *)

Stages ==
  {Idle} \cup Formats \X {"create", "write", "rename"}
    \cup {"index"} \X {"list", "read", "open", "write", "replace", "unlink"}
Entries == [scan : Scans \cup {NoScan}, count : 0..MaxScans]
Index == [Dirs -> Entries]

\* The processes, the store's files, and the names of reports; the file that
\* has the temporary name is never the one that is index.json.
TypeOK ==
  /\ pc \in [Procs -> Stages] /\ scan \in [Procs -> 0..scans]
  /\ last \in [Procs -> Entries] /\ existing \in [Procs -> Index]
  /\ fd \in [Procs -> Scans \cup {NoFile}]
  /\ file \in [Scans -> [Formats -> {"none", "temp", "temp-whole", "whole", "torn"}]]
  /\ \A s \in 1..scans : ident[s] \in Identities
  /\ stamp \in [Scans -> 0..MaxClock] /\ id \in [Scans -> 0..MaxScans]
  /\ index \in Scans \cup {NoFile} /\ tmp \in Scans \cup {NoFile}
  /\ tmp # NoFile => tmp # index
  /\ content \in [Scans -> [state : {"empty", "garbled", "document"}, devices : Index]]
  /\ clock \in 0..MaxClock /\ scans \in 0..MaxScans /\ overlapped \in BOOLEAN
  /\ saved \subseteq Scans \X Formats

\* "a reader never observes a partial file, and a crash or device removal
\* mid-write leaves at most an orphaned .tmp file, never a corrupt report"; and
\* a report said to be saved stays in its device's directory, whatever fails,
\* crashes or happens to the index afterwards.
SavedStaysSaved ==
  /\ \A s \in Scans, f \in Formats : file[s][f] # "torn"
  /\ \A r \in saved : file[r[1]][r[2]] = "whole"

\* The reports of a device by what happened, not by what a listing shows.
SavedOf(i) == {s \in 1..scans : ident[s] = i /\ <<s, "json">> \in saved}
Newest(S) == IF S = {} THEN NoScan ELSE CHOOSE s \in S : \A r \in S : r <= s

\* usbs_store_last_scan finds the newest report of the device, and counts them
\* all, as long as no two of its scans start in one second: "a corrupt or
\* missing index cannot make this answer wrong".
LastScanIsNewest ==
  \A i \in Identities :
    (\A r, s \in SavedOf(i) : stamp[r] = stamp[s] => r = s) =>
      LastScan(SafeId(i)) = [scan  |-> Newest(SavedOf(i)),
                             count |-> Cardinality(SavedOf(i))]

\* An index that can be read speaks of reports that exist, never of more of
\* them than there are: stale perhaps, false never.
IndexMentionsReports ==
  Readable =>
    \A d \in Dirs :
      LET e == content[index].devices[d]
      IN  /\ e.scan # NoScan => <<e.scan, "json">> \in saved /\ Dir(e.scan) = d
          /\ e.count <= Cardinality(ReportsIn(d))

\* "Every write (a report, or the index refresh) uses temp-file-then-rename: a
\* reader never observes a partial file": only damage from outside makes the
\* index unreadable.
IndexWhole == damages = 0 /\ index # NoFile => Readable

\* That much is true as long as no two processes save at the same time,
\* whatever is left behind by those that failed or were killed before.
IndexWholeAlone == ~overlapped => IndexWhole

\* A refresh that ends well has put the truth about its device in the index,
\* after any crash, failed refresh or damage before it, unless another process
\* was at it too.
IndexTruthful ==
  [][\A p \in Procs :
       ~overlapped /\ pc[p] = <<"index", "replace">> /\ pc'[p] = <<"csv", "create">> =>
         content[index'].devices[Dir(scan[p])] =
           [scan |-> LastScan(Dir(scan[p])).scan,
            count |-> Cardinality(SavedOf(ident[scan[p]]))]]_vars

\* A refresh preserves "every other device's entry found in the existing (or
\* freshly rebuilt) index": it is never lost while the index can be read and no
\* other process is at it.
IndexKeepsOthers ==
  [][\A p \in Procs :
       (/\ ~overlapped /\ pc[p] = <<"index", "replace">> /\ Readable
        /\ index' # index /\ damages' = damages)
       => \A d \in Dirs \ {Dir(scan[p])} :
            content[index].devices[d] # NoEntry =>
              Readable' /\ content[index'].devices[d] = content[index].devices[d]]_vars
=============================================================================
