------------------------------ MODULE Scanner ------------------------------
(***************************************************************************)
(* One scan of one volume: usbs_scanner_scan and the single depth-first    *)
(* walk it owns (src/scanner/scanner.c), while the rest of the world keeps *)
(* moving: the stick is pulled and plugged back, directories are refused,  *)
(* the user asks for a cancel.                                             *)
(*                                                                         *)
(* A directory is listed in any order.  An open directory handle belongs   *)
(* to the attachment (`epoch') it was opened under: after the stick has    *)
(* been pulled, the handle is dead even if the stick comes back.           *)
(***************************************************************************)
EXTENDS Naturals, FiniteSets, Sequences

CONSTANTS
  Root,           \* the scanned volume's root directory
  Dirs, Files,    \* directories (Root among them) and regular files
  Links,          \* reparse points: symlinks and junctions
  Children,       \* [Dirs -> SUBSET entries], what each directory lists
  Fixture(_),     \* of a directory: USBS_LOCATION_SELF_TEST_FIXTURES
  TooLong,        \* entries whose joined path does not fit child_path
  Refusable,      \* directories the live volume may refuse to open or list,
                  \* now and then or always: a root that is not there is one
  MaxDepth,       \* USBS_SCAN_MAX_DEPTH
  PolicyApplies,  \* usbs_location_policy_applies(device)
  FileDetectors,  \* registered detectors with on_file
  Says(_, _, _),  \* detector, file and way of reading it: severities reported
  Unreadable,     \* files the live volume may refuse to open or read
  WholeDetectors, \* registered detectors with run
  AutorunFindings,\* what is to be said of the root's autorun.inf, if anything
  DeadStatuses,   \* what the platform says of a volume that is gone
  SlotOutcomes,   \* whether prepare_on_file_slots' calloc succeeds
  MaxUnplugs      \* bound: how often the stick is pulled

\* "suppressed" is a match the location policy keeps out of the report, and
\* counts (policy_suppressed); the others are usbs_severity_t.
Severities == {"suppressed", "info", "warning", "high"}
\* How a detector that reads a file fares: it gets all of it, a read fails, or
\* it cannot open it.
Ways == {"whole", "breaks", "unopened"}
Findings == Files \X Severities
OfFiles(found, S) == {x \in found : x[1] \in S}

Entries == Dirs \cup Files \cup Links
Statuses == {"NOT_FOUND", "IO"}

ASSUME TreeAssumption ==
  /\ Root \in Dirs
  /\ Dirs \cap Files = {} /\ Dirs \cap Links = {} /\ Files \cap Links = {}
  /\ Children \in [Dirs -> SUBSET Entries]
  /\ \A d \in Dirs : Fixture(d) \in BOOLEAN
  /\ TooLong \subseteq Entries
  /\ Refusable \subseteq Dirs
  /\ Unreadable \subseteq Files
  /\ MaxDepth \in Nat
  /\ PolicyApplies \in BOOLEAN

ASSUME DetectorAssumption ==
  /\ FileDetectors \cap WholeDetectors = {}
  /\ "file_traversal" \notin FileDetectors \cup WholeDetectors
  /\ \A d \in FileDetectors, f \in Files, how \in Ways :
       Says(d, f, how) \subseteq Severities
  /\ AutorunFindings \subseteq Findings

ASSUME WorldAssumption ==
  /\ DeadStatuses \subseteq Statuses
  /\ DeadStatuses # {}
  /\ SlotOutcomes \subseteq BOOLEAN
  /\ MaxUnplugs \in Nat

VARIABLES
  plugged,    \* the volume is attached
  epoch,      \* attachments so far: dates the handles
  cancelAsk,  \* what cancel_check answers
  pc,         \* where usbs_scanner_scan is
  target,     \* the directory walk_dir is about to open
  frames,     \* walk_dir's activations, innermost last
  file,       \* the file walk_dir is about to hand to the slots
  walkStatus, \* walk_dir's return value
  cancelled, removed,           \* traverse_state_t
  fileCount, skipped, excluded, \* traverse_state_t
  slots,      \* on_file findings so far, per prepared slot
  checks,     \* out_result->checks: check id -> its result
  status,     \* out_result->status, "none" before it is assigned
  seen,       \* history: files handed to the on_file slots
  opened,     \* history: directories whose listing began
  tooDeep,    \* history: directories beyond the maximal depth
  rootRefused,\* history: the root did not open although the volume was there
  late        \* history: entries fetched after the cancel was asked for

vars == <<plugged, epoch, cancelAsk, pc, target, frames, file, walkStatus,
          cancelled, removed, fileCount, skipped, excluded, slots, checks, status, seen,
          opened, tooDeep, rootRefused, late>>

world == <<plugged, epoch, cancelAsk>>
walk  == <<target, frames, file, walkStatus, cancelled, removed, fileCount,
           skipped, excluded, slots, seen, opened, tooDeep, rootRefused, late>>
report == <<checks, status>>

NoFile == "none"

Top == frames[Len(frames)]
Pop == SubSeq(frames, 1, Len(frames) - 1)
\* The frame at the top lists e next, and forgets it.
Consume(e) == [frames EXCEPT ![Len(frames)].left = @ \ {e}]
HandleAlive == plugged /\ Top.epoch = epoch

CheckIds == {"file_traversal"} \cup WholeDetectors \cup FileDetectors
Result(st, found) == [status |-> st, findings |-> found]
Record(id, result) == [c \in {id} |-> result]
\* usbs_check_list_push of every result in more.
Push(list, more) ==
  [c \in DOMAIN list \cup DOMAIN more |->
     IF c \in DOMAIN more THEN more[c] ELSE list[c]]

Init ==
  /\ plugged = TRUE /\ epoch = 0 /\ cancelAsk = FALSE
  /\ pc = "begin"
  /\ target = Root /\ frames = <<>> /\ file = NoFile
  /\ walkStatus = "OK" /\ cancelled = FALSE /\ removed = FALSE
  /\ fileCount = 0 /\ skipped = 0 /\ excluded = 0
  /\ slots = [d \in {} |-> {}]
  /\ checks = [c \in {} |-> Result("ran", {})]
  /\ status = "none"
  /\ seen = {} /\ opened = {} /\ tooDeep = {} /\ rootRefused = FALSE /\ late = 0

-----------------------------------------------------------------------------
(* The world.                                                              *)

Unplug ==
  /\ plugged /\ epoch < MaxUnplugs
  /\ plugged' = FALSE /\ epoch' = epoch + 1
  /\ UNCHANGED <<cancelAsk, pc, walk, report>>

Replug ==
  /\ ~plugged
  /\ plugged' = TRUE
  /\ UNCHANGED <<epoch, cancelAsk, pc, walk, report>>

AskCancel ==
  /\ ~cancelAsk /\ pc # "done"
  /\ cancelAsk' = TRUE
  /\ UNCHANGED <<plugged, epoch, pc, walk, report>>

-----------------------------------------------------------------------------
(* The walk.                                                               *)

\* usbs_scanner_scan up to the walk: capability probe and last-scan lookup
\* change no result; a failed slot allocation is survived with no slots.
Begin ==
  /\ pc = "begin"
  /\ \E ok \in SlotOutcomes :
       slots' = [d \in IF ok THEN FileDetectors ELSE {} |-> {}]
  /\ pc' = "enter"
  /\ UNCHANGED <<world, target, frames, file, walkStatus, cancelled, removed,
                 fileCount, skipped, excluded, seen, opened, late, tooDeep,
                 rootRefused, report>>

\* walk_dir's entry: depth check, then the directory opens.
EnterTooDeep ==
  /\ pc = "enter" /\ Len(frames) > MaxDepth
  /\ tooDeep' = tooDeep \cup {target}
  /\ pc' = "check"
  /\ UNCHANGED <<world, target, frames, file, walkStatus, cancelled, removed,
                 fileCount, skipped, excluded, slots, seen, opened,
                 rootRefused, late, report>>

EnterOpens ==
  /\ pc = "enter" /\ Len(frames) <= MaxDepth
  /\ plugged
  /\ frames' = Append(frames, [dir |-> target, left |-> Children[target],
                               epoch |-> epoch])
  /\ opened' = opened \cup {target}
  /\ pc' = "check"
  /\ UNCHANGED <<world, target, file, walkStatus, cancelled, removed,
                 fileCount, skipped, excluded, slots, seen, late, tooDeep,
                 rootRefused, report>>

\* The open fails: a hard failure at the root, a question for
\* classify_path_failure below it.
EnterFails ==
  /\ pc = "enter" /\ Len(frames) <= MaxDepth
  /\ ~plugged \/ target \in Refusable
  /\ IF frames = <<>>
       THEN /\ walkStatus' \in Statuses
            /\ rootRefused' = (rootRefused \/ plugged)
            /\ pc' = "finish"
       ELSE /\ pc' = "probe"
            /\ UNCHANGED <<walkStatus, rootRefused>>
  /\ UNCHANGED <<world, target, frames, file, cancelled, removed, fileCount,
                 skipped, excluded, slots, seen, opened, late, tooDeep, report>>

\* classify_path_failure: the root is probed after the failure, so the answer
\* is about now, not about the moment the path failed.
ProbeReachable ==
  /\ pc = "probe" /\ plugged
  /\ skipped' = skipped + 1
  /\ pc' = "check"
  /\ UNCHANGED <<world, target, frames, file, walkStatus, cancelled, removed,
                 fileCount, excluded, slots, seen, opened, late, tooDeep,
                 rootRefused, report>>

\* Mutant: every failure below the root means the device was removed.
ProbeNever ==
  /\ pc = "probe"
  /\ removed' = TRUE
  /\ pc' = "unwind"
  /\ UNCHANGED <<world, target, frames, file, walkStatus, cancelled, fileCount,
                 skipped, excluded, slots, seen, opened, late, tooDeep,
                 rootRefused, report>>

ProbeUnreachable ==
  /\ pc = "probe"
  /\ ~plugged \/ Root \in Refusable
  /\ removed' = TRUE
  /\ rootRefused' = (rootRefused \/ plugged)
  /\ pc' = "unwind"
  /\ UNCHANGED <<world, target, frames, file, walkStatus, cancelled, fileCount,
                 skipped, excluded, slots, seen, opened, late, tooDeep, report>>

\* Mutant: the cancel is looked at once per directory only.
CheckCancelPerDirectory ==
  /\ pc = "check" /\ frames # <<>>
  /\ cancelled' = (cancelAsk /\ Top.left = Children[Top.dir])
  /\ pc' = IF cancelled' THEN "unwind" ELSE "next"
  /\ UNCHANGED <<world, target, frames, file, walkStatus, removed, fileCount,
                 skipped, excluded, slots, seen, opened, late, tooDeep,
                 rootRefused, report>>

\* The head of the loop.
CheckCancel ==
  /\ pc = "check" /\ frames # <<>>
  /\ cancelled' = cancelAsk
  /\ pc' = IF cancelAsk THEN "unwind" ELSE "next"
  /\ UNCHANGED <<world, target, frames, file, walkStatus, removed, fileCount,
                 skipped, excluded, slots, seen, opened, late, tooDeep,
                 rootRefused, report>>

\* cancelled or removed: every activation breaks out of its loop.
Unwind ==
  /\ pc = "unwind"
  /\ frames' = <<>>
  /\ pc' = "finish"
  /\ UNCHANGED <<world, target, file, walkStatus, cancelled, removed,
                 fileCount, skipped, excluded, slots, seen, opened, late,
                 tooDeep, rootRefused, report>>

WalkReturns ==
  /\ pc = "check" /\ frames = <<>>
  /\ pc' = "finish"
  /\ UNCHANGED <<world, walk, report>>

\* Mutant: any failure of dir_next is the end of the listing.
NextAnyFailureEnds ==
  /\ pc = "next"
  /\ ~HandleAlive \/ Top.left = {}
  /\ frames' = Pop
  /\ pc' = "check"
  /\ UNCHANGED <<world, target, file, walkStatus, cancelled, removed,
                 fileCount, skipped, excluded, slots, seen, opened, late,
                 tooDeep, rootRefused, report>>

\* usbs_platform_dir_next says USBS_ERR_NOT_FOUND: the listing is at its end,
\* or it belongs to a volume that is gone and the platform says it that way.
NextEnds ==
  /\ pc = "next"
  /\ \/ HandleAlive /\ Top.left = {}
     \/ ~HandleAlive /\ "NOT_FOUND" \in DeadStatuses
  /\ frames' = Pop
  /\ pc' = "check"
  /\ UNCHANGED <<world, target, file, walkStatus, cancelled, removed,
                 fileCount, skipped, excluded, slots, seen, opened, late,
                 tooDeep, rootRefused, report>>

\* Mutant: a failing listing is tried again (continue for break).
NextFailsContinues ==
  /\ pc = "next" /\ ~HandleAlive
  /\ pc' = "check"
  /\ UNCHANGED <<world, walk, report>>

\* usbs_platform_dir_next fails in any other way: the rest of the listing is
\* given up and classified.
NextFails ==
  /\ pc = "next"
  /\ \/ ~HandleAlive /\ DeadStatuses \ {"NOT_FOUND"} # {}
     \/ HandleAlive /\ Top.dir \in Refusable
  /\ frames' = Pop
  /\ pc' = "probe"
  /\ UNCHANGED <<world, target, file, walkStatus, cancelled, removed,
                 fileCount, skipped, excluded, slots, seen, opened, late,
                 tooDeep, rootRefused, report>>

Fetch(e) ==
  /\ pc = "next" /\ HandleAlive
  /\ e \in Top.left
  /\ late' = IF cancelAsk THEN late + 1 ELSE late

\* A reparse point, or an entry whose path does not fit: passed over.
NextPassesOver ==
  /\ \E e \in Entries :
       /\ Fetch(e)
       /\ e \in Links \cup TooLong
       /\ frames' = Consume(e)
  /\ pc' = "check"
  /\ UNCHANGED <<world, target, file, walkStatus, cancelled, removed,
                 fileCount, skipped, excluded, slots, seen, opened, tooDeep,
                 rootRefused, report>>

NextExcludes ==
  /\ \E e \in Dirs \ TooLong :
       /\ Fetch(e)
       /\ PolicyApplies /\ Fixture(e)
       /\ frames' = Consume(e)
  /\ excluded' = excluded + 1
  /\ pc' = "check"
  /\ UNCHANGED <<world, target, file, walkStatus, cancelled, removed,
                 fileCount, skipped, slots, seen, opened, tooDeep, rootRefused,
                 report>>

NextDescends ==
  /\ \E e \in Dirs \ TooLong :
       /\ Fetch(e)
       /\ ~(PolicyApplies /\ Fixture(e))
       /\ frames' = Consume(e)
       /\ target' = e
  /\ pc' = "enter"
  /\ UNCHANGED <<world, file, walkStatus, cancelled, removed, fileCount,
                 skipped, excluded, slots, seen, opened, tooDeep, rootRefused,
                 report>>

\* A file is counted and announced to on_progress ...
NextFile ==
  /\ \E e \in Files \ TooLong :
       /\ Fetch(e)
       /\ frames' = Consume(e)
       /\ seen' = seen \cup {e}
       /\ file' = e
  /\ fileCount' = fileCount + 1
  /\ pc' = "inspect"
  /\ UNCHANGED <<world, target, walkStatus, cancelled, removed, skipped,
                 excluded, slots, opened, tooDeep, rootRefused, report>>

\* What a detector may get to see of the file at hand is its own concern.
Reading == IF HandleAlive /\ file \notin Unreadable THEN {"whole"} ELSE Ways

\* ... and handed to every slot's on_file, whose status is ignored.
Inspect ==
  /\ pc = "inspect"
  /\ \E how \in [DOMAIN slots -> Reading] :
       slots' = [d \in DOMAIN slots |-> slots[d] \cup ({file} \X Says(d, file, how[d]))]
  /\ pc' = "check"
  /\ UNCHANGED <<world, target, frames, file, walkStatus, cancelled, removed,
                 fileCount, skipped, excluded, seen, opened, tooDeep,
                 rootRefused, late, report>>

-----------------------------------------------------------------------------
(* The report.                                                             *)

Incomplete == walkStatus # "OK" \/ cancelled \/ removed

\* Mutant: the partial findings of the on_file slots are kept.
FinishKeepsPartial ==
  /\ pc = "finish" /\ Incomplete
  /\ checks' =
       Push(Record("file_traversal",
                   Result(IF walkStatus # "OK" THEN "failed" ELSE "ran", {})),
            [d \in WholeDetectors \cup DOMAIN slots |->
               IF d \in WholeDetectors THEN Result("skipped", {})
               ELSE Result("ran", slots[d])])
  /\ status' = "ABORTED"
  /\ pc' = "done"
  /\ UNCHANGED <<world, walk>>

\* Mutant: only the whole-check detectors are recorded as skipped.
FinishForgetsSlots ==
  /\ pc = "finish" /\ Incomplete
  /\ checks' =
       Push(Record("file_traversal",
                   Result(IF walkStatus # "OK" THEN "failed" ELSE "ran", {})),
            [d \in WholeDetectors |-> Result("skipped", {})])
  /\ status' = "ABORTED"
  /\ pc' = "done"
  /\ UNCHANGED <<world, walk>>

\* The walk failed, was cancelled or lost the device: every detector is
\* recorded as skipped and its partial findings are discarded.
FinishIncomplete ==
  /\ pc = "finish" /\ Incomplete
  /\ checks' =
       Push(Record("file_traversal",
                   Result(IF walkStatus # "OK" THEN "failed" ELSE "ran", {})),
            [d \in WholeDetectors \cup DOMAIN slots |-> Result("skipped", {})])
  /\ status' = "ABORTED"
  /\ pc' = "done"
  /\ UNCHANGED <<world, walk>>

FinishComplete ==
  /\ pc = "finish" /\ ~Incomplete
  /\ checks' = Record("file_traversal", Result("ran", {}))
  /\ pc' = "whole"
  /\ UNCHANGED <<world, walk, status>>

\* run_whole_check_detectors: autorun lists the root for the file's spelling,
\* opens autorun.inf and reads it.  An open answered USBS_ERR_NOT_FOUND is "no
\* autorun.inf", also after a root that did not list; any other failure fails
\* the check.
AutorunResults ==
  LET notFound == IF plugged THEN Root \in Refusable ELSE "NOT_FOUND" \in DeadStatuses
  IN  {Result("failed", {})}
      \cup (IF plugged THEN {Result("ran", AutorunFindings)} ELSE {})
      \cup (IF notFound THEN {Result("ran", {})} ELSE {})

RunWholeDetectors ==
  /\ pc = "whole"
  /\ \E results \in [WholeDetectors -> AutorunResults] :
       checks' = Push(Push(checks, results),
                      [d \in DOMAIN slots |-> Result("ran", slots[d])])
  /\ status' = "COMPLETED"
  /\ pc' = "done"
  /\ UNCHANGED <<world, walk>>

-----------------------------------------------------------------------------
Walk ==
  \/ EnterTooDeep \/ EnterOpens \/ EnterFails
  \/ ProbeReachable \/ ProbeUnreachable
  \/ CheckCancel \/ Unwind \/ WalkReturns
  \/ NextEnds \/ NextFails \/ NextPassesOver \/ NextExcludes
  \/ NextDescends \/ NextFile \/ Inspect

Scan == Begin \/ Walk \/ FinishIncomplete \/ FinishComplete \/ RunWholeDetectors

World == Unplug \/ Replug \/ AskCancel

Next == Scan \/ World

Spec == Init /\ [][Next]_vars

\* The scan runs on a thread of its own that nothing blocks for ever.
FairSpec == Spec /\ WF_vars(Scan)

-----------------------------------------------------------------------------
(* Properties.                                                             *)

Frame == [dir : Dirs, left : SUBSET Entries, epoch : Nat]

\* Every variable stays in its type: traverse_state_t, the activations of
\* walk_dir, and the check list of usbs_scan_result_t.
TypeOK ==
  /\ plugged \in BOOLEAN /\ epoch \in Nat /\ cancelAsk \in BOOLEAN
  /\ pc \in {"begin", "enter", "probe", "check", "next", "inspect", "unwind",
             "finish", "whole", "done"}
  /\ target \in Dirs
  /\ frames \in Seq(Frame) /\ file \in Files \cup {NoFile}
  /\ walkStatus \in Statuses \cup {"OK"}
  /\ cancelled \in BOOLEAN /\ removed \in BOOLEAN
  /\ fileCount \in Nat /\ skipped \in Nat /\ excluded \in Nat
  /\ DOMAIN slots \subseteq FileDetectors
  /\ slots \in [DOMAIN slots -> SUBSET Findings]
  /\ DOMAIN checks \subseteq CheckIds
  /\ checks \in [DOMAIN checks -> [status : {"ran", "skipped", "failed"},
                                   findings : SUBSET Findings]]
  /\ status \in {"none", "COMPLETED", "ABORTED"}
  /\ seen \subseteq Files /\ opened \subseteq Dirs /\ tooDeep \subseteq Dirs
  /\ rootRefused \in BOOLEAN /\ late \in Nat

\* What the walk did with entry e, once it has been through its directory.
Accounted(e) ==
  \/ e \in Links \cup TooLong
  \/ e \in seen \cup opened \cup tooDeep
  \/ e \in Dirs /\ PolicyApplies /\ Fixture(e)

\* A completed scan that reports no skipped location has looked at every
\* file of the volume: what it did not look at is a link, an excluded or
\* too deep directory, or an entry whose path is too long.  This is "a skip is
\* never silent" (scanner.c), across refusals, removal and re-plugging.
NoSilentLoss ==
  status = "COMPLETED" /\ skipped = 0 =>
    /\ Root \in opened
    /\ \A d \in opened : \A e \in Children[d] : Accounted(e)

\* A scan ends "aborted" for one of three reasons: somebody asked, the volume
\* really went away, or its root could not be opened though it was there.  What
\* a live volume refuses below the root never ends it (classify_path_failure's
\* reason to exist), and a traversal that is reported as failed, rather than as
\* broken off, never got into the root (test_scanner.c, the missing root).
AbortIsJustified ==
  status = "ABORTED" =>
    /\ cancelAsk \/ epoch > 0 \/ rootRefused
    /\ checks["file_traversal"].status = "failed" =>
         (epoch > 0 \/ rootRefused) /\ opened = {}

\* Files that nothing keeps from being read.
Undisturbed == IF epoch = 0 THEN Files \ Unreadable ELSE {}

\* A detector's check is all or nothing: an aborted scan reports every one as
\* skipped with no findings whatever the slots had collected; a completed one
\* reports, of the files walked and no others, all that the detector says of
\* those it could read, and what needs no reading of every one.
AllOrNothing ==
  /\ status = "ABORTED" =>
       \A c \in DOMAIN checks \ {"file_traversal"} :
         checks[c] = Result("skipped", {})
  /\ status = "COMPLETED" =>
       /\ \A c \in DOMAIN checks : checks[c].status # "skipped"
       /\ \A d \in DOMAIN slots :
            LET found == checks[d].findings
            IN  /\ found = OfFiles(found, seen)
                /\ \A f \in seen \cap Undisturbed :
                     OfFiles(found, {f}) = {f} \X Says(d, f, "whole")
                /\ \A f \in seen, s \in Severities :
                     (\A how \in Ways : s \in Says(d, f, how)) => <<f, s>> \in found

\* Every registered detector is in the finished report ("never simply absent"),
\* cancelled, failed and interrupted scans included.  The one exception: without
\* memory for the slots all the on_file detectors are missing from it.
EveryCheckReported ==
  status # "none" =>
    CheckIds \ DOMAIN checks = IF DOMAIN slots = {} THEN FileDetectors ELSE {}

\* A cancel is honoured between entries: after it was asked for, at most the
\* one entry already being fetched is still processed.
CancelBounded == late <= 1

\* Every scan ends, whatever the tree, the refusals and the unplugging.
Terminates == <>(pc = "done")
=============================================================================
