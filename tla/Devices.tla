------------------------------ MODULE Devices ------------------------------
(***************************************************************************)
(* Which volumes are offered on Linux and which one is scanned: the        *)
(* enumeration of src/platform/device_linux.c, read by read, the identity  *)
(* and the predicates of src/core/device.c, and the three places that      *)
(* enumerate: the device list of the web page, the start of a scan it asks *)
(* for, and the scan command.  Sticks are pulled and put back, volumes are *)
(* mounted and unmounted between any two of the reads.                     *)
(*                                                                         *)
(* A block entry is <<disk, part>>, part 0 being the whole disk; it stands *)
(* for the name of the entry and for its device number too, which name one *)
(* disk for as long as an enumeration, a matter of milliseconds, lasts.    *)
(***************************************************************************)
EXTENDS Naturals, Sequences, FiniteSets, SequencesExt

CONSTANTS
  Disks,
  Parts,       \* [Disks -> Nat]: partitions, 0 for a disk without a table
  Usb,         \* disks with a USB node at most 12 levels up
  Model,       \* per disk, idVendor and idProduct
  Serial,      \* per disk, its serial number or NoSerial
  NoSerial, NoIds, NoLine,
  Formatted,   \* volumes /dev/disk/by-uuid has a link for
  PointsMax,   \* USBS_MOUNT_POINTS_MAX
  FirstMounts, \* mount tables the system may start with
  Mountable,   \* lines that may be added to it
  Orders,      \* orders readdir may list the entries in
  MaxChanges   \* bound: times the system changes

Entries == UNION {{d} \X (0..Parts[d]) : d \in Disks}
Exist(S) == {e \in Entries : e[1] \in S}
Volumes == {e \in Entries : e[2] > 0 \/ Parts[e[1]] = 0}

\* A line of the mount table: a file system of the kernel, one served by a FUSE
\* helper, a volume bound to a plain file, the root file system.
Hows == {"kernel", "fuse", "file", "root"}
Lines == [vol : Volumes, how : Hows]

ASSUME DevicesAssumption ==
  /\ Parts \in [Disks -> Nat] /\ Usb \subseteq Disks
  /\ DOMAIN Model = Disks /\ DOMAIN Serial = Disks
  /\ \A d \in Disks : NoIds \notin {<<Model[d], Serial[d]>>, <<Model[d], NoSerial>>}
  /\ NoLine \notin Lines /\ FirstMounts \subseteq Seq(Lines)
  /\ Mountable \subseteq Lines
  /\ \A o \in Orders : o \in Seq(Entries) /\ Range(o) = Entries /\ IsInjective(o)
  /\ PointsMax \in Nat \ {0} /\ MaxChanges \in Nat

VARIABLES
  attached,  \* disks attached
  mounts,    \* /proc/self/mountinfo
  phase,     \* what the enumeration does next, "idle" if there is none
  purpose,   \* who enumerates: the page, the start of a scan, the command
  order,     \* the order of the directory
  pos,       \* how far in it this enumeration is
  entry,     \* the entry being handled
  own,       \* own_partition
  item,      \* usbs_device_t of the entry being handled
  items,     \* out_list
  steady,    \* history: disks nothing happened to during this enumeration
  picked,    \* history: the volume the user picked in the page, or NoLine
  wanted,    \* the identity the page asks a scan of, or NoLine
  target,    \* the device last handed to the scanner, or NoLine
  changes    \* history: times the system has changed

world == <<attached, mounts, order, changes>>
reading == <<entry, own, item>>
request == <<picked, wanted, target>>
vars == <<world, phase, purpose, pos, reading, items, steady, request>>

\* The locals of the callback, and of the enumeration, are gone.
EntryDone == entry' = NoLine /\ own' = FALSE /\ item' = NoLine
ListDone ==
  /\ phase' = "idle"
  /\ pos' = 0 /\ items' = <<>> /\ steady' = {}
  /\ EntryDone

-----------------------------------------------------------------------------
(* usbs_device_t and what core makes of it.  vol is not a field of it: it  *)
(* tells which entry the record was filled from.                           *)

Blank(e) == [vol |-> e, usb |-> FALSE, ids |-> NoIds, points |-> <<>>,
             path |-> NoLine, media |-> FALSE]

\* usbs_device_identity: the USB ids, with the serial number where there is
\* one; else the path of the volume.
Identity(it) == IF it.ids # NoIds THEN <<"usb", it.ids>> ELSE <<"volume", it.path>>

ScannableUsb(it) == it.usb /\ it.media

\* device_has_valid_mount_point.
HasMountPoint(it) ==
  it.points # <<>> /\ it.path # NoLine /\ it.path.how # "root"

\* The first element of a list at one of the positions, or NoLine.
FirstOf(list, hits) ==
  IF hits = {} THEN NoLine ELSE list[CHOOSE i \in hits : \A j \in hits : i <= j]

\* A line is the entry's if its device number says so, or if the node it was
\* mounted from is still there and has that number: FUSE gives no other clue.
IsOf(line, e) ==
  /\ line.vol = e
  /\ \/ line.how # "fuse"
     \/ e[1] \in attached

IsDirectory(line) == line.how # "file"

\* The lines of the mount table that are the entry's
LinesOf(e) == {i \in DOMAIN mounts : IsOf(mounts[i], e)}

\* mount_points, read line by line as far as there is room; volume_path is the
\* first of the lines that is a directory.
MountPoints(found, room) ==
  LET points[n \in 0..Len(mounts)] ==
        IF n = 0 THEN <<>>
        ELSE IF n \in found /\ Len(points[n - 1]) < room THEN Append(points[n - 1], mounts[n])
        ELSE points[n - 1]
  IN  points[Len(mounts)]

VolumePath(found) == FirstOf(mounts, {i \in found : IsDirectory(mounts[i])})

\* Mutant: the device number of the line is all that counts.
WithMountsByNumber(it, e) ==
  LET found == {i \in DOMAIN mounts : mounts[i].vol = e /\ mounts[i].how # "fuse"}
  IN  [it EXCEPT !.points = MountPoints(found, PointsMax), !.path = VolumePath(found)]

\* Mutant: one mount point more than there is room for.
WithMountsOneMore(it, e) ==
  [it EXCEPT !.points = MountPoints(LinesOf(e), PointsMax + 1),
             !.path = VolumePath(LinesOf(e))]

\* fill_mount_info.
WithMounts(it, e) ==
  [it EXCEPT !.points = MountPoints(LinesOf(e), PointsMax),
             !.path = VolumePath(LinesOf(e))]

Init ==
  /\ attached \in {Disks, Disks \ Usb}
  /\ mounts \in {m \in FirstMounts : \A i \in DOMAIN m : m[i].vol[1] \in attached}
  /\ phase = "idle" /\ purpose = "page"
  /\ order \in Orders /\ pos = 0 /\ items = <<>> /\ steady = {}
  /\ entry = NoLine /\ own = FALSE /\ item = NoLine
  /\ picked = NoLine /\ wanted = NoLine /\ target = NoLine
  /\ changes = 0

-----------------------------------------------------------------------------
(* The system.                                                             *)

Touched(d) ==
  /\ changes < MaxChanges /\ changes' = changes + 1
  /\ steady' = steady \ {d}
  /\ UNCHANGED <<phase, purpose, order, pos, reading, items, request>>

\* The mounts of a stick that is pulled stay in the table for a while.
PullOut(d) ==
  /\ d \in attached \cap Usb
  /\ attached' = attached \ {d}
  /\ Touched(d)
  /\ UNCHANGED mounts

PlugIn(d) ==
  /\ d \in Usb \ attached
  /\ attached' = attached \cup {d}
  /\ Touched(d)
  /\ UNCHANGED mounts

Mount(line) ==
  /\ line.vol[1] \in attached
  /\ mounts' = Append(mounts, line)
  /\ Touched(line.vol[1])
  /\ UNCHANGED attached

Unmount(i) ==
  /\ mounts[i].how # "root"
  /\ mounts' = RemoveAt(mounts, i)
  /\ Touched(mounts[i].vol[1])
  /\ UNCHANGED attached

-----------------------------------------------------------------------------
(* linux_enumerate: list_class_block with handle_block_entry.              *)

Open(who) ==
  /\ phase = "idle"
  /\ who = "scan" <=> wanted # NoLine
  /\ phase' = "list" /\ purpose' = who
  /\ pos' = 0 /\ items' = <<>>
  /\ steady' = attached
  /\ target' = NoLine
  /\ picked' = IF who = "scan" THEN picked ELSE NoLine
  /\ UNCHANGED <<world, reading, wanted>>

\* The directory cannot be opened, or the list cannot grow: no list at all, which
\* ends a request of the page; the command goes on with an empty list.
Fail ==
  /\ phase \in {"list", "push"}
  /\ IF purpose = "command"
       THEN phase' = "deliver" /\ pos' = 0 /\ items' = <<>> /\ steady' = {} /\ EntryDone
       ELSE ListDone
  /\ wanted' = NoLine /\ picked' = NoLine
  /\ UNCHANGED <<world, purpose, target>>

Ahead == {i \in DOMAIN order : i > pos /\ order[i][1] \in attached}

\* readdir, and the stat that tells a directory; a name that has gone by then
\* is passed over.
NextEntry ==
  /\ phase = "list" /\ Ahead # {}
  /\ pos' = CHOOSE i \in Ahead : \A j \in Ahead : i <= j
  /\ entry' = order[pos'] /\ own' = FALSE /\ item' = NoLine
  /\ phase' = "probe"
  /\ UNCHANGED <<world, purpose, items, steady, request>>

\* A whole disk with partitions is not a volume.
SkipDisk ==
  /\ phase = "probe"
  /\ entry[1] \in attached /\ entry[2] = 0 /\ Parts[entry[1]] > 0
  /\ phase' = "list"
  /\ EntryDone
  /\ UNCHANGED <<world, purpose, pos, items, steady, request>>

\* Mutant: the record of the entry before is filled further.
TakeEntryUncleared ==
  /\ phase = "probe"
  /\ ~(entry[1] \in attached /\ entry[2] = 0 /\ Parts[entry[1]] > 0)
  /\ own' = (entry[1] \in attached /\ entry[2] > 0)
  /\ item' = IF items = <<>> THEN Blank(entry) ELSE [Last(items) EXCEPT !.vol = entry]
  /\ phase' = "walk"
  /\ UNCHANGED <<world, purpose, pos, entry, items, steady, request>>

\* Anything else is, an entry that has gone meanwhile included.
TakeEntry ==
  /\ phase = "probe"
  /\ ~(entry[1] \in attached /\ entry[2] = 0 /\ Parts[entry[1]] > 0)
  /\ own' = (entry[1] \in attached /\ entry[2] > 0)
  /\ item' = Blank(entry)
  /\ phase' = "walk"
  /\ UNCHANGED <<world, purpose, pos, entry, items, steady, request>>

\* usb_walk_up, from the "device" link of the whole disk: ".." of a partition,
\* the entry itself otherwise.
WalkUp ==
  /\ phase = "walk"
  /\ LET found == entry[1] \in attached \cap Usb /\ (own \/ entry[2] = 0)
     IN  /\ item' = [item EXCEPT !.usb = found]
         /\ phase' = IF found THEN "ids" ELSE "dev"
  /\ UNCHANGED <<world, purpose, pos, entry, own, items, steady, request>>

\* The attribute files, one after the other; a stick that goes away leaves the
\* rest of them empty.
ReadIds ==
  /\ phase = "ids"
  /\ LET d == entry[1]
     IN  \E ids \in IF d \in attached THEN {<<Model[d], Serial[d]>>}
                    ELSE {NoIds, <<Model[d], NoSerial>>} :
           item' = [item EXCEPT !.ids = ids]
  /\ phase' = "dev"
  /\ UNCHANGED <<world, purpose, pos, entry, own, items, steady, request>>

\* Without a device number there is nothing to look up.
ReadDev ==
  /\ phase = "dev"
  /\ phase' = IF entry[1] \in attached THEN "mounts" ELSE "push"
  /\ UNCHANGED <<world, purpose, pos, reading, items, steady, request>>

ReadMounts ==
  /\ phase = "mounts"
  /\ item' = WithMounts(item, entry)
  /\ phase' = "media"
  /\ UNCHANGED <<world, purpose, pos, entry, own, items, steady, request>>

\* The table cannot be opened, or there is no memory for it.
ReadMountsFails ==
  /\ phase = "mounts"
  /\ phase' = "media"
  /\ steady' = steady \ {entry[1]}
  /\ UNCHANGED <<world, purpose, pos, reading, items, request>>

\* media_present: mounted, or known by its UUID.
ReadMedia ==
  /\ phase = "media"
  /\ item' = [item EXCEPT !.media =
                @ \/ item.points # <<>> \/ (entry[1] \in attached /\ entry \in Formatted)]
  /\ phase' = "push"
  /\ UNCHANGED <<world, purpose, pos, entry, own, items, steady, request>>

Push ==
  /\ phase = "push"
  /\ items' = Append(items, item)
  /\ phase' = "list"
  /\ EntryDone
  /\ UNCHANGED <<world, purpose, pos, steady, request>>

\* The end of the directory; what came behind the place it was read at is
\* missing.
EndOfList ==
  /\ phase = "list" /\ Ahead = {}
  /\ phase' = "deliver"
  /\ UNCHANGED <<world, purpose, pos, reading, items, steady, request>>

-----------------------------------------------------------------------------
(* What the list is for.                                                   *)

\* handle_devices lists the USB volumes, and the user picks one.  The page knows an
\* option by the identity it carries: what it looks at, and asks the server for, is
\* the first device with that identity.
PagePicks(i) ==
  LET same == {j \in DOMAIN items : items[j].usb /\ Identity(items[j]) = Identity(items[i])}
  IN  /\ phase = "deliver" /\ purpose = "page"
      /\ items[i].usb
      /\ ScannableUsb(FirstOf(items, same))
      /\ picked' = items[i].vol /\ wanted' = Identity(items[i])
      /\ ListDone
      /\ UNCHANGED <<world, purpose, target>>

PageLeft ==
  /\ phase = "deliver" /\ purpose = "page"
  /\ ListDone
  /\ UNCHANGED <<world, purpose, request>>

\* Mutant: the server takes the first USB device, as the command does.
ScanFindsAny ==
  /\ phase = "deliver" /\ purpose = "scan"
  /\ LET found == FirstOf(items, {i \in DOMAIN items : items[i].usb})
     IN  IF found # NoLine /\ HasMountPoint(found)
           THEN target' = found /\ UNCHANGED picked
           ELSE target' = NoLine /\ picked' = NoLine
  /\ wanted' = NoLine
  /\ ListDone
  /\ UNCHANGED <<world, purpose>>

\* handle_scan_start with find_device_by_safe_id: the first device of the list
\* with the identity asked for, unless it has no mount point.
ScanFinds ==
  /\ phase = "deliver" /\ purpose = "scan"
  /\ LET found == FirstOf(items, {i \in DOMAIN items : Identity(items[i]) = wanted})
     IN  IF found # NoLine /\ HasMountPoint(found)
           THEN target' = found /\ UNCHANGED picked
           ELSE target' = NoLine /\ picked' = NoLine
  /\ wanted' = NoLine
  /\ ListDone
  /\ UNCHANGED <<world, purpose>>

\* usbs_cli_cmd_scan without a target takes the first USB device.
CommandTakesFirst ==
  /\ phase = "deliver" /\ purpose = "command"
  /\ target' = FirstOf(items, {i \in DOMAIN items : ScannableUsb(items[i])})
  /\ picked' = NoLine
  /\ ListDone
  /\ UNCHANGED <<world, purpose, wanted>>

\* With a mount point for a target it takes the USB device mounted there, or
\* else (usbs_cli_build_path_device) the directory as it is.
CommandTakesPath(line) ==
  /\ phase = "deliver" /\ purpose = "command"
  /\ LET hit == FirstOf(items, {i \in DOMAIN items :
                               ScannableUsb(items[i]) /\ line \in Range(items[i].points)})
     IN  target' = IF hit # NoLine THEN hit
                   ELSE IF IsDirectory(line) /\ line \in Range(mounts)
                     THEN [Blank(line.vol) EXCEPT !.points = <<line>>, !.path = line,
                                                  !.media = TRUE]
                     ELSE NoLine
  /\ picked' = NoLine
  /\ ListDone
  /\ UNCHANGED <<world, purpose, wanted>>

-----------------------------------------------------------------------------
World ==
  \/ \E d \in Disks : PullOut(d) \/ PlugIn(d)
  \/ \E line \in Mountable : Mount(line)
  \/ \E i \in DOMAIN mounts : Unmount(i)

Enumerate ==
  \/ NextEntry \/ SkipDisk \/ TakeEntry \/ WalkUp \/ ReadIds \/ ReadDev
  \/ ReadMounts \/ ReadMountsFails \/ ReadMedia \/ Push
  \/ EndOfList \/ Fail

Deliver ==
  \/ \E i \in DOMAIN items : PagePicks(i)
  \/ PageLeft \/ ScanFinds \/ CommandTakesFirst
  \/ \E line \in Lines : CommandTakesPath(line)

Next ==
  World \/ (\E who \in {"page", "scan", "command"} : Open(who)) \/ Enumerate \/ Deliver

Spec == Init /\ [][Next]_vars

-----------------------------------------------------------------------------
(* Properties.                                                             *)

KnownIds ==
  {NoIds} \cup {<<Model[d], s>> : d \in Disks, s \in {NoSerial} \cup Range(Serial)}

Items == [vol : Entries, usb : BOOLEAN, ids : KnownIds,
          points : Seq(Lines), path : Lines \cup {NoLine}, media : BOOLEAN]

\* usbs_device_t within its bounds, the record in progress there exactly while
\* an entry is being read.
TypeOK ==
  /\ attached \subseteq Disks /\ mounts \in Seq(Lines) /\ changes \in 0..MaxChanges
  /\ phase \in {"idle", "list", "probe", "walk", "ids", "dev", "mounts",
                "media", "push", "deliver"}
  /\ purpose \in {"page", "scan", "command"}
  /\ order \in Orders /\ pos \in 0..Len(order) /\ own \in BOOLEAN
  /\ entry \in Entries \cup {NoLine}
  /\ item \in Items \cup {NoLine}
  /\ phase \in {"walk", "ids", "dev", "mounts", "media", "push"} =>
       item \in Items /\ item.vol = entry
  /\ items \in Seq(Items) /\ steady \subseteq attached
  /\ \A i \in DOMAIN items : Len(items[i].points) <= PointsMax
  /\ picked \in Entries \cup {NoLine} /\ target \in Items \cup {NoLine}

\* A volume whose disk nothing happened to is listed exactly once, with what is
\* true of it, whatever comes and goes beside it; a disk with partitions is not.
SteadyListed ==
  phase = "deliver" =>
    \A e \in Exist(steady) :
      LET listed == {i \in DOMAIN items : items[i].vol = e}
          own_lines == {k \in DOMAIN mounts : mounts[k].vol = e}
      IN  IF e \notin Volumes THEN listed = {}
          ELSE \E i \in DOMAIN items :
                 /\ listed = {i}
                 /\ items[i].usb <=> e[1] \in Usb
                 /\ e[1] \in Usb => items[i].ids = <<Model[e[1]], Serial[e[1]]>>
                 /\ items[i].path =
                      FirstOf(mounts, {k \in own_lines : IsDirectory(mounts[k])})
                 /\ items[i].media <=> own_lines # {} \/ e \in Formatted

\* What is scanned under an identity is on the disk that has it: no volume is
\* listed, or scanned, under the ids of another, and none under USB ids that is
\* not on a stick.
OwnIdentity ==
  \A it \in Range(items) \cup ({target} \ {NoLine}) :
    /\ it.path # NoLine => it.path.vol = it.vol
    /\ it.ids # NoIds => it.vol[1] \in Usb /\ it.ids[1] = Model[it.vol[1]]
                           /\ it.ids[2] \in {NoSerial, Serial[it.vol[1]]}

\* The scan the page starts is of the stick picked, and of the volume picked if
\* no other volume, of this stick or of one like it, has the same identity.
FoundIsPicked ==
  target # NoLine /\ picked # NoLine =>
    LET like == {e \in Volumes : e[1] \in Usb /\ Model[e[1]] = Model[picked[1]]}
    IN  /\ HasMountPoint(target)
        /\ target.vol \in like
        /\ like = {picked} => target.path.vol = picked
=============================================================================
