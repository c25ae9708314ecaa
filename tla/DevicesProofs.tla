---------------------------- MODULE DevicesProofs ----------------------------
(***************************************************************************)
(* What holds of a device list and of what is scanned from one, for any    *)
(* disks, mount tables and orders of the directory, however often sticks   *)
(* and mounts come and go between two reads.                               *)
(***************************************************************************)
EXTENDS Devices, WellFoundedInduction, TLAPS

\* The order of the natural numbers, as a relation.
Less == {ij \in Nat \X Nat : ij[1] < ij[2]}

\* Among positions there is a first.
LEMMA LeastExists ==
  ASSUME NEW hits \in SUBSET Nat, hits # {}
  PROVE  \E i \in hits : \A j \in hits : i <= j
<1>1. IsWellFoundedOn(Less, Nat)
  BY NatLessThanWellFounded, Zenon DEF OpToRel, Less
<1>2. PICK i \in hits : \A j \in hits : ~ (<<j, i>> \in Less)
  BY <1>1, WFMin
<1>3. \A j \in hits : ~ (j < i)
  BY <1>2 DEF Less
<1> QED BY <1>3

LEMMA FirstIsThere ==
  ASSUME NEW hits \in SUBSET Nat, hits # {}
  PROVE  (CHOOSE k \in hits : \A j \in hits : k <= j) \in hits
BY LeastExists

\* A loop of N steps on values of S, the steps given as a function, has a result
\* for each of its first n.
Runs(S, step, start, n, f) ==
  /\ f \in [0..n -> S]
  /\ f[0] = start
  /\ \A k \in 1..n : f[k] = step[<<k, f[k - 1]>>]

LEMMA LoopStep ==
  ASSUME NEW S, NEW N \in Nat, NEW start \in S, NEW step \in [(1..N) \X S -> S],
         NEW n \in 1..N, NEW f, Runs(S, step, start, n - 1, f)
  PROVE  \E g : Runs(S, step, start, n, g)
<1> DEFINE last == step[<<n, f[n - 1]>>]
           g == [k \in 0..n |-> IF k = n THEN last ELSE f[k]]
<1>1. f \in [0..(n - 1) -> S] /\ n - 1 \in 0..(n - 1) /\ f[0] = start
  BY DEF Runs
<1>2. last \in S
  BY <1>1
<1> HIDE DEF last
<1>3. g \in [0..n -> S]
  BY <1>1, <1>2
<1>4. g[0] = start /\ g[n] = last /\ \A k \in 0..(n - 1) : g[k] = f[k]
  BY <1>1
<1> HIDE DEF g
<1>5. ASSUME NEW k \in 1..n PROVE g[k] = step[<<k, g[k - 1]>>]
  <2>1. CASE k = n
    BY <1>1, <1>4, <2>1 DEF last
  <2>2. CASE k # n
    <3>1. k \in 1..(n - 1) /\ k - 1 \in 0..(n - 1) /\ k \in 0..(n - 1)
      BY <2>2
    <3>2. f[k] = step[<<k, f[k - 1]>>]
      BY <3>1 DEF Runs
    <3> QED BY <1>4, <3>1, <3>2
  <2> QED BY <2>1, <2>2
<1> QED BY <1>3, <1>4, <1>5 DEF Runs

LEMMA LoopRuns ==
  ASSUME NEW S, NEW N \in Nat, NEW start \in S, NEW step \in [(1..N) \X S -> S]
  PROVE  \E f : Runs(S, step, start, N, f)
<1> SUFFICES ASSUME ~ \E f : Runs(S, step, start, N, f) PROVE FALSE
  OBVIOUS
<1> DEFINE bad == {n \in 0..N : ~ \E f : Runs(S, step, start, n, f)}
<1>1. bad \in SUBSET Nat /\ N \in bad
  OBVIOUS
<1>2. PICK n \in bad : \A k \in bad : n <= k
  BY <1>1, LeastExists
<1>3. Runs(S, step, start, 0, [k \in 0..0 |-> start])
  BY DEF Runs
<1>4. n \in 1..N /\ n - 1 \in 0..N /\ ~ (n <= n - 1)
  BY <1>2, <1>3
<1>5. n - 1 \notin bad
  BY <1>2, <1>4
<1> QED BY <1>2, <1>4, <1>5, LoopStep

LEMMA FirstOfOne ==
  ASSUME NEW S, NEW list \in Seq(S), NEW hits \in SUBSET DOMAIN list
  PROVE  /\ hits = {} => FirstOf(list, hits) = NoLine
         /\ hits # {} => \E i \in hits : FirstOf(list, hits) = list[i]
<1>1. hits \in SUBSET Nat
  OBVIOUS
<1> QED BY <1>1, FirstIsThere DEF FirstOf

\* A list grows by one record at its end.
LEMMA Pushed ==
  ASSUME NEW S, NEW list \in Seq(S), NEW it
  PROVE  /\ Append(list, it) \in Seq(S \cup {it})
         /\ \A i \in DOMAIN Append(list, it) : Append(list, it)[i] \in Range(list) \cup {it}
<1>1. list \in Seq(S \cup {it})
  OBVIOUS
<1> QED BY <1>1 DEF Range

-----------------------------------------------------------------------------
(* The mount points of a volume, read line by line.                        *)

\* One line, given what has been read before it
Reading(found, room, rest) ==
  [n \in 0..Len(mounts) |->
     IF n = 0 THEN <<>>
     ELSE IF n \in found /\ Len(rest[n - 1]) < room THEN Append(rest[n - 1], mounts[n])
     ELSE rest[n - 1]]

Read(found, room) == CHOOSE f : f = Reading(found, room, f)

LEMMA MountPointsIs ==
  ASSUME NEW found, NEW room
  PROVE  MountPoints(found, room) = Read(found, room)[Len(mounts)]
BY Zenon DEF MountPoints, Read, Reading

LEMMA ReadExists ==
  ASSUME mounts \in Seq(Lines), NEW found, NEW room \in Nat
  PROVE  Read(found, room) = Reading(found, room, Read(found, room))
<1> DEFINE N == Len(mounts)
           step == [p \in (1..N) \X Seq(Lines) |->
                      IF p[1] \in found /\ Len(p[2]) < room THEN Append(p[2], mounts[p[1]])
                      ELSE p[2]]
<1>1. step \in [(1..N) \X Seq(Lines) -> Seq(Lines)]
  OBVIOUS
<1>2. \A n \in 1..N, s \in Seq(Lines) :
        step[<<n, s>>] = IF n \in found /\ Len(s) < room THEN Append(s, mounts[n]) ELSE s
  OBVIOUS
<1>3. N \in Nat /\ <<>> \in Seq(Lines)
  OBVIOUS
<1> HIDE DEF step
<1>4. PICK f : Runs(Seq(Lines), step, <<>>, N, f)
  BY <1>1, <1>3, LoopRuns
<1>5. f \in [0..N -> Seq(Lines)] /\ f[0] = <<>> /\ \A k \in 1..N : f[k] = step[<<k, f[k - 1]>>]
  BY <1>4 DEF Runs
<1>6. ASSUME NEW n \in 0..N PROVE f[n] = Reading(found, room, f)[n]
  <2>1. Reading(found, room, f)[n] =
          IF n = 0 THEN <<>>
          ELSE IF n \in found /\ Len(f[n - 1]) < room THEN Append(f[n - 1], mounts[n])
          ELSE f[n - 1]
    BY DEF Reading
  <2>2. CASE n = 0
    BY <1>5, <2>1, <2>2
  <2>3. CASE n # 0
    <3>1. n \in 1..N /\ n - 1 \in 0..N
      BY <2>3
    <3>2. f[n] = step[<<n, f[n - 1]>>] /\ f[n - 1] \in Seq(Lines)
      BY <1>5, <3>1
    <3> QED BY <1>2, <2>1, <2>3, <3>1, <3>2
  <2> QED BY <2>2, <2>3
<1>7. f = Reading(found, room, f)
  <2>1. Reading(found, room, f) = [n \in 0..N |-> Reading(found, room, f)[n]]
    BY DEF Reading
  <2>2. f = [n \in 0..N |-> f[n]]
    BY <1>5
  <2> QED BY <1>6, <2>1, <2>2
<1> QED BY <1>7, Zenon DEF Read

\* There are as many as there is room for, and some if there is a line.
LEMMA MountPointsAre ==
  ASSUME mounts \in Seq(Lines), NEW found \in SUBSET DOMAIN mounts, NEW room \in Nat \ {0}
  PROVE  /\ MountPoints(found, room) \in Seq(Lines)
         /\ Len(MountPoints(found, room)) <= room
         /\ MountPoints(found, room) = <<>> <=> found = {}
<1> DEFINE N == Len(mounts)
           f == Read(found, room)
           Good(n) == /\ f[n] \in Seq(Lines) /\ Len(f[n]) <= room
                      /\ f[n] = <<>> <=> found \cap (1..n) = {}
<1>1. \A n \in 0..N :
        f[n] = IF n = 0 THEN <<>>
               ELSE IF n \in found /\ Len(f[n - 1]) < room THEN Append(f[n - 1], mounts[n])
               ELSE f[n - 1]
  <2>1. f = Reading(found, room, f)
    BY ReadExists
  <2> HIDE DEF f
  <2>2. \A n \in 0..N : Reading(found, room, f)[n] =
          IF n = 0 THEN <<>>
          ELSE IF n \in found /\ Len(f[n - 1]) < room THEN Append(f[n - 1], mounts[n])
          ELSE f[n - 1]
    BY DEF Reading
  <2> QED BY <2>1, <2>2
<1>2. MountPoints(found, room) = f[N]
  BY MountPointsIs
<1> HIDE DEF f
<1>3. Good(0)
  <2>1. f[0] = <<>> /\ 1..0 = {}
    BY <1>1
  <2> QED BY <2>1
<1>4. ASSUME NEW n \in 1..N, Good(n - 1) PROVE Good(n)
  <2>1. f[n] = IF n \in found /\ Len(f[n - 1]) < room THEN Append(f[n - 1], mounts[n])
               ELSE f[n - 1]
    BY <1>1
  <2>2. mounts[n] \in Lines /\ f[n - 1] \in Seq(Lines) /\ Len(f[n - 1]) <= room
    BY <1>4
  <2>3. \A k \in 1..n : k = n \/ k \in 1..(n - 1)
    OBVIOUS
  <2>4. n \in 1..n /\ \A k \in 1..(n - 1) : k \in 1..n
    OBVIOUS
  <2>5. CASE n \in found /\ Len(f[n - 1]) < room
    <3>1. f[n] = Append(f[n - 1], mounts[n])
      BY <2>1, <2>5
    <3>2. f[n] \in Seq(Lines) /\ Len(f[n]) = Len(f[n - 1]) + 1 /\ f[n] # <<>>
      BY <2>2, <3>1, SMTT(30)
    <3> QED BY <2>2, <2>4, <2>5, <3>2
  <2>6. CASE n \in found /\ ~ (Len(f[n - 1]) < room)
    <3>1. f[n] = f[n - 1] /\ f[n - 1] # <<>>
      BY <2>1, <2>2, <2>6
    <3> QED BY <1>4, <2>2, <2>4, <2>6, <3>1
  <2>7. CASE n \notin found
    <3>1. f[n] = f[n - 1]
      BY <2>1, <2>7
    <3>2. found \cap (1..n) = found \cap (1..(n - 1))
      BY <2>3, <2>4, <2>7
    <3> QED BY <1>4, <3>1, <3>2
  <2> QED BY <2>5, <2>6, <2>7
<1> HIDE DEF Good
<1>5. Good(N)
  <2> SUFFICES ASSUME ~Good(N) PROVE FALSE
    OBVIOUS
  <2> DEFINE bad == {n \in 0..N : ~Good(n)}
  <2>1. bad \in SUBSET Nat /\ N \in bad
    OBVIOUS
  <2>2. PICK n \in bad : \A k \in bad : n <= k
    BY <2>1, LeastExists
  <2>3. n \in 1..N /\ n - 1 \in 0..N /\ ~ (n <= n - 1)
    BY <1>3, <2>2
  <2>4. Good(n - 1)
    BY <2>2, <2>3
  <2> QED BY <1>4, <2>2, <2>3, <2>4
<1>6. found \cap (1..N) = found
  OBVIOUS
<1> QED BY <1>2, <1>5, <1>6 DEF Good

-----------------------------------------------------------------------------
(***************************************************************************)
(* A record is about one entry, whenever its parts were read: the mounts   *)
(* it has are that entry's, and USB ids are those of its stick.            *)
(***************************************************************************)
Fields == {"vol", "usb", "ids", "points", "path", "media"}

RecordOk(it) ==
  /\ DOMAIN it = Fields
  /\ it.vol \in Entries
  /\ it.usb => it.vol[1] \in Usb
  /\ it.path = NoLine \/ (it.path \in Lines /\ it.path.vol = it.vol)
  /\ \/ it.ids = NoIds
     \/ /\ it.vol[1] \in Usb
        /\ \E s \in {NoSerial, Serial[it.vol[1]]} : it.ids = <<Model[it.vol[1]], s>>

\* The phases in which item is the record being filled, for entry.
Filling == {"walk", "ids", "dev", "mounts", "media", "push"}

FillingInv ==
  /\ phase \in {"probe"} \cup Filling => entry \in Entries
  /\ phase \in Filling => RecordOk(item) /\ item.vol = entry
  /\ phase = "ids" => entry[1] \in Usb

ListInv ==
  /\ \E S : items \in Seq(S)
  /\ \A i \in DOMAIN items : RecordOk(items[i])
  /\ target = NoLine \/ RecordOk(target)

SystemInv == mounts \in Seq(Lines) /\ order \in Seq(Entries)

\* What the page asks for is what it was shown of the volume picked.
AsksFor(vol) ==
  /\ vol \in Entries /\ vol[1] \in Usb
  /\ \/ \E s \in {NoSerial, Serial[vol[1]]} : wanted = <<"usb", <<Model[vol[1]], s>>>>
     \/ \E p \in Lines \cup {NoLine} :
          wanted = <<"volume", p>> /\ (p # NoLine => p.vol = vol)

RequestInv ==
  /\ wanted # NoLine => AsksFor(picked) /\ target = NoLine
  /\ phase # "idle" => target = NoLine /\ (wanted # NoLine <=> purpose = "scan")

IInv == SystemInv /\ FillingInv /\ ListInv /\ RequestInv /\ FoundIsPicked

-----------------------------------------------------------------------------
\* The mount table stays one, and no record is about it.
LEMMA WorldStep ==
  ASSUME IInv, World
  PROVE  IInv'
<1>1. UNCHANGED <<phase, purpose, order, pos, reading, items, request>>
  BY DEF World, PullOut, PlugIn, Mount, Unmount, Touched
<1>2. mounts' \in Seq(Lines)
  <2>1. CASE mounts' = mounts
    BY <2>1 DEF IInv, SystemInv
  <2>2. CASE \E line \in Mountable : Mount(line)
    BY <2>2, DevicesAssumption DEF IInv, SystemInv, Mount
  <2>3. CASE \E i \in DOMAIN mounts : Unmount(i)
    <3>1. PICK i \in DOMAIN mounts :
            mounts' = SubSeq(mounts, 1, i - 1) \o SubSeq(mounts, i + 1, Len(mounts))
      BY <2>3 DEF Unmount, RemoveAt
    <3>2. /\ SubSeq(mounts, 1, i - 1) \in Seq(Lines)
          /\ SubSeq(mounts, i + 1, Len(mounts)) \in Seq(Lines)
      BY DEF IInv, SystemInv
    <3> QED BY <3>1, <3>2
  <2> QED BY <2>1, <2>2, <2>3 DEF World, PullOut, PlugIn
<1>3. SystemInv'
  BY <1>1, <1>2 DEF IInv, SystemInv
<1>4. FillingInv' /\ ListInv'
  BY <1>1 DEF IInv, FillingInv, ListInv, reading, request
<1>5. RequestInv' /\ FoundIsPicked'
  BY <1>1 DEF IInv, RequestInv, FoundIsPicked, AsksFor, request
<1> QED BY <1>3, <1>4, <1>5 DEF IInv

\* A record keeps being about its entry, and a list keeps being left alone,
\* through the reads of an enumeration.
LEMMA Enumerating ==
  ASSUME IInv, UNCHANGED <<world, purpose, request>>,
         phase # "idle", phase' # "idle",
         FillingInv', UNCHANGED items
  PROVE  IInv'
<1>1. SystemInv' /\ ListInv'
  BY DEF IInv, SystemInv, ListInv, world, request
<1>2. RequestInv' /\ FoundIsPicked'
  BY DEF IInv, RequestInv, FoundIsPicked, AsksFor, request
<1> QED BY <1>1, <1>2 DEF IInv

LEMMA ReadStep ==
  ASSUME IInv,
         \/ NextEntry \/ SkipDisk \/ TakeEntry \/ WalkUp \/ ReadIds \/ ReadDev
         \/ ReadMounts \/ ReadMountsFails \/ ReadMedia \/ EndOfList
  PROVE  IInv'
<1>1. /\ UNCHANGED <<world, purpose, request, items>>
      /\ phase # "idle" /\ phase' # "idle"
  BY DEF NextEntry, SkipDisk, TakeEntry, WalkUp, ReadIds, ReadDev, ReadMounts,
         ReadMountsFails, ReadMedia, EndOfList
<1> USE DEF Filling, FillingInv
<1>2. CASE NextEntry
  <2> DEFINE first == CHOOSE i \in Ahead : \A j \in Ahead : i <= j
  <2>1. Ahead \in SUBSET Nat
    BY DEF IInv, SystemInv, Ahead
  <2>2. Ahead # {}
    BY <1>2 DEF NextEntry
  <2>3. first \in Ahead
    BY <2>1, <2>2, FirstIsThere
  <2>4. pos' = first /\ entry' = order[pos'] /\ phase' = "probe"
    BY <1>2 DEF NextEntry
  <2>5. entry' \in Entries
    BY <2>3, <2>4 DEF IInv, SystemInv, Ahead
  <2> QED BY <1>1, <2>4, <2>5, Enumerating
<1>3. CASE SkipDisk \/ EndOfList
  BY <1>1, <1>3, Enumerating DEF SkipDisk, EndOfList
<1>4. CASE TakeEntry
  <2>1. RecordOk(Blank(entry)) /\ Blank(entry).vol = entry
    BY <1>4 DEF IInv, TakeEntry, RecordOk, Blank, Fields
  <2> QED BY <1>1, <1>4, <2>1, Enumerating DEF TakeEntry, IInv
<1>5. CASE WalkUp
  <2>1. PICK found \in BOOLEAN :
          /\ found => entry[1] \in Usb
          /\ item' = [item EXCEPT !.usb = found]
          /\ phase' = IF found THEN "ids" ELSE "dev"
    BY <1>5 DEF WalkUp
  <2>2. entry \in Entries /\ RecordOk(item) /\ item.vol = entry /\ entry' = entry
    BY <1>5 DEF IInv, WalkUp
  <2>3. RecordOk(item') /\ item'.vol = entry
    BY <2>1, <2>2 DEF RecordOk, Fields
  <2> QED BY <1>1, <2>1, <2>2, <2>3, Enumerating
<1>6. CASE ReadIds
  <2>1. /\ entry \in Entries /\ RecordOk(item) /\ item.vol = entry /\ entry' = entry
        /\ entry[1] \in Usb /\ phase' = "dev"
    BY <1>6 DEF IInv, ReadIds
  <2>2. PICK ids : /\ item' = [item EXCEPT !.ids = ids]
                   /\ \/ ids = NoIds
                      \/ \E s \in {NoSerial, Serial[entry[1]]} : ids = <<Model[entry[1]], s>>
    BY <1>6 DEF ReadIds
  <2>3. RecordOk(item') /\ item'.vol = entry
    BY <2>1, <2>2 DEF RecordOk, Fields
  <2> QED BY <1>1, <2>1, <2>3, Enumerating
<1>7. CASE ReadDev \/ ReadMountsFails
  BY <1>1, <1>7, Enumerating DEF ReadDev, ReadMountsFails, IInv, reading
<1>8. CASE ReadMounts
  <2>1. /\ entry \in Entries /\ RecordOk(item) /\ item.vol = entry /\ entry' = entry
        /\ phase' = "media" /\ item' = WithMounts(item, entry)
    BY <1>8 DEF IInv, ReadMounts
  <2>2. LET p == VolumePath(LinesOf(entry)) IN p = NoLine \/ (p \in Lines /\ p.vol = entry)
    <3> DEFINE hits == {i \in LinesOf(entry) : IsDirectory(mounts[i])}
    <3>1. mounts \in Seq(Lines) /\ hits \in SUBSET DOMAIN mounts
      BY DEF IInv, SystemInv, LinesOf
    <3>2. \A i \in hits : mounts[i] \in Lines /\ mounts[i].vol = entry
      BY <3>1 DEF IsOf, LinesOf
    <3> HIDE DEF hits
    <3>3. FirstOf(mounts, hits) = NoLine \/ \E i \in hits : FirstOf(mounts, hits) = mounts[i]
      BY <3>1, FirstOfOne
    <3>4. VolumePath(LinesOf(entry)) = FirstOf(mounts, hits)
      BY Zenon DEF VolumePath, hits
    <3> QED BY <3>2, <3>3, <3>4
  <2>3. PICK points, path : /\ item' = [item EXCEPT !.points = points, !.path = path]
                            /\ path = VolumePath(LinesOf(entry))
    BY <2>1 DEF WithMounts
  <2>4. RecordOk(item') /\ item'.vol = entry
    BY <2>1, <2>2, <2>3 DEF RecordOk, Fields
  <2> QED BY <1>1, <2>1, <2>4, Enumerating
<1>9. CASE ReadMedia
  <2>1. /\ entry \in Entries /\ RecordOk(item) /\ item.vol = entry /\ entry' = entry
        /\ phase' = "push"
    BY <1>9 DEF IInv, ReadMedia
  <2>2. PICK media : item' = [item EXCEPT !.media = media]
    BY <1>9 DEF ReadMedia
  <2>3. RecordOk(item') /\ item'.vol = entry
    BY <2>1, <2>2 DEF RecordOk, Fields
  <2> QED BY <1>1, <2>1, <2>3, Enumerating
<1> QED BY <1>2, <1>3, <1>4, <1>5, <1>6, <1>7, <1>8, <1>9

LEMMA PushStep ==
  ASSUME IInv, Push
  PROVE  IInv'
<1>1. /\ phase = "push" /\ phase' = "list" /\ items' = Append(items, item) /\ RecordOk(item)
      /\ UNCHANGED <<world, purpose, request>>
  BY DEF Push, IInv, FillingInv, Filling
<1>2. PICK S : items \in Seq(S)
  BY DEF IInv, ListInv
<1>3. /\ items' \in Seq(S \cup {item})
      /\ \A i \in DOMAIN items' : items'[i] \in Range(items) \cup {item}
  BY <1>1, <1>2, Pushed
<1>4. \A it \in Range(items) : RecordOk(it)
  BY DEF IInv, ListInv, Range
<1>5. ListInv'
  BY <1>1, <1>3, <1>4 DEF IInv, ListInv, request
<1>6. SystemInv' /\ FillingInv'
  BY <1>1 DEF IInv, SystemInv, FillingInv, Filling, world
<1>7. RequestInv' /\ FoundIsPicked'
  BY <1>1 DEF IInv, RequestInv, FoundIsPicked, AsksFor, request
<1> QED BY <1>5, <1>6, <1>7 DEF IInv

\* The list is dropped; what is left of it is what is to be scanned.
LEMMA Dropped ==
  ASSUME IInv, UNCHANGED world, phase' \in {"idle", "list", "deliver"},
         items' = <<>> \/ UNCHANGED items,
         target' = NoLine \/ RecordOk(target'), RequestInv', FoundIsPicked'
  PROVE  IInv'
<1>1. SystemInv'
  BY DEF IInv, SystemInv, world
<1>2. FillingInv'
  BY DEF FillingInv, Filling
<1>3. (\E S : items \in Seq(S))' /\ (\A i \in DOMAIN items : RecordOk(items[i]))'
  <2>1. CASE items' = <<>>
    BY <2>1
  <2>2. CASE UNCHANGED items
    BY <2>2 DEF IInv, ListInv
  <2> QED BY <2>1, <2>2
<1> QED BY <1>1, <1>2, <1>3 DEF IInv, ListInv

LEMMA BeginStep ==
  ASSUME IInv, Fail \/ PageLeft \/ \E who \in {"page", "scan", "command"} : Open(who)
  PROVE  IInv'
<1>1. CASE Fail
  <2>1. /\ phase \in {"list", "push"} /\ phase' \in {"idle", "deliver"} /\ items' = <<>>
        /\ purpose # "scan" \/ phase' = "idle"
        /\ wanted' = NoLine /\ picked' = NoLine
        /\ UNCHANGED <<world, purpose, target>>
    BY <1>1 DEF Fail, ListDone
  <2>2. RequestInv' /\ FoundIsPicked' /\ target = NoLine
    BY <2>1 DEF IInv, RequestInv, FoundIsPicked
  <2> QED BY <2>1, <2>2, Dropped
<1>2. CASE PageLeft
  <2>1. /\ phase = "deliver" /\ phase' = "idle" /\ items' = <<>>
        /\ UNCHANGED <<world, purpose, request>>
    BY <1>2 DEF PageLeft, ListDone
  <2>2. RequestInv' /\ FoundIsPicked' /\ target = NoLine
    BY <2>1 DEF IInv, RequestInv, FoundIsPicked, AsksFor, request
  <2> QED BY <2>1, <2>2, Dropped DEF request
<1>3. CASE \E who \in {"page", "scan", "command"} : Open(who)
  <2>1. /\ phase = "idle" /\ phase' = "list" /\ items' = <<>> /\ target' = NoLine
        /\ purpose' = "scan" <=> wanted # NoLine
        /\ purpose' = "scan" => picked' = picked
        /\ UNCHANGED <<world, wanted>>
    BY <1>3 DEF Open
  <2>2. RequestInv' /\ FoundIsPicked'
    BY <2>1 DEF IInv, RequestInv, FoundIsPicked, AsksFor
  <2> QED BY <2>1, <2>2, Dropped
<1> QED BY <1>1, <1>2, <1>3

\* An element of a list of records is one.
LEMMA FoundOk ==
  ASSUME IInv, NEW hits \in SUBSET DOMAIN items
  PROVE  \/ FirstOf(items, hits) = NoLine
         \/ \E i \in hits : FirstOf(items, hits) = items[i] /\ RecordOk(items[i])
<1>1. PICK S : items \in Seq(S)
  BY DEF IInv, ListInv
<1> QED BY <1>1, FirstOfOne DEF IInv, ListInv

LEMMA PickStep ==
  ASSUME IInv, NEW i \in DOMAIN items, PagePicks(i)
  PROVE  IInv'
<1>1. /\ phase = "deliver" /\ purpose = "page" /\ phase' = "idle" /\ items' = <<>>
      /\ items[i].usb /\ picked' = items[i].vol /\ wanted' = Identity(items[i])
      /\ UNCHANGED <<world, purpose, target>>
  BY DEF PagePicks, ListDone
<1>2. RecordOk(items[i]) /\ target = NoLine
  BY <1>1 DEF IInv, ListInv, RequestInv
<1>3. AsksFor(picked)'
  BY <1>1, <1>2 DEF AsksFor, RecordOk, Identity
<1>4. RequestInv' /\ FoundIsPicked'
  BY <1>1, <1>2, <1>3 DEF RequestInv, FoundIsPicked
<1> QED BY <1>1, <1>2, <1>4, Dropped

\* Two records of one identity: of one stick or of sticks alike, and of one
\* volume unless there is another with that identity.
LEMMA FoundIsLike ==
  ASSUME NEW vol, AsksFor(vol), NEW it, RecordOk(it), Identity(it) = wanted,
         HasMountPoint(it)
  PROVE  LET like == {e \in Volumes : e[1] \in Usb /\ Model[e[1]] = Model[vol[1]]}
         IN  /\ it.vol \in like /\ it.path.vol = it.vol
             /\ like = {vol} => it.path.vol = vol
<1>1. it.path \in Lines /\ it.path.vol = it.vol /\ it.path # NoLine
  BY DEF HasMountPoint, RecordOk
<1>2. it.vol \in Volumes
  BY <1>1 DEF Lines
<1>3. CASE it.ids # NoIds
  <2>1. PICK s : it.ids = <<Model[it.vol[1]], s>> /\ it.vol[1] \in Usb
    BY <1>3 DEF RecordOk
  <2>2. wanted = <<"usb", it.ids>>
    BY <1>3 DEF Identity
  <2>3. PICK t : wanted = <<"usb", <<Model[vol[1]], t>>>>
    BY <2>2 DEF AsksFor
  <2>4. Model[it.vol[1]] = Model[vol[1]]
    BY <2>1, <2>2, <2>3
  <2> QED BY <1>1, <1>2, <2>1, <2>4
<1>4. CASE it.ids = NoIds
  <2>1. wanted = <<"volume", it.path>>
    BY <1>4 DEF Identity
  <2>2. it.path.vol = vol /\ vol[1] \in Usb
    BY <1>1, <2>1 DEF AsksFor
  <2> QED BY <1>1, <1>2, <2>2
<1> QED BY <1>3, <1>4

LEMMA ScanStep ==
  ASSUME IInv, ScanFinds
  PROVE  IInv'
<1> DEFINE hits == {i \in DOMAIN items : Identity(items[i]) = wanted}
           found == FirstOf(items, hits)
<1>1. /\ phase = "deliver" /\ purpose = "scan" /\ phase' = "idle" /\ items' = <<>>
      /\ wanted' = NoLine /\ UNCHANGED <<world, purpose>>
      /\ IF found # NoLine /\ HasMountPoint(found)
           THEN target' = found /\ UNCHANGED picked
           ELSE target' = NoLine /\ picked' = NoLine
  BY DEF ScanFinds, ListDone
<1>2. found = NoLine \/ \E i \in hits : found = items[i] /\ RecordOk(items[i])
  BY FoundOk
<1>3. RequestInv'
  BY <1>1 DEF RequestInv
<1>4. CASE found # NoLine /\ HasMountPoint(found)
  <2>1. RecordOk(found) /\ Identity(found) = wanted
    BY <1>2, <1>4
  <2>2. AsksFor(picked)
    BY <1>1 DEF IInv, RequestInv
  <2> HIDE DEF found
  <2>3. target' = found /\ picked' = picked
    BY <1>1, <1>4
  <2>4. FoundIsPicked'
    BY <1>4, <2>1, <2>2, <2>3, FoundIsLike DEF FoundIsPicked
  <2> QED BY <1>1, <1>3, <2>1, <2>3, <2>4, Dropped
<1>5. CASE ~(found # NoLine /\ HasMountPoint(found))
  <2>1. target' = NoLine
    BY <1>1, <1>5
  <2>2. FoundIsPicked'
    BY <2>1 DEF FoundIsPicked
  <2> QED BY <1>1, <1>3, <2>1, <2>2, Dropped
<1> QED BY <1>4, <1>5

LEMMA CommandStep ==
  ASSUME IInv, CommandTakesFirst \/ \E line \in Lines : CommandTakesPath(line)
  PROVE  IInv'
<1>1. /\ phase = "deliver" /\ purpose = "command" /\ phase' = "idle" /\ items' = <<>>
      /\ picked' = NoLine /\ UNCHANGED <<world, purpose, wanted>>
  BY DEF CommandTakesFirst, CommandTakesPath, ListDone
<1>2. RequestInv' /\ FoundIsPicked'
  BY <1>1 DEF IInv, RequestInv, FoundIsPicked
<1>3. target' = NoLine \/ RecordOk(target')
  <2>1. CASE CommandTakesFirst
    BY <2>1, FoundOk DEF CommandTakesFirst
  <2>2. CASE \E line \in Lines : CommandTakesPath(line)
    <3>1. PICK line \in Lines : CommandTakesPath(line)
      BY <2>2
    <3> DEFINE hits == {i \in DOMAIN items :
                          ScannableUsb(items[i]) /\ line \in Range(items[i].points)}
               bare == [Blank(line.vol) EXCEPT !.points = <<line>>, !.path = line,
                                               !.media = TRUE]
    <3>2. target' \in {FirstOf(items, hits), bare, NoLine}
      BY <3>1 DEF CommandTakesPath
    <3>3. FirstOf(items, hits) = NoLine \/ RecordOk(FirstOf(items, hits))
      BY FoundOk
    <3>4. line.vol \in Entries
      BY DEF Lines, Volumes
    <3>5. RecordOk(bare)
      BY <3>4 DEF RecordOk, Blank, Fields
    <3> QED BY <3>2, <3>3, <3>5
  <2> QED BY <2>1, <2>2
<1> QED BY <1>1, <1>2, <1>3, Dropped

-----------------------------------------------------------------------------
LEMMA Invariant == Spec => []IInv
<1>1. Init => IInv
  <2> SUFFICES ASSUME Init PROVE IInv
    OBVIOUS
  <2>1. mounts \in Seq(Lines) /\ order \in Seq(Entries)
    BY DevicesAssumption DEF Init
  <2>2. \E S : items \in Seq(S)
    BY DEF Init
  <2> QED BY <2>1, <2>2 DEF Init, IInv, SystemInv, FillingInv, Filling, ListInv, RequestInv,
             FoundIsPicked
<1>2. IInv /\ [Next]_vars => IInv'
  <2> SUFFICES ASSUME IInv, [Next]_vars PROVE IInv'
    OBVIOUS
  <2>1. CASE UNCHANGED vars
    BY <2>1 DEF vars, world, reading, request, IInv, SystemInv, FillingInv, ListInv,
                RequestInv, AsksFor, FoundIsPicked
  <2>2. CASE World
    BY <2>2, WorldStep
  <2>3. CASE Enumerate
    BY <2>3, ReadStep, PushStep, BeginStep DEF Enumerate
  <2>4. CASE Deliver
    BY <2>4, PickStep, BeginStep, ScanStep, CommandStep DEF Deliver
  <2>5. CASE \E who \in {"page", "scan", "command"} : Open(who)
    BY <2>5, BeginStep
  <2> QED BY <2>1, <2>2, <2>3, <2>4, <2>5 DEF Next
<1> QED BY <1>1, <1>2, PTL DEF Spec

\* No volume is listed or scanned under the ids or with the mounts of another.
THEOREM IdentitiesAreOwn == Spec => []OwnIdentity
<1>1. IInv => OwnIdentity
  BY DEF IInv, ListInv, RecordOk, OwnIdentity, Range
<1> QED BY <1>1, Invariant, PTL

\* The scan the page starts is of the stick the user picked, or of one that
\* cannot be told from it.
THEOREM ScannedIsPicked == Spec => []FoundIsPicked
<1>1. IInv => FoundIsPicked
  BY DEF IInv
<1> QED BY <1>1, Invariant, PTL

-----------------------------------------------------------------------------
(***************************************************************************)
(* Types, with the bound on the mount points of a record in progress.      *)
(***************************************************************************)
SystemType ==
  /\ attached \subseteq Disks /\ mounts \in Seq(Lines) /\ changes \in 0..MaxChanges
  /\ order \in Orders

ProgressType ==
  /\ phase \in {"idle", "list", "deliver", "probe"} \cup Filling
  /\ purpose \in {"page", "scan", "command"}
  /\ pos \in 0..Len(order) /\ own \in BOOLEAN
  /\ entry \in Entries \cup {NoLine} /\ item \in Items \cup {NoLine}
  /\ phase \in {"probe"} \cup Filling => entry \in Entries
  /\ phase \in Filling => /\ item \in Items /\ item.vol = entry
                          /\ Len(item.points) <= PointsMax

ListType ==
  /\ items \in Seq(Items) /\ steady \subseteq attached
  /\ \A i \in DOMAIN items : Len(items[i].points) <= PointsMax

RequestType == picked \in Entries \cup {NoLine} /\ target \in Items \cup {NoLine}

TypeInv == SystemType /\ ProgressType /\ ListType /\ RequestType

LEMMA InitType == ASSUME Init PROVE TypeInv
<1>1. order \in Orders /\ mounts \in Seq(Lines) /\ MaxChanges \in Nat
  BY DevicesAssumption DEF Init
<1>2. order \in Seq(Entries)
  BY <1>1, DevicesAssumption
<1>3. SystemType
  BY <1>1, DevicesAssumption DEF Init, SystemType
<1>4. ProgressType
  <2>1. /\ phase = "idle" /\ purpose = "page" /\ pos = 0 /\ own = FALSE
        /\ entry = NoLine /\ item = NoLine
    BY DEF Init
  <2>2. 0 \in 0..Len(order)
    BY <1>2
  <2> QED BY <2>1, <2>2 DEF ProgressType, Filling
<1>5. ListType /\ RequestType
  BY DEF Init, ListType, RequestType
<1> QED BY <1>3, <1>4, <1>5 DEF TypeInv

\* Filling in a field of a record leaves it one.
LEMMA FieldTypes ==
  ASSUME NEW it \in Items, NEW b \in BOOLEAN, NEW ids \in KnownIds
  PROVE  /\ [it EXCEPT !.usb = b] \in Items
         /\ [it EXCEPT !.media = b] \in Items
         /\ [it EXCEPT !.ids = ids] \in Items
<1>1. [it EXCEPT !.usb = b] \in Items /\ [it EXCEPT !.media = b] \in Items
  BY DEF Items
<1>2. [it EXCEPT !.ids = ids] \in Items
  BY DEF Items
<1> QED BY <1>1, <1>2

LEMMA MountTypes ==
  ASSUME NEW it \in Items, NEW points \in Seq(Lines), NEW path \in Lines \cup {NoLine}
  PROVE  [it EXCEPT !.points = points, !.path = path] \in Items
BY DEF Items

LEMMA TypesThere == NoIds \in KnownIds /\ <<>> \in Seq(Lines) /\ TRUE \in BOOLEAN
BY DEF KnownIds

LEMMA BlankType ==
  ASSUME NEW e \in Entries
  PROVE  /\ Blank(e) \in Items /\ Blank(e).points = <<>> /\ Blank(e).vol = e
         /\ Blank(e).media = FALSE
<1>1. NoIds \in KnownIds
  BY DEF KnownIds
<1> QED BY <1>1 DEF Blank, Items

LEMMA PathType ==
  ASSUME mounts \in Seq(Lines), NEW found \in SUBSET DOMAIN mounts
  PROVE  VolumePath(found) \in Lines \cup {NoLine}
<1> DEFINE hits == {i \in found : IsDirectory(mounts[i])}
<1>1. hits \in SUBSET DOMAIN mounts /\ \A i \in hits : mounts[i] \in Lines
  OBVIOUS
<1> HIDE DEF hits
<1>2. FirstOf(mounts, hits) = NoLine \/ \E i \in hits : FirstOf(mounts, hits) = mounts[i]
  BY <1>1, FirstOfOne
<1>3. VolumePath(found) = FirstOf(mounts, hits)
  BY Zenon DEF VolumePath, hits
<1> QED BY <1>1, <1>2, <1>3

LEMMA WorldTypes ==
  ASSUME TypeInv, World
  PROVE  TypeInv'
<1>1. UNCHANGED <<phase, purpose, order, pos, reading, items, request>>
  BY DEF World, PullOut, PlugIn, Mount, Unmount, Touched
<1>2. PICK d : steady' = steady \ {d} /\ changes < MaxChanges /\ changes' = changes + 1
  BY DEF World, PullOut, PlugIn, Mount, Unmount, Touched
<1>3. mounts' \in Seq(Lines)
  <2>1. CASE mounts' = mounts
    BY <2>1 DEF TypeInv, SystemType
  <2>2. CASE \E line \in Mountable : Mount(line)
    BY <2>2, DevicesAssumption DEF TypeInv, SystemType, Mount
  <2>3. CASE \E i \in DOMAIN mounts : Unmount(i)
    <3>1. PICK i \in DOMAIN mounts :
            mounts' = SubSeq(mounts, 1, i - 1) \o SubSeq(mounts, i + 1, Len(mounts))
      BY <2>3 DEF Unmount, RemoveAt
    <3>2. /\ SubSeq(mounts, 1, i - 1) \in Seq(Lines)
          /\ SubSeq(mounts, i + 1, Len(mounts)) \in Seq(Lines)
      BY DEF TypeInv, SystemType
    <3> QED BY <3>1, <3>2
  <2> QED BY <2>1, <2>2, <2>3 DEF World, PullOut, PlugIn
<1>4. attached' \subseteq Disks /\ steady' \subseteq attached'
  <2>1. CASE \E x \in Disks : PullOut(x) \/ PlugIn(x)
    BY <2>1 DEF PullOut, PlugIn, Touched, TypeInv, SystemType, ListType
  <2>2. CASE attached' = attached
    BY <1>2, <2>2 DEF TypeInv, SystemType, ListType
  <2> QED BY <2>1, <2>2 DEF World, Mount, Unmount
<1>5. changes' \in 0..MaxChanges
  BY <1>2, DevicesAssumption DEF TypeInv, SystemType
<1>6. SystemType'
  BY <1>1, <1>3, <1>4, <1>5 DEF TypeInv, SystemType
<1>7. ProgressType' /\ ListType' /\ RequestType'
  BY <1>1, <1>4 DEF TypeInv, ProgressType, ListType, RequestType, reading, request
<1> QED BY <1>6, <1>7 DEF TypeInv

\* A read leaves everything alone but the record in progress.
LEMMA ReadTypes ==
  ASSUME TypeInv,
         \/ NextEntry \/ SkipDisk \/ TakeEntry \/ WalkUp \/ ReadIds \/ ReadDev
         \/ ReadMounts \/ ReadMountsFails \/ ReadMedia \/ EndOfList
  PROVE  TypeInv'
<1>1. /\ UNCHANGED <<world, purpose, request, items>> /\ steady' \subseteq steady
      /\ phase' \in {"list", "deliver", "probe"} \cup Filling
  BY DEF NextEntry, SkipDisk, TakeEntry, WalkUp, ReadIds, ReadDev, ReadMounts,
         ReadMountsFails, ReadMedia, EndOfList, Filling
<1>2. SystemType' /\ ListType' /\ RequestType'
  BY <1>1 DEF TypeInv, SystemType, ListType, RequestType, world, request
<1> SUFFICES ProgressType'
  BY <1>2 DEF TypeInv
<1>3. phase' \in {"idle", "list", "deliver", "probe"} \cup Filling /\ purpose' = purpose /\ order' = order
  BY <1>1 DEF world
<1>4. order \in Seq(Entries)
  BY DevicesAssumption DEF TypeInv, SystemType
<1>5. CASE NextEntry
  <2> DEFINE first == CHOOSE i \in Ahead : \A j \in Ahead : i <= j
  <2>1. Ahead \in SUBSET Nat /\ Ahead # {}
    <3>1. Ahead \in SUBSET Nat
      BY <1>4 DEF Ahead
    <3> QED BY <1>5, <3>1 DEF NextEntry
  <2>2. first \in Ahead
    BY <2>1, FirstIsThere
  <2>3. pos' = first /\ entry' = order[pos'] /\ phase' = "probe" /\ own' = FALSE /\ item' = NoLine
    BY <1>5 DEF NextEntry
  <2>4. pos' \in 0..Len(order) /\ entry' \in Entries
    BY <1>4, <2>2, <2>3 DEF Ahead
  <2> QED BY <1>3, <2>3, <2>4 DEF TypeInv, ProgressType, Filling
<1>6. CASE SkipDisk
  BY <1>3, <1>6 DEF SkipDisk, EntryDone, TypeInv, ProgressType, Filling
<1>7. CASE EndOfList
  BY <1>3, <1>7 DEF EndOfList, reading, TypeInv, ProgressType, Filling
<1>8. CASE TakeEntry
  <2>1. entry \in Entries /\ UNCHANGED <<pos, entry>> /\ item' = Blank(entry) /\ phase' = "walk"
    BY <1>8 DEF TakeEntry, TypeInv, ProgressType
  <2>2. own' \in BOOLEAN
    BY <1>8, Zenon DEF TakeEntry
  <2>3. item' \in Items /\ item'.vol = entry' /\ Len(item'.points) <= PointsMax
    <3>1. PointsMax \in Nat \ {0} /\ Len(<<>>) = 0
      BY DevicesAssumption
    <3>2. Len(<<>>) <= PointsMax
      BY <3>1
    <3> QED BY <2>1, <3>2, BlankType
  <2> QED BY <1>3, <2>1, <2>2, <2>3 DEF TypeInv, ProgressType
<1>9. ASSUME phase \in Filling, UNCHANGED <<pos, entry, own>>,
             item' \in Items, item'.vol = item.vol, Len(item'.points) <= PointsMax
      PROVE  ProgressType'
  BY <1>3, <1>9 DEF TypeInv, ProgressType
<1>10. phase \in Filling => item \in Items /\ entry \in Entries /\ Len(item.points) <= PointsMax
  BY DEF TypeInv, ProgressType
<1>11. CASE ReadDev \/ ReadMountsFails
  BY <1>9, <1>10, <1>11 DEF ReadDev, ReadMountsFails, reading, Filling
<1>12. CASE WalkUp
  <2>1. PICK b \in BOOLEAN : item' = [item EXCEPT !.usb = b]
    BY <1>12 DEF WalkUp
  <2>2. phase \in Filling /\ UNCHANGED <<pos, entry, own>>
    BY <1>12 DEF WalkUp, Filling
  <2>3. item' \in Items
    BY <1>10, <2>1, <2>2, FieldTypes, TypesThere
  <2>4. item'.vol = item.vol /\ item'.points = item.points
    BY <1>10, <2>1, <2>2 DEF Items
  <2> QED BY <1>9, <1>10, <2>2, <2>3, <2>4
<1>13. CASE ReadIds
  <2>1. phase \in Filling /\ UNCHANGED <<pos, entry, own>>
    BY <1>13 DEF ReadIds, Filling
  <2>2. entry[1] \in Disks
    BY <1>10, <2>1 DEF Entries
  <2>3. PICK ids \in KnownIds : item' = [item EXCEPT !.ids = ids]
    <3>1. Serial[entry[1]] \in Range(Serial)
      BY <2>2, DevicesAssumption DEF Range
    <3>2. PICK ids : /\ item' = [item EXCEPT !.ids = ids]
                     /\ ids \in {NoIds, <<Model[entry[1]], NoSerial>>,
                                 <<Model[entry[1]], Serial[entry[1]]>>}
      BY <1>13 DEF ReadIds
    <3>3. ids \in KnownIds
      BY <2>2, <3>1, <3>2 DEF KnownIds
    <3> QED BY <3>2, <3>3
  <2>4. item' \in Items
    BY <1>10, <2>1, <2>3, FieldTypes, TypesThere
  <2>5. item'.vol = item.vol /\ item'.points = item.points
    BY <1>10, <2>1, <2>3 DEF Items
  <2> QED BY <1>9, <1>10, <2>1, <2>4, <2>5
<1>14. CASE ReadMounts
  <2>1. phase \in Filling /\ UNCHANGED <<pos, entry, own>> /\ item' = WithMounts(item, entry)
    BY <1>14 DEF ReadMounts, Filling
  <2>2. mounts \in Seq(Lines) /\ LinesOf(entry) \in SUBSET DOMAIN mounts
    BY DEF TypeInv, SystemType, LinesOf
  <2> DEFINE points == MountPoints(LinesOf(entry), PointsMax)
             path == VolumePath(LinesOf(entry))
  <2>3. points \in Seq(Lines) /\ Len(points) <= PointsMax
    BY <2>2, MountPointsAre, DevicesAssumption
  <2>4. path \in Lines \cup {NoLine}
    BY <2>2, PathType
  <2>5. item' = [item EXCEPT !.points = points, !.path = path]
    BY <2>1 DEF WithMounts
  <2> HIDE DEF points, path
  <2>6. item' \in Items
    <3>1. item \in Items
      BY <1>10, <2>1
    <3>2. [item EXCEPT !.points = points, !.path = path] \in Items
      BY <3>1, <2>3, <2>4, MountTypes
    <3> QED BY <2>5, <3>2
  <2>7. item'.vol = item.vol /\ item'.points = points
    BY <1>10, <2>1, <2>5 DEF Items
  <2> QED BY <1>9, <2>1, <2>3, <2>6, <2>7
<1>15. CASE ReadMedia
  <2>1. phase \in Filling /\ UNCHANGED <<pos, entry, own>>
    BY <1>15 DEF ReadMedia, Filling
  <2>2. PICK b \in BOOLEAN : item' = [item EXCEPT !.media = b]
    <3>1. item.media \in BOOLEAN
      BY <1>10, <2>1 DEF Items
    <3> QED BY <1>15, <3>1, Zenon DEF ReadMedia
  <2>3. item' \in Items
    BY <1>10, <2>1, <2>2, FieldTypes, TypesThere
  <2>4. item'.vol = item.vol /\ item'.points = item.points
    BY <1>10, <2>1, <2>2 DEF Items
  <2> QED BY <1>9, <1>10, <2>1, <2>3, <2>4
<1> QED BY <1>5, <1>6, <1>7, <1>8, <1>11, <1>12, <1>13, <1>14, <1>15

LEMMA FoundType ==
  ASSUME TypeInv, NEW hits \in SUBSET DOMAIN items
  PROVE  FirstOf(items, hits) \in Items \cup {NoLine}
<1>1. items \in Seq(Items)
  BY DEF TypeInv, ListType
<1> QED BY <1>1, FirstOfOne

LEMMA ListTypes ==
  ASSUME TypeInv, Push \/ Fail \/ Deliver \/ \E who \in {"page", "scan", "command"} : Open(who)
  PROVE  TypeInv'
<1>1. order \in Seq(Entries) /\ Len(order) \in Nat
  BY DevicesAssumption DEF TypeInv, SystemType
<1>2. ASSUME UNCHANGED world, phase' \in {"idle", "list", "deliver"},
             purpose' \in {"page", "scan", "command"},
             pos' = pos \/ pos' = 0, EntryDone \/ UNCHANGED reading,
             items' = <<>> \/ UNCHANGED items, steady' \subseteq attached,
             picked' \in Entries \cup {NoLine}, target' \in Items \cup {NoLine}
      PROVE  TypeInv'
  <2>1. UNCHANGED <<attached, mounts, order, changes>>
    BY <1>2 DEF world
  <2>2. SystemType' /\ RequestType'
    BY <1>2, <2>1 DEF TypeInv, SystemType, RequestType
  <2>3. pos' \in 0..Len(order')
    BY <1>1, <1>2, <2>1 DEF TypeInv, ProgressType
  <2>4. own' \in BOOLEAN /\ entry' \in Entries \cup {NoLine} /\ item' \in Items \cup {NoLine}
    <3>1. CASE EntryDone
      BY <3>1 DEF EntryDone
    <3>2. CASE UNCHANGED reading
      BY <3>2 DEF TypeInv, ProgressType, reading
    <3> QED BY <1>2, <3>1, <3>2
  <2>5. ProgressType'
    BY <1>2, <2>3, <2>4 DEF ProgressType, Filling
  <2>6. ListType'
    <3>1. CASE items' = <<>>
      BY <1>2, <2>1, <3>1 DEF ListType
    <3>2. CASE UNCHANGED items
      BY <1>2, <2>1, <3>2 DEF TypeInv, ListType
    <3> QED BY <1>2, <3>1, <3>2
  <2> QED BY <2>2, <2>5, <2>6 DEF TypeInv
<1>3. /\ steady \subseteq attached /\ purpose \in {"page", "scan", "command"}
      /\ picked \in Entries \cup {NoLine} /\ target \in Items \cup {NoLine}
  BY DEF TypeInv, ListType, ProgressType, RequestType
<1>4. CASE Push
  <2>1. /\ phase = "push" /\ phase' = "list" /\ items' = Append(items, item)
        /\ EntryDone /\ UNCHANGED <<world, purpose, pos, steady, request>>
    BY <1>4 DEF Push
  <2>2. item \in Items /\ Len(item.points) <= PointsMax /\ items \in Seq(Items)
    BY <2>1 DEF TypeInv, ProgressType, ListType, Filling
  <2>3. /\ items' \in Seq(Items)
        /\ \A i \in DOMAIN items' : (i \in DOMAIN items /\ items'[i] = items[i]) \/ items'[i] = item
    BY <2>1, <2>2
  <2>4. ListType'
    BY <2>1, <2>2, <2>3 DEF TypeInv, ListType, world
  <2>5. SystemType' /\ RequestType' /\ ProgressType'
    BY <2>1 DEF TypeInv, SystemType, RequestType, ProgressType, EntryDone, Filling, world, request
  <2> QED BY <2>4, <2>5 DEF TypeInv
<1>5. CASE Fail
  BY <1>2, <1>3, <1>5 DEF Fail, ListDone
<1>6. CASE \E who \in {"page", "scan", "command"} : Open(who)
  BY <1>2, <1>3, <1>6 DEF Open
<1>7. ASSUME ListDone, UNCHANGED <<world, purpose>>,
             picked' \in Entries \cup {NoLine}, target' \in Items \cup {NoLine}
      PROVE  TypeInv'
  BY <1>2, <1>3, <1>7 DEF ListDone
<1>8. CASE Deliver
  <2>1. ASSUME NEW i \in DOMAIN items, PagePicks(i) PROVE TypeInv'
    <3>1. items[i].vol \in Entries
      <4>1. items[i] \in Items
        BY DEF TypeInv, ListType
      <4> QED BY <4>1 DEF Items
    <3> QED BY <1>3, <1>7, <2>1, <3>1 DEF PagePicks
  <2>2. CASE PageLeft
    BY <1>3, <1>7, <2>2 DEF PageLeft, request
  <2>3. CASE ScanFinds
    <3> DEFINE found == FirstOf(items, {i \in DOMAIN items : Identity(items[i]) = wanted})
    <3>1. found \in Items \cup {NoLine}
      BY FoundType
    <3> HIDE DEF found
    <3>2. /\ ListDone /\ UNCHANGED <<world, purpose>>
          /\ target' = found \/ target' = NoLine
          /\ picked' = picked \/ picked' = NoLine
      BY <2>3 DEF ScanFinds, found
    <3> QED BY <1>3, <1>7, <3>1, <3>2
  <2>4. CASE CommandTakesFirst
    <3> DEFINE found == FirstOf(items, {i \in DOMAIN items : ScannableUsb(items[i])})
    <3>1. found \in Items \cup {NoLine}
      BY FoundType
    <3> HIDE DEF found
    <3>2. ListDone /\ UNCHANGED <<world, purpose>> /\ target' = found /\ picked' = NoLine
      BY <2>4 DEF CommandTakesFirst, found
    <3> QED BY <1>7, <3>1, <3>2
  <2>5. ASSUME NEW line \in Lines, CommandTakesPath(line) PROVE TypeInv'
    <3> DEFINE found == FirstOf(items, {i \in DOMAIN items :
                          ScannableUsb(items[i]) /\ line \in Range(items[i].points)})
               bare == [Blank(line.vol) EXCEPT !.points = <<line>>, !.path = line,
                                               !.media = TRUE]
    <3>1. found \in Items \cup {NoLine}
      BY FoundType
    <3>2. bare \in Items
      <4>1. line.vol \in Entries /\ NoIds \in KnownIds /\ <<line>> \in Seq(Lines)
        BY DEF Lines, Volumes, KnownIds
      <4> QED BY <4>1 DEF Blank, Items
    <3> HIDE DEF found, bare
    <3>3. /\ ListDone /\ UNCHANGED <<world, purpose>> /\ picked' = NoLine
          /\ target' = found \/ target' = bare \/ target' = NoLine
      BY <2>5 DEF CommandTakesPath, found, bare
    <3> QED BY <1>7, <3>1, <3>2, <3>3
  <2> QED BY <1>8, <2>1, <2>2, <2>3, <2>4, <2>5 DEF Deliver
<1> QED BY <1>4, <1>5, <1>6, <1>8

LEMMA Typed == Spec => []TypeInv
<1>1. Init => TypeInv
  BY InitType
<1>2. TypeInv /\ [Next]_vars => TypeInv'
  <2> SUFFICES ASSUME TypeInv, [Next]_vars PROVE TypeInv'
    OBVIOUS
  <2>1. CASE UNCHANGED vars
    BY <2>1 DEF vars, world, reading, request, TypeInv, SystemType, ProgressType, ListType,
                RequestType
  <2>2. CASE World
    BY <2>2, WorldTypes
  <2>3. CASE Enumerate
    BY <2>3, ReadTypes, ListTypes DEF Enumerate
  <2>4. CASE Deliver \/ \E who \in {"page", "scan", "command"} : Open(who)
    BY <2>4, ListTypes
  <2> QED BY <2>1, <2>2, <2>3, <2>4 DEF Next
<1> QED BY <1>1, <1>2, PTL DEF Spec

\* Every variable of the enumeration stays in its type, and no device gets more
\* mount points than there is room for, whatever the mount table holds.
THEOREM TypeCorrect == Spec => []TypeOK
<1>1. TypeInv => TypeOK
  BY DEF TypeInv, SystemType, ProgressType, ListType, RequestType, Filling, TypeOK
<1> QED BY <1>1, Typed, PTL

-----------------------------------------------------------------------------
(***************************************************************************)
(* A volume nothing happens to is listed once, as it is.  What is true of  *)
(* it does not change: a line of another volume that comes or goes leaves  *)
(* its own lines, and the first of them, alone.                            *)
(***************************************************************************)
Dirs(m, e) == {k \in DOMAIN m : m[k].vol = e /\ IsDirectory(m[k])}
PathOf(m, e) == FirstOf(m, Dirs(m, e))
HasLines(m, e) == \E k \in DOMAIN m : m[k].vol = e

\* The table has the same lines of a volume, and the same one first.
SameOf(m, n, e) == PathOf(m, e) = PathOf(n, e) /\ (HasLines(m, e) <=> HasLines(n, e))

LEMMA FirstIs ==
  ASSUME NEW list, NEW hits \in SUBSET Nat, NEW i \in hits, \A j \in hits : i <= j
  PROVE  FirstOf(list, hits) = list[i]
<1> DEFINE first == CHOOSE k \in hits : \A j \in hits : k <= j
<1>1. first \in hits /\ \A j \in hits : first <= j
  OBVIOUS
<1>2. FirstOf(list, hits) = list[first]
  BY Zenon DEF FirstOf
<1> HIDE DEF first
<1>3. i \in Nat /\ first \in Nat /\ i <= first /\ first <= i
  BY <1>1
<1>4. first = i
  BY <1>3
<1> QED BY <1>2, <1>4

LEMMA FirstOfNone == ASSUME NEW list PROVE FirstOf(list, {}) = NoLine
BY DEF FirstOf

LEMMA MountedBeside ==
  ASSUME NEW m \in Seq(Lines), NEW line \in Lines, NEW e, line.vol # e
  PROVE  SameOf(Append(m, line), m, e)
<1> DEFINE n == Append(m, line)
<1>1. /\ n \in Seq(Lines) /\ Len(n) = Len(m) + 1 /\ n[Len(n)] = line
      /\ \A k \in DOMAIN m : k \in DOMAIN n /\ n[k] = m[k]
      /\ \A k \in DOMAIN n : k \in DOMAIN m \/ k = Len(n)
  OBVIOUS
<1> HIDE DEF n
<1>2. HasLines(n, e) <=> HasLines(m, e)
  BY <1>1 DEF HasLines
<1>3. Dirs(n, e) = Dirs(m, e)
  BY <1>1 DEF Dirs
<1>4. Dirs(m, e) \in SUBSET Nat /\ \A k \in Dirs(m, e) : n[k] = m[k]
  BY <1>1 DEF Dirs
<1>5. FirstOf(n, Dirs(m, e)) = FirstOf(m, Dirs(m, e))
  <2>1. CASE Dirs(m, e) = {}
    BY <2>1, FirstOfNone
  <2>2. CASE Dirs(m, e) # {}
    <3>1. PICK i \in Dirs(m, e) : \A j \in Dirs(m, e) : i <= j
      BY <1>4, <2>2, LeastExists
    <3>2. FirstOf(n, Dirs(m, e)) = n[i] /\ FirstOf(m, Dirs(m, e)) = m[i]
      BY <1>4, <3>1, FirstIs
    <3> QED BY <1>4, <3>1, <3>2
  <2> QED BY <2>1, <2>2
<1>6. PathOf(n, e) = PathOf(m, e)
  BY <1>3, <1>5, Zenon DEF PathOf
<1> QED BY <1>2, <1>6 DEF SameOf, n

LEMMA Joined ==
  ASSUME NEW S, NEW a \in Seq(S), NEW b \in Seq(S), NEW k \in (Len(a) + 1)..(Len(a) + Len(b))
  PROVE  (a \o b)[k] = b[k - Len(a)]
OBVIOUS

\* A line removed: those behind it move up by one.
LEMMA Removed ==
  ASSUME NEW m \in Seq(Lines), NEW i \in DOMAIN m
  PROVE  /\ Len(RemoveAt(m, i)) = Len(m) - 1 /\ RemoveAt(m, i) \in Seq(Lines)
         /\ \A k \in 1..(Len(m) - 1) : RemoveAt(m, i)[k] = IF k < i THEN m[k] ELSE m[k + 1]
<1> DEFINE a == SubSeq(m, 1, i - 1)
           b == SubSeq(m, i + 1, Len(m))
<1>1. /\ a \in Seq(Lines) /\ Len(a) = i - 1 /\ \A k \in 1..(i - 1) : a[k] = m[k]
  OBVIOUS
<1>2. /\ b \in Seq(Lines) /\ Len(b) = Len(m) - i /\ \A k \in 1..(Len(m) - i) : b[k] = m[i + k]
  OBVIOUS
<1>3. RemoveAt(m, i) = a \o b
  BY DEF RemoveAt
<1> HIDE DEF a, b
<1>4. i \in 1..Len(m) /\ Len(m) \in Nat
  OBVIOUS
<1>5. a \o b \in Seq(Lines) /\ Len(a \o b) = Len(m) - 1
  BY <1>1, <1>2, <1>4
<1>6. ASSUME NEW k \in 1..(Len(m) - 1) PROVE (a \o b)[k] = IF k < i THEN m[k] ELSE m[k + 1]
  <2>1. CASE k < i
    BY <1>1, <1>2, <1>4, <2>1
  <2>2. CASE ~ (k < i)
    <3>1. k - (i - 1) \in 1..(Len(m) - i) /\ i + (k - (i - 1)) = k + 1
      BY <1>4, <2>2
    <3>2. a \in Seq(Lines) /\ b \in Seq(Lines) /\ Len(a) = i - 1 /\ Len(b) = Len(m) - i
      BY <1>1, <1>2
    <3>3. k \in (Len(a) + 1)..(Len(a) + Len(b))
      BY <1>4, <2>2, <3>2
    <3>4. (a \o b)[k] = b[k - Len(a)]
      BY <3>2, <3>3, Joined
    <3> QED BY <1>2, <2>2, <3>1, <3>2, <3>4
  <2> QED BY <2>1, <2>2
<1> QED BY <1>3, <1>5, <1>6

LEMMA UnmountedBeside ==
  ASSUME NEW m \in Seq(Lines), NEW i \in DOMAIN m, NEW e, m[i].vol # e
  PROVE  SameOf(RemoveAt(m, i), m, e)
<1> DEFINE n == RemoveAt(m, i)
<1>1. /\ n \in Seq(Lines) /\ Len(n) = Len(m) - 1
      /\ \A k \in 1..(Len(m) - 1) : n[k] = IF k < i THEN m[k] ELSE m[k + 1]
  BY Removed
<1> HIDE DEF n
<1>2. Len(m) \in Nat /\ i \in 1..Len(m) /\ DOMAIN m = 1..Len(m) /\ DOMAIN n = 1..(Len(m) - 1)
  BY <1>1
<1>3. \A k \in DOMAIN n : (k < i /\ k \in DOMAIN m /\ n[k] = m[k])
                          \/ (~ (k < i) /\ k + 1 \in DOMAIN m /\ n[k] = m[k + 1])
  BY <1>1, <1>2
<1>4. \A k \in DOMAIN m : \/ k = i
                          \/ k < i /\ k \in DOMAIN n /\ n[k] = m[k]
                          \/ i < k /\ k - 1 \in DOMAIN n /\ n[k - 1] = m[k]
  <2> TAKE k \in DOMAIN m
  <2>1. CASE k < i
    BY <1>1, <1>2, <2>1
  <2>2. CASE i < k
    <3>1. k - 1 \in 1..(Len(m) - 1) /\ ~ (k - 1 < i) /\ (k - 1) + 1 = k
      BY <1>2, <2>2
    <3>2. n[k - 1] = m[(k - 1) + 1]
      BY <1>1, <3>1
    <3> QED BY <1>2, <2>2, <3>1, <3>2
  <2> QED BY <1>2, <2>1, <2>2
<1>5. HasLines(n, e) <=> HasLines(m, e)
  BY <1>3, <1>4 DEF HasLines
<1>6. PathOf(n, e) = PathOf(m, e)
  <2>1. Dirs(m, e) \in SUBSET Nat /\ Dirs(n, e) \in SUBSET Nat
    BY <1>2 DEF Dirs
  <2>2. \A j \in Dirs(n, e) : (j < i /\ j \in Dirs(m, e)) \/ (~ (j < i) /\ j + 1 \in Dirs(m, e))
    BY <1>3 DEF Dirs
  <2>3. \A k \in Dirs(m, e) : \/ k < i /\ k \in Dirs(n, e) /\ n[k] = m[k]
                              \/ i < k /\ k - 1 \in Dirs(n, e) /\ n[k - 1] = m[k]
    BY <1>4 DEF Dirs
  <2>4. CASE Dirs(m, e) = {}
    <3>1. Dirs(n, e) = {}
      BY <2>2, <2>4
    <3> QED BY <2>4, <3>1, FirstOfNone DEF PathOf
  <2>5. CASE Dirs(m, e) # {}
    <3>1. PICK k \in Dirs(m, e) : \A j \in Dirs(m, e) : k <= j
      BY <2>1, <2>5, LeastExists
    <3>2. FirstOf(m, Dirs(m, e)) = m[k]
      BY <2>1, <3>1, FirstIs
    <3>3. CASE k < i
      <4>1. k \in Dirs(n, e) /\ n[k] = m[k]
        BY <1>2, <2>1, <2>3, <3>3
      <4>2. \A j \in Dirs(n, e) : k <= j
        BY <1>2, <2>1, <2>2, <3>1, <3>3
      <4>3. FirstOf(n, Dirs(n, e)) = n[k]
        BY <2>1, <4>1, <4>2, FirstIs
      <4> QED BY <3>2, <4>1, <4>3 DEF PathOf
    <3>4. CASE i < k
      <4>1. k - 1 \in Dirs(n, e) /\ n[k - 1] = m[k]
        BY <1>2, <2>1, <2>3, <3>4
      <4>2. \A j \in Dirs(n, e) : k - 1 <= j
        BY <1>2, <2>1, <2>2, <3>1, <3>4
      <4>3. FirstOf(n, Dirs(n, e)) = n[k - 1]
        BY <2>1, <4>1, <4>2, FirstIs
      <4> QED BY <3>2, <4>1, <4>3 DEF PathOf
    <3> QED BY <2>3, <3>1, <3>3, <3>4
  <2> QED BY <2>4, <2>5
<1> QED BY <1>5, <1>6 DEF SameOf, n

\* How far the directory has been handled.
InHand == {"probe"} \cup Filling
Done(k) == k < pos \/ (k = pos /\ phase \notin InHand)

Listed(e) == {i \in DOMAIN items : items[i].vol = e}

Known(it, e) ==
  /\ it.usb <=> e[1] \in Usb
  /\ e[1] \in Usb => it.ids = <<Model[e[1]], Serial[e[1]]>>

Right(it, e) ==
  /\ Known(it, e)
  /\ it.path = PathOf(mounts, e)
  /\ it.media <=> HasLines(mounts, e) \/ e \in Formatted

AsItIs(e) ==
  IF e \notin Volumes THEN Listed(e) = {}
  ELSE \E i \in DOMAIN items : Listed(e) = {i} /\ Right(items[i], e)

\* The place in the directory; what is behind it is not about to be missed.
PlaceInv ==
  /\ phase \in InHand => pos \in DOMAIN order /\ entry = order[pos]
  /\ phase = "deliver" => \A k \in DOMAIN order : order[k][1] \in steady => k <= pos

\* The record in progress has what has been read so far.
HandInv ==
  phase \in Filling /\ entry[1] \in steady =>
    /\ entry \in Volumes
    /\ phase = "walk" => own \/ entry[2] = 0
    /\ phase = "ids" => item.usb /\ entry[1] \in Usb
    /\ phase \in {"dev", "mounts", "media", "push"} => Known(item, entry)
    /\ phase \in {"media", "push"} =>
         /\ item.path = PathOf(mounts, entry)
         /\ item.points # <<>> <=> HasLines(mounts, entry)
    /\ phase # "push" => item.media = FALSE
    /\ phase = "push" => (item.media <=> HasLines(mounts, entry) \/ entry \in Formatted)

\* What has been handled is listed, and nothing else is.
ListedInv ==
  \A k \in DOMAIN order : order[k][1] \in steady =>
    IF Done(k) THEN AsItIs(order[k]) ELSE Listed(order[k]) = {}

SteadyInv == PlaceInv /\ HandInv /\ ListedInv

\* Nothing is known of a volume when nothing is steady.
LEMMA NothingSteady ==
  ASSUME steady' = {}, phase' \in {"idle", "deliver"}
  PROVE  SteadyInv'
BY DEF SteadyInv, PlaceInv, HandInv, ListedInv, InHand, Filling

\* Whatever comes and goes beside a volume, what is true of it stays.
LEMMA BesideIsSame ==
  ASSUME TypeInv, World, NEW e \in Entries, e[1] \in steady'
  PROVE  SameOf(mounts', mounts, e)
<1>1. mounts \in Seq(Lines)
  BY DEF TypeInv, SystemType
<1>2. CASE mounts' = mounts
  BY <1>2 DEF SameOf
<1>3. ASSUME NEW line \in Mountable, Mount(line) PROVE SameOf(mounts', mounts, e)
  <2>1. line \in Lines /\ mounts' = Append(mounts, line) /\ steady' = steady \ {line.vol[1]}
    BY <1>3, DevicesAssumption DEF Mount, Touched
  <2>2. line.vol # e
    BY <2>1
  <2>3. SameOf(Append(mounts, line), mounts, e)
    BY <1>1, <2>1, <2>2, MountedBeside
  <2> QED BY <2>1, <2>3
<1>4. ASSUME NEW i \in DOMAIN mounts, Unmount(i) PROVE SameOf(mounts', mounts, e)
  <2>1. mounts' = RemoveAt(mounts, i) /\ steady' = steady \ {mounts[i].vol[1]}
    BY <1>4 DEF Unmount, Touched
  <2>2. mounts[i].vol # e
    BY <2>1
  <2>3. SameOf(RemoveAt(mounts, i), mounts, e)
    BY <1>1, <2>2, UnmountedBeside
  <2> QED BY <2>1, <2>3
<1> QED BY <1>2, <1>3, <1>4 DEF World, PullOut, PlugIn

LEMMA WorldSteady ==
  ASSUME TypeInv, SteadyInv, World
  PROVE  SteadyInv'
<1>1. UNCHANGED <<phase, purpose, order, pos, entry, own, item, items>> /\ steady' \subseteq steady
  BY DEF World, PullOut, PlugIn, Mount, Unmount, Touched, reading
<1>2. PlaceInv'
  BY <1>1 DEF SteadyInv, PlaceInv
<1>3. order \in Seq(Entries)
  BY DevicesAssumption DEF TypeInv, SystemType
<1>4. ASSUME NEW e \in Entries, e[1] \in steady'
      PROVE  /\ e[1] \in steady
             /\ PathOf(mounts, e)' = PathOf(mounts, e)
             /\ HasLines(mounts, e)' <=> HasLines(mounts, e)
  <2>1. SameOf(mounts', mounts, e)
    BY <1>4, BesideIsSame
  <2> QED BY <1>1, <1>4, <2>1 DEF SameOf
<1>5. HandInv'
  <2> SUFFICES ASSUME phase \in Filling, entry[1] \in steady'
               PROVE  HandInv'
    BY <1>1 DEF HandInv
  <2>1. entry \in Entries
    BY DEF TypeInv, ProgressType
  <2>2. /\ entry[1] \in steady
        /\ PathOf(mounts, entry)' = PathOf(mounts, entry)
        /\ HasLines(mounts, entry)' <=> HasLines(mounts, entry)
    BY <1>1, <1>4, <2>1
  <2> QED BY <1>1, <2>2 DEF SteadyInv, HandInv, Known
<1>6. ListedInv'
  <2> SUFFICES ASSUME NEW k \in DOMAIN order, order[k][1] \in steady'
               PROVE  (IF Done(k) THEN AsItIs(order[k]) ELSE Listed(order[k]) = {})'
    BY <1>1 DEF ListedInv
  <2> DEFINE e == order[k]
  <2>1. e \in Entries /\ e' = e
    BY <1>1, <1>3
  <2>2. /\ e[1] \in steady /\ PathOf(mounts', e) = PathOf(mounts, e)
        /\ HasLines(mounts', e) <=> HasLines(mounts, e)
    BY <1>1, <1>4, <2>1
  <2>3. IF Done(k) THEN AsItIs(e) ELSE Listed(e) = {}
    BY <2>2 DEF SteadyInv, ListedInv
  <2>4. (Done(k)' <=> Done(k)) /\ Listed(e)' = Listed(e)
    BY <1>1, <2>1 DEF Done, Listed
  <2>5. \A i \in DOMAIN items : Right(items[i], e) => Right(items[i], e)'
    BY <1>1, <2>1, <2>2 DEF Right, Known
  <2>6. AsItIs(e) => AsItIs(e)'
    BY <1>1, <2>1, <2>4, <2>5 DEF AsItIs
  <2> QED BY <2>3, <2>4, <2>6
<1> QED BY <1>2, <1>5, <1>6 DEF SteadyInv

\* A read of an entry that is not put in the list leaves what is listed alone.
LEMMA NotHandledYet ==
  ASSUME ListedInv, UNCHANGED <<world, items>>, steady' \subseteq steady,
         \A k \in DOMAIN order : order[k][1] \in steady' => (Done(k)' <=> Done(k))
  PROVE  ListedInv'
<1>1. order' = order /\ mounts' = mounts /\ items' = items
  BY DEF world
<1>2. \A e : Listed(e)' = Listed(e) /\ (AsItIs(e)' <=> AsItIs(e))
  BY <1>1 DEF Listed, AsItIs, Right, Known
<1> QED BY <1>1, <1>2 DEF ListedInv

LEMMA NextSteady ==
  ASSUME TypeInv, SteadyInv, NextEntry
  PROVE  SteadyInv'
<1> DEFINE first == CHOOSE i \in Ahead : \A j \in Ahead : i <= j
<1>1. order \in Seq(Entries) /\ steady \subseteq attached /\ pos \in Nat
  BY DevicesAssumption DEF TypeInv, SystemType, ProgressType, ListType
<1>2. Ahead \in SUBSET Nat /\ Ahead # {}
  <2>1. Ahead \in SUBSET Nat
    BY <1>1 DEF Ahead
  <2> QED BY <2>1 DEF NextEntry
<1>3. first \in Ahead /\ \A j \in Ahead : first <= j
  BY <1>2, LeastExists
<1>4. /\ pos' = first /\ entry' = order[pos'] /\ phase = "list" /\ phase' = "probe"
      /\ UNCHANGED <<world, items, steady>>
  BY DEF NextEntry
<1> HIDE DEF first
<1>5. first \in DOMAIN order /\ first > pos /\ first \in Nat
  BY <1>1, <1>3 DEF Ahead
<1>6. ASSUME NEW k \in DOMAIN order, order[k][1] \in steady' PROVE Done(k)' <=> Done(k)
  <2>1. k \in Nat /\ (k > pos => first <= k)
    BY <1>1, <1>3, <1>4, <1>6 DEF Ahead
  <2>2. Done(k)' <=> k < first
    BY <1>4 DEF Done, InHand
  <2>3. Done(k) <=> k < pos \/ k = pos
    BY <1>4 DEF Done, InHand, Filling
  <2> QED BY <1>1, <1>5, <2>1, <2>2, <2>3
<1>7. ListedInv'
  BY <1>4, <1>6, NotHandledYet DEF SteadyInv
<1>8. PlaceInv' /\ HandInv'
  BY <1>4, <1>5 DEF PlaceInv, HandInv, Filling, world
<1> QED BY <1>7, <1>8 DEF SteadyInv

LEMMA ReadSteady ==
  ASSUME TypeInv, SteadyInv,
         \/ TakeEntry \/ WalkUp \/ ReadIds \/ ReadDev \/ ReadMounts \/ ReadMountsFails
         \/ ReadMedia
  PROVE  SteadyInv'
<1>1. /\ phase \in InHand /\ phase' \in Filling /\ UNCHANGED <<world, items, pos, entry>>
      /\ steady' \subseteq steady
  BY DEF TakeEntry, WalkUp, ReadIds, ReadDev, ReadMounts, ReadMountsFails, ReadMedia,
         InHand, Filling, reading
<1>2. PlaceInv'
  BY <1>1 DEF SteadyInv, PlaceInv, InHand, Filling, world
<1>3. \A k \in DOMAIN order : Done(k)' <=> Done(k)
  BY <1>1 DEF Done, InHand
<1>4. ListedInv'
  BY <1>1, <1>3, NotHandledYet DEF SteadyInv
<1>5. HandInv'
  <2> SUFFICES ASSUME entry[1] \in steady' PROVE HandInv'
    BY <1>1 DEF HandInv
  <2>1. /\ entry[1] \in steady /\ entry[1] \in attached /\ entry \in Entries
        /\ mounts \in Seq(Lines) /\ UNCHANGED <<mounts, entry>>
    BY <1>1 DEF TypeInv, SystemType, ProgressType, ListType, InHand, world
  <2>2. phase \in Filling => /\ item \in Items /\ DOMAIN item = Fields
                             /\ entry \in Volumes
    <3>1. phase \in Filling => item \in Items /\ entry \in Volumes
      BY <2>1 DEF TypeInv, ProgressType, SteadyInv, HandInv
    <3> QED BY <3>1 DEF Items, Fields
  <2>3. CASE TakeEntry
    <3>1. /\ ~ (entry[2] = 0 /\ Parts[entry[1]] > 0) /\ own' = (entry[2] > 0)
          /\ item' = Blank(entry) /\ phase' = "walk"
      BY <2>1, <2>3 DEF TakeEntry
    <3>2. entry[2] \in Nat /\ Parts[entry[1]] \in Nat
      BY <2>1, DevicesAssumption DEF Entries
    <3>3. entry \in Volumes
      BY <2>1, <3>1, <3>2 DEF Volumes
    <3>4. own' \/ entry[2] = 0
      <4>1. CASE entry[2] > 0
        <5>1. own' = TRUE
          BY <3>1, <4>1
        <5> QED BY <5>1
      <4>2. CASE entry[2] = 0
        BY <4>2
      <4> QED BY <3>2, <4>1, <4>2
    <3>5. item'.media = FALSE
      BY <2>1, <3>1, BlankType
    <3> QED BY <2>1, <3>1, <3>3, <3>4, <3>5 DEF HandInv
  <2>4. CASE WalkUp
    <3>1. /\ entry \in Volumes /\ (own \/ entry[2] = 0) /\ item.media = FALSE
          /\ phase \in Filling
      BY <2>1, <2>4 DEF SteadyInv, HandInv, WalkUp, Filling
    <3>2. /\ item' = [item EXCEPT !.usb = (entry[1] \in Usb)]
          /\ phase' = IF entry[1] \in Usb THEN "ids" ELSE "dev"
      BY <2>1, <2>4, <3>1 DEF WalkUp
    <3>3. item'.media = FALSE /\ (item'.usb <=> entry[1] \in Usb)
      BY <2>2, <3>1, <3>2 DEF Fields
    <3> QED BY <2>1, <3>1, <3>2, <3>3 DEF HandInv, Known
  <2>5. CASE ReadIds
    <3>1. /\ entry \in Volumes /\ item.usb /\ entry[1] \in Usb /\ item.media = FALSE
          /\ phase \in Filling
      BY <2>1, <2>5 DEF SteadyInv, HandInv, ReadIds, Filling
    <3>2. item' = [item EXCEPT !.ids = <<Model[entry[1]], Serial[entry[1]]>>] /\ phase' = "dev"
      BY <2>1, <2>5 DEF ReadIds
    <3>3. /\ item'.media = FALSE /\ item'.usb = item.usb
          /\ item'.ids = <<Model[entry[1]], Serial[entry[1]]>>
      BY <2>2, <3>1, <3>2 DEF Fields
    <3> QED BY <2>1, <3>1, <3>2, <3>3 DEF HandInv, Known
  <2>6. CASE ReadDev
    <3>1. phase = "dev" /\ phase' = "mounts" /\ item' = item
      BY <2>1, <2>6 DEF ReadDev, reading
    <3> QED BY <2>1, <3>1 DEF SteadyInv, HandInv, Filling
  <2>7. CASE ReadMounts
    <3> DEFINE points == MountPoints(LinesOf(entry), PointsMax)
               path == VolumePath(LinesOf(entry))
    <3>1. /\ entry \in Volumes /\ Known(item, entry) /\ item.media = FALSE
          /\ phase \in Filling /\ phase' = "media"
      BY <2>1, <2>7 DEF SteadyInv, HandInv, ReadMounts, Filling
    <3>2. LinesOf(entry) = {k \in DOMAIN mounts : mounts[k].vol = entry}
      BY <2>1 DEF LinesOf, IsOf
    <3>3. points # <<>> <=> HasLines(mounts, entry)
      BY <2>1, <3>2, MountPointsAre, DevicesAssumption DEF HasLines
    <3>4. path = PathOf(mounts, entry)
      <4>1. {k \in LinesOf(entry) : IsDirectory(mounts[k])} = Dirs(mounts, entry)
        BY <3>2 DEF Dirs
      <4> QED BY <4>1, Zenon DEF PathOf, VolumePath
    <3>5. item' = [item EXCEPT !.points = points, !.path = path]
      BY <2>7 DEF ReadMounts, WithMounts
    <3> HIDE DEF points, path
    <3>6. /\ item'.points = points /\ item'.path = path /\ item'.media = item.media
          /\ item'.usb = item.usb /\ item'.ids = item.ids
      BY <2>2, <3>1, <3>5 DEF Fields
    <3> QED BY <2>1, <3>1, <3>3, <3>4, <3>6 DEF HandInv, Known
  <2>8. CASE ReadMountsFails
    BY <2>1, <2>8 DEF ReadMountsFails
  <2>9. CASE ReadMedia
    <3>1. /\ entry \in Volumes /\ Known(item, entry) /\ item.media = FALSE
          /\ item.path = PathOf(mounts, entry)
          /\ item.points # <<>> <=> HasLines(mounts, entry)
          /\ phase \in Filling /\ phase' = "push"
      BY <2>1, <2>9 DEF SteadyInv, HandInv, ReadMedia, Filling
    <3> DEFINE media == item.media \/ item.points # <<>>
                        \/ (entry[1] \in attached /\ entry \in Formatted)
    <3>2. item' = [item EXCEPT !.media = media]
      BY <2>9 DEF ReadMedia
    <3>3. media <=> HasLines(mounts, entry) \/ entry \in Formatted
      BY <2>1, <3>1
    <3> HIDE DEF media
    <3>4. /\ item'.points = item.points /\ item'.path = item.path /\ item'.media = media
          /\ item'.usb = item.usb /\ item'.ids = item.ids
      BY <2>2, <3>1, <3>2 DEF Fields
    <3> QED BY <2>1, <3>1, <3>3, <3>4 DEF HandInv, Known
  <2> QED BY <2>3, <2>4, <2>5, <2>6, <2>7, <2>8, <2>9
<1> QED BY <1>2, <1>4, <1>5 DEF SteadyInv

\* One entry more is handled: that at pos.
LEMMA HandledSteady ==
  ASSUME TypeInv, SteadyInv, phase \in InHand, phase' = "list",
         UNCHANGED <<world, pos, steady>>,
         order[pos][1] \in steady => AsItIs(order[pos])',
         \A e : e # order[pos] => Listed(e)' = Listed(e),
         \A i \in DOMAIN items : i \in DOMAIN items' /\ items'[i] = items[i]
  PROVE  SteadyInv'
<1>1. /\ order \in Seq(Entries) /\ pos \in DOMAIN order /\ pos \in Nat
      /\ \A i, j \in DOMAIN order : order[i] = order[j] => i = j
  BY DevicesAssumption DEF TypeInv, SystemType, ProgressType, SteadyInv, PlaceInv, IsInjective
<1>2. order' = order /\ mounts' = mounts /\ pos' = pos /\ steady' = steady
  BY DEF world
<1>3. PlaceInv' /\ HandInv'
  BY DEF PlaceInv, HandInv, InHand, Filling
<1>4. ASSUME NEW k \in DOMAIN order, order[k][1] \in steady
      PROVE  IF Done(k)' THEN AsItIs(order[k])' ELSE Listed(order[k])' = {}
  <2>1. CASE k = pos
    <3>1. Done(k)'
      BY <1>2, <2>1 DEF Done, InHand, Filling
    <3> QED BY <1>4, <2>1, <3>1
  <2>2. CASE k # pos
    <3>1. order[k] # order[pos]
      BY <1>1, <2>2
    <3>2. Done(k)' <=> Done(k)
      BY <1>2, <2>2 DEF Done
    <3>3. Listed(order[k])' = Listed(order[k])
      BY <1>2, <3>1
    <3>4. \A i \in DOMAIN items : Right(items[i], order[k]) => Right(items[i], order[k])'
      BY <1>2 DEF Right, Known
    <3>5. AsItIs(order[k]) => AsItIs(order[k])'
      BY <1>2, <3>3, <3>4 DEF AsItIs
    <3> QED BY <1>4, <3>2, <3>3, <3>5 DEF SteadyInv, ListedInv
  <2> QED BY <2>1, <2>2
<1>5. ListedInv'
  BY <1>2, <1>4 DEF ListedInv
<1> QED BY <1>3, <1>5 DEF SteadyInv

LEMMA SkipSteady ==
  ASSUME TypeInv, SteadyInv, SkipDisk
  PROVE  SteadyInv'
<1>1. /\ phase = "probe" /\ phase \in InHand /\ phase' = "list"
      /\ UNCHANGED <<world, pos, items, steady>>
      /\ entry[2] = 0 /\ Parts[entry[1]] > 0 /\ entry = order[pos] /\ pos \in DOMAIN order
      /\ entry \in Entries
  BY DEF SkipDisk, InHand, SteadyInv, PlaceInv, TypeInv, ProgressType
<1>2. \A e : Listed(e)' = Listed(e)
  BY <1>1 DEF Listed
<1>3. entry \notin Volumes
  BY <1>1, DevicesAssumption DEF Volumes, Entries
<1>4. order[pos][1] \in steady => Listed(order[pos]) = {}
  <2>1. ~ Done(pos)
    BY <1>1 DEF Done, TypeInv, ProgressType
  <2> QED BY <1>1, <2>1 DEF SteadyInv, ListedInv
<1>5. order' = order /\ pos' = pos
  BY <1>1 DEF world
<1>6. order[pos][1] \in steady => AsItIs(order[pos])'
  BY <1>1, <1>2, <1>3, <1>4, <1>5 DEF AsItIs
<1> QED BY <1>1, <1>2, <1>6, HandledSteady

LEMMA PushSteady ==
  ASSUME TypeInv, SteadyInv, Push
  PROVE  SteadyInv'
<1>1. /\ phase = "push" /\ phase \in InHand /\ phase \in Filling /\ phase' = "list"
      /\ items' = Append(items, item)
      /\ UNCHANGED <<world, pos, steady>>
  BY DEF Push, InHand, Filling
<1>2. /\ entry = order[pos] /\ pos \in DOMAIN order /\ item.vol = entry
      /\ items \in Seq(Items) /\ item \in Items /\ pos \in Nat
  BY <1>1 DEF SteadyInv, PlaceInv, TypeInv, ProgressType, ListType
<1>3. PICK last \in Nat :
        /\ last \in DOMAIN items' /\ items'[last] = item
        /\ \A i \in DOMAIN items : i \in DOMAIN items' /\ items'[i] = items[i]
        /\ \A i \in DOMAIN items' : i \in DOMAIN items \/ i = last
  BY <1>1, <1>2
<1>4. \A e : e # order[pos] => Listed(e)' = Listed(e)
  BY <1>2, <1>3 DEF Listed
<1>5. ASSUME order[pos][1] \in steady PROVE AsItIs(order[pos])'
  <2>1. ~ Done(pos)
    BY <1>1, <1>2 DEF Done
  <2>2. Listed(entry) = {}
    BY <1>2, <1>5, <2>1 DEF SteadyInv, ListedInv
  <2>3. {i \in DOMAIN items' : items'[i].vol = entry} = {last}
    BY <1>2, <1>3, <2>2 DEF Listed
  <2>4. entry \in Volumes /\ Right(item, entry)
    BY <1>1, <1>2, <1>5 DEF SteadyInv, HandInv, Right
  <2>5. order' = order /\ pos' = pos /\ mounts' = mounts
    BY <1>1 DEF world
  <2>6. Right(item, entry) => Right(items[last], order[pos])'
    BY <1>2, <1>3, <2>5 DEF Right, Known
  <2>7. Listed(order[pos])' = {last}
    BY <1>2, <2>3, <2>5 DEF Listed
  <2> QED BY <1>2, <1>3, <2>4, <2>5, <2>6, <2>7 DEF AsItIs
<1> QED BY <1>1, <1>3, <1>4, <1>5, HandledSteady

LEMMA OtherSteady ==
  ASSUME TypeInv, SteadyInv,
         EndOfList \/ Fail \/ Deliver \/ \E who \in {"page", "scan", "command"} : Open(who)
  PROVE  SteadyInv'
<1>1. CASE EndOfList
  <2>1. /\ phase = "list" /\ phase' = "deliver" /\ Ahead = {}
        /\ UNCHANGED <<world, pos, items, steady>>
    BY <1>1 DEF EndOfList
  <2>2. order \in Seq(Entries) /\ steady \subseteq attached /\ pos \in Nat
    BY DevicesAssumption DEF TypeInv, SystemType, ProgressType, ListType
  <2>3. \A k \in DOMAIN order : order[k][1] \in steady => k <= pos
    BY <2>1, <2>2 DEF Ahead
  <2>4. \A k \in DOMAIN order : Done(k)' <=> Done(k)
    BY <2>1 DEF Done, InHand, Filling
  <2>5. ListedInv'
    BY <2>1, <2>4, NotHandledYet DEF SteadyInv
  <2>6. PlaceInv' /\ HandInv'
    BY <2>1, <2>3 DEF PlaceInv, HandInv, InHand, Filling, world
  <2> QED BY <2>5, <2>6 DEF SteadyInv
<1>2. CASE Fail \/ Deliver
  <2>1. steady' = {} /\ phase' \in {"idle", "deliver"}
    BY <1>2 DEF Fail, Deliver, PagePicks, PageLeft, ScanFinds, CommandTakesFirst,
                CommandTakesPath, ListDone
  <2> QED BY <2>1, NothingSteady, SMTT(30)
<1>3. CASE \E who \in {"page", "scan", "command"} : Open(who)
  <2>1. phase' = "list" /\ pos' = 0 /\ items' = <<>> /\ UNCHANGED world
    BY <1>3 DEF Open
  <2>2. order' \in Seq(Entries)
    BY <2>1, DevicesAssumption DEF TypeInv, SystemType, world
  <2>3. \A k \in DOMAIN order' : ~ Done(k)' /\ Listed(order[k])' = {}
    BY <2>1, <2>2 DEF Done, Listed
  <2>4. PlaceInv' /\ HandInv' /\ ListedInv'
    BY <2>1, <2>3 DEF PlaceInv, HandInv, ListedInv, InHand, Filling
  <2> QED BY <2>4 DEF SteadyInv
<1> QED BY <1>1, <1>2, <1>3

LEMMA Steady == Spec => [](TypeInv /\ SteadyInv)
<1>1. Init => SteadyInv
  BY NothingSteady DEF Init, SteadyInv, PlaceInv, HandInv, ListedInv, InHand, Filling
<1>2. TypeInv /\ SteadyInv /\ [Next]_vars => SteadyInv'
  <2> SUFFICES ASSUME TypeInv, SteadyInv, [Next]_vars PROVE SteadyInv'
    OBVIOUS
  <2>1. CASE UNCHANGED vars
    <3>1. UNCHANGED <<attached, mounts, order, phase, pos, entry, own, item, items, steady>>
      BY <2>1 DEF vars, world, reading
    <3>2. PlaceInv' /\ HandInv'
      BY <3>1 DEF SteadyInv, PlaceInv, HandInv, Known, PathOf, HasLines, Dirs
    <3>3. ListedInv'
      <4>1. UNCHANGED world
        BY <2>1 DEF vars
      <4> QED BY <3>1, <4>1, NotHandledYet DEF SteadyInv, Done
    <3> QED BY <3>2, <3>3 DEF SteadyInv
  <2>2. CASE World
    BY <2>2, WorldSteady
  <2>3. CASE Enumerate
    BY <2>3, NextSteady, ReadSteady, SkipSteady, PushSteady, OtherSteady DEF Enumerate
  <2>4. CASE Deliver \/ \E who \in {"page", "scan", "command"} : Open(who)
    BY <2>4, OtherSteady
  <2> QED BY <2>1, <2>2, <2>3, <2>4 DEF Next
<1> QED BY <1>1, <1>2, Typed, PTL DEF Spec

\* A volume whose disk nothing happens to while the list is made is in it exactly
\* once, with what is true of it, in whatever order the directory is read and
\* whatever comes and goes beside it.
THEOREM SteadyIsListed == Spec => []SteadyListed
<1>1. TypeInv /\ SteadyInv => SteadyListed
  <2> SUFFICES ASSUME TypeInv, SteadyInv, phase = "deliver", NEW e \in Exist(steady)
               PROVE  LET own_lines == {k \in DOMAIN mounts : mounts[k].vol = e}
                      IN  IF e \notin Volumes THEN Listed(e) = {}
                          ELSE \E i \in DOMAIN items :
                            /\ Listed(e) = {i}
                            /\ items[i].usb <=> e[1] \in Usb
                            /\ e[1] \in Usb => items[i].ids = <<Model[e[1]], Serial[e[1]]>>
                            /\ items[i].path =
                                 FirstOf(mounts, {k \in own_lines : IsDirectory(mounts[k])})
                            /\ items[i].media <=> own_lines # {} \/ e \in Formatted
    BY Zenon DEF SteadyListed, Listed
  <2>1. PICK k \in DOMAIN order : order[k] = e
    BY DevicesAssumption DEF TypeInv, SystemType, Exist, Range
  <2>2. e[1] \in steady
    BY DEF Exist
  <2>3. Done(k)
    <3>1. k \in Nat /\ pos \in Nat
      BY DevicesAssumption DEF TypeInv, SystemType, ProgressType
    <3>2. k <= pos
      BY <2>1, <2>2 DEF SteadyInv, PlaceInv
    <3> QED BY <3>1, <3>2 DEF Done, InHand, Filling
  <2>4. AsItIs(e)
    <3>1. order[k][1] \in steady
      BY <2>1, <2>2
    <3>2. AsItIs(order[k])
      BY <2>3, <3>1 DEF SteadyInv, ListedInv
    <3> QED BY <2>1, <3>2, Zenon
  <2> DEFINE own_lines == {j \in DOMAIN mounts : mounts[j].vol = e}
  <2>5. HasLines(mounts, e) <=> own_lines # {}
    BY DEF HasLines
  <2>6. PathOf(mounts, e) = FirstOf(mounts, {j \in own_lines : IsDirectory(mounts[j])})
    <3>1. {j \in own_lines : IsDirectory(mounts[j])} = Dirs(mounts, e)
      BY DEF Dirs
    <3> QED BY <3>1, Zenon DEF PathOf
  <2> HIDE DEF own_lines
  <2>7. IF e \notin Volumes THEN Listed(e) = {}
        ELSE \E i \in DOMAIN items :
               /\ Listed(e) = {i}
               /\ items[i].usb <=> e[1] \in Usb
               /\ e[1] \in Usb => items[i].ids = <<Model[e[1]], Serial[e[1]]>>
               /\ items[i].path = FirstOf(mounts, {j \in own_lines : IsDirectory(mounts[j])})
               /\ items[i].media <=> own_lines # {} \/ e \in Formatted
    BY <2>4, <2>5, <2>6 DEF AsItIs, Right, Known
  <2> QED BY <2>7, Zenon DEF own_lines
<1> QED BY <1>1, Steady, PTL
===============================================================================
