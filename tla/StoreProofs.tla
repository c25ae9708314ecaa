----------------------------- MODULE StoreProofs -----------------------------
(***************************************************************************)
(* The report store for any number of processes, scans, seconds, crashes   *)
(* and faults.  The invariant says which files a process in the middle of  *)
(* a save still has to itself, which names the two index files have, and,  *)
(* as long as no two processes have saved at once, what is in them.        *)
(***************************************************************************)
EXTENDS Store, FiniteSetTheorems, WellFoundedInduction, TLAPS

IsMap(f, S) == f = [x \in S |-> f[x]]

Types ==
  /\ pc \in [Procs -> Stages] /\ scan \in [Procs -> 0..scans]
  /\ scans \in 0..MaxScans /\ clock \in Nat /\ damages \in Nat
  /\ IsMap(last, Procs) /\ IsMap(existing, Procs)
  /\ \A p \in Procs : DOMAIN existing[p] = Dirs
  /\ fd \in [Procs -> Scans \cup {NoFile}]
  /\ file \in [Scans -> [Formats -> {"none", "temp", "temp-whole", "whole", "torn"}]]
  /\ IsMap(ident, Scans) /\ \A s \in 1..scans : ident[s] \in Identities
  /\ stamp \in [Scans -> Nat]
  /\ index \in Scans \cup {NoFile} /\ tmp \in Scans \cup {NoFile}
  /\ IsMap(content, Scans) /\ \A n \in Scans : DOMAIN content[n].devices = Dirs

\* Two processes never write for one scan, and a file is whole exactly when
\* its writing was reported as done.
WriterInv ==
  /\ \A p \in Procs : pc[p] # Idle => scan[p] \in 1..scans
  /\ \A p, q \in Procs : pc[p] # Idle /\ pc[q] # Idle /\ scan[p] = scan[q] => p = q
  /\ \A s \in Scans, f \in Formats :
       /\ file[s][f] # "torn"
       /\ file[s][f] = "whole" <=> <<s, f>> \in saved
       /\ s > scans => file[s][f] = "none"
  /\ saved \subseteq Scans \X Formats
  /\ \A p \in Procs, f \in Formats :
       /\ pc[p] \in {<<f, "create">>, <<f, "write">>} => <<scan[p], f>> \notin saved
       /\ pc[p] = <<f, "rename">> => file[scan[p]][f] = "temp-whole"
  /\ \A p \in Procs : pc[p] # Idle /\ pc[p][1] # "csv" => <<scan[p], "csv">> \notin saved

\* The steps of a process before it opens index.json.tmp.
BeforeTemp == {"json"} \X {"create", "write", "rename"}
                \cup {"index"} \X {"list", "read", "open"}

\* The file a process brings for the index is no other's.
NamesInv ==
  /\ index <= scans /\ tmp <= scans
  /\ tmp # NoFile => tmp # index
  /\ \A p \in Procs : pc[p] \in BeforeTemp => scan[p] # index /\ scan[p] # tmp

\* Without a second process nothing comes between what refresh_index has found
\* and what it writes.
AloneInv ==
  ~overlapped =>
    /\ \A p, q \in Procs : pc[p] # Idle /\ pc[q] # Idle => p = q
    /\ \A p \in Procs :
         /\ pc[p] = <<"index", "write">> =>
              tmp # NoFile /\ fd[p] = tmp /\ content[tmp] = Empty
         /\ pc[p] = <<"index", "replace">> =>
              tmp # NoFile /\ content[tmp] = Document(NewIndex(p))
         /\ pc[p] \in {"index"} \X {"read", "open", "write", "replace"} =>
              last[p] = LastScan(Dir(scan[p]))
         /\ "read" \notin Faults /\ Readable
              /\ pc[p] \in {"index"} \X {"open", "write", "replace"} =>
                existing[p] = content[index].devices
    /\ IndexWhole

\* Scans are numbered in the order of their seconds.
TimeInv ==
  /\ \A s \in 1..scans : stamp[s] <= clock
  /\ \A r, s \in 1..scans : r < s => stamp[r] <= stamp[s]

Inv == Types /\ WriterInv /\ NamesInv /\ AloneInv /\ TimeInv

LEMMA InitInv == Init => Inv
<1> SUFFICES ASSUME Init PROVE Inv
  OBVIOUS
<1> USE StoreAssumption
<1>1. Types
  <2>1. /\ pc \in [Procs -> Stages] /\ scan \in [Procs -> 0..scans]
        /\ scans \in 0..MaxScans /\ clock \in Nat /\ damages \in Nat
        /\ stamp \in [Scans -> Nat]
        /\ fd \in [Procs -> Scans \cup {NoFile}]
        /\ index \in Scans \cup {NoFile} /\ tmp \in Scans \cup {NoFile}
    BY DEF Init, Stages, NoFile, NoScan
  <2>2. file \in [Scans -> [Formats -> {"none", "temp", "temp-whole", "whole", "torn"}]]
    BY DEF Init
  <2>3. IsMap(last, Procs) /\ IsMap(existing, Procs) /\ IsMap(ident, Scans)
          /\ IsMap(content, Scans)
    BY DEF Init, IsMap
  <2>4. DOMAIN NoIndex = Dirs
    BY DEF NoIndex
  <2>5. /\ \A p \in Procs : DOMAIN existing[p] = Dirs
        /\ \A n \in Scans : DOMAIN content[n].devices = Dirs
    BY <2>4 DEF Init, Garbled
  <2>6. \A s \in 1..scans : ident[s] \in Identities
    BY DEF Init
  <2> QED BY <2>1, <2>2, <2>3, <2>5, <2>6 DEF Types
<1>2. WriterInv
  BY DEF Init, WriterInv, Idle, Formats
<1>3. NamesInv
  BY DEF Init, NamesInv, NoFile, BeforeTemp, Idle
<1>4. AloneInv
  BY DEF Init, AloneInv, Idle, IndexWhole
<1>5. TimeInv
  BY DEF Init, TimeInv
<1> QED BY <1>1, <1>2, <1>3, <1>4, <1>5 DEF Inv

-----------------------------------------------------------------------------
(* The types.                                                              *)

\* The variables each action leaves alone.
LEMMA TypesBegin ==
  ASSUME Types, NEW p \in Procs, NEW i \in Identities, Begin(p, i)
  PROVE  Types'
<1> USE StoreAssumption DEF Scans
<1>1. scans' = scans + 1 /\ scans' \in 1..MaxScans /\ scans \in 0..MaxScans
  BY SMTT(30) DEF Begin, Types
<1>2. /\ pc' \in [Procs -> Stages] /\ scan' \in [Procs -> 0..scans']
  <2>1. <<"json", "create">> \in Stages
    BY DEF Stages, Formats
  <2>2. pc' = [pc EXCEPT ![p] = <<"json", "create">>] /\ scan' = [scan EXCEPT ![p] = scans']
    BY DEF Begin
  <2>3. 0..scans \subseteq 0..scans' /\ scans' \in 0..scans'
    BY <1>1
  <2> QED BY <2>1, <2>2, <2>3 DEF Types
<1>3. stamp' \in [Scans -> Nat] /\ IsMap(ident', Scans)
  BY <1>1 DEF Begin, Types, IsMap
<1>4. \A s \in 1..scans' : ident'[s] \in Identities
  <2>1. ident' = [ident EXCEPT ![scans'] = i] /\ DOMAIN ident = Scans
    BY DEF Begin, Types, IsMap
  <2>2. \A s \in 1..scans : ident[s] \in Identities
    BY DEF Types
  <2>3. \A s \in 1..scans' : s \in Scans /\ (s = scans' \/ s \in 1..scans)
    BY <1>1
  <2> QED BY <2>1, <2>2, <2>3
<1>5. UNCHANGED <<last, existing, fd, file, index, tmp, content, clock, damages>>
  BY DEF Begin, cache
<1>6. /\ IsMap(last', Procs) /\ IsMap(existing', Procs) /\ IsMap(content', Scans)
      /\ \A q \in Procs : DOMAIN existing'[q] = Dirs
      /\ \A n \in Scans : DOMAIN content'[n].devices = Dirs
  BY <1>5 DEF Types
<1>7. fd' \in [Procs -> Scans \cup {NoFile}] /\ clock' \in Nat /\ damages' \in Nat
  BY <1>5 DEF Types
<1>8. file' \in [Scans -> [Formats -> {"none", "temp", "temp-whole", "whole", "torn"}]]
  BY <1>5 DEF Types
<1>9. index' \in Scans \cup {NoFile} /\ tmp' \in Scans \cup {NoFile}
  BY <1>5 DEF Types
<1>10. scans' \in 0..MaxScans
  BY <1>1
<1> QED BY <1>2, <1>3, <1>4, <1>6, <1>7, <1>8, <1>9, <1>10, Zenon DEF Types

LEMMA TypesFile ==
  ASSUME Types, NEW p \in Procs, WriteReportFile(p)
  PROVE  Types'
<1>1. PICK f \in Formats : CreateFile(p, f) \/ WriteFile(p, f) \/ RenameFile(p, f)
  BY DEF WriteReportFile
<1>2. \A ok \in BOOLEAN : After(f, ok) \in Stages
  BY DEF After, Stages, Formats
<1>3. pc' \in [Procs -> Stages]
  <2>1. <<f, "write">> \in Stages /\ <<f, "rename">> \in Stages
    BY DEF Stages
  <2>2. \E stage \in Stages : pc' = [pc EXCEPT ![p] = stage]
    BY <1>1, <1>2, <2>1 DEF CreateFile, WriteFile, RenameFile, Goto
  <2> QED BY <2>2 DEF Types
<1>4. file' \in [Scans -> [Formats -> {"none", "temp", "temp-whole", "whole", "torn"}]]
  <2> DEFINE States == {"none", "temp", "temp-whole", "whole", "torn"}
  <2>1. UNCHANGED file \/ \E st \in States : SetFile(p, f, st)
    BY <1>1 DEF CreateFile, WriteFile, RenameFile
  <2> QED BY <2>1 DEF SetFile, Types
<1> QED BY <1>1, <1>3, <1>4
    DEF CreateFile, WriteFile, RenameFile, Types, naming, cache, counts, IsMap

LEMMA TypesIndex ==
  ASSUME Types, NEW p \in Procs, RefreshIndex(p), pc[p] # Idle => scan[p] \in 1..scans
  PROVE  Types'
<1>1. pc' \in [Procs -> Stages]
  <2>1. /\ {"index"} \X {"list", "read", "open", "write", "replace", "unlink"} \subseteq Stages
        /\ <<"csv", "create">> \in Stages
    BY DEF Stages, Formats
  <2>2. \E stage \in Stages : pc' = [pc EXCEPT ![p] = stage]
    BY <2>1 DEF RefreshIndex, ListDir, ReadIndex, OpenTemp, WriteTemp, Replace, Unlink, Goto
  <2> QED BY <2>2 DEF Types
<1>2. UNCHANGED <<scan, file, naming, counts, saved>>
  BY DEF RefreshIndex, ListDir, ReadIndex, OpenTemp, WriteTemp, Replace, Unlink
<1>3. IsMap(last', Procs)
  BY DEF RefreshIndex, ListDir, ReadIndex, OpenTemp, WriteTemp, Replace, Unlink, Types, IsMap
<1>4. IsMap(existing', Procs) /\ \A q \in Procs : DOMAIN existing'[q] = Dirs
  <2>1. DOMAIN NoIndex = Dirs
    BY DEF NoIndex
  <2>2. CASE ReadIndex(p)
    <3>1. \E ix : DOMAIN ix = Dirs /\ existing' = [existing EXCEPT ![p] = ix]
      BY <2>1, <2>2 DEF ReadIndex, Readable, NoFile, Types
    <3> QED BY <3>1 DEF Types, IsMap
  <2>3. CASE UNCHANGED existing
    BY <2>3 DEF Types
  <2> QED BY <2>2, <2>3 DEF RefreshIndex, ListDir, OpenTemp, WriteTemp, Replace, Unlink
<1>5. /\ fd' \in [Procs -> Scans \cup {NoFile}]
      /\ index' \in Scans \cup {NoFile} /\ tmp' \in Scans \cup {NoFile}
  <2>1. OpenTemp(p) => scan[p] \in Scans
    BY StoreAssumption DEF OpenTemp, Types, Scans, Idle
  <2>2. CASE OpenTemp(p)
    BY <2>1, <2>2 DEF OpenTemp, Types
  <2>3. CASE Replace(p)
    BY <2>3 DEF Replace, Types
  <2>4. CASE Unlink(p)
    BY <2>4 DEF Unlink, Types
  <2>5. CASE UNCHANGED <<fd, index, tmp>>
    BY <2>5 DEF Types
  <2> QED BY <2>2, <2>3, <2>4, <2>5 DEF RefreshIndex, ListDir, ReadIndex, WriteTemp, cache
<1>6. IsMap(content', Scans) /\ \A n \in Scans : DOMAIN content'[n].devices = Dirs
  <2>1. \/ UNCHANGED content
        \/ \E n, c : DOMAIN c.devices = Dirs /\ content' = [content EXCEPT ![n] = c]
    <3>1. DOMAIN Empty.devices = Dirs /\ DOMAIN Garbled.devices = Dirs
      BY DEF Empty, Garbled, NoIndex
    <3>2. DOMAIN Document(NewIndex(p)).devices = Dirs
      BY DEF Document, NewIndex, Types
    <3>3. CASE OpenTemp(p)
      BY <3>1, <3>3 DEF OpenTemp
    <3>4. CASE WriteTemp(p)
      BY <3>1, <3>2, <3>4 DEF WriteTemp
    <3>5. CASE UNCHANGED content
      BY <3>5
    <3> QED BY <3>3, <3>4, <3>5 DEF RefreshIndex, ListDir, ReadIndex, Replace, Unlink,
                                          cache
  <2> QED BY <2>1 DEF Types, IsMap
<1> QED BY <1>1, <1>2, <1>3, <1>4, <1>5, <1>6 DEF Types, naming, counts, IsMap

LEMMA TypesOutside ==
  ASSUME Types, Tick \/ Damage \/ (\E p \in Procs : Crash(p))
  PROVE  Types'
<1>1. CASE Tick
  <2>1. clock \in Nat /\ clock' = clock + 1
    BY <1>1 DEF Tick, Types
  <2>2. /\ UNCHANGED <<pc, scan, last, existing, fd, file, ident, stamp, scans>>
        /\ UNCHANGED <<index, tmp, content, damages>>
    BY <1>1 DEF Tick, local, naming, cache
  <2> QED BY <2>1, <2>2 DEF Types, IsMap
<1>2. CASE Damage
  <2>1. DOMAIN Garbled.devices = Dirs
    BY DEF Garbled, NoIndex
  <2>2. IsMap(content', Scans) /\ \A n \in Scans : DOMAIN content'[n].devices = Dirs
    BY <1>2, <2>1 DEF Damage, Types, IsMap
  <2>3. index' \in Scans \cup {NoFile}
    BY <1>2 DEF Damage, Types
  <2>4. damages' \in Nat
    BY <1>2 DEF Damage, Types
  <2> QED BY <1>2, <2>2, <2>3, <2>4 DEF Damage, Types, local, naming, IsMap
<1>3. CASE \E p \in Procs : Crash(p)
  <2>1. Idle \in Stages /\ \E p \in Procs : pc' = [pc EXCEPT ![p] = Idle]
    BY <1>3 DEF Crash, Goto, Stages
  <2>2. /\ UNCHANGED <<scan, last, existing, fd, file, ident, stamp, scans, clock>>
        /\ UNCHANGED <<index, tmp, content, damages>>
    BY <1>3 DEF Crash, naming, cache
  <2> QED BY <2>1, <2>2 DEF Types, IsMap
<1> QED BY <1>1, <1>2, <1>3

-----------------------------------------------------------------------------
(* The report files.                                                       *)

LEMMA WriterBegin ==
  ASSUME Types, WriterInv, NEW p \in Procs, NEW i \in Identities, Begin(p, i)
  PROVE  WriterInv'
<1>1. /\ pc[p] = Idle /\ scans' = scans + 1 /\ scans \in Nat /\ scans' \in Scans
      /\ scan' = [scan EXCEPT ![p] = scans'] /\ pc' = [pc EXCEPT ![p] = <<"json", "create">>]
      /\ UNCHANGED <<file, saved>>
  BY StoreAssumption, SMTT(30) DEF Begin, Types, Scans
<1>2. \A f \in Formats : <<scans', f>> \notin saved
  BY <1>1 DEF WriterInv
<1>3. \A q \in Procs \ {p} : pc'[q] = pc[q] /\ scan'[q] = scan[q] /\ scan[q] # scans'
  BY <1>1 DEF Types
<1>4. pc'[p] = <<"json", "create">> /\ scan'[p] = scans'
  BY <1>1 DEF Types
<1>5. \A q \in Procs : pc'[q] # Idle => scan'[q] \in 1..scans'
  BY <1>1, <1>3, <1>4 DEF WriterInv
<1>6. \A q, r \in Procs : pc'[q] # Idle /\ pc'[r] # Idle /\ scan'[q] = scan'[r] => q = r
  BY <1>3, <1>4 DEF WriterInv
<1>7. \A s \in Scans, f \in Formats :
        /\ file'[s][f] # "torn"
        /\ file'[s][f] = "whole" <=> <<s, f>> \in saved'
        /\ s > scans' => file'[s][f] = "none"
  <2>1. \A s \in Scans : s > scans' => s > scans
    BY <1>1, StoreAssumption DEF Scans
  <2> QED BY <1>1, <2>1, Zenon DEF WriterInv
<1>8. \A q \in Procs, f \in Formats :
        /\ pc'[q] \in {<<f, "create">>, <<f, "write">>} => <<scan'[q], f>> \notin saved'
        /\ pc'[q] = <<f, "rename">> => file'[scan'[q]][f] = "temp-whole"
  BY <1>1, <1>2, <1>3, <1>4 DEF WriterInv
<1>9. \A q \in Procs : pc'[q] # Idle /\ pc'[q][1] # "csv" => <<scan'[q], "csv">> \notin saved'
  BY <1>1, <1>2, <1>3, <1>4 DEF WriterInv, Formats
<1>10. saved' \subseteq Scans \X Formats
  BY <1>1 DEF WriterInv
<1> QED BY <1>5, <1>6, <1>7, <1>8, <1>9, <1>10 DEF WriterInv

\* A process that goes on to another step, or stops, with the reports as they are.
LEMMA WriterMoves ==
  ASSUME Types, WriterInv, NEW p \in Procs, NEW stage \in Stages,
         pc' = [pc EXCEPT ![p] = stage], UNCHANGED <<scan, scans, file, saved>>,
         stage # Idle => pc[p] # Idle,
         \/ stage = Idle
         \/ stage[1] = "index" /\ pc[p][1] # "csv"
         \/ stage = <<"csv", "create">> /\ pc[p][1] # "csv"
  PROVE  WriterInv'
<1>1. \A q \in Procs : pc'[q] = IF q = p THEN stage ELSE pc[q]
  BY DEF Types
<1>2. \A q \in Procs : pc'[q] # Idle => pc[q] # Idle
  BY <1>1
<1>3. \A f \in Formats : f # "index" /\ f # "none"
  BY DEF Formats
<1>4. /\ \A q \in Procs : pc'[q] # Idle => scan'[q] \in 1..scans'
      /\ \A q, r \in Procs : pc'[q] # Idle /\ pc'[r] # Idle /\ scan'[q] = scan'[r] => q = r
  BY <1>2 DEF WriterInv
<1>5. \A q \in Procs, f \in Formats :
        /\ pc'[q] \in {<<f, "create">>, <<f, "write">>} => <<scan'[q], f>> \notin saved'
        /\ pc'[q] = <<f, "rename">> => file'[scan'[q]][f] = "temp-whole"
  <2> TAKE q \in Procs, f \in Formats
  <2>1. CASE q # p
    BY <1>1, <2>1 DEF WriterInv
  <2>2. CASE q = p
    BY <1>1, <1>3, <2>2 DEF WriterInv, Idle
  <2> QED BY <2>1, <2>2
<1>6. \A q \in Procs : pc'[q] # Idle /\ pc'[q][1] # "csv" => <<scan'[q], "csv">> \notin saved'
  BY <1>1 DEF WriterInv
<1>7. /\ saved' \subseteq Scans \X Formats
      /\ \A s \in Scans, f \in Formats :
           /\ file'[s][f] # "torn"
           /\ file'[s][f] = "whole" <=> <<s, f>> \in saved'
           /\ s > scans' => file'[s][f] = "none"
  BY DEF WriterInv
<1> QED BY <1>4, <1>5, <1>6, <1>7 DEF WriterInv

\* A process that goes on to another step with the report it writes in state st.
LEMMA WriterSets ==
  ASSUME Types, WriterInv, NEW p \in Procs, NEW f \in Formats,
         pc[p] \in {<<f, "create">>, <<f, "write">>, <<f, "rename">>},
         NEW st \in {"none", "temp", "temp-whole", "whole"}, SetFile(p, f, st),
         \/ st = "whole" /\ saved' = saved \cup {<<scan[p], f>>}
         \/ st # "whole" /\ saved' = saved /\ <<scan[p], f>> \notin saved,
         NEW stage \in Stages, Goto(p, stage),
         \/ stage = <<f, "write">> /\ st # "whole"
         \/ stage = <<f, "rename">> /\ st = "temp-whole"
         \/ stage = Idle /\ f = "csv"
         \/ stage \in {<<"index", "list">>, <<"csv", "create">>} /\ f = "json",
         UNCHANGED <<scan, scans>>
  PROVE  WriterInv'
<1> DEFINE s == scan[p]
<1>1. pc[p] # Idle /\ s \in 1..scans /\ s \in Scans /\ pc[p][1] = f
  BY StoreAssumption DEF WriterInv, Idle, Formats, Types, Scans
<1>2. \A q \in Procs : pc'[q] = IF q = p THEN stage ELSE pc[q]
  BY DEF Types, Goto
<1>3. file'[s][f] = st
  BY <1>1 DEF Types, SetFile
<1>4. \A r \in Scans, g \in Formats : r # s \/ g # f => file'[r][g] = file[r][g]
  BY <1>1 DEF Types, SetFile
<1>5. /\ st = "whole" <=> <<s, f>> \in saved'
      /\ \A x : x # <<s, f>> => (x \in saved' <=> x \in saved)
  OBVIOUS
<1>6. \A q \in Procs \ {p} : pc[q] # Idle => scan[q] # s /\ scan[q] \in Scans
  BY <1>1, StoreAssumption DEF WriterInv, Types, Scans
<1>7. \A q \in Procs : pc'[q] # Idle => pc[q] # Idle
  BY <1>1, <1>2
<1>8. /\ \A q \in Procs : pc'[q] # Idle => scan'[q] \in 1..scans'
      /\ \A q, r \in Procs : pc'[q] # Idle /\ pc'[r] # Idle /\ scan'[q] = scan'[r] => q = r
  BY <1>7 DEF WriterInv
<1>9. \A r \in Scans, g \in Formats :
        /\ file'[r][g] # "torn"
        /\ file'[r][g] = "whole" <=> <<r, g>> \in saved'
        /\ r > scans' => file'[r][g] = "none"
  <2> TAKE r \in Scans, g \in Formats
  <2>1. CASE r = s /\ g = f
    BY <1>1, <1>3, <1>5, <2>1 DEF Types
  <2>2. CASE r # s \/ g # f
    <3>1. /\ file[r][g] # "torn" /\ (file[r][g] = "whole" <=> <<r, g>> \in saved)
          /\ r > scans => file[r][g] = "none"
      BY DEF WriterInv
    <3>2. <<r, g>> \in saved' <=> <<r, g>> \in saved
      BY <1>5, <2>2
    <3>3. file'[r][g] = file[r][g]
      BY <1>4, <2>2
    <3> QED BY <3>1, <3>2, <3>3
  <2> QED BY <2>1, <2>2
<1>10. saved' \subseteq Scans \X Formats
  BY <1>1 DEF WriterInv
<1>11. \A q \in Procs, g \in Formats :
         /\ pc'[q] \in {<<g, "create">>, <<g, "write">>} => <<scan'[q], g>> \notin saved'
         /\ pc'[q] = <<g, "rename">> => file'[scan'[q]][g] = "temp-whole"
  <2> TAKE q \in Procs, g \in Formats
  <2>1. CASE q # p
    <3>1. pc[q] \in {<<g, "create">>, <<g, "write">>, <<g, "rename">>} =>
            scan[q] # s /\ scan[q] \in Scans
      BY <1>6, <2>1 DEF Idle, Formats
    <3>2. /\ pc[q] \in {<<g, "create">>, <<g, "write">>} => <<scan[q], g>> \notin saved
          /\ pc[q] = <<g, "rename">> => file[scan[q]][g] = "temp-whole"
      BY DEF WriterInv
    <3>3. scan[q] # s => <<scan[q], g>> # <<s, f>>
      OBVIOUS
    <3> QED BY <1>2, <1>4, <1>5, <2>1, <3>1, <3>2, <3>3
  <2>2. CASE q = p /\ stage \in {<<f, "write">>, <<f, "rename">>}
    <3>1. pc'[q] \in {<<g, "create">>, <<g, "write">>, <<g, "rename">>} => g = f
      BY <1>2, <2>2
    <3>2. stage = <<f, "rename">> => st = "temp-whole"
      BY DEF Idle, Formats
    <3>3. <<s, f>> \notin saved'
      <4>1. stage = <<f, "write">> => st # "whole"
        BY DEF Idle, Formats
      <4> QED BY <1>5, <2>2, <3>2, <4>1
    <3> QED BY <1>2, <1>3, <1>5, <2>2, <3>1, <3>2, <3>3
  <2>3. CASE q = p /\ stage \in {Idle, <<"index", "list">>}
    BY <1>2, <2>3 DEF Idle, Formats
  <2>4. CASE q = p /\ stage = <<"csv", "create">> /\ f = "json"
    <3>1. <<s, "csv">> \notin saved'
      BY <1>1, <1>5, <2>4 DEF WriterInv
    <3> QED BY <1>2, <2>4, <3>1
  <2> QED BY <2>1, <2>2, <2>3, <2>4
<1>12. \A q \in Procs : pc'[q] # Idle /\ pc'[q][1] # "csv" => <<scan'[q], "csv">> \notin saved'
  <2> TAKE q \in Procs
  <2>1. CASE q # p
    <3>1. pc[q] # Idle => <<scan[q], "csv">> # <<s, f>>
      BY <1>6, <2>1
    <3>2. pc[q] # Idle /\ pc[q][1] # "csv" => <<scan[q], "csv">> \notin saved
      BY DEF WriterInv
    <3> QED BY <1>2, <1>5, <2>1, <3>1, <3>2
  <2>2. CASE q = p /\ f = "json"
    BY <1>1, <1>5, <2>2 DEF WriterInv
  <2>3. CASE q = p /\ f = "csv"
    BY <1>2, <2>3
  <2> QED BY <2>1, <2>2, <2>3 DEF Formats
<1> QED BY <1>8, <1>9, <1>10, <1>11, <1>12, Zenon DEF WriterInv

LEMMA WriterFile ==
  ASSUME Types, WriterInv, NEW p \in Procs, NEW f \in Formats,
         CreateFile(p, f) \/ WriteFile(p, f) \/ RenameFile(p, f)
  PROVE  WriterInv'
<1>1. \A ok \in BOOLEAN :
        /\ After(f, ok) \in Stages
        /\ \/ After(f, ok) = Idle /\ f = "csv"
           \/ After(f, ok) \in {<<"index", "list">>, <<"csv", "create">>} /\ f = "json"
  BY DEF After, Stages, Formats
<1>2. <<f, "write">> \in Stages /\ <<f, "rename">> \in Stages
  BY DEF Stages
<1>3. UNCHANGED <<scan, scans>>
  BY DEF CreateFile, WriteFile, RenameFile, counts
<1>4. CASE CreateFile(p, f)
  <2>1. pc[p] = <<f, "create">> /\ <<scan[p], f>> \notin saved /\ saved' = saved
    BY <1>4 DEF CreateFile, WriterInv
  <2>2. CASE SetFile(p, f, "temp") /\ Goto(p, <<f, "write">>)
    BY <1>2, <1>3, <2>1, <2>2, WriterSets
  <2>3. CASE Goto(p, After(f, FALSE)) /\ UNCHANGED file
    <3>1. scan[p] \in Scans
      BY <2>1, StoreAssumption DEF WriterInv, Types, Scans, Idle, Formats
    <3>2. SetFile(p, f, file[scan[p]][f])
      BY <2>3, <3>1 DEF SetFile, Types
    <3>3. file[scan[p]][f] \in {"none", "temp", "temp-whole"}
      BY <2>1, <3>1 DEF WriterInv, Types
    <3> QED BY <1>1, <1>3, <2>1, <2>3, <3>2, <3>3, WriterSets
  <2> QED BY <1>4, <2>2, <2>3 DEF CreateFile
<1>5. CASE WriteFile(p, f)
  <2>1. pc[p] = <<f, "write">> /\ <<scan[p], f>> \notin saved /\ saved' = saved
    BY <1>5 DEF WriteFile, WriterInv
  <2>2. CASE SetFile(p, f, "temp-whole") /\ Goto(p, <<f, "rename">>)
    BY <1>2, <1>3, <2>1, <2>2, WriterSets
  <2>3. CASE SetFile(p, f, "none") /\ Goto(p, After(f, FALSE))
    BY <1>1, <1>3, <2>1, <2>3, WriterSets
  <2> QED BY <1>5, <2>2, <2>3 DEF WriteFile
<1>6. CASE RenameFile(p, f)
  <2>1. pc[p] = <<f, "rename">> /\ file[scan[p]][f] = "temp-whole" /\ scan[p] \in Scans
    <3>1. pc[p] = <<f, "rename">> /\ pc[p] # Idle
      BY <1>6 DEF RenameFile, Idle, Formats
    <3>2. scan[p] \in 1..scans
      BY <3>1 DEF WriterInv
    <3>3. scan[p] \in Scans
      BY <3>2, StoreAssumption DEF Types, Scans
    <3> QED BY <3>1, <3>3 DEF WriterInv
  <2>2. <<scan[p], f>> \notin saved
    BY <2>1 DEF WriterInv
  <2>3. CASE /\ SetFile(p, f, "whole") /\ saved' = saved \cup {<<scan[p], f>>}
             /\ Goto(p, After(f, TRUE))
    BY <1>1, <1>3, <2>1, <2>3, WriterSets
  <2>4. CASE SetFile(p, f, "none") /\ Goto(p, After(f, FALSE)) /\ UNCHANGED saved
    BY <1>1, <1>3, <2>1, <2>2, <2>4, WriterSets
  <2> QED BY <1>6, <2>1, <2>3, <2>4 DEF RenameFile
<1> QED BY <1>4, <1>5, <1>6

\* What all the steps of refresh_index have in common.
LEMMA IndexMoves ==
  ASSUME NEW p \in Procs, RefreshIndex(p)
  PROVE  /\ pc[p] # Idle /\ pc[p][1] = "index"
         /\ \E stage \in Stages : /\ stage[1] = "index" \/ stage = <<"csv", "create">>
                                 /\ pc' = [pc EXCEPT ![p] = stage]
         /\ UNCHANGED <<scan, scans, file, saved, ident, stamp, id, clock, damages, overlapped>>
<1>1. pc[p] # Idle /\ pc[p][1] = "index"
  BY DEF RefreshIndex, ListDir, ReadIndex, OpenTemp, WriteTemp, Replace, Unlink, Idle
<1>2. \E stage \in {"index"} \X {"read", "open", "write", "replace", "unlink"}
                   \cup {<<"csv", "create">>} : pc' = [pc EXCEPT ![p] = stage]
  BY DEF RefreshIndex, ListDir, ReadIndex, OpenTemp, WriteTemp, Replace, Unlink, Goto
<1>3. UNCHANGED <<scan, scans, file, saved, ident, stamp, id, clock, damages, overlapped>>
  BY DEF RefreshIndex, ListDir, ReadIndex, OpenTemp, WriteTemp, Replace, Unlink, naming,
         counts
<1>4. \A stage \in {"index"} \X {"read", "open", "write", "replace", "unlink"}
                   \cup {<<"csv", "create">>} :
        stage \in Stages /\ (stage[1] = "index" \/ stage = <<"csv", "create">>)
  BY DEF Stages, Formats
<1> QED BY <1>1, <1>2, <1>3, <1>4

LEMMA WriterStep ==
  ASSUME Types, WriterInv, [Next]_vars
  PROVE  WriterInv'
<1>1. ASSUME NEW p \in Procs, NEW i \in Identities, Begin(p, i) PROVE WriterInv'
  BY <1>1, WriterBegin
<1>2. ASSUME NEW p \in Procs, WriteReportFile(p) PROVE WriterInv'
  BY <1>2, WriterFile DEF WriteReportFile
<1>3. ASSUME NEW p \in Procs, RefreshIndex(p) PROVE WriterInv'
  <2>1. pc[p][1] # "csv"
    BY <1>3, IndexMoves
  <2> QED BY <1>3, <2>1, IndexMoves, WriterMoves
<1>4. ASSUME NEW p \in Procs, Crash(p) PROVE WriterInv'
  <2>1. Idle \in Stages
    BY DEF Stages
  <2>2. pc' = [pc EXCEPT ![p] = Idle] /\ UNCHANGED <<scan, scans, file, saved>>
    BY <1>4 DEF Crash, Goto
  <2> QED BY <2>1, <2>2, WriterMoves
<1>5. CASE Tick \/ Damage \/ UNCHANGED vars
  <2>1. UNCHANGED <<pc, scan, scans, file, saved>>
    BY <1>5 DEF Tick, Damage, vars, local, counts
  <2> QED BY <2>1 DEF WriterInv
<1> QED BY <1>1, <1>2, <1>3, <1>4, <1>5 DEF Next

-----------------------------------------------------------------------------
(* The names of the index files.                                           *)

LEMMA NamesStep ==
  ASSUME Types, WriterInv, NamesInv, [Next]_vars
  PROVE  NamesInv'
<1>1. scans \in Nat /\ index \in Nat /\ tmp \in Nat
  BY StoreAssumption DEF Types, Scans, NoFile
<1>2. \A q \in Procs : pc[q] \in BeforeTemp => pc[q] # Idle /\ scan[q] \in 1..scans
  BY DEF WriterInv, BeforeTemp, Idle
<1>3. ASSUME NEW p \in Procs, NEW i \in Identities, Begin(p, i) PROVE NamesInv'
  <2>1. /\ scans' = scans + 1 /\ UNCHANGED <<index, tmp>>
        /\ scan' = [scan EXCEPT ![p] = scans'] /\ pc' = [pc EXCEPT ![p] = <<"json", "create">>]
    BY <1>3 DEF Begin, cache
  <2>2. \A q \in Procs \ {p} : pc'[q] = pc[q] /\ scan'[q] = scan[q]
    BY <2>1 DEF Types
  <2>3. scan'[p] = scans'
    BY <2>1 DEF Types
  <2>4. scans' # index /\ scans' # tmp /\ index <= scans' /\ tmp <= scans'
    BY <1>1, <2>1 DEF NamesInv
  <2> QED BY <2>1, <2>2, <2>3, <2>4 DEF NamesInv
<1>4. ASSUME NEW p \in Procs, WriteReportFile(p) PROVE NamesInv'
  <2>1. PICK f \in Formats : CreateFile(p, f) \/ WriteFile(p, f) \/ RenameFile(p, f)
    BY <1>4 DEF WriteReportFile
  <2>2. UNCHANGED <<scan, scans, index, tmp>>
    BY <2>1 DEF CreateFile, WriteFile, RenameFile, cache, counts
  <2>3. \E stage : /\ pc' = [pc EXCEPT ![p] = stage]
                   /\ stage \in BeforeTemp => pc[p] \in BeforeTemp
    <3>1. f = "json" => pc[p] \in BeforeTemp
      <4>1. pc[p] \in {<<f, "create">>, <<f, "write">>, <<f, "rename">>}
        BY <2>1 DEF CreateFile, WriteFile, RenameFile
      <4> QED BY <4>1 DEF BeforeTemp
    <3>2. f = "csv" => /\ <<f, "write">> \notin BeforeTemp /\ <<f, "rename">> \notin BeforeTemp
                       /\ \A ok \in BOOLEAN : After(f, ok) \notin BeforeTemp
      BY DEF After, BeforeTemp, Idle
    <3> QED BY <2>1, <3>1, <3>2 DEF CreateFile, WriteFile, RenameFile, Goto, Formats
  <2>4. \A q \in Procs : pc'[q] \in BeforeTemp => pc[q] \in BeforeTemp
    BY <2>3 DEF Types
  <2> QED BY <2>2, <2>4 DEF NamesInv
<1>5. ASSUME NEW p \in Procs, RefreshIndex(p) PROVE NamesInv'
  <2>1. UNCHANGED <<scan, scans>>
    BY <1>5, IndexMoves
  <2>2. \A q \in Procs \ {p} : pc'[q] = pc[q]
    BY <1>5, IndexMoves DEF Types
  <2>3. CASE ListDir(p) \/ ReadIndex(p)
    <3>1. UNCHANGED <<index, tmp>> /\ pc[p] \in BeforeTemp
      BY <2>3 DEF ListDir, ReadIndex, cache, BeforeTemp
    <3> QED BY <2>1, <2>2, <3>1 DEF NamesInv
  <2>4. CASE OpenTemp(p)
    <3>1. pc[p] \in BeforeTemp /\ index' = index /\ (tmp' = tmp \/ tmp' = scan[p])
      BY <2>4 DEF OpenTemp, BeforeTemp
    <3>2. \A q \in Procs \ {p} : pc[q] \in BeforeTemp => scan[q] # scan[p]
      BY <1>2, <3>1 DEF WriterInv
    <3>3. pc'[p] \notin BeforeTemp
      BY <2>4 DEF OpenTemp, Goto, Types, BeforeTemp
    <3>4. scan[p] \in 1..scans /\ scan[p] # index
      BY <1>2, <3>1 DEF NamesInv
    <3>5. tmp' <= scans'
      BY <1>1, <2>1, <3>1, <3>4 DEF NamesInv
    <3> QED BY <2>1, <2>2, <3>1, <3>2, <3>3, <3>4, <3>5 DEF NamesInv
  <2>5. CASE WriteTemp(p) \/ Replace(p) \/ Unlink(p)
    <3>1. pc'[p] \notin BeforeTemp
      BY <2>5 DEF WriteTemp, Replace, Unlink, Goto, Types, BeforeTemp
    <3>2. \/ UNCHANGED <<index, tmp>>
          \/ index' = tmp /\ tmp' = NoFile /\ tmp # NoFile
          \/ index' = index /\ tmp' = NoFile
      BY <2>5 DEF WriteTemp, Replace, Unlink
    <3>3. \A q \in Procs : pc[q] \in BeforeTemp => scan[q] # NoFile
      BY <1>1, <1>2 DEF NoFile
    <3>4. index' <= scans' /\ tmp' <= scans'
      BY <1>1, <2>1, <3>2 DEF NamesInv, NoFile
    <3> QED BY <2>1, <2>2, <3>1, <3>2, <3>3, <3>4 DEF NamesInv
  <2> QED BY <1>5, <2>3, <2>4, <2>5 DEF RefreshIndex
<1>6. ASSUME NEW p \in Procs, Crash(p) PROVE NamesInv'
  <2>1. UNCHANGED <<scan, scans, index, tmp>> /\ pc' = [pc EXCEPT ![p] = Idle]
    BY <1>6 DEF Crash, cache, Goto
  <2>2. Idle \notin BeforeTemp
    BY DEF Idle, BeforeTemp
  <2>3. \A q \in Procs : pc'[q] \in BeforeTemp => pc[q] \in BeforeTemp
    BY <2>1, <2>2 DEF Types
  <2> QED BY <2>1, <2>3 DEF NamesInv
<1>7. CASE Damage
  <2>1. UNCHANGED <<pc, scan, scans, tmp>> /\ (index' = index \/ index' = NoFile)
    BY <1>7 DEF Damage, local
  <2>2. \A q \in Procs : pc[q] \in BeforeTemp => scan[q] # NoFile
    BY <1>1, <1>2 DEF NoFile
  <2>3. index' <= scans
    BY <1>1, <2>1 DEF NamesInv, NoFile
  <2> QED BY <2>1, <2>2, <2>3 DEF NamesInv
<1>8. CASE Tick \/ UNCHANGED vars
  BY <1>8 DEF Tick, vars, local, cache, counts, NamesInv
<1> QED BY <1>3, <1>4, <1>5, <1>6, <1>7, <1>8 DEF Next

LEMMA TimeStep ==
  ASSUME Types, TimeInv, [Next]_vars
  PROVE  TimeInv'
<1>1. ASSUME NEW p \in Procs, NEW i \in Identities, Begin(p, i) PROVE TimeInv'
  <2>1. /\ scans < MaxScans /\ scans' = scans + 1 /\ clock' = clock
        /\ stamp' = [stamp EXCEPT ![scans'] = clock]
    BY <1>1 DEF Begin
  <2>2. scans \in Nat /\ clock \in Nat /\ scans' \in Scans /\ 1..scans \subseteq Scans
    <3>1. scans \in 0..MaxScans /\ clock \in Nat
      BY DEF Types
    <3> QED BY <2>1, <3>1, StoreAssumption DEF Scans
  <2>3. \A s \in 1..scans' : s = scans' \/ s \in 1..scans
    BY <2>1, <2>2
  <2>4. stamp'[scans'] = clock /\ \A s \in 1..scans : s # scans' /\ stamp'[s] = stamp[s]
    <3>1. \A s \in 1..scans : s # scans' /\ s \in Scans
      BY <2>1, <2>2
    <3>2. stamp \in [Scans -> Nat]
      BY DEF Types
    <3> QED BY <2>1, <2>2, <3>1, <3>2
  <2>5. \A s \in 1..scans' : stamp'[s] <= clock'
    BY <2>1, <2>2, <2>3, <2>4 DEF TimeInv
  <2>6. \A r, s \in 1..scans' : r < s => r \in 1..scans
    BY <2>1, <2>2
  <2> QED BY <2>1, <2>2, <2>3, <2>4, <2>5, <2>6 DEF TimeInv
<1>2. CASE Tick
  <2>1. clock \in Nat /\ clock' = clock + 1 /\ UNCHANGED <<scans, stamp>>
    BY <1>2 DEF Tick, naming, Types
  <2>2. \A s \in 1..scans : stamp[s] \in Nat
    BY StoreAssumption DEF Types, Scans
  <2> QED BY <2>1, <2>2 DEF TimeInv
<1>3. CASE UNCHANGED <<scans, stamp, clock>>
  BY <1>3 DEF TimeInv
<1>4. ASSUME NEW p \in Procs, WriteReportFile(p) \/ RefreshIndex(p) \/ Crash(p)
      PROVE  UNCHANGED <<scans, stamp, clock>>
  <2>1. CASE WriteReportFile(p)
    BY <2>1 DEF WriteReportFile, CreateFile, WriteFile, RenameFile, naming, counts
  <2>2. CASE RefreshIndex(p)
    BY <2>2, IndexMoves
  <2>3. CASE Crash(p)
    BY <2>3 DEF Crash, naming
  <2> QED BY <1>4, <2>1, <2>2, <2>3
<1>5. CASE Damage \/ UNCHANGED vars
  BY <1>5, <1>3 DEF Damage, vars, naming, counts
<1> QED BY <1>1, <1>2, <1>3, <1>4, <1>5 DEF Next

-----------------------------------------------------------------------------
(* One process at a time.                                                  *)

\* What is found in a directory depends on the reports and their names only.
LEMMA LastScanStays ==
  ASSUME NEW p, UNCHANGED <<scan, file, ident, stamp, id, scans>>
  PROVE  /\ Dir(scan[p])' = Dir(scan[p])
         /\ LastScan(Dir(scan[p]))' = LastScan(Dir(scan[p]))
<1> DEFINE Found(S, st, i) ==
             [scan  |-> IF S = {} THEN NoScan ELSE CHOOSE s \in S :
                          \A r \in S \ {s} : st[r] < st[s] \/ (st[r] = st[s] /\ i[r] < i[s]),
              count |-> Cardinality(S)]
<1>1. Dir(scan[p])' = Dir(scan[p])
  BY DEF Dir
<1>2. ReportsIn(Dir(scan[p]))' = ReportsIn(Dir(scan[p]))
  BY DEF ReportsIn, Dir
<1>3. LastScan(Dir(scan[p])) = Found(ReportsIn(Dir(scan[p])), stamp, id)
  BY DEF LastScan, NameBefore
<1>4. LastScan(Dir(scan[p]))' = Found(ReportsIn(Dir(scan[p]))', stamp', id')
  BY DEF LastScan, NameBefore
<1> HIDE DEF Found
<1> QED BY <1>1, <1>2, <1>3, <1>4

\* A step after which nobody is between reading the directory and replacing the
\* index.
LEMMA AloneQuiet ==
  ASSUME AloneInv, ~overlapped, UNCHANGED <<index, content, damages>>,
         \A p, q \in Procs : pc'[p] # Idle /\ pc'[q] # Idle => p = q,
         \A p \in Procs : pc'[p] \notin {"index"} \X {"read", "open", "write", "replace"}
  PROVE  AloneInv'
<1>1. IndexWhole'
  BY DEF AloneInv, IndexWhole, Readable, IsDocument
<1>2. \A p \in Procs : pc'[p] # <<"index", "write">> /\ pc'[p] # <<"index", "replace">>
  OBVIOUS
<1>3. \A p \in Procs : pc'[p] \notin {"index"} \X {"open", "write", "replace"}
  OBVIOUS
<1> QED BY <1>1, <1>2, <1>3 DEF AloneInv

\* What holds of the one process that saves, at each step of refresh_index.
Fresh(p) ==
  /\ pc[p] = <<"index", "write">> =>
       tmp # NoFile /\ fd[p] = tmp /\ content[tmp] = Empty
  /\ pc[p] = <<"index", "replace">> =>
       tmp # NoFile /\ content[tmp] = Document(NewIndex(p))
  /\ pc[p] \in {"index"} \X {"read", "open", "write", "replace"} =>
       last[p] = LastScan(Dir(scan[p]))
  /\ "read" \notin Faults /\ Readable
       /\ pc[p] \in {"index"} \X {"open", "write", "replace"} =>
         existing[p] = content[index].devices

\* A step of refresh_index leaves the others where they are: idle.
LEMMA AloneIndex ==
  ASSUME Types, AloneInv, ~overlapped, NEW p \in Procs, RefreshIndex(p),
         Fresh(p)', IndexWhole'
  PROVE  AloneInv'
<1>1. \A q \in Procs \ {p} : pc'[q] = pc[q] /\ pc[q] = Idle
  BY IndexMoves DEF AloneInv, Types
<1>2. \A q, r \in Procs : pc'[q] # Idle /\ pc'[r] # Idle => q = r
  BY <1>1
<1>3. ASSUME NEW q \in Procs \ {p} PROVE Fresh(q)'
  <2>1. pc'[q] = Idle
    BY <1>1
  <2> QED BY <2>1 DEF Fresh, Idle
<1>4. \A q \in Procs : Fresh(q)'
  BY <1>3
<1> QED BY <1>2, <1>4 DEF AloneInv, Fresh

LEMMA FreshStep ==
  ASSUME Types, WriterInv, NamesInv, AloneInv, ~overlapped, NEW p \in Procs, RefreshIndex(p)
  PROVE  Fresh(p)' /\ IndexWhole'
<1> USE DEF Scans, NoFile
<1>1. UNCHANGED <<scan, scans, file, ident, stamp, id, damages>>
  BY IndexMoves
<1>2. Dir(scan[p])' = Dir(scan[p])
  BY <1>1, LastScanStays
<1>3. Fresh(p) /\ IndexWhole
  BY DEF AloneInv, Fresh
<1>4. LastScan(Dir(scan[p]))' = LastScan(Dir(scan[p]))
  BY <1>1, LastScanStays
<1>5. CASE ListDir(p)
  <2>1. UNCHANGED <<index, content, existing>>
    BY <1>5 DEF ListDir, cache
  <2>2. \/ pc'[p] = <<"index", "read">> /\ last'[p] = LastScan(Dir(scan[p]))
        \/ pc'[p] = <<"csv", "create">>
    BY <1>5 DEF ListDir, Goto, Types, IsMap
  <2>3. IndexWhole'
    BY <1>1, <1>3, <2>1 DEF IndexWhole, Readable
  <2> QED BY <1>4, <2>2, <2>3 DEF Fresh
<1>6. CASE ReadIndex(p)
  <2>1. UNCHANGED <<index, content, last>> /\ pc[p] = <<"index", "read">>
    BY <1>6 DEF ReadIndex, cache
  <2>2. pc'[p] = <<"index", "open">>
    BY <1>6 DEF ReadIndex, Goto, Types
  <2>3. "read" \notin Faults /\ Readable => existing'[p] = content[index].devices
    BY <1>6 DEF ReadIndex, Types, IsMap
  <2>4. IndexWhole' /\ (Readable' <=> Readable)
    BY <1>1, <1>3, <2>1 DEF IndexWhole, Readable
  <2> QED BY <1>3, <1>4, <2>1, <2>2, <2>3, <2>4 DEF Fresh
<1>7. CASE OpenTemp(p)
  <2>1. UNCHANGED <<index, last, existing>> /\ pc[p] = <<"index", "open">>
    BY <1>7 DEF OpenTemp
  <2>2. CASE tmp' = tmp /\ content' = content /\ pc'[p] = <<"index", "unlink">>
    <3>1. IndexWhole'
      BY <1>1, <1>3, <2>1, <2>2 DEF IndexWhole, Readable
    <3> QED BY <2>2, <3>1 DEF Fresh
  <2>3. CASE /\ tmp' = IF tmp = NoFile THEN scan[p] ELSE tmp
             /\ content' = [content EXCEPT ![tmp'] = Empty]
             /\ fd' = [fd EXCEPT ![p] = tmp']
             /\ pc'[p] = <<"index", "write">>
    <3>1. pc[p] # Idle /\ pc[p] \in BeforeTemp
      BY <2>1 DEF Idle, BeforeTemp
    <3>2. scan[p] \in 1..scans /\ scan[p] # index /\ scan[p] \in Scans
      BY <3>1, StoreAssumption DEF WriterInv, NamesInv, Types
    <3>3. tmp' # NoFile /\ tmp' \in Scans /\ tmp' # index
      BY <2>3, <3>2, StoreAssumption DEF NamesInv, Types
    <3>4. content'[tmp'] = Empty /\ fd'[p] = tmp'
      BY <2>3, <3>3 DEF Types, IsMap
    <3>5. index # NoFile => content'[index] = content[index]
      BY <2>3, <3>3 DEF Types, IsMap
    <3>6. IndexWhole' /\ (Readable' <=> Readable) /\ (Readable => index # NoFile)
      BY <1>1, <1>3, <2>1, <3>5 DEF IndexWhole, Readable
    <3>7. "read" \notin Faults /\ Readable' => existing'[p] = content'[index'].devices
      BY <1>3, <2>1, <3>5, <3>6 DEF Fresh
    <3>8. last'[p] = LastScan(Dir(scan[p]))'
      BY <1>3, <1>4, <2>1 DEF Fresh
    <3> QED BY <2>3, <3>3, <3>4, <3>6, <3>7, <3>8 DEF Fresh
  <2> QED BY <1>7, <2>2, <2>3 DEF OpenTemp, Goto, Types
<1>8. CASE WriteTemp(p)
  <2>1. /\ UNCHANGED <<index, tmp, last, existing>> /\ pc[p] = <<"index", "write">>
    BY <1>8 DEF WriteTemp
  <2>2. tmp # NoFile /\ tmp \in Scans /\ fd[p] = tmp /\ content[tmp] = Empty /\ tmp # index
    BY <1>3, <2>1 DEF Fresh, NamesInv, Types
  <2>3. NewIndex(p)' = NewIndex(p)
    BY <1>2, <2>1 DEF NewIndex
  <2>4. CASE content' = content /\ pc'[p] = <<"index", "unlink">>
    <3>1. IndexWhole'
      BY <1>1, <1>3, <2>1, <2>4 DEF IndexWhole, Readable
    <3> QED BY <2>4, <3>1 DEF Fresh
  <2>5. CASE content' = [content EXCEPT ![tmp] = Document(NewIndex(p))]
               /\ pc'[p] = <<"index", "replace">>
    <3>1. content'[tmp] = Document(NewIndex(p))
      BY <2>2, <2>5 DEF Types, IsMap
    <3>2. index # NoFile => content'[index] = content[index]
      BY <2>2, <2>5 DEF Types, IsMap
    <3>3. IndexWhole' /\ (Readable' <=> Readable) /\ (Readable => index # NoFile)
      BY <1>1, <1>3, <2>1, <3>2 DEF IndexWhole, Readable
    <3>4. "read" \notin Faults /\ Readable' => existing'[p] = content'[index'].devices
      BY <1>3, <2>1, <3>2, <3>3 DEF Fresh
    <3>5. last'[p] = LastScan(Dir(scan[p]))'
      BY <1>3, <1>4, <2>1 DEF Fresh
    <3>6. content'[tmp'] = Document(NewIndex(p))'
      BY <2>1, <2>3, <3>1 DEF Document
    <3> QED BY <2>1, <2>2, <2>5, <3>3, <3>4, <3>5, <3>6 DEF Fresh
  <2> QED BY <1>8, <2>2, <2>4, <2>5 DEF WriteTemp, Goto, Types
<1>9. CASE Replace(p)
  <2>1. UNCHANGED content /\ pc[p] = <<"index", "replace">>
    BY <1>9 DEF Replace
  <2>2. ASSUME UNCHANGED index PROVE IndexWhole'
    BY <1>1, <1>3, <2>1, <2>2 DEF IndexWhole, Readable
  <2>3. ASSUME index' = tmp PROVE IndexWhole'
    <3>1. content[tmp] = Document(NewIndex(p)) /\ tmp # NoFile
      BY <1>3, <2>1 DEF Fresh
    <3> QED BY <2>1, <2>3, <3>1 DEF IndexWhole, Readable, IsDocument, Document
  <2>4. IndexWhole'
    BY <1>9, <2>2, <2>3 DEF Replace
  <2>5. pc'[p] \in {<<"csv", "create">>, <<"index", "unlink">>}
    BY <1>9 DEF Replace, Goto, Types
  <2> QED BY <2>4, <2>5 DEF Fresh
<1>10. CASE Unlink(p)
  <2>1. UNCHANGED <<index, content>> /\ pc'[p] = <<"csv", "create">>
    BY <1>10 DEF Unlink, Goto, Types
  <2>2. IndexWhole'
    BY <1>1, <1>3, <2>1 DEF IndexWhole, Readable
  <2> QED BY <2>1, <2>2 DEF Fresh
<1> QED BY <1>5, <1>6, <1>7, <1>8, <1>9, <1>10 DEF RefreshIndex

LEMMA AloneStep ==
  ASSUME Types, WriterInv, NamesInv, AloneInv, [Next]_vars
  PROVE  AloneInv'
<1> SUFFICES ASSUME ~overlapped' PROVE AloneInv'
  BY DEF AloneInv
<1>1. ASSUME NEW p \in Procs, NEW i \in Identities, Begin(p, i) PROVE AloneInv'
  <2>1. ~overlapped /\ \A q \in Procs \ {p} : pc[q] = Idle
    BY <1>1, Zenon DEF Begin
  <2>2. /\ UNCHANGED <<index, content, damages>>
        /\ pc' = [pc EXCEPT ![p] = <<"json", "create">>]
    BY <1>1 DEF Begin, cache
  <2>3. \A q \in Procs : pc'[q] = IF q = p THEN <<"json", "create">> ELSE Idle
    BY <2>1, <2>2 DEF Types
  <2>4. \A q \in Procs : pc'[q] \notin {"index"} \X {"read", "open", "write", "replace"}
    BY <2>3 DEF Idle
  <2> QED BY <2>1, <2>2, <2>3, <2>4, AloneQuiet
<1>2. ASSUME NEW p \in Procs, NEW stage, pc' = [pc EXCEPT ![p] = stage], ~overlapped,
             pc[p] # Idle, UNCHANGED <<index, content, damages>>,
             stage \notin {"index"} \X {"read", "open", "write", "replace"}
      PROVE  AloneInv'
  <2>1. \A q \in Procs \ {p} : pc'[q] = pc[q] /\ pc[q] = Idle
    BY <1>2 DEF AloneInv, Types
  <2>2. \A q \in Procs : pc'[q] \notin {"index"} \X {"read", "open", "write", "replace"}
    BY <1>2, <2>1 DEF Types, Idle
  <2>3. \A q, r \in Procs : pc'[q] # Idle /\ pc'[r] # Idle => q = r
    BY <2>1
  <2> QED BY <1>2, <2>2, <2>3, AloneQuiet
<1>3. ASSUME NEW p \in Procs, WriteReportFile(p) PROVE AloneInv'
  <2>1. PICK f \in Formats : CreateFile(p, f) \/ WriteFile(p, f) \/ RenameFile(p, f)
    BY <1>3 DEF WriteReportFile
  <2>2. UNCHANGED <<index, content, damages, overlapped>>
    BY <2>1 DEF CreateFile, WriteFile, RenameFile, cache, counts
  <2>3. pc[p] # Idle
    <3>1. pc[p] \in {<<f, "create">>, <<f, "write">>, <<f, "rename">>}
      BY <2>1 DEF CreateFile, WriteFile, RenameFile
    <3> QED BY <3>1 DEF Idle, Formats
  <2>4. \E stage : /\ pc' = [pc EXCEPT ![p] = stage]
                   /\ stage \notin {"index"} \X {"read", "open", "write", "replace"}
    <3>1. \A ok \in BOOLEAN :
            After(f, ok) \notin {"index"} \X {"read", "open", "write", "replace"}
      BY DEF After, Idle, Formats
    <3>2. /\ <<f, "write">> \notin {"index"} \X {"read", "open", "write", "replace"}
          /\ <<f, "rename">> \notin {"index"} \X {"read", "open", "write", "replace"}
      BY DEF Formats
    <3> QED BY <2>1, <3>1, <3>2 DEF CreateFile, WriteFile, RenameFile, Goto
  <2>5. ~overlapped
    BY <2>2
  <2> QED BY <1>2, <2>2, <2>3, <2>4, <2>5
<1>4. ASSUME NEW p \in Procs, RefreshIndex(p) PROVE AloneInv'
  <2>1. ~overlapped
    BY <1>4, IndexMoves
  <2> QED BY <1>4, <2>1, FreshStep, AloneIndex
<1>5. ASSUME NEW p \in Procs, Crash(p) PROVE AloneInv'
  <2>1. /\ pc[p] # Idle /\ pc' = [pc EXCEPT ![p] = Idle]
        /\ UNCHANGED <<index, content, damages, overlapped>>
    BY <1>5 DEF Crash, Goto, cache
  <2>2. Idle \notin {"index"} \X {"read", "open", "write", "replace"} /\ ~overlapped
    BY <2>1 DEF Idle
  <2> QED BY <1>2, <2>1, <2>2
<1>6. ASSUME UNCHANGED <<local, file, ident, stamp, id, scans, index, tmp, content, damages,
                         overlapped>>
      PROVE  AloneInv'
  <2>1. ~overlapped /\ AloneInv
    BY <1>6
  <2>2. ASSUME NEW p \in Procs PROVE Fresh(p)'
    <3>1. Fresh(p)
      BY <2>1 DEF AloneInv, Fresh
    <3>2. LastScan(Dir(scan[p]))' = LastScan(Dir(scan[p])) /\ Dir(scan[p])' = Dir(scan[p])
      BY <1>6, LastScanStays DEF local
    <3>3. NewIndex(p)' = NewIndex(p) /\ (Readable' <=> Readable)
      BY <1>6, <3>2 DEF local, NewIndex, Readable
    <3> QED BY <1>6, <3>1, <3>2, <3>3 DEF Fresh, local, Document
  <2>3. IndexWhole'
    BY <1>6, <2>1 DEF AloneInv, IndexWhole, Readable
  <2>4. \A p, q \in Procs : pc'[p] # Idle /\ pc'[q] # Idle => p = q
    BY <1>6, <2>1 DEF AloneInv, local
  <2> QED BY <2>2, <2>3, <2>4 DEF AloneInv, Fresh
<1>7. CASE Damage
  <2>1. ~overlapped /\ UNCHANGED <<local, file, ident, stamp, id, scans, tmp>>
    BY <1>7, Zenon DEF Damage, naming
  <2>2. /\ index # NoFile
        /\ \/ index' = NoFile /\ UNCHANGED content
           \/ content' = [content EXCEPT ![index] = Garbled] /\ index' = index
    BY <1>7 DEF Damage
  <2>3. ~Readable'
    <3>1. CASE index' = NoFile
      BY <3>1 DEF Readable
    <3>2. CASE content' = [content EXCEPT ![index] = Garbled] /\ index' = index
      <4>1. content'[index] = Garbled
        BY <2>2, <3>2 DEF Types, IsMap
      <4> QED BY <3>2, <4>1 DEF Readable, IsDocument, Garbled
    <3> QED BY <2>2, <3>1, <3>2
  <2>4. IndexWhole'
    <3>1. damages' # 0
      BY <1>7 DEF Damage, Types
    <3> QED BY <3>1 DEF IndexWhole
  <2>5. tmp # NoFile => content'[tmp] = content[tmp]
    BY <2>2 DEF NamesInv, Types, IsMap
  <2>6. ASSUME NEW p \in Procs PROVE Fresh(p)'
    <3>1. Fresh(p)
      BY <2>1 DEF AloneInv, Fresh
    <3>2. LastScan(Dir(scan[p]))' = LastScan(Dir(scan[p])) /\ Dir(scan[p])' = Dir(scan[p])
      BY <2>1, LastScanStays DEF local
    <3>3. NewIndex(p)' = NewIndex(p)
      BY <2>1, <3>2 DEF local, NewIndex
    <3> QED BY <2>1, <2>3, <2>5, <3>1, <3>2, <3>3 DEF Fresh, local, Document
  <2>7. \A p, q \in Procs : pc'[p] # Idle /\ pc'[q] # Idle => p = q
    BY <2>1 DEF AloneInv, local
  <2> QED BY <2>4, <2>6, <2>7 DEF AloneInv, Fresh
<1>8. CASE Tick \/ UNCHANGED vars
  BY <1>6, <1>8 DEF Tick, vars, naming, cache, counts
<1> QED BY <1>1, <1>3, <1>4, <1>5, <1>7, <1>8 DEF Next

-----------------------------------------------------------------------------
LEMMA TypeStep ==
  ASSUME Types, WriterInv, [Next]_vars
  PROVE  Types'
<1>1. ASSUME NEW p \in Procs, RefreshIndex(p) PROVE Types'
  BY <1>1, TypesIndex DEF WriterInv
<1>2. CASE UNCHANGED vars
  BY <1>2 DEF vars, local, naming, cache, counts, Types, IsMap
<1> QED BY <1>1, <1>2, TypesBegin, TypesFile, TypesOutside DEF Next

LEMMA Invariance == Spec => []Inv
<1>1. Inv /\ [Next]_vars => Inv'
  BY TypeStep, WriterStep, NamesStep, AloneStep, TimeStep DEF Inv
<1> QED BY InitInv, <1>1, PTL DEF Spec

\* A report said to be saved stays as it is, and none is ever torn, for any
\* number of processes and crashes and whatever fails.
THEOREM ReportsStaySaved == Spec => []SavedStaysSaved
<1>1. Inv => SavedStaysSaved
  <2> SUFFICES ASSUME Inv PROVE SavedStaysSaved
    OBVIOUS
  <2>1. \A r \in saved : r[1] \in Scans /\ r[2] \in Formats /\ <<r[1], r[2]>> \in saved
    BY DEF Inv, WriterInv
  <2>2. \A s \in Scans, f \in Formats :
          file[s][f] # "torn" /\ (file[s][f] = "whole" <=> <<s, f>> \in saved)
    BY DEF Inv, WriterInv
  <2>3. \A r \in saved : file[r[1]][r[2]] = "whole"
    BY <2>1, <2>2
  <2> QED BY <2>2, <2>3 DEF SavedStaysSaved
<1> QED BY <1>1, Invariance, PTL

\* The index is whole as long as no two processes save at the same time.
THEOREM IndexIsWhole == Spec => []IndexWholeAlone
<1>1. Inv => IndexWholeAlone
  BY DEF Inv, AloneInv, IndexWholeAlone
<1> QED BY <1>1, Invariance, PTL

\* Two devices of different identities have different directories.
Apart == \A i, j \in Identities : SafeId(i) = SafeId(j) => i = j

LEMMA ListedIsSaved ==
  ASSUME Apart, Types, WriterInv, NEW i \in Identities
  PROVE  ReportsIn(SafeId(i)) = SavedOf(i)
<1>1. 1..scans \subseteq Scans /\ "json" \in Formats
  BY StoreAssumption DEF Types, Scans, Formats
<1>2. \A s \in 1..scans : file[s]["json"] \in {"whole", "torn"} <=> <<s, "json">> \in saved
  BY <1>1 DEF WriterInv
<1>3. \A s \in 1..scans : Dir(s) = SafeId(i) <=> ident[s] = i
  BY DEF Apart, Dir, Types
<1> QED BY <1>2, <1>3 DEF ReportsIn, SavedOf

\* The last scan of a device is found without any index: for any identities
\* that have directories of their own.
THEOREM LastScanIsFound ==
  ASSUME Apart PROVE Spec => []LastScanIsNewest
<1>1. Inv => LastScanIsNewest
  <2> SUFFICES ASSUME Inv, NEW i \in Identities,
                      \A r, s \in SavedOf(i) : stamp[r] = stamp[s] => r = s
               PROVE  LastScan(SafeId(i)) = [scan  |-> Newest(SavedOf(i)),
                                             count |-> Cardinality(SavedOf(i))]
    BY DEF LastScanIsNewest
  <2> DEFINE S == SavedOf(i)
             R == ReportsIn(SafeId(i))
             Greatest(T) == CHOOSE s \in T : \A r \in T \ {s} : NameBefore(r, s)
  <2>1. R = S
    BY ListedIsSaved DEF Inv
  <2>2. \A r, s \in S : r # s => (NameBefore(r, s) <=> r <= s)
    <3>1. S \subseteq 1..scans /\ \A s \in S : s \in Nat /\ stamp[s] \in Nat
      BY StoreAssumption DEF SavedOf, Inv, Types, Scans
    <3>2. ASSUME NEW r \in S, NEW s \in S, r # s PROVE NameBefore(r, s) <=> r <= s
      <4>1. stamp[r] # stamp[s]
        BY <3>2
      <4>2. /\ r < s => stamp[r] <= stamp[s]
            /\ s < r => stamp[s] <= stamp[r]
        BY <3>1 DEF Inv, TimeInv
      <4> QED BY <3>1, <3>2, <4>1, <4>2 DEF NameBefore
    <3> QED BY <3>2
  <2>3. \A s \in S : (\A r \in S \ {s} : NameBefore(r, s)) <=> (\A r \in S : r <= s)
    <3>1. \A s \in S : s <= s
      BY StoreAssumption DEF SavedOf, Inv, Types
    <3> QED BY <2>2, <3>1
  <2>4. Greatest(S) = (CHOOSE s \in S : \A r \in S : r <= s)
    BY <2>3
  <2>5. LastScan(SafeId(i)) =
          [scan |-> IF R = {} THEN NoScan ELSE Greatest(R), count |-> Cardinality(R)]
    BY DEF LastScan
  <2>6. Newest(S) = IF S = {} THEN NoScan ELSE (CHOOSE s \in S : \A r \in S : r <= s)
    BY DEF Newest
  <2> HIDE DEF S, R, Greatest
  <2>7. LastScan(SafeId(i)) = [scan |-> Newest(S), count |-> Cardinality(S)]
    BY <2>1, <2>4, <2>5, <2>6
  <2> QED BY <2>7 DEF S
<1> QED BY <1>1, Invariance, PTL

\* Only Replace makes another file index.json, but for damage from outside, and
\* only Replace leads on from there.
LEMMA OnlyReplace ==
  ASSUME Inv, Next, ~overlapped, NEW p \in Procs, pc[p] = <<"index", "replace">>,
         \/ pc'[p] = <<"csv", "create">>
         \/ index' # index /\ damages' = damages
  PROVE  Replace(p) /\ UNCHANGED content /\ (index' = tmp \/ index' = index)
<1>1. \A q \in Procs : pc[q] # Idle => q = p
  BY DEF Inv, AloneInv, Idle
<1>2. ASSUME Replace(p) PROVE UNCHANGED content /\ (index' = tmp \/ index' = index)
  BY <1>2 DEF Replace
<1>3. ~Tick
  BY DEF Tick, local, cache
<1>4. ~Damage
  <2>1. Damage => pc' = pc /\ damages' # damages
    BY DEF Damage, local, Inv, Types
  <2> QED BY <2>1
<1>5. ASSUME NEW q \in Procs, NEW i \in Identities, Begin(q, i) PROVE FALSE
  <2>1. q # p /\ pc' = [pc EXCEPT ![q] = <<"json", "create">>] /\ index' = index
    BY <1>5 DEF Begin, cache, Idle
  <2> QED BY <2>1 DEF Inv, Types
<1>6. ASSUME NEW q \in Procs, WriteReportFile(q) PROVE FALSE
  <2>1. PICK f \in Formats : pc[q] \in {<<f, "create">>, <<f, "write">>, <<f, "rename">>}
    BY <1>6 DEF WriteReportFile, CreateFile, WriteFile, RenameFile
  <2>2. pc[q] # Idle /\ pc[q] # <<"index", "replace">>
    BY <2>1 DEF Idle, Formats
  <2> QED BY <1>1, <2>2
<1>7. ASSUME NEW q \in Procs, Crash(q) PROVE FALSE
  <2>1. pc' = [pc EXCEPT ![q] = Idle] /\ index' = index /\ pc[q] # Idle
    BY <1>7 DEF Crash, Goto, cache
  <2>2. pc'[p] = Idle
    BY <1>1, <2>1 DEF Inv, Types
  <2> QED BY <2>1, <2>2 DEF Idle
<1>8. ASSUME NEW q \in Procs, RefreshIndex(q) PROVE Replace(p)
  <2>1. q = p
    BY <1>1, <1>8, IndexMoves
  <2> QED BY <1>8, <2>1 DEF RefreshIndex, ListDir, ReadIndex, OpenTemp, WriteTemp, Unlink
<1> QED BY <1>2, <1>3, <1>4, <1>5, <1>6, <1>7, <1>8 DEF Next

\* A refresh by one process at a time records what is there of its device.
THEOREM RefreshTellsTheTruth ==
  ASSUME Apart PROVE Spec => IndexTruthful
<1> DEFINE Truthful(p) ==
             ~overlapped /\ pc[p] = <<"index", "replace">> /\ pc'[p] = <<"csv", "create">> =>
               content[index'].devices[Dir(scan[p])] =
                 [scan |-> LastScan(Dir(scan[p])).scan,
                  count |-> Cardinality(SavedOf(ident[scan[p]]))]
<1>1. ASSUME Inv, Next, NEW p \in Procs, ~overlapped, pc[p] = <<"index", "replace">>,
             pc'[p] = <<"csv", "create">>
      PROVE  Truthful(p)
  <2>1. Fresh(p)
    BY <1>1 DEF Inv, AloneInv, Fresh
  <2>2. index' = tmp
    <3>1. Replace(p)
      BY <1>1, OnlyReplace
    <3> QED BY <1>1, <3>1 DEF Replace, Goto, Inv, Types
  <2>3. content[tmp].devices = NewIndex(p) /\ last[p] = LastScan(Dir(scan[p]))
    BY <1>1, <2>1 DEF Fresh, Document
  <2>4. scan[p] \in 1..scans /\ ident[scan[p]] \in Identities
    BY <1>1 DEF Inv, WriterInv, Types, Idle
  <2>5. Dir(scan[p]) \in DOMAIN existing[p]
    BY <1>1, <2>4 DEF Inv, Types, Dirs, Dir
  <2>6. content[tmp].devices[Dir(scan[p])] = LastScan(Dir(scan[p]))
    BY <2>3, <2>5 DEF NewIndex
  <2>7. ReportsIn(Dir(scan[p])) = SavedOf(ident[scan[p]])
    BY <1>1, <2>4, ListedIsSaved DEF Inv, Dir
  <2>8. LastScan(Dir(scan[p])) = [scan |-> LastScan(Dir(scan[p])).scan,
                                  count |-> Cardinality(ReportsIn(Dir(scan[p])))]
    BY DEF LastScan
  <2> QED BY <2>2, <2>6, <2>7, <2>8
<1>2. Inv /\ [Next]_vars => [\A p \in Procs : Truthful(p)]_vars
  BY <1>1
<1> QED BY <1>2, Invariance, PTL DEF Spec, IndexTruthful

\* A refresh by one process at a time keeps the entries of the other devices,
\* unless reading the index failed.
THEOREM OthersAreKept ==
  ASSUME "read" \notin Faults PROVE Spec => IndexKeepsOthers
<1> DEFINE Kept(p) ==
             (/\ ~overlapped /\ pc[p] = <<"index", "replace">> /\ Readable
              /\ index' # index /\ damages' = damages)
             => \A d \in Dirs \ {Dir(scan[p])} :
                  content[index].devices[d] # NoEntry =>
                    Readable' /\ content[index'].devices[d] = content[index].devices[d]
<1>1. ASSUME Inv, Next, NEW p \in Procs, ~overlapped, pc[p] = <<"index", "replace">>,
             Readable, index' # index, damages' = damages,
             NEW d \in Dirs \ {Dir(scan[p])}
      PROVE  Readable' /\ content[index'].devices[d] = content[index].devices[d]
  <2>1. index' = tmp /\ content' = content
    BY <1>1, OnlyReplace
  <2>2. tmp # NoFile /\ content[tmp] = Document(NewIndex(p))
          /\ existing[p] = content[index].devices
    <3>1. Fresh(p)
      BY <1>1 DEF Inv, AloneInv, Fresh
    <3> QED BY <1>1, <3>1 DEF Fresh
  <2>3. d \in DOMAIN existing[p]
    BY <1>1 DEF Inv, Types
  <2>4. NewIndex(p)[d] = existing[p][d]
    BY <1>1, <2>3 DEF NewIndex
  <2>5. Readable'
    BY <2>1, <2>2 DEF Readable, IsDocument, Document
  <2> QED BY <2>1, <2>2, <2>4, <2>5 DEF Document
<1>2. Inv /\ [Next]_vars => [\A p \in Procs : Kept(p)]_vars
  BY <1>1
<1> QED BY <1>2, Invariance, PTL DEF Spec, IndexKeepsOthers

-----------------------------------------------------------------------------
(***************************************************************************)
(* What the index says.  A directory has a greatest name, and reports only *)
(* come to it: what was once found there stays true as far as it goes,     *)
(* in whichever file it ends up.                                           *)
(***************************************************************************)

\* The order of the natural numbers, as a relation.
Less == {ij \in Nat \X Nat : ij[1] < ij[2]}

LEMMA LargestExists ==
  ASSUME NEW N \in Nat, NEW T \in SUBSET (0..N), T # {}
  PROVE  \E x \in T : \A y \in T : y <= x
<1> DEFINE U == {N - y : y \in T}
<1>1. U \subseteq Nat /\ U # {}
  <2>1. \A y \in T : N - y \in Nat
    OBVIOUS
  <2> QED BY <2>1
<1>2. IsWellFoundedOn(Less, Nat)
  BY NatLessThanWellFounded, Zenon DEF OpToRel, Less
<1>3. PICK u \in U : \A v \in U : ~ (<<v, u>> \in Less)
  BY <1>1, <1>2, WFMin
<1>4. \A v \in U : ~ (v < u)
  BY <1>1, <1>3 DEF Less
<1>5. PICK x \in T : u = N - x
  OBVIOUS
<1>6. \A y \in T : ~ (N - y < N - x)
  BY <1>4, <1>5
<1>7. \A y \in T : y \in Nat
  OBVIOUS
<1> QED BY <1>6, <1>7

\* generate_scan_id: no two scans are named alike.
IdsInv ==
  /\ id \in [Scans -> 0..MaxScans]
  /\ \A r, s \in 1..scans : id[r] = id[s] => r = s

LEMMA IdsStep ==
  ASSUME Types, IdsInv, [Next]_vars
  PROVE  IdsInv'
<1> USE StoreAssumption
<1>1. ASSUME NEW p \in Procs, NEW i \in Identities, Begin(p, i) PROVE IdsInv'
  <2>1. PICK n \in Scans \ {id[s] : s \in 1..scans} : id' = [id EXCEPT ![scans + 1] = n]
    BY <1>1 DEF Begin
  <2>2. /\ scans \in Nat /\ scans' = scans + 1 /\ scans + 1 \in Scans
        /\ 1..scans \subseteq Scans
    <3>1. scans < MaxScans /\ scans' = scans + 1
      BY <1>1 DEF Begin
    <3>2. scans \in 0..MaxScans
      BY DEF Types
    <3> QED BY <3>1, <3>2 DEF Scans
  <2>3. id' \in [Scans -> 0..MaxScans] /\ id'[scans + 1] = n
    BY <2>1, <2>2 DEF IdsInv, Scans
  <2>4. \A s \in 1..scans : id'[s] = id[s] /\ id[s] # n
    <3>1. \A s \in 1..scans : s \in DOMAIN id /\ s # scans + 1
      BY <2>2 DEF IdsInv
    <3>2. id' = [id EXCEPT ![scans + 1] = n] /\ n \notin {id[s] : s \in 1..scans}
      BY <2>1
    <3> QED BY <3>1, <3>2
  <2>5. \A s \in 1..scans' : s \in 1..scans \/ s = scans + 1
    BY <2>2
  <2> QED BY <2>3, <2>4, <2>5 DEF IdsInv
<1>2. ASSUME UNCHANGED <<id, scans>> PROVE IdsInv'
  BY <1>2 DEF IdsInv
<1>3. ASSUME NEW p \in Procs, WriteReportFile(p) \/ RefreshIndex(p) \/ Crash(p) PROVE IdsInv'
  BY <1>2, <1>3 DEF WriteReportFile, CreateFile, WriteFile, RenameFile, RefreshIndex, ListDir,
         ReadIndex, OpenTemp, WriteTemp, Replace, Unlink, Crash, naming, counts
<1>4. CASE Tick \/ Damage \/ UNCHANGED vars
  BY <1>2, <1>4 DEF Tick, Damage, vars, naming, counts
<1> QED BY <1>1, <1>3, <1>4 DEF Next

LEMMA GreatestName ==
  ASSUME Types, TimeInv, IdsInv, NEW T \in SUBSET (1..scans), T # {}
  PROVE  \E s \in T : \A r \in T \ {s} : NameBefore(r, s)
<1> USE StoreAssumption
<1>1. scans \in Nat /\ T \subseteq Scans /\ T \in SUBSET (0..scans)
  BY DEF Types, Scans
<1>2. PICK m \in T : \A r \in T : r <= m
  BY <1>1, LargestExists
<1>3. \A r \in T : stamp[r] \in Nat /\ stamp[r] <= stamp[m]
  <2>1. \A r \in T : stamp[r] \in Nat /\ (r < m \/ r = m)
    BY <1>1, <1>2 DEF Types
  <2> QED BY <2>1 DEF TimeInv
<1> DEFINE U == {s \in T : stamp[s] = stamp[m]}
           N == {id[s] : s \in U}
<1>4. N \in SUBSET (0..MaxScans) /\ N # {} /\ MaxScans \in Nat
  BY <1>1, <1>2 DEF IdsInv
<1> HIDE DEF N
<1>5. PICK n \in N : \A k \in N : k <= n
  BY <1>4, LargestExists
<1>6. PICK s \in U : id[s] = n
  BY <1>5 DEF N
<1>7. ASSUME NEW r \in T \ {s} PROVE NameBefore(r, s)
  <2>1. CASE r \in U
    <3>1. id[r] <= n /\ id[r] \in Nat /\ n \in Nat
      BY <1>4, <1>5, <2>1 DEF N
    <3>2. id[r] # id[s]
      BY <1>7 DEF IdsInv
    <3> QED BY <1>6, <2>1, <3>1, <3>2 DEF NameBefore
  <2>2. CASE r \notin U
    <3>1. stamp[r] # stamp[m] /\ stamp[s] = stamp[m]
      BY <2>2
    <3> QED BY <1>3, <3>1 DEF NameBefore
  <2> QED BY <2>1, <2>2
<1> QED BY <1>7

LEMMA ScansAreFinite ==
  ASSUME NEW n \in Nat, NEW T, T \subseteq 1..n
  PROVE  IsFiniteSet(T) /\ Cardinality(T) \in Nat
<1>1. IsFiniteSet(1..n)
  BY FS_Interval
<1>2. IsFiniteSet(T)
  BY <1>1, FS_Subset
<1> QED BY <1>2, FS_CardinalityType

\* What was saved and how it was named stays.
LEMMA HistoryGrows ==
  ASSUME Types, [Next]_vars
  PROVE  /\ saved \subseteq saved' /\ scans <= scans'
         /\ \A s \in 1..scans : Dir(s)' = Dir(s)
<1> USE StoreAssumption
<1>1. scans \in Nat /\ 1..scans \subseteq Scans
  BY DEF Types, Scans
<1>2. ASSUME NEW p \in Procs, NEW i \in Identities, Begin(p, i)
      PROVE  /\ saved \subseteq saved' /\ scans <= scans'
             /\ \A s \in 1..scans : ident'[s] = ident[s]
  <2>1. /\ saved' = saved /\ scans' = scans + 1
        /\ ident' = [ident EXCEPT ![scans + 1] = i] /\ DOMAIN ident = Scans
    BY <1>2 DEF Begin, Types, IsMap
  <2>2. \A s \in 1..scans : s \in Scans /\ s # scans + 1
    BY <1>1
  <2> QED BY <1>1, <2>1, <2>2
<1>3. ASSUME NEW p \in Procs, WriteReportFile(p) \/ RefreshIndex(p) \/ Crash(p)
      PROVE  saved \subseteq saved' /\ UNCHANGED <<scans, ident>>
  BY <1>3 DEF WriteReportFile, CreateFile, WriteFile, RenameFile, RefreshIndex, ListDir,
         ReadIndex, OpenTemp, WriteTemp, Replace, Unlink, Crash, naming, counts
<1>4. ASSUME Tick \/ Damage \/ UNCHANGED vars
      PROVE  UNCHANGED <<saved, scans, ident>>
  BY <1>4 DEF Tick, Damage, vars, naming, counts
<1> QED BY <1>1, <1>2, <1>3, <1>4 DEF Next, Dir

\* Reports come to a directory and stay.
LEMMA ReportsOnlyCome ==
  ASSUME Types, WriterInv, [Next]_vars, NEW d
  PROVE  /\ ReportsIn(d) \subseteq ReportsIn(d)'
         /\ IsFiniteSet(ReportsIn(d)) /\ IsFiniteSet(ReportsIn(d)')
<1> USE StoreAssumption
<1>1. scans \in Nat /\ scans' \in Nat /\ 1..scans \subseteq Scans /\ 1..scans' \subseteq Scans
  <2>1. Types'
    BY TypeStep
  <2>2. scans \in 0..MaxScans /\ scans' \in 0..MaxScans
    BY <2>1 DEF Types
  <2> QED BY <2>2 DEF Scans
<1>2. ReportsIn(d) \subseteq 1..scans /\ ReportsIn(d)' \subseteq 1..scans'
  BY DEF ReportsIn
<1>3. IsFiniteSet(ReportsIn(d)) /\ IsFiniteSet(ReportsIn(d)')
  BY <1>1, <1>2, ScansAreFinite
<1>4. /\ saved \subseteq saved' /\ scans <= scans'
      /\ \A s \in 1..scans : Dir(s)' = Dir(s)
  BY HistoryGrows
<1>5. ASSUME NEW s \in ReportsIn(d) PROVE s \in ReportsIn(d)'
  <2>1. s \in 1..scans /\ Dir(s) = d /\ file[s]["json"] \in {"whole", "torn"}
    BY <1>5 DEF ReportsIn
  <2>2. <<s, "json">> \in saved
    BY <1>1, <2>1 DEF WriterInv, Formats
  <2>3. file'[s]["json"] = "whole"
    BY <1>1, <1>4, <2>1, <2>2, WriterStep DEF WriterInv, Formats, Scans
  <2>4. s \in 1..scans' /\ Dir(s)' = d
    BY <1>1, <1>4, <2>1
  <2> QED BY <2>3, <2>4 DEF ReportsIn
<1> QED BY <1>3, <1>5

\* An entry that is no more than true of directory d.
Mentions(d, e) ==
  /\ e.scan \in {NoScan} \cup ReportsIn(d)
  /\ e.count \in Nat /\ e.count <= Cardinality(ReportsIn(d))

LEMMA MentionsStays ==
  ASSUME Types, WriterInv, [Next]_vars, NEW d, NEW e, Mentions(d, e)
  PROVE  Mentions(d, e)'
<1>1. /\ ReportsIn(d) \subseteq ReportsIn(d)'
      /\ IsFiniteSet(ReportsIn(d)) /\ IsFiniteSet(ReportsIn(d)')
  BY ReportsOnlyCome
<1>2. /\ Cardinality(ReportsIn(d)) <= Cardinality(ReportsIn(d)')
      /\ Cardinality(ReportsIn(d)) \in Nat /\ Cardinality(ReportsIn(d)') \in Nat
  BY <1>1, FS_Subset, FS_CardinalityType
<1> QED BY <1>1, <1>2 DEF Mentions

LEMMA LastScanMentions ==
  ASSUME Types, TimeInv, IdsInv, NEW d
  PROVE  Mentions(d, LastScan(d)) /\ Mentions(d, NoEntry)
<1> DEFINE T == ReportsIn(d)
<1>1. scans \in Nat /\ T \in SUBSET (1..scans)
  BY StoreAssumption DEF Types, ReportsIn
<1>2. Cardinality(T) \in Nat
  BY <1>1, ScansAreFinite
<1>3. T # {} => (CHOOSE s \in T : \A r \in T \ {s} : NameBefore(r, s)) \in T
  BY <1>1, GreatestName
<1>4. LastScan(d).scan \in {NoScan} \cup T /\ LastScan(d).count = Cardinality(T)
  BY <1>3 DEF LastScan
<1> QED BY <1>2, <1>4 DEF Mentions, NoEntry

Looking == {"index"} \X {"read", "open", "write"}
Making == {"index"} \X {"open", "write"}

\* What a process has found and read, and what stands in a file, mentions only
\* reports that exist.
Found(p) ==
  /\ pc[p] \in Looking => Mentions(Dir(scan[p]), last[p])
  /\ pc[p] \in Making => \A d \in Dirs : Mentions(d, existing[p][d])
Written(n) ==
  IsDocument(content[n]) => \A d \in Dirs : Mentions(d, content[n].devices[d])

IndexInv == (\A p \in Procs : Found(p)) /\ (\A n \in Scans : Written(n))

\* What a process has found stays true while it goes on.
LEMMA FoundStays ==
  ASSUME Types, WriterInv, IndexInv, [Next]_vars, NEW p \in Procs,
         UNCHANGED <<last[p], existing[p], scan[p]>>
  PROVE  /\ pc[p] \in Looking => Mentions(Dir(scan[p]), last[p])'
         /\ pc[p] \in Making => \A d \in Dirs : Mentions(d, existing[p][d])'
<1>1. ASSUME pc[p] \in Looking PROVE Mentions(Dir(scan[p]), last[p])'
  <2>1. scan[p] \in 1..scans
    BY <1>1 DEF WriterInv, Looking, Idle
  <2>2. Dir(scan[p])' = Dir(scan[p])
    BY <2>1, HistoryGrows DEF Dir
  <2>3. Mentions(Dir(scan[p]), last[p])
    BY <1>1 DEF IndexInv, Found
  <2> DEFINE d == Dir(scan[p])   e == last[p]
  <2> QED BY <2>2, <2>3, MentionsStays
<1>2. ASSUME pc[p] \in Making, NEW d \in Dirs PROVE Mentions(d, existing[p][d])'
  <2>1. Mentions(d, existing[p][d])
    BY <1>2 DEF IndexInv, Found
  <2> QED BY <2>1, MentionsStays
<1> QED BY <1>1, <1>2

\* What stands in a file that nobody writes stays true.
LEMMA WrittenStays ==
  ASSUME Types, WriterInv, IndexInv, [Next]_vars, NEW n \in Scans, content'[n] = content[n]
  PROVE  Written(n)'
<1> SUFFICES ASSUME IsDocument(content[n]), NEW d \in Dirs
             PROVE  Mentions(d, content[n].devices[d])'
  BY DEF Written
<1>1. Mentions(d, content[n].devices[d])
  BY DEF IndexInv, Written
<1> QED BY <1>1, MentionsStays

\* Only what a step changes needs to be looked at.
LEMMA IndexFrame ==
  ASSUME Types, WriterInv, IndexInv, [Next]_vars,
         \A q \in Procs : \/ Found(q)' \/ pc'[q] \notin Looking
                          \/ UNCHANGED <<pc[q], scan[q], last[q], existing[q]>>,
         \A n \in Scans : \/ Written(n)' \/ ~IsDocument(content[n])'
                          \/ content'[n] = content[n]
  PROVE  IndexInv'
<1>1. ASSUME NEW q \in Procs PROVE Found(q)'
  <2>1. CASE pc'[q] \notin Looking
    BY <2>1 DEF Found, Looking, Making
  <2>2. CASE UNCHANGED <<pc[q], scan[q], last[q], existing[q]>>
    BY <2>2, FoundStays DEF Found
  <2> QED BY <2>1, <2>2
<1>2. ASSUME NEW n \in Scans PROVE Written(n)'
  <2>1. CASE ~IsDocument(content[n])'
    BY <2>1 DEF Written
  <2>2. CASE content'[n] = content[n]
    BY <2>2, WrittenStays
  <2> QED BY <2>1, <2>2
<1> QED BY <1>1, <1>2 DEF IndexInv

\* The steps outside of refresh_index.
LEMMA IndexOutside ==
  ASSUME Types, WriterInv, IndexInv, [Next]_vars,
         \/ Tick \/ Damage \/ UNCHANGED vars
         \/ \E p \in Procs : \/ \E i \in Identities : Begin(p, i)
                             \/ WriteReportFile(p) \/ Crash(p)
  PROVE  IndexInv'
<1>1. ASSUME NEW p \in Procs, NEW i \in Identities, Begin(p, i) PROVE IndexInv'
  <2>1. /\ pc' = [pc EXCEPT ![p] = <<"json", "create">>]
        /\ scan' = [scan EXCEPT ![p] = scans']
        /\ UNCHANGED <<last, existing, content>>
    BY <1>1 DEF Begin, cache
  <2>2. \A q \in Procs : pc'[q] \notin Looking \/ UNCHANGED <<pc[q], scan[q]>>
    BY <2>1 DEF Types, Looking
  <2> QED BY <2>1, <2>2, IndexFrame
<1>2. ASSUME NEW p \in Procs, WriteReportFile(p) \/ Crash(p) PROVE IndexInv'
  <2>1. \E to \in Stages : pc' = [pc EXCEPT ![p] = to] /\ to \notin Looking
    <3>1. CASE Crash(p)
      <4>1. Idle \in Stages /\ Idle \notin Looking
        BY DEF Stages, Looking, Idle
      <4> QED BY <3>1, <4>1 DEF Crash, Goto
    <3>2. CASE WriteReportFile(p)
      <4> DEFINE Next1(f) == {<<f, "write">>, <<f, "rename">>, After(f, TRUE), After(f, FALSE)}
      <4>1. PICK f \in Formats : CreateFile(p, f) \/ WriteFile(p, f) \/ RenameFile(p, f)
        BY <3>2 DEF WriteReportFile
      <4>2. \E to \in Next1(f) : pc' = [pc EXCEPT ![p] = to]
        BY <4>1 DEF CreateFile, WriteFile, RenameFile, Goto
      <4>3. \A to \in Next1(f) : to \in Stages /\ to \notin Looking
        BY DEF After, Stages, Looking, Idle, Formats
      <4> QED BY <4>2, <4>3
    <3> QED BY <1>2, <3>1, <3>2
  <2>2. UNCHANGED <<scan, last, existing, content>>
    BY <1>2 DEF WriteReportFile, CreateFile, WriteFile, RenameFile, Crash, cache
  <2>3. \A q \in Procs : pc'[q] \notin Looking \/ pc'[q] = pc[q]
    BY <2>1 DEF Types
  <2> QED BY <2>2, <2>3, IndexFrame
<1>3. ASSUME Tick \/ UNCHANGED vars PROVE IndexInv'
  <2>1. UNCHANGED <<pc, scan, last, existing, content>>
    BY <1>3 DEF Tick, vars, local, cache
  <2> QED BY <2>1, IndexFrame
<1>4. ASSUME Damage PROVE IndexInv'
  <2>1. UNCHANGED <<pc, scan, last, existing>>
          /\ (UNCHANGED content \/ content' = [content EXCEPT ![index] = Garbled])
    BY <1>4 DEF Damage, local
  <2>2. ~IsDocument(Garbled)
    BY DEF IsDocument, Garbled
  <2>3. \A n \in Scans : ~IsDocument(content[n])' \/ content'[n] = content[n]
    BY <2>1, <2>2 DEF Types, IsMap, IsDocument
  <2> QED BY <2>1, <2>3, IndexFrame
<1> QED BY <1>1, <1>2, <1>3, <1>4

\* The steps of refresh_index.
LEMMA IndexInside ==
  ASSUME Types, WriterInv, TimeInv, IdsInv, IndexInv, [Next]_vars,
         NEW p \in Procs, RefreshIndex(p)
  PROVE  IndexInv'
<1>1. /\ \A q \in Procs \ {p} : pc'[q] = pc[q]
      /\ UNCHANGED <<scan, scans, file, ident, stamp, id>>
  BY IndexMoves DEF Types
<1>2. \A d : LastScan(d)' = LastScan(d) /\ ReportsIn(d)' = ReportsIn(d)
  BY <1>1 DEF LastScan, ReportsIn, NameBefore, Dir
<1>3. Dir(scan[p])' = Dir(scan[p]) /\ p \in DOMAIN pc /\ p \in DOMAIN fd
  BY <1>1 DEF Dir, Types
<1>4. ASSUME ListDir(p) PROVE IndexInv'
  <2>1. /\ \A q \in Procs \ {p} : last'[q] = last[q]
        /\ UNCHANGED <<existing, content>>
    BY <1>4 DEF ListDir, Types, IsMap, cache
  <2>2. CASE last' = [last EXCEPT ![p] = LastScan(Dir(scan[p]))]
               /\ Goto(p, <<"index", "read">>)
    <3>1. pc'[p] = <<"index", "read">> /\ last'[p] = LastScan(Dir(scan[p]))
      BY <1>3, <2>2 DEF Goto, Types, IsMap
    <3>2. Mentions(Dir(scan[p]), LastScan(Dir(scan[p])))
      BY LastScanMentions
    <3>3. Mentions(Dir(scan[p]), last[p])'
      BY <1>2, <1>3, <3>1, <3>2 DEF Mentions
    <3>4. Found(p)'
      BY <3>1, <3>3 DEF Found, Making
    <3> QED BY <1>1, <2>1, <3>4, IndexFrame
  <2>3. CASE Goto(p, <<"csv", "create">>)
    <3>1. pc'[p] = <<"csv", "create">>
      BY <1>3, <2>3 DEF Goto
    <3>2. pc'[p] \notin Looking
      BY <3>1 DEF Looking
    <3> QED BY <1>1, <2>1, <3>2, IndexFrame
  <2> QED BY <1>4, <2>2, <2>3 DEF ListDir
<1>5. ASSUME ReadIndex(p) PROVE IndexInv'
  <2>1. /\ \A q \in Procs \ {p} : existing'[q] = existing[q]
        /\ UNCHANGED <<last, content>> /\ pc[p] = <<"index", "read">>
        /\ pc'[p] = <<"index", "open">>
    BY <1>3, <1>5 DEF ReadIndex, Goto, Types, IsMap, cache
  <2>2. Mentions(Dir(scan[p]), last[p])'
    <3>1. pc[p] \in Looking
      BY <2>1 DEF Looking
    <3>2. Mentions(Dir(scan[p]), last[p])
      BY <3>1 DEF IndexInv, Found
    <3> QED BY <1>2, <1>3, <1>1, <2>1, <3>2 DEF Mentions
  <2>3. \A d \in Dirs : Mentions(d, existing'[p][d])
    <3>1. CASE Readable /\ existing'[p] = content[index].devices
      <4>1. index \in Scans /\ IsDocument(content[index])
        BY <3>1 DEF Readable, Types
      <4> QED BY <3>1, <4>1 DEF IndexInv, Written
    <3>2. CASE existing'[p] = NoIndex
      <4>1. \A d \in Dirs : existing'[p][d] = NoEntry
        BY <3>2 DEF NoIndex
      <4> QED BY <4>1, LastScanMentions
    <3>3. p \in DOMAIN existing
      BY DEF Types, IsMap
    <3> QED BY <1>5, <3>1, <3>2, <3>3 DEF ReadIndex
  <2>4. \A d \in Dirs : Mentions(d, existing[p][d])'
    BY <1>2, <2>3 DEF Mentions
  <2>5. Found(p)'
    BY <2>2, <2>4 DEF Found
  <2> QED BY <1>1, <2>1, <2>5, IndexFrame
<1>6. ASSUME OpenTemp(p) PROVE IndexInv'
  <2>1. UNCHANGED <<last, existing>>
    BY <1>6 DEF OpenTemp
  <2>2. \/ pc[p] = <<"index", "open">> /\ pc'[p] = <<"index", "write">>
        \/ pc'[p] = <<"index", "unlink">>
    BY <1>3, <1>6 DEF OpenTemp, Goto
  <2>3. Found(p)' \/ pc'[p] \notin Looking
    <3>1. pc[p] = <<"index", "open">> => pc[p] \in Looking /\ pc[p] \in Making
      BY DEF Looking, Making
    <3>2. <<"index", "unlink">> \notin Looking
      BY DEF Looking
    <3> QED BY <1>1, <2>1, <2>2, <3>1, <3>2, FoundStays DEF Found
  <2>4. \A n \in Scans : ~IsDocument(content[n])' \/ content'[n] = content[n]
    <3>1. content' = [content EXCEPT ![tmp'] = Empty] \/ UNCHANGED content
      BY <1>6 DEF OpenTemp
    <3>2. ~IsDocument(Empty)
      BY DEF IsDocument, Empty
    <3> QED BY <3>1, <3>2 DEF Types, IsMap, IsDocument
  <2> QED BY <1>1, <2>1, <2>3, <2>4, IndexFrame
<1>7. ASSUME WriteTemp(p) PROVE IndexInv'
  <2>1. UNCHANGED <<last, existing>> /\ pc[p] = <<"index", "write">>
    BY <1>7 DEF WriteTemp
  <2>2. pc'[p] \in {<<"index", "replace">>, <<"index", "unlink">>}
    BY <1>3, <1>7 DEF WriteTemp, Goto
  <2>3. pc'[p] \notin Looking
    BY <2>2 DEF Looking
  <2>4. \A d \in Dirs : Mentions(d, NewIndex(p)[d])
    <3>1. pc[p] \in Looking /\ pc[p] \in Making
      BY <2>1 DEF Looking, Making
    <3>2. Mentions(Dir(scan[p]), last[p]) /\ \A d \in Dirs : Mentions(d, existing[p][d])
      BY <3>1 DEF IndexInv, Found
    <3>3. \A d \in Dirs : NewIndex(p)[d] = IF d = Dir(scan[p]) THEN last[p] ELSE existing[p][d]
      BY DEF NewIndex, Types
    <3> QED BY <3>2, <3>3
  <2>5. \A n \in Scans : \/ content'[n] \in {Garbled, Document(NewIndex(p))}
                         \/ content'[n] = content[n]
    <3>1. \/ UNCHANGED content
          \/ \E c \in {Document(NewIndex(p)), Garbled} : content' = [content EXCEPT ![fd[p]] = c]
      BY <1>7 DEF WriteTemp
    <3> QED BY <3>1 DEF Types, IsMap
  <2>6. ASSUME NEW n \in Scans, content'[n] = Document(NewIndex(p)) PROVE Written(n)'
    <3>1. content'[n].devices = NewIndex(p)
      BY <2>6 DEF Document
    <3> QED BY <1>2, <2>4, <3>1 DEF Written, Mentions
  <2>7. \A n \in Scans : content'[n] = Garbled => ~IsDocument(content[n])'
    BY DEF IsDocument, Garbled
  <2> QED BY <1>1, <2>1, <2>3, <2>5, <2>6, <2>7, IndexFrame
<1>8. ASSUME Replace(p) \/ Unlink(p) PROVE IndexInv'
  <2>1. UNCHANGED <<last, existing, content>>
    BY <1>8 DEF Replace, Unlink
  <2>2. pc'[p] \in {<<"csv", "create">>, <<"index", "unlink">>}
    BY <1>3, <1>8 DEF Replace, Unlink, Goto
  <2>3. pc'[p] \notin Looking
    BY <2>2 DEF Looking
  <2> QED BY <1>1, <2>1, <2>3, IndexFrame
<1> QED BY <1>4, <1>5, <1>6, <1>7, <1>8 DEF RefreshIndex

\* The index that can be read never speaks of a report that is not there, for
\* any number of processes saving at once, and whatever fails, is killed or is
\* done to the index: what it names was saved, and stays.
THEOREM IndexIsNeverFalse == Spec => []IndexMentionsReports
<1>1. Init => IdsInv /\ IndexInv
  <2> SUFFICES ASSUME Init PROVE IdsInv /\ IndexInv
    OBVIOUS
  <2>1. IdsInv
    BY StoreAssumption DEF Init, IdsInv
  <2>2. \A p \in Procs : Found(p)
    BY DEF Init, Found, Looking, Making, Idle
  <2>3. \A n \in Scans : Written(n)
    BY DEF Init, Written, IsDocument, Garbled
  <2> QED BY <2>1, <2>2, <2>3 DEF IndexInv
<1>2. Inv /\ IdsInv /\ IndexInv /\ [Next]_vars => IdsInv' /\ IndexInv'
  BY IdsStep, IndexOutside, IndexInside DEF Inv, Next
<1>3. Inv /\ IndexInv => IndexMentionsReports
  <2> SUFFICES ASSUME Inv, IndexInv, Readable, NEW d \in Dirs
               PROVE  LET e == content[index].devices[d]
                      IN  /\ e.scan # NoScan => <<e.scan, "json">> \in saved /\ Dir(e.scan) = d
                          /\ e.count <= Cardinality(ReportsIn(d))
    BY DEF IndexMentionsReports
  <2> DEFINE e == content[index].devices[d]
  <2>1. Mentions(d, e)
    BY DEF Readable, Inv, Types, IndexInv, Written
  <2>2. ASSUME NEW s \in ReportsIn(d) PROVE <<s, "json">> \in saved /\ Dir(s) = d
    <3>1. s \in Scans /\ "json" \in Formats
      BY StoreAssumption DEF ReportsIn, Inv, Types, Scans, Formats
    <3> QED BY <3>1 DEF ReportsIn, Inv, WriterInv
  <2> QED BY <2>1, <2>2 DEF Mentions
<1> QED BY <1>1, <1>2, <1>3, Invariance, PTL DEF Spec

-----------------------------------------------------------------------------
(***************************************************************************)
(* The types: what is found in a directory is an entry, and entries are    *)
(* all that is put in an index.                                            *)
(***************************************************************************)
Contents == [state : {"empty", "garbled", "document"}, devices : Index]

ContentsInv ==
  /\ last \in [Procs -> Entries] /\ existing \in [Procs -> Index]
  /\ content \in [Scans -> Contents]
  /\ stamp \in [Scans -> 0..MaxClock] /\ clock \in 0..MaxClock /\ overlapped \in BOOLEAN

LEMMA NoIndexTypes ==
  /\ NoEntry \in Entries /\ NoIndex \in Index
  /\ Empty \in Contents /\ Garbled \in Contents
  /\ \A ix \in Index : Document(ix) \in Contents
<1>1. NoEntry \in Entries
  BY StoreAssumption DEF NoEntry, Entries
<1>2. NoIndex \in Index
  BY <1>1 DEF NoIndex, Index
<1> QED BY <1>1, <1>2 DEF Empty, Garbled, Document, Contents

LEMMA LastScanTypes ==
  ASSUME Types, TimeInv, IdsInv, NEW d
  PROVE  LastScan(d) \in Entries
<1> DEFINE T == ReportsIn(d)
<1>1. scans \in Nat /\ MaxScans \in Nat /\ T \subseteq Scans
  BY StoreAssumption DEF Types, ReportsIn, Scans
<1>2. IsFiniteSet(Scans) /\ Cardinality(Scans) = MaxScans
  <2>1. 1..MaxScans # {} \/ MaxScans = 0
    BY <1>1
  <2> QED BY <1>1, <2>1, FS_Interval, FS_EmptySet DEF Scans
<1>3. Cardinality(T) \in 0..MaxScans
  BY <1>1, <1>2, FS_Subset, FS_CardinalityType
<1>4. LastScan(d).scan \in {NoScan} \cup T
  BY LastScanMentions DEF Mentions
<1>5. LastScan(d) = [scan |-> LastScan(d).scan, count |-> Cardinality(T)]
  BY DEF LastScan
<1> QED BY <1>1, <1>3, <1>4, <1>5 DEF Entries

LEMMA ContentsStep ==
  ASSUME Types, WriterInv, TimeInv, IdsInv, ContentsInv, [Next]_vars
  PROVE  ContentsInv'
<1> USE StoreAssumption
<1>1. clock' \in 0..MaxClock
  <2>1. clock' = clock \/ (clock < MaxClock /\ clock' = clock + 1)
    <3>1. ASSUME NEW p \in Procs, \/ \E i \in Identities : Begin(p, i)
                                  \/ WriteReportFile(p) \/ RefreshIndex(p) \/ Crash(p)
          PROVE  clock' = clock
      BY <3>1 DEF Begin, WriteReportFile, CreateFile, WriteFile, RenameFile, RefreshIndex,
             ListDir, ReadIndex, OpenTemp, WriteTemp, Replace, Unlink, Crash, counts
    <3>2. Damage \/ UNCHANGED vars => clock' = clock
      BY DEF Damage, vars, counts
    <3> QED BY <3>1, <3>2 DEF Next, Tick
  <2>2. clock \in 0..MaxClock
    BY DEF ContentsInv
  <2> QED BY <2>1, <2>2
<1>2. overlapped' \in BOOLEAN
  <2>1. ASSUME NEW p \in Procs, NEW i \in Identities, Begin(p, i) PROVE overlapped' \in BOOLEAN
    BY <2>1, Zenon DEF Begin, ContentsInv
  <2>2. ASSUME NEW p \in Procs, WriteReportFile(p) \/ RefreshIndex(p) \/ Crash(p)
        PROVE  overlapped' = overlapped
    BY <2>2 DEF WriteReportFile, CreateFile, WriteFile, RenameFile, RefreshIndex, ListDir,
           ReadIndex, OpenTemp, WriteTemp, Replace, Unlink, Crash, counts
  <2>3. Tick \/ Damage \/ UNCHANGED vars => overlapped' = overlapped
    BY DEF Tick, Damage, vars, counts
  <2> QED BY <2>1, <2>2, <2>3 DEF Next, ContentsInv
<1>3. stamp' \in [Scans -> 0..MaxClock]
  <2>1. ASSUME NEW p \in Procs, NEW i \in Identities, Begin(p, i)
        PROVE  stamp' = [stamp EXCEPT ![scans'] = clock]
    BY <2>1 DEF Begin
  <2>2. ASSUME NEW p \in Procs, WriteReportFile(p) \/ RefreshIndex(p) \/ Crash(p)
        PROVE  stamp' = stamp
    BY <2>2 DEF WriteReportFile, CreateFile, WriteFile, RenameFile, RefreshIndex, ListDir,
           ReadIndex, OpenTemp, WriteTemp, Replace, Unlink, Crash, naming
  <2>3. Tick \/ Damage \/ UNCHANGED vars => stamp' = stamp
    BY DEF Tick, Damage, vars, naming
  <2> QED BY <2>1, <2>2, <2>3 DEF Next, ContentsInv
<1>4. last' \in [Procs -> Entries]
  <2>1. ASSUME NEW p \in Procs, ListDir(p) PROVE last' \in [Procs -> Entries]
    <3>1. last' = last \/ last' = [last EXCEPT ![p] = LastScan(Dir(scan[p]))]
      BY <2>1 DEF ListDir
    <3> QED BY <3>1, LastScanTypes DEF ContentsInv
  <2>2. ASSUME NEW p \in Procs, ~ListDir(p), WriteReportFile(p) \/ RefreshIndex(p) \/ Crash(p)
        PROVE  last' = last
    BY <2>2 DEF WriteReportFile, CreateFile, WriteFile, RenameFile, RefreshIndex,
           ReadIndex, OpenTemp, WriteTemp, Replace, Unlink, Crash
  <2>3. ASSUME \/ Tick \/ Damage \/ UNCHANGED vars
               \/ \E p \in Procs, i \in Identities : Begin(p, i)
        PROVE  last' = last
    BY <2>3 DEF Tick, Damage, Begin, vars, local
  <2> QED BY <2>1, <2>2, <2>3 DEF Next, ContentsInv
<1>5. existing' \in [Procs -> Index]
  <2>1. ASSUME NEW p \in Procs, ReadIndex(p) PROVE existing' \in [Procs -> Index]
    <3>1. \/ Readable /\ existing' = [existing EXCEPT ![p] = content[index].devices]
          \/ existing' = [existing EXCEPT ![p] = NoIndex]
      BY <2>1 DEF ReadIndex
    <3>2. Readable => content[index].devices \in Index
      BY DEF Readable, Types, ContentsInv, Contents
    <3> QED BY <3>1, <3>2, NoIndexTypes DEF ContentsInv
  <2>2. ASSUME NEW p \in Procs, ~ReadIndex(p), WriteReportFile(p) \/ RefreshIndex(p) \/ Crash(p)
        PROVE  existing' = existing
    BY <2>2 DEF WriteReportFile, CreateFile, WriteFile, RenameFile, RefreshIndex,
           ListDir, OpenTemp, WriteTemp, Replace, Unlink, Crash
  <2>3. ASSUME \/ Tick \/ Damage \/ UNCHANGED vars
               \/ \E p \in Procs, i \in Identities : Begin(p, i)
        PROVE  existing' = existing
    BY <2>3 DEF Tick, Damage, Begin, vars, local
  <2> QED BY <2>1, <2>2, <2>3 DEF Next, ContentsInv
<1>6. content' \in [Scans -> Contents]
  <2>1. ASSUME NEW p \in Procs, OpenTemp(p) PROVE content' \in [Scans -> Contents]
    <3>1. content' = content \/ content' = [content EXCEPT ![tmp'] = Empty]
      BY <2>1 DEF OpenTemp
    <3> QED BY <3>1, NoIndexTypes DEF ContentsInv
  <2>2. ASSUME NEW p \in Procs, WriteTemp(p) PROVE content' \in [Scans -> Contents]
    <3>1. \/ content' = content
          \/ content' = [content EXCEPT ![fd[p]] = Document(NewIndex(p))]
          \/ content' = [content EXCEPT ![fd[p]] = Garbled]
      BY <2>2 DEF WriteTemp
    <3>2. NewIndex(p) \in Index
      BY DEF NewIndex, ContentsInv, Index
    <3> QED BY <3>1, <3>2, NoIndexTypes DEF ContentsInv
  <2>3. ASSUME NEW p \in Procs, ~OpenTemp(p), ~WriteTemp(p),
               WriteReportFile(p) \/ RefreshIndex(p) \/ Crash(p)
        PROVE  content' = content
    BY <2>3 DEF WriteReportFile, CreateFile, WriteFile, RenameFile, RefreshIndex,
           ListDir, ReadIndex, Replace, Unlink, Crash, cache
  <2>4. ASSUME \/ Tick \/ UNCHANGED vars
               \/ \E p \in Procs, i \in Identities : Begin(p, i)
        PROVE  content' = content
    BY <2>4 DEF Tick, Begin, vars, cache
  <2>5. ASSUME Damage PROVE content' \in [Scans -> Contents]
    <3>1. content' = content \/ content' = [content EXCEPT ![index] = Garbled]
      BY <2>5 DEF Damage
    <3> QED BY <3>1, NoIndexTypes DEF ContentsInv
  <2> QED BY <2>1, <2>2, <2>3, <2>4, <2>5 DEF Next, ContentsInv
<1> QED BY <1>1, <1>2, <1>3, <1>4, <1>5, <1>6 DEF ContentsInv

\* The processes, the files and the names of reports stay in their types, for
\* any number of processes and whatever fails: an index never holds more than
\* one entry a device, of a scan there was.
THEOREM TypeCorrect == Spec => []TypeOK
<1>1. Init => IdsInv /\ ContentsInv
  <2> SUFFICES ASSUME Init PROVE IdsInv /\ ContentsInv
    OBVIOUS
  <2>1. IdsInv
    BY StoreAssumption DEF Init, IdsInv
  <2>2. stamp \in [Scans -> 0..MaxClock] /\ clock \in 0..MaxClock /\ overlapped \in BOOLEAN
    <3>1. overlapped \in BOOLEAN
      BY Zenon DEF Init
    <3>2. stamp = [s \in Scans |-> 0] /\ clock = 0 /\ 0 \in 0..MaxClock
      BY StoreAssumption DEF Init
    <3> QED BY <3>1, <3>2
  <2>3. last \in [Procs -> Entries] /\ existing \in [Procs -> Index]
        /\ content \in [Scans -> Contents]
    BY NoIndexTypes DEF Init
  <2> QED BY <2>1, <2>2, <2>3 DEF ContentsInv
<1>2. Inv /\ IdsInv /\ ContentsInv /\ [Next]_vars => IdsInv' /\ ContentsInv'
  BY IdsStep, ContentsStep DEF Inv
<1>3. Inv /\ IdsInv /\ ContentsInv => TypeOK
  BY DEF Inv, Types, WriterInv, NamesInv, IdsInv, ContentsInv, Contents, TypeOK
<1> QED BY <1>1, <1>2, <1>3, Invariance, PTL DEF Spec
=============================================================================
