---------------------------- MODULE VerdictProofs ----------------------------
(***************************************************************************)
(* A scan and its verdict, for every volume, every set of detectors, every *)
(* drive and any number of unplugs, in three parts: what the internal-drive*)
(* location policy cannot do to a file, what Scanner promises of a scan,   *)
(* and, from both, what the verdict that is drawn from its report is worth.*)
(***************************************************************************)
EXTENDS Verdict, FiniteSetTheorems, SequenceTheorems, TLAPS

-----------------------------------------------------------------------------
(* FileRules.  What the location policy cannot do to a file, whatever its  *)
(* path, its name and its content: the promises of ARCHITECTURE.md 24.     *)

Detectors == {"suspicious_filename", "lnk_inspection", "hash_match_example"}

\* Every match of the strict rules is reported by the tuned ones too, perhaps
\* at another severity, or counted as suppressed ("every suppression is counted
\* and reported"); and the tuned rules report nothing the strict ones do not.
THEOREM SuppressionsAreCounted ==
  ASSUME NEW f, NEW d \in Detectors, NEW how
  PROVE  Report(d, f, FALSE, how) = {} <=> Report(d, f, TRUE, how) = {}
<1>1. NameReport(f, FALSE) = {} <=> NameReport(f, TRUE) = {}
  BY DEF NameReport
<1>2. \A c : LnkSeverity(c, LnkPolicy(f, FALSE)) = {} <=> LnkSeverity(c, LnkPolicy(f, TRUE)) = {}
  BY DEF LnkSeverity, LnkPolicy
<1>3. LnkReport(f, FALSE, how) = {} <=> LnkReport(f, TRUE, how) = {}
  <2> DEFINE said(tuned) == {LnkSeverity(c, LnkPolicy(f, tuned)) : c \in LnkSees(f, how)}
  <2>1. \A tuned : UNION said(tuned) = {} <=>
                     \A c \in LnkSees(f, how) : LnkSeverity(c, LnkPolicy(f, tuned)) = {}
    OBVIOUS
  <2> QED BY <1>2, <2>1 DEF LnkReport
<1> QED BY <1>1, <1>3 DEF Report, Detectors

\* Where users open files the policy changes nothing: "it outranks every tuned
\* kind", so neither a Startup folder inside the Start Menu nor a node_modules
\* folder inside Downloads is weighed down.
THEOREM ExposedIsStrict ==
  ASSUME NEW f, NEW d \in Detectors, NEW how,
         UserExposed(f.path), ~SelfTestFixtures(f.path)
  PROVE  Report(d, f, TRUE, how) = Report(d, f, FALSE, how)
<1>1. Classify(f.path) = "user-exposed"
  BY DEF Classify
<1>2. LnkPolicy(f, TRUE) = LnkPolicy(f, FALSE)
  BY <1>1 DEF LnkPolicy
<1>3. NameReport(f, TRUE) = NameReport(f, FALSE)
  BY <1>1 DEF NameReport, Weigh
<1> QED BY <1>2, <1>3 DEF Report, Detectors, LnkReport

\* A disguise with no benign producer, and a known hash, is high everywhere; so
\* is a shortcut of the attack shape everywhere but in the component store.
THEOREM AttacksStayHigh ==
  ASSUME NEW f, NEW tuned \in BOOLEAN
  PROVE  /\ HighRule(f) =>
              \A how : Report("suspicious_filename", f, tuned, how) = {"high"}
         /\ "listed" \in f.traits =>
              Report("hash_match_example", f, tuned, "whole") = {"high"}
         /\ /\ Last(f) = "lnk" /\ f.content = "attack"
            /\ tuned => Classify(f.path) # "component store"
            => Report("lnk_inspection", f, tuned, "whole") = {"high"}
<1>1. HighRule(f) => \A how : Report("suspicious_filename", f, tuned, how) = {"high"}
  BY DEF Report, NameReport
<1>2. "listed" \in f.traits => Report("hash_match_example", f, tuned, "whole") = {"high"}
  BY DEF Report, HashReport
<1>3. ASSUME Last(f) = "lnk", f.content = "attack",
             tuned => Classify(f.path) # "component store"
      PROVE  Report("lnk_inspection", f, tuned, "whole") = {"high"}
  <2>1. LnkSees(f, "whole") = {"attack"}
    BY <1>3 DEF LnkSees
  <2>2. LnkPolicy(f, tuned) # "suppress all"
    BY <1>3 DEF LnkPolicy
  <2>3. LnkSeverity("attack", LnkPolicy(f, tuned)) = {"high"}
    BY <2>2 DEF LnkSeverity
  <2>4. LnkReport(f, tuned, "whole") = {"high"}
    BY <1>3, <2>1, <2>3 DEF LnkReport
  <2> QED BY <2>4 DEF Report
<1> QED BY <1>1, <1>2, <1>3

-----------------------------------------------------------------------------
(* Scanner.  Type correctness comes first; the other invariants are proved *)
(* relative to it.                                                         *)

\* Consuming an entry changes what the innermost frame still has to list.
LEMMA ConsumeType ==
  ASSUME frames \in Seq(Frame), frames # <<>>, NEW e
  PROVE  /\ Consume(e) \in Seq(Frame)
         /\ Len(Consume(e)) = Len(frames)
         /\ \A i \in 1..Len(frames) :
              /\ Consume(e)[i].dir = frames[i].dir
              /\ Consume(e)[i].epoch = frames[i].epoch
              /\ Consume(e)[i].left = IF i = Len(frames)
                                        THEN frames[i].left \ {e}
                                        ELSE frames[i].left
<1> DEFINE n == Len(frames)
           g == [frames[n] EXCEPT !.left = frames[n].left \ {e}]
<1>1. n \in Nat \ {0} /\ n \in 1..n
  BY EmptySeq
<1>2. \A i \in 1..n : frames[i] \in Frame
  BY ElementOfSeq
<1>3. /\ g \in Frame /\ g.dir = frames[n].dir /\ g.epoch = frames[n].epoch
      /\ g.left = frames[n].left \ {e}
  BY <1>1, <1>2 DEF Frame
<1>4. Consume(e) = [frames EXCEPT ![n] = g]
  BY DEF Consume
<1> HIDE DEF g
<1>5. /\ Consume(e) \in Seq(Frame)
      /\ Len(Consume(e)) = n
      /\ \A i \in 1..n : Consume(e)[i] = IF i = n THEN g ELSE frames[i]
  BY <1>1, <1>3, <1>4, ExceptSeq
<1> QED BY <1>3, <1>5

LEMMA PopType ==
  ASSUME frames \in Seq(Frame), frames # <<>>
  PROVE  /\ Pop \in Seq(Frame)
         /\ Len(Pop) = Len(frames) - 1
         /\ \A i \in 1..Len(Pop) : Pop[i] = frames[i]
<1> DEFINE n == Len(frames) - 1
<1>1. Len(frames) \in Nat \ {0}
  BY EmptySeq
<1>2. \A i \in 1..n : frames[i] \in Frame
  BY <1>1, ElementOfSeq
<1>3. 1 \in Int /\ n \in Int
  BY <1>1
<1> HIDE DEF n
<1>4. /\ SubSeq(frames, 1, n) \in Seq(Frame)
      /\ Len(SubSeq(frames, 1, n)) = IF 1 <= n THEN n - 1 + 1 ELSE 0
      /\ \A i \in 1 .. n - 1 + 1 : SubSeq(frames, 1, n)[i] = frames[1 + i - 1]
  BY <1>2, <1>3, SubSeqProperties
<1>5. Pop = SubSeq(frames, 1, n)
  BY DEF Pop, n
<1>6. n \in Nat
  BY <1>1 DEF n
<1>7. Len(Pop) = n /\ \A i \in 1..n : Pop[i] = frames[i]
  BY <1>4, <1>5, <1>6
<1> QED BY <1>4, <1>5, <1>7 DEF n


\* The check list only ever gains results of the registered checks.
LEMMA PushKeepsType ==
  ASSUME NEW R, NEW f, NEW g,
         f \in [DOMAIN f -> R], g \in [DOMAIN g -> R],
         DOMAIN f \subseteq CheckIds, DOMAIN g \subseteq CheckIds
  PROVE  /\ DOMAIN Push(f, g) \subseteq CheckIds
         /\ Push(f, g) \in [DOMAIN Push(f, g) -> R]
BY DEF Push

CheckResult == [status : {"ran", "skipped", "failed"}, findings : SUBSET Findings]

\* What the detectors may be given: used by the two finishing steps.
LEMMA FindingsType ==
  /\ AutorunResults \subseteq CheckResult
  /\ Result("skipped", {}) \in CheckResult
  /\ Result("ran", {}) \in CheckResult
  /\ Result("failed", {}) \in CheckResult
  /\ \A F \in SUBSET Findings : Result("ran", F) \in CheckResult
<1>1. \A F \in SUBSET Findings :
        /\ Result("ran", F) \in CheckResult
        /\ Result("failed", F) \in CheckResult
        /\ Result("skipped", F) \in CheckResult
  BY DEF Result, CheckResult
<1>2. {} \in SUBSET Findings /\ AutorunFindings \in SUBSET Findings
  BY DetectorAssumption
<1> QED BY <1>1, <1>2 DEF AutorunResults

\* TypeOK together with where a listing may be asked for: dir_next is only
\* called with an open directory, and the slots with a file.
TypeInv ==
  /\ TypeOK
  /\ pc = "next" => frames # <<>>
  /\ pc = "inspect" => file \in Files

\* What the world does leaves the scan's own variables in their types.
LEMMA WorldFrame ==
  ASSUME TypeInv, UNCHANGED <<pc, walk, report>>,
         plugged' \in BOOLEAN, epoch' \in Nat, cancelAsk' \in BOOLEAN
  PROVE  TypeInv'
<1>1. /\ pc' = pc /\ target' = target /\ frames' = frames /\ file' = file
      /\ walkStatus' = walkStatus /\ cancelled' = cancelled
      /\ removed' = removed /\ fileCount' = fileCount /\ skipped' = skipped
      /\ excluded' = excluded /\ slots' = slots /\ checks' = checks
      /\ status' = status /\ seen' = seen /\ opened' = opened
      /\ tooDeep' = tooDeep /\ rootRefused' = rootRefused /\ late' = late
  BY DEF walk, report
<1>2. TypeOK'
  BY <1>1 DEF TypeInv, TypeOK
<1> QED BY <1>1, <1>2 DEF TypeInv

\* TypeInv is inductive.
LEMMA TypeInvariant == Spec => []TypeInv
<1>1. Init => TypeInv
  <2> SUFFICES ASSUME Init PROVE TypeInv
    OBVIOUS
  <2>1. frames \in Seq(Frame)
    BY EmptySeq DEF Init
  <2> QED BY <2>1, TreeAssumption DEF Init, TypeInv, TypeOK
<1>2. TypeInv /\ [Next]_vars => TypeInv'
  <2> SUFFICES ASSUME TypeInv, [Next]_vars PROVE TypeInv'
    OBVIOUS
  <2> USE TreeAssumption, DetectorAssumption
  <2>1. CASE World
    <3>1. CASE Unplug
      <4>1. epoch \in Nat /\ epoch' = epoch + 1
        BY <3>1 DEF TypeInv, TypeOK, Unplug
      <4>2. epoch' \in Nat
        BY <4>1
      <4>3. plugged' \in BOOLEAN /\ cancelAsk' \in BOOLEAN
            /\ UNCHANGED <<pc, walk, report>>
        BY <3>1 DEF TypeInv, TypeOK, Unplug
      <4> QED BY <4>2, <4>3, WorldFrame
    <3>2. CASE Replug
      BY <3>2, WorldFrame DEF TypeInv, TypeOK, Replug
    <3>3. CASE AskCancel
      BY <3>3, WorldFrame DEF TypeInv, TypeOK, AskCancel
    <3> QED BY <2>1, <3>1, <3>2, <3>3 DEF World
  <2>2. CASE Begin
    BY <2>2 DEF TypeInv, TypeOK, Begin, world, report
  <2>3. CASE EnterTooDeep \/ WalkReturns
    BY <2>3 DEF TypeInv, TypeOK, EnterTooDeep, WalkReturns, world, walk, report
  <2>13. CASE CheckCancel
    BY <2>13 DEF TypeInv, TypeOK, CheckCancel, world, report
  <2>14. CASE ProbeReachable \/ ProbeUnreachable
    <3>1. skipped' \in Nat
      BY <2>14 DEF TypeInv, TypeOK, ProbeReachable, ProbeUnreachable
    <3> QED BY <2>14, <3>1 DEF TypeInv, TypeOK, ProbeReachable, ProbeUnreachable,
                               world, report
  <2>4. CASE EnterOpens
    <3> DEFINE fr == [dir |-> target, left |-> Children[target], epoch |-> epoch]
    <3>1. fr \in Frame
      BY DEF TypeInv, TypeOK, Frame
    <3>2. frames' \in Seq(Frame)
      BY <2>4, <3>1 DEF TypeInv, TypeOK, EnterOpens
    <3> QED BY <2>4, <3>2 DEF TypeInv, TypeOK, EnterOpens, world, report
  <2>5. CASE EnterFails
    BY <2>5 DEF TypeInv, TypeOK, EnterFails, world, report
  <2>6. CASE Unwind
    BY <2>6, EmptySeq DEF TypeInv, TypeOK, Unwind, world, report
  <2>7. CASE NextEnds \/ NextFails
    <3>1. frames' \in Seq(Frame)
      BY <2>7, PopType DEF TypeInv, TypeOK, NextEnds, NextFails
    <3> QED BY <2>7, <3>1 DEF TypeInv, TypeOK, NextEnds, NextFails, world, report
  <2>8. CASE NextPassesOver \/ NextExcludes \/ NextDescends \/ NextFile
    <3>1. pc = "next" /\ frames # <<>> /\ frames \in Seq(Frame)
      BY <2>8 DEF TypeInv, TypeOK, NextPassesOver, NextExcludes, NextDescends,
                  NextFile, Fetch
    <3>2. frames' \in Seq(Frame) /\ late' \in Nat
      BY <2>8, <3>1, ConsumeType
      DEF TypeInv, TypeOK, NextPassesOver, NextExcludes, NextDescends, NextFile,
          Fetch
    <3>3. CASE NextPassesOver \/ NextExcludes \/ NextDescends
      BY <3>2, <3>3 DEF TypeInv, TypeOK, NextPassesOver, NextExcludes,
                        NextDescends, world, report
    <3>4. CASE NextFile
      <4>1. file' \in Files
        BY <3>4 DEF NextFile
      <4> QED BY <3>2, <3>4, <4>1 DEF TypeInv, TypeOK, NextFile, world, report
    <3> QED BY <2>8, <3>3, <3>4
  <2>15. CASE Inspect
    <3>1. PICK how \in [DOMAIN slots -> Reading] :
            slots' = [d \in DOMAIN slots |->
                        slots[d] \cup ({file} \X Says(d, file, how[d]))]
      BY <2>15 DEF Inspect
    <3>2. Reading \subseteq Ways
      BY DEF Reading, Ways
    <3>3. \A d \in DOMAIN slots :
            {file} \X Says(d, file, how[d]) \subseteq Findings
      <4> SUFFICES ASSUME NEW d \in DOMAIN slots
                   PROVE  {file} \X Says(d, file, how[d]) \subseteq Findings
        OBVIOUS
      <4>1. file \in Files /\ d \in FileDetectors /\ how[d] \in Ways
        BY <2>15, <3>2 DEF Inspect, TypeInv, TypeOK
      <4>2. Says(d, file, how[d]) \subseteq Severities
        BY <4>1
      <4> QED BY <4>1, <4>2 DEF Findings
    <3>4. \A d \in DOMAIN slots : slots[d] \subseteq Findings
      BY DEF TypeInv, TypeOK
    <3>5. slots' \in [DOMAIN slots -> SUBSET Findings] /\ DOMAIN slots' = DOMAIN slots
      BY <3>1, <3>3, <3>4
    <3> QED BY <2>15, <3>5 DEF TypeInv, TypeOK, Inspect, world, report
  <2>9. CASE FinishIncomplete
    <3> DEFINE f == Record("file_traversal",
                      Result(IF walkStatus # "OK" THEN "failed" ELSE "ran", {}))
               g == [d \in WholeDetectors \cup DOMAIN slots |->
                       Result("skipped", {})]
    <3>1. /\ f \in [DOMAIN f -> CheckResult] /\ DOMAIN f \subseteq CheckIds
          /\ g \in [DOMAIN g -> CheckResult] /\ DOMAIN g \subseteq CheckIds
      BY FindingsType DEF Record, CheckIds, TypeInv, TypeOK
    <3>2. checks' = Push(f, g)
      BY <2>9 DEF FinishIncomplete
    <3> HIDE DEF f, g
    <3>3. /\ DOMAIN Push(f, g) \subseteq CheckIds
          /\ Push(f, g) \in [DOMAIN Push(f, g) -> CheckResult]
      BY <3>1, PushKeepsType
    <3>4. /\ DOMAIN checks' \subseteq CheckIds
          /\ checks' \in [DOMAIN checks' -> CheckResult]
      BY <3>2, <3>3
    <3> QED BY <2>9, <3>4 DEF FinishIncomplete, TypeInv, TypeOK, CheckResult,
                              world, walk
  <2>10. CASE FinishComplete
    <3>1. /\ DOMAIN checks' \subseteq CheckIds
          /\ checks' \in [DOMAIN checks' -> CheckResult]
      BY <2>10, FindingsType DEF FinishComplete, Record, CheckIds
    <3> QED BY <2>10, <3>1 DEF FinishComplete, TypeInv, TypeOK, CheckResult,
                               world, walk
  <2>11. CASE RunWholeDetectors
    <3>1. PICK results \in [WholeDetectors -> AutorunResults] :
            checks' = Push(Push(checks, results),
                           [d \in DOMAIN slots |-> Result("ran", slots[d])])
      BY <2>11 DEF RunWholeDetectors
    <3> DEFINE g == [d \in DOMAIN slots |-> Result("ran", slots[d])]
    <3>2. /\ checks \in [DOMAIN checks -> CheckResult]
          /\ DOMAIN checks \subseteq CheckIds
          /\ results \in [DOMAIN results -> CheckResult]
          /\ DOMAIN results \subseteq CheckIds
      BY FindingsType DEF TypeInv, TypeOK, CheckResult, CheckIds
    <3>3. g \in [DOMAIN g -> CheckResult] /\ DOMAIN g \subseteq CheckIds
      BY FindingsType DEF TypeInv, TypeOK, CheckIds
    <3>4. checks' = Push(Push(checks, results), g)
      BY <3>1
    <3> DEFINE h == Push(checks, results)
    <3> HIDE DEF g
    <3>5. DOMAIN h \subseteq CheckIds /\ h \in [DOMAIN h -> CheckResult]
      BY <3>2, PushKeepsType
    <3> HIDE DEF h
    <3>6. /\ DOMAIN Push(h, g) \subseteq CheckIds
          /\ Push(h, g) \in [DOMAIN Push(h, g) -> CheckResult]
      BY <3>3, <3>5, PushKeepsType
    <3>7. /\ DOMAIN checks' \subseteq CheckIds
          /\ checks' \in [DOMAIN checks' -> CheckResult]
      BY <3>4, <3>6 DEF h
    <3> QED BY <2>11, <3>7 DEF RunWholeDetectors, TypeInv, TypeOK, CheckResult,
                               world, walk
  <2>12. CASE UNCHANGED vars
    BY <2>12 DEF TypeInv, TypeOK, vars
  <2> QED
    BY <2>1, <2>2, <2>3, <2>4, <2>5, <2>6, <2>7, <2>8, <2>9, <2>10, <2>11, <2>12,
       <2>13, <2>14, <2>15
    DEF Next, Scan, Walk
<1> QED BY <1>1, <1>2, PTL DEF Spec

\* The state of usbs_scanner_scan stays in its types, whatever the volume.
THEOREM TypeCorrect == Spec => []TypeOK
<1>1. TypeInv => TypeOK
  BY DEF TypeInv
<1> QED BY <1>1, TypeInvariant, PTL

-----------------------------------------------------------------------------
(***************************************************************************)
(* Aborted scans.                                                          *)
(***************************************************************************)

\* What the three reasons for an incomplete scan say about the world.
AbortInv ==
  /\ ~plugged => epoch > 0
  /\ cancelled => cancelAsk
  /\ removed => epoch > 0 \/ rootRefused
  /\ walkStatus # "OK" =>
       /\ epoch > 0 \/ rootRefused
       /\ opened = {} /\ pc \in {"finish", "done"}
  /\ pc = "enter" /\ frames = <<>> => opened = {}
  /\ pc = "begin" => opened = {} /\ frames = <<>>
  /\ status = "ABORTED" =>
       /\ Incomplete /\ pc = "done"
       /\ checks["file_traversal"].status = "failed" => walkStatus # "OK"

\* Only a cancel, a removal or a root that does not open ends a scan as aborted,
\* and the traversal has failed only if the root never opened: whatever else a
\* live volume refuses, its scan goes on.
THEOREM AbortsAreJustified == Spec => []AbortIsJustified
<1>1. Init => AbortInv
  BY DEF Init, AbortInv, Incomplete
<1>2. TypeInv /\ AbortInv /\ [Next]_vars => AbortInv'
  <2> SUFFICES ASSUME TypeInv, AbortInv, [Next]_vars PROVE AbortInv'
    OBVIOUS
  <2> USE DEF AbortInv, Incomplete
  <2>1. CASE World
    <3>1. epoch \in Nat
      BY DEF TypeInv, TypeOK
    <3> QED BY <2>1, <3>1 DEF World, Unplug, Replug, AskCancel, walk, report
  <2>2. CASE Begin \/ EnterTooDeep \/ WalkReturns \/ CheckCancel
    BY <2>2 DEF Begin, EnterTooDeep, WalkReturns, CheckCancel, world, walk, report
  <2>3. CASE EnterOpens
    BY <2>3 DEF EnterOpens, world, report
  <2>4. CASE EnterFails
    BY <2>4 DEF EnterFails, Statuses, TypeInv, TypeOK, world, report
  <2>5. CASE ProbeReachable \/ Unwind \/ NextEnds \/ NextFails
    BY <2>5 DEF ProbeReachable, Unwind, NextEnds, NextFails, world, report
  <2>11. CASE ProbeUnreachable
    <3>1. epoch > 0 \/ rootRefused'
      BY <2>11 DEF ProbeUnreachable
    <3> QED BY <2>11, <3>1 DEF ProbeUnreachable, world, report
  <2>6. CASE NextPassesOver \/ NextExcludes \/ NextFile \/ Inspect
    BY <2>6 DEF NextPassesOver, NextExcludes, NextFile, Inspect, Fetch, world, report
  <2>7. CASE NextDescends
    <3>1. frames' # <<>>
      <4>1. pc = "next" /\ frames # <<>> /\ frames \in Seq(Frame)
        BY <2>7 DEF TypeInv, TypeOK, NextDescends, Fetch
      <4>2. PICK e : frames' = Consume(e)
        BY <2>7 DEF NextDescends
      <4>3. Len(frames') = Len(frames) /\ frames' \in Seq(Frame)
        BY <4>1, <4>2, ConsumeType
      <4>4. Len(frames) # 0
        BY <4>1, EmptySeq
      <4> QED BY <4>3, <4>4, EmptySeq
    <3> QED BY <2>7, <3>1 DEF NextDescends, Fetch, world, report
  <2>8. CASE FinishIncomplete
    <3>1. "file_traversal" \notin WholeDetectors \cup DOMAIN slots
      BY DetectorAssumption DEF TypeInv, TypeOK
    <3>2. checks'["file_traversal"] =
            Result(IF walkStatus # "OK" THEN "failed" ELSE "ran", {})
      BY <2>8, <3>1 DEF FinishIncomplete, Push, Record
    <3>3. checks'["file_traversal"].status = "failed" => walkStatus # "OK"
      BY <3>2 DEF Result
    <3> QED BY <2>8, <3>3 DEF FinishIncomplete, world, walk
  <2>9. CASE FinishComplete \/ RunWholeDetectors
    BY <2>9 DEF FinishComplete, RunWholeDetectors, world, walk
  <2>10. CASE UNCHANGED vars
    BY <2>10 DEF vars
  <2> QED BY <2>1, <2>2, <2>3, <2>4, <2>5, <2>6, <2>7, <2>8, <2>9, <2>10,
             <2>11
          DEF Next, Scan, Walk
<1>3. AbortInv => AbortIsJustified
  BY DEF AbortInv, AbortIsJustified, Incomplete
<1> QED BY <1>1, <1>2, <1>3, TypeInvariant, PTL DEF Spec

-----------------------------------------------------------------------------
(***************************************************************************)
(* Coverage.  While the walk is under way each entry of an opened directory*)
(* is accounted for, is the directory about to be entered, or is still to  *)
(* be listed by an activation; an entry that is none of these was lost to a*)
(* failure that is counted as skipped, is being classified, or ends the    *)
(* scan.                                                                   *)
(***************************************************************************)

StillListed(d, e) ==
  \E i \in 1..Len(frames) : frames[i].dir = d /\ e \in frames[i].left

Lossy == skipped > 0 \/ Incomplete \/ pc = "probe"

Covered ==
  \A d \in opened : \A e \in Children[d] :
    \/ Accounted(e)
    \/ pc = "enter" /\ e = target
    \/ StillListed(d, e)

CoverInv ==
  /\ Lossy \/ Covered
  /\ \/ Root \in opened
     \/ pc \in {"begin", "enter"} /\ target = Root /\ frames = <<>>
     \/ Incomplete
  /\ pc = "begin" => target = Root /\ frames = <<>>
  /\ pc = "unwind" => cancelled \/ removed
  /\ pc = "probe" => status = "none"
  /\ pc \in {"finish", "whole", "done"} => frames = <<>> \/ Incomplete
  /\ Incomplete => pc \in {"unwind", "finish", "done"}
  /\ status # "none" => pc = "done"
  /\ status = "COMPLETED" => ~Incomplete

\* An entry taken from the innermost listing, and nothing else, leaves it.
LEMMA ConsumeCovers ==
  ASSUME TypeInv, pc = "next", NEW e, frames' = Consume(e),
         NEW d, NEW x, StillListed(d, x), x # e
  PROVE  StillListed(d, x)'
<1>1. frames \in Seq(Frame) /\ frames # <<>>
  BY DEF TypeInv, TypeOK
<1>2. /\ Len(frames') = Len(frames)
      /\ \A i \in 1..Len(frames) :
           /\ frames'[i].dir = frames[i].dir
           /\ frames'[i].left = IF i = Len(frames) THEN frames[i].left \ {e}
                                ELSE frames[i].left
  BY <1>1, ConsumeType
<1> QED BY <1>2 DEF StillListed

\* A step that only hands entry e of the innermost listing over to a place
\* where it is accounted for keeps Covered.
LEMMA ConsumeStep ==
  ASSUME TypeInv, Covered, pc = "next", NEW e, frames' = Consume(e),
         opened' = opened, tooDeep' = tooDeep, seen \subseteq seen',
         Accounted(e)' \/ (pc' = "enter" /\ target' = e)
  PROVE  Covered'
<1> SUFFICES ASSUME NEW d \in opened, NEW x \in Children[d]
             PROVE  \/ Accounted(x)'
                    \/ pc' = "enter" /\ x = target'
                    \/ StillListed(d, x)'
  BY DEF Covered
<1>1. Accounted(x) \/ StillListed(d, x)
  BY DEF Covered
<1>2. CASE x = e
  BY <1>2
<1>3. CASE Accounted(x)
  BY <1>3 DEF Accounted
<1>4. CASE x # e /\ StillListed(d, x)
  BY <1>4, ConsumeCovers
<1> QED BY <1>1, <1>2, <1>3, <1>4

\* Where the platform reports a failed listing as a failure, no scan that
\* completes with nothing skipped has missed a file.
THEOREM NothingLostSilently ==
  ASSUME "NOT_FOUND" \notin DeadStatuses
  PROVE  Spec => []NoSilentLoss
<1>1. Init => CoverInv
  BY DEF Init, CoverInv, Covered, Lossy, Incomplete
<1>2. TypeInv /\ CoverInv /\ [Next]_vars => CoverInv'
  <2> SUFFICES ASSUME TypeInv, CoverInv, [Next]_vars PROVE CoverInv'
    OBVIOUS
  <2>1. CASE World
    <3>1. UNCHANGED <<pc, walk, report>>
      BY <2>1 DEF World, Unplug, Replug, AskCancel
    <3> QED BY <3>1 DEF CoverInv, Covered, Lossy, Incomplete, Accounted,
                        StillListed, walk, report
  <2>2. CASE Begin
    BY <2>2 DEF Begin, CoverInv, Covered, Lossy, Incomplete, Accounted,
                StillListed, world, report
  <2>3. CASE EnterTooDeep
    <3>1. frames # <<>>
      BY <2>3, TreeAssumption DEF EnterTooDeep
    <3> QED BY <2>3, <3>1 DEF EnterTooDeep, CoverInv, Covered, Lossy, Incomplete,
                              Accounted, StillListed, world, report
  <2>4. CASE EnterOpens
    <3> DEFINE fr == [dir |-> target, left |-> Children[target], epoch |-> epoch]
               n == Len(frames)
    <3>1. fr \in Frame /\ frames \in Seq(Frame) /\ n \in Nat
      BY TreeAssumption DEF TypeInv, TypeOK, Frame
    <3>2. /\ Len(frames') = n + 1 /\ frames'[n + 1] = fr
          /\ \A i \in 1..n : frames'[i] = frames[i]
      BY <2>4, <3>1 DEF EnterOpens
    <3> HIDE DEF n
    <3>3. \A d, x : d = target /\ x \in Children[target] => StillListed(d, x)'
      <4>1. n + 1 \in 1..Len(frames') /\ frames'[n + 1].dir = target
            /\ frames'[n + 1].left = Children[target]
        BY <3>1, <3>2
      <4> QED BY <4>1 DEF StillListed
    <3>4. \A d, x : StillListed(d, x) => StillListed(d, x)'
      BY <3>1, <3>2 DEF StillListed, n
    <3>5. Covered => Covered'
      <4> SUFFICES ASSUME Covered, NEW d \in opened', NEW x \in Children[d]
                   PROVE  Accounted(x)' \/ StillListed(d, x)'
        BY DEF Covered
      <4>1. CASE d = target
        BY <4>1, <3>3
      <4>2. CASE d \in opened
        BY <2>4, <3>4, <4>2 DEF Covered, Accounted, EnterOpens
      <4> QED BY <2>4, <4>1, <4>2 DEF EnterOpens
    <3> QED BY <2>4, <3>5 DEF EnterOpens, CoverInv, Lossy, Incomplete, world, report
  <2>5. CASE EnterFails
    BY <2>5 DEF EnterFails, Statuses, CoverInv, Lossy, Incomplete, world, report
  <2>6. CASE ProbeReachable
    <3>1. skipped' > 0
      BY <2>6 DEF ProbeReachable, TypeInv, TypeOK
    <3> QED BY <2>6, <3>1 DEF ProbeReachable, CoverInv, Lossy, Incomplete, world,
                              report
  <2>7. CASE ProbeUnreachable
    BY <2>7 DEF ProbeUnreachable, CoverInv, Lossy, Incomplete, world, report
  <2>8. CASE CheckCancel
    <3>1. Covered => Covered'
      BY <2>8 DEF CheckCancel, Covered, Accounted, StillListed
    <3> QED BY <2>8, <3>1 DEF CheckCancel, CoverInv, Lossy, Incomplete, world,
                              report
  <2>15. CASE WalkReturns
    <3>1. Covered => Covered'
      BY <2>15 DEF WalkReturns, Covered, Accounted, StillListed, walk
    <3> QED BY <2>15, <3>1 DEF WalkReturns, CoverInv, Lossy, Incomplete, world,
                               walk, report
  <2>9. CASE Unwind
    BY <2>9 DEF Unwind, CoverInv, Lossy, Incomplete, world, report
  <2>10. CASE NextEnds
    <3>1. frames \in Seq(Frame) /\ frames # <<>> /\ Top.left = {}
      BY <2>10 DEF NextEnds, TypeInv, TypeOK
    <3>2. /\ Len(frames) \in Nat \ {0} /\ Len(frames') = Len(frames) - 1
          /\ \A i \in 1..Len(frames') : frames'[i] = frames[i]
      BY <2>10, <3>1, PopType, EmptySeq DEF NextEnds
    <3>3. \A d, x : StillListed(d, x) => StillListed(d, x)'
      <4> SUFFICES ASSUME NEW d, NEW x, NEW i \in 1..Len(frames),
                          frames[i].dir = d, x \in frames[i].left
                   PROVE  StillListed(d, x)'
        BY DEF StillListed
      <4>1. i # Len(frames)
        BY <3>1 DEF Top
      <4>2. i \in 1..Len(frames')
        BY <3>2, <4>1
      <4> QED BY <3>2, <4>2 DEF StillListed
    <3> QED BY <2>10, <3>3 DEF NextEnds, CoverInv, Covered, Lossy, Incomplete,
                               Accounted, world, report
  <2>11. CASE NextFails
    BY <2>11 DEF NextFails, CoverInv, Lossy, Incomplete, world, report
  <2>12. CASE NextPassesOver \/ NextExcludes \/ NextDescends \/ NextFile
    <3>1. \E e \in Entries : frames' = Consume(e)
                     /\ (Accounted(e)' \/ (pc' = "enter" /\ target' = e))
      <4>1. CASE NextPassesOver
        BY <4>1 DEF NextPassesOver, Accounted
      <4>2. CASE NextExcludes
        BY <4>2, TreeAssumption DEF NextExcludes, Accounted, Entries
      <4>3. CASE NextDescends
        BY <4>3 DEF NextDescends, Entries
      <4>4. CASE NextFile
        BY <4>4 DEF NextFile, Accounted, Entries
      <4> QED BY <2>12, <4>1, <4>2, <4>3, <4>4
    <3>2. pc = "next" /\ opened' = opened /\ tooDeep' = tooDeep /\ seen \subseteq seen'
      BY <2>12 DEF NextPassesOver, NextExcludes, NextDescends, NextFile, Fetch
    <3>3. Covered => Covered'
      BY <3>1, <3>2, ConsumeStep DEF Accounted
    <3>4. /\ UNCHANGED <<walkStatus, cancelled, removed, skipped, status>>
          /\ pc' \in {"check", "enter", "inspect"}
      BY <2>12 DEF NextPassesOver, NextExcludes, NextDescends, NextFile, report
    <3> QED BY <3>2, <3>3, <3>4 DEF CoverInv, Lossy, Incomplete
  <2>16. CASE Inspect
    <3>1. Covered => Covered'
      BY <2>16 DEF Inspect, Covered, Accounted, StillListed
    <3> QED BY <2>16, <3>1 DEF Inspect, CoverInv, Lossy, Incomplete, world, report
  <2>13. CASE FinishIncomplete \/ FinishComplete \/ RunWholeDetectors
    <3>1. UNCHANGED walk /\ pc' \in {"whole", "done"}
      BY <2>13 DEF FinishIncomplete, FinishComplete, RunWholeDetectors
    <3>2. pc \in {"finish", "whole"}
      BY <2>13 DEF FinishIncomplete, FinishComplete, RunWholeDetectors
    <3>3. Covered => Covered'
      BY <3>1, <3>2 DEF Covered, Accounted, StillListed, walk
    <3>4. Lossy => Lossy'
      BY <3>1, <3>2 DEF Lossy, Incomplete, walk
    <3>5. Incomplete' = Incomplete
      BY <3>1 DEF Incomplete, walk
    <3>6. /\ Incomplete => pc' = "done"
          /\ status' # "none" => pc' = "done"
          /\ status' = "COMPLETED" => ~Incomplete
      BY <2>13 DEF FinishIncomplete, FinishComplete, RunWholeDetectors, CoverInv
    <3> QED BY <3>1, <3>2, <3>3, <3>4, <3>5, <3>6 DEF CoverInv, walk
  <2>14. CASE UNCHANGED vars
    BY <2>14 DEF vars, CoverInv, Covered, Lossy, Incomplete, Accounted, StillListed
  <2> QED
    BY <2>1, <2>2, <2>3, <2>4, <2>5, <2>6, <2>7, <2>8, <2>9, <2>10, <2>11, <2>12,
       <2>13, <2>14, <2>15, <2>16
    DEF Next, Scan, Walk
<1>3. TypeInv /\ CoverInv => NoSilentLoss
  <2> SUFFICES ASSUME TypeInv, CoverInv, status = "COMPLETED", skipped = 0
               PROVE  /\ Root \in opened
                      /\ \A d \in opened : \A x \in Children[d] : Accounted(x)
    BY DEF NoSilentLoss
  <2>1. pc = "done" /\ ~Incomplete /\ frames = <<>>
    BY DEF CoverInv
  <2>2. \A d, x : ~StillListed(d, x)
    BY <2>1, EmptySeq DEF StillListed
  <2> QED BY <2>1, <2>2 DEF CoverInv, Lossy, Covered
<1> QED BY <1>1, <1>2, <1>3, TypeInvariant, PTL DEF Spec

-----------------------------------------------------------------------------
(***************************************************************************)
(* Cancels.                                                                *)
(***************************************************************************)

\* The loop goes on to dir_next only while no cancel has been asked for, so that
\* at most the entry being fetched then can still follow.
CancelInv ==
  /\ late > 0 => cancelAsk
  /\ pc = "next" => late = 0
  /\ late \in {0, 1}

\* A cancel stops the walk before the next entry, however large the volume.
THEOREM CancelsAreBounded == Spec => []CancelBounded
<1>1. Init => CancelInv
  BY DEF Init, CancelInv
<1>2. CancelInv /\ [Next]_vars => CancelInv'
  <2> SUFFICES ASSUME CancelInv, [Next]_vars PROVE CancelInv'
    OBVIOUS
  <2> USE DEF CancelInv
  <2>1. CASE World
    BY <2>1 DEF World, Unplug, Replug, AskCancel, walk
  <2>2. CASE NextPassesOver \/ NextExcludes \/ NextDescends \/ NextFile
    <3>1. /\ late = 0 /\ late' = (IF cancelAsk THEN late + 1 ELSE late)
          /\ cancelAsk' = cancelAsk /\ pc' # "next"
      BY <2>2 DEF NextPassesOver, NextExcludes, NextDescends, NextFile, Fetch, world
    <3> QED BY <3>1
  <2>3. CASE CheckCancel
    BY <2>3 DEF CheckCancel, world
  <2>4. CASE \/ Begin \/ EnterTooDeep \/ EnterOpens \/ EnterFails \/ ProbeReachable
             \/ ProbeUnreachable \/ Unwind \/ WalkReturns \/ NextEnds \/ NextFails
             \/ Inspect \/ FinishIncomplete \/ FinishComplete \/ RunWholeDetectors
             \/ UNCHANGED vars
    <3>1. UNCHANGED <<late, cancelAsk>> /\ (pc' = "next" => pc = "next")
      BY <2>4 DEF Begin, EnterTooDeep, EnterOpens, EnterFails, ProbeReachable,
         ProbeUnreachable, Unwind, WalkReturns, NextEnds, NextFails, Inspect,
         FinishIncomplete, FinishComplete, RunWholeDetectors, vars, world, walk
    <3> QED BY <3>1
  <2> QED BY <2>1, <2>2, <2>3, <2>4 DEF Next, Scan, Walk
<1>3. CancelInv => CancelBounded
  BY DEF CancelInv, CancelBounded
<1> QED BY <1>1, <1>2, <1>3, PTL DEF Spec

-----------------------------------------------------------------------------
(***************************************************************************)
(* The report.  What a slot has collected is about the files walked, all   *)
(* that is due for those it has inspected and nothing undue for those that *)
(* could be read; the report is what the slots have, or nothing.           *)
(***************************************************************************)

Due(d, f) == {s \in Severities : \A how \in Ways : s \in Says(d, f, how)}

SlotInv(d) ==
  /\ \A x \in slots[d] : x[1] \in seen
  /\ \A f \in Undisturbed, s \in Severities :
       <<f, s>> \in slots[d] => s \in Says(d, f, "whole")
  /\ \A f \in seen : ~(pc = "inspect" /\ f = file) =>
       /\ {f} \X Due(d, f) \subseteq slots[d]
       /\ f \in Undisturbed => {f} \X Says(d, f, "whole") \subseteq slots[d]

RecordInv ==
  /\ ~plugged => epoch > 0
  /\ pc = "inspect" => file \in seen /\ (epoch = 0 => HandleAlive)
  /\ pc = "begin" => seen = {}
  /\ DOMAIN slots = {} \/ DOMAIN slots = FileDetectors
  /\ status = "none" <=> pc # "done"
  /\ pc = "whole" => checks = Record("file_traversal", Result("ran", {}))
  /\ \A d \in DOMAIN slots : SlotInv(d)
  /\ AllOrNothing /\ EveryCheckReported

\* The world can only take files out of what is undisturbed.
LEMMA RecordWorld ==
  ASSUME TypeInv, RecordInv, World
  PROVE  RecordInv'
<1>1. UNCHANGED <<pc, frames, file, slots, seen, checks, status>>
  BY DEF World, Unplug, Replug, AskCancel, walk, report
<1>2. /\ epoch \in Nat /\ epoch' \in Nat /\ epoch' >= epoch
      /\ ~plugged' => epoch' > 0
      /\ epoch' = 0 => plugged /\ plugged' /\ epoch = 0
  BY DEF World, Unplug, Replug, AskCancel, TypeInv, TypeOK, RecordInv
<1>3. Undisturbed' \subseteq Undisturbed
  BY <1>2 DEF Undisturbed
<1>4. pc' = "inspect" => file' \in seen' /\ (epoch' = 0 => HandleAlive')
  BY <1>1, <1>2 DEF RecordInv, HandleAlive, Top
<1>5. \A d \in DOMAIN slots' : SlotInv(d)'
  BY <1>1, <1>3 DEF RecordInv, SlotInv, Due
<1>6. AllOrNothing'
  BY <1>1, <1>3 DEF RecordInv, AllOrNothing
<1>7. EveryCheckReported'
  BY <1>1 DEF RecordInv, EveryCheckReported
<1> QED BY <1>1, <1>2, <1>4, <1>5, <1>6, <1>7 DEF RecordInv

\* The walk does not touch the report; its other steps do not touch the slots.
LEMMA RecordFrame ==
  ASSUME RecordInv, pc \notin {"inspect", "whole", "done", "begin"},
         pc' \notin {"inspect", "whole", "done", "begin"},
         UNCHANGED <<plugged, epoch, slots, seen, checks, status>>
  PROVE  RecordInv'
<1>1. Undisturbed' = Undisturbed
  BY DEF Undisturbed
<1>2. \A d \in DOMAIN slots' : SlotInv(d)'
  BY <1>1 DEF RecordInv, SlotInv, Due
<1>3. AllOrNothing' /\ EveryCheckReported'
  BY <1>1 DEF RecordInv, AllOrNothing, EveryCheckReported
<1> QED BY <1>2, <1>3 DEF RecordInv

LEMMA RecordBegin ==
  ASSUME RecordInv, Begin
  PROVE  RecordInv'
<1>1. /\ pc = "begin" /\ pc' = "enter" /\ seen' = {} /\ status = "none"
      /\ UNCHANGED <<plugged, epoch, checks, status>>
  BY DEF Begin, world, report, RecordInv
<1>2. PICK D \in {{}, FileDetectors} : slots' = [d \in D |-> {}]
  BY DEF Begin
<1>3. \A d \in DOMAIN slots' : SlotInv(d)'
  BY <1>1, <1>2 DEF SlotInv
<1>4. AllOrNothing' /\ EveryCheckReported'
  BY <1>1 DEF AllOrNothing, EveryCheckReported
<1> QED BY <1>1, <1>2, <1>3, <1>4 DEF RecordInv

\* A file has been fetched: the listing was alive.
LEMMA RecordFile ==
  ASSUME TypeInv, RecordInv, NextFile
  PROVE  RecordInv'
<1>1. PICK e \in Files : /\ Fetch(e) /\ frames' = Consume(e)
                         /\ seen' = seen \cup {e} /\ file' = e
  BY DEF NextFile
<1>2. /\ pc = "next" /\ pc' = "inspect"
      /\ UNCHANGED <<plugged, epoch, slots, checks, status>>
  BY DEF NextFile, Fetch, world, report
<1>3. HandleAlive'
  <2>1. frames \in Seq(Frame) /\ frames # <<>> /\ HandleAlive
    BY <1>1, <1>2 DEF TypeInv, TypeOK, Fetch
  <2>2. Len(frames) \in 1..Len(frames)
    BY <2>1, EmptySeq
  <2>4. /\ Len(frames') = Len(frames)
        /\ frames'[Len(frames)].epoch = frames[Len(frames)].epoch
    BY <1>1, <2>1, <2>2, ConsumeType
  <2>3. Top'.epoch = Top.epoch
    BY <2>4 DEF Top
  <2> QED BY <1>2, <2>1, <2>3 DEF HandleAlive
<1>4. Undisturbed' = Undisturbed
  BY <1>2 DEF Undisturbed
<1>5. \A d \in DOMAIN slots' : SlotInv(d)'
  BY <1>1, <1>2, <1>4 DEF RecordInv, SlotInv, Due
<1>6. AllOrNothing' /\ EveryCheckReported'
  BY <1>2 DEF RecordInv, AllOrNothing, EveryCheckReported
<1> QED BY <1>1, <1>2, <1>3, <1>5, <1>6 DEF RecordInv

\* Each slot has been told of the file.
LEMMA RecordInspect ==
  ASSUME TypeInv, RecordInv, Inspect
  PROVE  RecordInv'
<1>1. PICK how \in [DOMAIN slots -> Reading] :
        slots' = [d \in DOMAIN slots |-> slots[d] \cup ({file} \X Says(d, file, how[d]))]
  BY DEF Inspect
<1>2. /\ pc = "inspect" /\ pc' = "check" /\ file \in seen
      /\ UNCHANGED <<plugged, epoch, file, seen, checks, status>>
  BY DEF Inspect, world, report, RecordInv
<1>3. Undisturbed' = Undisturbed
  BY <1>2 DEF Undisturbed
<1>4. ASSUME NEW d \in DOMAIN slots'
      PROVE  SlotInv(d)'
  <2>1. /\ d \in DOMAIN slots /\ SlotInv(d) /\ d \in FileDetectors /\ file \in Files
        /\ how[d] \in Ways
    BY <1>1, <1>2 DEF RecordInv, TypeInv, TypeOK, Reading, Ways
  <2>2. slots'[d] = slots[d] \cup ({file} \X Says(d, file, how[d]))
    BY <1>1, <2>1
  <2>3. file \in Undisturbed => how[d] = "whole"
    BY <1>1, <1>2, <2>1 DEF Undisturbed, RecordInv, Reading
  <2>4. \A x \in slots'[d] : x[1] \in seen'
    BY <1>2, <2>1, <2>2 DEF SlotInv
  <2>5. \A f \in Undisturbed', s \in Severities :
          <<f, s>> \in slots'[d] => s \in Says(d, f, "whole")
    BY <1>3, <2>1, <2>2, <2>3 DEF SlotInv
  <2>6. \A f \in seen : f # file =>
          /\ {f} \X Due(d, f) \subseteq slots'[d]
          /\ f \in Undisturbed => {f} \X Says(d, f, "whole") \subseteq slots'[d]
    BY <2>1, <2>2 DEF SlotInv
  <2>7. /\ {file} \X Due(d, file) \subseteq slots'[d]
        /\ file \in Undisturbed => {file} \X Says(d, file, "whole") \subseteq slots'[d]
    BY <2>1, <2>2, <2>3 DEF Due
  <2> QED BY <1>2, <1>3, <2>4, <2>5, <2>6, <2>7 DEF SlotInv, Due
<1>5. AllOrNothing' /\ EveryCheckReported'
  BY <1>2 DEF RecordInv, AllOrNothing, EveryCheckReported
<1> QED BY <1>1, <1>2, <1>4, <1>5 DEF RecordInv

\* The end of an incomplete scan: every detector is skipped.
LEMMA RecordIncomplete ==
  ASSUME TypeInv, RecordInv, FinishIncomplete
  PROVE  RecordInv'
<1> DEFINE none == [d \in WholeDetectors \cup DOMAIN slots |-> Result("skipped", {})]
           walked == Record("file_traversal",
                            Result(IF walkStatus # "OK" THEN "failed" ELSE "ran", {}))
<1>1. /\ pc = "finish" /\ pc' = "done" /\ status' = "ABORTED"
      /\ checks' = Push(walked, none)
      /\ UNCHANGED <<plugged, epoch, file, slots, seen>>
  BY DEF FinishIncomplete, world, walk
<1>2. DOMAIN checks' = {"file_traversal"} \cup WholeDetectors \cup DOMAIN slots
  BY <1>1 DEF Push, Record
<1>3. \A c \in DOMAIN checks' \ {"file_traversal"} : checks'[c] = Result("skipped", {})
  BY <1>1, <1>2 DEF Push, Record
<1>4. EveryCheckReported'
  BY <1>1, <1>2, DetectorAssumption DEF RecordInv, EveryCheckReported, CheckIds
<1>5. AllOrNothing'
  BY <1>1, <1>3 DEF AllOrNothing
<1>6. \A d \in DOMAIN slots' : SlotInv(d)'
  BY <1>1 DEF RecordInv, SlotInv, Due, Undisturbed
<1> QED BY <1>1, <1>4, <1>5, <1>6 DEF RecordInv

LEMMA RecordComplete ==
  ASSUME RecordInv, FinishComplete
  PROVE  RecordInv'
<1>1. /\ pc = "finish" /\ pc' = "whole" /\ status = "none"
      /\ checks' = Record("file_traversal", Result("ran", {}))
      /\ UNCHANGED <<plugged, epoch, file, slots, seen, status>>
  BY DEF FinishComplete, world, walk, RecordInv
<1>2. \A d \in DOMAIN slots' : SlotInv(d)'
  BY <1>1 DEF RecordInv, SlotInv, Due, Undisturbed
<1>3. AllOrNothing' /\ EveryCheckReported'
  BY <1>1 DEF AllOrNothing, EveryCheckReported
<1> QED BY <1>1, <1>2, <1>3 DEF RecordInv

\* The end of a complete one: what the slots have collected is reported.
LEMMA RecordWhole ==
  ASSUME TypeInv, RecordInv, RunWholeDetectors
  PROVE  RecordInv'
<1>1. PICK results \in [WholeDetectors -> AutorunResults] :
        checks' = Push(Push(checks, results),
                       [d \in DOMAIN slots |-> Result("ran", slots[d])])
  BY DEF RunWholeDetectors
<1>2. /\ pc = "whole" /\ pc' = "done" /\ status' = "COMPLETED"
      /\ checks = Record("file_traversal", Result("ran", {}))
      /\ UNCHANGED <<plugged, epoch, file, slots, seen>>
  BY DEF RunWholeDetectors, world, walk, RecordInv
<1>3. /\ DOMAIN checks = {"file_traversal"}
      /\ checks["file_traversal"] = Result("ran", {})
  BY <1>2 DEF Record
<1>4. DOMAIN checks' = {"file_traversal"} \cup WholeDetectors \cup DOMAIN slots
  BY <1>1, <1>3 DEF Push
<1>5. \A d \in DOMAIN slots : checks'[d] = Result("ran", slots[d])
  BY <1>1 DEF Push
<1>6. \A c \in DOMAIN checks' : checks'[c].status # "skipped"
  <2>1. \A x \in AutorunResults : x.status # "skipped"
    BY DEF AutorunResults, Result
  <2>2. \A c \in WholeDetectors \ DOMAIN slots : checks'[c] = results[c]
    BY <1>1, <1>3 DEF Push
  <2>3. "file_traversal" \notin WholeDetectors \cup DOMAIN slots =>
          checks'["file_traversal"] = Result("ran", {})
    BY <1>1, <1>3 DEF Push
  <2>4. "file_traversal" \notin WholeDetectors \cup DOMAIN slots
    BY DetectorAssumption DEF RecordInv
  <2> QED BY <1>4, <1>5, <2>1, <2>2, <2>3, <2>4 DEF Result
<1>7. EveryCheckReported'
  BY <1>2, <1>4, DetectorAssumption DEF RecordInv, EveryCheckReported, CheckIds
<1>8. \A d \in DOMAIN slots' : SlotInv(d)'
  BY <1>2 DEF RecordInv, SlotInv, Due, Undisturbed
<1>9. ASSUME NEW d \in DOMAIN slots
      PROVE  /\ slots[d] = OfFiles(slots[d], seen)
             /\ \A f \in seen \cap Undisturbed :
                  OfFiles(slots[d], {f}) = {f} \X Says(d, f, "whole")
             /\ \A f \in seen, s \in Severities :
                  (\A how \in Ways : s \in Says(d, f, how)) => <<f, s>> \in slots[d]
  <2>1. /\ SlotInv(d) /\ d \in FileDetectors /\ slots[d] \subseteq Findings
        /\ pc # "inspect" /\ seen \subseteq Files
    BY <1>2 DEF RecordInv, TypeInv, TypeOK
  <2>2. \A x \in slots[d] : x \in Files \X Severities
    BY <2>1 DEF Findings
  <2>3. slots[d] = OfFiles(slots[d], seen)
    BY <2>1 DEF SlotInv, OfFiles
  <2>4. ASSUME NEW f \in seen \cap Undisturbed
        PROVE  OfFiles(slots[d], {f}) = {f} \X Says(d, f, "whole")
    <3>1. \A x \in slots[d] : x[1] = f => x \in {f} \X Says(d, f, "whole")
      BY <2>1, <2>2 DEF SlotInv
    <3>2. {f} \X Says(d, f, "whole") \subseteq slots[d]
      BY <2>1 DEF SlotInv
    <3>3. \A x \in {f} \X Says(d, f, "whole") : x[1] = f
      OBVIOUS
    <3> QED BY <3>1, <3>2, <3>3 DEF OfFiles
  <2>5. \A f \in seen : {f} \X Due(d, f) \subseteq slots[d]
    BY <2>1 DEF SlotInv
  <2>6. \A f \in seen, s \in Severities :
          (\A how \in Ways : s \in Says(d, f, how)) => <<f, s>> \in slots[d]
    BY <2>5 DEF Due
  <2> QED BY <2>3, <2>4, <2>6
<1>10. AllOrNothing'
  <2>1. \A d \in DOMAIN slots : checks'[d].findings = slots[d]
    <3>1. \A S : Result("ran", S).findings = S
      BY DEF Result
    <3> QED BY <1>5, <3>1, Zenon
  <2>2. Undisturbed' = Undisturbed
    BY <1>2 DEF Undisturbed
  <2>3. /\ status' = "COMPLETED" /\ slots' = slots /\ seen' = seen
    BY <1>2
  <2>4. \A d \in DOMAIN slots' :
          LET found == checks'[d].findings
          IN  /\ found = OfFiles(found, seen')
              /\ \A f \in seen' \cap Undisturbed' :
                   OfFiles(found, {f}) = {f} \X Says(d, f, "whole")
              /\ \A f \in seen', s \in Severities :
                   (\A how \in Ways : s \in Says(d, f, how)) => <<f, s>> \in found
    <3> SUFFICES ASSUME NEW d \in DOMAIN slots
                 PROVE  LET found == checks'[d].findings
                        IN  /\ found = OfFiles(found, seen)
                            /\ \A f \in seen \cap Undisturbed :
                                 OfFiles(found, {f}) = {f} \X Says(d, f, "whole")
                            /\ \A f \in seen, s \in Severities :
                                 (\A how \in Ways : s \in Says(d, f, how))
                                   => <<f, s>> \in found
      BY <2>2, <2>3
    <3> QED BY <1>9, <2>1, Zenon
  <2>5. \A c \in DOMAIN checks' : checks'[c].status # "skipped"
    BY <1>6
  <2> QED BY <2>3, <2>4, <2>5, Zenon DEF AllOrNothing
<1> QED BY <1>2, <1>7, <1>8, <1>10 DEF RecordInv

LEMMA RecordInvariant == Spec => []RecordInv
<1>1. Init => RecordInv
  BY DEF Init, RecordInv, AllOrNothing, EveryCheckReported, SlotInv
<1>2. TypeInv /\ RecordInv /\ [Next]_vars => RecordInv'
  <2> SUFFICES ASSUME TypeInv, RecordInv, [Next]_vars PROVE RecordInv'
    OBVIOUS
  <2>1. CASE \/ EnterTooDeep \/ EnterOpens \/ EnterFails \/ ProbeReachable
             \/ ProbeUnreachable \/ CheckCancel \/ Unwind \/ WalkReturns \/ NextEnds
             \/ NextFails \/ NextPassesOver \/ NextExcludes \/ NextDescends
    <3>1. /\ pc \in {"enter", "probe", "check", "unwind", "next"}
          /\ UNCHANGED <<plugged, epoch, slots, seen, checks, status>>
      BY <2>1 DEF EnterTooDeep, EnterOpens, EnterFails, ProbeReachable,
         ProbeUnreachable, CheckCancel, Unwind, WalkReturns, NextEnds, NextFails,
         NextPassesOver, NextExcludes, NextDescends, Fetch, world, walk, report
    <3>2. pc' \in {"check", "finish", "probe", "unwind", "next", "enter"}
      BY <2>1 DEF EnterTooDeep, EnterOpens, EnterFails, ProbeReachable,
         ProbeUnreachable, CheckCancel, Unwind, WalkReturns, NextEnds, NextFails,
         NextPassesOver, NextExcludes, NextDescends
    <3> QED BY <3>1, <3>2, RecordFrame
  <2>2. CASE UNCHANGED vars
    BY <2>2 DEF vars, RecordInv, AllOrNothing, EveryCheckReported, SlotInv, Due,
       Undisturbed, HandleAlive, Top
  <2> QED BY <2>1, <2>2, RecordWorld, RecordBegin, RecordFile, RecordInspect,
             RecordIncomplete, RecordComplete, RecordWhole
          DEF Next, Scan, Walk
<1> QED BY <1>1, <1>2, TypeInvariant, PTL DEF Spec

\* Every registered detector is in the finished report.
THEOREM EveryCheckIsReported == Spec => []EveryCheckReported
<1>1. RecordInv => EveryCheckReported
  BY DEF RecordInv
<1> QED BY <1>1, RecordInvariant, PTL

\* A detector's check is all or nothing: nothing of an aborted scan, and of a
\* completed one exactly what is to be said of each file that could be read.
THEOREM ChecksAreAllOrNothing == Spec => []AllOrNothing
<1>1. RecordInv => AllOrNothing
  BY DEF RecordInv
<1> QED BY <1>1, RecordInvariant, PTL

-----------------------------------------------------------------------------
(* Verdict.  Its two properties, from what a finished scan reports         *)
(* (RecordInv) and from what the location policy cannot do.                *)

\* The strict rules never leave a match out.
LEMMA StrictReport ==
  ASSUME NEW f, f.content \in Contents, NEW d \in Detectors, NEW how
  PROVE  Report(d, f, FALSE, how) \subseteq {"info", "warning", "high"}
<1>1. NameReport(f, FALSE) \subseteq {"info", "warning", "high"}
  BY DEF NameReport
<1>2. LnkPolicy(f, FALSE) = "none"
  BY DEF LnkPolicy
<1>3. \A c \in Contents : LnkSeverity(c, "none") \subseteq {"info", "warning", "high"}
  BY DEF LnkSeverity, Contents
<1>4. LnkSees(f, how) \subseteq Contents
  BY DEF LnkSees, Contents
<1>5. LnkReport(f, FALSE, how) \subseteq {"info", "warning", "high"}
  BY <1>2, <1>3, <1>4 DEF LnkReport
<1> QED BY <1>1, <1>5 DEF Report, HashReport, Detectors

\* Of a file that nothing kept from being read, a completed scan with slots
\* reports what the rules say of all of it.
LEMMA WholeIsReported ==
  ASSUME TypeInv, RecordInv, status = "COMPLETED",
         NEW d \in DOMAIN slots, NEW f \in seen \cap Undisturbed
  PROVE  /\ d \in Detectors /\ f \in Files /\ d \in DOMAIN checks
         /\ Facts[f].content \in Contents
         /\ \A s : <<f, s>> \in checks[d].findings <=>
                     s \in Report(d, Facts[f], PolicyApplies, "whole")
<1>1. d \in FileDetectors /\ FileDetectors = Detectors /\ f \in Files
  BY RegistryAssumption DEF TypeInv, TypeOK, Detectors
<1>2. d \in DOMAIN checks
  <2>1. CheckIds \subseteq DOMAIN checks
    BY DEF RecordInv, EveryCheckReported
  <2> QED BY <1>1, <2>1 DEF CheckIds
<1>3. OfFiles(checks[d].findings, {f}) = {f} \X Says(d, f, "whole")
  BY DEF RecordInv, AllOrNothing
<1>4. Says(d, f, "whole") = Report(d, Facts[f], PolicyApplies, "whole")
  BY <1>1, RegistryAssumption DEF Rule, Ways
<1>5. \A s : <<f, s>> \in checks[d].findings <=> <<f, s>> \in {f} \X Says(d, f, "whole")
  BY <1>3 DEF OfFiles
<1> QED BY <1>1, <1>2, <1>4, <1>5, FactsAssumption

\* No check of a finished report is counted under st when the count is zero.
LEMMA NoneCounted ==
  ASSUME TypeInv, NEW st
  PROVE  /\ CheckCount(st) \in Nat
         /\ CheckCount(st) = 0 => \A c \in DOMAIN checks : checks[c].status # st
<1> DEFINE counted == {c \in DOMAIN checks : checks[c].status = st}
<1>1. IsFiniteSet(CheckIds)
  <2> DEFINE two == {"suspicious_filename"} \cup {"lnk_inspection"}
  <2>1. IsFiniteSet({"suspicious_filename"}) /\ IsFiniteSet({"file_traversal"})
    BY FS_Singleton
  <2>2. IsFiniteSet(two)
    BY <2>1, FS_AddElement
  <2>3. IsFiniteSet(two \cup {"hash_match_example"})
    BY <2>2, FS_AddElement
  <2>4. FileDetectors = two \cup {"hash_match_example"}
    BY RegistryAssumption
  <2>5. IsFiniteSet({"file_traversal"} \cup WholeDetectors)
    BY <2>1, RegistryAssumption, FS_Union
  <2> QED BY <2>3, <2>4, <2>5, FS_Union DEF CheckIds
<1>2. counted \subseteq CheckIds
  BY DEF TypeInv, TypeOK
<1>3. IsFiniteSet(counted)
  BY <1>1, <1>2, FS_Subset
<1>4. Cardinality(counted) \in Nat /\ (Cardinality(counted) = 0 <=> counted = {})
  BY <1>3, FS_CardinalityType, FS_EmptySet
<1> QED BY <1>4 DEF CheckCount

-----------------------------------------------------------------------------
\* "ALL CLEAR" is earned: both verdicts say it, every registered check ran, but
\* for the on_file detectors when there was no memory for their slots, and a match
\* in a file that could be read was a note, or is in the counts of what the policy
\* left out.
THEOREM AllClearIsEarned == Spec => []ClearIsEarned
<1>1. TypeInv /\ RecordInv => ClearIsEarned
  <2> SUFFICES ASSUME TypeInv, RecordInv, status # "none",
                      "clean" \in {GuiVerdict, PageVerdict}
               PROVE  /\ GuiVerdict = PageVerdict /\ CliExit = "OK"
                      /\ {c \in DOMAIN checks : checks[c].status = "ran"} =
                           CheckIds \ (IF DOMAIN slots = {} THEN FileDetectors ELSE {})
                      /\ \A d \in DOMAIN slots, f \in seen \cap Undisturbed :
                           \/ Report(d, Facts[f], FALSE, "whole") \subseteq {"info"}
                           \/ /\ PolicyApplies
                              /\ \E x \in checks[d].findings :
                                   x[1] = f /\ x[2] \in {"info", "suppressed"}
    BY DEF ClearIsEarned
  <2>1. CheckCount("skipped") \in Nat /\ CheckCount("failed") \in Nat
    BY NoneCounted
  <2>2. /\ status = "COMPLETED" /\ ~Shows("high") /\ ~Shows("warning")
        /\ CheckCount("skipped") = 0 /\ CheckCount("failed") = 0
    BY <2>1 DEF GuiVerdict, PageVerdict, JsonReport, Shows
  <2>3. GuiVerdict = PageVerdict /\ CliExit = "OK"
    BY <2>2 DEF GuiVerdict, PageVerdict, JsonReport, Shows, CliExit
  <2>4. {c \in DOMAIN checks : checks[c].status = "ran"} =
          CheckIds \ (IF DOMAIN slots = {} THEN FileDetectors ELSE {})
    <3>1. \A c \in DOMAIN checks : checks[c].status = "ran"
      BY <2>2, NoneCounted DEF TypeInv, TypeOK
    <3>2. /\ DOMAIN checks \subseteq CheckIds
          /\ CheckIds \ DOMAIN checks = IF DOMAIN slots = {} THEN FileDetectors ELSE {}
      BY DEF TypeInv, TypeOK, RecordInv, EveryCheckReported
    <3> QED BY <3>1, <3>2
  <2>5. ASSUME NEW d \in DOMAIN slots, NEW f \in seen \cap Undisturbed
        PROVE  \/ Report(d, Facts[f], FALSE, "whole") \subseteq {"info"}
               \/ /\ PolicyApplies
                  /\ \E x \in checks[d].findings : x[1] = f /\ x[2] \in {"info", "suppressed"}
    <3> DEFINE said == Report(d, Facts[f], PolicyApplies, "whole")
    <3>1. /\ d \in Detectors /\ d \in DOMAIN checks /\ Facts[f].content \in Contents
          /\ \A s : <<f, s>> \in checks[d].findings <=> s \in said
      BY <2>2, WholeIsReported
    <3>2. said \subseteq Severities
      <4>1. checks[d].findings \subseteq Findings
        BY <3>1 DEF TypeInv, TypeOK
      <4>2. \A s \in said : <<f, s>> \in Files \X Severities
        BY <3>1, <4>1 DEF Findings
      <4> HIDE DEF said
      <4> QED BY <4>2
    <3>3. said \subseteq {"info", "suppressed"}
      <4>1. \A s \in said : <<f, s>> \in checks[d].findings
        BY <3>1
      <4>2. ASSUME NEW s \in said, s # "suppressed"
            PROVE  Shows(s)
        <5>1. <<f, s>> \in checks[d].findings /\ <<f, s>>[2] = s
          BY <4>1
        <5>2. <<f, s>> \in Shown
          BY <3>1, <4>2, <5>1 DEF Shown
        <5> QED BY <5>1, <5>2 DEF Shows
      <4>3. \A s \in said : s # "high" /\ s # "warning"
        BY <2>2, <4>2
      <4> QED BY <3>2, <4>3 DEF Severities
    <3>4. CASE said = {}
      <4>1. Report(d, Facts[f], FALSE, "whole") = {}
        BY <3>1, <3>4, SuppressionsAreCounted, TreeAssumption
      <4> QED BY <4>1
    <3>5. CASE said # {} /\ PolicyApplies
      <4>1. PICK s \in said : <<f, s>> \in checks[d].findings
        BY <3>1, <3>5
      <4> QED BY <3>3, <3>5, <4>1
    <3>6. CASE ~PolicyApplies
      <4>1. said = Report(d, Facts[f], FALSE, "whole")
        BY <3>6, TreeAssumption
      <4>2. said \subseteq {"info", "warning", "high"}
        BY <3>1, <4>1, StrictReport
      <4> QED BY <3>3, <4>1, <4>2
    <3> QED BY <3>4, <3>5, <3>6
  <2> QED BY <2>3, <2>4, <2>5
<1> QED BY <1>1, TypeInvariant, RecordInvariant, PTL

\* What the slots are allocated for is decided once, before the walk.
SlotsInv ==
  /\ status # "none" => pc # "begin"
  /\ pc # "begin" => DOMAIN slots = FileDetectors

\* "Every check must have run" (gui_report_view.h), where that is so: if the
\* slots are allocated, a clean verdict means that every registered check ran.
EveryCheckRan ==
  status # "none" /\ "clean" \in {GuiVerdict, PageVerdict} =>
    \A c \in CheckIds : c \in DOMAIN checks /\ checks[c].status = "ran"

\* With memory for the slots, "ALL CLEAR" is shown only after every registered
\* check has run, whatever else fails, is refused or goes away meanwhile.
THEOREM AllClearNeedsEveryCheck ==
  ASSUME FALSE \notin SlotOutcomes
  PROVE  Spec => []EveryCheckRan
<1>1. Init => SlotsInv
  BY DEF Init, SlotsInv
<1>2. TypeInv /\ SlotsInv /\ [Next]_vars => SlotsInv'
  <2> SUFFICES ASSUME TypeInv, SlotsInv, [Next]_vars PROVE SlotsInv'
    OBVIOUS
  <2>1. CASE Begin
    <3>1. PICK ok \in SlotOutcomes :
            slots' = [d \in IF ok THEN FileDetectors ELSE {} |-> {}]
      BY <2>1 DEF Begin
    <3>2. ok = TRUE
      BY WorldAssumption
    <3> QED BY <2>1, <3>1, <3>2 DEF Begin, SlotsInv
  <2>2. CASE Inspect
    BY <2>2 DEF Inspect, SlotsInv
  <2>3. CASE \/ World \/ (Walk /\ ~Inspect) \/ FinishIncomplete \/ FinishComplete
             \/ RunWholeDetectors \/ UNCHANGED vars
    <3>1. UNCHANGED slots
      BY <2>3 DEF World, Unplug, Replug, AskCancel, Walk, EnterTooDeep, EnterOpens,
         EnterFails, ProbeReachable, ProbeUnreachable, CheckCancel, Unwind,
         WalkReturns, NextEnds, NextFails, NextPassesOver, NextExcludes,
         NextDescends, NextFile, FinishIncomplete, FinishComplete,
         RunWholeDetectors, walk, vars
    <3>2. pc' = pc \/ (pc # "begin" /\ pc' # "begin")
      BY <2>3 DEF World, Unplug, Replug, AskCancel, Walk, EnterTooDeep, EnterOpens,
         EnterFails, ProbeReachable, ProbeUnreachable, CheckCancel, Unwind,
         WalkReturns, NextEnds, NextFails, NextPassesOver, NextExcludes,
         NextDescends, NextFile, Fetch, FinishIncomplete, FinishComplete,
         RunWholeDetectors, vars
    <3>3. status' = status \/ pc # "begin"
      BY <2>3 DEF World, Unplug, Replug, AskCancel, Walk, EnterTooDeep, EnterOpens,
         EnterFails, ProbeReachable, ProbeUnreachable, CheckCancel, Unwind,
         WalkReturns, NextEnds, NextFails, NextPassesOver, NextExcludes,
         NextDescends, NextFile, Fetch, FinishIncomplete, FinishComplete,
         RunWholeDetectors, report, vars
    <3> QED BY <3>1, <3>2, <3>3 DEF SlotsInv
  <2> QED BY <2>1, <2>2, <2>3 DEF Next, Scan
<1>3. TypeInv /\ RecordInv /\ SlotsInv /\ ClearIsEarned => EveryCheckRan
  <2> SUFFICES ASSUME SlotsInv, ClearIsEarned, status # "none",
                      "clean" \in {GuiVerdict, PageVerdict}, NEW c \in CheckIds
               PROVE  c \in DOMAIN checks /\ checks[c].status = "ran"
    BY DEF EveryCheckRan
  <2>1. DOMAIN slots = FileDetectors /\ FileDetectors # {}
    BY RegistryAssumption DEF SlotsInv
  <2>2. {x \in DOMAIN checks : checks[x].status = "ran"} = CheckIds
    BY <2>1 DEF ClearIsEarned
  <2> QED BY <2>2
<1> QED BY <1>1, <1>2, <1>3, AllClearIsEarned, TypeInvariant, RecordInvariant, PTL DEF Spec

-----------------------------------------------------------------------------
\* The reference sets are what they are named for.
ReferencesHold ==
  /\ \A f \in Exposed : UserExposed(Facts[f].path) /\ ~SelfTestFixtures(Facts[f].path)
  /\ \A f \in Files \ Components : Classify(Facts[f].path) # "component store"

\* What is a threat is said to be high, on every drive, by one of the detectors.
LEMMA ThreatIsHigh ==
  ASSUME ReferencesHold, NEW f \in Files, Threat(f)
  PROVE  \E d \in Detectors : "high" \in Report(d, Facts[f], PolicyApplies, "whole")
<1> DEFINE facts == Facts[f]
<1>1. PolicyApplies \in BOOLEAN
  BY TreeAssumption
<1>2. CASE HighRule(facts)
  BY <1>1, <1>2, AttacksStayHigh DEF Detectors
<1>3. CASE "listed" \in facts.traits
  BY <1>1, <1>3, AttacksStayHigh DEF Detectors
<1>4. CASE Last(facts) = "lnk" /\ facts.content = "attack" /\ f \notin Components
  BY <1>1, <1>4, AttacksStayHigh DEF Detectors, ReferencesHold
<1>5. CASE f \in Exposed /\ DoubleExtension(facts)
  <2>1. NameReport(facts, FALSE) = {"high"}
    BY <1>5 DEF NameReport
  <2>2. Report("suspicious_filename", facts, FALSE, "whole") = {"high"}
    BY <2>1 DEF Report
  <2> QED BY <1>1, <1>5, <2>2, ExposedIsStrict DEF Detectors, ReferencesHold
<1>6. CASE f \in Exposed /\ Last(facts) = "lnk" /\ facts.content \in {"interpreter", "marker"}
  <2>1. LnkSees(facts, "whole") = {facts.content} /\ LnkPolicy(facts, FALSE) = "none"
    BY DEF LnkSees, LnkPolicy
  <2>2. LnkSeverity(facts.content, "none") = {"high"}
    BY <1>6 DEF LnkSeverity
  <2>3. Report("lnk_inspection", facts, FALSE, "whole") = {"high"}
    BY <1>6, <2>1, <2>2 DEF LnkReport, Report
  <2> QED BY <1>1, <1>6, <2>3, ExposedIsStrict DEF Detectors, ReferencesHold
<1> QED BY <1>2, <1>3, <1>4, <1>5, <1>6 DEF Threat

\* A threat in a file that a completed scan could read is what both verdicts
\* say, if the reference sets it is stated with hold.
THEOREM ThreatsAreLoud ==
  ASSUME ReferencesHold
  PROVE  Spec => []ThreatIsLoud
<1>1. TypeInv /\ RecordInv => ThreatIsLoud
  <2> SUFFICES ASSUME TypeInv, RecordInv, status = "COMPLETED", DOMAIN slots # {},
                      NEW f \in seen \cap Undisturbed, Threat(f)
               PROVE  GuiVerdict = "threat" /\ PageVerdict = "threat"
    BY DEF ThreatIsLoud
  <2>1. f \in Files
    BY DEF TypeInv, TypeOK
  <2>2. PICK d \in Detectors : "high" \in Report(d, Facts[f], PolicyApplies, "whole")
    BY <2>1, ThreatIsHigh
  <2>3. d \in DOMAIN slots
    BY RegistryAssumption DEF RecordInv, Detectors
  <2>4. d \in DOMAIN checks /\ <<f, "high">> \in checks[d].findings
    BY <2>2, <2>3, WholeIsReported
  <2>5. Shows("high")
    BY <2>4 DEF Shows, Shown
  <2> QED BY <2>5 DEF GuiVerdict, PageVerdict, JsonReport, Shows
<1> QED BY <1>1, TypeInvariant, RecordInvariant, PTL
=============================================================================
