------------------------------ MODULE JsonProofs ------------------------------
(***************************************************************************)
(* What the JSON reader and writer do, for every text, every depth and     *)
(* every way an allocation can fail: no memory is lost (NothingLeaks), the *)
(* reader accepts exactly what is JSON once its literals are taken as it   *)
(* takes them (ReadsExactly), and to the letter where none of them is in   *)
(* dispute (ReadsJson), and the writer writes nothing else (WritesJson).   *)
(* The grammar's recursive functions are reasoned about by the least       *)
(* number at which a claim about them fails (Inductively).                 *)
(***************************************************************************)
EXTENDS Json, WellFoundedInduction, TLAPS

FrameType ==
  [object : BOOLEAN, owned : SUBSET Nat, key : SUBSET Nat, count : Nat, capacity : Nat]

\* The blocks of a parse_object or parse_array call
Blocks(f) == f.owned \cup f.key

\* The blocks of the calls and of a value returned, and that no two share one
Held(fs, value) == value \cup UNION {Blocks(fs[i]) : i \in DOMAIN fs}

Apart(fs, value) ==
  /\ \A i \in DOMAIN fs : fs[i].owned \cap fs[i].key = {} /\ Blocks(fs[i]) \cap value = {}
  /\ \A i, j \in DOMAIN fs : i # j => Blocks(fs[i]) \cap Blocks(fs[j]) = {}

-----------------------------------------------------------------------------
(* Frames as sequences.                                                    *)

LEMMA FrontOf ==
  ASSUME NEW T, NEW fs \in Seq(T), fs # <<>>
  PROVE  /\ Front(fs) \in Seq(T) /\ Last(fs) \in T
         /\ Len(fs) \in Nat \ {0} /\ Len(Front(fs)) = Len(fs) - 1
         /\ DOMAIN Front(fs) = 1..(Len(fs) - 1) /\ DOMAIN fs = 1..Len(fs)
         /\ \A i \in 1..(Len(fs) - 1) : Front(fs)[i] = fs[i]
         /\ Last(fs) = fs[Len(fs)]
<1>1. Len(fs) \in Nat \ {0} /\ DOMAIN fs = 1..Len(fs)
  OBVIOUS
<1>2. Front(fs) = SubSeq(fs, 1, Len(fs) - 1) /\ Last(fs) = fs[Len(fs)]
  BY DEF Front, Last
<1>3. /\ Front(fs) \in Seq(T) /\ Len(Front(fs)) = Len(fs) - 1
      /\ \A i \in 1..(Len(fs) - 1) : Front(fs)[i] = fs[i]
  BY <1>1, <1>2
<1>4. Last(fs) \in T
  BY <1>1, <1>2
<1> QED BY <1>1, <1>2, <1>3, <1>4

LEMMA FrontIs ==
  ASSUME NEW fs \in Seq(FrameType), fs # <<>>
  PROVE  /\ Front(fs) \in Seq(FrameType) /\ Last(fs) \in FrameType
         /\ Len(fs) \in Nat \ {0} /\ Len(Front(fs)) = Len(fs) - 1
         /\ DOMAIN Front(fs) = 1..(Len(fs) - 1) /\ DOMAIN fs = 1..Len(fs)
         /\ \A i \in 1..(Len(fs) - 1) : Front(fs)[i] = fs[i]
         /\ Last(fs) = fs[Len(fs)]
BY FrontOf

LEMMA AppendIs ==
  ASSUME NEW fs \in Seq(FrameType), NEW g \in FrameType
  PROVE  /\ Append(fs, g) \in Seq(FrameType)
         /\ DOMAIN Append(fs, g) = 1..(Len(fs) + 1) /\ DOMAIN fs = 1..Len(fs)
         /\ Len(Append(fs, g)) = Len(fs) + 1
         /\ \A i \in 1..Len(fs) : Append(fs, g)[i] = fs[i]
         /\ Append(fs, g)[Len(fs) + 1] = g
OBVIOUS

\* A call returns: what its frame and the value held is gone, or returned.
LEMMA FrontHeld ==
  ASSUME NEW fs \in Seq(FrameType), fs # <<>>, NEW value, Apart(fs, value),
         NEW new \in SUBSET (value \cup Blocks(Last(fs)))
  PROVE  /\ Apart(Front(fs), new)
         /\ Held(Front(fs), new) = (Held(fs, value) \ (value \cup Blocks(Last(fs)))) \cup new
<1> DEFINE n == Len(fs)
<1>1. /\ n \in Nat \ {0} /\ DOMAIN Front(fs) = 1..(n - 1) /\ DOMAIN fs = 1..n
      /\ \A i \in 1..(n - 1) : Front(fs)[i] = fs[i]
      /\ Last(fs) = fs[n]
  BY FrontIs
<1> HIDE DEF n
<1>2. \A i \in 1..(n - 1) : i \in 1..n /\ i # n
  BY <1>1
<1>3. n \in 1..n /\ \A i \in 1..n : i = n \/ i \in 1..(n - 1)
  BY <1>1
<1>4. \A i \in 1..(n - 1) : Blocks(fs[i]) \cap (value \cup Blocks(fs[n])) = {}
  BY <1>1, <1>2, <1>3 DEF Apart
<1>5. Apart(Front(fs), new)
  BY <1>1, <1>2, <1>4 DEF Apart
<1>6. Held(fs, value) = value \cup Blocks(fs[n]) \cup UNION {Blocks(fs[i]) : i \in 1..(n - 1)}
  BY <1>1, <1>2, <1>3 DEF Held
<1>7. Held(Front(fs), new) = new \cup UNION {Blocks(fs[i]) : i \in 1..(n - 1)}
  BY <1>1 DEF Held
<1> QED BY <1>1, <1>4, <1>5, <1>6, <1>7

\* A frame with blocks nobody else holds
LEMMA AppendHeld ==
  ASSUME NEW fs \in Seq(FrameType), NEW g \in FrameType, NEW value, Apart(fs, value),
         g.owned \cap g.key = {}, Blocks(g) \cap Held(fs, value) = {}
  PROVE  /\ Apart(Append(fs, g), value)
         /\ Held(Append(fs, g), value) = Held(fs, value) \cup Blocks(g)
<1> DEFINE n == Len(fs)
           gs == Append(fs, g)
<1>1. /\ n \in Nat /\ DOMAIN gs = 1..(n + 1) /\ DOMAIN fs = 1..n
      /\ \A i \in 1..n : gs[i] = fs[i]
      /\ gs[n + 1] = g
  BY AppendIs
<1> HIDE DEF n, gs
<1>2. n + 1 \in 1..(n + 1) /\ \A i \in 1..(n + 1) : i = n + 1 \/ i \in 1..n
  BY <1>1
<1>3. \A i \in 1..n : i \in 1..(n + 1) /\ i # n + 1
  BY <1>1
<1>4. \A i \in 1..n : Blocks(fs[i]) \cap Blocks(g) = {}
  BY <1>1 DEF Held
<1>5. value \cap Blocks(g) = {}
  BY DEF Held
<1>6. Apart(gs, value)
  <2>1. \A i \in DOMAIN gs : gs[i].owned \cap gs[i].key = {} /\ Blocks(gs[i]) \cap value = {}
    BY <1>1, <1>2, <1>5 DEF Apart
  <2>2. ASSUME NEW i \in DOMAIN gs, NEW j \in DOMAIN gs, i # j
        PROVE  Blocks(gs[i]) \cap Blocks(gs[j]) = {}
    BY <1>1, <1>2, <1>4, <2>2 DEF Apart
  <2> QED BY <2>1, <2>2 DEF Apart
<1>7. Held(gs, value) = Held(fs, value) \cup Blocks(g)
  BY <1>1, <1>2, <1>3 DEF Held
<1> QED BY <1>6, <1>7 DEF gs

-----------------------------------------------------------------------------
(* The reader.                                                             *)

ReaderType ==
  /\ frames \in Seq(FrameType) /\ allocs \in Nat
  /\ result \in [status : Statuses, owned : SUBSET Nat]
  /\ \A i \in DOMAIN frames : ~frames[i].object => frames[i].key = {}

\* A value is held only while it is being returned, a key only while its value
\* is being read.
HandOver ==
  /\ pc # "return" \/ result.status # "OK" => result.owned = {}
  /\ frames # <<>> /\ pc \in {"first", "key", "next"} => Frame.key = {}

\* The heap is what the calls under way and the value returned hold, each block
\* held once.
HeldOnce ==
  /\ heap \subseteq 1..allocs
  /\ heap = Held(frames, result.owned)
  /\ Apart(frames, result.owned)

MemoryInv == ReaderType /\ HandOver /\ HeldOnce

\* New blocks are nobody's.
LEMMA FreshIs ==
  ASSUME MemoryInv, NEW n \in Nat
  PROVE  /\ Fresh(n) \cap heap = {} /\ Fresh(n) \in SUBSET Nat
         /\ heap \cup Fresh(n) \subseteq 1..(allocs + n)
BY DEF MemoryInv, HeldOnce, ReaderType, Fresh

LEMMA InitMemory == ASSUME Init PROVE MemoryInv
<1>1. frames = <<>> /\ heap = {} /\ allocs = 0 /\ result = [status |-> "OK", owned |-> {}]
  BY DEF Init, Nothing
<1>2. Held(<<>>, {}) = {} /\ Apart(<<>>, {})
  BY DEF Held, Apart
<1> QED BY <1>1, <1>2 DEF MemoryInv, ReaderType, HandOver, HeldOnce, Statuses

\* A value that could not be read: what was allocated for it is freed.
LEMMA FailKeeps ==
  ASSUME MemoryInv, pc # "return", NEW n \in Nat, NEW status \in Statuses \ {"OK"},
         Fail(status, n, Fresh(n)) \/ (n = 0 /\ Fail(status, n, {})),
         UNCHANGED frames
  PROVE  MemoryInv'
<1>1. /\ result' = [status |-> status, owned |-> {}] /\ pc' = "return"
      /\ allocs' = allocs + n
      /\ heap' = (heap \cup Fresh(n)) \ Fresh(n) \/ (n = 0 /\ heap' = (heap \cup Fresh(0)) \ {})
  BY DEF Fail, Goto
<1>2. Fresh(n) \cap heap = {} /\ Fresh(0) = {} /\ heap \subseteq 1..(allocs + n) /\ allocs \in Nat
  BY FreshIs DEF Fresh, MemoryInv, ReaderType
<1>3. heap' = heap
  BY <1>1, <1>2
<1>4. result.owned = {} /\ result'.owned = {} /\ result'.status = status
  BY <1>1 DEF MemoryInv, HandOver
<1>5. ReaderType'
  BY <1>1 DEF MemoryInv, ReaderType
<1>6. HandOver'
  BY <1>1, <1>4 DEF HandOver
<1>7. HeldOnce'
  BY <1>1, <1>2, <1>3, <1>4 DEF MemoryInv, HeldOnce
<1> QED BY <1>5, <1>6, <1>7 DEF MemoryInv

\* A call that fails frees all it holds ...
LEMMA FailFrameKeeps ==
  ASSUME MemoryInv, frames # <<>>, NEW n \in Nat, NEW status \in Statuses \ {"OK"}, NEW freed,
         FailFrame(status, n, freed),
         freed \cup Frame.owned = Fresh(n) \cup result.owned \cup Blocks(Frame)
  PROVE  MemoryInv'
<1>1. /\ frames' = Front(frames)
      /\ result' = [status |-> status, owned |-> {}] /\ pc' = "return"
      /\ allocs' = allocs + n
      /\ heap' = (heap \cup Fresh(n)) \ (freed \cup Frame.owned)
  BY DEF FailFrame, Fail, Goto
<1>2. result'.owned = {} /\ result'.status = status
  BY <1>1
<1>3. Fresh(n) \cap heap = {} /\ heap \subseteq 1..(allocs + n)
  BY FreshIs
<1>4. /\ Apart(Front(frames), {})
      /\ Held(Front(frames), {}) = heap \ (result.owned \cup Blocks(Frame))
  BY FrontHeld DEF MemoryInv, ReaderType, HeldOnce, Frame
<1>5. heap' = heap \ (result.owned \cup Blocks(Frame))
  BY <1>1, <1>3
<1>6. ReaderType'
  BY <1>1, FrontIs, SMTT(30) DEF MemoryInv, ReaderType
<1>7. HandOver'
  BY <1>1, <1>2 DEF HandOver
<1>8. HeldOnce'
  BY <1>1, <1>2, <1>3, <1>4, <1>5 DEF HeldOnce
<1> QED BY <1>6, <1>7, <1>8 DEF MemoryInv

\* ... and one that comes to its closing bracket returns what it owns.
LEMMA CloseKeeps ==
  ASSUME MemoryInv, frames # <<>>, pc \in {"first", "next"}, Close
  PROVE  MemoryInv'
<1>1. /\ frames' = Front(frames)
      /\ result' = [status |-> "OK", owned |-> Frame.owned] /\ pc' = "return"
      /\ allocs' = allocs /\ heap' = heap
  BY DEF Close, Skip, Goto
<1>2. result'.owned = Frame.owned /\ result'.status = "OK"
  BY <1>1
<1>3. result.owned = {} /\ Frame.key = {} /\ Blocks(Frame) = Frame.owned
  BY DEF MemoryInv, HandOver, Blocks
<1>4. /\ Apart(Front(frames), Frame.owned)
      /\ Held(Front(frames), Frame.owned) = (heap \ Frame.owned) \cup Frame.owned
  BY <1>3, FrontHeld DEF MemoryInv, ReaderType, HeldOnce, Frame
<1>5. Frame.owned \subseteq heap
  <2>1. Frame = frames[Len(frames)] /\ Len(frames) \in DOMAIN frames
    BY FrontIs DEF Frame, MemoryInv, ReaderType
  <2>2. Blocks(Frame) \subseteq Held(frames, result.owned)
    BY <2>1 DEF Held
  <2> QED BY <1>3, <2>2 DEF MemoryInv, HeldOnce
<1>6. Frame \in FrameType
  BY FrontIs DEF Frame, MemoryInv, ReaderType
<1>7. ReaderType'
  <2>1. result' \in [status : Statuses, owned : SUBSET Nat]
    BY <1>1, <1>6 DEF FrameType, Statuses
  <2>2. frames' \in Seq(FrameType) /\ \A i \in DOMAIN frames' : ~frames'[i].object => frames'[i].key = {}
    <3>1. \A i \in 1..(Len(frames) - 1) : i \in DOMAIN frames /\ Front(frames)[i] = frames[i]
      BY FrontIs DEF MemoryInv, ReaderType
    <3> QED BY <1>1, <3>1, FrontIs DEF MemoryInv, ReaderType
  <2> QED BY <1>1, <2>1, <2>2 DEF MemoryInv, ReaderType
<1>8. HandOver'
  BY <1>1, <1>2 DEF HandOver
<1>9. HeldOnce'
  BY <1>1, <1>2, <1>4, <1>5 DEF MemoryInv, HeldOnce
<1> QED BY <1>7, <1>8, <1>9 DEF MemoryInv

\* A call goes on with what it held, what was returned to it and new blocks.
LEMMA ReplaceKeeps ==
  ASSUME MemoryInv, frames # <<>>, NEW n \in Nat, NEW g \in FrameType,
         frames' = Append(Front(frames), g),
         result' \in [status : Statuses, owned : SUBSET Nat], result'.owned = {},
         Allocate(n),
         Blocks(g) = Blocks(Frame) \cup result.owned \cup Fresh(n),
         g.owned \cap g.key = {}, ~g.object => g.key = {},
         pc' \in {"first", "key", "next"} => g.key = {}
  PROVE  MemoryInv'
<1>1. allocs' = allocs + n /\ heap' = heap \cup Fresh(n)
  BY DEF Allocate
<1>2. Fresh(n) \cap heap = {} /\ heap \cup Fresh(n) \subseteq 1..(allocs + n)
  BY FreshIs
<1> DEFINE fs == Front(frames)
<1>3. /\ fs \in Seq(FrameType)
      /\ Last(frames) = frames[Len(frames)] /\ Len(frames) \in DOMAIN frames
      /\ \A i \in DOMAIN fs : fs[i] = frames[i] /\ i \in DOMAIN frames
  BY FrontIs, SMTT(30) DEF MemoryInv, ReaderType
<1>4. /\ Apart(fs, {})
      /\ Held(fs, {}) = heap \ (result.owned \cup Blocks(Frame))
  BY FrontHeld DEF MemoryInv, ReaderType, HeldOnce, Frame
<1>5. result.owned \cup Blocks(Frame) \subseteq heap
  BY <1>3 DEF Held, Frame, MemoryInv, HeldOnce
<1> HIDE DEF fs
<1>6. Blocks(g) \cap Held(fs, {}) = {}
  BY <1>2, <1>4
<1>7. /\ Apart(Append(fs, g), {})
      /\ Held(Append(fs, g), {}) = Held(fs, {}) \cup Blocks(g)
  BY <1>3, <1>4, <1>6, AppendHeld
<1>8. frames' = Append(fs, g)
  BY DEF fs
<1>9. HeldOnce'
  <2>1. heap' = Held(fs, {}) \cup Blocks(g)
    BY <1>1, <1>4, <1>5
  <2> QED BY <1>1, <1>2, <1>7, <1>8, <2>1 DEF HeldOnce
<1>10. /\ frames' \in Seq(FrameType) /\ DOMAIN frames' = 1..(Len(fs) + 1)
       /\ Last(frames') = g
       /\ \A i \in DOMAIN frames' : (i \in DOMAIN fs /\ frames'[i] = frames[i]) \/ frames'[i] = g
  BY <1>3, <1>8, AppendIs DEF Last
<1>11. ReaderType'
  BY <1>1, <1>3, <1>10 DEF MemoryInv, ReaderType
<1>12. HandOver'
  BY <1>10 DEF HandOver, Frame
<1> QED BY <1>9, <1>11, <1>12 DEF MemoryInv

LEMMA PushKeeps ==
  ASSUME MemoryInv, frames # <<>>, pc = "return", result.status = "OK", Push
  PROVE  MemoryInv'
<1> DEFINE full == Frame.count = Frame.capacity
           first == IF Frame.capacity = 0 THEN 1 ELSE 0
           g == [Frame EXCEPT
                    !.owned = @ \cup Frame.key \cup result.owned \cup Fresh(first),
                    !.key = {},
                    !.count = @ + 1,
                    !.capacity = IF ~full THEN @
                                 ELSE IF @ = 0 THEN FirstCapacity ELSE 2 * @]
<1>1. Frame \in FrameType /\ result.owned \in SUBSET Nat /\ first \in Nat
  BY FrontIs DEF Frame, MemoryInv, ReaderType
<1>2. Fresh(first) \in SUBSET Nat
  BY <1>1, FreshIs
<1>3. CASE FailFrame("NO_MEMORY", 0, Frame.key \cup result.owned)
  <2>1. Fresh(0) = {}
    BY DEF Fresh, MemoryInv, ReaderType
  <2>2. Frame.key \cup result.owned \cup Frame.owned = Fresh(0) \cup result.owned \cup Blocks(Frame)
    BY <2>1 DEF Blocks
  <2> QED BY <1>3, <2>2, FailFrameKeeps DEF Statuses
<1>4. CASE /\ frames' = Append(Front(frames), g)
           /\ result' = Nothing
           /\ Allocate(first) /\ Goto("next")
  <2>1. g \in FrameType /\ g.key = {}
        /\ g.owned = Frame.owned \cup Frame.key \cup result.owned \cup Fresh(first)
    <3> DEFINE owned == Frame.owned \cup Frame.key \cup result.owned \cup Fresh(first)
               capacity == IF ~full THEN Frame.capacity
                           ELSE IF Frame.capacity = 0 THEN FirstCapacity ELSE 2 * Frame.capacity
    <3>1. owned \in SUBSET Nat
      BY <1>1, <1>2 DEF FrameType
    <3>2. capacity \in Nat
      BY <1>1, JsonAssumption DEF FrameType
    <3>3. g = [Frame EXCEPT !.owned = owned, !.key = {}, !.count = Frame.count + 1, !.capacity = capacity]
      OBVIOUS
    <3> HIDE DEF g, owned, capacity
    <3>4. g \in FrameType /\ g.key = {} /\ g.owned = owned
      <4>1. Frame.object \in BOOLEAN /\ Frame.count + 1 \in Nat
        BY <1>1 DEF FrameType
      <4>2. g = [object |-> Frame.object, owned |-> owned, key |-> {},
                 count |-> Frame.count + 1, capacity |-> capacity]
        BY <1>1, <3>3 DEF FrameType
      <4> QED BY <3>1, <3>2, <4>1, <4>2 DEF FrameType
    <3> QED BY <3>4 DEF owned
  <2>2. result' \in [status : Statuses, owned : SUBSET Nat] /\ result'.owned = {}
    BY <1>4 DEF Nothing, Statuses
  <2>3. Blocks(g) = Blocks(Frame) \cup result.owned \cup Fresh(first)
    BY <2>1 DEF Blocks
  <2> HIDE DEF g, first
  <2> QED BY <1>1, <1>4, <2>1, <2>2, <2>3, ReplaceKeeps
<1> QED BY <1>3, <1>4 DEF Push

LEMMA SameMemory ==
  ASSUME MemoryInv, UNCHANGED <<frames, result, heap, allocs>>,
         pc' \in {"first", "key", "next"} /\ frames # <<>> => Frame.key = {},
         pc # "return" \/ pc' = pc
  PROVE  MemoryInv'
<1>1. ReaderType' /\ HeldOnce'
  BY DEF MemoryInv, ReaderType, HeldOnce
<1>2. HandOver'
  BY DEF MemoryInv, HandOver, Frame
<1> QED BY <1>1, <1>2 DEF MemoryInv

LEMMA ValueStep ==
  ASSUME MemoryInv, ParseValue
  PROVE  MemoryInv'
<1>1. pc = "value" /\ pc # "return" /\ {"UNSUPPORTED", "INVALID_ARG", "NO_MEMORY"} \subseteq Statuses \ {"OK"}
  BY DEF ParseValue, ValueTooDeep, ValueMissing, Open, Simple, ValueMay, Reading, Statuses
<1>2. CASE ValueTooDeep
  BY <1>1, <1>2, FailKeeps DEF ValueTooDeep
<1>3. CASE ValueMissing
  BY <1>1, <1>3, FailKeeps DEF ValueMissing
<1>4. ASSUME NEW token, NEW object \in BOOLEAN, Open(token, object)
      PROVE  MemoryInv'
  <2>1. CASE Fail("NO_MEMORY", 0, {}) /\ UNCHANGED frames
    BY <1>1, <2>1, FailKeeps
  <2> DEFINE g == [object |-> object, owned |-> Fresh(1), key |-> {}, count |-> 0, capacity |-> 0]
  <2>2. CASE frames' = Append(frames, g) /\ Allocate(1) /\ Skip("first") /\ UNCHANGED result
    <3>1. Fresh(1) \cap heap = {} /\ heap \cup Fresh(1) \subseteq 1..(allocs + 1)
          /\ Fresh(1) \in SUBSET Nat
      BY FreshIs
    <3>2. g \in FrameType /\ g.owned = Fresh(1) /\ g.key = {} /\ Blocks(g) = Fresh(1)
      BY <1>4, <3>1 DEF FrameType, Blocks
    <3> HIDE DEF g
    <3>3. frames \in Seq(FrameType) /\ Apart(frames, result.owned)
          /\ heap = Held(frames, result.owned) /\ result.owned = {} /\ allocs \in Nat
      BY <1>1 DEF MemoryInv, ReaderType, HeldOnce, HandOver
    <3>4. /\ Apart(Append(frames, g), result.owned)
          /\ Held(Append(frames, g), result.owned) = heap \cup Fresh(1)
      BY <3>1, <3>2, <3>3, AppendHeld
    <3>5. /\ frames' = Append(frames, g) /\ result' = result /\ pc' = "first"
          /\ allocs' = allocs + 1 /\ heap' = heap \cup Fresh(1)
      BY <2>2 DEF Allocate, Skip, Goto
    <3>6. /\ frames' \in Seq(FrameType) /\ Last(frames') = g /\ DOMAIN frames = 1..Len(frames)
          /\ \A i \in DOMAIN frames' : (i \in DOMAIN frames /\ frames'[i] = frames[i]) \/ frames'[i] = g
      BY <3>2, <3>3, <3>5, AppendIs DEF Last
    <3>7. ReaderType'
      BY <3>2, <3>3, <3>5, <3>6 DEF MemoryInv, ReaderType
    <3>8. HandOver'
      BY <3>2, <3>3, <3>5, <3>6 DEF HandOver, Frame
    <3>9. HeldOnce'
      BY <3>1, <3>4, <3>5 DEF HeldOnce
    <3> QED BY <3>7, <3>8, <3>9 DEF MemoryInv
  <2> QED BY <1>4, <2>1, <2>2 DEF Open
<1>5. ASSUME NEW token, NEW n \in Nat \ {0}, Simple(token, n)
      PROVE  MemoryInv'
  <2>1. CASE \E m \in 0..(n - 1) : Fail("NO_MEMORY", m, Fresh(m))
    BY <1>1, <1>5, <2>1, FailKeeps DEF Simple
  <2>2. CASE /\ result' = [status |-> "OK", owned |-> Fresh(n)]
             /\ Allocate(n) /\ Skip("return")
    <3>1. Fresh(n) \cap heap = {} /\ heap \cup Fresh(n) \subseteq 1..(allocs + n)
          /\ Fresh(n) \in SUBSET Nat
      BY FreshIs
    <3>2. /\ frames' = frames /\ pc' = "return" /\ result'.owned = Fresh(n) /\ result'.status = "OK"
          /\ allocs' = allocs + n /\ heap' = heap \cup Fresh(n) /\ result.owned = {}
      BY <1>1, <1>5, <2>2 DEF Simple, Allocate, Skip, Goto, MemoryInv, HandOver
    <3>3. ReaderType'
      BY <2>2, <3>1, <3>2 DEF MemoryInv, ReaderType, Statuses
    <3>4. HandOver'
      BY <3>2 DEF HandOver
    <3>5. Held(frames, Fresh(n)) = Held(frames, {}) \cup Fresh(n)
      BY DEF Held
    <3>6. Apart(frames, Fresh(n))
      BY <3>1, <3>2 DEF MemoryInv, HeldOnce, Held, Apart
    <3>7. HeldOnce'
      BY <3>1, <3>2, <3>5, <3>6 DEF MemoryInv, HeldOnce
    <3> QED BY <3>3, <3>4, <3>7 DEF MemoryInv
  <2> QED BY <1>5, <2>1, <2>2, Zenon DEF Simple
<1>6. 1 \in Nat \ {0} /\ 2 \in Nat \ {0}
  OBVIOUS
<1> QED BY <1>2, <1>3, <1>4, <1>5, <1>6, Zenon DEF ParseValue

LEMMA MemoryStep == ASSUME MemoryInv, [Next]_vars PROVE MemoryInv'
<1>1. CASE Write \/ Damage \/ Parse \/ UNCHANGED vars
  <2>1. UNCHANGED reader
    BY <1>1 DEF Write, Scalar, BeginObject, BeginArray, Begin, EndObject, EndArray, End, Key,
                Finish, Misuse, Emit, Damage, Parse, vars
  <2> QED BY <2>1 DEF reader, MemoryInv, ReaderType, HandOver, HeldOnce, Frame
<1>2. CASE ParseValue
  BY <1>2, ValueStep
<1>3. CASE ParseEnds
  <2>1. frames = <<>> /\ frames' = frames /\ pc' = pc /\ pc = "return" /\ allocs' = allocs
    BY <1>3 DEF ParseEnds, Reading
  <2>2. CASE UNCHANGED <<result, heap>>
    BY <2>1, <2>2 DEF MemoryInv, ReaderType, HandOver, HeldOnce, Frame
  <2>3. CASE /\ result' = [status |-> "INVALID_ARG", owned |-> {}]
             /\ heap' = heap \ result.owned
    <3>1. \A value : Held(<<>>, value) = value /\ Apart(<<>>, value)
      BY DEF Held, Apart
    <3>2. heap' = {} /\ result'.owned = {}
      BY <2>1, <2>3, <3>1 DEF MemoryInv, HeldOnce
    <3> QED BY <2>1, <2>3, <3>1, <3>2 DEF MemoryInv, ReaderType, HandOver, HeldOnce, Statuses
  <2> QED BY <1>3, <2>2, <2>3 DEF ParseEnds
<1>4. Fresh(0) = {}
  BY DEF Fresh, MemoryInv, ReaderType
<1>5. {"INVALID_ARG", "NO_MEMORY"} \subseteq Statuses \ {"OK"}
  BY DEF Statuses
<1>6. frames # <<>> => Frame \in FrameType
  BY FrontIs DEF Frame, MemoryInv, ReaderType
<1>7. frames # <<>> /\ pc \in {"first", "key", "next"} =>
        Frame.key = {} /\ result.owned = {} /\ Blocks(Frame) = Frame.owned
  BY DEF MemoryInv, HandOver, Blocks
<1>8. CASE ObjectFirst \/ ArrayFirst
  <2>1. frames # <<>> /\ pc = "first"
    BY <1>8 DEF ObjectFirst, ArrayFirst, AtObject, AtArray, Reading
  <2>2. CASE Close
    BY <2>1, <2>2, CloseKeeps
  <2>3. CASE pc' \in {"key", "value"} /\ UNCHANGED <<pos, frames, result, heap, allocs>>
    BY <1>7, <2>1, <2>3, SameMemory
  <2> QED BY <1>8, <2>2, <2>3 DEF ObjectFirst, ArrayFirst, Goto
<1>9. CASE ObjectKey
  <2>1. frames # <<>> /\ pc = "key"
    BY <1>9 DEF ObjectKey, AtObject, Reading
  <2>2. CASE FailFrame("NO_MEMORY", 0, {})
    <3>1. {} \cup Frame.owned = Fresh(0) \cup result.owned \cup Blocks(Frame)
      BY <1>4, <1>7, <2>1
    <3> QED BY <1>5, <2>1, <2>2, <3>1, FailFrameKeeps
  <2>3. CASE FailFrame("INVALID_ARG", 1, Fresh(1))
    <3>1. Fresh(1) \cup Frame.owned = Fresh(1) \cup result.owned \cup Blocks(Frame)
      BY <1>7, <2>1
    <3> QED BY <1>5, <2>1, <2>3, <3>1, FailFrameKeeps
  <2> DEFINE g == [Frame EXCEPT !.key = Fresh(1)]
  <2>4. CASE frames' = Append(Front(frames), g) /\ Allocate(1) /\ Skip("colon") /\ UNCHANGED result
    <3>1. Fresh(1) \cap heap = {} /\ Fresh(1) \in SUBSET Nat
      BY FreshIs
    <3>2. g \in FrameType /\ g.owned = Frame.owned /\ g.key = Fresh(1) /\ g.object = Frame.object
      BY <1>6, <2>1, <3>1 DEF FrameType
    <3> HIDE DEF g
    <3>3. Frame.owned \subseteq heap
      <4>1. Frame = frames[Len(frames)] /\ Len(frames) \in DOMAIN frames
        BY <2>1, FrontIs DEF Frame, MemoryInv, ReaderType
      <4> QED BY <4>1 DEF MemoryInv, HeldOnce, Held, Blocks
    <3>4. Blocks(g) = Blocks(Frame) \cup result.owned \cup Fresh(1) /\ g.owned \cap g.key = {}
      BY <1>7, <2>1, <3>1, <3>2, <3>3 DEF Blocks
    <3>5. g.object
      BY <1>9, <3>2 DEF ObjectKey, AtObject
    <3>6. pc' = "colon"
      BY <2>4 DEF Skip, Goto
    <3>7. result' \in [status : Statuses, owned : SUBSET Nat] /\ result'.owned = {}
      BY <1>7, <2>1, <2>4 DEF MemoryInv, ReaderType
    <3> QED BY <2>1, <2>4, <3>2, <3>4, <3>5, <3>6, <3>7, ReplaceKeeps
  <2> QED BY <1>9, <2>2, <2>3, <2>4 DEF ObjectKey
<1>10. CASE ObjectColon
  <2>1. frames # <<>> /\ pc = "colon" /\ result.owned = {}
    BY <1>10 DEF ObjectColon, AtObject, Reading, MemoryInv, HandOver
  <2>2. CASE FailFrame("INVALID_ARG", 0, Frame.key)
    <3>1. Frame.key \cup Frame.owned = Fresh(0) \cup result.owned \cup Blocks(Frame)
      BY <1>4, <2>1 DEF Blocks
    <3> QED BY <1>5, <2>1, <2>2, <3>1, FailFrameKeeps
  <2>3. CASE pc' = "value" /\ UNCHANGED <<frames, result, heap, allocs>>
    BY <2>1, <2>3, SameMemory
  <2> QED BY <1>10, <2>2, <2>3 DEF ObjectColon, Skip, Goto
<1>11. CASE ObjectMember \/ ArrayElement
  <2>1. frames # <<>> /\ pc = "return"
    BY <1>11 DEF ObjectMember, ArrayElement, AtObject, AtArray, Reading
  <2>2. CASE result.status = "OK" /\ Push
    BY <2>1, <2>2, PushKeeps
  <2>3. CASE /\ result.status # "OK"
             /\ \/ FailFrame(result.status, 0, Frame.key)
                \/ FailFrame(result.status, 0, {}) /\ ~Frame.object
    <3>1. result.owned = {} /\ result.status \in Statuses \ {"OK"}
      BY <2>3 DEF MemoryInv, ReaderType, HandOver
    <3>2. ~Frame.object => Frame.key = {}
      BY <2>1, FrontIs DEF Frame, MemoryInv, ReaderType
    <3>3. /\ Frame.key \cup Frame.owned = Fresh(0) \cup result.owned \cup Blocks(Frame)
          /\ ~Frame.object => {} \cup Frame.owned = Fresh(0) \cup result.owned \cup Blocks(Frame)
      BY <1>4, <3>1, <3>2 DEF Blocks
    <3> QED BY <2>1, <2>3, <3>1, <3>3, FailFrameKeeps
  <2> QED BY <1>11, <2>2, <2>3 DEF ObjectMember, ArrayElement, AtArray
<1>12. CASE ObjectNext \/ ArrayNext
  <2>1. frames # <<>> /\ pc = "next"
    BY <1>12 DEF ObjectNext, ArrayNext, AtObject, AtArray, Reading
  <2>2. CASE Close
    BY <2>1, <2>2, CloseKeeps
  <2>3. CASE FailFrame("INVALID_ARG", 0, {})
    <3>1. {} \cup Frame.owned = Fresh(0) \cup result.owned \cup Blocks(Frame)
      BY <1>4, <1>7, <2>1
    <3> QED BY <1>5, <2>1, <2>3, <3>1, FailFrameKeeps
  <2>4. CASE pc' \in {"key", "value"} /\ UNCHANGED <<frames, result, heap, allocs>>
    BY <1>7, <2>1, <2>4, SameMemory
  <2> QED BY <1>12, <2>2, <2>3, <2>4 DEF ObjectNext, ArrayNext, Skip, Goto
<1> QED BY <1>1, <1>2, <1>3, <1>8, <1>9, <1>10, <1>11, <1>12 DEF Next, Read

\* On no path of the reader is a block leaked or owned twice: what is allocated
\* is what the calls under way and the value returned own, for every text,
\* every depth and every failing allocation.
THEOREM NothingLeaks == Spec => []NoLeak
<1>1. Init => MemoryInv
  BY InitMemory
<1>2. MemoryInv /\ [Next]_vars => MemoryInv'
  BY MemoryStep
<1>3. MemoryInv => NoLeak
  <2> SUFFICES ASSUME MemoryInv PROVE NoLeak
    OBVIOUS
  <2>1. Len(frames) \in Nat /\ DOMAIN frames = 1..Len(frames)
    BY DEF MemoryInv, ReaderType
  <2>2. heap = UNION {o[2] : o \in Owners}
    <3>1. heap = result.owned \cup UNION {frames[i].owned \cup frames[i].key : i \in DOMAIN frames}
      BY DEF MemoryInv, HeldOnce, Held, Blocks
    <3>2. ASSUME NEW o \in Owners PROVE o[2] \subseteq heap
      BY <3>1 DEF Owners
    <3>3. /\ <<0, result.owned>> \in Owners
          /\ \A i \in DOMAIN frames : /\ <<i, frames[i].owned>> \in Owners
                                      /\ <<Len(frames) + i, frames[i].key>> \in Owners
      BY DEF Owners
    <3> HIDE DEF Owners
    <3>0. \A k, blocks : <<k, blocks>> \in Owners => blocks \subseteq UNION {o[2] : o \in Owners}
      <4>1. \A o \in Owners : o[2] \subseteq UNION {p[2] : p \in Owners}
        OBVIOUS
      <4>2. \A k, blocks : <<k, blocks>>[2] = blocks
        OBVIOUS
      <4> QED BY <4>1, <4>2, Zenon
    <3>4. result.owned \subseteq UNION {o[2] : o \in Owners}
      BY <3>0, <3>3
    <3>5. \A i \in DOMAIN frames : frames[i].owned \cup frames[i].key \subseteq UNION {o[2] : o \in Owners}
      BY <3>0, <3>3
    <3> QED BY <3>1, <3>2, <3>4, <3>5
  <2>3. ASSUME NEW o \in Owners, NEW p \in Owners, o # p PROVE o[2] \cap p[2] = {}
    BY <2>1, <2>3 DEF MemoryInv, HeldOnce, Apart, Blocks, Owners
  <2> QED BY <2>2, <2>3 DEF NoLeak
<1> QED BY <1>1, <1>2, <1>3, PTL DEF Spec

-----------------------------------------------------------------------------
(***************************************************************************)
(* Induction over the numbers up to a bound, and loops.                    *)
(***************************************************************************)
\* The order of the natural numbers, as a relation.
Less == {ij \in Nat \X Nat : ij[1] < ij[2]}

\* Among numbers there is a least one.
LEMMA LeastExists ==
  ASSUME NEW hits \in SUBSET Nat, hits # {}
  PROVE  \E i \in hits : \A j \in hits : i <= j
<1>1. IsWellFoundedOn(Less, Nat)
  BY NatLessThanWellFounded, Zenon DEF OpToRel, Less
<1>2. PICK i \in hits : \A j \in hits : ~ (<<j, i>> \in Less)
  BY <1>1, WFMin
<1>3. \A j \in hits : ~ (j < i)
  BY <1>2 DEF Less
<1> QED BY <1>3

\* What the numbers of a set have in common if each gives it to the next
LEMMA Inductively ==
  ASSUME NEW N \in Nat, NEW good, 0 \in good,
         \A n \in 1..N : n - 1 \in good => n \in good
  PROVE  \A n \in 0..N : n \in good
<1> SUFFICES ASSUME NEW n \in 0..N, n \notin good PROVE FALSE
  OBVIOUS
<1> DEFINE bad == {k \in 0..N : k \notin good}
<1>1. bad \in SUBSET Nat /\ n \in bad
  OBVIOUS
<1>2. PICK k \in bad : \A j \in bad : k <= j
  BY <1>1, LeastExists
<1>3. k \in 1..N /\ k - 1 \in 0..N /\ ~ (k <= k - 1)
  BY <1>2
<1> QED BY <1>2, <1>3

\* A loop has a result for each of its first n steps.
Runs(S, step, start, n, f) ==
  /\ f \in [0..n -> S]
  /\ f[0] = start
  /\ \A k \in 1..n : f[k] = step[f[k - 1]]

LEMMA LoopStep ==
  ASSUME NEW S, NEW start \in S, NEW step \in [S -> S],
         NEW n \in Nat \ {0}, NEW f, Runs(S, step, start, n - 1, f)
  PROVE  \E g : Runs(S, step, start, n, g)
<1> DEFINE last == step[f[n - 1]]
           g == [k \in 0..n |-> IF k = n THEN last ELSE f[k]]
<1>1. f \in [0..(n - 1) -> S] /\ n - 1 \in 0..(n - 1) /\ f[0] = start
  BY DEF Runs
<1>2. last \in S
  BY <1>1
<1> HIDE DEF last
<1>3. g \in [0..n -> S]
  BY <1>1, <1>2
<1>4. g[0] = start /\ g[n] = last /\ \A k \in 0..(n - 1) : g[k] = f[k]
  BY <1>1
<1> HIDE DEF g
<1>5. ASSUME NEW k \in 1..n PROVE g[k] = step[g[k - 1]]
  <2>1. CASE k = n
    BY <1>1, <1>4, <2>1 DEF last
  <2>2. CASE k # n
    <3>1. k \in 1..(n - 1) /\ k - 1 \in 0..(n - 1) /\ k \in 0..(n - 1)
      BY <2>2
    <3>2. f[k] = step[f[k - 1]]
      BY <3>1 DEF Runs
    <3> QED BY <1>4, <3>1, <3>2
  <2> QED BY <2>1, <2>2
<1> QED BY <1>3, <1>4, <1>5 DEF Runs

LEMMA LoopRuns ==
  ASSUME NEW S, NEW N \in Nat, NEW start \in S, NEW step \in [S -> S]
  PROVE  \E f : Runs(S, step, start, N, f)
<1> DEFINE good == {n \in 0..N : \E f : Runs(S, step, start, n, f)}
<1>1. Runs(S, step, start, 0, [k \in 0..0 |-> start])
  BY DEF Runs
<1>2. 0 \in good
  BY <1>1
<1>3. \A n \in 1..N : n - 1 \in good => n \in good
  BY LoopStep
<1> HIDE DEF good
<1>4. N \in good
  BY <1>2, <1>3, Inductively
<1> QED BY <1>4 DEF good

-----------------------------------------------------------------------------
(***************************************************************************)
(* The grammar: lists as the least sets closed under an item put before    *)
(* them, and so under one put behind them.                                 *)
(***************************************************************************)
\* Where an item ends, a comma and a list may follow.
Joins(t, i, s) == s[1] = i[2] + 2 /\ t[i[2] + 1] = ","

LEMMA SpanIs ==
  ASSUME NEW t, NEW s \in Spans(t)
  PROVE  s = <<s[1], s[2]>> /\ s[1] \in DOMAIN t /\ s[2] \in DOMAIN t /\ s[1] <= s[2]
BY DEF Spans

LEMMA LongerIs ==
  ASSUME NEW t, NEW items, NEW lists
  PROVE  /\ items \subseteq Longer(t, items, lists)
         /\ \A i \in items, s \in lists : Joins(t, i, s) => <<i[1], s[2]>> \in Longer(t, items, lists)
         /\ \A s \in Longer(t, items, lists) :
              s \in items \/ \E i \in items, r \in lists : s = <<i[1], r[2]>> /\ Joins(t, i, r)
<1>1. items \subseteq Longer(t, items, lists)
  BY DEF Longer
<1>2. ASSUME NEW i \in items, NEW s \in lists, Joins(t, i, s)
      PROVE  <<i[1], s[2]>> \in Longer(t, items, lists)
  <2> DEFINE p == <<i, s>>
  <2>1. p \in items \X lists /\ p[1] = i /\ p[2] = s
    OBVIOUS
  <2> QED BY <1>2, <2>1 DEF Longer, Joins
<1>3. ASSUME NEW s \in Longer(t, items, lists), s \notin items
      PROVE  \E i \in items, r \in lists : s = <<i[1], r[2]>> /\ Joins(t, i, r)
  <2>1. PICK p \in items \X lists :
          s = <<p[1][1], p[2][2]>> /\ p[2][1] = p[1][2] + 2 /\ t[p[1][2] + 1] = ","
    BY <1>3 DEF Longer
  <2> QED BY <2>1 DEF Joins
<1> QED BY <1>1, <1>2, <1>3

LEMMA LongerSpans ==
  ASSUME NEW S, NEW t \in Seq(S), NEW items \in SUBSET Spans(t), NEW lists \in SUBSET Spans(t)
  PROVE  Longer(t, items, lists) \in SUBSET Spans(t)
<1> SUFFICES ASSUME NEW s \in Longer(t, items, lists), s \notin items PROVE s \in Spans(t)
  OBVIOUS
<1>1. PICK i \in items, r \in lists : s = <<i[1], r[2]>> /\ Joins(t, i, r)
  BY LongerIs
<1>2. /\ i[1] \in DOMAIN t /\ i[2] \in DOMAIN t /\ i[1] <= i[2]
      /\ r[1] \in DOMAIN t /\ r[2] \in DOMAIN t /\ r[1] <= r[2]
  BY SpanIs
<1>3. i[1] \in Nat /\ i[2] \in Nat /\ r[1] \in Nat /\ r[2] \in Nat
  <2>1. DOMAIN t = 1..Len(t) /\ Len(t) \in Nat
    OBVIOUS
  <2> QED BY <1>2, <2>1
<1>4. r[1] = i[2] + 2
  BY <1>1 DEF Joins
<1>5. i[1] <= r[2]
  BY <1>2, <1>3, <1>4
<1> QED BY <1>1, <1>2, <1>5 DEF Spans

\* The lists of so many items
ListsOf(t, items, rest) ==
  [n \in 0..Len(t) |-> IF n = 0 THEN items ELSE Longer(t, items, rest[n - 1])]

ListsUpTo(t, items) == CHOOSE f : f = ListsOf(t, items, f)

LEMMA ListsIs == ASSUME NEW t, NEW items PROVE Lists(t, items) = ListsUpTo(t, items)[Len(t)]
BY Zenon DEF Lists, ListsUpTo, ListsOf

LEMMA ListsUnfold ==
  ASSUME NEW S, NEW t \in Seq(S), NEW items \in SUBSET Spans(t)
  PROVE  /\ ListsUpTo(t, items) \in [0..Len(t) -> SUBSET Spans(t)]
         /\ ListsUpTo(t, items)[0] = items
         /\ \A n \in 1..Len(t) :
              ListsUpTo(t, items)[n] = Longer(t, items, ListsUpTo(t, items)[n - 1])
<1> DEFINE N == Len(t)
           step == [lists \in SUBSET Spans(t) |-> Longer(t, items, lists)]
<1>1. step \in [SUBSET Spans(t) -> SUBSET Spans(t)]
  BY LongerSpans
<1>2. \A lists \in SUBSET Spans(t) : step[lists] = Longer(t, items, lists)
  OBVIOUS
<1>3. N \in Nat
  OBVIOUS
<1> HIDE DEF step
<1>4. PICK f : Runs(SUBSET Spans(t), step, items, N, f)
  BY <1>1, <1>3, LoopRuns
<1>5. f \in [0..N -> SUBSET Spans(t)] /\ f[0] = items /\ \A n \in 1..N : f[n] = step[f[n - 1]]
  BY <1>4 DEF Runs
<1>6. ASSUME NEW n \in 1..N PROVE f[n] = Longer(t, items, f[n - 1])
  <2>1. n - 1 \in 0..N
    OBVIOUS
  <2> QED BY <1>2, <1>5, <2>1
<1>7. f = ListsOf(t, items, f)
  <2>1. ASSUME NEW n \in 0..N PROVE f[n] = IF n = 0 THEN items ELSE Longer(t, items, f[n - 1])
    BY <1>5, <1>6
  <2>2. f = [n \in 0..N |-> f[n]]
    BY <1>5
  <2> QED BY <2>1, <2>2 DEF ListsOf
<1>8. ListsUpTo(t, items) = ListsOf(t, items, ListsUpTo(t, items))
  BY <1>7, Zenon DEF ListsUpTo
<1> DEFINE g == ListsUpTo(t, items)
<1>9. g = [n \in 0..N |-> IF n = 0 THEN items ELSE Longer(t, items, g[n - 1])]
  BY <1>8, Zenon DEF ListsOf
<1> HIDE DEF g
<1>10. g[0] = items /\ DOMAIN g = 0..N
  BY <1>3, <1>9
<1>11. ASSUME NEW n \in 1..N PROVE g[n] = Longer(t, items, g[n - 1])
  <2>1. n \in 0..N /\ n # 0
    OBVIOUS
  <2> QED BY <1>9, <2>1
<1>12. \A n \in 0..N : g[n] \in SUBSET Spans(t)
  <2> DEFINE good == {k \in 0..N : g[k] \in SUBSET Spans(t)}
  <2>1. 0 \in good
    BY <1>10
  <2>2. ASSUME NEW n \in 1..N, n - 1 \in good PROVE n \in good
    <3>1. g[n - 1] \in SUBSET Spans(t)
      BY <2>2
    <3>2. g[n] \in SUBSET Spans(t)
      BY <1>11, <3>1, LongerSpans
    <3> QED BY <3>2
  <2> HIDE DEF good
  <2>3. \A n \in 0..N : n \in good
    BY <1>3, <2>1, <2>2, Inductively
  <2> QED BY <2>3 DEF good
<1>13. g \in [0..N -> SUBSET Spans(t)]
  <2>1. g = [n \in 0..N |-> g[n]]
    BY <1>9, <1>10
  <2> QED BY <1>12, <2>1
<1> QED BY <1>10, <1>11, <1>13 DEF g

LEMMA LongerGrows ==
  ASSUME NEW t, NEW u, NEW A, NEW B, NEW L, NEW M, A \subseteq B, L \subseteq M,
         \A i \in A, s \in L : Joins(t, i, s) => Joins(u, i, s)
  PROVE  Longer(t, A, L) \subseteq Longer(u, B, M)
<1> SUFFICES ASSUME NEW s \in Longer(t, A, L) PROVE s \in Longer(u, B, M)
  OBVIOUS
<1>1. CASE s \in A
  BY <1>1, LongerIs
<1>2. CASE \E i \in A, r \in L : s = <<i[1], r[2]>> /\ Joins(t, i, r)
  <2>1. PICK i \in A, r \in L : s = <<i[1], r[2]>> /\ Joins(t, i, r)
    BY <1>2
  <2>2. i \in B /\ r \in M /\ Joins(u, i, r)
    BY <2>1
  <2> QED BY <2>1, <2>2, LongerIs
<1> QED BY <1>1, <1>2, LongerIs

\* A list of n + 1 items and no fewer has n commas and is as long.
LEMMA ListsAreLong ==
  ASSUME NEW S, NEW t \in Seq(S), NEW items \in SUBSET Spans(t)
  PROVE  \A n \in 1..Len(t) : \A s \in ListsUpTo(t, items)[n] :
           s \in ListsUpTo(t, items)[n - 1] \/ s[1] + n <= s[2]
<1> DEFINE N == Len(t)
           list == ListsUpTo(t, items)
           good == {n \in 0..N : n = 0 \/ \A s \in list[n] : s \in list[n - 1] \/ s[1] + n <= s[2]}
<1>1. /\ N \in Nat /\ list[0] = items
      /\ \A n \in 0..N : list[n] \subseteq Spans(t)
      /\ \A n \in 1..N : list[n] = Longer(t, items, list[n - 1])
  BY ListsUnfold
<1> HIDE DEF list
<1>2. \A s \in Spans(t) : s[1] \in Nat /\ s[2] \in Nat /\ s[1] <= s[2]
  BY SpanIs
<1>3. 0 \in good
  BY <1>1
<1>4. ASSUME NEW n \in 1..N, n - 1 \in good PROVE n \in good
  <2> SUFFICES ASSUME NEW s \in list[n], s \notin list[n - 1] PROVE s[1] + n <= s[2]
    OBVIOUS
  <2>1. n - 1 \in 0..N /\ n \in 0..N /\ list[n] = Longer(t, items, list[n - 1])
    BY <1>1
  <2>2. items \subseteq list[n - 1]
    <3>1. CASE n = 1
      BY <1>1, <3>1
    <3>2. CASE n # 1
      <4>1. n - 1 \in 1..N
        BY <3>2
      <4> QED BY <1>1, <4>1, LongerIs
    <3> QED BY <3>1, <3>2
  <2>3. PICK i \in items, r \in list[n - 1] : s = <<i[1], r[2]>> /\ Joins(t, i, r)
    BY <2>1, <2>2, LongerIs
  <2>4. /\ i \in Spans(t) /\ r \in Spans(t) /\ r[1] = i[2] + 2
        /\ s[1] = i[1] /\ s[2] = r[2]
    BY <1>1, <2>1, <2>3 DEF Joins
  <2>5. CASE n = 1
    BY <1>2, <2>4, <2>5
  <2>6. CASE n # 1
    <3>1. n - 1 \in 1..N /\ (n - 1) - 1 \in 0..N
      BY <2>6
    <3>2. r \notin list[(n - 1) - 1]
      <4>1. list[n - 1] = Longer(t, items, list[(n - 1) - 1])
        BY <1>1, <3>1
      <4>2. r \in list[(n - 1) - 1] => s \in list[n - 1]
        BY <2>3, <4>1, LongerIs
      <4> QED BY <4>2
    <3>3. r[1] + (n - 1) <= r[2]
      BY <1>4, <2>3, <3>1, <3>2
    <3> QED BY <1>2, <2>4, <3>3, SMTT(30)
  <2> QED BY <2>5, <2>6
<1> HIDE DEF good
<1>5. \A n \in 0..N : n \in good
  BY <1>1, <1>3, <1>4, Inductively
<1> USE DEF good
<1> QED BY <1>5 DEF list

\* No list is missing: one item more makes none that is not there.
LEMMA ListsFixed ==
  ASSUME NEW S, NEW t \in Seq(S), NEW items \in SUBSET Spans(t)
  PROVE  /\ Lists(t, items) \in SUBSET Spans(t)
         /\ Lists(t, items) = Longer(t, items, Lists(t, items))
<1> DEFINE N == Len(t)
           list == ListsUpTo(t, items)
           good == {n \in 0..N : n = 0 \/ list[n - 1] \subseteq list[n]}
<1>1. /\ N \in Nat /\ list[0] = items
      /\ \A n \in 0..N : list[n] \subseteq Spans(t)
      /\ \A n \in 1..N : list[n] = Longer(t, items, list[n - 1])
  BY ListsUnfold
<1>2. \A n \in 1..N : \A s \in list[n] : s \in list[n - 1] \/ s[1] + n <= s[2]
  BY ListsAreLong
<1>3. Lists(t, items) = list[N]
  BY ListsIs
<1> HIDE DEF list
<1>4. CASE N = 0
  <2>1. Spans(t) = {}
    BY <1>4 DEF Spans
  <2>2. items = {} /\ list[N] = {}
    BY <1>1, <1>4, <2>1
  <2>3. Longer(t, {}, {}) = {}
    BY LongerIs
  <2> QED BY <1>3, <2>2, <2>3
<1>5. CASE N # 0
  <2>1. 0 \in good
    BY <1>1
  <2>2. ASSUME NEW n \in 1..N, n - 1 \in good PROVE n \in good
    <3>1. list[n] = Longer(t, items, list[n - 1])
      BY <1>1
    <3>2. CASE n = 1
      BY <1>1, <3>1, <3>2, LongerIs
    <3>3. CASE n # 1
      <4>1. n - 1 \in 1..N
        BY <3>3
      <4>2. list[n - 1] = Longer(t, items, list[(n - 1) - 1]) /\ list[(n - 1) - 1] \subseteq list[n - 1]
        BY <1>1, <2>2, <4>1
      <4>3. Longer(t, items, list[(n - 1) - 1]) \subseteq Longer(t, items, list[n - 1])
        BY <4>2, LongerGrows
      <4> QED BY <3>1, <4>2, <4>3
    <3> QED BY <3>2, <3>3
  <2> HIDE DEF good
  <2>3. N \in good
    <3>1. \A n \in 0..N : n \in good
      BY <1>1, <2>1, <2>2, Inductively
    <3> QED BY <1>1, <3>1
  <2>4. N \in 1..N /\ N \in 0..N
    BY <1>1, <1>5
  <2>5. list[N - 1] \subseteq list[N]
    BY <1>5, <2>3 DEF good
  <2>6. list[N] \subseteq list[N - 1]
    <3> SUFFICES ASSUME NEW s \in list[N], ~ (s \in list[N - 1]) PROVE FALSE
      OBVIOUS
    <3>1. s[1] + N <= s[2]
      BY <1>2, <2>4
    <3>2. s \in Spans(t)
      BY <1>1, <2>4
    <3>3. s[1] \in 1..N /\ s[2] \in 1..N
      BY <3>2, SpanIs
    <3> QED BY <1>1, <3>1, <3>3
  <2>7. list[N - 1] = list[N]
    BY <2>5, <2>6
  <2>8. list[N] = Longer(t, items, list[N])
    BY <1>1, <2>4, <2>7
  <2> QED BY <1>1, <1>3, <2>4, <2>8
<1> QED BY <1>4, <1>5

\* An item may be put before a list, or behind it.
LEMMA ListsAre ==
  ASSUME NEW S, NEW t \in Seq(S), NEW items \in SUBSET Spans(t)
  PROVE  /\ Lists(t, items) \in SUBSET Spans(t) /\ items \subseteq Lists(t, items)
         /\ \A s \in Lists(t, items) :
              s \in items \/ \E i \in items, r \in Lists(t, items) :
                               s = <<i[1], r[2]>> /\ Joins(t, i, r)
         /\ \A s \in Lists(t, items), i \in items :
              Joins(t, s, i) => <<s[1], i[2]>> \in Lists(t, items)
<1> DEFINE L == Lists(t, items)
           N == Len(t)
           list == ListsUpTo(t, items)
<1>1. L \in SUBSET Spans(t) /\ L = Longer(t, items, L)
  BY ListsFixed
<1>2. /\ N \in Nat /\ list[0] = items /\ L = list[N]
      /\ \A n \in 1..N : list[n] = Longer(t, items, list[n - 1])
  BY ListsUnfold, ListsIs
<1> HIDE DEF L, list
<1>3. items \subseteq L
  BY <1>1, LongerIs
<1>4. \A s \in L : s \in items \/ \E i \in items, r \in L : s = <<i[1], r[2]>> /\ Joins(t, i, r)
  BY <1>1, LongerIs
<1>5. \A i \in items, s \in L : Joins(t, i, s) => <<i[1], s[2]>> \in L
  BY <1>1, LongerIs
<1>6. ASSUME NEW i \in items, NEW s \in L, Joins(t, s, i) PROVE <<s[1], i[2]>> \in L
  <2> DEFINE good == {n \in 0..N : \A r \in list[n] : Joins(t, r, i) => <<r[1], i[2]>> \in L}
  <2>1. 0 \in good
    BY <1>2, <1>3, <1>5
  <2>2. ASSUME NEW n \in 1..N, n - 1 \in good PROVE n \in good
    <3> SUFFICES ASSUME NEW r \in list[n], Joins(t, r, i) PROVE <<r[1], i[2]>> \in L
      OBVIOUS
    <3>1. CASE r \in items
      BY <1>3, <1>5, <3>1
    <3>2. CASE r \notin items
      <4>1. PICK j \in items, q \in list[n - 1] : r = <<j[1], q[2]>> /\ Joins(t, j, q)
        BY <1>2, <3>2, LongerIs
      <4>2. r[1] = j[1] /\ r[2] = q[2]
        BY <4>1
      <4>3. Joins(t, q, i)
        BY <4>2 DEF Joins
      <4>4. <<q[1], i[2]>> \in L
        BY <2>2, <4>1, <4>3
      <4>5. Joins(t, j, <<q[1], i[2]>>)
        BY <4>1 DEF Joins
      <4>6. <<j[1], <<q[1], i[2]>>[2]>> \in L
        BY <1>5, <4>4, <4>5
      <4> QED BY <4>2, <4>6
    <3> QED BY <3>1, <3>2
  <2> HIDE DEF good
  <2>3. N \in good
    <3>1. \A n \in 0..N : n \in good
      BY <1>2, <2>1, <2>2, Inductively
    <3> QED BY <1>2, <3>1
  <2> QED BY <1>2, <1>6, <2>3 DEF good
<1> QED BY <1>1, <1>3, <1>4, <1>6 DEF L

\* A text that goes on as another does
Begins(t, u) == Len(t) <= Len(u) /\ \A i \in DOMAIN t : u[i] = t[i]

LEMMA ListsGrow ==
  ASSUME NEW S, NEW t \in Seq(S), NEW u \in Seq(S), Begins(t, u),
         NEW A \in SUBSET Spans(t), NEW B \in SUBSET Spans(u), A \subseteq B
  PROVE  Lists(t, A) \subseteq Lists(u, B)
<1> DEFINE M == Lists(u, B)
           N == Len(t)
           list == ListsUpTo(t, A)
           good == {n \in 0..N : list[n] \subseteq M}
<1>1. M = Longer(u, B, M) /\ B \subseteq M
  BY ListsFixed, ListsAre
<1>2. /\ N \in Nat /\ list[0] = A
      /\ \A n \in 0..N : list[n] \subseteq Spans(t)
      /\ \A n \in 1..N : list[n] = Longer(t, A, list[n - 1])
  <2>1. /\ list \in [0..N -> SUBSET Spans(t)] /\ list[0] = A
        /\ \A n \in 1..N : list[n] = Longer(t, A, list[n - 1])
    BY ListsUnfold
  <2>2. N \in Nat
    OBVIOUS
  <2> HIDE DEF list, N
  <2> QED BY <2>1, <2>2
<1>2a. Lists(t, A) = list[N]
  BY ListsIs
<1> HIDE DEF M, list
<1>3. ASSUME NEW i \in Spans(t), NEW r \in Spans(t), Joins(t, i, r) PROVE Joins(u, i, r)
  <2>a. DOMAIN t = 1..N
    OBVIOUS
  <2>1. i[2] \in DOMAIN t /\ r[1] \in DOMAIN t /\ r[1] = i[2] + 2
    BY <1>3, SpanIs DEF Joins
  <2>2. i[2] + 1 \in DOMAIN t
    BY <1>2, <2>a, <2>1
  <2> QED BY <1>3, <2>1, <2>2 DEF Joins, Begins
<1>4. 0 \in good
  BY <1>1, <1>2
<1>5. ASSUME NEW n \in 1..N, n - 1 \in good PROVE n \in good
  <2>1. n - 1 \in 0..N /\ list[n - 1] \subseteq M /\ list[n - 1] \subseteq Spans(t)
    BY <1>2, <1>5
  <2>2. Longer(t, A, list[n - 1]) \subseteq Longer(u, B, M)
    BY <1>3, <2>1, LongerGrows
  <2> QED BY <1>1, <1>2, <2>2
<1> HIDE DEF good
<1>6. \A n \in 0..N : n \in good
  BY <1>2, <1>4, <1>5, Inductively
<1>7. N \in good
  BY <1>2, <1>6
<1> QED BY <1>7, <1>2a DEF good, M

-----------------------------------------------------------------------------
(* Objects and arrays are read alike: items between brackets.              *)

ItemsOf(t, object, values) == IF object THEN Members(t, values) ELSE values
OpenOf(object) == IF object THEN "{" ELSE "["
CloseOf(object) == IF object THEN "}" ELSE "]"

\* Where the value of an item starts, and a value an item starts with
IsItem(t, object, values, m) ==
  IF object THEN /\ t[m[1]] = "string" /\ t[m[1] + 1] = ":"
                 /\ <<m[1] + 2, m[2]>> \in values
  ELSE m \in values

LEMMA ItemsAre ==
  ASSUME NEW S, NEW t \in Seq(S), NEW values \in SUBSET Spans(t), NEW object \in BOOLEAN
  PROVE  /\ ItemsOf(t, object, values) \in SUBSET Spans(t)
         /\ \A b \in DOMAIN t : \A e : IsItem(t, object, values, <<b, e>>) =>
              <<b, e>> \in ItemsOf(t, object, values)
         /\ \A m \in ItemsOf(t, object, values) : IsItem(t, object, values, m)
<1>1. CASE ~object
  BY <1>1 DEF ItemsOf, IsItem
<1>2. CASE object
  <2>1. DOMAIN t = 1..Len(t) /\ Len(t) \in Nat
    OBVIOUS
  <2>2. ASSUME NEW m \in Members(t, values)
        PROVE  m \in Spans(t) /\ IsItem(t, object, values, m)
    <3>1. PICK s \in values : /\ m = <<s[1] - 2, s[2]>>
                              /\ s[1] > 2 /\ t[s[1] - 1] = ":" /\ t[s[1] - 2] = "string"
      BY DEF Members
    <3>2. s = <<s[1], s[2]>> /\ s[1] \in 1..Len(t) /\ s[2] \in 1..Len(t) /\ s[1] <= s[2]
      BY <2>1, SpanIs
    <3>3. m[1] = s[1] - 2 /\ m[2] = s[2] /\ m[1] \in 1..Len(t) /\ m[1] <= m[2]
          /\ m[1] + 2 = s[1] /\ m[1] + 1 = s[1] - 1
      BY <2>1, <3>1, <3>2
    <3>4. m \in Spans(t)
      BY <2>1, <3>1, <3>2, <3>3 DEF Spans
    <3>5. <<m[1] + 2, m[2]>> \in values
      BY <3>2, <3>3
    <3>6. t[m[1]] = "string" /\ t[m[1] + 1] = ":"
      BY <3>1, <3>3
    <3> QED BY <1>2, <3>4, <3>5, <3>6 DEF IsItem
  <2>3. ASSUME NEW b \in DOMAIN t, NEW e, IsItem(t, object, values, <<b, e>>)
        PROVE  <<b, e>> \in Members(t, values)
    <3> DEFINE s == <<b + 2, e>>
    <3>1. s \in values /\ t[b] = "string" /\ t[b + 1] = ":"
      BY <1>2, <2>3 DEF IsItem
    <3>2. b \in Nat /\ b >= 1
      BY <2>1
    <3>3. s[1] = b + 2 /\ s[2] = e /\ s[1] > 2 /\ s[1] - 1 = b + 1 /\ s[1] - 2 = b
      BY <3>2
    <3> HIDE DEF s
    <3>4. s \in {r \in values : r[1] > 2 /\ t[r[1] - 1] = ":" /\ t[r[1] - 2] = "string"}
      BY <3>1, <3>3
    <3>5. <<s[1] - 2, s[2]>> \in Members(t, values)
      BY <3>4 DEF Members
    <3> QED BY <3>3, <3>5
  <2> QED BY <1>2, <2>2, <2>3 DEF ItemsOf
<1> QED BY <1>1, <1>2

ItemLists(t, object, values) == Lists(t, ItemsOf(t, object, values))

\* A span between brackets
IsNested(t, object, values, s) ==
  /\ t[s[1]] = OpenOf(object) /\ t[s[2]] = CloseOf(object)
  /\ s[2] = s[1] + 1 \/ <<s[1] + 1, s[2] - 1>> \in ItemLists(t, object, values)

LEMMA NestedIs ==
  ASSUME NEW t, NEW values
  PROVE  /\ Nested(t, values) \in SUBSET Spans(t)
         /\ \A s \in Spans(t) :
              s \in Nested(t, values) <=>
                \/ s[1] = s[2] /\ t[s[1]] \in {"string", "scalar"}
                \/ \E object \in BOOLEAN : IsNested(t, object, values, s)
<1>1. ASSUME NEW s \in Spans(t)
      PROVE  /\ s \in Bracketed(t, "{", Lists(t, Members(t, values)), "}")
                  <=> IsNested(t, TRUE, values, s)
             /\ s \in Bracketed(t, "[", Lists(t, values), "]") <=> IsNested(t, FALSE, values, s)
  <2>1. s \in Bracketed(t, "{", Lists(t, Members(t, values)), "}")
          <=> IsNested(t, TRUE, values, s)
    BY DEF Bracketed, IsNested, ItemLists, ItemsOf, OpenOf, CloseOf
  <2>2. s \in Bracketed(t, "[", Lists(t, values), "]") <=> IsNested(t, FALSE, values, s)
    BY DEF Bracketed, IsNested, ItemLists, ItemsOf, OpenOf, CloseOf
  <2> QED BY <2>1, <2>2
<1>2. Nested(t, values) \in SUBSET Spans(t)
  BY DEF Nested, Bracketed
<1>3. ASSUME NEW s \in Spans(t)
      PROVE  s \in Nested(t, values) <=>
               \/ s[1] = s[2] /\ t[s[1]] \in {"string", "scalar"}
               \/ IsNested(t, TRUE, values, s) \/ IsNested(t, FALSE, values, s)
  BY <1>1 DEF Nested
<1> QED BY <1>2, <1>3

-----------------------------------------------------------------------------
(* The values of each depth from those of one less.                        *)

ValuesOf(t, depth, rest) ==
  [d \in 0..depth |-> IF d = 0 THEN {} ELSE Nested(t, rest[d - 1])]

ValuesUpTo(t, depth) == CHOOSE f : f = ValuesOf(t, depth, f)

LEMMA ValuesIs ==
  ASSUME NEW t, NEW depth
  PROVE  Values(t, depth) = ValuesUpTo(t, depth)[depth]
BY Zenon DEF Values, ValuesUpTo, ValuesOf

LEMMA ValuesUnfold ==
  ASSUME NEW t, NEW depth \in Nat
  PROVE  /\ ValuesUpTo(t, depth)[0] = {}
         /\ \A d \in 1..depth : ValuesUpTo(t, depth)[d] = Nested(t, ValuesUpTo(t, depth)[d - 1])
<1> DEFINE step == [values \in SUBSET Spans(t) |-> Nested(t, values)]
<1>1. step \in [SUBSET Spans(t) -> SUBSET Spans(t)]
  BY NestedIs
<1>2. \A values \in SUBSET Spans(t) : step[values] = Nested(t, values)
  OBVIOUS
<1>3. {} \in SUBSET Spans(t)
  OBVIOUS
<1> HIDE DEF step
<1>4. PICK f : Runs(SUBSET Spans(t), step, {}, depth, f)
  BY <1>1, <1>3, LoopRuns
<1>5. f \in [0..depth -> SUBSET Spans(t)] /\ f[0] = {} /\ \A d \in 1..depth : f[d] = step[f[d - 1]]
  BY <1>4 DEF Runs
<1>6. ASSUME NEW d \in 1..depth PROVE f[d] = Nested(t, f[d - 1])
  <2>1. d - 1 \in 0..depth
    OBVIOUS
  <2> QED BY <1>2, <1>5, <2>1
<1>7. f = ValuesOf(t, depth, f)
  <2>1. ASSUME NEW d \in 0..depth PROVE f[d] = IF d = 0 THEN {} ELSE Nested(t, f[d - 1])
    BY <1>5, <1>6
  <2>2. f = [d \in 0..depth |-> f[d]]
    BY <1>5
  <2> QED BY <2>1, <2>2 DEF ValuesOf
<1>8. ValuesUpTo(t, depth) = ValuesOf(t, depth, ValuesUpTo(t, depth))
  BY <1>7, Zenon DEF ValuesUpTo
<1> DEFINE g == ValuesUpTo(t, depth)
<1>9. g = [d \in 0..depth |-> IF d = 0 THEN {} ELSE Nested(t, g[d - 1])]
  BY <1>8, Zenon DEF ValuesOf
<1> HIDE DEF g
<1>10. g[0] = {}
  BY <1>9
<1>11. ASSUME NEW d \in 1..depth PROVE g[d] = Nested(t, g[d - 1])
  <2>1. d \in 0..depth /\ d # 0
    OBVIOUS
  <2> QED BY <1>9, <2>1
<1> QED BY <1>10, <1>11 DEF g

\* A value in less than d containers, or a scalar, is made of values in less than
\* d - 1.
LEMMA ValuesAre ==
  ASSUME NEW t, NEW d \in Nat
  PROVE  /\ Values(t, 0) = {}
         /\ Values(t, d + 1) = Nested(t, Values(t, d))
         /\ Values(t, d) \in SUBSET Spans(t)
<1>1. Values(t, 0) = {}
  BY ValuesUnfold, ValuesIs
<1>2. Values(t, d + 1) = Nested(t, Values(t, d))
  <2> DEFINE f == ValuesUpTo(t, d)
             g == ValuesUpTo(t, d + 1)
             good == {k \in 0..d : f[k] = g[k]}
  <2>1. f[0] = {} /\ \A k \in 1..d : f[k] = Nested(t, f[k - 1])
    BY ValuesUnfold
  <2>2. g[0] = {} /\ \A k \in 1..(d + 1) : g[k] = Nested(t, g[k - 1])
    <3>1. d + 1 \in Nat
      OBVIOUS
    <3> QED BY <3>1, ValuesUnfold
  <2>3. Values(t, d) = f[d] /\ Values(t, d + 1) = g[d + 1]
    BY ValuesIs
  <2> HIDE DEF f, g
  <2>4. 0 \in good
    BY <2>1, <2>2, SMTT(30)
  <2>5. ASSUME NEW k \in 1..d, k - 1 \in good PROVE k \in good
    <3>1. f[k] = Nested(t, f[k - 1]) /\ g[k] = Nested(t, g[k - 1]) /\ f[k - 1] = g[k - 1]
      BY <2>1, <2>2, <2>5
    <3> QED BY <3>1
  <2> HIDE DEF good
  <2>6. \A k \in 0..d : k \in good
    BY <2>4, <2>5, Inductively
  <2>7. f[d] = g[d]
    BY <2>6 DEF good
  <2>8. g[d + 1] = Nested(t, g[(d + 1) - 1]) /\ (d + 1) - 1 = d
    BY <2>2
  <2> QED BY <2>3, <2>7, <2>8
<1>3. Values(t, d) \in SUBSET Spans(t)
  <2>1. CASE d = 0
    BY <1>1, <2>1
  <2>2. CASE d # 0
    <3>1. ValuesUpTo(t, d)[d] = Nested(t, ValuesUpTo(t, d)[d - 1])
      BY <2>2, ValuesUnfold
    <3> QED BY <3>1, ValuesIs, NestedIs
  <2> QED BY <2>1, <2>2
<1> QED BY <1>1, <1>2, <1>3

\* A text that goes on has the lists and the values it had.
LEMMA NestedItemsGrow ==
  ASSUME NEW S, NEW t \in Seq(S), NEW u \in Seq(S), Begins(t, u), NEW object \in BOOLEAN,
         NEW V \in SUBSET Spans(t), NEW W \in SUBSET Spans(u), V \subseteq W
  PROVE  ItemLists(t, object, V) \subseteq ItemLists(u, object, W)
<1>1. \A i \in DOMAIN t : i \in DOMAIN u /\ u[i] = t[i]
  BY DEF Begins
<1>2. DOMAIN t = 1..Len(t) /\ Len(t) \in Nat
  OBVIOUS
<1>3. ItemsOf(t, object, V) \in SUBSET Spans(t) /\ ItemsOf(u, object, W) \in SUBSET Spans(u)
  BY ItemsAre
<1>4. ASSUME NEW m \in ItemsOf(t, object, V) PROVE m \in ItemsOf(u, object, W)
  <2>1. m = <<m[1], m[2]>> /\ m[1] \in DOMAIN t /\ IsItem(t, object, V, m)
    BY <1>3, ItemsAre, SpanIs
  <2>2. CASE ~object
    BY <2>1, <2>2 DEF IsItem, ItemsOf
  <2>3. CASE object
    <3>1. t[m[1]] = "string" /\ t[m[1] + 1] = ":" /\ <<m[1] + 2, m[2]>> \in V
      BY <2>1, <2>3 DEF IsItem
    <3>2. m[1] + 2 \in DOMAIN t
      <4>1. <<m[1] + 2, m[2]>> \in Spans(t)
        BY <3>1
      <4> QED BY <4>1 DEF Spans
    <3>3. m[1] + 1 \in DOMAIN t
      BY <1>2, <2>1, <3>2
    <3>4. u[m[1]] = "string" /\ u[m[1] + 1] = ":" /\ <<m[1] + 2, m[2]>> \in W /\ m[1] \in DOMAIN u
      BY <1>1, <2>1, <3>1, <3>3
    <3>5. IsItem(u, object, W, <<m[1], m[2]>>)
      BY <2>1, <2>3, <3>4 DEF IsItem
    <3> QED BY <2>1, <3>4, <3>5, ItemsAre
  <2> QED BY <2>2, <2>3
<1>5. ItemsOf(t, object, V) \subseteq ItemsOf(u, object, W)
  BY <1>4
<1> QED BY <1>3, <1>5, ListsGrow DEF ItemLists

LEMMA NestedGrows ==
  ASSUME NEW S, NEW t \in Seq(S), NEW u \in Seq(S), Begins(t, u),
         NEW V \in SUBSET Spans(t), NEW W \in SUBSET Spans(u), V \subseteq W
  PROVE  Nested(t, V) \subseteq Nested(u, W)
<1>1. \A i \in DOMAIN t : i \in DOMAIN u /\ u[i] = t[i]
  BY DEF Begins
<1>2. \A object \in BOOLEAN : ItemLists(t, object, V) \subseteq ItemLists(u, object, W)
  BY NestedItemsGrow
<1>3. ASSUME NEW s \in Nested(t, V) PROVE s \in Nested(u, W)
  <2>1. s \in Spans(t) /\ s[1] \in DOMAIN t /\ s[2] \in DOMAIN t /\ s[1] <= s[2] /\ s = <<s[1], s[2]>>
    BY NestedIs, SpanIs
  <2>2. u[s[1]] = t[s[1]] /\ u[s[2]] = t[s[2]] /\ s \in Spans(u)
    BY <1>1, <2>1 DEF Spans
  <2>3. \A object \in BOOLEAN : IsNested(t, object, V, s) => IsNested(u, object, W, s)
    BY <1>2, <2>2 DEF IsNested
  <2> QED BY <2>1, <2>2, <2>3, NestedIs
<1> QED BY <1>3

LEMMA ValuesGrow ==
  ASSUME NEW S, NEW t \in Seq(S), NEW u \in Seq(S), Begins(t, u), NEW d \in Nat
  PROVE  Values(t, d) \subseteq Values(u, d)
<1> DEFINE good == {k \in 0..d : Values(t, k) \subseteq Values(u, k)}
<1>1. 0 \in good
  BY ValuesAre
<1>2. ASSUME NEW k \in 1..d, k - 1 \in good PROVE k \in good
  <2>1. k - 1 \in Nat /\ (k - 1) + 1 = k /\ Values(t, k - 1) \subseteq Values(u, k - 1)
    BY <1>2
  <2>2. /\ Values(t, (k - 1) + 1) = Nested(t, Values(t, k - 1))
        /\ Values(u, (k - 1) + 1) = Nested(u, Values(u, k - 1))
        /\ Values(t, k - 1) \in SUBSET Spans(t) /\ Values(u, k - 1) \in SUBSET Spans(u)
    BY <2>1, ValuesAre
  <2>3. Nested(t, Values(t, k - 1)) \subseteq Nested(u, Values(u, k - 1))
    BY <2>1, <2>2, NestedGrows
  <2> QED BY <2>1, <2>2, <2>3
<1> HIDE DEF good
<1>3. \A k \in 0..d : k \in good
  BY <1>1, <1>2, Inductively
<1> QED BY <1>3 DEF good

-----------------------------------------------------------------------------
(***************************************************************************)
(* Containers that are not closed yet, as the reader and the writer have   *)
(* them: fs is a sequence of them, the outermost first, and depth that of  *)
(* the whole text.  starts has where each begins.                          *)
(***************************************************************************)
ListsAt(t, depth, fs, i) == ItemLists(t, fs[i].object, Values(t, depth - i))

\* An item may start at b in a container that starts at s.
Ready(t, lists, s, b) ==
  b = s + 1 \/ (b > s + 2 /\ t[b - 1] = "," /\ <<s + 1, b - 2>> \in lists)

\* A value may start at v there.
ReadyFor(t, object, lists, s, v) ==
  IF object THEN /\ v > 2 /\ t[v - 1] = ":" /\ t[v - 2] = "string"
                 /\ Ready(t, lists, s, v - 2)
  ELSE Ready(t, lists, s, v)

\* The same in the i-th container, or for the whole text
Before(t, depth, fs, starts, i, v) ==
  IF i = 0 THEN v = 1
  ELSE ReadyFor(t, fs[i].object, ListsAt(t, depth, fs, i), starts[i], v)

Opened(t, depth, fs, starts) ==
  \A i \in 1..Len(fs) : /\ starts[i] \in DOMAIN t /\ t[starts[i]] = OpenOf(fs[i].object)
                        /\ Before(t, depth, fs, starts, i - 1, starts[i])

\* A value that ends at e makes a list of what its container has so far.
LEMMA ValueJoins ==
  ASSUME NEW S, NEW t \in Seq(S), NEW object \in BOOLEAN, NEW values \in SUBSET Spans(t),
         NEW s \in Nat, NEW v, NEW e, <<v, e>> \in values,
         ReadyFor(t, object, ItemLists(t, object, values), s, v)
  PROVE  <<s + 1, e>> \in ItemLists(t, object, values)
<1> DEFINE items == ItemsOf(t, object, values)
           lists == ItemLists(t, object, values)
           b == IF object THEN v - 2 ELSE v
<1>1. DOMAIN t = 1..Len(t) /\ Len(t) \in Nat
  OBVIOUS
<1>2. v \in DOMAIN t
  <2>1. <<v, e>> \in Spans(t)
    OBVIOUS
  <2> QED BY <2>1 DEF Spans
<1>3. b \in DOMAIN t /\ Ready(t, lists, s, b)
  BY <1>1, <1>2 DEF ReadyFor
<1>4. IsItem(t, object, values, <<b, e>>)
  <2>1. CASE ~object
    BY <2>1 DEF IsItem
  <2>2. CASE object
    <3>1. t[b] = "string" /\ t[b + 1] = ":" /\ b + 2 = v
      BY <1>1, <1>2, <2>2 DEF ReadyFor
    <3> QED BY <2>2, <3>1 DEF IsItem
  <2> QED BY <2>1, <2>2
<1> HIDE DEF b
<1>5. <<b, e>> \in items
  BY <1>3, <1>4, ItemsAre
<1>6. items \in SUBSET Spans(t) /\ lists = Lists(t, items)
  BY ItemsAre DEF ItemLists
<1> HIDE DEF items, lists
<1>7. CASE b = s + 1
  <2>1. <<b, e>> \in lists
    BY <1>5, <1>6, ListsAre
  <2> QED BY <1>7, <2>1 DEF lists
<1>8. CASE t[b - 1] = "," /\ <<s + 1, b - 2>> \in lists
  <2> DEFINE r == <<s + 1, b - 2>>
             i == <<b, e>>
  <2>1. r[1] = s + 1 /\ r[2] = b - 2 /\ i[1] = b /\ i[2] = e
    OBVIOUS
  <2>2. b \in Nat /\ (b - 2) + 2 = b /\ (b - 2) + 1 = b - 1
    BY <1>1, <1>3
  <2> HIDE DEF r, i
  <2>3. r \in lists /\ i \in items
    BY <1>5, <1>8 DEF r, i
  <2>4. Joins(t, r, i)
    BY <1>8, <2>1, <2>2 DEF Joins
  <2>5. <<r[1], i[2]>> \in lists
    BY <1>6, <2>3, <2>4, ListsAre
  <2> QED BY <2>1, <2>5 DEF lists
<1> QED BY <1>3, <1>5, <1>7, <1>8 DEF Ready, lists

\* Brackets around a list make a value.
LEMMA Closes ==
  ASSUME NEW S, NEW t \in Seq(S), NEW object \in BOOLEAN, NEW d \in Nat,
         NEW s \in DOMAIN t, NEW e \in DOMAIN t,
         t[s] = OpenOf(object), t[e] = CloseOf(object),
         e = s + 1 \/ <<s + 1, e - 1>> \in ItemLists(t, object, Values(t, d))
  PROVE  <<s, e>> \in Values(t, d + 1)
<1>1. DOMAIN t = 1..Len(t) /\ Len(t) \in Nat
  OBVIOUS
<1>2. Values(t, d) \in SUBSET Spans(t) /\ Values(t, d + 1) = Nested(t, Values(t, d))
  BY ValuesAre
<1>3. ItemsOf(t, object, Values(t, d)) \in SUBSET Spans(t)
  BY <1>2, ItemsAre
<1>4. ItemLists(t, object, Values(t, d)) \in SUBSET Spans(t)
  BY <1>3, ListsFixed DEF ItemLists
<1> DEFINE p == <<s, e>>
<1>5. p[1] = s /\ p[2] = e
  OBVIOUS
<1>6. s <= e
  <2>1. CASE e = s + 1
    BY <1>1, <2>1
  <2>2. CASE <<s + 1, e - 1>> \in ItemLists(t, object, Values(t, d))
    <3>1. <<s + 1, e - 1>> \in Spans(t)
      BY <1>4, <2>2
    <3>2. s + 1 <= e - 1
      BY <3>1 DEF Spans
    <3> QED BY <1>1, <3>2
  <2> QED BY <2>1, <2>2
<1>7. p \in Spans(t)
  BY <1>5, <1>6 DEF Spans
<1>8. IsNested(t, object, Values(t, d), p)
  BY <1>5 DEF IsNested
<1> HIDE DEF p
<1>9. p \in Nested(t, Values(t, d))
  BY <1>7, <1>8, NestedIs
<1> QED BY <1>2, <1>9 DEF p

\* Only what kind of container each is matters.
LEMMA OpenedSame ==
  ASSUME NEW t, NEW depth, NEW fs, NEW gs, NEW starts, Len(gs) \in Nat, Len(fs) \in Nat,
         Len(gs) <= Len(fs),
         \A i \in 1..Len(gs) : gs[i].object = fs[i].object,
         Opened(t, depth, fs, starts)
  PROVE  /\ Opened(t, depth, gs, starts)
         /\ \A i \in 0..Len(gs) : \A v : Before(t, depth, gs, starts, i, v)
                                       <=> Before(t, depth, fs, starts, i, v)
<1>1. \A i \in 1..Len(gs) : ListsAt(t, depth, gs, i) = ListsAt(t, depth, fs, i)
  BY DEF ListsAt
<1>2. ASSUME NEW i \in 0..Len(gs), NEW v
      PROVE  Before(t, depth, gs, starts, i, v) <=> Before(t, depth, fs, starts, i, v)
  <2>1. CASE i = 0
    BY <2>1 DEF Before
  <2>2. CASE i # 0
    <3>1. i \in 1..Len(gs)
      BY <2>2
    <3> QED BY <1>1, <3>1 DEF Before
  <2> QED BY <2>1, <2>2
<1>3. \A i \in 1..Len(gs) : i \in 1..Len(fs) /\ i - 1 \in 0..Len(gs)
  OBVIOUS
<1>4. Opened(t, depth, gs, starts)
  BY <1>2, <1>3 DEF Opened
<1> QED BY <1>2, <1>4

\* A container opens where a value may start.
LEMMA OpenedMore ==
  ASSUME NEW t, NEW depth, NEW fs, NEW gs, NEW starts \in [Nat -> Nat],
         Len(fs) \in Nat, Len(gs) = Len(fs) + 1,
         \A i \in 1..Len(fs) : gs[i].object = fs[i].object,
         NEW p \in Nat, p \in DOMAIN t, t[p] = OpenOf(gs[Len(gs)].object),
         Opened(t, depth, fs, starts), Before(t, depth, fs, starts, Len(fs), p)
  PROVE  Opened(t, depth, gs, [starts EXCEPT ![Len(gs)] = p])
<1> DEFINE n == Len(fs)
           more == [starts EXCEPT ![n + 1] = p]
<1> HIDE DEF n
<1>1. n \in Nat /\ Len(gs) = n + 1 /\ Len(fs) = n
  BY DEF n
<1>2. more \in [Nat -> Nat] /\ more[n + 1] = p /\ \A i \in 1..n : more[i] = starts[i]
  <2>1. DOMAIN starts = Nat /\ n + 1 \in Nat /\ \A i \in 1..n : i \in Nat /\ i # n + 1
    BY <1>1
  <2> QED BY <2>1
<1> HIDE DEF more
<1>3. \A i \in 1..n : ListsAt(t, depth, gs, i) = ListsAt(t, depth, fs, i)
  BY <1>1 DEF ListsAt
<1>4. ASSUME NEW i \in 0..n, NEW v
      PROVE  Before(t, depth, gs, more, i, v) <=> Before(t, depth, fs, starts, i, v)
  <2>1. CASE i = 0
    BY <2>1 DEF Before
  <2>2. CASE i # 0
    <3>1. i \in 1..n
      BY <1>1, <2>2
    <3> QED BY <1>1, <1>2, <1>3, <3>1 DEF Before
  <2> QED BY <2>1, <2>2
<1>5. ASSUME NEW i \in 1..(n + 1)
      PROVE  /\ more[i] \in DOMAIN t /\ t[more[i]] = OpenOf(gs[i].object)
             /\ Before(t, depth, gs, more, i - 1, more[i])
  <2>1. CASE i = n + 1
    <3>1. i - 1 = n /\ n \in 0..n
      BY <1>1, <2>1
    <3>2. Before(t, depth, gs, more, n, p)
      BY <1>1, <1>4, <3>1
    <3> QED BY <1>1, <1>2, <2>1, <3>1, <3>2
  <2>2. CASE i # n + 1
    <3>1. i \in 1..n /\ i - 1 \in 0..n
      BY <1>1, <2>2
    <3>2. /\ starts[i] \in DOMAIN t /\ t[starts[i]] = OpenOf(fs[i].object)
          /\ Before(t, depth, fs, starts, i - 1, starts[i])
      BY <1>1, <3>1 DEF Opened
    <3> QED BY <1>1, <1>2, <1>4, <3>1, <3>2
  <2> QED BY <2>1, <2>2
<1>6. Opened(t, depth, gs, more)
  BY <1>1, <1>5 DEF Opened
<1> QED BY <1>1, <1>6 DEF more

-----------------------------------------------------------------------------
(***************************************************************************)
(* The same from the other end: where the containers will be closed if the *)
(* text is JSON.                                                           *)
(***************************************************************************)

\* What may follow a value that ends at q
After(t, depth, fs, ends, i, q) ==
  IF i = 0 THEN q = Len(t)
  ELSE \/ q + 1 = ends[i]
       \/ t[q + 1] = "," /\ <<q + 2, ends[i] - 1>> \in ListsAt(t, depth, fs, i)

Closed(t, depth, fs, ends) ==
  \A i \in 1..Len(fs) : /\ ends[i] \in DOMAIN t /\ t[ends[i]] = CloseOf(fs[i].object)
                        /\ After(t, depth, fs, ends, i - 1, ends[i])

LEMMA ClosedSame ==
  ASSUME NEW t, NEW depth, NEW fs, NEW gs, NEW ends, Len(gs) \in Nat, Len(fs) \in Nat,
         Len(gs) <= Len(fs),
         \A i \in 1..Len(gs) : gs[i].object = fs[i].object,
         Closed(t, depth, fs, ends)
  PROVE  /\ Closed(t, depth, gs, ends)
         /\ \A i \in 0..Len(gs) : \A q : After(t, depth, gs, ends, i, q)
                                       <=> After(t, depth, fs, ends, i, q)
<1>1. \A i \in 1..Len(gs) : ListsAt(t, depth, gs, i) = ListsAt(t, depth, fs, i)
  BY DEF ListsAt
<1>2. ASSUME NEW i \in 0..Len(gs), NEW q
      PROVE  After(t, depth, gs, ends, i, q) <=> After(t, depth, fs, ends, i, q)
  <2>1. CASE i = 0
    BY <2>1 DEF After
  <2>2. CASE i # 0
    <3>1. i \in 1..Len(gs)
      BY <2>2
    <3> QED BY <1>1, <3>1 DEF After
  <2> QED BY <2>1, <2>2
<1>3. \A i \in 1..Len(gs) : i \in 1..Len(fs) /\ i - 1 \in 0..Len(gs)
  OBVIOUS
<1>4. Closed(t, depth, gs, ends)
  BY <1>2, <1>3 DEF Closed
<1> QED BY <1>2, <1>4

LEMMA ClosedMore ==
  ASSUME NEW t, NEW depth, NEW fs, NEW gs, NEW ends \in [Nat -> Nat],
         Len(fs) \in Nat, Len(gs) = Len(fs) + 1,
         \A i \in 1..Len(fs) : gs[i].object = fs[i].object,
         NEW q \in Nat, q \in DOMAIN t, t[q] = CloseOf(gs[Len(gs)].object),
         Closed(t, depth, fs, ends), After(t, depth, fs, ends, Len(fs), q)
  PROVE  Closed(t, depth, gs, [ends EXCEPT ![Len(gs)] = q])
<1> DEFINE n == Len(fs)
           more == [ends EXCEPT ![n + 1] = q]
<1> HIDE DEF n
<1>1. n \in Nat /\ Len(gs) = n + 1 /\ Len(fs) = n
  BY DEF n
<1>2. more \in [Nat -> Nat] /\ more[n + 1] = q /\ \A i \in 1..n : more[i] = ends[i]
  <2>1. DOMAIN ends = Nat /\ n + 1 \in Nat /\ \A i \in 1..n : i \in Nat /\ i # n + 1
    BY <1>1
  <2> QED BY <2>1
<1> HIDE DEF more
<1>3. \A i \in 1..n : ListsAt(t, depth, gs, i) = ListsAt(t, depth, fs, i)
  BY <1>1 DEF ListsAt
<1>4. ASSUME NEW i \in 0..n, NEW v
      PROVE  After(t, depth, gs, more, i, v) <=> After(t, depth, fs, ends, i, v)
  <2>1. CASE i = 0
    BY <2>1 DEF After
  <2>2. CASE i # 0
    <3>1. i \in 1..n
      BY <1>1, <2>2
    <3>2. more[i] = ends[i] /\ ListsAt(t, depth, gs, i) = ListsAt(t, depth, fs, i)
      BY <1>2, <1>3, <3>1
    <3> QED BY <2>2, <3>2 DEF After
  <2> QED BY <2>1, <2>2
<1>5. ASSUME NEW i \in 1..(n + 1)
      PROVE  /\ more[i] \in DOMAIN t /\ t[more[i]] = CloseOf(gs[i].object)
             /\ After(t, depth, gs, more, i - 1, more[i])
  <2>1. CASE i = n + 1
    <3>1. i - 1 = n /\ n \in 0..n
      BY <1>1, <2>1
    <3>2. After(t, depth, gs, more, n, q)
      BY <1>1, <1>4, <3>1
    <3> QED BY <1>1, <1>2, <2>1, <3>1, <3>2
  <2>2. CASE i # n + 1
    <3>1. i \in 1..n /\ i - 1 \in 0..n
      BY <1>1, <2>2
    <3>2. /\ ends[i] \in DOMAIN t /\ t[ends[i]] = CloseOf(fs[i].object)
          /\ After(t, depth, fs, ends, i - 1, ends[i])
      BY <1>1, <3>1 DEF Closed
    <3> QED BY <1>1, <1>2, <1>4, <3>1, <3>2
  <2> QED BY <2>1, <2>2
<1>6. Closed(t, depth, gs, more)
  BY <1>1, <1>5 DEF Closed
<1> QED BY <1>1, <1>6 DEF more

\* A list is an item, or an item, a comma and a list.
LEMMA FirstItem ==
  ASSUME NEW S, NEW t \in Seq(S), NEW object \in BOOLEAN, NEW values \in SUBSET Spans(t),
         NEW p, NEW e, <<p, e>> \in ItemLists(t, object, values)
  PROVE  \E q \in DOMAIN t :
           /\ IsItem(t, object, values, <<p, q>>)
           /\ q = e \/ (t[q + 1] = "," /\ <<q + 2, e>> \in ItemLists(t, object, values))
<1> DEFINE items == ItemsOf(t, object, values)
           lists == ItemLists(t, object, values)
           s == <<p, e>>
<1>1. items \in SUBSET Spans(t) /\ lists = Lists(t, items)
  BY ItemsAre DEF ItemLists
<1>2. \A m \in items : IsItem(t, object, values, m)
  BY ItemsAre
<1>3. s[1] = p /\ s[2] = e /\ s \in lists
  OBVIOUS
<1> HIDE DEF items, s
<1>4. CASE s \in items
  <2>1. s = <<p, e>> /\ s \in Spans(t)
    BY <1>1, <1>4 DEF s
  <2>2. e \in DOMAIN t
    BY <1>3, <2>1, SpanIs
  <2>3. IsItem(t, object, values, <<p, e>>)
    BY <1>2, <1>4, <2>1
  <2> QED BY <2>2, <2>3
<1>5. CASE \E i \in items, r \in lists : s = <<i[1], r[2]>> /\ Joins(t, i, r)
  <2> HIDE DEF lists
  <2>1. PICK i \in items, r \in lists : s = <<i[1], r[2]>> /\ Joins(t, i, r)
    BY <1>5
  <2>2. i[1] = p /\ r[2] = e
    BY <1>3, <2>1
  <2>3. r \in Spans(t) /\ i \in Spans(t)
    BY <1>1, ListsFixed
  <2>4. i = <<p, i[2]>> /\ i[2] \in DOMAIN t /\ r = <<r[1], e>>
    BY <2>2, <2>3, SpanIs
  <2>5. IsItem(t, object, values, <<p, i[2]>>)
    BY <1>2, <2>4
  <2>6. t[i[2] + 1] = "," /\ <<i[2] + 2, e>> \in lists
    BY <2>1, <2>4 DEF Joins
  <2> QED BY <2>4, <2>5, <2>6 DEF lists
<1> HIDE DEF lists
<1>6. s \in items \/ \E i \in items, r \in lists : s = <<i[1], r[2]>> /\ Joins(t, i, r)
  BY <1>1, <1>3, ListsAre
<1> QED BY <1>4, <1>5, <1>6

-----------------------------------------------------------------------------
(***************************************************************************)
(* The steps of the reader without what they do to memory.                 *)
(***************************************************************************)
Kept(size) ==
  /\ Len(frames') = size
  /\ \A i \in 1..size : i <= Len(frames) => frames'[i].object = frames[i].object

Moved(tokens, where, size) ==
  /\ pos' = pos + tokens /\ pc' = where /\ Kept(size)
  /\ UNCHANGED <<phase, text>>

Innermost == frames[Len(frames)].object

\* The token that stops the reader
Wrong ==
  \/ pc = "value" /\ Len(frames) >= ParseMaxDepth
  \/ pc = "value" /\ Peek \notin {"{", "[", "string", "scalar"}
  \/ pc = "key" /\ frames # <<>> /\ Innermost /\ Peek # "string"
  \/ pc = "colon" /\ Peek # ":"
  \/ pc = "next" /\ frames # <<>> /\ Peek \notin {",", CloseOf(Innermost)}

Stops ==
  \E status \in Statuses \ {"OK"}, size \in {Len(frames), Len(frames) - 1} :
    /\ size \in Nat /\ Moved(0, "return", size) /\ result'.status = status
    /\ status = "NO_MEMORY" \/ Wrong \/ (pc = "return" /\ result.status = status)

TakesSimple ==
  /\ pc = "value" /\ Len(frames) < ParseMaxDepth /\ Peek \in {"string", "scalar"}
  /\ Moved(1, "return", Len(frames)) /\ result'.status = "OK"

Opens ==
  \E object \in BOOLEAN :
    /\ pc = "value" /\ Len(frames) < ParseMaxDepth /\ Peek = OpenOf(object)
    /\ Moved(1, "first", Len(frames) + 1) /\ frames'[Len(frames) + 1].object = object

TakesClosing ==
  /\ frames # <<>> /\ pc \in {"first", "next"} /\ Peek = CloseOf(Innermost)
  /\ Moved(1, "return", Len(frames) - 1) /\ result'.status = "OK"

TakesFirst ==
  /\ frames # <<>> /\ pc = "first" /\ Peek # CloseOf(Innermost)
  /\ Moved(0, IF Innermost THEN "key" ELSE "value", Len(frames))

TakesKey ==
  /\ frames # <<>> /\ pc = "key" /\ Innermost /\ Peek = "string"
  /\ Moved(1, "colon", Len(frames))

TakesColon ==
  /\ frames # <<>> /\ pc = "colon" /\ Innermost /\ Peek = ":"
  /\ Moved(1, "value", Len(frames))

TakesItem ==
  /\ frames # <<>> /\ pc = "return" /\ result.status = "OK"
  /\ Moved(0, "next", Len(frames)) /\ result'.status = "OK"

TakesComma ==
  /\ frames # <<>> /\ pc = "next" /\ Peek = ","
  /\ Moved(1, IF Innermost THEN "key" ELSE "value", Len(frames))

ReaderMoves ==
  \/ Stops \/ TakesSimple \/ Opens \/ TakesClosing
  \/ TakesFirst \/ TakesKey \/ TakesColon \/ TakesItem \/ TakesComma

LEMMA FailMoves ==
  ASSUME frames \in Seq(FrameType), pos \in Nat, NEW status \in Statuses \ {"OK"}, NEW n, NEW freed,
         \/ Fail(status, n, freed) /\ UNCHANGED frames
         \/ frames # <<>> /\ FailFrame(status, n, freed),
         status = "NO_MEMORY" \/ Wrong \/ (pc = "return" /\ result.status = status)
  PROVE  Stops
<1>1. result'.status = status /\ pos' = pos + 0 /\ pc' = "return" /\ UNCHANGED <<phase, text>>
  BY DEF FailFrame, Fail, Goto, Outside
<1>2. \E size \in {Len(frames), Len(frames) - 1} : size \in Nat /\ Kept(size)
  <2>1. CASE UNCHANGED frames
    <3>1. Len(frames) \in Nat /\ Len(frames') = Len(frames)
      BY <2>1
    <3> QED BY <2>1, <3>1 DEF Kept
  <2>2. CASE frames # <<>> /\ frames' = Front(frames)
    BY <2>2, FrontIs DEF Kept
  <2> QED BY <2>1, <2>2 DEF FailFrame
<1> QED BY <1>1, <1>2 DEF Stops, Moved

LEMMA FrameIs ==
  ASSUME frames \in Seq(FrameType), frames # <<>>
  PROVE  /\ Frame = frames[Len(frames)] /\ Innermost = Frame.object /\ Frame \in FrameType
         /\ Innermost \in BOOLEAN /\ Len(frames) \in Nat \ {0} /\ Len(Front(frames)) = Len(frames) - 1
         /\ Kept(Len(frames) - 1) \/ frames' # Front(frames)
         /\ UNCHANGED frames => Kept(Len(frames))
<1>1. /\ Frame = frames[Len(frames)] /\ Innermost = Frame.object /\ Frame \in FrameType
      /\ Len(frames) \in Nat \ {0} /\ Len(Front(frames)) = Len(frames) - 1
  BY FrontIs DEF Frame, Innermost
<1>2. Innermost \in BOOLEAN
  BY <1>1 DEF FrameType
<1>3. Kept(Len(frames) - 1) \/ frames' # Front(frames)
  BY FrontIs DEF Kept
<1>4. UNCHANGED frames => Kept(Len(frames))
  BY DEF Kept
<1> QED BY <1>1, <1>2, <1>3, <1>4

\* A frame that is changed stays of its kind.
LEMMA Changed ==
  ASSUME frames \in Seq(FrameType), frames # <<>>, NEW g,
         frames' = Append(Front(frames), g), g.object = Frame.object
  PROVE  Kept(Len(frames))
<1> DEFINE h == Front(frames)
<1>1. /\ h \in Seq(FrameType) /\ Len(h) = Len(frames) - 1 /\ Len(frames) \in Nat \ {0}
      /\ \A i \in 1..(Len(frames) - 1) : h[i] = frames[i]
      /\ Frame = frames[Len(frames)]
  BY FrontIs DEF Frame
<1>2. frames' = Append(h, g)
  OBVIOUS
<1> HIDE DEF h
<1>3. Len(frames') = Len(frames) /\ frames'[Len(frames)] = g
      /\ \A i \in 1..(Len(frames) - 1) : frames'[i] = h[i]
  BY <1>1, <1>2
<1>4. \A i \in 1..Len(frames) : i = Len(frames) \/ i \in 1..(Len(frames) - 1)
  BY <1>1
<1> QED BY <1>1, <1>3, <1>4 DEF Kept

LEMMA PushIs ==
  ASSUME frames \in Seq(FrameType), frames # <<>>, Push
  PROVE  \/ \E freed : FailFrame("NO_MEMORY", 0, freed)
         \/ Kept(Len(frames)) /\ result' = Nothing /\ Goto("next") /\ UNCHANGED pos
<1> DEFINE full == Frame.count = Frame.capacity
           first == IF Frame.capacity = 0 THEN 1 ELSE 0
           g == [Frame EXCEPT
                    !.owned = @ \cup Frame.key \cup result.owned \cup Fresh(first),
                    !.key = {},
                    !.count = @ + 1,
                    !.capacity = IF ~full THEN @
                                 ELSE IF @ = 0 THEN FirstCapacity ELSE 2 * @]
<1>1. CASE FailFrame("NO_MEMORY", 0, Frame.key \cup result.owned)
  BY <1>1
<1>2. CASE frames' = Append(Front(frames), g) /\ result' = Nothing /\ Goto("next") /\ UNCHANGED pos
  <2>1. Frame \in FrameType
    BY FrameIs
  <2>2. g.object = Frame.object
    BY <2>1 DEF FrameType
  <2> HIDE DEF g
  <2>3. Kept(Len(frames))
    BY <1>2, <2>2, Changed
  <2> QED BY <1>2, <2>3
<1> QED BY <1>1, <1>2 DEF Push

LEMMA ReadMoves ==
  ASSUME frames \in Seq(FrameType), pos \in Nat, result.status \in Statuses, Read
  PROVE  Parse \/ ParseEnds \/ (phase = "reading" /\ ReaderMoves)
<1>1. {"UNSUPPORTED", "INVALID_ARG", "NO_MEMORY"} \subseteq Statuses \ {"OK"}
  BY DEF Statuses
<1>2. pos + 0 = pos /\ (frames # <<>> => Frame.object = Innermost /\ Innermost \in BOOLEAN)
  BY FrameIs
<1>3. CASE ParseValue
  <2>1. phase = "reading" /\ pc = "value"
    BY <1>3 DEF ParseValue, ValueTooDeep, ValueMissing, Open, Simple, ValueMay, Reading
  <2>2. CASE ValueTooDeep
    <3>1. Wrong
      BY <2>1, <2>2 DEF ValueTooDeep, Wrong
    <3> QED BY <1>1, <2>1, <2>2, <3>1, FailMoves DEF ValueTooDeep, ReaderMoves
  <2>3. CASE ValueMissing
    <3>1. Wrong
      BY <2>1, <2>3 DEF ValueMissing, Wrong
    <3> QED BY <1>1, <2>1, <2>3, <3>1, FailMoves DEF ValueMissing, ReaderMoves
  <2>4. ASSUME NEW object \in BOOLEAN, Open(OpenOf(object), object)
        PROVE  ReaderMoves
    <3>1. CASE Fail("NO_MEMORY", 0, {}) /\ UNCHANGED frames
      BY <1>1, <3>1, FailMoves DEF ReaderMoves
    <3> DEFINE g == [object |-> object, owned |-> Fresh(1), key |-> {}, count |-> 0, capacity |-> 0]
    <3>2. CASE frames' = Append(frames, g) /\ Skip("first")
      <4>1. g.object = object
        OBVIOUS
      <4> HIDE DEF g
      <4>2. /\ Len(frames') = Len(frames) + 1 /\ frames'[Len(frames) + 1].object = object
            /\ \A i \in 1..Len(frames) : frames'[i] = frames[i]
        BY <3>2, <4>1
      <4>3. Kept(Len(frames) + 1)
        <5>1. Len(frames) \in Nat
          OBVIOUS
        <5>2. \A i \in 1..(Len(frames) + 1) : i <= Len(frames) => i \in 1..Len(frames)
          BY <5>1
        <5> QED BY <4>2, <5>2 DEF Kept
      <4>4. Moved(1, "first", Len(frames) + 1)
        BY <3>2, <4>3 DEF Skip, Goto, Outside, Moved
      <4>5. Len(frames) < ParseMaxDepth /\ Peek = OpenOf(object)
        BY <2>4 DEF Open, ValueMay
      <4> QED BY <2>1, <4>2, <4>4, <4>5 DEF Opens, ReaderMoves
    <3> QED BY <2>4, <3>1, <3>2 DEF Open
  <2>5. ASSUME NEW token \in {"string", "scalar"}, NEW n, Simple(token, n)
        PROVE  ReaderMoves
    <3>1. CASE \E m \in 0..(n - 1) : Fail("NO_MEMORY", m, Fresh(m))
      <4>1. PICK m \in 0..(n - 1) : Fail("NO_MEMORY", m, Fresh(m))
        BY <3>1
      <4>2. UNCHANGED frames
        BY <2>5 DEF Simple
      <4> QED BY <1>1, <4>1, <4>2, FailMoves DEF ReaderMoves
    <3>2. CASE result' = [status |-> "OK", owned |-> Fresh(n)] /\ Skip("return")
      <4>1. UNCHANGED frames /\ Len(frames) < ParseMaxDepth /\ Peek = token
        BY <2>5 DEF Simple, ValueMay
      <4>2. Moved(1, "return", Len(frames)) /\ result'.status = "OK"
        BY <3>2, <4>1 DEF Skip, Goto, Outside, Moved, Kept
      <4> QED BY <2>1, <4>1, <4>2 DEF TakesSimple, ReaderMoves
    <3> QED BY <2>5, <3>1, <3>2 DEF Simple
  <2>6. OpenOf(TRUE) = "{" /\ OpenOf(FALSE) = "["
    BY DEF OpenOf
  <2> QED BY <1>3, <2>1, <2>2, <2>3, <2>4, <2>5, <2>6 DEF ParseValue
<1>4. ASSUME frames # <<>>, pc \in {"first", "next"}, Close, Peek = CloseOf(Innermost)
      PROVE  ReaderMoves
  <2>1. Kept(Len(frames) - 1) /\ result'.status = "OK"
    BY <1>4, FrameIs DEF Close
  <2>2. Moved(1, "return", Len(frames) - 1)
    BY <1>4, <2>1 DEF Close, Skip, Goto, Outside, Moved
  <2> QED BY <1>4, <2>1, <2>2 DEF TakesClosing, ReaderMoves
<1>5. CASE ObjectFirst \/ ArrayFirst
  <2>1. /\ phase = "reading" /\ pc = "first" /\ frames # <<>>
        /\ \/ Peek = CloseOf(Innermost) /\ Close
           \/ /\ Peek # CloseOf(Innermost) /\ Goto(IF Innermost THEN "key" ELSE "value")
              /\ UNCHANGED <<pos, frames>>
    BY <1>2, <1>5 DEF ObjectFirst, ArrayFirst, AtObject, AtArray, Reading, CloseOf
  <2>2. CASE Peek # CloseOf(Innermost) /\ Goto(IF Innermost THEN "key" ELSE "value")
             /\ UNCHANGED <<pos, frames>>
    <3>1. Moved(0, IF Innermost THEN "key" ELSE "value", Len(frames))
      BY <1>2, <2>1, <2>2, FrameIs DEF Goto, Outside, Moved
    <3> QED BY <2>1, <2>2, <3>1 DEF TakesFirst, ReaderMoves
  <2> QED BY <1>4, <2>1, <2>2
<1>6. CASE ObjectNext \/ ArrayNext
  <2>1. /\ phase = "reading" /\ pc = "next" /\ frames # <<>>
        /\ \/ Peek = CloseOf(Innermost) /\ Close
           \/ /\ Peek = "," /\ Skip(IF Innermost THEN "key" ELSE "value")
              /\ UNCHANGED frames
           \/ Peek \notin {",", CloseOf(Innermost)} /\ FailFrame("INVALID_ARG", 0, {})
    BY <1>2, <1>6 DEF ObjectNext, ArrayNext, AtObject, AtArray, Reading, CloseOf
  <2>2. CASE Peek = "," /\ Skip(IF Innermost THEN "key" ELSE "value") /\ UNCHANGED frames
    <3>1. Moved(1, IF Innermost THEN "key" ELSE "value", Len(frames))
      BY <2>1, <2>2, FrameIs DEF Skip, Goto, Outside, Moved
    <3> QED BY <2>1, <2>2, <3>1 DEF TakesComma, ReaderMoves
  <2>3. CASE Peek \notin {",", CloseOf(Innermost)} /\ FailFrame("INVALID_ARG", 0, {})
    <3>1. Wrong
      BY <2>1, <2>3 DEF Wrong
    <3> QED BY <1>1, <2>1, <2>3, <3>1, FailMoves DEF ReaderMoves
  <2> QED BY <1>4, <2>1, <2>2, <2>3
<1>7. CASE ObjectKey
  <2>1. phase = "reading" /\ pc = "key" /\ frames # <<>> /\ Innermost
    BY <1>2, <1>7 DEF ObjectKey, AtObject, Reading
  <2>2. CASE FailFrame("NO_MEMORY", 0, {})
    BY <1>1, <2>1, <2>2, FailMoves DEF ReaderMoves
  <2>3. CASE Peek # "string" /\ FailFrame("INVALID_ARG", 1, Fresh(1))
    <3>1. Wrong
      BY <2>1, <2>3 DEF Wrong
    <3> QED BY <1>1, <2>1, <2>3, <3>1, FailMoves DEF ReaderMoves
  <2>4. CASE /\ Peek = "string" /\ Skip("colon")
             /\ frames' = Append(Front(frames), [Frame EXCEPT !.key = Fresh(1)])
    <3> DEFINE g == [Frame EXCEPT !.key = Fresh(1)]
    <3>1. g.object = Frame.object
      BY <2>1, FrameIs DEF FrameType
    <3> HIDE DEF g
    <3>2. Kept(Len(frames))
      BY <2>1, <2>4, <3>1, Changed DEF g
    <3>3. Moved(1, "colon", Len(frames))
      BY <2>4, <3>2 DEF Skip, Goto, Outside, Moved
    <3> QED BY <2>1, <2>4, <3>3 DEF TakesKey, ReaderMoves
  <2> QED BY <1>7, <2>2, <2>3, <2>4 DEF ObjectKey
<1>8. CASE ObjectColon
  <2>1. phase = "reading" /\ pc = "colon" /\ frames # <<>> /\ Innermost
    BY <1>2, <1>8 DEF ObjectColon, AtObject, Reading
  <2>2. CASE Peek # ":" /\ FailFrame("INVALID_ARG", 0, Frame.key)
    <3>1. Wrong
      BY <2>1, <2>2 DEF Wrong
    <3> QED BY <1>1, <2>1, <2>2, <3>1, FailMoves DEF ReaderMoves
  <2>3. CASE Peek = ":" /\ Skip("value") /\ UNCHANGED frames
    <3>1. Moved(1, "value", Len(frames))
      BY <2>1, <2>3, FrameIs DEF Skip, Goto, Outside, Moved
    <3> QED BY <2>1, <2>3, <3>1 DEF TakesColon, ReaderMoves
  <2> QED BY <1>8, <2>2, <2>3 DEF ObjectColon
<1>9. CASE ObjectMember \/ ArrayElement
  <2>1. /\ phase = "reading" /\ pc = "return" /\ frames # <<>>
        /\ \/ result.status # "OK" /\ \E freed : FailFrame(result.status, 0, freed)
           \/ result.status = "OK" /\ Push
    BY <1>9 DEF ObjectMember, ArrayElement, AtObject, AtArray, Reading
  <2>2. CASE result.status # "OK" /\ \E freed : FailFrame(result.status, 0, freed)
    <3>1. PICK freed : FailFrame(result.status, 0, freed)
      BY <2>2
    <3>2. result.status \in Statuses \ {"OK"}
      BY <2>2
    <3> QED BY <2>1, <3>1, <3>2, FailMoves DEF ReaderMoves
  <2>3. CASE result.status = "OK" /\ Push
    <3>1. CASE \E freed : FailFrame("NO_MEMORY", 0, freed)
      <4>1. PICK freed : FailFrame("NO_MEMORY", 0, freed)
        BY <3>1
      <4> QED BY <1>1, <2>1, <4>1, FailMoves DEF ReaderMoves
    <3>2. CASE /\ Kept(Len(frames)) /\ result' = Nothing /\ Goto("next") /\ UNCHANGED pos
      <4>1. Moved(0, "next", Len(frames)) /\ result'.status = "OK"
        BY <1>2, <3>2 DEF Goto, Outside, Moved, Nothing
      <4> QED BY <2>1, <2>3, <4>1 DEF TakesItem, ReaderMoves
    <3> QED BY <2>1, <2>3, <3>1, <3>2, PushIs
  <2> QED BY <2>1, <2>2, <2>3
<1>10. CASE Parse \/ ParseEnds
  BY <1>10
<1> QED BY <1>3, <1>5, <1>6, <1>7, <1>8, <1>9, <1>10 DEF Read

-----------------------------------------------------------------------------
(* The text is one of tokens, and the reader starts at its first.          *)
TextInv ==
  /\ text \in Seq(Tokens) /\ pos \in Nat \ {0}
  /\ phase \in {"writing", "stored"} => pc = "value" /\ pos = 1 /\ frames = <<>>

LEMMA ShortIsSeq ==
  ASSUME NEW T, NEW a \in T, NEW b \in T
  PROVE  <<>> \in Seq(T) /\ <<a>> \in Seq(T) /\ <<a, b>> \in Seq(T)
OBVIOUS

LEMMA WrittenText ==
  ASSUME TextInv, Write
  PROVE  text' \in Seq(Tokens) /\ UNCHANGED reader /\ phase = "writing"
<1>0. phase = "writing"
  BY DEF Write, Scalar, BeginObject, BeginArray, Begin, EndObject, EndArray, End, Key, Finish, Calls
<1>1. /\ <<",">> \in Seq(Tokens) /\ <<>> \in Seq(Tokens) /\ <<"string", ":">> \in Seq(Tokens)
      /\ text \in Seq(Tokens)
  <2>1. "," \in Tokens /\ "string" \in Tokens /\ ":" \in Tokens
    BY DEF Tokens
  <2> QED BY <2>1, ShortIsSeq, Zenon DEF TextInv
<1>2. Separator \in Seq(Tokens)
  <2>1. Separator = <<",">> \/ Separator = <<>>
    BY DEF Separator
  <2> QED BY <1>1, <2>1
<1>3. ASSUME NEW tokens \in Seq(Tokens), NEW opened, Emit(tokens, opened)
      PROVE  text' \in Seq(Tokens) /\ UNCHANGED reader
  <2>1. text \o tokens \in Seq(Tokens)
    <3>1. text \in Seq(Tokens)
      BY <1>1
    <3> QED BY <3>1
  <2>2. (text' = text \o tokens \/ text' = text) /\ UNCHANGED reader
    BY <1>3 DEF Emit
  <2> QED BY <1>1, <2>1, <2>2
<1>4. ASSUME NEW status, Misuse(status) PROVE text' \in Seq(Tokens) /\ UNCHANGED reader
  BY <1>4 DEF Misuse, TextInv
<1>5. ASSUME NEW token \in Tokens, Scalar(token) PROVE text' \in Seq(Tokens) /\ UNCHANGED reader
  <2>1. Append(Separator, token) \in Seq(Tokens)
    BY <1>2
  <2> QED BY <1>3, <1>4, <1>5, <2>1 DEF Scalar
<1>6. ASSUME NEW open \in Tokens, NEW object, Begin(open, object)
      PROVE  text' \in Seq(Tokens) /\ UNCHANGED reader
  <2>1. Append(Separator, open) \in Seq(Tokens)
    BY <1>2
  <2> QED BY <1>3, <1>4, <1>6, <2>1 DEF Begin
<1>7. ASSUME NEW close \in Tokens, NEW object, End(close, object)
      PROVE  text' \in Seq(Tokens) /\ UNCHANGED reader
  <2>1. <<close>> \in Seq(Tokens)
    OBVIOUS
  <2> QED BY <1>3, <1>4, <1>7, <2>1 DEF End
<1>8. CASE Key
  <2> DEFINE comma == IF Level.needComma THEN <<",">> ELSE <<>>
  <2>1. comma \o <<"string", ":">> \in Seq(Tokens)
    <3>1. comma \in Seq(Tokens)
      BY <1>1
    <3> HIDE DEF comma
    <3> DEFINE member == <<"string", ":">>
    <3>2. member \in Seq(Tokens)
      BY <1>1
    <3> HIDE DEF member
    <3>3. comma \o member \in Seq(Tokens)
      BY <3>1, <3>2
    <3> QED BY <3>3 DEF member
  <2> DEFINE member == comma \o <<"string", ":">>
             opened == WithLevel([Level EXCEPT !.wantKey = FALSE, !.needComma = TRUE])
  <2>2. Misuse("INTERNAL") \/ Emit(member, opened)
    BY <1>8, Zenon DEF Key
  <2> HIDE DEF member, opened
  <2>3. member \in Seq(Tokens)
    BY <2>1 DEF member
  <2> QED BY <1>0, <1>3, <1>4, <2>2, <2>3
<1>9. CASE Finish
  BY <1>9 DEF Finish, TextInv
<1>10. {"string", "scalar", "{", "}", "[", "]"} \subseteq Tokens
  BY DEF Tokens
<1> QED BY <1>5, <1>6, <1>7, <1>8, <1>9, <1>0, <1>10
        DEF Write, BeginObject, BeginArray, EndObject, EndArray

LEMMA DamagedText ==
  ASSUME TextInv, Damage
  PROVE  text' \in Seq(Tokens) /\ UNCHANGED <<phase, reader>> /\ phase = "stored"
<1>1. PICK i \in DOMAIN text :
        text' \in {RemoveAt(text, i), SubSeq(text, 1, i)} \cup {[text EXCEPT ![i] = t] : t \in Tokens}
  BY DEF Damage
<1>2. text \in Seq(Tokens) /\ Len(text) \in Nat /\ i \in 1..Len(text)
  BY DEF TextInv
<1>3. SubSeq(text, 1, i) \in Seq(Tokens)
  BY <1>2
<1>4. RemoveAt(text, i) \in Seq(Tokens)
  <2>1. SubSeq(text, 1, i - 1) \in Seq(Tokens) /\ SubSeq(text, i + 1, Len(text)) \in Seq(Tokens)
    BY <1>2
  <2> QED BY <2>1 DEF RemoveAt
<1>5. \A t \in Tokens : [text EXCEPT ![i] = t] \in Seq(Tokens)
  BY <1>2
<1> QED BY <1>1, <1>3, <1>4, <1>5 DEF Damage

LEMMA TextStep ==
  ASSUME MemoryInv, TextInv, [Next]_vars
  PROVE  TextInv'
<1>1. CASE Write
  <2>1. UNCHANGED <<pc, pos, frames>>
    BY <1>1, WrittenText DEF reader
  <2> QED BY <1>1, <2>1, WrittenText DEF TextInv
<1>2. CASE Damage
  <2>1. UNCHANGED <<pc, pos, frames>>
    BY <1>2, DamagedText DEF reader
  <2> QED BY <1>2, <2>1, DamagedText DEF TextInv
<1>3. CASE Read
  <2>1. frames \in Seq(FrameType) /\ result.status \in Statuses /\ pos \in Nat
    BY DEF MemoryInv, ReaderType, TextInv
  <2>2. CASE Parse
    BY <2>2 DEF Parse, reader, TextInv
  <2>3. CASE ParseEnds
    BY <2>3 DEF ParseEnds, TextInv
  <2>4. CASE phase = "reading" /\ ReaderMoves
    <3>1. UNCHANGED <<phase, text>> /\ pos' \in {pos, pos + 1, pos + 0}
      BY <2>4 DEF ReaderMoves, Stops, TakesSimple, Opens, TakesClosing, TakesFirst, TakesKey,
                  TakesColon, TakesItem, TakesComma, Moved
    <3> QED BY <2>4, <3>1 DEF TextInv
  <2> QED BY <1>3, <2>1, <2>2, <2>3, <2>4, ReadMoves
<1>4. CASE UNCHANGED vars
  BY <1>4 DEF vars, reader, TextInv
<1> QED BY <1>1, <1>2, <1>3, <1>4 DEF Next

-----------------------------------------------------------------------------
(***************************************************************************)
(* Soundness: what the reader has read is the beginning of a value, with   *)
(* the containers open that it has frames for.                             *)
(***************************************************************************)
\* The text as the reader takes it is one of tokens, as long as the text.
LEMMA AsReadIs ==
  /\ TextInv =>
       /\ AsRead \in Seq(Tokens) /\ Len(AsRead) = Len(text) /\ Len(text) \in Nat
       /\ \A i \in 1..Len(text) : AsRead[i] = Lexed(text[i])
  /\ UNCHANGED text => UNCHANGED AsRead
<1>1. \A t \in Tokens : Lexed(t) \in Tokens
  BY DEF Lexed, Tokens
<1>2. ASSUME TextInv
      PROVE  /\ AsRead \in Seq(Tokens) /\ Len(AsRead) = Len(text) /\ Len(text) \in Nat
             /\ \A i \in 1..Len(text) : AsRead[i] = Lexed(text[i])
  <2>1. text \in Seq(Tokens) /\ Len(text) \in Nat /\ DOMAIN text = 1..Len(text)
    BY <1>2 DEF TextInv
  <2>2. \A i \in 1..Len(text) : Lexed(text[i]) \in Tokens
    BY <1>1, <2>1
  <2>3. AsRead = [i \in 1..Len(text) |-> Lexed(text[i])]
    BY <2>1 DEF AsRead
  <2>4. AsRead \in Seq(Tokens) /\ Len(AsRead) = Len(text)
    BY <2>1, <2>2, <2>3
  <2> QED BY <2>1, <2>3, <2>4
<1>3. UNCHANGED text => UNCHANGED AsRead
  BY DEF AsRead
<1> QED BY <1>2, <1>3

Innards == ListsAt(AsRead, ParseMaxDepth, frames, Len(frames))

Due(starts, v) == Before(AsRead, ParseMaxDepth, frames, starts, Len(frames), v)

ReadSoFar(starts) ==
  /\ Len(frames) <= ParseMaxDepth
  /\ Opened(AsRead, ParseMaxDepth, frames, starts)
  /\ pc = "value" => Due(starts, pos)
  /\ pc = "return" /\ result.status = "OK" =>
       \E v \in Nat : /\ <<v, pos - 1>> \in Values(AsRead, ParseMaxDepth - Len(frames))
                      /\ Due(starts, v)
  /\ pc = "first" => pos = starts[Len(frames)] + 1
  /\ pc = "key" => Ready(AsRead, Innards, starts[Len(frames)], pos)
  /\ pc = "colon" => /\ pos > 1 /\ AsRead[pos - 1] = "string"
                     /\ Ready(AsRead, Innards, starts[Len(frames)], pos - 1)
  /\ pc = "next" => <<starts[Len(frames)] + 1, pos - 1>> \in Innards

SoundInv == phase = "reading" => \E starts \in [Nat -> Nat] : ReadSoFar(starts)

LEMMA KeptOpened ==
  ASSUME frames \in Seq(FrameType), NEW starts, NEW size \in 0..Len(frames),
         Opened(AsRead, ParseMaxDepth, frames, starts), Kept(size), UNCHANGED AsRead
  PROVE  /\ Len(frames') = size
         /\ Opened(AsRead, ParseMaxDepth, frames, starts)'
         /\ \A v : Due(starts, v)' <=> Before(AsRead, ParseMaxDepth, frames, starts, size, v)
         /\ size > 0 => Innards' = ListsAt(AsRead, ParseMaxDepth, frames, size)
<1> DEFINE t == AsRead
           gs == frames'
           D == ParseMaxDepth
<1>1. Len(gs) = size /\ size \in Nat /\ Len(frames) \in Nat /\ size <= Len(frames)
  BY DEF Kept
<1>2. \A i \in 1..Len(gs) : gs[i].object = frames[i].object
  BY <1>1 DEF Kept
<1>3. t' = t
  OBVIOUS
<1>4. Opened(t, D, frames, starts)
  OBVIOUS
<1> HIDE DEF t, gs, D
<1>5. Opened(t, D, gs, starts)
      /\ \A i \in 0..Len(gs) : \A v : Before(t, D, gs, starts, i, v) <=> Before(t, D, frames, starts, i, v)
  BY <1>1, <1>2, <1>4, OpenedSame
<1>6. size > 0 => ListsAt(t, D, gs, size) = ListsAt(t, D, frames, size)
  BY <1>1, <1>2 DEF ListsAt
<1>7. size \in 0..Len(gs)
  BY <1>1
<1>8. \A v : Before(t, D, gs, starts, Len(gs), v) <=> Before(t, D, frames, starts, size, v)
  BY <1>1, <1>5, <1>7
<1> QED BY <1>1, <1>3, <1>5, <1>6, <1>8 DEF t, gs, D, Due, Innards

LEMMA SimpleIsValue ==
  ASSUME NEW S, NEW t \in Seq(S), NEW d \in Nat, NEW p \in DOMAIN t, t[p] \in {"string", "scalar"}
  PROVE  <<p, p>> \in Values(t, d + 1)
<1> DEFINE s == <<p, p>>
<1>1. s[1] = p /\ s[2] = p /\ p \in Nat
  OBVIOUS
<1>2. s \in Spans(t)
  BY <1>1 DEF Spans
<1> HIDE DEF s
<1>3. s \in Nested(t, Values(t, d))
  BY <1>1, <1>2, NestedIs
<1>4. s \in Values(t, d + 1)
  BY <1>3, ValuesAre
<1> QED BY <1>4 DEF s

LEMMA PeekIs ==
  ASSUME TextInv, Peek # "end"
  PROVE  pos \in DOMAIN AsRead /\ AsRead[pos] = Peek
BY AsReadIs DEF TextInv, Peek

\* What the brackets are to each other
LEMMA Tokenwise ==
  \A a, b \in BOOLEAN :
    /\ OpenOf(a) = OpenOf(b) <=> a = b
    /\ OpenOf(a) \notin {"string", "scalar", ",", ":", "end"} /\ OpenOf(a) # CloseOf(b)
    /\ OpenOf(a) \in {"{", "["}
    /\ CloseOf(a) \notin {"{", "[", "string", "scalar", ",", ":", "end"}
<1>1. /\ OpenOf(TRUE) = "{" /\ OpenOf(FALSE) = "["
      /\ CloseOf(TRUE) = "}" /\ CloseOf(FALSE) = "]"
  BY Zenon DEF OpenOf, CloseOf
<1> SUFFICES ASSUME NEW a \in BOOLEAN, NEW b \in BOOLEAN
    PROVE  /\ OpenOf(a) = OpenOf(b) <=> a = b
           /\ OpenOf(a) \notin {"string", "scalar", ",", ":", "end"} /\ OpenOf(a) # CloseOf(b)
           /\ OpenOf(a) \in {"{", "["}
           /\ CloseOf(a) \notin {"{", "[", "string", "scalar", ",", ":", "end"}
  OBVIOUS
<1>2. (a = TRUE \/ a = FALSE) /\ (b = TRUE \/ b = FALSE)
  OBVIOUS
<1>3. CASE a = TRUE /\ b = TRUE
  BY <1>1, <1>3, Zenon
<1>4. CASE a = TRUE /\ b = FALSE
  BY <1>1, <1>4, Zenon
<1>5. CASE a = FALSE /\ b = TRUE
  BY <1>1, <1>5, Zenon
<1>6. CASE a = FALSE /\ b = FALSE
  BY <1>1, <1>6, Zenon
<1> QED BY <1>2, <1>3, <1>4, <1>5, <1>6

LEMMA TextIs ==
  ASSUME TextInv, frames \in Seq(FrameType)
  PROVE  /\ AsRead \in Seq(Tokens) /\ DOMAIN AsRead = 1..Len(AsRead) /\ Len(AsRead) \in Nat
         /\ pos \in Nat \ {0} /\ Len(frames) \in Nat /\ ParseMaxDepth \in Nat \ {0}
         /\ frames # <<>> => Len(frames) > 0 /\ Innermost \in BOOLEAN
<1>1. frames # <<>> => Len(frames) > 0 /\ Innermost \in BOOLEAN
  BY FrameIs
<1>2. ParseMaxDepth \in Nat \ {0}
  BY JsonAssumption
<1>3. AsRead \in Seq(Tokens) /\ DOMAIN AsRead = 1..Len(AsRead) /\ Len(AsRead) \in Nat
  BY AsReadIs
<1> QED BY <1>1, <1>2, <1>3 DEF TextInv

LEMMA InnardsAre ==
  ASSUME TextInv, frames \in Seq(FrameType), frames # <<>>, Len(frames) <= ParseMaxDepth
  PROVE  /\ Innards = ItemLists(AsRead, Innermost, Values(AsRead, ParseMaxDepth - Len(frames)))
         /\ Values(AsRead, ParseMaxDepth - Len(frames)) \in SUBSET Spans(AsRead)
         /\ Innards \in SUBSET Spans(AsRead)
<1> DEFINE d == ParseMaxDepth - Len(frames)
<1>1. d \in Nat
  BY TextIs
<1>2. Innards = ItemLists(AsRead, Innermost, Values(AsRead, d))
  BY DEF Innards, ListsAt, Innermost
<1>3. AsRead \in Seq(Tokens) /\ Innermost \in BOOLEAN
  BY TextIs
<1> HIDE DEF d
<1>4. Values(AsRead, d) \in SUBSET Spans(AsRead)
  BY <1>1, ValuesAre
<1>5. ItemsOf(AsRead, Innermost, Values(AsRead, d)) \in SUBSET Spans(AsRead)
  BY <1>3, <1>4, ItemsAre
<1>6. Innards \in SUBSET Spans(AsRead)
  BY <1>2, <1>3, <1>5, ListsFixed DEF ItemLists
<1> QED BY <1>2, <1>4, <1>6 DEF d

\* The moves that leave the containers as they are
LEMMA SoundWithin ==
  ASSUME TextInv, frames \in Seq(FrameType), NEW starts \in [Nat -> Nat], ReadSoFar(starts),
         \/ TakesSimple \/ TakesFirst \/ TakesKey \/ TakesColon \/ TakesItem \/ TakesComma
  PROVE  ReadSoFar(starts)'
<1> DEFINE n == Len(frames)
           D == ParseMaxDepth
<1>1. /\ n \in Nat /\ D \in Nat /\ pos \in Nat \ {0} /\ AsRead \in Seq(Tokens) /\ Len(AsRead) \in Nat
      /\ DOMAIN AsRead = 1..Len(AsRead) /\ n <= D /\ Opened(AsRead, D, frames, starts)
      /\ frames # <<>> => n > 0 /\ frames[n].object \in BOOLEAN /\ starts[n] \in Nat
  <2>1. D \in Nat /\ n <= D /\ Opened(AsRead, D, frames, starts)
    BY JsonAssumption DEF ReadSoFar
  <2>2. n \in Nat /\ (frames # <<>> => n > 0 /\ frames[n].object \in BOOLEAN)
    BY TextIs DEF Innermost
  <2>3. starts[n] \in Nat
    BY <2>2
  <2> QED BY <2>1, <2>2, <2>3, TextIs, Zenon
<1>2. /\ Kept(n) /\ UNCHANGED AsRead /\ pos' \in {pos, pos + 0, pos + 1}
  BY AsReadIs DEF TakesSimple, TakesFirst, TakesKey, TakesColon, TakesItem, TakesComma, Moved
<1>3. /\ Len(frames') = n /\ Opened(AsRead, D, frames, starts)'
      /\ \A v : Due(starts, v)' <=> Due(starts, v)
      /\ n > 0 => Innards' = Innards
  <2>1. n \in 0..Len(frames)
    BY <1>1
  <2> QED BY <1>1, <1>2, <2>1, KeptOpened DEF Due, Innards
<1>4. ASSUME frames # <<>>, NEW v
      PROVE  Due(starts, v) <=> ReadyFor(AsRead, Innermost, Innards, starts[n], v)
  BY <1>1, <1>4 DEF Due, Before, Innermost, Innards
<1> HIDE DEF n, D
<1>5. CASE TakesSimple
  <2>1. /\ pc = "value" /\ n < D /\ Peek \in {"string", "scalar"} /\ pos' = pos + 1
        /\ pc' = "return" /\ result'.status = "OK"
    BY <1>5 DEF TakesSimple, Moved, n, D
  <2>2. pos \in DOMAIN AsRead /\ AsRead[pos] \in {"string", "scalar"}
    BY <2>1, PeekIs
  <2>3. <<pos, pos>> \in Values(AsRead, D - n)
    <3>1. (D - n) - 1 \in Nat /\ ((D - n) - 1) + 1 = D - n
      BY <1>1, <2>1
    <3> QED BY <1>1, <2>2, <3>1, SimpleIsValue
  <2>4. Due(starts, pos)
    BY <2>1 DEF ReadSoFar
  <2>5. pos' - 1 = pos
    BY <1>1, <2>1
  <2>6. \E v \in Nat : <<v, pos' - 1>> \in Values(AsRead', D - Len(frames')) /\ Due(starts, v)'
    <3>1. pos \in Nat
      BY <1>1
    <3> QED BY <1>2, <1>3, <2>3, <2>4, <2>5, <3>1
  <2> QED BY <1>1, <1>3, <2>1, <2>6 DEF ReadSoFar, n, D
<1>6. ASSUME frames # <<>>, Ready(AsRead, Innards, starts[n], pos')
      PROVE  /\ Ready(AsRead, Innards, starts[Len(frames)], pos)'
             /\ ~Innermost => Due(starts, pos)'
  <2>1. Ready(AsRead', Innards', starts[Len(frames')], pos')
    BY <1>1, <1>2, <1>3, <1>6
  <2>2. ~Innermost => Due(starts, pos')
    BY <1>4, <1>6 DEF ReadyFor
  <2>3. ~Innermost => Due(starts, pos)'
    <3>1. \A v : Due(starts, v) => Due(starts, v)'
      BY <1>3
    <3> QED BY <2>2, <3>1 DEF Due
  <2> QED BY <2>1, <2>3
<1>7. CASE TakesFirst
  <2>1. /\ frames # <<>> /\ pos' = pos + 0 /\ pc = "first"
        /\ pc' = IF Innermost THEN "key" ELSE "value"
    BY <1>7 DEF TakesFirst, Moved
  <2>2. pos' = starts[n] + 1
    BY <1>1, <2>1 DEF ReadSoFar, n
  <2>3. Ready(AsRead, Innards, starts[n], pos')
    BY <2>2 DEF Ready
  <2> QED BY <1>1, <1>3, <1>6, <2>1, <2>3 DEF ReadSoFar, n, D
<1>8. CASE TakesKey
  <2>1. /\ frames # <<>> /\ pos' = pos + 1 /\ pc = "key" /\ pc' = "colon" /\ Peek = "string"
    BY <1>8 DEF TakesKey, Moved
  <2>2. AsRead[pos] = "string" /\ Ready(AsRead, Innards, starts[n], pos)
    BY <2>1, PeekIs DEF ReadSoFar, n
  <2>3. pos' > 1 /\ pos' - 1 = pos
    <3>1. pos' = pos + 1 /\ pos \in Nat \ {0}
      BY <1>1, <2>1, Zenon
    <3> QED BY <3>1
  <2>4. Innards' = Innards /\ starts[Len(frames')] = starts[n] /\ AsRead' = AsRead
    <3>1. n > 0
      BY <1>1, <2>1, Zenon
    <3> QED BY <1>2, <1>3, <3>1, Zenon
  <2>5. pos' > 1 /\ AsRead'[pos' - 1] = "string" /\ Ready(AsRead', Innards', starts[Len(frames')], pos' - 1)
    BY <2>2, <2>3, <2>4, Zenon
  <2> QED BY <1>1, <1>3, <2>1, <2>5 DEF ReadSoFar, n, D
<1>9. CASE TakesColon
  <2>1. /\ frames # <<>> /\ pos' = pos + 1 /\ pc = "colon" /\ pc' = "value" /\ Peek = ":" /\ Innermost
    BY <1>9 DEF TakesColon, Moved
  <2>2. /\ AsRead[pos] = ":" /\ pos > 1 /\ AsRead[pos - 1] = "string"
        /\ Ready(AsRead, Innards, starts[n], pos - 1)
    BY <2>1, PeekIs DEF ReadSoFar, n
  <2>3. pos' > 2 /\ pos' - 1 = pos /\ pos' - 2 = pos - 1
    <3>1. pos' = pos + 1 /\ pos > 1
      BY <2>1, <2>2, Zenon
    <3> QED BY <1>1, <3>1
  <2>4. Due(starts, pos')
    BY <1>4, <2>1, <2>2, <2>3 DEF ReadyFor
  <2>5. Due(starts, pos)'
    <3>1. \A v : Due(starts, v) => Due(starts, v)'
      BY <1>3
    <3> QED BY <2>4, <3>1 DEF Due
  <2> QED BY <1>1, <1>3, <2>1, <2>5 DEF ReadSoFar, n, D
<1>10. CASE TakesItem
  <2>1. /\ frames # <<>> /\ pos' = pos + 0 /\ pc = "return" /\ result.status = "OK" /\ pc' = "next"
    BY <1>10 DEF TakesItem, Moved
  <2>2. PICK v \in Nat : <<v, pos - 1>> \in Values(AsRead, D - n) /\ Due(starts, v)
    BY <2>1 DEF ReadSoFar, n, D
  <2>3. Values(AsRead, D - n) \in SUBSET Spans(AsRead)
    <3>1. D - n \in Nat
      BY <1>1
    <3> QED BY <3>1, ValuesAre
  <2>4. Innards = ItemLists(AsRead, Innermost, Values(AsRead, D - n)) /\ Innermost \in BOOLEAN
    BY <1>1, <2>1 DEF Innards, ListsAt, Innermost, n, D
  <2>5. ReadyFor(AsRead, Innermost, ItemLists(AsRead, Innermost, Values(AsRead, D - n)), starts[n], v)
    BY <1>4, <2>1, <2>2, <2>4
  <2>6. <<starts[n] + 1, pos - 1>> \in Innards
    BY <1>1, <2>1, <2>2, <2>3, <2>4, <2>5, ValueJoins
  <2>7. <<starts[Len(frames')] + 1, pos' - 1>> \in Innards'
    BY <1>1, <1>3, <2>1, <2>6
  <2> QED BY <1>1, <1>3, <2>1, <2>7 DEF ReadSoFar, n, D
<1>11. CASE TakesComma
  <2>1. /\ frames # <<>> /\ pos' = pos + 1 /\ pc = "next" /\ Peek = ","
        /\ pc' = IF Innermost THEN "key" ELSE "value"
    BY <1>11 DEF TakesComma, Moved
  <2>2. AsRead[pos] = "," /\ <<starts[n] + 1, pos - 1>> \in Innards
    BY <2>1, PeekIs, Zenon DEF ReadSoFar, n
  <2>3. starts[n] + 1 <= pos - 1
    <3>1. Innards \in SUBSET Spans(AsRead)
      BY <1>1, <2>1, InnardsAre, Zenon DEF n, D
    <3>2. <<starts[n] + 1, pos - 1>> \in Spans(AsRead)
      BY <2>2, <3>1
    <3> QED BY <3>2 DEF Spans
  <2>4. pos' > starts[n] + 2 /\ pos' - 1 = pos /\ pos' - 2 = pos - 1
    <3>1. PICK s \in Nat : s = starts[n]
      BY <1>1
    <3>2. pos' = pos + 1 /\ pos \in Nat
      BY <1>1, <2>1, Zenon
    <3>3. s + 1 <= pos - 1
      BY <2>3, <3>1
    <3>4. pos + 1 > s + 2 /\ (pos + 1) - 1 = pos /\ (pos + 1) - 2 = pos - 1
      BY <3>2, <3>3
    <3> QED BY <3>1, <3>2, <3>4, Zenon
  <2>5. Ready(AsRead, Innards, starts[n], pos')
    BY <2>2, <2>4, Zenon DEF Ready
  <2> QED BY <1>1, <1>3, <1>6, <2>1, <2>5 DEF ReadSoFar, n, D
<1> QED BY <1>5, <1>7, <1>8, <1>9, <1>10, <1>11

LEMMA SoundOpens ==
  ASSUME TextInv, frames \in Seq(FrameType), NEW starts \in [Nat -> Nat], ReadSoFar(starts), Opens
  PROVE  \E more \in [Nat -> Nat] : ReadSoFar(more)'
<1> DEFINE n == Len(frames)
           D == ParseMaxDepth
           t == AsRead
           gs == frames'
<1>1. PICK object \in BOOLEAN :
        /\ pc = "value" /\ n < D /\ Peek = OpenOf(object)
        /\ pos' = pos + 1 /\ pc' = "first" /\ Kept(n + 1) /\ t' = t /\ gs[n + 1].object = object
  BY AsReadIs DEF Opens, Moved
<1>2. n \in Nat /\ D \in Nat /\ pos \in Nat
  BY JsonAssumption DEF TextInv
<1>3. pos \in DOMAIN t /\ t[pos] = OpenOf(object)
  <2>1. Peek # "end"
    BY <1>1 DEF OpenOf
  <2> QED BY <1>1, <2>1, PeekIs
<1>4. Opened(t, D, frames, starts) /\ Before(t, D, frames, starts, n, pos)
  BY <1>1 DEF ReadSoFar, Due
<1>5. Len(gs) = n + 1 /\ \A i \in 1..n : gs[i].object = frames[i].object
  BY <1>1, <1>2 DEF Kept
<1>6. t[pos] = OpenOf(gs[Len(gs)].object)
  BY <1>1, <1>3, <1>5
<1> HIDE DEF gs, t, D
<1> DEFINE more == [starts EXCEPT ![Len(gs)] = pos]
<1>7. Opened(t, D, gs, more)
  <2>1. Len(frames) \in Nat /\ pos \in Nat /\ pos \in DOMAIN t
    BY <1>2, <1>3
  <2> QED BY <1>4, <1>5, <1>6, <2>1, OpenedMore
<1>8. more \in [Nat -> Nat] /\ more[Len(gs)] = pos
  <2>1. Len(gs) \in Nat /\ pos \in Nat
    BY <1>2, <1>5
  <2> QED BY <2>1
<1> HIDE DEF more
<1>9. PICK m \in [Nat -> Nat] : m = more
  BY <1>8
<1>10. Opened(t', D, gs, m) /\ pos' = m[Len(gs)] + 1 /\ Len(gs) <= D
  <2>1. t' = t /\ pos' = pos + 1 /\ n < D
    BY <1>1, Zenon
  <2>2. Len(gs) <= D
    BY <1>2, <1>5, <2>1
  <2> QED BY <1>7, <1>8, <1>9, <2>1, <2>2
<1>11. ReadSoFar(m)'
  <2>1. Opened(AsRead', ParseMaxDepth, frames', m) /\ pos' = m[Len(frames')] + 1
        /\ Len(frames') <= ParseMaxDepth
    BY <1>10 DEF gs, t, D
  <2>2. pc' = "first"
    BY <1>1
  <2> QED BY <2>1, <2>2, Zenon DEF ReadSoFar
<1> QED BY <1>11

LEMMA SoundCloses ==
  ASSUME TextInv, frames \in Seq(FrameType), NEW starts \in [Nat -> Nat], ReadSoFar(starts),
         TakesClosing
  PROVE  ReadSoFar(starts)'
<1> DEFINE n == Len(frames)
           D == ParseMaxDepth
<1>1. /\ frames # <<>> /\ pc \in {"first", "next"} /\ Peek = CloseOf(Innermost)
      /\ pos' = pos + 1 /\ pc' = "return" /\ Kept(n - 1) /\ UNCHANGED AsRead
  BY AsReadIs DEF TakesClosing, Moved
<1>2. /\ n \in Nat \ {0} /\ pos \in Nat \ {0} /\ AsRead \in Seq(Tokens) /\ starts[n] \in Nat
      /\ Innermost \in BOOLEAN
  <2>1. n \in Nat \ {0} /\ Innermost \in BOOLEAN
    BY <1>1, FrameIs
  <2> QED BY <2>1, AsReadIs DEF TextInv
<1>3. D \in Nat /\ n <= D /\ Opened(AsRead, D, frames, starts)
  BY JsonAssumption DEF ReadSoFar
<1>4. /\ starts[n] \in DOMAIN AsRead /\ AsRead[starts[n]] = OpenOf(Innermost)
      /\ Before(AsRead, D, frames, starts, n - 1, starts[n])
  <2>1. n \in 1..Len(frames)
    BY <1>2
  <2> QED BY <1>3, <2>1 DEF Opened, Innermost
<1>5. pos \in DOMAIN AsRead /\ AsRead[pos] = CloseOf(Innermost)
  <2>1. Peek # "end"
    BY <1>1 DEF CloseOf
  <2> QED BY <1>1, <2>1, PeekIs
<1>6. D - n \in Nat /\ (D - n) + 1 = D - (n - 1) /\ n - 1 \in 0..n
  <2>1. n \in Nat \ {0} /\ D \in Nat /\ n <= D
    BY <1>2, <1>3
  <2> HIDE DEF n, D
  <2> QED BY <2>1
<1>7. pos = starts[n] + 1
        \/ <<starts[n] + 1, pos - 1>> \in ItemLists(AsRead, Innermost, Values(AsRead, D - n))
  BY <1>1 DEF ReadSoFar, Innards, ListsAt, Innermost
<1> HIDE DEF n, D
<1>8. <<starts[n], pos>> \in Values(AsRead, (D - n) + 1)
  BY <1>2, <1>4, <1>5, <1>6, <1>7, Closes
<1>9. /\ Len(frames') = n - 1 /\ Opened(AsRead, D, frames, starts)'
      /\ Before(AsRead', ParseMaxDepth, frames', starts, Len(frames'), starts[n])
  <2>1. /\ Len(frames') = n - 1 /\ Opened(AsRead, ParseMaxDepth, frames, starts)'
        /\ \A v : Due(starts, v)' <=> Before(AsRead, ParseMaxDepth, frames, starts, n - 1, v)
    <3>1. n - 1 \in 0..Len(frames)
      BY <1>6 DEF n
    <3> QED BY <1>1, <1>3, <3>1, KeptOpened DEF D
  <2>2. PICK s \in Nat : s = starts[n]
    BY <1>2
  <2>3. Due(starts, s)'
    BY <1>4, <2>1, <2>2 DEF D
  <2>4. Before(AsRead', ParseMaxDepth, frames', starts, Len(frames'), s)
    BY <2>3 DEF Due
  <2>5. Before(AsRead', ParseMaxDepth, frames', starts, Len(frames'), starts[n])
    BY <2>2, <2>4
  <2> QED BY <2>1, <2>5 DEF D
<1>10. pos' - 1 = pos
  BY <1>1, <1>2
<1>11. \E v \in Nat : /\ <<v, pos' - 1>> \in Values(AsRead', ParseMaxDepth - Len(frames'))
                      /\ Before(AsRead', ParseMaxDepth, frames', starts, Len(frames'), v)
  <2>1. ParseMaxDepth - Len(frames') = (D - n) + 1
    BY <1>6, <1>9 DEF D
  <2>2. <<starts[n], pos' - 1>> \in Values(AsRead', ParseMaxDepth - Len(frames'))
    BY <1>1, <1>8, <1>10, <2>1
  <2> QED BY <1>2, <1>9, <2>2
<1>12. Len(frames') <= D
  BY <1>2, <1>3, <1>9
<1> QED BY <1>1, <1>9, <1>11, <1>12 DEF ReadSoFar, Due, D

LEMMA SoundStops ==
  ASSUME frames \in Seq(FrameType), NEW starts \in [Nat -> Nat], ReadSoFar(starts), Stops
  PROVE  ReadSoFar(starts)'
<1>1. PICK status \in Statuses \ {"OK"}, size \in {Len(frames), Len(frames) - 1} :
        /\ size \in Nat /\ Kept(size) /\ UNCHANGED AsRead /\ pc' = "return" /\ result'.status = status
  BY AsReadIs DEF Stops, Moved
<1>2. size \in 0..Len(frames) /\ Len(frames) \in Nat
  <2>1. size \in Nat /\ size \in {Len(frames), Len(frames) - 1} /\ Len(frames) \in Nat
    BY <1>1
  <2> QED BY <2>1
<1>3. /\ ParseMaxDepth \in Nat /\ Len(frames) <= ParseMaxDepth
      /\ Opened(AsRead, ParseMaxDepth, frames, starts)
  BY JsonAssumption DEF ReadSoFar
<1>4. Len(frames') = size /\ Opened(AsRead, ParseMaxDepth, frames, starts)'
  BY <1>1, <1>2, <1>3, KeptOpened
<1>5. Len(frames') <= ParseMaxDepth
  BY <1>2, <1>3, <1>4
<1> QED BY <1>1, <1>4, <1>5 DEF ReadSoFar

LEMMA SoundStep ==
  ASSUME MemoryInv, TextInv, SoundInv, [Next]_vars
  PROVE  SoundInv'
<1>1. frames \in Seq(FrameType) /\ result.status \in Statuses /\ pos \in Nat
  BY DEF MemoryInv, ReaderType, TextInv
<1>2. CASE Write
  BY <1>2, WrittenText DEF SoundInv, Write, Scalar, BeginObject, BeginArray, Begin, EndObject,
     EndArray, End, Key, Finish, Misuse, Emit
<1>3. CASE Damage
  BY <1>3, DamagedText DEF SoundInv
<1>4. CASE Parse
  <2>1. pc' = "value" /\ pos' = 1 /\ frames' = <<>>
    BY <1>4 DEF Parse, TextInv, reader
  <2>2. Len(frames') = 0 /\ 0 <= ParseMaxDepth
    BY <2>1, JsonAssumption
  <2>3. [i \in Nat |-> i] \in [Nat -> Nat]
    OBVIOUS
  <2>4. Opened(AsRead, ParseMaxDepth, frames, [i \in Nat |-> i])'
    BY <2>2 DEF Opened
  <2>5. Due([i \in Nat |-> i], pos)'
    BY <2>1, <2>2 DEF Due, Before
  <2>6. ReadSoFar([i \in Nat |-> i])'
    BY <2>1, <2>2, <2>4, <2>5 DEF ReadSoFar
  <2> QED BY <2>3, <2>6 DEF SoundInv
<1>5. CASE ParseEnds
  BY <1>5 DEF ParseEnds, SoundInv
<1>6. CASE phase = "reading" /\ ReaderMoves
  <2>1. PICK starts \in [Nat -> Nat] : ReadSoFar(starts)
    BY <1>6 DEF SoundInv
  <2>2. CASE Opens
    BY <1>1, <2>1, <2>2, SoundOpens DEF SoundInv
  <2>3. CASE ~Opens
    <3>1. ReadSoFar(starts)'
      BY <1>1, <1>6, <2>1, <2>3, SoundWithin, SoundCloses, SoundStops DEF ReaderMoves
    <3> QED BY <3>1 DEF SoundInv
  <2> QED BY <2>2, <2>3
<1>7. CASE UNCHANGED vars
  <2>1. UNCHANGED <<phase, AsRead, pc, pos, frames, result>>
    BY <1>7, AsReadIs DEF vars, reader
  <2> QED BY <2>1 DEF SoundInv, ReadSoFar, Due, Innards
<1> QED BY <1>1, <1>2, <1>3, <1>4, <1>5, <1>6, <1>7, ReadMoves DEF Next

-----------------------------------------------------------------------------
(***************************************************************************)
(* Completeness: if the text is JSON, what the reader has not read yet is  *)
(* the rest of a value, with the closing brackets of its frames.           *)
(***************************************************************************)
Follows(ends, q) == After(AsRead, ParseMaxDepth, frames, ends, Len(frames), q)

Expected(ends) ==
  /\ Len(frames) <= ParseMaxDepth
  /\ Closed(AsRead, ParseMaxDepth, frames, ends)
  /\ pc = "value" =>
       \E q \in Nat : /\ <<pos, q>> \in Values(AsRead, ParseMaxDepth - Len(frames))
                      /\ Follows(ends, q)
  /\ pc = "return" => \/ result.status = "NO_MEMORY"
                      \/ result.status = "OK" /\ Follows(ends, pos - 1)
  /\ pc = "first" => \/ pos = ends[Len(frames)]
                     \/ <<pos, ends[Len(frames)] - 1>> \in Innards
  /\ pc = "key" => <<pos, ends[Len(frames)] - 1>> \in Innards
  /\ pc = "colon" =>
       /\ pos \in DOMAIN AsRead /\ AsRead[pos] = ":"
       /\ \E q \in Nat : /\ <<pos + 1, q>> \in Values(AsRead, ParseMaxDepth - Len(frames))
                         /\ Follows(ends, q)
  /\ pc = "next" => Follows(ends, pos - 1)

CompleteInv ==
  phase = "reading" /\ IsJson(AsRead, ParseMaxDepth) => \E ends \in [Nat -> Nat] : Expected(ends)

LEMMA KeptClosed ==
  ASSUME frames \in Seq(FrameType), NEW ends, NEW size \in 0..Len(frames),
         Closed(AsRead, ParseMaxDepth, frames, ends), Kept(size), UNCHANGED AsRead
  PROVE  /\ Len(frames') = size
         /\ Closed(AsRead, ParseMaxDepth, frames, ends)'
         /\ \A q : Follows(ends, q)' <=> After(AsRead, ParseMaxDepth, frames, ends, size, q)
         /\ size > 0 => Innards' = ListsAt(AsRead, ParseMaxDepth, frames, size)
<1> DEFINE t == AsRead
           gs == frames'
           D == ParseMaxDepth
<1>1. Len(gs) = size /\ size \in Nat /\ Len(frames) \in Nat /\ size <= Len(frames)
  BY DEF Kept
<1>2. \A i \in 1..Len(gs) : gs[i].object = frames[i].object
  BY <1>1 DEF Kept
<1>3. t' = t
  OBVIOUS
<1>4. Closed(t, D, frames, ends)
  OBVIOUS
<1> HIDE DEF t, gs, D
<1>5. Closed(t, D, gs, ends)
      /\ \A i \in 0..Len(gs) : \A q : After(t, D, gs, ends, i, q) <=> After(t, D, frames, ends, i, q)
  BY <1>1, <1>2, <1>4, ClosedSame
<1>6. size > 0 => ListsAt(t, D, gs, size) = ListsAt(t, D, frames, size)
  BY <1>1, <1>2 DEF ListsAt
<1>7. size \in 0..Len(gs)
  BY <1>1
<1>8. \A q : After(t, D, gs, ends, Len(gs), q) <=> After(t, D, frames, ends, size, q)
  BY <1>1, <1>5, <1>7
<1> QED BY <1>1, <1>3, <1>5, <1>6, <1>8 DEF t, gs, D, Follows, Innards

\* A value is simple or stands in brackets.
LEMMA ValueHas ==
  ASSUME NEW S, NEW t \in Seq(S), NEW d \in Nat, NEW p, NEW q, <<p, q>> \in Values(t, d)
  PROVE  /\ d > 0 /\ p \in DOMAIN t /\ q \in DOMAIN t
         /\ \/ q = p /\ t[p] \in {"string", "scalar"}
            \/ \E object \in BOOLEAN :
                 /\ t[p] = OpenOf(object) /\ t[q] = CloseOf(object)
                 /\ q = p + 1 \/ <<p + 1, q - 1>> \in ItemLists(t, object, Values(t, d - 1))
<1> DEFINE s == <<p, q>>
<1>1. s[1] = p /\ s[2] = q /\ s \in Values(t, d)
  OBVIOUS
<1> HIDE DEF s
<1>2. d > 0
  <2>1. d # 0
    BY <1>1, ValuesAre
  <2> QED BY <2>1
<1>3. s \in Nested(t, Values(t, d - 1))
  <2>1. d - 1 \in Nat /\ (d - 1) + 1 = d
    BY <1>2
  <2>2. Values(t, (d - 1) + 1) = Nested(t, Values(t, d - 1))
    BY <2>1, ValuesAre
  <2> QED BY <1>1, <2>1, <2>2
<1>4. s \in Spans(t)
  BY <1>3, NestedIs
<1>5. p \in DOMAIN t /\ q \in DOMAIN t
  BY <1>1, <1>4, SpanIs
<1>6. \/ s[1] = s[2] /\ t[s[1]] \in {"string", "scalar"}
      \/ \E object \in BOOLEAN : IsNested(t, object, Values(t, d - 1), s)
  BY <1>3, <1>4, NestedIs
<1> QED BY <1>1, <1>2, <1>5, <1>6 DEF IsNested

LEMMA ItemParts ==
  ASSUME NEW t, NEW values, NEW p, NEW q, IsItem(t, TRUE, values, <<p, q>>)
  PROVE  t[p] = "string" /\ t[p + 1] = ":" /\ <<p + 2, q>> \in values
<1> DEFINE m == <<p, q>>
<1>1. m[1] = p /\ m[2] = q
  OBVIOUS
<1> HIDE DEF m
<1>2. IsItem(t, TRUE, values, m)
  BY DEF m
<1> QED BY <1>1, <1>2, Zenon DEF IsItem

\* Where a list is due, an item is, and after it the rest of the list.
LEMMA ItemDue ==
  ASSUME TextInv, frames \in Seq(FrameType), frames # <<>>, Len(frames) <= ParseMaxDepth,
         NEW ends \in [Nat -> Nat], NEW p, <<p, ends[Len(frames)] - 1>> \in Innards
  PROVE  /\ p \in DOMAIN AsRead
         /\ ~Innermost => \E q \in Nat :
              <<p, q>> \in Values(AsRead, ParseMaxDepth - Len(frames)) /\ Follows(ends, q)
         /\ Innermost =>
              /\ AsRead[p] = "string" /\ AsRead[p + 1] = ":"
              /\ \E q \in Nat : /\ <<p + 2, q>> \in Values(AsRead, ParseMaxDepth - Len(frames))
                                /\ Follows(ends, q)
<1> DEFINE n == Len(frames)
           d == ParseMaxDepth - n
           values == Values(AsRead, d)
           e == ends[n] - 1
<1>1. n \in Nat \ {0} /\ d \in Nat /\ AsRead \in Seq(Tokens) /\ Innermost \in BOOLEAN
      /\ DOMAIN AsRead = 1..Len(AsRead) /\ Len(AsRead) \in Nat
  <2>1. n \in Nat /\ n > 0 /\ ParseMaxDepth \in Nat /\ n <= ParseMaxDepth
    BY TextIs
  <2>2. n \in Nat \ {0} /\ d \in Nat
    BY <2>1
  <2> QED BY <2>2, TextIs, Zenon
<1>2. values \in SUBSET Spans(AsRead) /\ Innards = ItemLists(AsRead, Innermost, values)
      /\ Innards \in SUBSET Spans(AsRead)
  BY InnardsAre
<1>3. ends[n] \in Nat
  BY <1>1
<1>4. <<p, e>> \in ItemLists(AsRead, Innermost, values)
  BY <1>2
<1> HIDE DEF values, d, e, n
<1>5. PICK q \in DOMAIN AsRead :
        /\ IsItem(AsRead, Innermost, values, <<p, q>>)
        /\ q = e \/ (AsRead[q + 1] = "," /\ <<q + 2, e>> \in ItemLists(AsRead, Innermost, values))
  BY <1>1, <1>2, <1>4, FirstItem
<1>6. q \in Nat
  BY <1>1
<1>7. p \in DOMAIN AsRead
  <2>1. <<p, e>> \in Spans(AsRead)
    BY <1>2, <1>4
  <2> QED BY <2>1 DEF Spans
<1>8. Follows(ends, q)
  <2>1. CASE q = e
    <3>1. q + 1 = ends[n]
      BY <1>3, <1>6, <2>1, SMTT(30) DEF e
    <3> QED BY <1>1, <3>1 DEF Follows, After, n
  <2>2. CASE AsRead[q + 1] = "," /\ <<q + 2, e>> \in ItemLists(AsRead, Innermost, values)
    <3>1. AsRead[q + 1] = "," /\ <<q + 2, ends[n] - 1>> \in ListsAt(AsRead, ParseMaxDepth, frames, n)
      BY <1>2, <2>2, Zenon DEF Innards, e, n
    <3>2. n # 0
      BY <1>1
    <3> QED BY <3>1, <3>2, Zenon DEF Follows, After, n
  <2> QED BY <1>5, <2>1, <2>2
<1>9. CASE ~Innermost
  <2>1. <<p, q>> \in values
    BY <1>5, <1>9 DEF IsItem
  <2> QED BY <1>6, <1>7, <1>8, <1>9, <2>1 DEF values, d, n
<1>10. CASE Innermost
  <2>1. AsRead[p] = "string" /\ AsRead[p + 1] = ":" /\ <<p + 2, q>> \in values
    BY <1>5, <1>10, ItemParts
  <2> QED BY <1>6, <1>7, <1>8, <1>10, <2>1, Zenon DEF values, d, n
<1> QED BY <1>9, <1>10

\* After a value in a container: its bracket, or a comma and the rest of the list
LEMMA AfterItem ==
  ASSUME TextInv, frames \in Seq(FrameType), frames # <<>>, Len(frames) <= ParseMaxDepth,
         NEW ends \in [Nat -> Nat], Closed(AsRead, ParseMaxDepth, frames, ends),
         Follows(ends, pos - 1)
  PROVE  /\ AsRead[ends[Len(frames)]] = CloseOf(Innermost) /\ ends[Len(frames)] \in DOMAIN AsRead
         /\ pos \in DOMAIN AsRead
         /\ \/ pos = ends[Len(frames)]
            \/ AsRead[pos] = "," /\ <<pos + 1, ends[Len(frames)] - 1>> \in Innards
<1> DEFINE n == Len(frames)
<1>1. n \in 1..Len(frames) /\ n # 0 /\ pos \in Nat \ {0} /\ DOMAIN AsRead = 1..Len(AsRead)
  BY TextIs
<1>2. ends[n] \in DOMAIN AsRead /\ AsRead[ends[n]] = CloseOf(Innermost)
  BY <1>1 DEF Closed, Innermost
<1>3. (pos - 1) + 1 = pos /\ (pos - 1) + 2 = pos + 1
  BY <1>1
<1>4. pos = ends[n] \/ (AsRead[pos] = "," /\ <<pos + 1, ends[n] - 1>> \in Innards)
  <2>1. \/ (pos - 1) + 1 = ends[n]
        \/ AsRead[(pos - 1) + 1] = "," /\ <<(pos - 1) + 2, ends[n] - 1>> \in Innards
    BY <1>1, Zenon DEF Follows, After, Innards
  <2> QED BY <1>3, <2>1, Zenon
<1>5. pos \in DOMAIN AsRead
  <2>1. CASE pos = ends[n]
    BY <1>2, <2>1
  <2>2. CASE <<pos + 1, ends[n] - 1>> \in Innards
    <3>1. <<pos + 1, ends[n] - 1>> \in Spans(AsRead)
      BY <2>2, InnardsAre
    <3>2. pos + 1 \in DOMAIN AsRead
      BY <3>1 DEF Spans
    <3> QED BY <1>1, <3>2, TextIs
  <2> QED BY <1>4, <2>1, <2>2
<1> QED BY <1>2, <1>4, <1>5, Zenon

LEMMA PeekAt == ASSUME TextInv, pos \in DOMAIN AsRead PROVE Peek = AsRead[pos]
BY AsReadIs DEF TextInv, Peek

LEMMA CompleteWithin ==
  ASSUME TextInv, frames \in Seq(FrameType), NEW ends \in [Nat -> Nat], Expected(ends),
         \/ TakesSimple \/ TakesFirst \/ TakesKey \/ TakesColon \/ TakesItem \/ TakesComma
  PROVE  Expected(ends)'
<1> DEFINE n == Len(frames)
           D == ParseMaxDepth
<1>1. /\ n \in Nat /\ D \in Nat /\ pos \in Nat \ {0} /\ AsRead \in Seq(Tokens) /\ Len(AsRead) \in Nat
      /\ DOMAIN AsRead = 1..Len(AsRead) /\ n <= D /\ D - n \in Nat /\ Closed(AsRead, D, frames, ends)
  <2>1. n <= D /\ Closed(AsRead, D, frames, ends)
    BY DEF Expected
  <2>2. n \in Nat /\ D \in Nat
    BY TextIs
  <2>3. D - n \in Nat
    BY <2>1, <2>2
  <2> QED BY <2>1, <2>2, <2>3, TextIs, Zenon
<1>2. /\ Kept(n) /\ UNCHANGED AsRead
  BY AsReadIs DEF TakesSimple, TakesFirst, TakesKey, TakesColon, TakesItem, TakesComma, Moved
<1>3. /\ Len(frames') = n /\ Closed(AsRead, D, frames, ends)'
      /\ \A q : Follows(ends, q)' <=> Follows(ends, q)
      /\ n > 0 => Innards' = Innards
  <2>1. n \in 0..Len(frames)
    BY <1>1
  <2> QED BY <1>1, <1>2, <2>1, KeptClosed DEF Follows, Innards
<1>4. \A q : Follows(ends, q) => After(AsRead', D, frames', ends, Len(frames'), q)
  BY <1>3 DEF Follows
<1>5. frames # <<>> => n > 0
  BY TextIs
<1> HIDE DEF n, D
<1>6. ASSUME NEW v, NEW q \in Nat, <<v, q>> \in Values(AsRead, D - n), Follows(ends, q)
      PROVE  \E r \in Nat : /\ <<v, r>> \in Values(AsRead', D - Len(frames'))
                            /\ After(AsRead', D, frames', ends, Len(frames'), r)
  BY <1>2, <1>3, <1>4, <1>6
<1>7. ASSUME frames # <<>>, <<pos', ends[n] - 1>> \in Innards,
             pc' = IF Innermost THEN "key" ELSE "value"
      PROVE  Expected(ends)'
  <2>1. CASE Innermost
    <3>1. pc' = "key" /\ <<pos', ends[Len(frames')] - 1>> \in Innards'
      BY <1>3, <1>5, <1>7, <2>1
    <3> QED BY <1>1, <1>3, <3>1 DEF Expected, D
  <2>2. CASE ~Innermost
    <3>1. PICK p : p = pos'
      OBVIOUS
    <3>2. \E q \in Nat : <<p, q>> \in Values(AsRead, D - n) /\ Follows(ends, q)
      BY <1>1, <1>7, <2>2, <3>1, ItemDue DEF n, D
    <3>3. \E r \in Nat : /\ <<p, r>> \in Values(AsRead', D - Len(frames'))
                         /\ After(AsRead', D, frames', ends, Len(frames'), r)
      BY <1>6, <3>2
    <3>4. pc' = "value" /\ pos' = p
      BY <1>7, <2>2, <3>1
    <3> QED BY <1>1, <1>3, <3>3, <3>4 DEF Expected, Follows, D
  <2> QED BY <2>1, <2>2
<1>8. CASE TakesSimple
  <2>1. /\ pc = "value" /\ Peek \in {"string", "scalar"} /\ pos' = pos + 1
        /\ pc' = "return" /\ result'.status = "OK"
    BY <1>8 DEF TakesSimple, Moved
  <2>2. PICK q \in Nat : <<pos, q>> \in Values(AsRead, D - n) /\ Follows(ends, q)
    BY <2>1 DEF Expected, n, D
  <2>3. q = pos
    <3>1. AsRead[pos] \in {"string", "scalar"}
      BY <2>1, PeekIs
    <3>2. \A object \in BOOLEAN : AsRead[pos] # OpenOf(object)
      BY <3>1, Tokenwise, Zenon
    <3>3. q = pos \/ \E object \in BOOLEAN : AsRead[pos] = OpenOf(object)
      <4>1. AsRead \in Seq(Tokens) /\ D - n \in Nat /\ <<pos, q>> \in Values(AsRead, D - n)
        BY <1>1, <2>2
      <4>2. PICK d \in Nat : d = D - n
        BY <4>1
      <4>3. <<pos, q>> \in Values(AsRead, d)
        BY <4>1, <4>2
      <4>4. \/ q = pos /\ AsRead[pos] \in {"string", "scalar"}
            \/ \E object \in BOOLEAN :
                 /\ AsRead[pos] = OpenOf(object) /\ AsRead[q] = CloseOf(object)
                 /\ \/ q = pos + 1
                    \/ <<pos + 1, q - 1>> \in ItemLists(AsRead, object, Values(AsRead, d - 1))
        BY <4>1, <4>3, ValueHas
      <4> QED BY <4>4, Zenon
    <3> QED BY <3>2, <3>3
  <2>4. pos' - 1 = q
    BY <1>1, <2>1, <2>3
  <2>5. After(AsRead', D, frames', ends, Len(frames'), pos' - 1)
    BY <1>4, <2>2, <2>4
  <2> QED BY <1>1, <1>3, <2>1, <2>5 DEF Expected, Follows, D
<1>9. CASE TakesFirst
  <2>1. /\ frames # <<>> /\ pos' = pos + 0 /\ pc = "first" /\ Peek # CloseOf(Innermost)
        /\ pc' = IF Innermost THEN "key" ELSE "value"
    BY <1>9 DEF TakesFirst, Moved
  <2>2. pos' = pos
    BY <1>1, <2>1
  <2>3. pos = ends[n] \/ <<pos, ends[n] - 1>> \in Innards
    BY <2>1 DEF Expected, n
  <2>4. pos # ends[n]
    <3>1. n \in 1..Len(frames)
      BY <1>1, <1>5, <2>1 DEF n
    <3>2. ends[n] \in DOMAIN AsRead /\ AsRead[ends[n]] = CloseOf(Innermost)
      BY <1>1, <3>1 DEF Closed, Innermost, n
    <3> QED BY <2>1, <3>2, PeekAt
  <2> QED BY <1>7, <2>1, <2>2, <2>3, <2>4
<1>10. CASE TakesKey
  <2>1. /\ frames # <<>> /\ pos' = pos + 1 /\ pc = "key" /\ pc' = "colon" /\ Innermost
    BY <1>10 DEF TakesKey, Moved
  <2>2. <<pos, ends[n] - 1>> \in Innards
    BY <2>1 DEF Expected, n
  <2>3. /\ AsRead[pos + 1] = ":"
        /\ \E q \in Nat : <<pos + 2, q>> \in Values(AsRead, D - n) /\ Follows(ends, q)
    BY <1>1, <2>1, <2>2, ItemDue, Zenon DEF n, D
  <2>4. pos' + 1 = pos + 2
    BY <1>1, <2>1
  <2>5. PICK q \in Nat : <<pos + 2, q>> \in Values(AsRead, D - n) /\ Follows(ends, q)
    BY <2>3
  <2>6. pos + 1 \in DOMAIN AsRead
    <3>1. pos + 2 \in DOMAIN AsRead
      BY <1>1, <2>5, ValueHas
    <3> QED BY <1>1, <3>1
  <2>7. \E r \in Nat : /\ <<pos + 2, r>> \in Values(AsRead', D - Len(frames'))
                       /\ After(AsRead', D, frames', ends, Len(frames'), r)
    BY <1>6, <2>5
  <2>8. pos' \in DOMAIN AsRead' /\ AsRead'[pos'] = ":"
    BY <1>2, <2>1, <2>3, <2>6, Zenon
  <2>9. \E r \in Nat : /\ <<pos' + 1, r>> \in Values(AsRead', D - Len(frames'))
                       /\ After(AsRead', D, frames', ends, Len(frames'), r)
    BY <2>4, <2>7
  <2>10. Len(frames') <= D /\ pc' = "colon"
    BY <1>1, <1>3, <2>1
  <2> QED BY <1>3, <2>8, <2>9, <2>10, Zenon DEF Expected, Follows, D
<1>11. CASE TakesColon
  <2>1. pos' = pos + 1 /\ pc = "colon" /\ pc' = "value"
    BY <1>11 DEF TakesColon, Moved
  <2>2. PICK q \in Nat : <<pos + 1, q>> \in Values(AsRead, D - n) /\ Follows(ends, q)
    BY <2>1, Zenon DEF Expected, n, D
  <2>3. \E r \in Nat : /\ <<pos + 1, r>> \in Values(AsRead', D - Len(frames'))
                       /\ After(AsRead', D, frames', ends, Len(frames'), r)
    BY <1>6, <2>2
  <2> QED BY <1>1, <1>3, <2>1, <2>3 DEF Expected, Follows, D
<1>12. CASE TakesItem
  <2>1. pos' = pos + 0 /\ pc = "return" /\ pc' = "next" /\ result.status = "OK"
    BY <1>12 DEF TakesItem, Moved
  <2>2. Follows(ends, pos - 1) /\ pos' - 1 = pos - 1
    BY <1>1, <2>1 DEF Expected
  <2>3. After(AsRead', D, frames', ends, Len(frames'), pos' - 1)
    BY <1>4, <2>2
  <2> QED BY <1>1, <1>3, <2>1, <2>3 DEF Expected, Follows, D
<1>13. CASE TakesComma
  <2>1. /\ frames # <<>> /\ pos' = pos + 1 /\ pc = "next" /\ Peek = ","
        /\ pc' = IF Innermost THEN "key" ELSE "value"
    BY <1>13 DEF TakesComma, Moved
  <2>2. Follows(ends, pos - 1)
    BY <2>1 DEF Expected
  <2>3. /\ AsRead[ends[n]] = CloseOf(Innermost) /\ pos \in DOMAIN AsRead
        /\ pos = ends[n] \/ <<pos + 1, ends[n] - 1>> \in Innards
    BY <1>1, <2>1, <2>2, AfterItem DEF n, D
  <2>4. pos # ends[n]
    <3>1. CloseOf(Innermost) # ","
      BY <2>1, TextIs, Tokenwise, Zenon
    <3> QED BY <2>1, <2>3, <3>1, PeekAt, Zenon
  <2>5. <<pos', ends[n] - 1>> \in Innards
    BY <2>1, <2>3, <2>4, Zenon
  <2> QED BY <1>7, <2>1, <2>5, Zenon
<1> QED BY <1>8, <1>9, <1>10, <1>11, <1>12, <1>13

LEMMA CompleteOpens ==
  ASSUME TextInv, frames \in Seq(FrameType), NEW ends \in [Nat -> Nat], Expected(ends), Opens
  PROVE  \E more \in [Nat -> Nat] : Expected(more)'
<1> DEFINE n == Len(frames)
           D == ParseMaxDepth
           t == AsRead
           gs == frames'
<1>1. PICK object \in BOOLEAN :
        /\ pc = "value" /\ n < D /\ Peek = OpenOf(object)
        /\ pos' = pos + 1 /\ pc' = "first" /\ Kept(n + 1) /\ t' = t /\ gs[n + 1].object = object
  BY AsReadIs DEF Opens, Moved
<1>2. n \in Nat /\ D \in Nat /\ pos \in Nat /\ t \in Seq(Tokens) /\ DOMAIN t = 1..Len(t)
  BY TextIs
<1>3. pos \in DOMAIN t /\ t[pos] = OpenOf(object)
  <2>1. Peek # "end"
    BY <1>1, Tokenwise, Zenon
  <2> QED BY <1>1, <2>1, PeekIs
<1>4. PICK q \in Nat : <<pos, q>> \in Values(t, D - n) /\ After(t, D, frames, ends, n, q)
  BY <1>1 DEF Expected, Follows
<1>5. Closed(t, D, frames, ends)
  BY DEF Expected
<1>6. Len(gs) = n + 1 /\ \A i \in 1..n : gs[i].object = frames[i].object
  BY <1>1, <1>2 DEF Kept
<1>7. gs[Len(gs)].object = object
  BY <1>1, <1>6, Zenon
<1> HIDE DEF gs, t, D
<1>8. PICK d \in Nat : d = D - n /\ d - 1 = D - Len(gs)
  <2>1. n \in Nat /\ D \in Nat /\ n < D /\ Len(gs) = n + 1
    BY <1>1, <1>2, <1>6, Zenon
  <2> HIDE DEF n
  <2>2. D - n \in Nat /\ (D - n) - 1 = D - Len(gs)
    BY <2>1
  <2> QED BY <2>2
<1>9. /\ q \in DOMAIN t /\ t[q] = CloseOf(object)
      /\ q = pos + 1 \/ <<pos + 1, q - 1>> \in ItemLists(t, object, Values(t, d - 1))
  <2>1. <<pos, q>> \in Values(t, d)
    BY <1>4, <1>8
  <2>2. /\ q \in DOMAIN t
        /\ \/ q = pos /\ t[pos] \in {"string", "scalar"}
           \/ \E o \in BOOLEAN :
                /\ t[pos] = OpenOf(o) /\ t[q] = CloseOf(o)
                /\ q = pos + 1 \/ <<pos + 1, q - 1>> \in ItemLists(t, o, Values(t, d - 1))
    BY <1>2, <2>1, ValueHas
  <2>3. t[pos] \notin {"string", "scalar"}
    BY <1>3, Tokenwise, Zenon
  <2>4. PICK o \in BOOLEAN :
          /\ t[pos] = OpenOf(o) /\ t[q] = CloseOf(o)
          /\ q = pos + 1 \/ <<pos + 1, q - 1>> \in ItemLists(t, o, Values(t, d - 1))
    BY <2>2, <2>3, Zenon
  <2>5. o = object
    BY <1>3, <2>4, Tokenwise, Zenon
  <2> QED BY <2>2, <2>4, <2>5, Zenon
<1> DEFINE more == [ends EXCEPT ![Len(gs)] = q]
<1>10. Closed(t, D, gs, more)
  <2>1. Len(frames) \in Nat /\ q \in Nat /\ q \in DOMAIN t
    BY <1>2, <1>9, Zenon
  <2>2. t[q] = CloseOf(gs[Len(gs)].object)
    BY <1>7, <1>9, Zenon
  <2>3. After(t, D, frames, ends, Len(frames), q)
    BY <1>4
  <2> QED BY <1>5, <1>6, <2>1, <2>2, <2>3, ClosedMore
<1>11. more \in [Nat -> Nat] /\ more[Len(gs)] = q
  <2>1. Len(gs) \in Nat /\ q \in Nat
    BY <1>2, <1>6
  <2> QED BY <2>1
<1> HIDE DEF more
<1>12. PICK m \in [Nat -> Nat] : m = more
  BY <1>11
<1>13. pos' = m[Len(gs)] \/ <<pos', m[Len(gs)] - 1>> \in ListsAt(t, D, gs, Len(gs))
  <2>1. m[Len(gs)] = q /\ pos' = pos + 1
    BY <1>1, <1>11, <1>12, Zenon
  <2>2. ItemLists(t, object, Values(t, d - 1)) = ListsAt(t, D, gs, Len(gs))
    BY <1>7, <1>8, Zenon DEF ListsAt
  <2> QED BY <1>9, <2>1, <2>2, Zenon
<1>14. t' = t /\ Closed(t, D, gs, m) /\ Len(gs) <= D /\ pc' = "first"
  <2>1. n < D /\ t' = t /\ pc' = "first"
    BY <1>1, Zenon
  <2>2. Len(gs) <= D
    BY <1>2, <1>6, <2>1
  <2> QED BY <1>10, <1>12, <2>1, <2>2
<1>15. Expected(m)'
  <2>1. /\ Closed(AsRead', ParseMaxDepth, frames', m) /\ Len(frames') <= ParseMaxDepth
        /\ pos' = m[Len(frames')]
             \/ <<pos', m[Len(frames')] - 1>> \in ListsAt(AsRead', ParseMaxDepth, frames', Len(frames'))
    BY <1>13, <1>14 DEF gs, t, D
  <2>2. pc' = "first"
    BY <1>14
  <2> QED BY <2>1, <2>2, Zenon DEF Expected, Innards
<1> QED BY <1>15

LEMMA CompleteCloses ==
  ASSUME TextInv, frames \in Seq(FrameType), NEW ends \in [Nat -> Nat], Expected(ends),
         TakesClosing
  PROVE  Expected(ends)'
<1> DEFINE n == Len(frames)
           D == ParseMaxDepth
<1>1. /\ frames # <<>> /\ pc \in {"first", "next"} /\ Peek = CloseOf(Innermost)
      /\ pos' = pos + 1 /\ pc' = "return" /\ Kept(n - 1) /\ UNCHANGED AsRead /\ result'.status = "OK"
  BY AsReadIs DEF TakesClosing, Moved
<1>2. /\ n \in Nat /\ n > 0 /\ D \in Nat /\ pos \in Nat \ {0} /\ Innermost \in BOOLEAN
  BY <1>1, TextIs
<1>3. n <= D /\ Closed(AsRead, D, frames, ends)
  BY DEF Expected
<1>4. n \in 1..Len(frames) /\ n - 1 \in 0..Len(frames)
  <2>1. n \in Nat /\ n > 0 /\ n = Len(frames)
    BY <1>2
  <2> HIDE DEF n
  <2> QED BY <2>1, SMTT(30)
<1>5. After(AsRead, D, frames, ends, n - 1, ends[n])
  BY <1>3, <1>4 DEF Closed
<1>6. pos \in DOMAIN AsRead /\ AsRead[pos] = CloseOf(Innermost)
  <2>1. Peek # "end"
    BY <1>1, <1>2, Tokenwise, Zenon
  <2> QED BY <1>1, <2>1, PeekIs
<1>7. pos = ends[n]
  <2>1. CASE pc = "first"
    <3>1. pos = ends[n] \/ <<pos, ends[n] - 1>> \in Innards
      BY <2>1 DEF Expected
    <3>2. ASSUME <<pos, ends[n] - 1>> \in Innards PROVE FALSE
      <4>1. /\ ~Innermost => \E q \in Nat : <<pos, q>> \in Values(AsRead, D - n)
            /\ Innermost => AsRead[pos] = "string"
        BY <1>1, <1>3, <3>2, ItemDue, Zenon
      <4>2. CASE Innermost
        BY <1>6, <4>1, <4>2, Tokenwise, Zenon
      <4>3. CASE ~Innermost
        <5>1. PICK q \in Nat : <<pos, q>> \in Values(AsRead, D - n)
          BY <4>1, <4>3
        <5>2. PICK d \in Nat : d = D - n
          <6> HIDE DEF n, D
          <6>1. D - n \in Nat
            BY <1>2, <1>3
          <6> QED BY <6>1
        <5>3. AsRead \in Seq(Tokens) /\ <<pos, q>> \in Values(AsRead, d)
          BY <5>1, <5>2, TextIs
        <5> HIDE DEF n, D
        <5>4. \/ q = pos /\ AsRead[pos] \in {"string", "scalar"}
              \/ \E o \in BOOLEAN :
                   /\ AsRead[pos] = OpenOf(o) /\ AsRead[q] = CloseOf(o)
                   /\ q = pos + 1 \/ <<pos + 1, q - 1>> \in ItemLists(AsRead, o, Values(AsRead, d - 1))
          BY <5>3, ValueHas
        <5> QED BY <1>2, <1>6, <5>4, Tokenwise, Zenon
      <4> QED BY <4>2, <4>3
    <3> QED BY <3>1, <3>2
  <2>2. CASE pc = "next"
    <3>1. Follows(ends, pos - 1)
      BY <2>2 DEF Expected
    <3>2. pos = ends[n] \/ AsRead[pos] = ","
      BY <1>1, <1>3, <3>1, AfterItem
    <3> QED BY <1>2, <1>6, <3>2, Tokenwise, Zenon
  <2> QED BY <1>1, <2>1, <2>2
<1> HIDE DEF n, D
<1>8. /\ Len(frames') = n - 1 /\ Closed(AsRead, D, frames, ends)'
      /\ \A q : Follows(ends, q)' <=> After(AsRead, D, frames, ends, n - 1, q)
  BY <1>1, <1>3, <1>4, KeptClosed DEF D
<1>9. \A q : After(AsRead, D, frames, ends, n - 1, q) =>
               After(AsRead', D, frames', ends, Len(frames'), q)
  BY <1>8 DEF Follows, D
<1>10. pos' - 1 = ends[n] /\ Len(frames') <= D
  <2>1. pos' = pos + 1 /\ Len(frames') = n - 1
    BY <1>1, <1>8, Zenon
  <2> QED BY <1>2, <1>3, <1>7, <2>1
<1>11. After(AsRead', D, frames', ends, Len(frames'), pos' - 1)
  BY <1>5, <1>9, <1>10
<1>12. pc' = "return" /\ result'.status = "OK"
  BY <1>1
<1> QED BY <1>8, <1>10, <1>11, <1>12, Zenon DEF Expected, Follows, D

\* Only memory can make the reader stop.
LEMMA CompleteStops ==
  ASSUME TextInv, frames \in Seq(FrameType), NEW ends \in [Nat -> Nat], Expected(ends), Stops
  PROVE  Expected(ends)'
<1> DEFINE n == Len(frames)
           D == ParseMaxDepth
<1>1. PICK status \in Statuses \ {"OK"}, size \in {Len(frames), Len(frames) - 1} :
        /\ size \in Nat /\ Kept(size) /\ UNCHANGED AsRead /\ pc' = "return" /\ result'.status = status
        /\ status = "NO_MEMORY" \/ Wrong \/ (pc = "return" /\ result.status = status)
  BY AsReadIs DEF Stops, Moved
<1>2. n \in Nat /\ D \in Nat /\ n <= D /\ Closed(AsRead, D, frames, ends)
  <2>1. n \in Nat /\ D \in Nat
    BY TextIs
  <2> QED BY <2>1 DEF Expected
<1>3. ~Wrong
  <2>1. ASSUME pc = "value" PROVE n < D /\ Peek \in {"{", "[", "string", "scalar"}
    <3>1. PICK q \in Nat : <<pos, q>> \in Values(AsRead, D - n)
      BY <2>1 DEF Expected
    <3>2. PICK d \in Nat : d = D - n
      <4> HIDE DEF n, D
      <4>1. D - n \in Nat
        BY <1>2
      <4> QED BY <4>1
    <3>3. AsRead \in Seq(Tokens) /\ <<pos, q>> \in Values(AsRead, d)
      BY <3>1, <3>2, TextIs
    <3> HIDE DEF n, D
    <3>4. /\ d > 0 /\ pos \in DOMAIN AsRead
          /\ \/ AsRead[pos] \in {"string", "scalar"}
             \/ \E o \in BOOLEAN : AsRead[pos] = OpenOf(o)
      BY <3>3, ValueHas, ZenonT(40)
    <3>5. n < D
      <4>1. d > 0 /\ d = D - n /\ n \in Nat /\ D \in Nat
        BY <1>2, <3>2, <3>4, Zenon
      <4> QED BY <4>1
    <3>6. AsRead[pos] \in {"{", "[", "string", "scalar"}
      BY <3>4, Tokenwise, Zenon
    <3>7. Peek = AsRead[pos]
      BY <3>4, PeekAt
    <3> QED BY <3>5, <3>6, <3>7, Zenon
  <2>2. ASSUME pc = "key", frames # <<>>, Innermost PROVE Peek = "string"
    <3>1. <<pos, ends[n] - 1>> \in Innards
      BY <2>2 DEF Expected
    <3>2. AsRead[pos] = "string" /\ pos \in DOMAIN AsRead
      BY <1>2, <2>2, <3>1, ItemDue, Zenon
    <3> QED BY <3>2, PeekAt
  <2>3. ASSUME pc = "colon" PROVE Peek = ":"
    <3>1. AsRead[pos] = ":" /\ pos \in DOMAIN AsRead
      BY <2>3, Zenon DEF Expected
    <3> QED BY <3>1, PeekAt, Zenon
  <2>4. ASSUME pc = "next", frames # <<>> PROVE Peek \in {",", CloseOf(Innermost)}
    <3>1. Follows(ends, pos - 1)
      BY <2>4 DEF Expected
    <3>2. /\ AsRead[ends[n]] = CloseOf(Innermost) /\ pos \in DOMAIN AsRead
          /\ pos = ends[n] \/ AsRead[pos] = ","
      BY <1>2, <2>4, <3>1, AfterItem
    <3>3. Peek = AsRead[pos]
      BY <3>2, PeekAt
    <3> QED BY <3>2, <3>3, Zenon
  <2>5. ~(Len(frames) >= ParseMaxDepth) \/ pc # "value"
    <3>1. pc = "value" => n < D
      BY <2>1, Zenon
    <3> QED BY <1>2, <3>1
  <2> QED BY <2>1, <2>2, <2>3, <2>4, <2>5, Zenon DEF Wrong
<1>4. status = "NO_MEMORY"
  <2>1. pc = "return" => result.status = "NO_MEMORY" \/ result.status = "OK"
    BY DEF Expected
  <2> QED BY <1>1, <1>3, <2>1, Zenon
<1>5. size \in 0..Len(frames)
  <2>1. size \in Nat /\ size \in {Len(frames), Len(frames) - 1} /\ Len(frames) \in Nat
    BY <1>1, <1>2, Zenon
  <2> QED BY <2>1
<1>6. Len(frames') = size /\ Closed(AsRead, ParseMaxDepth, frames, ends)'
  BY <1>1, <1>2, <1>5, KeptClosed
<1>7. Len(frames') <= ParseMaxDepth
  BY <1>2, <1>5, <1>6
<1>8. pc' = "return" /\ result'.status = "NO_MEMORY"
  BY <1>1, <1>4, Zenon
<1> QED BY <1>6, <1>7, <1>8, Zenon DEF Expected

LEMMA CompleteStep ==
  ASSUME MemoryInv, TextInv, CompleteInv, [Next]_vars
  PROVE  CompleteInv'
<1>1. frames \in Seq(FrameType) /\ result.status \in Statuses /\ pos \in Nat
  BY DEF MemoryInv, ReaderType, TextInv
<1>2. CASE Write
  <2>1. phase = "writing" /\ phase' \in {phase, "stored", "over"}
    BY <1>2, WrittenText DEF Write, Scalar, BeginObject, BeginArray, Begin, EndObject,
       EndArray, End, Key, Finish, Misuse, Emit
  <2> QED BY <2>1 DEF CompleteInv
<1>3. CASE Damage
  BY <1>3, DamagedText DEF CompleteInv
<1>4. CASE Parse
  <2>1. pc' = "value" /\ pos' = 1 /\ frames' = <<>> /\ AsRead' = AsRead
    BY <1>4, AsReadIs DEF Parse, TextInv, reader
  <2>2. Len(frames') = 0 /\ 0 <= ParseMaxDepth /\ ParseMaxDepth - 0 = ParseMaxDepth
    BY <2>1, JsonAssumption
  <2>3. PICK ends \in [Nat -> Nat] : TRUE
    <3>1. [i \in Nat |-> i] \in [Nat -> Nat]
      OBVIOUS
    <3> QED BY <3>1
  <2>4. ASSUME IsJson(AsRead, ParseMaxDepth)' PROVE Expected(ends)'
    <3>1. <<1, Len(AsRead')>> \in Values(AsRead', ParseMaxDepth) /\ Len(AsRead') \in Nat
      BY <2>1, <2>4 DEF IsJson, TextInv
    <3>2. Closed(AsRead, ParseMaxDepth, frames, ends)'
      BY <2>2 DEF Closed
    <3>3. After(AsRead', ParseMaxDepth, frames', ends, Len(frames'), Len(AsRead'))
      BY <2>2 DEF After
    <3>4. \E q \in Nat : /\ <<pos', q>> \in Values(AsRead', ParseMaxDepth - Len(frames'))
                         /\ After(AsRead', ParseMaxDepth, frames', ends, Len(frames'), q)
      BY <2>1, <2>2, <3>1, <3>3
    <3> QED BY <2>1, <2>2, <3>2, <3>4 DEF Expected, Follows
  <2> QED BY <2>4 DEF CompleteInv
<1>5. CASE ParseEnds
  BY <1>5 DEF ParseEnds, CompleteInv
<1>6. CASE phase = "reading" /\ ReaderMoves
  <2>1. AsRead' = AsRead
    BY <1>6, AsReadIs DEF ReaderMoves, Stops, TakesSimple, Opens, TakesClosing, TakesFirst, TakesKey,
                TakesColon, TakesItem, TakesComma, Moved
  <2> SUFFICES ASSUME IsJson(AsRead', ParseMaxDepth)
               PROVE  \E ends \in [Nat -> Nat] : Expected(ends)'
    BY DEF CompleteInv
  <2>2. PICK ends \in [Nat -> Nat] : Expected(ends)
    BY <1>6, <2>1 DEF CompleteInv
  <2>3. CASE Opens
    BY <1>1, <2>2, <2>3, CompleteOpens
  <2>4. CASE ~Opens
    <3>1. Expected(ends)'
      BY <1>1, <1>6, <2>2, <2>4, CompleteWithin, CompleteCloses, CompleteStops DEF ReaderMoves
    <3> QED BY <3>1
  <2> QED BY <2>3, <2>4
<1>7. CASE UNCHANGED vars
  <2>1. UNCHANGED <<phase, AsRead, pc, pos, frames, result>>
    BY <1>7, AsReadIs DEF vars, reader
  <2> QED BY <2>1 DEF CompleteInv, Expected, Follows, Innards
<1> QED BY <1>1, <1>2, <1>3, <1>4, <1>5, <1>6, <1>7, ReadMoves DEF Next

LEMMA SoundEnd ==
  ASSUME TextInv, SoundInv, phase = "reading", pc = "return", frames = <<>>,
         result.status = "OK", Peek = "end"
  PROVE  IsJson(AsRead, ParseMaxDepth)
<1>1. PICK starts \in [Nat -> Nat] : ReadSoFar(starts)
  BY DEF SoundInv
<1>2. Len(frames) = 0 /\ ParseMaxDepth - 0 = ParseMaxDepth /\ frames \in Seq(FrameType)
  BY JsonAssumption
<1>3. PICK v \in Nat : <<v, pos - 1>> \in Values(AsRead, ParseMaxDepth) /\ Due(starts, v)
  BY <1>1, <1>2 DEF ReadSoFar
<1>4. v = 1
  BY <1>2, <1>3 DEF Due, Before
<1>5. DOMAIN AsRead = 1..Len(AsRead) /\ Len(AsRead) \in Nat /\ pos \in Nat \ {0} /\ AsRead \in Seq(Tokens)
  BY <1>2, TextIs
<1>6. pos - 1 \in DOMAIN AsRead
  <2>1. <<v, pos - 1>> \in Spans(AsRead)
    BY <1>3, JsonAssumption, ValuesAre
  <2> QED BY <2>1 DEF Spans
<1>7. ~(pos <= Len(AsRead))
  <2>1. ASSUME pos <= Len(AsRead) PROVE FALSE
    <3>1. pos \in DOMAIN AsRead
      BY <1>5, <2>1
    <3>2. AsRead[pos] \in Tokens
      BY <1>5, <3>1
    <3>3. AsRead[pos] = "end"
      BY <3>1, PeekAt
    <3> QED BY <3>2, <3>3, Zenon DEF Tokens
  <2> QED BY <2>1
<1>8. pos - 1 = Len(AsRead) /\ AsRead # <<>>
  BY <1>5, <1>6, <1>7
<1> QED BY <1>3, <1>4, <1>8 DEF IsJson

LEMMA CompleteEnd ==
  ASSUME TextInv, CompleteInv, phase = "reading", pc = "return", frames = <<>>,
         IsJson(AsRead, ParseMaxDepth)
  PROVE  result.status = "NO_MEMORY" \/ (result.status = "OK" /\ Peek = "end")
<1>1. PICK ends \in [Nat -> Nat] : Expected(ends)
  BY DEF CompleteInv
<1>2. Len(frames) = 0
  OBVIOUS
<1>3. result.status = "NO_MEMORY" \/ (result.status = "OK" /\ pos - 1 = Len(AsRead))
  BY <1>1, <1>2 DEF Expected, Follows, After
<1>4. pos - 1 = Len(AsRead) => Peek = "end"
  <2>1. pos \in Nat /\ Len(AsRead) \in Nat
    BY AsReadIs DEF TextInv
  <2>2. pos - 1 = Len(AsRead) => ~(pos <= Len(AsRead))
    BY <2>1
  <2> QED BY <2>2, AsReadIs DEF Peek
<1> QED BY <1>3, <1>4

LEMMA ExactStep ==
  ASSUME MemoryInv, TextInv, SoundInv, CompleteInv, ReaderExact, [Next]_vars
  PROVE  ReaderExact'
<1>1. frames \in Seq(FrameType) /\ result.status \in Statuses /\ pos \in Nat
  BY DEF MemoryInv, ReaderType, TextInv
<1>2. CASE Write
  <2>1. pc' = "value"
    BY <1>2, WrittenText DEF TextInv, reader
  <2> QED BY <2>1 DEF ReaderExact
<1>3. CASE Damage
  BY <1>3, DamagedText DEF ReaderExact
<1>4. CASE Parse
  BY <1>4 DEF Parse, ReaderExact
<1>5. CASE ParseEnds
  <2>1. phase = "reading" /\ pc = "return" /\ frames = <<>> /\ AsRead' = AsRead
    BY <1>5, AsReadIs DEF ParseEnds, Reading
  <2>2. /\ result.status = "OK" /\ Peek # "end" => result'.status = "INVALID_ARG"
        /\ ~(result.status = "OK" /\ Peek # "end") => result' = result
    BY <1>5 DEF ParseEnds
  <2>3. result'.status = "OK" => IsJson(AsRead, ParseMaxDepth)
    BY <2>1, <2>2, SoundEnd
  <2>4. result'.status \in {"INVALID_ARG", "UNSUPPORTED"} => ~IsJson(AsRead, ParseMaxDepth)
    BY <2>1, <2>2, CompleteEnd
  <2> QED BY <2>1, <2>3, <2>4 DEF ReaderExact
<1>6. CASE phase = "reading" /\ ReaderMoves
  <2>1. phase' = "reading"
    BY <1>6 DEF ReaderMoves, Stops, TakesSimple, Opens, TakesClosing, TakesFirst, TakesKey,
                TakesColon, TakesItem, TakesComma, Moved
  <2> QED BY <2>1 DEF ReaderExact
<1>7. CASE UNCHANGED vars
  <2>1. UNCHANGED <<phase, AsRead, pc, result>>
    BY <1>7, AsReadIs DEF vars, reader
  <2> QED BY <2>1 DEF ReaderExact
<1> QED BY <1>1, <1>2, <1>3, <1>4, <1>5, <1>6, <1>7, ReadMoves DEF Next

ReaderInv == MemoryInv /\ TextInv /\ SoundInv /\ CompleteInv /\ ReaderExact

LEMMA ReaderInvariant == Spec => []ReaderInv
<1>1. Init => ReaderInv
  <2> SUFFICES ASSUME Init PROVE ReaderInv
    OBVIOUS
  <2>1. TextInv
    BY DEF Init, TextInv
  <2>2. SoundInv /\ CompleteInv /\ ReaderExact
    BY DEF Init, SoundInv, CompleteInv, ReaderExact
  <2> QED BY <2>1, <2>2, InitMemory DEF ReaderInv
<1>2. ReaderInv /\ [Next]_vars => ReaderInv'
  BY MemoryStep, TextStep, SoundStep, CompleteStep, ExactStep DEF ReaderInv
<1> QED BY <1>1, <1>2, PTL DEF Spec

\* usbs_json_parse accepts a text exactly if it is JSON within the depth allowed
\* and there is memory for it, once its literals are taken as the lexer takes them
\* (AsRead): what it returns OK for is a value and nothing after it, and it returns
\* INVALID_ARG and UNSUPPORTED for nothing that is one, whatever damage the text
\* took and whichever allocations fail.
THEOREM ReadsExactly == Spec => []ReaderExact
<1>1. ReaderInv => ReaderExact
  BY DEF ReaderInv
<1> QED BY <1>1, ReaderInvariant, PTL

\* No literal of the text is one that the reader and JSON do not agree on.
Plain == \A i \in DOMAIN text : text[i] \notin {"raw string", "loose number", "long number"}

\* Of such a text what is read is the text itself.
PlainExact ==
  Plain /\ phase = "over" /\ pc = "return" =>
    /\ result.status = "OK" => IsJson(text, ParseMaxDepth)
    /\ result.status \in {"INVALID_ARG", "UNSUPPORTED"} => ~IsJson(text, ParseMaxDepth)

\* Where no string holds raw control characters and no number is 01, 1., -.5 or 64
\* characters long, usbs_json_parse accepts JSON and nothing else, to the letter.
THEOREM ReadsJson == Spec => []PlainExact
<1>1. ReaderInv => PlainExact
  <2> SUFFICES ASSUME TextInv, ReaderExact, Plain PROVE PlainExact
    BY DEF PlainExact, ReaderInv
  <2>1. text \in Seq(Tokens)
    BY DEF TextInv
  <2>2. text = [i \in DOMAIN text |-> text[i]]
    BY <2>1
  <2>3. \A i \in DOMAIN text : Lexed(text[i]) = text[i]
    BY DEF Plain, Lexed
  <2>4. AsRead = text
    BY <2>2, <2>3 DEF AsRead
  <2> QED BY <2>4 DEF ReaderExact, PlainExact
<1> QED BY <1>1, ReaderInvariant, PTL

-----------------------------------------------------------------------------
(***************************************************************************)
(* The writer: its levels are containers that are not closed yet, and what *)
(* it has written is the beginning of a value with them open.              *)
(***************************************************************************)
LevelType == [object : BOOLEAN, needComma : BOOLEAN, wantKey : BOOLEAN]

WriterDepth == WriterMaxDepth + 1

\* A level after a value: the next one needs a comma, and a key in an object.
Served(level) == level.needComma /\ (level.object => level.wantKey)

\* What ends the text: a key, an item or the bracket that opened the level
Top(t, fs, starts) ==
  LET n == Len(fs) IN
  IF n = 0 THEN t = <<>> \/ <<1, Len(t)>> \in Values(t, WriterDepth)
  ELSE IF fs[n].object /\ ~fs[n].wantKey
    THEN fs[n].needComma /\ Before(t, WriterDepth, fs, starts, n, Len(t) + 1)
  ELSE IF fs[n].needComma
    THEN <<starts[n] + 1, Len(t)>> \in ListsAt(t, WriterDepth, fs, n)
  ELSE Len(t) = starts[n]

Written(t, fs, starts) ==
  /\ Len(fs) <= WriterMaxDepth
  /\ Opened(t, WriterDepth, fs, starts)
  /\ \A i \in 1..(Len(fs) - 1) : Served(fs[i])
  /\ Top(t, fs, starts)

LEMMA SeqIs ==
  ASSUME NEW S, NEW t \in Seq(S)
  PROVE  DOMAIN t = 1..Len(t) /\ Len(t) \in Nat
OBVIOUS

LEMMA ItemIn ==
  ASSUME NEW S, NEW t \in Seq(S), NEW i \in 1..Len(t)
  PROVE  t[i] \in S
OBVIOUS

LEMMA LevelIs ==
  ASSUME NEW l \in LevelType
  PROVE  /\ l.object \in BOOLEAN /\ l.needComma \in BOOLEAN /\ l.wantKey \in BOOLEAN
         /\ l.object => l.object = TRUE
         /\ ~l.object => l.object = FALSE
BY DEF LevelType

LEMMA LastOrEarlier == \A m \in Nat : m <= m /\ \A k \in 1..m : k = m \/ k \in 1..(m - 1)
OBVIOUS

LEMMA DepthIs == WriterMaxDepth \in Nat \ {0} /\ WriterDepth = WriterMaxDepth + 1
BY JsonAssumption DEF WriterDepth

LEMMA BeginsIs ==
  ASSUME NEW t \in Seq(Tokens), NEW tail \in Seq(Tokens)
  PROVE  /\ t \o tail \in Seq(Tokens) /\ Begins(t, t \o tail)
         /\ Len(t \o tail) = Len(t) + Len(tail)
         /\ \A k \in 1..Len(tail) : (t \o tail)[Len(t) + k] = tail[k]
BY DEF Begins

\* More text leaves what is open as it is.
LEMMA ItemListsGrow ==
  ASSUME NEW S, NEW t \in Seq(S), NEW u \in Seq(S), Begins(t, u),
         NEW object \in BOOLEAN, NEW d \in Nat
  PROVE  ItemLists(t, object, Values(t, d)) \subseteq ItemLists(u, object, Values(u, d))
<1>1. Values(t, d) \subseteq Values(u, d)
  BY ValuesGrow
<1>2. Values(t, d) \in SUBSET Spans(t) /\ Values(u, d) \in SUBSET Spans(u)
  BY ValuesAre
<1> QED BY <1>1, <1>2, NestedItemsGrow

LEMMA BeforeGrows ==
  ASSUME NEW S, NEW t \in Seq(S), NEW u \in Seq(S), Begins(t, u),
         NEW fs \in Seq(LevelType), Len(fs) <= WriterMaxDepth,
         NEW starts \in [Nat -> Nat], NEW i \in 0..Len(fs), NEW v \in Nat, v <= Len(t) + 1,
         Before(t, WriterDepth, fs, starts, i, v)
  PROVE  Before(u, WriterDepth, fs, starts, i, v)
<1>1. CASE i = 0
  BY <1>1 DEF Before
<1>2. CASE i # 0
  <2> DEFINE object == fs[i].object
             s == starts[i]
             L == ListsAt(t, WriterDepth, fs, i)
             M == ListsAt(u, WriterDepth, fs, i)
  <2>1. i \in 1..Len(fs) /\ Len(fs) \in Nat /\ Len(t) \in Nat /\ WriterMaxDepth \in Nat
    <3>1. Len(fs) \in Nat /\ Len(t) \in Nat /\ WriterMaxDepth \in Nat
      BY SeqIs, DepthIs
    <3> QED BY <1>2, <3>1
  <2>2. object \in BOOLEAN /\ s \in Nat /\ WriterDepth - i \in Nat
    <3>1. fs[i] \in LevelType
      BY <2>1
    <3>2. i \in Nat
      BY <2>1
    <3>3. WriterDepth - i \in Nat
      BY <2>1 DEF WriterDepth
    <3> QED BY <3>1, <3>2, <3>3 DEF LevelType
  <2>3. L \subseteq M
    BY <2>2, ItemListsGrow DEF ListsAt
  <2>4. ReadyFor(t, object, L, s, v)
    BY <1>2 DEF Before
  <2>5. \A k \in 1..Len(t) : u[k] = t[k]
    BY SeqIs, Zenon DEF Begins
  <2> HIDE DEF object, s, L, M
  <2>6. \A b \in Nat : b <= Len(t) + 1 /\ Ready(t, L, s, b) => Ready(u, M, s, b)
    <3> SUFFICES ASSUME NEW b \in Nat, b <= Len(t) + 1, Ready(t, L, s, b) PROVE Ready(u, M, s, b)
      OBVIOUS
    <3>1. b > s + 2 => b - 1 \in 1..Len(t)
      BY <2>1, <2>2
    <3> QED BY <2>3, <2>5, <3>1, Zenon DEF Ready
  <2>7. CASE object
    <3>1. v > 2 /\ t[v - 1] = ":" /\ t[v - 2] = "string" /\ Ready(t, L, s, v - 2)
      BY <2>4, <2>7, Zenon DEF ReadyFor
    <3>2. v > 2
      BY <3>1, Zenon
    <3>3. v - 1 \in 1..Len(t) /\ v - 2 \in 1..Len(t) /\ v - 2 \in Nat /\ v - 2 <= Len(t) + 1
      <4>1. ASSUME NEW m \in Nat, v <= m + 1
            PROVE  v - 1 \in 1..m /\ v - 2 \in 1..m /\ v - 2 \in Nat /\ v - 2 <= m + 1
        BY <3>2, <4>1
      <4> QED BY <2>1, <4>1, Zenon
    <3>4. u[v - 1] = ":" /\ u[v - 2] = "string" /\ Ready(u, M, s, v - 2)
      BY <2>5, <2>6, <3>1, <3>3, Zenon
    <3>5. ReadyFor(u, object, M, s, v)
      BY <2>7, <3>2, <3>4, Zenon DEF ReadyFor
    <3> QED BY <1>2, <3>5 DEF Before, object, s, M
  <2>8. CASE ~object
    <3>1. ReadyFor(u, object, M, s, v)
      BY <2>4, <2>6, <2>8, Zenon DEF ReadyFor
    <3> QED BY <1>2, <3>1 DEF Before, object, s, M
  <2> QED BY <2>7, <2>8
<1> QED BY <1>1, <1>2

LEMMA OpenedGrows ==
  ASSUME NEW S, NEW t \in Seq(S), NEW u \in Seq(S), Begins(t, u),
         NEW fs \in Seq(LevelType), Len(fs) <= WriterMaxDepth,
         NEW starts \in [Nat -> Nat], Opened(t, WriterDepth, fs, starts)
  PROVE  Opened(u, WriterDepth, fs, starts)
<1>1. /\ DOMAIN t = 1..Len(t) /\ DOMAIN u = 1..Len(u) /\ Len(t) \in Nat /\ Len(u) \in Nat
      /\ Len(fs) \in Nat
  BY SeqIs, Zenon
<1>2. \A k \in DOMAIN t : k \in DOMAIN u /\ u[k] = t[k]
  BY <1>1 DEF Begins
<1>3. ASSUME NEW i \in 1..Len(fs)
      PROVE  /\ starts[i] \in DOMAIN u /\ u[starts[i]] = OpenOf(fs[i].object)
             /\ Before(u, WriterDepth, fs, starts, i - 1, starts[i])
  <2>1. /\ starts[i] \in DOMAIN t /\ t[starts[i]] = OpenOf(fs[i].object)
        /\ Before(t, WriterDepth, fs, starts, i - 1, starts[i])
    BY DEF Opened
  <2>2. i - 1 \in 0..Len(fs) /\ starts[i] \in Nat /\ starts[i] <= Len(t) + 1
    <3>1. starts[i] \in 1..Len(t)
      BY <1>1, <2>1
    <3>2. \A m \in Nat : \A q \in 1..m : q \in Nat /\ q <= m + 1
      OBVIOUS
    <3>3. \A m \in Nat : \A q \in 1..m : q - 1 \in 0..m
      OBVIOUS
    <3> QED BY <1>1, <3>1, <3>2, <3>3, Zenon
  <2> QED BY <1>2, <2>1, <2>2, BeforeGrows
<1> QED BY <1>3 DEF Opened

\* A value may follow what is written, after a comma if one is due.
Comma(fs) ==
  IF Len(fs) > 0 /\ ~fs[Len(fs)].object /\ fs[Len(fs)].needComma THEN <<",">> ELSE <<>>

LEMMA CommaIs ==
  ASSUME NEW fs \in Seq(LevelType)
  PROVE  /\ Comma(fs) \in Seq(Tokens)
         /\ Comma(fs) = <<>> => Len(Comma(fs)) = 0
         /\ Comma(fs) = <<",">> => Len(Comma(fs)) = 1 /\ Comma(fs)[1] = ","
         /\ Comma(fs) = <<>> \/ Comma(fs) = <<",">>
<1>1. Comma(fs) = <<>> \/ Comma(fs) = <<",">>
  BY Zenon DEF Comma
<1>2. <<",">> \in Seq(Tokens) /\ <<>> \in Seq(Tokens)
  <2>1. "," \in Tokens
    BY DEF Tokens
  <2> QED BY <2>1, ShortIsSeq, Zenon
<1>3. Len(<<>>) = 0 /\ \A c : Len(<<c>>) = 1 /\ <<c>>[1] = c
  OBVIOUS
<1> QED BY <1>1, <1>2, <1>3, Zenon

LEMMA PastComma ==
  ASSUME NEW e \in Nat, NEW s \in Nat, s + 1 <= e
  PROVE  e + 2 > s + 2 /\ (e + 2) - 1 = e + 1 /\ (e + 2) - 2 = e
OBVIOUS

\* A list that a comma and a token follow
LEMMA ListThenComma ==
  ASSUME NEW S, NEW t \in Seq(S), NEW u \in Seq(S), Begins(t, u),
         NEW object \in BOOLEAN, NEW d \in Nat, NEW s \in Nat,
         <<s + 1, Len(t)>> \in ItemLists(t, object, Values(t, d)),
         NEW c \in Nat, c = Len(t) + 1, u[c] = ","
  PROVE  Ready(u, ItemLists(u, object, Values(u, d)), s, Len(t) + 2)
<1> DEFINE L == ItemLists(t, object, Values(t, d))
           M == ItemLists(u, object, Values(u, d))
           e == Len(t)
           r == <<s + 1, e>>
<1>1. L \subseteq M
  BY ItemListsGrow
<1>2. L \in SUBSET Spans(t)
  <2>1. Values(t, d) \in SUBSET Spans(t)
    BY ValuesAre
  <2>2. ItemsOf(t, object, Values(t, d)) \in SUBSET Spans(t)
    BY <2>1, ItemsAre
  <2> QED BY <2>2, ListsFixed DEF ItemLists
<1>3. r \in L /\ r[1] = s + 1 /\ r[2] = e
  OBVIOUS
<1>4. e \in Nat /\ c = e + 1
  BY SeqIs
<1> HIDE DEF L, M, e, r
<1>5. r[1] <= r[2]
  BY <1>2, <1>3 DEF Spans
<1>6. s + 1 <= e
  BY <1>3, <1>5
<1>7. e + 2 > s + 2 /\ (e + 2) - 1 = c /\ (e + 2) - 2 = e
  BY <1>4, <1>6, PastComma, Zenon
<1>8. <<s + 1, (e + 2) - 2>> \in M
  BY <1>1, <1>3, <1>7 DEF r
<1>9. Ready(u, M, s, e + 2)
  BY <1>7, <1>8, Zenon DEF Ready
<1> QED BY <1>9 DEF M, e

LEMMA LevelFits ==
  ASSUME NEW n \in Nat, n <= WriterMaxDepth, n > 0
  PROVE  /\ n \in 1..n /\ n \in 0..n /\ n # 0 /\ n - 1 \in 0..n
         /\ WriterDepth - n \in Nat /\ WriterDepth - (n - 1) = (WriterDepth - n) + 1
BY DepthIs

LEMMA LevelFitsToo ==
  ASSUME NEW n \in Nat, n <= WriterMaxDepth
  PROVE  /\ n <= n /\ n \in 0..n
         /\ WriterMaxDepth - n \in Nat /\ (WriterMaxDepth - n) + 1 = WriterDepth - n
BY DepthIs

LEMMA TopIs ==
  ASSUME NEW t \in Seq(Tokens), NEW fs \in Seq(LevelType), NEW starts \in [Nat -> Nat],
         Written(t, fs, starts), Len(fs) > 0
  PROVE  /\ Len(fs) \in Nat /\ Len(fs) <= WriterMaxDepth /\ WriterDepth - Len(fs) \in Nat
         /\ Len(fs) \in 1..Len(fs) /\ Len(fs) \in 0..Len(fs) /\ Len(fs) # 0
         /\ fs[Len(fs)] \in LevelType /\ fs[Len(fs)].object \in BOOLEAN
         /\ fs[Len(fs)].wantKey \in BOOLEAN /\ fs[Len(fs)].needComma \in BOOLEAN
         /\ starts[Len(fs)] \in Nat /\ starts[Len(fs)] \in DOMAIN t
         /\ t[starts[Len(fs)]] = OpenOf(fs[Len(fs)].object)
         /\ Before(t, WriterDepth, fs, starts, Len(fs) - 1, starts[Len(fs)])
<1> DEFINE n == Len(fs)
<1>1. n \in Nat /\ n <= WriterMaxDepth /\ n > 0
  BY SeqIs, Zenon DEF Written
<1>2. n \in 1..n /\ n \in 0..n /\ n # 0 /\ WriterDepth - n \in Nat
  BY <1>1, LevelFits, Zenon
<1>3. fs[n] \in LevelType
  BY <1>2
<1>4. /\ starts[n] \in DOMAIN t /\ t[starts[n]] = OpenOf(fs[n].object)
      /\ Before(t, WriterDepth, fs, starts, n - 1, starts[n])
  BY <1>2, Zenon DEF Written, Opened
<1>5. starts[n] \in Nat
  BY <1>1
<1>6. /\ fs[n].object \in BOOLEAN /\ fs[n].wantKey \in BOOLEAN /\ fs[n].needComma \in BOOLEAN
  BY <1>3 DEF LevelType
<1> QED BY <1>1, <1>2, <1>3, <1>4, <1>5, <1>6

WithValue(t, fs, token) == t \o Append(Comma(fs), token)

LEMMA PlacedIs ==
  ASSUME NEW t \in Seq(Tokens), NEW fs \in Seq(LevelType), NEW token \in Tokens
  PROVE  /\ WithValue(t, fs, token) \in Seq(Tokens) /\ Begins(t, WithValue(t, fs, token))
         /\ Len(WithValue(t, fs, token)) = Len(t) + Len(Comma(fs)) + 1
         /\ Len(WithValue(t, fs, token)) \in DOMAIN WithValue(t, fs, token)
         /\ WithValue(t, fs, token)[Len(WithValue(t, fs, token))] = token
         /\ \A k \in 1..Len(Comma(fs)) : WithValue(t, fs, token)[Len(t) + k] = Comma(fs)[k]
<1> DEFINE more == Append(Comma(fs), token)
           u == t \o more
           c == Len(Comma(fs))
           m == Len(more)
           e == Len(t)
           l == Len(u)
<1>1. Comma(fs) \in Seq(Tokens)
  BY CommaIs
<1>2. /\ more \in Seq(Tokens) /\ m = c + 1 /\ more[m] = token
      /\ \A k \in 1..c : more[k] = Comma(fs)[k]
  BY <1>1
<1> HIDE DEF more
<1>3. /\ u \in Seq(Tokens) /\ Begins(t, u) /\ l = e + m
      /\ \A k \in 1..m : u[e + k] = more[k]
  BY <1>2, BeginsIs, Zenon
<1> HIDE DEF u
<1>4. e \in Nat /\ c \in Nat /\ DOMAIN u = 1..l
  BY <1>1, <1>3, SeqIs, Zenon
<1> HIDE DEF c, m, e, l
<1>5. m = c + 1 /\ l = e + m
  BY <1>2, <1>3, Zenon
<1>6. l = e + c + 1 /\ l \in 1..l /\ m \in 1..m /\ \A k \in 1..c : k \in 1..m
  BY <1>4, <1>5
<1>7. u[l] = token /\ \A k \in 1..c : u[e + k] = Comma(fs)[k]
  BY <1>2, <1>3, <1>5, <1>6, Zenon
<1> QED BY <1>3, <1>4, <1>6, <1>7, Zenon DEF WithValue, c, m, e, l, u, more

\* Where the first token of a value is put
LEMMA ValuePlaced ==
  ASSUME NEW t \in Seq(Tokens), NEW fs \in Seq(LevelType), NEW starts \in [Nat -> Nat],
         Written(t, fs, starts), fs = <<>> => t = <<>>,
         Len(fs) > 0 /\ fs[Len(fs)].object => ~fs[Len(fs)].wantKey,
         NEW u \in Seq(Tokens), Begins(t, u), Len(u) = Len(t) + Len(Comma(fs)) + 1,
         \A k \in 1..Len(Comma(fs)) : u[Len(t) + k] = Comma(fs)[k]
  PROVE  /\ Opened(u, WriterDepth, fs, starts)
         /\ Before(u, WriterDepth, fs, starts, Len(fs), Len(u))
<1> DEFINE n == Len(fs)
<1>1. Comma(fs) \in Seq(Tokens) /\ (Comma(fs) = <<>> \/ Comma(fs) = <<",">>)
  BY CommaIs
<1>2. Len(t) \in Nat /\ n \in Nat /\ Len(Comma(fs)) \in Nat
  BY <1>1, SeqIs, Zenon
<1>3. Opened(u, WriterDepth, fs, starts)
  BY OpenedGrows, Zenon DEF Written
<1>4. CASE n = 0
  <2>1. fs = <<>>
    BY <1>4
  <2>2. Len(t) = 0
    BY <2>1
  <2>3. Comma(fs) = <<>>
    BY <1>4 DEF Comma
  <2>4. Len(Comma(fs)) = 0
    BY <2>3, CommaIs, Zenon
  <2>5. Len(u) = 1
    BY <2>2, <2>4
  <2> QED BY <1>3, <1>4, <2>5, Zenon DEF Before
<1>5. CASE n # 0
  <2> DEFINE top == fs[n]
             s == starts[n]
             d == WriterDepth - n
             M == ItemLists(u, top.object, Values(u, d))
  <2>1. n > 0
    BY <1>2, <1>5
  <2>2. /\ n <= WriterMaxDepth /\ d \in Nat /\ n \in 0..n /\ s \in Nat
        /\ top.object \in BOOLEAN /\ top.wantKey \in BOOLEAN /\ top.needComma \in BOOLEAN
    BY <2>1, TopIs, Zenon
  <2>3. M = ListsAt(u, WriterDepth, fs, n)
    BY DEF ListsAt
  <2>4. CASE top.object
    <3>1. Before(t, WriterDepth, fs, starts, n, Len(t) + 1)
      BY <1>5, <2>1, <2>4, Zenon DEF Written, Top
    <3>2. Len(t) + 1 \in Nat /\ Len(t) + 1 <= Len(t) + 1
      BY <1>2
    <3>3. Before(u, WriterDepth, fs, starts, n, Len(t) + 1)
      BY <2>2, <3>1, <3>2, BeforeGrows, Zenon
    <3>4. Comma(fs) = <<>>
      BY <2>4, Zenon DEF Comma
    <3>5. Len(Comma(fs)) = 0
      BY <3>4, CommaIs, Zenon
    <3>6. Len(u) = Len(t) + 1
      BY <1>2, <3>5
    <3> QED BY <1>3, <3>3, <3>6, Zenon
  <2>5. CASE ~top.object /\ top.needComma
    <3>1. <<s + 1, Len(t)>> \in ItemLists(t, top.object, Values(t, d))
      BY <1>5, <2>5, Zenon DEF Written, Top, ListsAt
    <3>2. Comma(fs) = <<",">>
      BY <2>1, <2>5, Zenon DEF Comma
    <3>3. Len(Comma(fs)) = 1 /\ Comma(fs)[1] = ","
      BY <3>2, CommaIs, Zenon
    <3>4. Len(Comma(fs)) = 1
      BY <3>3, Zenon
    <3>5. Len(t) + 1 \in Nat /\ Len(u) = Len(t) + 2
      BY <1>2, <3>4
    <3>6. 1 \in 1..Len(Comma(fs))
      BY <3>4, <3>5
    <3>7. u[Len(t) + 1] = ","
      BY <3>3, <3>6, Zenon
    <3> HIDE DEF M, top, s, d
    <3>8. Ready(u, M, s, Len(u))
      <4>1. Begins(t, u) /\ u \in Seq(Tokens) /\ top.object \in BOOLEAN /\ d \in Nat /\ s \in Nat
        BY <2>2, Zenon
      <4>2. Ready(u, ItemLists(u, top.object, Values(u, d)), s, Len(t) + 2)
        BY <3>1, <3>5, <3>7, <4>1, ListThenComma
      <4> QED BY <3>5, <4>2, Zenon DEF M
    <3>9. ReadyFor(u, top.object, M, s, Len(u))
      BY <2>5, <3>8, Zenon DEF ReadyFor
    <3>10. Before(u, WriterDepth, fs, starts, n, Len(u))
      BY <1>5, <2>3, <3>9, Zenon DEF Before, top, s
    <3> QED BY <1>3, <3>10, Zenon
  <2>6. CASE ~top.object /\ ~top.needComma
    <3>1. Len(t) = s
      BY <1>5, <2>6, Zenon DEF Written, Top
    <3>2. Comma(fs) = <<>>
      BY <2>6, Zenon DEF Comma
    <3>3. Len(Comma(fs)) = 0
      BY <3>2, CommaIs, Zenon
    <3>4. Len(u) = s + 1
      BY <1>2, <3>1, <3>3
    <3> HIDE DEF M, top, s, d
    <3>5. ReadyFor(u, top.object, M, s, Len(u))
      BY <2>6, <3>4, Zenon DEF ReadyFor, Ready
    <3>6. Before(u, WriterDepth, fs, starts, n, Len(u))
      BY <1>5, <2>3, <3>5, Zenon DEF Before, top, s
    <3> QED BY <1>3, <3>6, Zenon
  <2> QED BY <2>4, <2>5, <2>6
<1> QED BY <1>4, <1>5

\* A value that ends the text serves the level it is in.
LEMMA ValueDone ==
  ASSUME NEW u \in Seq(Tokens), NEW gs \in Seq(LevelType), NEW starts \in [Nat -> Nat],
         Len(gs) <= WriterMaxDepth, Opened(u, WriterDepth, gs, starts),
         NEW v \in Nat, <<v, Len(u)>> \in Values(u, WriterDepth - Len(gs)),
         Before(u, WriterDepth, gs, starts, Len(gs), v),
         \A i \in 1..Len(gs) : Served(gs[i])
  PROVE  Written(u, gs, starts)
<1> DEFINE n == Len(gs)
<1>1. n \in Nat /\ Len(u) \in Nat
  BY SeqIs, Zenon
<1>2. \A i \in 1..(n - 1) : Served(gs[i])
  <2>1. \A i \in 1..(n - 1) : i \in 1..n
    BY <1>1
  <2> QED BY <2>1, Zenon
<1>3. Top(u, gs, starts)
  <2>1. CASE n = 0
    <3>1. v = 1
      BY <2>1, Zenon DEF Before
    <3>2. WriterDepth - n = WriterDepth
      BY <2>1, DepthIs
    <3>3. <<1, Len(u)>> \in Values(u, WriterDepth)
      BY <3>1, <3>2, Zenon
    <3> QED BY <2>1, <3>3, Zenon DEF Top
  <2>2. CASE n # 0
    <3> DEFINE s == starts[n]
               d == WriterDepth - n
               object == gs[n].object
    <3>1. n > 0
      BY <1>1, <2>2
    <3>2. n \in 1..n /\ d \in Nat
      BY <1>1, <3>1, LevelFits, Zenon
    <3>3. Served(gs[n]) /\ gs[n] \in LevelType
      BY <3>2, ItemIn, Zenon
    <3>4. object \in BOOLEAN /\ gs[n].needComma /\ (object => gs[n].wantKey)
      BY <3>3 DEF Served, LevelType
    <3>5. s \in Nat
      BY <1>1
    <3>6. Values(u, d) \in SUBSET Spans(u)
      BY <3>2, ValuesAre
    <3>7. ReadyFor(u, object, ItemLists(u, object, Values(u, d)), s, v)
      BY <2>2, Zenon DEF Before, ListsAt
    <3>8. <<s + 1, Len(u)>> \in ItemLists(u, object, Values(u, d))
      BY <3>4, <3>5, <3>6, <3>7, ValueJoins, Zenon
    <3>9. <<s + 1, Len(u)>> \in ListsAt(u, WriterDepth, gs, n)
      BY <3>8, Zenon DEF ListsAt
    <3> QED BY <2>2, <3>4, <3>9, Zenon DEF Top
  <2> QED BY <2>1, <2>2
<1> QED BY <1>2, <1>3, Zenon DEF Written

\* usbs_json_writer_begin_object and _begin_array
LEMMA LevelOpened ==
  ASSUME NEW u \in Seq(Tokens), NEW fs \in Seq(LevelType), NEW gs \in Seq(LevelType),
         NEW starts \in [Nat -> Nat],
         Len(fs) < WriterMaxDepth, Len(gs) = Len(fs) + 1,
         \A i \in 1..Len(fs) : gs[i].object = fs[i].object /\ Served(gs[i]),
         ~gs[Len(gs)].needComma, gs[Len(gs)].wantKey = gs[Len(gs)].object,
         Opened(u, WriterDepth, fs, starts), Len(u) \in DOMAIN u,
         Before(u, WriterDepth, fs, starts, Len(fs), Len(u)),
         u[Len(u)] = OpenOf(gs[Len(gs)].object)
  PROVE  Written(u, gs, [starts EXCEPT ![Len(gs)] = Len(u)])
<1> DEFINE n == Len(gs)
           m == Len(fs)
           p == Len(u)
           more == [starts EXCEPT ![n] = p]
<1>1. m \in Nat /\ n \in Nat /\ p \in Nat /\ n = m + 1 /\ m < WriterMaxDepth
  BY SeqIs, Zenon
<1>2. Opened(u, WriterDepth, gs, more)
  BY <1>1, OpenedMore
<1>3. more[n] = p
  BY <1>1
<1>4. \A i \in 1..m : Served(gs[i])
  OBVIOUS
<1> HIDE DEF m, n, p, more
<1>5. n <= WriterMaxDepth /\ n # 0 /\ \A i \in 1..(n - 1) : i \in 1..m
  BY <1>1, DepthIs
<1>6. Top(u, gs, more)
  BY <1>3, <1>5, Zenon DEF Top, n, p
<1> QED BY <1>2, <1>4, <1>5, <1>6, Zenon DEF Written, n, p, more

\* A bracket that closes a level, but not after a key
LEMMA LevelEnds ==
  ASSUME NEW t \in Seq(Tokens), NEW u \in Seq(Tokens), Begins(t, u), Len(u) = Len(t) + 1,
         NEW fs \in Seq(LevelType), NEW gs \in Seq(LevelType),
         NEW starts \in [Nat -> Nat], Written(t, fs, starts), Len(fs) > 0,
         fs[Len(fs)].object => fs[Len(fs)].wantKey,
         Len(gs) = Len(fs) - 1, \A i \in 1..Len(gs) : gs[i] = fs[i],
         u[Len(u)] = CloseOf(fs[Len(fs)].object)
  PROVE  Written(u, gs, starts)
<1> DEFINE n == Len(fs)
           m == Len(gs)
           s == starts[n]
           d == WriterDepth - n
           object == fs[n].object
<1>1. /\ Len(t) \in Nat /\ Len(u) \in Nat /\ DOMAIN u = 1..Len(u) /\ n \in Nat /\ m \in Nat
      /\ DOMAIN t = 1..Len(t)
  BY SeqIs, Zenon
<1>2. /\ n <= WriterMaxDepth /\ d \in Nat /\ n \in 1..n /\ n # 0 /\ s \in Nat /\ s \in DOMAIN t
      /\ object \in BOOLEAN /\ t[s] = OpenOf(object) /\ n > 0
      /\ Before(t, WriterDepth, fs, starts, n - 1, s)
  BY TopIs, Zenon
<1>3. n - 1 = m /\ n - 1 \in 0..n /\ WriterDepth - m = d + 1 /\ m <= n /\ m <= WriterMaxDepth
  <2>1. n - 1 \in 0..n /\ WriterDepth - (n - 1) = d + 1
    BY <1>1, <1>2, LevelFits, Zenon
  <2>2. n - 1 = m
    OBVIOUS
  <2>3. m <= n /\ m <= WriterMaxDepth
    BY <1>1, <1>2, <2>2, DepthIs
  <2> QED BY <2>1, <2>2, <2>3, Zenon
<1>4. s \in DOMAIN u /\ s <= Len(t) + 1 /\ Len(u) \in DOMAIN u
  BY <1>1, <1>2
<1>5. u[s] = OpenOf(object)
  BY <1>2, Zenon DEF Begins
<1>6. Opened(u, WriterDepth, fs, starts)
  <2>1. Opened(t, WriterDepth, fs, starts)
    BY Zenon DEF Written
  <2>2. u \in Seq(Tokens) /\ Begins(t, u) /\ n <= WriterMaxDepth
    BY <1>2, Zenon
  <2> QED BY <2>1, <2>2, OpenedGrows, Zenon
<1>7. \A i \in 1..m : gs[i].object = fs[i].object
  OBVIOUS
<1>8. Opened(u, WriterDepth, gs, starts)
       /\ \A i \in 0..m : \A v : Before(u, WriterDepth, gs, starts, i, v)
                               <=> Before(u, WriterDepth, fs, starts, i, v)
  BY <1>1, <1>3, <1>6, <1>7, OpenedSame, Zenon
<1>9. Before(u, WriterDepth, gs, starts, m, s)
  <2>1. Before(u, WriterDepth, fs, starts, m, s)
    <3>1. /\ u \in Seq(Tokens) /\ Begins(t, u) /\ n <= WriterMaxDepth /\ m \in 0..n /\ s \in Nat
          /\ s <= Len(t) + 1 /\ Before(t, WriterDepth, fs, starts, m, s)
      BY <1>2, <1>3, <1>4, Zenon
    <3> HIDE DEF s, m
    <3> QED BY <3>1, BeforeGrows, Zenon
  <2>2. m \in 0..m
    BY <1>1
  <2> QED BY <1>8, <2>1, <2>2, Zenon
<1>10. Len(u) = s + 1 \/ <<s + 1, Len(u) - 1>> \in ItemLists(u, object, Values(u, d))
  <2>1. CASE fs[n].needComma
    <3>1. <<s + 1, Len(t)>> \in ItemLists(t, object, Values(t, d))
      BY <1>2, <2>1, Zenon DEF Written, Top, ListsAt
    <3>2. ItemLists(t, object, Values(t, d)) \subseteq ItemLists(u, object, Values(u, d))
      <4>1. u \in Seq(Tokens) /\ Begins(t, u) /\ object \in BOOLEAN /\ d \in Nat
        BY <1>2, Zenon
      <4> HIDE DEF object, d
      <4> QED BY <4>1, ItemListsGrow, Zenon
    <3>3. Len(u) - 1 = Len(t)
      BY <1>1
    <3> QED BY <3>1, <3>2, <3>3, Zenon
  <2>2. CASE ~fs[n].needComma
    <3>1. Len(t) = s
      BY <1>2, <2>2, Zenon DEF Written, Top
    <3> QED BY <3>1
  <2> QED BY <2>1, <2>2
<1>11. <<s, Len(u)>> \in Values(u, d + 1)
  BY <1>2, <1>4, <1>5, <1>10, Closes, Zenon
<1>12. \A i \in 1..m : Served(gs[i])
  <2>1. \A i \in 1..(n - 1) : Served(fs[i])
    BY Zenon DEF Written
  <2> QED BY <1>3, <2>1
<1>13. <<s, Len(u)>> \in Values(u, WriterDepth - m)
  BY <1>3, <1>11, Zenon
<1> QED BY <1>2, <1>3, <1>8, <1>9, <1>12, <1>13, ValueDone, Zenon

LEMMA OneMore ==
  ASSUME NEW t \in Seq(Tokens), NEW token \in Tokens
  PROVE  /\ t \o <<token>> \in Seq(Tokens) /\ Begins(t, t \o <<token>>)
         /\ Len(t \o <<token>>) = Len(t) + 1
         /\ (t \o <<token>>)[Len(t) + 1] = token
<1> DEFINE tail == <<token>>
<1>1. tail \in Seq(Tokens) /\ Len(tail) = 1 /\ tail[1] = token /\ 1 \in 1..Len(tail)
  OBVIOUS
<1> HIDE DEF tail
<1>2. /\ t \o tail \in Seq(Tokens) /\ Begins(t, t \o tail)
      /\ Len(t \o tail) = Len(t) + Len(tail)
      /\ \A k \in 1..Len(tail) : (t \o tail)[Len(t) + k] = tail[k]
  BY <1>1, BeginsIs, Zenon
<1> QED BY <1>1, <1>2, Zenon DEF tail

LEMMA AfterKey ==
  \A e \in Nat : (e + 3) - 2 = e + 1 /\ (e + 4) - 2 = e + 2 /\ e + 1 \in Nat
OBVIOUS

\* The key that a value follows
LEMMA PastKey ==
  ASSUME NEW S, NEW t \in Seq(S), NEW u \in Seq(S), Begins(t, u), NEW d \in Nat, NEW s \in Nat,
         NEW e \in Nat, e = Len(t),
         NEW l \in Nat, l > 2, u[l - 1] = ":", u[l - 2] = "string",
         \/ e = s /\ l = e + 3
         \/ /\ <<s + 1, e>> \in ItemLists(t, TRUE, Values(t, d))
            /\ l = e + 4 /\ u[e + 1] = ","
  PROVE  ReadyFor(u, TRUE, ItemLists(u, TRUE, Values(u, d)), s, l)
<1> DEFINE M == ItemLists(u, TRUE, Values(u, d))
<1>1. CASE e = s /\ l = e + 3
  <2>1. e = s /\ l = e + 3
    BY <1>1, Zenon
  <2>2. l - 2 = s + 1
    BY <2>1, AfterKey, Zenon
  <2> QED BY <2>2, Zenon DEF Ready, ReadyFor
<1>2. CASE <<s + 1, e>> \in ItemLists(t, TRUE, Values(t, d)) /\ l = e + 4 /\ u[e + 1] = ","
  <2>1. <<s + 1, Len(t)>> \in ItemLists(t, TRUE, Values(t, d)) /\ l = e + 4 /\ u[e + 1] = ","
    BY <1>2, Zenon
  <2>3. l - 2 = Len(t) + 2 /\ Len(t) + 1 \in Nat /\ u[Len(t) + 1] = "," /\ TRUE \in BOOLEAN
    BY <2>1, AfterKey, Zenon
  <2>4. Ready(u, M, s, Len(t) + 2)
    BY <2>1, <2>3, ListThenComma, Zenon
  <2>5. Ready(u, M, s, l - 2)
    BY <2>3, <2>4, Zenon
  <2> QED BY <2>5, Zenon DEF ReadyFor
<1> QED BY <1>1, <1>2, Zenon

\* A key, where one is due
LEMMA KeyPlaced ==
  ASSUME NEW t \in Seq(Tokens), NEW u \in Seq(Tokens), Begins(t, u),
         NEW fs \in Seq(LevelType), NEW gs \in Seq(LevelType),
         NEW starts \in [Nat -> Nat], Written(t, fs, starts), Len(fs) > 0,
         fs[Len(fs)].object, fs[Len(fs)].wantKey,
         Len(gs) = Len(fs), \A i \in 1..(Len(fs) - 1) : gs[i] = fs[i],
         gs[Len(fs)].object, ~gs[Len(fs)].wantKey, gs[Len(fs)].needComma,
         NEW l \in Nat, l = Len(u) + 1, l > 2, u[l - 1] = ":", u[l - 2] = "string",
         \/ ~fs[Len(fs)].needComma /\ l = Len(t) + 3
         \/ fs[Len(fs)].needComma /\ l = Len(t) + 4 /\ u[Len(t) + 1] = ","
  PROVE  Written(u, gs, starts)
<1> DEFINE n == Len(fs)
           s == starts[n]
           d == WriterDepth - n
<1>1. Len(t) \in Nat /\ Len(u) \in Nat /\ n \in Nat /\ Len(gs) = n
  BY SeqIs, Zenon
<1>2. n <= WriterMaxDepth /\ d \in Nat /\ n \in 1..n /\ n \in 0..n /\ n # 0 /\ s \in Nat
  BY TopIs, Zenon
<1>3. Opened(u, WriterDepth, fs, starts)
  <2>1. Opened(t, WriterDepth, fs, starts)
    BY Zenon DEF Written
  <2> QED BY <1>2, <2>1, OpenedGrows, Zenon
<1>4. \A i \in 1..n : gs[i].object = fs[i].object
  <2>1. ASSUME NEW i \in 1..n PROVE gs[i].object = fs[i].object
    <3>1. i = n \/ i \in 1..(n - 1)
      BY <1>1, LastOrEarlier, Zenon
    <3>2. gs[n] \in LevelType /\ fs[n] \in LevelType
      BY <1>1, <1>2, ItemIn, Zenon
    <3>3. gs[n].object = TRUE /\ fs[n].object = TRUE
      BY <3>2, LevelIs, Zenon
    <3> QED BY <3>1, <3>3, Zenon
  <2> QED BY <2>1
<1>5. Opened(u, WriterDepth, gs, starts)
  <2>1. n <= n
    BY <1>1, LastOrEarlier, Zenon
  <2> QED BY <1>1, <1>3, <1>4, <2>1, OpenedSame, Zenon
<1>6. ReadyFor(u, TRUE, ItemLists(u, TRUE, Values(u, d)), s, l)
  <2>1. fs[n].needComma => <<s + 1, Len(t)>> \in ListsAt(t, WriterDepth, fs, n)
    BY <1>2, Zenon DEF Written, Top
  <2>2. ~fs[n].needComma => Len(t) = s
    BY <1>2, Zenon DEF Written, Top
  <2>3. fs[n].object = TRUE
    <3>1. fs[n] \in LevelType
      BY <1>2, ItemIn, Zenon
    <3> QED BY <3>1, LevelIs, Zenon
  <2>4. fs[n].needComma => <<s + 1, Len(t)>> \in ItemLists(t, TRUE, Values(t, d))
    BY <2>1, <2>3, Zenon DEF ListsAt
  <2> HIDE DEF s, d
  <2> QED BY <1>1, <1>2, <2>2, <2>4, PastKey, ZenonT(40)
<1>7. Before(u, WriterDepth, gs, starts, n, l)
  <2>1. gs[n].object = TRUE
    <3>1. gs[n] \in LevelType
      BY <1>1, <1>2, ItemIn, Zenon
    <3> QED BY <3>1, LevelIs, Zenon
  <2> QED BY <1>2, <1>6, <2>1, Zenon DEF Before, ListsAt
<1>8. Top(u, gs, starts)
  BY <1>1, <1>2, <1>7, Zenon DEF Top
<1>9. \A i \in 1..(n - 1) : Served(gs[i])
  BY Zenon DEF Written
<1> QED BY <1>1, <1>2, <1>5, <1>8, <1>9, Zenon DEF Written

Member == <<"string", ":">>

LEMMA MemberIs ==
  Member \in Seq(Tokens) /\ Len(Member) = 2 /\ Member[1] = "string" /\ Member[2] = ":"
<1>1. "string" \in Tokens /\ ":" \in Tokens
  BY DEF Tokens
<1>2. ASSUME NEW T, NEW a \in T, NEW b \in T
      PROVE  <<a, b>> \in Seq(T) /\ Len(<<a, b>>) = 2 /\ <<a, b>>[1] = a /\ <<a, b>>[2] = b
  OBVIOUS
<1> QED BY <1>1, <1>2, Zenon DEF Member

LEMMA MemberPlaced ==
  ASSUME NEW t \in Seq(Tokens), NEW comma \in Seq(Tokens)
  PROVE  /\ t \o (comma \o Member) \in Seq(Tokens) /\ Begins(t, t \o (comma \o Member))
         /\ Len(t \o (comma \o Member)) = Len(t) + Len(comma) + 2
         /\ \A k \in 1..Len(comma) : (t \o (comma \o Member))[Len(t) + k] = comma[k]
         /\ (t \o (comma \o Member))[Len(t) + Len(comma) + 1] = "string"
         /\ (t \o (comma \o Member))[Len(t) + Len(comma) + 2] = ":"
<1> DEFINE tail == comma \o Member
           u == t \o tail
           e == Len(t)
           c == Len(comma)
<1>1. /\ Member \in Seq(Tokens) /\ Len(Member) = 2 /\ Member[1] = "string" /\ Member[2] = ":"
  BY MemberIs
<1>2. /\ tail \in Seq(Tokens) /\ Len(tail) = c + 2 /\ \A k \in 1..c : tail[k] = comma[k]
      /\ \A k \in 1..2 : tail[c + k] = Member[k]
  <2>1. /\ tail \in Seq(Tokens) /\ Begins(comma, tail) /\ Len(tail) = c + Len(Member)
        /\ \A k \in 1..Len(Member) : tail[c + k] = Member[k]
    BY <1>1, BeginsIs, Zenon
  <2>2. DOMAIN comma = 1..c
    BY SeqIs, Zenon
  <2> QED BY <1>1, <2>1, <2>2, Zenon DEF Begins
<1> HIDE DEF tail
<1>3. /\ u \in Seq(Tokens) /\ Begins(t, u) /\ Len(u) = e + Len(tail)
      /\ \A k \in 1..Len(tail) : u[e + k] = tail[k]
  BY <1>2, BeginsIs, Zenon
<1> HIDE DEF u
<1>4. e \in Nat /\ c \in Nat
  BY SeqIs, Zenon
<1>5. Len(tail) = c + 2 /\ Len(u) = e + Len(tail)
  BY <1>2, <1>3, Zenon
<1> HIDE DEF e, c
<1>6. /\ Len(u) = e + c + 2 /\ 1 \in 1..2 /\ 2 \in 1..2
      /\ c + 1 \in 1..Len(tail) /\ c + 2 \in 1..Len(tail) /\ \A k \in 1..c : k \in 1..Len(tail)
      /\ e + (c + 1) = e + c + 1 /\ e + (c + 2) = e + c + 2
  BY <1>4, <1>5
<1>7. \A k \in 1..c : u[e + k] = comma[k]
  BY <1>2, <1>3, <1>6, Zenon
<1>8. u[e + c + 1] = tail[c + 1] /\ u[e + c + 2] = tail[c + 2]
  <2>1. u[e + (c + 1)] = tail[c + 1] /\ u[e + (c + 2)] = tail[c + 2]
    BY <1>3, <1>6, Zenon
  <2> QED BY <1>6, <2>1, Zenon
<1>9. tail[c + 1] = "string" /\ tail[c + 2] = ":"
  BY <1>1, <1>2, <1>6, Zenon
<1>10. u[e + c + 1] = "string" /\ u[e + c + 2] = ":"
  BY <1>8, <1>9, Zenon
<1> QED BY <1>3, <1>6, <1>7, <1>10, Zenon DEF u, e, c, tail

LEMMA WithLevelIs ==
  ASSUME levels \in Seq(LevelType), levels # <<>>, NEW level \in LevelType
  PROVE  /\ WithLevel(level) \in Seq(LevelType) /\ Len(WithLevel(level)) = Len(levels)
         /\ WithLevel(level)[Len(levels)] = level
         /\ \A i \in 1..(Len(levels) - 1) : WithLevel(level)[i] = levels[i]
<1> DEFINE front == Front(levels)
<1>1. /\ front \in Seq(LevelType) /\ Len(front) = Len(levels) - 1 /\ Len(levels) \in Nat \ {0}
      /\ \A i \in 1..(Len(levels) - 1) : front[i] = levels[i]
  BY FrontOf
<1> HIDE DEF front
<1>2. /\ Append(front, level) \in Seq(LevelType) /\ Len(Append(front, level)) = Len(front) + 1
      /\ Append(front, level)[Len(front) + 1] = level
      /\ \A i \in 1..Len(front) : Append(front, level)[i] = front[i]
  BY <1>1
<1> QED BY <1>1, <1>2 DEF WithLevel, front

\* The top level, by its names in the specification
LEMMA LevelNow ==
  ASSUME levels \in Seq(LevelType)
  PROVE  /\ Len(levels) \in Nat /\ (levels = <<>> <=> Len(levels) = 0)
         /\ \A kind \in BOOLEAN : Inside(kind) <=> Len(levels) > 0 /\ levels[Len(levels)].object = kind
         /\ levels # <<>> =>
              /\ Len(levels) > 0 /\ Len(levels) \in 1..Len(levels)
              /\ Level = levels[Len(levels)] /\ Level \in LevelType
         /\ Separator = Comma(levels)
<1>1. Len(levels) \in Nat /\ (levels = <<>> <=> Len(levels) = 0)
  OBVIOUS
<1>2. levels # <<>> => /\ Len(levels) > 0 /\ Len(levels) \in 1..Len(levels)
                       /\ Level = levels[Len(levels)] /\ Level \in LevelType
  BY <1>1, FrontOf DEF Level
<1>3. \A kind \in BOOLEAN : Inside(kind) <=> Len(levels) > 0 /\ levels[Len(levels)].object = kind
  <2>1. CASE levels = <<>>
    <3>1. ~(Len(levels) > 0)
      BY <1>1, <2>1
    <3> QED BY <2>1, <3>1, Zenon DEF Inside
  <2>2. CASE levels # <<>>
    BY <1>2, <2>2, Zenon DEF Inside
  <2> QED BY <2>1, <2>2
<1>4. Inside(FALSE) <=> Len(levels) > 0 /\ ~levels[Len(levels)].object
  <2> DEFINE object == levels[Len(levels)].object
  <2>1. FALSE \in BOOLEAN
    OBVIOUS
  <2>2. Inside(FALSE) <=> Len(levels) > 0 /\ object = FALSE
    BY <1>3, <2>1, Zenon
  <2>3. Len(levels) > 0 => object \in BOOLEAN
    <3>1. Len(levels) > 0 => levels # <<>>
      BY <1>1
    <3> QED BY <1>2, <3>1, LevelIs, Zenon
  <2> HIDE DEF object
  <2>4. object \in BOOLEAN => (object = FALSE <=> ~object)
    OBVIOUS
  <2>5. Inside(FALSE) <=> Len(levels) > 0 /\ ~object
    BY <2>2, <2>3, <2>4, Zenon
  <2> QED BY <2>5 DEF object
<1>5. Separator = Comma(levels)
  <2>1. CASE Inside(FALSE)
    BY <1>1, <1>2, <1>4, <2>1, Zenon DEF Separator, Comma, Inside
  <2>2. CASE ~Inside(FALSE)
    BY <1>4, <2>2, Zenon DEF Separator, Comma
  <2> QED BY <2>1, <2>2
<1> QED BY <1>1, <1>2, <1>3, <1>5

\* What the writer has written, given how many values it began at the top
Dangling(t) == \E i \in 1..(Len(t) - 1) : t[i] = ":" /\ t[i + 1] = "}"

SoFar(t, fs, count) ==
  /\ t \in Seq(Tokens) /\ fs \in Seq(LevelType) /\ count \in Nat
  /\ count = 0 => t = <<>> /\ fs = <<>>
  /\ count <= 1 /\ ~Dangling(t) => \E starts \in [Nat -> Nat] : Written(t, fs, starts)

LEMMA DanglingGrows ==
  ASSUME NEW t \in Seq(Tokens), NEW u \in Seq(Tokens), Begins(t, u), Dangling(t)
  PROVE  Dangling(u)
<1>1. PICK i \in 1..(Len(t) - 1) : t[i] = ":" /\ t[i + 1] = "}"
  BY DEF Dangling
<1>2. /\ Len(t) \in Nat /\ Len(u) \in Nat /\ DOMAIN t = 1..Len(t) /\ Len(t) <= Len(u)
      /\ \A k \in DOMAIN t : u[k] = t[k]
  BY SeqIs, Zenon DEF Begins
<1>3. ASSUME NEW m \in Nat, NEW l \in Nat, m <= l, NEW k \in 1..(m - 1)
      PROVE  k \in 1..m /\ k + 1 \in 1..m /\ k \in 1..(l - 1)
  BY <1>3
<1>4. i \in DOMAIN t /\ i + 1 \in DOMAIN t /\ i \in 1..(Len(u) - 1)
  BY <1>2, <1>3, Zenon
<1> QED BY <1>1, <1>2, <1>4, Zenon DEF Dangling

\* A call that goes through, given what it does to what is written
LEMMA SoFarGrows ==
  ASSUME NEW t, NEW fs, NEW count, SoFar(t, fs, count),
         NEW u \in Seq(Tokens), Begins(t, u), NEW gs \in Seq(LevelType),
         NEW more \in Nat, more # 0, count <= more,
         ASSUME NEW starts \in [Nat -> Nat], more <= 1, ~Dangling(u), Written(t, fs, starts)
         PROVE  \E others \in [Nat -> Nat] : Written(u, gs, others)
  PROVE  SoFar(u, gs, more)
<1>1. t \in Seq(Tokens) /\ count \in Nat
  BY DEF SoFar
<1>2. ASSUME more <= 1, ~Dangling(u)
      PROVE  \E others \in [Nat -> Nat] : Written(u, gs, others)
  <2>1. ~Dangling(t)
    BY <1>1, <1>2, DanglingGrows, Zenon
  <2>2. count <= 1
    BY <1>1, <1>2
  <2>3. PICK starts \in [Nat -> Nat] : Written(t, fs, starts)
    BY <2>1, <2>2, Zenon DEF SoFar
  <2> QED BY <1>2, <2>3, Zenon
<1> QED BY <1>2, Zenon DEF SoFar

AfterRoot == IF levels = <<>> THEN roots + 1 ELSE roots

LEMMA RootIs ==
  ASSUME SoFar(text, levels, roots)
  PROVE  /\ text \in Seq(Tokens) /\ levels \in Seq(LevelType) /\ roots \in Nat
         /\ AfterRoot \in Nat /\ AfterRoot # 0 /\ roots <= AfterRoot
         /\ AfterRoot <= 1 => (levels = <<>> => text = <<>>)
         /\ levels # <<>> => roots # 0 /\ roots <= roots
<1>1. /\ text \in Seq(Tokens) /\ levels \in Seq(LevelType) /\ roots \in Nat
      /\ roots = 0 => text = <<>> /\ levels = <<>>
  BY Zenon DEF SoFar
<1>2. /\ AfterRoot \in Nat /\ AfterRoot # 0 /\ roots <= AfterRoot
      /\ AfterRoot <= 1 => (levels = <<>> => text = <<>>)
      /\ levels # <<>> => roots # 0 /\ roots <= roots
  BY <1>1 DEF AfterRoot
<1> QED BY <1>1, <1>2

\* writer_after_value
LEMMA AfterValueIs ==
  ASSUME levels \in Seq(LevelType), ~ValueMisplaced
  PROVE  /\ AfterValue \in Seq(LevelType) /\ Len(AfterValue) = Len(levels)
         /\ \A i \in 1..Len(levels) : AfterValue[i].object = levels[i].object
         /\ \A i \in 1..(Len(levels) - 1) : AfterValue[i] = levels[i]
         /\ Len(levels) > 0 =>
              /\ levels[Len(levels)].object => ~levels[Len(levels)].wantKey
              /\ levels[Len(levels)].object /\ levels[Len(levels)].needComma
                   => Served(AfterValue[Len(levels)])
              /\ ~levels[Len(levels)].object => Served(AfterValue[Len(levels)])
<1>1. CASE levels = <<>>
  <2>1. AfterValue = <<>>
    BY <1>1 DEF AfterValue
  <2> QED BY <1>1, <2>1
<1>2. CASE levels # <<>>
  <2> DEFINE n == Len(levels)
             top == levels[n]
             next == IF top.object THEN [top EXCEPT !.wantKey = TRUE]
                     ELSE [top EXCEPT !.needComma = TRUE]
  <2>1. n \in Nat /\ n > 0 /\ Level = top /\ top \in LevelType /\ n \in 1..n
    BY <1>2, LevelNow, Zenon
  <2>2. Inside(TRUE) <=> top.object
    <3>1. TRUE \in BOOLEAN
      OBVIOUS
    <3>2. Inside(TRUE) <=> top.object = TRUE
      BY <2>1, <3>1, LevelNow, Zenon
    <3> HIDE DEF top
    <3> QED BY <2>1, <3>2, LevelIs, Zenon
  <2>3. AfterValue = WithLevel(next)
    <3>1. CASE top.object
      BY <1>2, <2>1, <2>2, <3>1, Zenon DEF AfterValue
    <3>2. CASE ~top.object
      BY <1>2, <2>1, <2>2, <3>2, Zenon DEF AfterValue
    <3> QED BY <3>1, <3>2, Zenon
  <2>4. top.object => ~top.wantKey
    BY <2>1, <2>2, Zenon DEF ValueMisplaced
  <2> HIDE DEF top
  <2>5. /\ next \in LevelType /\ next.object = top.object
        /\ top.object /\ top.needComma => Served(next)
        /\ ~top.object => Served(next)
    BY <2>1 DEF LevelType, Served
  <2> HIDE DEF next
  <2>6. /\ AfterValue \in Seq(LevelType) /\ Len(AfterValue) = n /\ AfterValue[n] = next
        /\ \A i \in 1..(n - 1) : AfterValue[i] = levels[i]
    BY <1>2, <2>3, <2>5, WithLevelIs, Zenon
  <2>7. ASSUME NEW i \in 1..n PROVE AfterValue[i].object = levels[i].object
    <3>1. i = n \/ i \in 1..(n - 1)
      BY <2>1, LastOrEarlier, Zenon
    <3>2. levels[n] = top
      BY DEF top
    <3> QED BY <2>5, <2>6, <3>1, <3>2, Zenon
  <2> QED BY <2>4, <2>5, <2>6, <2>7, Zenon DEF top
<1> QED BY <1>1, <1>2

LEMMA AllServed ==
  ASSUME text \in Seq(Tokens), levels \in Seq(LevelType), ~ValueMisplaced,
         NEW starts \in [Nat -> Nat], Written(text, levels, starts)
  PROVE  \A i \in 1..Len(levels) : Served(AfterValue[i])
<1> SUFFICES ASSUME NEW i \in 1..Len(levels) PROVE Served(AfterValue[i])
  OBVIOUS
<1> DEFINE n == Len(levels)
           top == levels[n]
<1>1. n \in Nat /\ n > 0 /\ n # 0
  <2>1. n \in Nat
    BY LevelNow, Zenon
  <2> QED BY <2>1
<1>2. /\ \A k \in 1..(n - 1) : AfterValue[k] = levels[k]
      /\ top.object => ~top.wantKey
      /\ top.object /\ top.needComma => Served(AfterValue[n])
      /\ ~top.object => Served(AfterValue[n])
  BY <1>1, AfterValueIs, Zenon
<1>3. top.object => top.needComma
  <2>1. Top(text, levels, starts)
    BY Zenon DEF Written
  <2> QED BY <1>1, <1>2, <2>1, Zenon DEF Top
<1>4. \A k \in 1..(n - 1) : Served(levels[k])
  BY Zenon DEF Written
<1>5. i = n \/ i \in 1..(n - 1)
  BY <1>1, LastOrEarlier, Zenon
<1> QED BY <1>2, <1>3, <1>4, <1>5, Zenon

\* usbs_json_writer_string, _int, _bool and _null
LEMMA ScalarWritten ==
  ASSUME SoFar(text, levels, roots), ~ValueMisplaced, NEW token \in {"string", "scalar"}
  PROVE  SoFar(text \o Append(Separator, token), AfterValue, AfterRoot)
<1> DEFINE u == WithValue(text, levels, token)
           n == Len(levels)
<1>1. /\ text \in Seq(Tokens) /\ levels \in Seq(LevelType) /\ roots \in Nat
      /\ AfterRoot \in Nat /\ AfterRoot # 0 /\ roots <= AfterRoot
      /\ AfterRoot <= 1 => (levels = <<>> => text = <<>>)
  BY RootIs, Zenon
<1>2. Separator = Comma(levels) /\ token \in Tokens /\ Comma(levels) \in Seq(Tokens)
  BY <1>1, LevelNow, CommaIs, Zenon DEF Tokens
<1>3. u = text \o Append(Separator, token)
  BY <1>2, Zenon DEF WithValue
<1>4. /\ u \in Seq(Tokens) /\ Begins(text, u) /\ Len(u) = Len(text) + Len(Comma(levels)) + 1
      /\ Len(u) \in DOMAIN u /\ u[Len(u)] = token
      /\ \A k \in 1..Len(Comma(levels)) : u[Len(text) + k] = Comma(levels)[k]
  BY <1>1, <1>2, PlacedIs, Zenon
<1>5. /\ AfterValue \in Seq(LevelType) /\ Len(AfterValue) = n
      /\ \A i \in 1..n : AfterValue[i].object = levels[i].object
      /\ n > 0 /\ levels[n].object => ~levels[n].wantKey
  BY <1>1, AfterValueIs, Zenon
<1> HIDE DEF u
<1>6. ASSUME NEW starts \in [Nat -> Nat], AfterRoot <= 1, Written(text, levels, starts)
      PROVE  \E others \in [Nat -> Nat] : Written(u, AfterValue, others)
  <2>1. /\ Opened(u, WriterDepth, levels, starts)
        /\ Before(u, WriterDepth, levels, starts, n, Len(u))
    BY <1>1, <1>4, <1>5, <1>6, ValuePlaced, Zenon
  <2>2. n \in Nat /\ n <= n /\ n <= WriterMaxDepth /\ n \in 0..n /\ Len(u) \in Nat
    <3>1. n \in Nat /\ Len(u) \in Nat /\ n <= WriterMaxDepth
      BY <1>1, <1>4, <1>6, SeqIs, Zenon DEF Written
    <3> QED BY <3>1, LevelFitsToo, Zenon
  <2>3. /\ Opened(u, WriterDepth, AfterValue, starts)
        /\ Before(u, WriterDepth, AfterValue, starts, n, Len(u))
    BY <1>5, <2>1, <2>2, OpenedSame, Zenon
  <2>4. \A i \in 1..n : Served(AfterValue[i])
    BY <1>1, <1>6, AllServed, Zenon
  <2>5. <<Len(u), Len(u)>> \in Values(u, WriterDepth - n)
    <3>1. WriterMaxDepth - n \in Nat /\ (WriterMaxDepth - n) + 1 = WriterDepth - n
      BY <2>2, LevelFitsToo, Zenon
    <3>2. u[Len(u)] \in {"string", "scalar"}
      BY <1>4, Zenon
    <3>3. <<Len(u), Len(u)>> \in Values(u, (WriterMaxDepth - n) + 1)
      BY <1>4, <3>1, <3>2, SimpleIsValue, Zenon
    <3> QED BY <3>1, <3>3, Zenon
  <2>6. Written(u, AfterValue, starts)
    BY <1>4, <1>5, <2>2, <2>3, <2>4, <2>5, ValueDone, Zenon
  <2> QED BY <2>6
<1>7. SoFar(u, AfterValue, AfterRoot)
  BY <1>1, <1>4, <1>5, <1>6, SoFarGrows, Zenon
<1> QED BY <1>3, <1>7, Zenon

Entered(object) == [object |-> object, needComma |-> FALSE, wantKey |-> object]

\* usbs_json_writer_begin_object and _begin_array
LEMMA BeginWritten ==
  ASSUME SoFar(text, levels, roots), ~ValueMisplaced, Len(levels) < WriterMaxDepth,
         NEW object \in BOOLEAN
  PROVE  SoFar(text \o Append(Separator, OpenOf(object)),
               Append(AfterValue, Entered(object)), AfterRoot)
<1> DEFINE token == OpenOf(object)
           u == WithValue(text, levels, token)
           n == Len(levels)
           gs == Append(AfterValue, Entered(object))
<1>1. /\ text \in Seq(Tokens) /\ levels \in Seq(LevelType) /\ roots \in Nat
      /\ AfterRoot \in Nat /\ AfterRoot # 0 /\ roots <= AfterRoot
      /\ AfterRoot <= 1 => (levels = <<>> => text = <<>>)
  BY RootIs, Zenon
<1>2. Separator = Comma(levels) /\ token \in Tokens
  <2>1. token \in {"{", "["}
    BY Tokenwise, Zenon
  <2>2. {"{", "["} \subseteq Tokens
    BY DEF Tokens
  <2> QED BY <1>1, <2>1, <2>2, LevelNow, Zenon
<1>3. u = text \o Append(Separator, token)
  BY <1>2, Zenon DEF WithValue
<1>4. /\ u \in Seq(Tokens) /\ Begins(text, u) /\ Len(u) = Len(text) + Len(Comma(levels)) + 1
      /\ Len(u) \in DOMAIN u /\ u[Len(u)] = token
      /\ \A k \in 1..Len(Comma(levels)) : u[Len(text) + k] = Comma(levels)[k]
  BY <1>1, <1>2, PlacedIs, Zenon
<1>5. /\ AfterValue \in Seq(LevelType) /\ Len(AfterValue) = n
      /\ \A i \in 1..n : AfterValue[i].object = levels[i].object
      /\ n > 0 /\ levels[n].object => ~levels[n].wantKey
  BY <1>1, AfterValueIs, Zenon
<1>6. /\ gs \in Seq(LevelType) /\ Len(gs) = n + 1 /\ gs[n + 1] = Entered(object)
      /\ \A i \in 1..n : gs[i] = AfterValue[i]
  <2>1. Entered(object) \in LevelType
    BY DEF Entered, LevelType
  <2> QED BY <1>5, <2>1
<1>7. ~gs[Len(gs)].needComma /\ gs[Len(gs)].wantKey = gs[Len(gs)].object
      /\ gs[Len(gs)].object = object
  <2>1. /\ ~Entered(object).needComma /\ Entered(object).wantKey = object
        /\ Entered(object).object = object
    BY DEF Entered
  <2> HIDE DEF gs
  <2> QED BY <1>6, <2>1, Zenon
<1> HIDE DEF u, gs
<1>8. ASSUME NEW starts \in [Nat -> Nat], AfterRoot <= 1, Written(text, levels, starts)
      PROVE  \E others \in [Nat -> Nat] : Written(u, gs, others)
  <2>1. /\ Opened(u, WriterDepth, levels, starts)
        /\ Before(u, WriterDepth, levels, starts, n, Len(u))
    BY <1>1, <1>4, <1>5, <1>8, ValuePlaced, Zenon
  <2>2. \A i \in 1..n : gs[i].object = levels[i].object /\ Served(gs[i])
    <3>1. \A i \in 1..n : Served(AfterValue[i])
      BY <1>1, <1>8, AllServed, Zenon
    <3> QED BY <1>5, <1>6, <3>1, Zenon
  <2>3. u[Len(u)] = OpenOf(gs[Len(gs)].object)
    BY <1>4, <1>7, Zenon
  <2>4. Written(u, gs, [starts EXCEPT ![Len(gs)] = Len(u)])
    BY <1>1, <1>4, <1>6, <1>7, <2>1, <2>2, <2>3, LevelOpened, Zenon
  <2>5. [starts EXCEPT ![Len(gs)] = Len(u)] \in [Nat -> Nat]
    <3>1. Len(u) \in Nat
      BY <1>4, SeqIs, Zenon
    <3> QED BY <3>1
  <2> QED BY <2>4, <2>5, Zenon
<1>9. SoFar(u, gs, AfterRoot)
  BY <1>1, <1>4, <1>6, <1>8, SoFarGrows, Zenon
<1> QED BY <1>3, <1>9, Zenon DEF gs

\* usbs_json_writer_end_object and _end_array
LEMMA EndWritten ==
  ASSUME SoFar(text, levels, roots), NEW object \in BOOLEAN, Inside(object)
  PROVE  SoFar(text \o <<CloseOf(object)>>, Front(levels), roots)
<1> DEFINE token == CloseOf(object)
           u == text \o <<token>>
           n == Len(levels)
           gs == Front(levels)
<1>1. text \in Seq(Tokens) /\ levels \in Seq(LevelType) /\ roots \in Nat
  BY RootIs, Zenon
<1>2. n > 0 /\ levels[n].object = object /\ levels # <<>>
  <2>1. n > 0 /\ levels[n].object = object
    BY <1>1, LevelNow, Zenon
  <2> QED BY <2>1, Zenon DEF Inside
<1>3. roots # 0 /\ roots <= roots
  BY <1>2, RootIs, Zenon
<1>4. token \in Tokens /\ (object => token = "}")
  BY DEF CloseOf, Tokens
<1> HIDE DEF token
<1>5. u \in Seq(Tokens) /\ Begins(text, u) /\ Len(u) = Len(text) + 1 /\ u[Len(text) + 1] = token
  BY <1>1, <1>4, OneMore, Zenon
<1>6. /\ gs \in Seq(LevelType) /\ Len(gs) = n - 1 /\ \A i \in 1..(n - 1) : gs[i] = levels[i]
  BY <1>1, <1>2, FrontOf, Zenon
<1> HIDE DEF u, gs
<1>7. ASSUME NEW starts \in [Nat -> Nat], ~Dangling(u), Written(text, levels, starts)
      PROVE  \E others \in [Nat -> Nat] : Written(u, gs, others)
  <2>1. object => levels[n].wantKey
    <3>1. SUFFICES ASSUME object, ~levels[n].wantKey PROVE FALSE
      OBVIOUS
    <3>2. n # 0 /\ levels[n].object
      <4>1. levels[n].object
        BY <1>2, <3>1, Zenon
      <4>2. n # 0
        BY <1>1, <1>2, LevelNow, Zenon
      <4> QED BY <4>1, <4>2, Zenon
    <3>3. Before(text, WriterDepth, levels, starts, n, Len(text) + 1)
      BY <1>7, <3>1, <3>2, Zenon DEF Written, Top
    <3>4. Len(text) + 1 > 2 /\ text[(Len(text) + 1) - 1] = ":"
      BY <1>2, <3>2, <3>3, Zenon DEF Before, ReadyFor
    <3>5. Len(text) + 1 > 2
      BY <3>4, Zenon
    <3>6. Len(text) \in Nat /\ DOMAIN text = 1..Len(text)
      BY <1>1, SeqIs, Zenon
    <3>7. /\ (Len(text) + 1) - 1 = Len(text) /\ Len(text) \in 1..Len(text)
          /\ Len(text) = Len(u) - 1 /\ Len(text) \in 1..(Len(u) - 1)
      BY <1>5, <3>5, <3>6
    <3>8. u[Len(text)] = ":" /\ u[Len(text) + 1] = "}"
      BY <1>4, <1>5, <3>1, <3>4, <3>6, <3>7, Zenon DEF Begins
    <3>9. Dangling(u)
      BY <3>7, <3>8, Zenon DEF Dangling
    <3> QED BY <1>7, <3>9
  <2>2. u[Len(u)] = CloseOf(levels[n].object)
    BY <1>2, <1>5, Zenon DEF token
  <2>3. Written(u, gs, starts)
    BY <1>1, <1>2, <1>5, <1>6, <1>7, <2>1, <2>2, LevelEnds, Zenon
  <2> QED BY <2>3, Zenon
<1>8. SoFar(u, gs, roots)
  BY <1>1, <1>3, <1>5, <1>6, <1>7, SoFarGrows, Zenon
<1> QED BY <1>8 DEF u, gs, token

\* usbs_json_writer_key
LEMMA KeyWritten ==
  ASSUME SoFar(text, levels, roots), Inside(TRUE), Level.wantKey
  PROVE  SoFar(text \o ((IF Level.needComma THEN <<",">> ELSE <<>>) \o <<"string", ":">>),
               WithLevel([Level EXCEPT !.wantKey = FALSE, !.needComma = TRUE]), roots)
<1> DEFINE comma == IF Level.needComma THEN <<",">> ELSE <<>>
           u == text \o (comma \o Member)
           n == Len(levels)
           top == [Level EXCEPT !.wantKey = FALSE, !.needComma = TRUE]
           gs == WithLevel(top)
           l == Len(u) + 1
<1>1. text \in Seq(Tokens) /\ levels \in Seq(LevelType) /\ roots \in Nat
  BY RootIs, Zenon
<1>2. levels # <<>> /\ n > 0 /\ n \in Nat /\ Level = levels[n] /\ Level \in LevelType
  <2>1. levels # <<>>
    BY Zenon DEF Inside
  <2> QED BY <1>1, <2>1, LevelNow, Zenon
<1>3. Level.object = TRUE /\ Level.object /\ levels[n].object /\ levels[n].wantKey
  <2>1. Level.object = TRUE
    BY Zenon DEF Inside
  <2>2. Level.object
    BY <2>1
  <2> QED BY <1>2, <2>1, <2>2, Zenon
<1>4. roots # 0 /\ roots <= roots
  BY <1>2, RootIs, Zenon
<1>5. /\ top \in LevelType /\ top.object /\ ~top.wantKey /\ top.needComma
  <2> HIDE DEF Level
  <2>1. Level \in LevelType /\ Level.object
    BY <1>2, <1>3, Zenon
  <2> QED BY <2>1 DEF LevelType
<1> HIDE DEF top
<1>6. /\ gs \in Seq(LevelType) /\ Len(gs) = n /\ gs[n] = top
      /\ \A i \in 1..(n - 1) : gs[i] = levels[i]
  BY <1>1, <1>2, <1>5, WithLevelIs, Zenon
<1> HIDE DEF gs
<1>7. /\ comma \in Seq(Tokens)
      /\ Level.needComma => Len(comma) = 1 /\ comma[1] = ","
      /\ ~Level.needComma => Len(comma) = 0
  <2>1. <<",">> \in Seq(Tokens) /\ <<>> \in Seq(Tokens)
    <3>1. "," \in Tokens
      BY DEF Tokens
    <3> QED BY <3>1, ShortIsSeq, Zenon
  <2>2. Len(<<>>) = 0 /\ \A c : Len(<<c>>) = 1 /\ <<c>>[1] = c
    OBVIOUS
  <2>3. CASE Level.needComma
    BY <2>1, <2>2, <2>3, Zenon
  <2>4. CASE ~Level.needComma
    BY <2>1, <2>2, <2>4, Zenon
  <2> QED BY <2>3, <2>4, Zenon
<1> HIDE DEF comma
<1>8. /\ u \in Seq(Tokens) /\ Begins(text, u) /\ Len(u) = Len(text) + Len(comma) + 2
      /\ \A k \in 1..Len(comma) : u[Len(text) + k] = comma[k]
      /\ u[Len(text) + Len(comma) + 1] = "string" /\ u[Len(text) + Len(comma) + 2] = ":"
  BY <1>1, <1>7, MemberPlaced, Zenon
<1> HIDE DEF u
<1>9. /\ l \in Nat /\ l > 2 /\ l - 1 = Len(text) + Len(comma) + 2
      /\ l - 2 = Len(text) + Len(comma) + 1
      /\ Len(comma) = 0 => l = Len(text) + 3
      /\ Len(comma) = 1 => l = Len(text) + 4 /\ 1 \in 1..Len(comma)
  <2> DEFINE m == Len(u)
             e == Len(text)
             c == Len(comma)
  <2>1. m = e + c + 2 /\ l = m + 1
    BY <1>8, Zenon
  <2>2. e \in Nat /\ c \in Nat
    BY <1>1, <1>7, SeqIs, Zenon
  <2> HIDE DEF l, m, e, c
  <2>3. /\ l \in Nat /\ l > 2 /\ l - 1 = e + c + 2 /\ l - 2 = e + c + 1
        /\ c = 0 => l = e + 3
        /\ c = 1 => l = e + 4 /\ 1 \in 1..c
    BY <2>1, <2>2
  <2> QED BY <2>3 DEF e, c
<1>10. u[l - 1] = ":" /\ u[l - 2] = "string"
  BY <1>8, <1>9, Zenon
<1>11. \/ ~levels[n].needComma /\ l = Len(text) + 3
       \/ levels[n].needComma /\ l = Len(text) + 4 /\ u[Len(text) + 1] = ","
  <2>1. CASE levels[n].needComma
    BY <1>2, <1>7, <1>8, <1>9, <2>1, Zenon
  <2>2. CASE ~levels[n].needComma
    BY <1>2, <1>7, <1>9, <2>2, Zenon
  <2> QED BY <2>1, <2>2, Zenon
<1>12. l = Len(u) + 1
  OBVIOUS
<1>13. gs[n].object /\ ~gs[n].wantKey /\ gs[n].needComma
  BY <1>5, <1>6, Zenon
<1> HIDE DEF l
<1>14. ASSUME NEW starts \in [Nat -> Nat], Written(text, levels, starts)
       PROVE  \E others \in [Nat -> Nat] : Written(u, gs, others)
  <2>1. Written(u, gs, starts)
    BY <1>1, <1>2, <1>3, <1>6, <1>8, <1>9, <1>10, <1>11, <1>12, <1>13, <1>14, KeyPlaced, Zenon
  <2> QED BY <2>1, Zenon
<1>15. SoFar(u, gs, roots)
  BY <1>1, <1>4, <1>6, <1>8, <1>14, SoFarGrows, Zenon
<1> QED BY <1>15, Zenon DEF u, gs, top, comma, Member

-----------------------------------------------------------------------------
(* The calls.                                                              *)
WriterInv ==
  /\ phase \in {"writing", "stored"} => damages \in Nat
  /\ phase = "writing" \/ (phase = "stored" /\ damages = 0) => SoFar(text, levels, roots)
  /\ phase = "stored" /\ damages = 0 => levels = <<>> /\ text # <<>>

\* A call that emits something, or fails to for want of memory
LEMMA EmitKeeps ==
  ASSUME WriterInv, phase = "writing", NEW tokens, NEW opened, NEW more,
         SoFar(text \o tokens, opened, more), SoFar(text, levels, more),
         Emit(tokens, opened), roots' = more
  PROVE  WriterInv'
<1>1. phase' = "writing" /\ damages' = damages /\ damages \in Nat
  BY DEF Emit, WriterInv
<1>2. SoFar(text', levels', roots')
  <2>1. CASE text' = text \o tokens /\ levels' = opened
    BY <2>1, Zenon
  <2>2. CASE text' = text /\ levels' = levels
    BY <2>2, Zenon
  <2> QED BY <2>1, <2>2 DEF Emit
<1>3. SoFar(text, levels, roots)'
  BY <1>2
<1> QED BY <1>1, <1>3 DEF WriterInv

\* A value begun at the top for which there was no memory
LEMMA RootKeeps ==
  ASSUME SoFar(text, levels, roots)
  PROVE  SoFar(text, levels, AfterRoot)
<1>1. /\ text \in Seq(Tokens) /\ levels \in Seq(LevelType) /\ roots \in Nat
      /\ AfterRoot \in Nat /\ AfterRoot # 0 /\ roots <= AfterRoot
  BY RootIs, Zenon
<1>2. Begins(text, text)
  BY <1>1 DEF Begins
<1> QED BY <1>1, <1>2, SoFarGrows, Zenon

LEMMA MisuseKeeps ==
  ASSUME WriterInv, NEW status, Misuse(status)
  PROVE  WriterInv'
BY DEF Misuse, WriterInv

LEMMA ScalarKeeps ==
  ASSUME WriterInv, NEW token \in {"string", "scalar"}, Scalar(token)
  PROVE  WriterInv'
<1>1. phase = "writing" /\ SoFar(text, levels, roots)
  BY DEF Scalar, Calls, WriterInv
<1>2. CASE Misuse("INTERNAL")
  BY <1>2, MisuseKeeps
<1>3. CASE ~ValueMisplaced /\ Root /\ Emit(Append(Separator, token), AfterValue)
  <2>1. SoFar(text \o Append(Separator, token), AfterValue, AfterRoot)
    BY <1>1, <1>3, ScalarWritten, Zenon
  <2>2. SoFar(text, levels, AfterRoot)
    BY <1>1, RootKeeps, Zenon
  <2>3. roots' = AfterRoot
    BY <1>3, Zenon DEF Root, AfterRoot
  <2> QED BY <1>1, <1>3, <2>1, <2>2, <2>3, EmitKeeps, Zenon
<1> QED BY <1>2, <1>3, Zenon DEF Scalar

LEMMA BeginKeeps ==
  ASSUME WriterInv, NEW object \in BOOLEAN, Begin(OpenOf(object), object)
  PROVE  WriterInv'
<1>1. phase = "writing" /\ SoFar(text, levels, roots)
  BY DEF Begin, Calls, WriterInv
<1>2. CASE Misuse("INTERNAL") \/ Misuse("UNSUPPORTED")
  BY <1>2, MisuseKeeps
<1>3. CASE /\ ~ValueMisplaced /\ Len(levels) < WriterMaxDepth /\ Root
           /\ Emit(Append(Separator, OpenOf(object)), Append(AfterValue, Entered(object)))
  <2>1. SoFar(text \o Append(Separator, OpenOf(object)),
              Append(AfterValue, Entered(object)), AfterRoot)
    BY <1>1, <1>3, BeginWritten, Zenon
  <2>2. SoFar(text, levels, AfterRoot)
    BY <1>1, RootKeeps, Zenon
  <2>3. roots' = AfterRoot
    BY <1>3, Zenon DEF Root, AfterRoot
  <2> QED BY <1>1, <1>3, <2>1, <2>2, <2>3, EmitKeeps, Zenon
<1> QED BY <1>2, <1>3, Zenon DEF Begin, Entered

LEMMA EndKeeps ==
  ASSUME WriterInv, NEW object \in BOOLEAN, End(CloseOf(object), object)
  PROVE  WriterInv'
<1>1. phase = "writing" /\ SoFar(text, levels, roots)
  BY DEF End, Calls, WriterInv
<1>2. CASE Misuse("INTERNAL")
  BY <1>2, MisuseKeeps
<1>3. CASE Inside(object) /\ Emit(<<CloseOf(object)>>, Front(levels)) /\ UNCHANGED roots
  <2>1. SoFar(text \o <<CloseOf(object)>>, Front(levels), roots)
    BY <1>1, <1>3, EndWritten, Zenon
  <2>2. roots' = roots
    BY <1>3
  <2> QED BY <1>1, <1>3, <2>1, <2>2, EmitKeeps, Zenon
<1> QED BY <1>2, <1>3, Zenon DEF End

LEMMA KeyKeeps ==
  ASSUME WriterInv, Key
  PROVE  WriterInv'
<1> DEFINE member == (IF Level.needComma THEN <<",">> ELSE <<>>) \o <<"string", ":">>
           opened == WithLevel([Level EXCEPT !.wantKey = FALSE, !.needComma = TRUE])
<1>1. phase = "writing" /\ SoFar(text, levels, roots)
  BY Zenon DEF Key, Calls, WriterInv
<1>2. CASE Misuse("INTERNAL")
  BY <1>2, MisuseKeeps
<1>3. CASE ~KeyMisplaced /\ Emit(member, opened) /\ UNCHANGED roots
  <2>1. Inside(TRUE) /\ Level.wantKey
    BY <1>3, Zenon DEF KeyMisplaced
  <2>2. SoFar(text \o member, opened, roots)
    BY <1>1, <2>1, KeyWritten, Zenon
  <2> HIDE DEF member, opened
  <2>3. roots' = roots
    BY <1>3, Zenon
  <2> QED BY <1>1, <1>3, <2>2, <2>3, EmitKeeps, Zenon
<1> QED BY <1>2, <1>3, Zenon DEF Key

LEMMA FinishKeeps ==
  ASSUME WriterInv, Finish
  PROVE  WriterInv'
<1>1. phase = "writing" /\ SoFar(text, levels, roots) /\ damages \in Nat
  BY DEF Finish, WriterInv
<1>2. UNCHANGED <<text, damages, levels, roots>>
  BY DEF Finish, writer
<1>3. (phase' = "stored" /\ levels = <<>> /\ text # <<>>) \/ phase' = "over"
  BY Zenon DEF Finish
<1> QED BY <1>1, <1>2, <1>3 DEF WriterInv

LEMMA WriterStep ==
  ASSUME MemoryInv, TextInv, WriterInv, [Next]_vars
  PROVE  WriterInv'
<1>1. CASE Write
  <2>1. /\ OpenOf(TRUE) = "{" /\ OpenOf(FALSE) = "[" /\ CloseOf(TRUE) = "}" /\ CloseOf(FALSE) = "]"
        /\ TRUE \in BOOLEAN /\ FALSE \in BOOLEAN
        /\ "string" \in {"string", "scalar"} /\ "scalar" \in {"string", "scalar"}
    BY Zenon DEF OpenOf, CloseOf
  <2>2. CASE Scalar("string") \/ Scalar("scalar")
    BY <2>1, <2>2, ScalarKeeps, Zenon
  <2>3. CASE BeginObject \/ BeginArray
    BY <2>1, <2>3, BeginKeeps, Zenon DEF BeginObject, BeginArray
  <2>4. CASE EndObject \/ EndArray
    BY <2>1, <2>4, EndKeeps, Zenon DEF EndObject, EndArray
  <2> QED BY <1>1, <2>2, <2>3, <2>4, KeyKeeps, FinishKeeps, Zenon DEF Write
<1>2. CASE Damage
  <2>1. phase' = phase /\ phase = "stored" /\ damages' = damages + 1 /\ damages \in Nat
    BY <1>2 DEF Damage, WriterInv
  <2>2. damages' \in Nat /\ damages' # 0
    BY <2>1
  <2> QED BY <2>1, <2>2 DEF WriterInv
<1>3. CASE Read
  <2>1. frames \in Seq(FrameType) /\ result.status \in Statuses /\ pos \in Nat
    BY DEF MemoryInv, ReaderType, TextInv
  <2>2. CASE Parse
    BY <2>2 DEF Parse, WriterInv
  <2>3. CASE ParseEnds
    BY <2>3 DEF ParseEnds, WriterInv
  <2>4. CASE phase = "reading" /\ ReaderMoves
    <3>1. phase' = "reading"
      BY <2>4 DEF ReaderMoves, Stops, TakesSimple, Opens, TakesClosing, TakesFirst, TakesKey,
                  TakesColon, TakesItem, TakesComma, Moved
    <3> QED BY <3>1 DEF WriterInv
  <2> QED BY <1>3, <2>1, <2>2, <2>3, <2>4, ReadMoves
<1>4. CASE UNCHANGED vars
  <2>1. UNCHANGED <<phase, text, damages, levels, roots>>
    BY <1>4 DEF vars, writer
  <2> QED BY <2>1 DEF WriterInv
<1> QED BY <1>1, <1>2, <1>3, <1>4 DEF Next

DocumentInv == MemoryInv /\ TextInv /\ WriterInv

\* Whatever calls are made of the writer, and whichever of them fail, what
\* usbs_json_writer_finish hands out is one JSON value with nothing in more than
\* WriterMaxDepth containers, if one value was written at the top and no object
\* was closed after a key.
THEOREM WritesJson == Spec => []FinishedIsJson
<1>1. Init => DocumentInv
  <2> SUFFICES ASSUME Init PROVE DocumentInv
    OBVIOUS
  <2>1. TextInv
    BY DEF Init, TextInv
  <2>2. \E starts \in [Nat -> Nat] : Written(<<>>, <<>>, starts)
    <3> DEFINE none == [i \in Nat |-> 0]
    <3>1. none \in [Nat -> Nat]
      OBVIOUS
    <3>2. Len(<<>>) = 0 /\ 1..0 = {} /\ 1..(0 - 1) = {} /\ 0 <= WriterMaxDepth
      BY DepthIs
    <3> HIDE DEF none
    <3>3. Written(<<>>, <<>>, none)
      BY <3>2 DEF Written, Opened, Top
    <3> QED BY <3>1, <3>3
  <2>3. SoFar(<<>>, <<>>, 0)
    <3>1. <<>> \in Seq(Tokens) /\ <<>> \in Seq(LevelType) /\ 0 \in Nat
      OBVIOUS
    <3> QED BY <2>2, <3>1, Zenon DEF SoFar
  <2>4. WriterInv
    BY <2>3 DEF Init, WriterInv
  <2> QED BY <2>1, <2>4, InitMemory DEF DocumentInv
<1>2. DocumentInv /\ [Next]_vars => DocumentInv'
  BY MemoryStep, TextStep, WriterStep DEF DocumentInv
<1>3. DocumentInv => FinishedIsJson
  <2> SUFFICES ASSUME WriterInv, phase = "stored", damages = 0, roots = 1, ~DanglingKey
               PROVE  IsJson(text, WriterMaxDepth + 1)
    BY DEF DocumentInv, FinishedIsJson
  <2>1. levels = <<>> /\ text # <<>> /\ SoFar(text, levels, roots)
    BY DEF WriterInv
  <2>2. ~Dangling(text) /\ roots <= 1
    <3>1. ~Dangling(text)
      BY Zenon DEF Dangling, DanglingKey
    <3>2. roots <= 1
      OBVIOUS
    <3> QED BY <3>1, <3>2
  <2>3. PICK starts \in [Nat -> Nat] : Written(text, levels, starts)
    BY <2>1, <2>2, Zenon DEF SoFar
  <2>4. Len(levels) = 0
    BY <2>1
  <2>5. <<1, Len(text)>> \in Values(text, WriterDepth)
    BY <2>1, <2>3, <2>4, Zenon DEF Written, Top
  <2> QED BY <2>1, <2>5, Zenon DEF IsJson, WriterDepth
<1> QED BY <1>1, <1>2, <1>3, PTL DEF Spec
===============================================================================
