--------------------------------- MODULE Json ---------------------------------
(***************************************************************************)
(* The JSON writer and reader (src/core/json.c) on one document: a caller  *)
(* writes it call by call, the file it is stored in may be damaged, and    *)
(* the reader parses what is there, as storage.c does with index.json.     *)
(*                                                                         *)
(* A text is a sequence of tokens without white space: "string" for any    *)
(* well-formed string literal, "scalar" for a number, true, false or null, *)
(* "junk" for anything no token of JSON starts with or that breaks off.    *)
(* Three more are literals that the reader and JSON do not agree on:       *)
(*   "raw string"    a string with control characters in it as they are,   *)
(*                   which JSON does not allow and the reader takes;       *)
(*   "loose number"  01, 1. or -.5, likewise;                              *)
(*   "long number"   a JSON number that does not fit parse_number's 64     *)
(*                   characters, which the reader refuses.                 *)
(* Whether the bytes of a string are UTF-8 is left out on both sides.      *)
(* Memory is a set of blocks; every allocation may fail.                   *)
(***************************************************************************)
EXTENDS Naturals, Sequences, SequencesExt

CONSTANTS
  WriterMaxDepth,  \* USBS_JSON_MAX_DEPTH, 32
  ParseMaxDepth,   \* USBS_JSON_PARSE_MAX_DEPTH, 32
  FirstCapacity,   \* items a container first makes room for, 4
  MaxText,         \* bound: tokens written
  MaxDamages       \* bound: tokens of the stored text changed

ASSUME JsonAssumption ==
  /\ WriterMaxDepth \in Nat \ {0} /\ ParseMaxDepth \in Nat \ {0}
  /\ FirstCapacity \in Nat \ {0}
  /\ MaxText \in Nat /\ MaxDamages \in Nat

Tokens == {"{", "}", "[", "]", ",", ":", "string", "scalar", "junk",
           "raw string", "loose number", "long number"}
Statuses == {"OK", "INTERNAL", "UNSUPPORTED", "NO_MEMORY", "INVALID_ARG"}

VARIABLES
  phase,    \* "writing", "stored", "reading", "over"
  text,     \* the writer's buffer, then the file
  error,    \* the writer's sticky error
  levels,   \* the containers the writer has open
  roots,    \* history: values written outside any container
  damages,
  pc,       \* where the reader is
  pos,      \* the next token
  frames,   \* parse_object and parse_array calls under way
  result,   \* what the last parse_value returned: a status and a value's blocks
  heap,     \* blocks allocated by the reader
  allocs    \* blocks ever allocated

writer == <<error, levels, roots>>
reader == <<pc, pos, frames, result, heap, allocs>>
vars == <<phase, text, damages, writer, reader>>

Nothing == [status |-> "OK", owned |-> {}]

Init ==
  /\ phase = "writing" /\ text = <<>> /\ damages = 0
  /\ error = "OK" /\ levels = <<>> /\ roots = 0
  /\ pc = "value" /\ pos = 1 /\ frames = <<>> /\ result = Nothing
  /\ heap = {} /\ allocs = 0

-----------------------------------------------------------------------------
(* The writer.  A call on a writer that carries an error does nothing.     *)

Level == Last(levels)
WithLevel(level) == Append(Front(levels), level)
Inside(object) == levels # <<>> /\ Level.object = object

Calls == phase = "writing" /\ error = "OK" /\ Len(text) < MaxText

Misuse(status) ==
  /\ error' = status
  /\ UNCHANGED <<phase, text, damages, levels, roots, reader>>

\* writer_raw: the buffer may have to grow
Emit(tokens, opened) ==
  /\ \/ /\ text' = text \o tokens /\ levels' = opened
        /\ UNCHANGED error
     \/ /\ error' = "NO_MEMORY"
        /\ UNCHANGED <<text, levels>>
  /\ UNCHANGED <<phase, damages, reader>>

\* writer_before_value: a member needs its key first
ValueMisplaced == Inside(TRUE) /\ Level.wantKey

Separator ==
  IF Inside(FALSE) /\ Level.needComma THEN <<",">> ELSE <<>>

\* Mutant: a member does not make the next key due.
AfterValueForgets ==
  IF ~Inside(FALSE) THEN levels
  ELSE WithLevel([Level EXCEPT !.needComma = TRUE])

\* writer_after_value
AfterValue ==
  IF levels = <<>> THEN levels
  ELSE IF Inside(TRUE) THEN WithLevel([Level EXCEPT !.wantKey = TRUE])
  ELSE WithLevel([Level EXCEPT !.needComma = TRUE])

Root == roots' = IF levels = <<>> THEN roots + 1 ELSE roots

Scalar(token) ==
  /\ Calls
  /\ \/ ValueMisplaced /\ Misuse("INTERNAL")
     \/ ~ValueMisplaced /\ Root /\ Emit(Append(Separator, token), AfterValue)

Begin(open, object) ==
  /\ Calls
  /\ \/ ValueMisplaced /\ Misuse("INTERNAL")
     \/ /\ ~ValueMisplaced /\ Len(levels) >= WriterMaxDepth
        /\ Misuse("UNSUPPORTED")
     \/ /\ ~ValueMisplaced /\ Len(levels) < WriterMaxDepth
        /\ Root
        /\ Emit(Append(Separator, open),
                Append(AfterValue, [object |-> object, needComma |-> FALSE,
                                    wantKey |-> object]))

BeginObject == Begin("{", TRUE)
BeginArray == Begin("[", FALSE)

End(close, object) ==
  /\ Calls
  /\ \/ ~Inside(object) /\ Misuse("INTERNAL")
     \/ /\ Inside(object)
        /\ Emit(<<close>>, Front(levels))
        /\ UNCHANGED roots

EndObject == End("}", TRUE)
EndArray == End("]", FALSE)

KeyMisplaced == ~(Inside(TRUE) /\ Level.wantKey)

\* usbs_json_writer_key
Key ==
  /\ Calls
  /\ \/ KeyMisplaced /\ Misuse("INTERNAL")
     \/ /\ ~KeyMisplaced
        /\ Emit((IF Level.needComma THEN <<",">> ELSE <<>>) \o <<"string", ":">>,
                WithLevel([Level EXCEPT !.wantKey = FALSE, !.needComma = TRUE]))
        /\ UNCHANGED roots

\* usbs_json_writer_finish
Finish ==
  /\ phase = "writing"
  /\ phase' = IF error = "OK" /\ levels = <<>> /\ text # <<>> THEN "stored" ELSE "over"
  /\ UNCHANGED <<text, damages, writer, reader>>

Write ==
  \/ Scalar("string") \/ Scalar("scalar")
  \/ BeginObject \/ EndObject \/ BeginArray \/ EndArray \/ Key \/ Finish

-----------------------------------------------------------------------------
(* The file: a token lost or replaced, or the end cut off.                 *)

Damage ==
  /\ phase = "stored" /\ damages < MaxDamages
  /\ \E i \in DOMAIN text :
       text' \in {RemoveAt(text, i), SubSeq(text, 1, i)}
                   \cup {[text EXCEPT ![i] = t] : t \in Tokens}
  /\ damages' = damages + 1
  /\ UNCHANGED <<phase, writer, reader>>

-----------------------------------------------------------------------------
(* The reader.  depth is the number of frames: parse_value counts it up    *)
(* before it calls parse_object or parse_array and down afterwards.        *)

\* What parse_string_literal and parse_number make of a token
Lexed(token) ==
  CASE token = "raw string" -> "string"
    [] token = "loose number" -> "scalar"
    [] token = "long number" -> "junk"
    [] OTHER -> token

Peek == IF pos <= Len(text) THEN Lexed(text[pos]) ELSE "end"
Frame == Last(frames)

Reading(where) == phase = "reading" /\ pc = where
AtObject(where) == Reading(where) /\ frames # <<>> /\ Frame.object
AtArray(where) == Reading(where) /\ frames # <<>> /\ ~Frame.object

Outside == UNCHANGED <<phase, text, damages, writer>>
Goto(where) == pc' = where /\ Outside
Skip(where) == pos' = pos + 1 /\ Goto(where)

\* The next n blocks, and an allocation of n that are kept
Fresh(n) == (allocs + 1)..(allocs + n)
Allocate(n) == allocs' = allocs + n /\ heap' = heap \cup Fresh(n)

\* An error is returned after n allocations; what is freed on the way
Fail(status, n, freed) ==
  /\ result' = [status |-> status, owned |-> {}]
  /\ allocs' = allocs + n
  /\ heap' = (heap \cup Fresh(n)) \ freed
  /\ UNCHANGED pos
  /\ Goto("return")

\* The same by parse_object and parse_array, which free their value too
FailFrame(status, n, freed) ==
  /\ frames' = Front(frames)
  /\ Fail(status, n, freed \cup Frame.owned)

\* The closing bracket: the value is returned.
Close ==
  /\ frames' = Front(frames)
  /\ result' = [status |-> "OK", owned |-> Frame.owned]
  /\ UNCHANGED <<heap, allocs>>
  /\ Skip("return")

\* usbs_json_parse
Parse ==
  /\ phase = "stored" /\ phase' = "reading"
  /\ UNCHANGED <<text, damages, writer, reader>>

\* parse_value
ValueTooDeep ==
  /\ Reading("value") /\ Len(frames) >= ParseMaxDepth
  /\ Fail("UNSUPPORTED", 0, {})
  /\ UNCHANGED frames

ValueMay == Reading("value") /\ Len(frames) < ParseMaxDepth

ValueMissing ==
  /\ ValueMay /\ Peek \notin {"{", "[", "string", "scalar"}
  /\ \/ Fail("INVALID_ARG", 0, {})
     \/ /\ Peek = "junk" /\ text[pos] # "long number"   \* a string that breaks off
        /\ Fail("NO_MEMORY", 0, {})
  /\ UNCHANGED frames

Open(token, object) ==
  /\ ValueMay /\ Peek = token
  /\ \/ Fail("NO_MEMORY", 0, {}) /\ UNCHANGED frames
     \/ /\ frames' = Append(frames, [object |-> object, owned |-> Fresh(1),
                                     key |-> {}, count |-> 0, capacity |-> 0])
        /\ Allocate(1) /\ Skip("first")
        /\ UNCHANGED result

\* A scalar is its value; a string is its literal and its value.
Simple(token, n) ==
  /\ ValueMay /\ Peek = token
  /\ \/ \E m \in 0..(n - 1) : Fail("NO_MEMORY", m, Fresh(m))
     \/ /\ result' = [status |-> "OK", owned |-> Fresh(n)]
        /\ Allocate(n) /\ Skip("return")
  /\ UNCHANGED frames

ParseValue ==
  \/ ValueTooDeep \/ ValueMissing
  \/ Open("{", TRUE) \/ Open("[", FALSE)
  \/ Simple("scalar", 1) \/ Simple("string", 2)

\* object_push and array_push: the value returned and its key join the frame,
\* whose items may have to grow.
Push ==
  LET full == Frame.count = Frame.capacity
      first == IF Frame.capacity = 0 THEN 1 ELSE 0
  IN  \/ /\ full
         /\ FailFrame("NO_MEMORY", 0, Frame.key \cup result.owned)
      \/ /\ frames' = Append(Front(frames),
                 [Frame EXCEPT
                    !.owned = @ \cup Frame.key \cup result.owned \cup Fresh(first),
                    !.key = {},
                    !.count = @ + 1,
                    !.capacity = IF ~full THEN @
                                 ELSE IF @ = 0 THEN FirstCapacity ELSE 2 * @])
         /\ result' = Nothing
         /\ Allocate(first) /\ Goto("next")
         /\ UNCHANGED pos

\* parse_object
ObjectFirst ==
  /\ AtObject("first")
  /\ \/ Peek = "}" /\ Close
     \/ Peek # "}" /\ Goto("key") /\ UNCHANGED <<pos, frames, result, heap, allocs>>

ObjectKey ==
  /\ AtObject("key")
  /\ \/ FailFrame("NO_MEMORY", 0, {})
     \/ Peek # "string" /\ FailFrame("INVALID_ARG", 1, Fresh(1))
     \/ /\ Peek = "string"
        /\ frames' = Append(Front(frames), [Frame EXCEPT !.key = Fresh(1)])
        /\ Allocate(1) /\ Skip("colon")
        /\ UNCHANGED result

ObjectColon ==
  /\ AtObject("colon")
  /\ \/ Peek # ":" /\ FailFrame("INVALID_ARG", 0, Frame.key)
     \/ Peek = ":" /\ Skip("value") /\ UNCHANGED <<frames, result, heap, allocs>>

\* Mutant: the key is not freed when its value fails.
ObjectMemberLeaks ==
  /\ AtObject("return")
  /\ \/ result.status # "OK" /\ FailFrame(result.status, 0, {})
     \/ result.status = "OK" /\ Push

ObjectMember ==
  /\ AtObject("return")
  /\ \/ result.status # "OK" /\ FailFrame(result.status, 0, Frame.key)
     \/ result.status = "OK" /\ Push

ObjectNext ==
  /\ AtObject("next")
  /\ \/ Peek = "," /\ Skip("key") /\ UNCHANGED <<frames, result, heap, allocs>>
     \/ Peek = "}" /\ Close
     \/ Peek \notin {",", "}"} /\ FailFrame("INVALID_ARG", 0, {})

\* parse_array
ArrayFirst ==
  /\ AtArray("first")
  /\ \/ Peek = "]" /\ Close
     \/ Peek # "]" /\ Goto("value") /\ UNCHANGED <<pos, frames, result, heap, allocs>>

ArrayElement ==
  /\ AtArray("return")
  /\ \/ result.status # "OK" /\ FailFrame(result.status, 0, {})
     \/ result.status = "OK" /\ Push

\* Mutant: after a comma the array may end.
ArrayNextTrailing ==
  /\ AtArray("next")
  /\ \/ Peek = "," /\ Skip("first") /\ UNCHANGED <<frames, result, heap, allocs>>
     \/ Peek = "]" /\ Close
     \/ Peek \notin {",", "]"} /\ FailFrame("INVALID_ARG", 0, {})

ArrayNext ==
  /\ AtArray("next")
  /\ \/ Peek = "," /\ Skip("value") /\ UNCHANGED <<frames, result, heap, allocs>>
     \/ Peek = "]" /\ Close
     \/ Peek \notin {",", "]"} /\ FailFrame("INVALID_ARG", 0, {})

\* usbs_json_parse once parse_value has returned: nothing may follow.
ParseEnds ==
  /\ Reading("return") /\ frames = <<>>
  /\ phase' = "over"
  /\ IF result.status = "OK" /\ Peek # "end"
       THEN /\ result' = [status |-> "INVALID_ARG", owned |-> {}]
            /\ heap' = heap \ result.owned
       ELSE UNCHANGED <<result, heap>>
  /\ UNCHANGED <<text, damages, writer, pc, pos, frames, allocs>>

Read ==
  \/ Parse \/ ParseValue \/ ParseEnds
  \/ ObjectFirst \/ ObjectKey \/ ObjectColon \/ ObjectMember \/ ObjectNext
  \/ ArrayFirst \/ ArrayElement \/ ArrayNext

Next == Write \/ Damage \/ Read

Spec == Init /\ [][Next]_vars

-----------------------------------------------------------------------------
(* Properties.  The grammar of JSON, as sets of spans of a text: <<i, j>>  *)
(* is a value if the tokens from i to j are one.                           *)

Spans(t) == {s \in (DOMAIN t) \X (DOMAIN t) : s[1] <= s[2]}

\* One item, or one and a comma before a list
Longer(t, items, lists) ==
  items \cup {<<p[1][1], p[2][2]>> :
                p \in {p \in items \X lists : p[2][1] = p[1][2] + 2 /\ t[p[1][2] + 1] = ","}}

Lists(t, items) ==
  LET list[n \in 0..Len(t)] == IF n = 0 THEN items ELSE Longer(t, items, list[n - 1])
  IN  list[Len(t)]

Members(t, values) ==
  {<<s[1] - 2, s[2]>> :
     s \in {s \in values : s[1] > 2 /\ t[s[1] - 1] = ":" /\ t[s[1] - 2] = "string"}}

Bracketed(t, open, lists, close) ==
  {s \in Spans(t) :
     /\ t[s[1]] = open /\ t[s[2]] = close
     /\ s[2] = s[1] + 1 \/ <<s[1] + 1, s[2] - 1>> \in lists}

\* Values, given those one level further in
Nested(t, inner) ==
  {s \in Spans(t) : s[1] = s[2] /\ t[s[1]] \in {"string", "scalar"}}
    \cup Bracketed(t, "{", Lists(t, Members(t, inner)), "}")
    \cup Bracketed(t, "[", Lists(t, inner), "]")

\* The values that lie in less than depth containers
Values(t, depth) ==
  LET values[d \in 0..depth] == IF d = 0 THEN {} ELSE Nested(t, values[d - 1])
  IN  values[depth]

IsJson(t, depth) == t # <<>> /\ <<1, Len(t)>> \in Values(t, depth)

\* The only misuse of the writer that goes unnoticed is a second value outside
\* any container and an object closed between a key and its value; whatever
\* else usbs_json_writer_finish hands out is JSON.
DanglingKey == \E i \in 1..(Len(text) - 1) : text[i] = ":" /\ text[i + 1] = "}"

FinishedIsJson ==
  phase = "stored" /\ damages = 0 /\ roots = 1 /\ ~DanglingKey =>
    IsJson(text, WriterMaxDepth + 1)

\* The text as the reader takes its literals
AsRead == [i \in DOMAIN text |-> Lexed(text[i])]

\* "On failure (malformed JSON, depth exceeded, allocation failure) returns a
\* non-OK status" (json.h), but for three literals: with a string of raw control
\* characters taken for a string, 01, 1. and -.5 for numbers, and a number of 64
\* characters or more for none, the reader accepts a text exactly if it is JSON of
\* the depth allowed and there is memory for it.  In particular it does so, to
\* the letter, for a text without such literals.
ReaderExact ==
  phase = "over" /\ pc = "return" =>
    /\ result.status = "OK" => IsJson(AsRead, ParseMaxDepth)
    /\ result.status \in {"INVALID_ARG", "UNSUPPORTED"} => ~IsJson(AsRead, ParseMaxDepth)

\* The blocks allocated are those of the values under construction, each owned
\* once; when usbs_json_parse returns, those of the value it returns: on no
\* failing path is one leaked or freed twice.
Owners ==
  {<<0, result.owned>>}
    \cup {<<i, frames[i].owned>> : i \in DOMAIN frames}
    \cup {<<Len(frames) + i, frames[i].key>> : i \in DOMAIN frames}

NoLeak ==
  /\ heap = UNION {o[2] : o \in Owners}
  /\ \A o, p \in Owners : o # p => o[2] \cap p[2] = {}
===============================================================================
