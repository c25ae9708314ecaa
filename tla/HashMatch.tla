------------------------------- MODULE HashMatch -------------------------------
(***************************************************************************)
(* The hash detector (src/detectors/hash_match.c) and its signature list   *)
(* (src/detectors/signature_list.c) in a process that scans more than once:*)
(* the list is loaded at the first file of the first scan and kept.        *)
(*                                                                         *)
(* A signature is a pair of a size and a digest; its name, and how a line  *)
(* is told to be well formed, are left out.  The user may edit the file at *)
(* any time, and a scanned file may change between listing and reading.    *)
(***************************************************************************)
EXTENDS Naturals, Sequences, SequencesExt

CONSTANTS
  Sizes,      \* sizes of files
  Digests,    \* SHA-256 digests
  Partial,    \* the digest of a file that could not be read to its end
  Fallback,   \* k_fallback_entry
  MaxSize,    \* HASH_MATCH_MAX_FILE_SIZE
  MaxLines,   \* bound: lines of the signature file
  MaxEdits    \* bound: times the user changes it

Signatures == Sizes \X Digests

ASSUME HashMatchAssumption ==
  /\ Sizes \subseteq Nat /\ MaxSize \in Nat
  /\ Partial \notin Digests /\ Fallback \in Signatures
  /\ MaxLines \in Nat /\ MaxEdits \in Nat

Malformed == <<>>   \* or blank, or a comment: a line that is skipped
Lines == Signatures \cup {Malformed}

VARIABLES
  source,     \* the signature file
  attempted,  \* g_load_attempted
  loaded,     \* g_loaded_from_file
  entries,    \* g_signatures
  kept,       \* history: the signatures that were read, in the order of the file
  pc,
  size,       \* of the file at hand, as it was listed
  digest,     \* what was read of it hashes to this
  findings,   \* of this scan
  edits

list == <<attempted, loaded, entries, kept>>
vars == <<source, list, pc, size, digest, findings, edits>>

File(lines) == [state |-> "readable", lines |-> lines]
NoFile(state) == [state |-> state, lines |-> <<>>]

Init ==
  /\ source \in {NoFile("missing"), NoFile("unreadable")}
                 \cup {File(lines) : lines \in BoundedSeq(Lines, MaxLines)}
  /\ attempted = FALSE /\ loaded = FALSE /\ entries = <<>> /\ kept = <<>>
  /\ pc = "idle" /\ size = 0 /\ digest = Partial
  /\ findings = {} /\ edits = 0

\* The user deletes the file, creates it, or removes or adds a line.
Edit ==
  /\ edits < MaxEdits /\ edits' = edits + 1
  /\ source' \in {NoFile("missing")}
       \cup {File(RemoveAt(source.lines, i)) : i \in DOMAIN source.lines}
       \cup {File(Append(source.lines, line)) : line \in Lines}
  /\ UNCHANGED <<list, pc, size, digest, findings>>

\* A new scan has a result of its own; the list stays.
BeginScan ==
  /\ pc = "idle" /\ findings # {} /\ findings' = {}
  /\ UNCHANGED <<source, list, pc, size, digest, edits>>

-----------------------------------------------------------------------------
(* The signature list                                                      *)

SortedBySize(s) == \A i, j \in DOMAIN s : i < j => s[i][1] <= s[j][1]

\* usbs_signature_list_load keeps the well-formed lines, or those before the
\* limit on what is read or before memory ran out; qsort is not stable.
Valid(lines) ==
  LET valid[n \in 0..Len(lines)] ==
        IF n = 0 THEN <<>>
        ELSE IF lines[n] = Malformed THEN valid[n - 1]
        ELSE Append(valid[n - 1], lines[n])
  IN  valid[Len(lines)]

Permuted(s) ==
  {[i \in DOMAIN s |-> s[p[i]]] :
     p \in {p \in [DOMAIN s -> DOMAIN s] : \A i, j \in DOMAIN s : p[i] = p[j] => i = j}}

Sorted(s) == {t \in Permuted(s) : SortedBySize(t)}

\* ensure_signatures_loaded
Load ==
  /\ attempted' = TRUE
  /\ \/ /\ source.state # "readable"
        /\ UNCHANGED <<loaded, entries, kept>>
     \/ /\ source.state = "readable"
        /\ \E n \in 0..Len(Valid(source.lines)) :
             /\ kept' = SubSeq(Valid(source.lines), 1, n)
             /\ entries' \in Sorted(kept')
             /\ loaded' = (n > 0)

\* lower_bound_by_size, on indices from 1; a range is <<lo, hi>>
LowerBound(s, x) ==
  LET Bounds == 1..(Len(s) + 1)
      search[range \in Bounds \X Bounds] ==
        LET lo  == range[1]
            hi  == range[2]
            mid == lo + (hi - lo) \div 2
        IN  IF lo >= hi THEN lo
            ELSE IF s[mid][1] < x THEN search[<<mid + 1, hi>>] ELSE search[<<lo, mid>>]
  IN  search[<<1, Len(s) + 1>>]

\* usbs_signature_list_has_size
HasSize(s, x) ==
  LET lo == LowerBound(s, x) IN lo <= Len(s) /\ s[lo][1] = x

\* Mutant: only the first entry of the size is compared.
LookupFirst(s, x, d) ==
  HasSize(s, x) /\ s[LowerBound(s, x)][2] = d

\* The run of entries of one size, up to the first entry of another one
Lookup(s, x, d) ==
  \E i \in LowerBound(s, x)..Len(s) :
    /\ \A j \in LowerBound(s, x)..i : s[j][1] = x
    /\ s[i][2] = d

-----------------------------------------------------------------------------
(* hash_match_on_file                                                      *)

Done == pc' = "idle" /\ UNCHANGED <<source, list, size, digest, findings, edits>>

\* The walk comes to a file: the disclaimer needs the list.
OnFile ==
  /\ pc = "idle" /\ pc' = "sized"
  /\ size' \in Sizes
  /\ IF attempted THEN UNCHANGED list ELSE Load
  /\ UNCHANGED <<source, digest, findings, edits>>

MayMatch == IF loaded THEN HasSize(entries, size) ELSE size = Fallback[1]

\* A file is passed over for its size ...
TooLarge == pc = "sized" /\ size > MaxSize /\ Done

SizeUnknown == pc = "sized" /\ size <= MaxSize /\ ~MayMatch /\ Done

\* The open, the hash context or the read buffer fails: the file is passed over.
NotRead == pc = "sized" /\ size <= MaxSize /\ MayMatch /\ Done

\* The file is read to its end, or to the first read that fails; its content
\* is what it is now, whatever its size was when it was listed.
ReadFile ==
  /\ pc = "sized" /\ size <= MaxSize /\ MayMatch
  /\ pc' = "hashed"
  /\ digest' \in Digests \cup {Partial}
  /\ UNCHANGED <<source, list, size, findings, edits>>

\* usbs_platform_hash_finish fails
NotHashed == pc = "hashed" /\ Done

\* usbs_hash_match_lookup
Listed ==
  IF loaded THEN Lookup(entries, size, digest)
  ELSE <<size, digest>> = Fallback

Match ==
  /\ pc = "hashed" /\ pc' = "idle"
  /\ \/ Listed /\ findings' = findings \cup {<<size, digest>>}
     \/ UNCHANGED findings   \* not listed, or no memory for the finding
  /\ UNCHANGED <<source, list, size, digest, edits>>

Next ==
  \/ Edit \/ BeginScan
  \/ OnFile \/ TooLarge \/ SizeUnknown \/ NotRead \/ ReadFile \/ NotHashed \/ Match

Spec == Init /\ [][Next]_vars

-----------------------------------------------------------------------------
(* Properties                                                              *)

\* What a scan looks for: the signatures of the file that was loaded, or the
\* one built in when there were none.
Wanted == IF kept = <<>> THEN {Fallback} ELSE ToSet(kept)

\* "the size-then-hash ordering" misses nothing that is looked at: a file of at
\* most HASH_MATCH_MAX_FILE_SIZE (MaxSize) is passed over for its size only if no
\* signature in the list has that size, a file that was read is a finding exactly
\* if its size and digest are a signature's, and a finding of a file that could
\* not be read to its end is impossible; sorting, duplicates and malformed lines
\* change none of it.  A larger file is never looked at, whatever the list says,
\* and the list is the one loaded, however old it is by now.
MatchesExact ==
  /\ \A f \in findings : f \in Wanted
  /\ pc = "sized" /\ size <= MaxSize /\ ~MayMatch =>
       \A w \in Wanted : w[1] # size
  /\ pc = "hashed" => (Listed <=> <<size, digest>> \in Wanted)
===============================================================================
