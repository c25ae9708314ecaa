------------------------------ MODULE FileRules ------------------------------
(***************************************************************************)
(* What the detectors say of one file, and how the internal-drive location *)
(* policy weighs it: src/core/location.c, src/detectors/                   *)
(* suspicious_filename.c and src/detectors/lnk_inspect.c.                  *)
(*                                                                         *)
(* A name is the sequence of its parts between dots, in lower case: "A.b"  *)
(* is <<"a", "b">>, ".b" is <<"", "b">>.  A path is the sequence of names  *)
(* below the volume's root.  A file has a path, traits (what its name or   *)
(* its directory entry shows), and a shortcut's content, which parse_lnk   *)
(* and the two keyword tables reduce to one of Contents.                   *)
(***************************************************************************)
EXTENDS Naturals, Sequences

CONSTANTS
  OneDriveNames, \* names that begin with "OneDrive"
  ScratchNames   \* names is_self_test_scratch_name accepts

Traits == {"hidden", "bidi", "padded", "listed"}  \* "listed": its hash is
Contents == {"oversized", "malformed", "plain", "interpreter", "marker", "attack"}

-----------------------------------------------------------------------------
(* Where a file is: usbs_location_classify.                                *)

Name(part) == <<part>>
SeqAt(path, at, parts) ==
  /\ at + Len(parts) - 1 <= Len(path)
  /\ \A i \in DOMAIN parts : path[at + i - 1] = Name(parts[i])
IsAt(path, at, parts) == at \in DOMAIN path /\ path[at] \in {Name(p) : p \in parts}

StartMenu == <<"microsoft", "windows", "start menu">>
Startup == StartMenu \o <<"programs", "startup">>
Roaming == <<"appdata", "roaming">>
InUsers(path) == Len(path) >= 2 /\ path[1] = Name("users")

SelfTestFixtures(path) ==
  \E b, i \in DOMAIN path :
    /\ b <= i /\ path[b] = Name("build")
    /\ IsAt(path, i - 1, {"tests"}) /\ path[i] \in ScratchNames

UserExposed(path) ==
  \/ SeqAt(path, 1, <<"programdata">> \o Startup)
  \/ /\ InUsers(path)
     /\ \/ IsAt(path, 3, {"desktop", "downloads"})
        \/ 3 \in DOMAIN path /\ path[3] \in OneDriveNames
           /\ IsAt(path, 4, {"desktop", "downloads"})
        \/ SeqAt(path, 3, Roaming \o Startup)
        \/ SeqAt(path, 3, <<"appdata", "local", "temp">>)

DependencyTree(path) ==
  \E i \in DOMAIN path :
    \/ IsAt(path, i, {"node_modules", "site-packages"})
    \/ path[i] \in {<<"", "gradle">>, <<"", "m2">>}
    \/ /\ IsAt(path, i, {"intermediates"})
       /\ \E j \in {i - 1, i - 2} : IsAt(path, j, {"build"})

\* The last name is the file's, never the directory "Recent".
RecentItems(path) ==
  /\ InUsers(path) /\ SeqAt(path, 3, Roaming)
  /\ \E i \in 5 .. Len(path) - 1 : IsAt(path, i, {"recent"})

OsShortcuts(path) ==
  \/ SeqAt(path, 1, <<"programdata">> \o StartMenu)
  \/ InUsers(path) /\ SeqAt(path, 3, Roaming \o StartMenu)

\* Mutant: the Start Menu is looked for before the user-facing places.
ClassifyStartMenuFirst(path) ==
  IF SelfTestFixtures(path) THEN "self-test fixtures"
  ELSE IF OsShortcuts(path) THEN "OS shortcuts"
  ELSE IF UserExposed(path) THEN "user-exposed"
  ELSE IF DependencyTree(path) THEN "dependency tree"
  ELSE IF RecentItems(path) THEN "recent items"
  ELSE IF SeqAt(path, 1, <<"windows", "winsxs">>) THEN "component store"
  ELSE "ordinary"

\* The rules in their order: the first that matches wins.
Classify(path) ==
  IF SelfTestFixtures(path) THEN "self-test fixtures"
  ELSE IF UserExposed(path) THEN "user-exposed"
  ELSE IF DependencyTree(path) THEN "dependency tree"
  ELSE IF RecentItems(path) THEN "recent items"
  ELSE IF SeqAt(path, 1, <<"windows", "winsxs">>) THEN "component store"
  ELSE IF OsShortcuts(path) THEN "OS shortcuts"
  ELSE "ordinary"

-----------------------------------------------------------------------------
(* Its name: suspicious_filename_on_file, which opens nothing.             *)

Executable == {"exe", "scr", "bat", "cmd", "com", "pif", "vbs", "vbe", "js", "jse",
               "wsf", "wsh", "msi", "ps1", "lnk", "hta", "jar", "cpl", "msc", "reg"}
NativeBinary == {"exe", "scr", "com", "pif", "cpl", "msi"}
Document == {"pdf", "doc", "docx", "xls", "xlsx", "ppt", "pptx", "txt", "rtf", "csv",
             "jpg", "jpeg", "png", "gif", "bmp", "mp3", "mp4", "avi", "mov",
             "zip", "rar", "7z"}

FileName(f) == f.path[Len(f.path)]
\* nth_extension_from_end: a leading dot counts.
Extension(name, n) == IF n < Len(name) THEN name[Len(name) - n + 1] ELSE "no extension"
Last(f) == Extension(FileName(f), 1)

DoubleExtension(f) ==
  Last(f) \in Executable /\ Extension(FileName(f), 2) \in Document

\* weigh_double_extension
Weigh(kind, ext) ==
  CASE kind = "user-exposed" -> "high"
    [] kind = "recent items" -> IF ext = "lnk" THEN "suppressed" ELSE "warning"
    [] kind = "dependency tree" -> IF ext \in NativeBinary THEN "warning" ELSE "info"
    [] OTHER -> "warning"

\* The three rules that have no benign producer anywhere.
HighRule(f) ==
  \/ "bidi" \in f.traits
  \/ Last(f) \in Executable /\ f.traits \cap {"padded", "hidden"} # {}

NameReport(f, tuned) ==
  IF HighRule(f) THEN {"high"}
  ELSE IF ~DoubleExtension(f) THEN {}
  ELSE {IF tuned THEN Weigh(Classify(f.path), Last(f)) ELSE "high"}

-----------------------------------------------------------------------------
(* Its content: lnk_on_file and hash_match_on_file.  how is "whole",       *)
(* "breaks" (a read fails) or "unopened".                                  *)

LnkPolicy(f, tuned) ==
  CASE tuned /\ Classify(f.path) = "OS shortcuts" -> "attack shape"
    [] tuned /\ Classify(f.path) = "component store" -> "suppress all"
    [] OTHER -> "none"

\* The size is known from the listing.  What is left of a content whose
\* reading breaks off does not parse.
LnkSees(f, how) ==
  IF f.content = "oversized" \/ how = "whole" THEN {f.content}
  ELSE IF how = "breaks" THEN {"malformed"} ELSE {}

LnkSeverity(content, policy) ==
  CASE content = "plain" -> {}
    [] content \in {"oversized", "malformed"} ->
         {IF policy = "none" THEN "warning" ELSE "suppressed"}
    [] content \in {"interpreter", "marker"} ->
         {IF policy = "none" THEN "high" ELSE "suppressed"}
    [] content = "attack" ->
         {IF policy = "suppress all" THEN "suppressed" ELSE "high"}

LnkReport(f, tuned, how) ==
  IF Last(f) # "lnk" THEN {}
  ELSE UNION {LnkSeverity(c, LnkPolicy(f, tuned)) : c \in LnkSees(f, how)}

HashReport(f, how) == IF how = "whole" /\ "listed" \in f.traits THEN {"high"} ELSE {}

\* What registered detector d reports of f: registry.c.
Report(d, f, tuned, how) ==
  CASE d = "suspicious_filename" -> NameReport(f, tuned)
    [] d = "lnk_inspection" -> LnkReport(f, tuned, how)
    [] d = "hash_match_example" -> HashReport(f, how)
=============================================================================
