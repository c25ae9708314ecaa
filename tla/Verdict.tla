------------------------------- MODULE Verdict -------------------------------
(***************************************************************************)
(* What the user is told of a scan: the report (src/reporting/report.c)    *)
(* and the verdicts drawn from it by the window (src/gui/gui_report_view.c)*)
(* and by the web page (src/gui_web/assets/index.html), over a volume      *)
(* whose files are what FileRules describes.                               *)
(***************************************************************************)
EXTENDS Scanner, FileRules

CONSTANTS
  Facts,       \* [Files -> what FileRules knows of a file]
  Exposed,     \* reference: files in places where users open files
  Components   \* reference: files of Windows' component store

ASSUME FactsAssumption ==
  /\ \A f \in Files : Facts[f].traits \subseteq Traits /\ Facts[f].content \in Contents
  /\ Exposed \subseteq Files /\ Components \subseteq Files

\* The rules, given to Scanner as what its slots report.
Rule(d, f, how) == Report(d, Facts[f], PolicyApplies, how)

\* registry.c: the detectors that see each file, and a fixed number of others.
ASSUME RegistryAssumption ==
  /\ FileDetectors = {"suspicious_filename", "lnk_inspection", "hash_match_example"}
  /\ \A d \in FileDetectors, f \in Files, how \in Ways : Says(d, f, how) = Rule(d, f, how)
  /\ IsFiniteSet(WholeDetectors)

-----------------------------------------------------------------------------
(* The report and what is made of it.                                      *)

CheckCount(st) == Cardinality({c \in DOMAIN checks : checks[c].status = st})
Shown == {x \in UNION {checks[c].findings : c \in DOMAIN checks} : x[2] # "suppressed"}
Shows(severity) == \E x \in Shown : x[2] = severity

\* Mutant: a failed check is overlooked.
GuiVerdictNoFailed ==
  IF status = "none" THEN "incomplete"
  ELSE IF Shows("high") THEN "threat"
  ELSE IF Shows("warning") THEN "suspicious"
  ELSE IF status # "COMPLETED" \/ CheckCount("skipped") > 0 THEN "incomplete"
  ELSE "clean"

\* gui_report_summarize: severity outranks completeness.
GuiVerdict ==
  IF status = "none" THEN "incomplete"
  ELSE IF Shows("high") THEN "threat"
  ELSE IF Shows("warning") THEN "suspicious"
  ELSE IF status # "COMPLETED" \/ CheckCount("skipped") > 0 \/ CheckCount("failed") > 0
    THEN "incomplete"
  ELSE "clean"

\* usbs_report_build_json: what the page has to go by.
JsonReport ==
  [status |-> status, findings |-> Shown,
   checks_skipped |-> CheckCount("skipped"), checks_failed |-> CheckCount("failed")]

\* summarize(report), in the page
PageVerdict ==
  LET r == JsonReport
      counts(severity) == \E x \in r.findings : x[2] = severity
  IN  IF counts("high") THEN "threat"
      ELSE IF counts("warning") THEN "suspicious"
      ELSE IF r.status = "COMPLETED" /\ r.checks_skipped = 0
              /\ r.checks_failed = 0
        THEN "clean"
      ELSE "incomplete"

\* usbs_cmd_scan: the exit status "just tells scripts it did not run to completion".
CliExit == IF status = "COMPLETED" THEN "OK" ELSE "IO"

-----------------------------------------------------------------------------
(* Properties.                                                             *)

\* "ALL CLEAR", in the window or on the page, is earned: both say it, every
\* registered check ran, and of a file the scan could read each match of the
\* strict rules was found to be worth a note at most, or is one that the policy
\* lowers or leaves out on an internal drive, and then it is in the counts
\* ("every suppression is counted and reported").  The exception to "every check
\* must have run" (gui_report_view.h): when there was no memory for the slots the
\* on_file detectors never ran, are in no count, and the verdict is clean still.
ClearIsEarned ==
  status # "none" /\ "clean" \in {GuiVerdict, PageVerdict} =>
    /\ GuiVerdict = PageVerdict /\ CliExit = "OK"
    /\ {c \in DOMAIN checks : checks[c].status = "ran"} =
         CheckIds \ (IF DOMAIN slots = {} THEN FileDetectors ELSE {})
    /\ \A d \in DOMAIN slots, f \in seen \cap Undisturbed :
         \/ Report(d, Facts[f], FALSE, "whole") \subseteq {"info"}
         \/ /\ PolicyApplies
            /\ \E x \in checks[d].findings : x[1] = f /\ x[2] \in {"info", "suppressed"}

\* What has no benign producer, by ARCHITECTURE.md 24.2 and 24.3: the three
\* strict name rules and a known hash anywhere, the attack shape outside the
\* component store, and every disguise and interpreter where users open files.
Threat(f) ==
  LET facts == Facts[f]
      shortcut == Last(facts) = "lnk"
  IN  \/ HighRule(facts) \/ "listed" \in facts.traits
      \/ shortcut /\ facts.content = "attack" /\ f \notin Components
      \/ f \in Exposed /\ DoubleExtension(facts)
      \/ f \in Exposed /\ shortcut /\ facts.content \in {"interpreter", "marker"}

\* A threat among the files a completed scan could read is what both verdicts
\* say, wherever on which drive it is and whatever went wrong with other checks
\* meanwhile, provided there was memory for the on_file slots.
ThreatIsLoud ==
  /\ status = "COMPLETED" /\ DOMAIN slots # {}
  /\ \E f \in seen \cap Undisturbed : Threat(f)
  => GuiVerdict = "threat" /\ PageVerdict = "threat"
=============================================================================
