----------------------------- MODULE MCScanner -----------------------------
(***************************************************************************)
(* A small volume for Scanner and Verdict.  Its root lists autorun.inf, a  *)
(* link, a file whose path is too long and three directories: packages, a  *)
(* scratch directory of the project's own tests, and the Start Menu with   *)
(* its Startup folder, below which a directory is one level too deep.  A   *)
(* directory here stands for a chain of directories that list only the     *)
(* next: Place is its path.                                                *)
(***************************************************************************)
EXTENDS Verdict

MCOneDriveNames == {<<"onedrive">>, <<"onedrive - work">>}
MCScratchNames == {<<"test_scan_scratch_00ab12cd">>}

MCDirs  == {"root", "packages", "scratch", "menu", "startup", "deep"}
MCLinks == {"link"}
MCChildren ==
  [root     |-> {"autorun", "packages", "scratch", "menu"},
   packages |-> {"script", "setup", "link", "longname"},
   scratch  |-> {"planted"},
   menu     |-> {"prompt", "startup"},
   startup  |-> {"agent", "deep"},
   deep     |-> {"inner"}]

Below(path, parts) == path \o [i \in DOMAIN parts |-> Name(parts[i])]
Place ==
  [root     |-> <<>>,
   packages |-> Below(<<>>, <<"work", "node_modules">>),
   scratch  |-> Below(<<>>, <<"build", "debug", "tests">>) \o <<<<"test_scan_scratch_00ab12cd">>>>,
   menu     |-> Below(<<>>, <<"users", "u">> \o Roaming \o StartMenu),
   startup  |-> Below(<<>>, <<"users", "u">> \o Roaming \o Startup),
   deep     |-> Below(<<>>, <<"users", "u">> \o Roaming \o Startup \o <<"deep">>)]

MCFiles == {"autorun", "longname", "script", "setup", "planted", "prompt", "agent", "inner"}
FactsOf(dir, name, content) ==
  [path |-> Append(Place[dir], name), traits |-> {}, content |-> content]
MCFacts ==
  [autorun  |-> FactsOf("root", <<"autorun", "inf">>, "plain"),
   longname |-> FactsOf("packages", <<"long", "pdf", "exe">>, "plain"),
   script   |-> FactsOf("packages", <<"iterator", "zip", "js">>, "plain"),
   setup    |-> FactsOf("packages", <<"setup", "lnk">>, "plain"),
   planted  |-> FactsOf("scratch", <<"planted", "lnk">>, "attack"),
   prompt   |-> FactsOf("menu", <<"prompt", "lnk">>, "interpreter"),
   agent    |-> FactsOf("startup", <<"agent", "lnk">>, "interpreter"),
   inner    |-> FactsOf("deep", <<"inner", "pdf", "exe">>, "plain")]
MCExposed == {"agent", "inner"}

MCFixture(d) == Classify(Place[d]) = "self-test fixtures"
MCAutorun  == {<<"autorun", "info">>}
=============================================================================
