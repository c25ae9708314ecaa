--------------------------- MODULE SingleInstance ---------------------------
(***************************************************************************)
(* The single-instance lock of the web GUI (src/app_gui_web/main.c): every *)
(* launch tries flock on one lock file; the one that gets it serves, and   *)
(* leaves its address in the file for the others to open a browser on.     *)
(*                                                                         *)
(* A flock belongs to the open file description, which a forked child      *)
(* shares: neither the lock file nor the listening socket is opened        *)
(* close-on-exec, so the browser that launch_browser starts has both.      *)
(***************************************************************************)
EXTENDS Naturals

CONSTANTS
  Launches,      \* times the program is started
  None,
  Faults         \* which of a launch's steps may fail

Steps == {"open", "prepare", "listen", "truncate", "write", "create"}

ASSUME SingleInstanceAssumption ==
  /\ None \notin Launches
  /\ Faults \subseteq Steps

VARIABLES
  pc,        \* per launch: where main is
  owner,     \* the launch whose open file description has the lock
  keepers,   \* per launch: the processes that have its description open
  line,      \* the address in the lock file, by launch; None: no such line
  address,   \* per launch refused: the address it found
  served,    \* history: launches whose socket has been listening
  lapses     \* history: steps that failed and were passed over

vars == <<pc, owner, keepers, line, address, served, lapses>>

\* Between getting the lock (or doing without) and the end of main.
Running == {p \in Launches : pc[p] \in Steps \cup {"browser", "serve"} /\ pc[p] # "open"}

Init ==
  /\ pc = [p \in Launches |-> "open"]
  /\ owner = None
  /\ keepers = [p \in Launches |-> {}]
  /\ line = None
  /\ address = [p \in Launches |-> None]
  /\ served = {} /\ lapses = {}

Goto(p, where) == pc' = [pc EXCEPT ![p] = where]

\* A process of launch p ends, whatever way; the last one that has the
\* description open takes the lock with it.
Leaves(p, process) ==
  /\ keepers' = [keepers EXCEPT ![p] = @ \ {process}]
  /\ owner' = IF owner = p /\ keepers'[p] = {} THEN None ELSE owner

-----------------------------------------------------------------------------
\* Mutant: the file is locked by each description anew, never refused.
TakeLockAlways(p) ==
  /\ pc[p] = "open"
  /\ owner' = p
  /\ keepers' = [keepers EXCEPT ![p] = {"server"}]
  /\ Goto(p, "prepare")
  /\ UNCHANGED <<line, address, served, lapses>>

\* acquire_single_instance_lock: the lock is free, and taken.
TakeLock(p) ==
  /\ pc[p] = "open" /\ owner = None
  /\ owner' = p
  /\ keepers' = [keepers EXCEPT ![p] = {"server"}]
  /\ Goto(p, "prepare")
  /\ UNCHANGED <<line, address, served, lapses>>

\* The lock file cannot be opened: the launch goes on as if it had the lock.
GoWithout(p) ==
  /\ pc[p] = "open" /\ "open" \in Faults
  /\ lapses' = lapses \cup {"open"}
  /\ Goto(p, "prepare")
  /\ UNCHANGED <<owner, keepers, line, address, served>>

\* The lock is taken: the description is closed again ...
Refused(p) ==
  /\ pc[p] = "open" /\ owner # None
  /\ Goto(p, "read")
  /\ UNCHANGED <<owner, keepers, line, address, served, lapses>>

\* ... and the line read, for a browser to be opened on if there is one.
ReadLine(p) ==
  /\ pc[p] = "read"
  /\ address' = [address EXCEPT ![p] = line]
  /\ Goto(p, "ended")
  /\ UNCHANGED <<owner, keepers, line, served, lapses>>

\* generate_token and usbs_store_open.
Prepare(p) ==
  /\ pc[p] = "prepare"
  /\ Goto(p, "listen")
  /\ UNCHANGED <<owner, keepers, line, address, served, lapses>>

\* http_server_start.
Listen(p) ==
  /\ pc[p] = "listen"
  /\ served' = served \cup {p}
  /\ Goto(p, "truncate")
  /\ UNCHANGED <<owner, keepers, line, address, lapses>>

\* Mutant: the old line stays until fclose replaces it.
TruncateNot(p) ==
  /\ pc[p] = "truncate"
  /\ Goto(p, "write")
  /\ UNCHANGED <<line, owner, keepers, address, served, lapses>>

\* write_lock_file_contents: fopen empties the file, which is best effort ...
Truncate(p) ==
  /\ pc[p] = "truncate"
  /\ \/ line' = None /\ Goto(p, "write") /\ UNCHANGED lapses
     \/ /\ "truncate" \in Faults
        /\ lapses' = lapses \cup {"truncate"}
        /\ Goto(p, "create") /\ UNCHANGED line
  /\ UNCHANGED <<owner, keepers, address, served>>

\* ... and fclose writes the line out.
WriteLine(p) ==
  /\ pc[p] = "write"
  /\ \/ line' = p
     \/ "write" \in Faults /\ UNCHANGED line
  /\ Goto(p, "create")
  /\ UNCHANGED <<owner, keepers, address, served, lapses>>

\* gui_web_app_create.
Create(p) ==
  /\ pc[p] = "create"
  /\ Goto(p, "browser")
  /\ UNCHANGED <<owner, keepers, line, address, served, lapses>>

\* launch_browser forks, and the child has every descriptor.
LaunchBrowser(p) ==
  /\ pc[p] = "browser"
  /\ keepers' = IF keepers[p] # {}
                  THEN [keepers EXCEPT ![p] = @ \cup {"browser"}] ELSE keepers
  /\ Goto(p, "serve")
  /\ UNCHANGED <<owner, line, address, served, lapses>>

\* main returns: after serving, or at a step that failed.
Exit(p) ==
  /\ pc[p] = "serve" \/ pc[p] \in Faults \cap {"prepare", "listen", "create"}
  /\ Leaves(p, "server")
  /\ Goto(p, "ended")
  /\ UNCHANGED <<line, address, served, lapses>>

\* The process is killed.
Crash(p) ==
  /\ p \in Running
  /\ Leaves(p, "server")
  /\ Goto(p, "ended")
  /\ UNCHANGED <<line, address, served, lapses>>

\* The user closes the browser.
BrowserEnds(p) ==
  /\ "browser" \in keepers[p]
  /\ Leaves(p, "browser")
  /\ UNCHANGED <<pc, line, address, served, lapses>>

Acquire(p) == TakeLock(p) \/ GoWithout(p) \/ Refused(p) \/ ReadLine(p)
Start(p) == Prepare(p) \/ Listen(p) \/ Truncate(p) \/ WriteLine(p) \/ Create(p)
              \/ LaunchBrowser(p)
End(p) == Exit(p) \/ Crash(p) \/ BrowserEnds(p)

Next == \E p \in Launches : Acquire(p) \/ Start(p) \/ End(p)

Spec == Init /\ [][Next]_vars

-----------------------------------------------------------------------------
(* Properties.                                                             *)

\* The lock is that of a description somebody has open.
TypeOK ==
  /\ pc \in [Launches -> Steps \cup {"read", "browser", "serve", "ended"}]
  /\ owner \in Launches \cup {None}
  /\ keepers \in [Launches -> SUBSET {"server", "browser"}]
  /\ owner # None => keepers[owner] # {}
  /\ line \in Launches \cup {None}
  /\ address \in [Launches -> Launches \cup {None}]
  /\ served \subseteq Launches /\ lapses \subseteq Steps

\* No two launches run servers of their own at a time, as long as all of them
\* could open the lock file.
OneServer == "open" \notin lapses => \A p, q \in Running : p = q

\* The address in the lock file while a server serves is that server's, or
\* there is none because it could not be written: never another's, unless the
\* file could not be opened for locking or writing.  And the address a launch
\* that was refused finds there is one that has been served.
LineIsServers ==
  \A p \in Launches :
    /\ lapses = {} /\ pc[p] \in {"create", "browser", "serve"} => line \in {p, None}
    /\ address[p] \in served \cup {None}

\* The lock "is released automatically on process exit or crash, so there is
\* no stale-lock cleanup logic to get wrong": a launch is refused only while
\* another one runs.
RefusedWhileRunning ==
  [][\A p \in Launches : pc[p] = "open" /\ pc'[p] = "read" => Running # {}]_vars
=============================================================================
