------------------------- MODULE SingleInstanceProofs -------------------------
(***************************************************************************)
(* What holds of any number of launches of the web GUI and whichever of    *)
(* their steps fail: the safety properties of SingleInstance, by an        *)
(* inductive invariant that says who has the lock and what it guards.      *)
(***************************************************************************)
EXTENDS SingleInstance, TLAPS

\* As long as every launch could open the lock file, one that runs has the
\* lock, and its own process keeps it, whatever browsers do.
LockHeld ==
  "open" \notin lapses => \A p \in Running : owner = p /\ "server" \in keepers[p]

\* Only an address that has been listened on is written or read.
AddressesServed ==
  /\ line \in served \cup {None}
  /\ \A p \in Launches :
       /\ address[p] \in served \cup {None}
       /\ pc[p] \in {"truncate", "write", "create", "browser", "serve"} => p \in served

\* The owner of the lock empties the file before it writes its line.
LineOfOwner ==
  \A p \in Launches :
    lapses = {} =>
      /\ pc[p] = "write" => line = None
      /\ pc[p] \in {"create", "browser", "serve"} => line \in {p, None}

IInv == TypeOK /\ LockHeld /\ AddressesServed /\ LineOfOwner

LEMMA InitIInv == Init => IInv
BY SingleInstanceAssumption
DEF Init, IInv, TypeOK, LockHeld, AddressesServed, LineOfOwner, Running, Steps

\* Two launches cannot both be running while the lock works.
LEMMA Alone ==
  ASSUME LockHeld, "open" \notin lapses, NEW p \in Running, NEW q \in Running
  PROVE  p = q
BY DEF LockHeld

\* A process that ends leaves a lock that somebody has open, or none.
LEMMA LeavesTypes ==
  ASSUME TypeOK, NEW p \in Launches, NEW process \in {"server", "browser"},
         Leaves(p, process)
  PROVE  /\ owner' \in Launches \cup {None}
         /\ keepers' \in [Launches -> SUBSET {"server", "browser"}]
         /\ owner' # None => keepers'[owner'] # {}
<1>1. /\ keepers' \in [Launches -> SUBSET {"server", "browser"}]
      /\ \A q \in Launches : q # p => keepers'[q] = keepers[q]
  BY DEF TypeOK, Leaves
<1>2. owner' = IF owner = p /\ keepers'[p] = {} THEN None ELSE owner
  BY DEF Leaves
<1>3. CASE owner = p
  BY <1>1, <1>2, <1>3 DEF TypeOK
<1>4. CASE owner # p
  BY <1>1, <1>2, <1>4 DEF TypeOK
<1> QED BY <1>3, <1>4

LEMMA TypeStep == ASSUME IInv, Next PROVE TypeOK'
<1> SUFFICES ASSUME NEW p \in Launches, Acquire(p) \/ Start(p) \/ End(p)
             PROVE  TypeOK'
  BY DEF Next
<1> USE SingleInstanceAssumption DEF IInv, TypeOK, Goto, Steps
<1>1. CASE TakeLock(p)
  BY <1>1, ZenonT(40) DEF TakeLock
<1>2. CASE GoWithout(p) \/ Refused(p)
  BY <1>2 DEF GoWithout, Refused
<1>3. CASE ReadLine(p)
  BY <1>3, ZenonT(40) DEF ReadLine
<1>4. CASE Prepare(p) \/ Listen(p) \/ Create(p)
  BY <1>4, ZenonT(40) DEF Prepare, Listen, Create
<1>5. CASE Truncate(p) \/ WriteLine(p)
  BY <1>5 DEF Truncate, WriteLine
<1>6. CASE LaunchBrowser(p)
  BY <1>6 DEF LaunchBrowser
<1>7. CASE Exit(p) \/ Crash(p)
  <2>1. Leaves(p, "server") /\ Goto(p, "ended") /\ UNCHANGED <<line, address, served, lapses>>
    BY <1>7 DEF Exit, Crash
  <2> QED BY <2>1, LeavesTypes
<1>8. CASE BrowserEnds(p)
  <2>1. Leaves(p, "browser") /\ UNCHANGED <<pc, line, address, served, lapses>>
    BY <1>8 DEF BrowserEnds
  <2> QED BY <2>1, LeavesTypes
<1> QED
  BY <1>1, <1>2, <1>3, <1>4, <1>5, <1>6, <1>7, <1>8 DEF Acquire, Start, End

LEMMA LockStep == ASSUME IInv, Next PROVE LockHeld'
<1> SUFFICES ASSUME NEW p \in Launches, Acquire(p) \/ Start(p) \/ End(p),
                    "open" \notin lapses', NEW q \in Running'
             PROVE  owner' = q /\ "server" \in keepers'[q]
  BY DEF Next, LockHeld
<1> USE SingleInstanceAssumption DEF IInv, TypeOK, LockHeld, Running, Goto, Steps
<1>1. CASE TakeLock(p)
  BY <1>1 DEF TakeLock
<1>2. CASE GoWithout(p)
  BY <1>2 DEF GoWithout
<1>3. CASE Refused(p) \/ ReadLine(p)
  BY <1>3 DEF Refused, ReadLine
<1>4. CASE Prepare(p) \/ Listen(p) \/ Create(p)
  BY <1>4 DEF Prepare, Listen, Create
<1>5. CASE Truncate(p) \/ WriteLine(p)
  BY <1>5 DEF Truncate, WriteLine
<1>6. CASE LaunchBrowser(p)
  BY <1>6 DEF LaunchBrowser
<1>7. CASE Exit(p) \/ Crash(p)
  BY <1>7 DEF Exit, Crash, Leaves
<1>8. CASE BrowserEnds(p)
  BY <1>8 DEF BrowserEnds, Leaves
<1> QED
  BY <1>1, <1>2, <1>3, <1>4, <1>5, <1>6, <1>7, <1>8 DEF Acquire, Start, End

LEMMA ServedStep == ASSUME IInv, Next PROVE AddressesServed'
<1> SUFFICES ASSUME NEW p \in Launches, Acquire(p) \/ Start(p) \/ End(p)
             PROVE  AddressesServed'
  BY DEF Next
<1> USE SingleInstanceAssumption DEF IInv, TypeOK, AddressesServed, Goto, Steps
<1>1. CASE TakeLock(p) \/ GoWithout(p) \/ Refused(p)
  BY <1>1 DEF TakeLock, GoWithout, Refused
<1>2. CASE ReadLine(p)
  BY <1>2 DEF ReadLine
<1>3. CASE Prepare(p) \/ Listen(p) \/ Create(p)
  BY <1>3 DEF Prepare, Listen, Create
<1>4. CASE Truncate(p) \/ WriteLine(p)
  BY <1>4 DEF Truncate, WriteLine
<1>5. CASE LaunchBrowser(p)
  BY <1>5 DEF LaunchBrowser
<1>6. CASE Exit(p) \/ Crash(p) \/ BrowserEnds(p)
  BY <1>6 DEF Exit, Crash, BrowserEnds
<1> QED
  BY <1>1, <1>2, <1>3, <1>4, <1>5, <1>6 DEF Acquire, Start, End

LEMMA LineStep == ASSUME IInv, Next PROVE LineOfOwner'
<1> SUFFICES ASSUME NEW p \in Launches, Acquire(p) \/ Start(p) \/ End(p),
                    NEW q \in Launches, lapses' = {}
             PROVE  /\ pc'[q] = "write" => line' = None
                    /\ pc'[q] \in {"create", "browser", "serve"} => line' \in {q, None}
  BY DEF Next, LineOfOwner
<1> USE SingleInstanceAssumption DEF IInv, TypeOK, LineOfOwner, Goto, Steps
<1>1. CASE TakeLock(p) \/ Refused(p) \/ ReadLine(p)
  BY <1>1 DEF TakeLock, Refused, ReadLine
<1>2. CASE GoWithout(p)
  BY <1>2 DEF GoWithout
<1>3. CASE Prepare(p) \/ Listen(p) \/ Create(p) \/ LaunchBrowser(p)
  BY <1>3 DEF Prepare, Listen, Create, LaunchBrowser
<1>4. CASE Truncate(p)
  BY <1>4 DEF Truncate
<1>5. CASE WriteLine(p)
  <2>1. CASE q = p
    BY <1>5, <2>1 DEF WriteLine
  <2>2. CASE q # p
    <3>1. q \notin Running
      BY <1>5, <2>2, Alone DEF WriteLine, Running
    <3> QED BY <1>5, <2>2, <3>1 DEF WriteLine, Running
  <2> QED BY <2>1, <2>2
<1>6. CASE Exit(p) \/ Crash(p) \/ BrowserEnds(p)
  BY <1>6 DEF Exit, Crash, BrowserEnds
<1> QED
  BY <1>1, <1>2, <1>3, <1>4, <1>5, <1>6 DEF Acquire, Start, End

\* The invariant is inductive.
LEMMA Invariance == Spec => []IInv
<1>1. IInv /\ [Next]_vars => IInv'
  <2> SUFFICES ASSUME IInv, [Next]_vars PROVE IInv'
    OBVIOUS
  <2>1. CASE Next
    BY <2>1, TypeStep, LockStep, ServedStep, LineStep DEF IInv
  <2>2. CASE UNCHANGED vars
    BY <2>2 DEF IInv, TypeOK, LockHeld, AddressesServed, LineOfOwner, Running, vars
  <2> QED BY <2>1, <2>2
<1> QED BY InitIInv, <1>1, PTL DEF Spec

\* The lock's owner, the descriptions that keep it and the lock file stay in
\* their types, and the lock is never that of a description nobody has open.
THEOREM TypeCorrect == Spec => []TypeOK
<1>1. IInv => TypeOK
  BY DEF IInv
<1> QED BY <1>1, Invariance, PTL

\* Of any number of launches one at most serves, as long as acquiring the lock
\* could open its file.
THEOREM AtMostOneServer == Spec => []OneServer
<1>1. IInv => OneServer
  BY DEF IInv, OneServer, LockHeld
<1> QED BY <1>1, Invariance, PTL

\* A launch that was refused opens the browser on an address that has been
\* served, and the address on file is never that of another launch than the
\* one that serves.
THEOREM LineBelongsToServer == Spec => []LineIsServers
<1>1. IInv => LineIsServers
  BY DEF IInv, LineIsServers, AddressesServed, LineOfOwner
<1> QED BY <1>1, Invariance, PTL
===============================================================================
