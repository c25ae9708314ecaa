SPECIFICATION Spec
CONSTANTS
  p1 = p1
  p2 = p2
  Procs <- MCTwoProcs
  Identities <- MCApart
  Safe <- MCSafe
  Hex <- MCHex
  Faults <- MCFaults
  MaxScans = 2
  MaxClock = 1
  MaxCrashes = 1
  MaxDamages = 1
INVARIANTS
  TypeOK
  SavedStaysSaved
  LastScanIsNewest
  IndexMentionsReports
  IndexWholeAlone
PROPERTIES
  IndexTruthful
  IndexKeepsOthers
\* Every scan allowed has been written.
CHECK_DEADLOCK FALSE
