SPECIFICATION Spec
CONSTANTS
  p1 = p1
  p2 = p2
  Procs <- MCTwoProcs
  Identities <- MCApart
  Safe <- MCSafe
  Hex <- MCHex
  Faults <- MCNoFaults
  MaxScans = 2
  MaxClock = 1
  MaxCrashes = 0
  MaxDamages = 0
INVARIANTS
  IndexWhole
\* Every scan allowed has been written.
CHECK_DEADLOCK FALSE
