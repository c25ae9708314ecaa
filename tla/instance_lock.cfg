SPECIFICATION Spec
CONSTANTS
  l1 = l1
  l2 = l2
  l3 = l3
  None = None
  Launches <- MCLaunches
  Faults <- Steps
SYMMETRY MCSymmetry
INVARIANTS
  OneServer
  LineIsServers
\* Every launch ends.
CHECK_DEADLOCK FALSE
