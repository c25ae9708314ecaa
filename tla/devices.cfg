SPECIFICATION Spec
CONSTANTS
  A = A   B = B   S = S
  m = m   n = n   None = None   Without = Without
  NoLine = None   NoIds = Without   NoSerial = 0
  Disks <- MCDisks
  Usb <- MCUsb
  Parts <- MCParts
  Model <- MCModel
  Serial <- MCSerial
  Formatted <- MCFormatted
  FirstMounts <- MCFirstMounts
  Mountable <- MCMountable
  Orders <- MCOrders
  PointsMax = 1
  MaxChanges = 3
INVARIANTS
  TypeOK
  SteadyListed
  OwnIdentity
  FoundIsPicked
