SPECIFICATION FairSpec
CONSTANTS
  a1 = a1   a2 = a2   c1 = c1
  Stick = Stick   Fixed = Fixed
  None = None   NoVolume = None   NoId = None
  Volumes <- MCVolumes
  Ids <- MCIds
  Identity <- MCIdentity
  Rank <- MCRank
  UsbIds <- MCUsbIds
  TrackMax = 1
  EnumOutcomes <- Perhaps
  StartOutcomes <- Perhaps
  PostOutcomes <- Perhaps
  MaxScans = 2
  MaxFiles = 1
  MaxPlugs = 1
INVARIANTS
  TypeOK
  WorkersJoined
  BannerIsCurrent
  NoStaleMessage
  AutoScanOnce
PROPERTIES
  ImplementsScanService
  ScanningEnds
\* The window closes, or a lost result leaves it waiting for ever.
CHECK_DEADLOCK FALSE
