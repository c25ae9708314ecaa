SPECIFICATION FairSpec
CONSTANTS
  OneDriveNames <- MCOneDriveNames
  ScratchNames <- MCScratchNames
  Root = "root"
  Dirs <- MCDirs
  Files <- MCFiles
  Links <- MCLinks
  Children <- MCChildren
  Facts <- MCFacts
  Exposed <- MCExposed
  Components = {}
  Fixture <- MCFixture
  TooLong = {"longname"}
  Refusable = {"root", "startup", "packages"}
  Unreadable = {"setup"}
  MaxDepth = 2
  PolicyApplies = TRUE
  FileDetectors = {"suspicious_filename", "lnk_inspection", "hash_match_example"}
  Says <- Rule
  WholeDetectors = {"autorun_inspection"}
  AutorunFindings <- MCAutorun
  DeadStatuses = {"IO"}
  SlotOutcomes = {TRUE, FALSE}
  MaxUnplugs = 2
INVARIANTS
  NoSilentLoss
  AbortIsJustified
  AllOrNothing
  EveryCheckReported
  CancelBounded
  ClearIsEarned
  ThreatIsLoud
PROPERTY
  Terminates
\* The scan stops when its report is ready.
CHECK_DEADLOCK FALSE
