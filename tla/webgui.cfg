SPECIFICATION FairSpec
CONSTANTS
  MaxScans <- MCMaxScans
  MaxFiles <- MCMaxFiles
  MaxPolls <- MCMaxPolls
INVARIANTS
  OneScan
  ReportPointerLive
  HeapExact
  SavedBeforeShown
  ProgressBelongsToScan
PROPERTIES
  ImplementsScanService
  ScanEnds
  StopEnds
\* The server process exits.
CHECK_DEADLOCK FALSE
