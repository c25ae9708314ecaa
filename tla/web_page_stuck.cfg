SPECIFICATION FairSpec
CONSTANTS
  MaxScans <- MCMaxScans
  MaxReloads <- MCMaxReloads
PROPERTY ScanIsWatched
