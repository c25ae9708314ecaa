SPECIFICATION Spec
CONSTANTS
  WriterMaxDepth <- MCMaxDepth
  ParseMaxDepth <- MCMaxDepth
  FirstCapacity <- MCFirstCapacity
  MaxText <- MCMaxText
  MaxDamages <- MCMaxDamages
INVARIANTS
  FinishedIsJson
  ReaderExact
  NoLeak
\* The text has been read, or was never finished.
CHECK_DEADLOCK FALSE
