SPECIFICATION Spec
CONSTANTS
  d1 = d1
  d2 = d2
  Partial = Partial
  Sizes <- MCSizes
  Digests <- MCDigests
  Fallback <- MCFallback
  MaxSize = 2
  MaxLines = 3
  MaxEdits = 1
INVARIANT MatchesExact
