SPECIFICATION Spec
CONSTANTS
  c1 = c1
  c2 = c2
  t1 = t1
  t2 = t2
  Garbage = Garbage
  NoCall = NoCall
  Call = {c1, c2}
  Token = {t1, t2}
  MaxSeqLen = 3
  MaxPrompt = 2
  LastChunk = 1
  Browser = TRUE
  Profiled = FALSE
  ResetInFlight = TRUE
  MaxFaults = 3
INVARIANTS
  LogitsExact
  CacheHoldsGeneration
PROPERTIES
  Serves
