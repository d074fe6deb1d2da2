SPECIFICATION Spec
CONSTANTS
  c1 = c1
  c2 = c2
  t1 = t1
  t2 = t2
  Garbage = Garbage
  NoCall = NoCall
  Call = {c1, c2}
  Token = {t1, t2}
  MaxSeqLen = 4
  MaxPrompt = 3
  LastChunk = 2
  Browser = FALSE
  Profiled = TRUE
  ResetInFlight = FALSE
  MaxFaults = 3
INVARIANTS
  TypeOK
  LogitsExact
  CacheHoldsGeneration
PROPERTIES
  ImplementsGeneration
