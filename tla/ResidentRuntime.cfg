CONSTANTS
  LastCall = 2
  Runtime = {"node", "web", "demo", "wgsl", "page"}
  Code = {"kernel", "broken"}
  Entry = {"main", "other", "absent"}
  Broken = {"broken"}
  Missing <- MCMissing
  Dispatch <- MCDispatch
  MaxRefusals = 2
  MaxLosses = 1
SPECIFICATION Spec
INVARIANTS
  TypeOK
  ResolvedIsComputed
  CacheIsValid
  Diagnosed
  RefusalNamed
  LeaksOnlyUnbound
  FailsForCause
PROPERTIES
  CacheKeeps
  Settles
CHECK_DEADLOCK FALSE
