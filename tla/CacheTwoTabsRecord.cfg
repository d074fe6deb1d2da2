SPECIFICATION Spec
CONSTANTS
  v1 = v1
  v2 = v2
  t1 = t1
  t2 = t2
  None = None
  Loader = {t1, t2}
  Version = {v1, v2}
  FileLen <- MCFileLen
  ChunkSize = {1}
  Storage <- MCStorage
  MaxFaults = 1
  DeployDuringLoad = FALSE
  NetworkFails = FALSE
INVARIANTS
  RecordBacked
