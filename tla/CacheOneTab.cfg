SPECIFICATION Spec
CONSTANTS
  v1 = v1
  v2 = v2
  t1 = t1
  t2 = t2
  None = None
  Loader = {t1}
  Version = {v1, v2}
  FileLen <- MCFileLen
  ChunkSize = {1}
  Storage <- MCStorage
  MaxFaults = 4
  DeployDuringLoad = FALSE
  NetworkFails = FALSE
INVARIANTS
  TypeOK
  RecordBacked
PROPERTIES
  ReloadIsFree
  Converges
  ImplementsSource
