SPECIFICATION Spec
CONSTANTS
  Forward <- MCForward
  Policy <- MCPolicy
  Model = {"anima", "animaShards", "zimage", "zimageBoth", "h3dit", "h3ditBoth", "h3video", "h3videoBoth",
           "conditioner", "encoder", "audio", "textEncoder", "zimageOne", "zimageVae", "wanVae"}
  MaxCalls = 3
  MaxFaults = 1
INVARIANTS
  TypeOK
  ReadsLive
  OneTensorPerBatch
  ReadsWhatWasMeant
  ReadsWhole
  PoolPartition
  Settled
  
  FailsOnlyAfterFault
PROPERTY
  SecondCallAllocatesNothing
