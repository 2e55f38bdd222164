CONSTANTS
  ArraySize = 2
  NumLds = 1
  NumStVals = 1
  MaxStores = 2
  MaxLoads = 2
  Programs <- PoisonsOrLoadsAhead
  Poison = TRUE
  StQSize = 2
  LdQSize = 2
  CommitQSize = 2
  StoreLatency = 2
  UseSpeculation = TRUE
  AguModes = {TRUE, FALSE}
  JunkTags = {0}
  ReqDepth = 2
  LdValDepth = 1
  StValDepth = 2
  StPortDepth = 2
  LdPortDepth = 1
SPECIFICATION FairSpec
INVARIANTS MemoryIsProgramPrefix NoDeadlock
PROPERTIES AllKernelsFinish
CHECK_DEADLOCK FALSE
