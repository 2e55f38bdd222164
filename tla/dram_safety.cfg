CONSTANTS
  ArraySize = 2
  NumLds = 2
  NumStVals = 2
  MaxStores = 2
  MaxLoads = 2
  Programs <- AllPrograms
  Poison = FALSE
  StQSize = 2
  LdQSize = 2
  CommitQSize = 2
  StoreLatency = 2
  UseSpeculation = FALSE
  AguModes = {TRUE}
  JunkTags = {0}
  ReqDepth = 1
  LdValDepth = 1
  StValDepth = 1
  StPortDepth = 2
  LdPortDepth = 1
SPECIFICATION Spec
INVARIANTS TypeOK LoadsReturnProgramOrder MemoryReadsAreSettled SafeLoadHasNoHazard
           OnlyOneStoreValueMatches IInv SentValuesHeld
PROPERTIES ImplementsSequentialMemory
CHECK_DEADLOCK FALSE
