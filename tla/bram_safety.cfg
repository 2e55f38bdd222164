CONSTANTS
  ArraySize = 2
  NumLds = 1
  NumStVals = 1
  MaxStores = 3
  MaxLoads = 2
  Programs <- FewPoisons
  Poison = TRUE
  StQSize = 2
  LdQSize = 2
  UseSpeculation = TRUE
  AguModes = {TRUE}
  TagMod = 8
  JunkTags = {0}
  ReqDepth = 1
  LdValDepth = 1
  StValDepth = 1
SPECIFICATION Spec
INVARIANTS LoadsReturnProgramOrder SafeLoadHasNoHazard MemoryIsProgramPrefix StoreQueueHoldsPending
PROPERTIES ImplementsSequentialMemory LatchedValueIsKept
CHECK_DEADLOCK FALSE
