CONSTANTS
  ArraySize = 2
  NumLds = 1
  NumStVals = 1
  MaxStores = 1
  MaxLoads = 0
  Programs <- AllPrograms
  Poison = FALSE
  StQSize = 2
  LdQSize = 2
  CommitQSize = 2
  StoreLatency = 2
  UseSpeculation = TRUE
  AguModes = {TRUE}
  JunkTags = {0}
  ReqDepth = 1
  LdValDepth = 1
  StValDepth = 1
  StPortDepth = 2
  LdPortDepth = 1
SPECIFICATION Spec
INVARIANTS StopsOnlyWhenStoresCommitted
CHECK_DEADLOCK FALSE
