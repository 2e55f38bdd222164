CONSTANTS
  ArraySize = 2
  NumLds = 1
  NumStVals = 1
  MaxStores = 4
  MaxLoads = 1
  Programs <- AllPrograms
  Poison = FALSE
  StQSize = 2
  LdQSize = 2
  UseSpeculation = FALSE
  AguModes = {TRUE}
  TagMod = 4
  JunkTags = {0}
  ReqDepth = 2
  LdValDepth = 1
  StValDepth = 1
SPECIFICATION Spec
INVARIANTS SafeOnlyAfterAddressesArrived
CHECK_DEADLOCK FALSE
