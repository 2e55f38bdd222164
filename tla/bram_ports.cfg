CONSTANTS
  ArraySize = 2
  NumLds = 2
  NumStVals = 2
  MaxStores = 2
  MaxLoads = 2
  Programs <- AllPrograms
  Poison = FALSE
  StQSize = 2
  LdQSize = 2
  UseSpeculation = FALSE
  AguModes = {TRUE, FALSE}
  TagMod = 3
  JunkTags = {0}
  ReqDepth = 1
  LdValDepth = 1
  StValDepth = 1
SPECIFICATION Spec
INVARIANTS TypeOK OnlyOneStoreValueMatches LoadsStayInOrder IInv SentValuesHeld NoDeadlock
CHECK_DEADLOCK FALSE
