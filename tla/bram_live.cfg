CONSTANTS
  ArraySize = 2
  NumLds = 1
  NumStVals = 2
  MaxStores = 2
  MaxLoads = 2
  Programs <- PoisonsOrLoads
  Poison = TRUE
  StQSize = 2
  LdQSize = 2
  UseSpeculation = TRUE
  AguModes = {TRUE}
  TagMod = 8
  JunkTags = {0}
  ReqDepth = 2
  LdValDepth = 1
  StValDepth = 1
SPECIFICATION ClockSpec
PROPERTIES AllKernelsFinish LoadsPassUnrelatedStores
CHECK_DEADLOCK FALSE
