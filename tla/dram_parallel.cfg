CONSTANTS
  ArraySize = 2
  NumLds = 2
  NumStVals = 1
  MaxStores = 2
  MaxLoads = 2
  Programs <- OneLoadAheadOfOther
  Poison = FALSE
  StQSize = 2
  LdQSize = 2
  CommitQSize = 2
  StoreLatency = 2
  UseSpeculation = FALSE
  AguModes = {TRUE}
  JunkTags = {0}
  ReqDepth = 4
  LdValDepth = 1
  StValDepth = 1
  StPortDepth = 2
  LdPortDepth = 1
SPECIFICATION FairSpec
PROPERTIES EveryLoadIsAnswered
CHECK_DEADLOCK FALSE
