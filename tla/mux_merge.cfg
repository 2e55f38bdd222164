CONSTANTS
  NumPorts = 2
  Programs <- Small
  FirstTag = 1
  TagMod = 4
  InDepth = 2
  OutDepth = 1
  InitSucc = {FALSE}
  InitTags = {0}
SPECIFICATION FairSpec
INVARIANTS TypeOK MergedInProgramOrder SentRequestsHeldOnce OnlyOneMatches OldestCanMove MuxInv
PROPERTIES EveryRequestForwarded StopsAfterQueue
CHECK_DEADLOCK FALSE
