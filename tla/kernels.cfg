CONSTANTS
  Functions <- All
  PipeDepth = 1
SPECIFICATION Spec
INVARIANTS TypeOK HoistedRequestsAreSettledOnce RequestsRunAhead PipesHaveTwoEnds FinishesLikeTheProgram NobodyWaitsForEver
PROPERTIES ImplementsProgram
