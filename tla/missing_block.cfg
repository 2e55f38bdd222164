CONSTANTS
  Functions <- ElementsWithInputs
  PipeDepth = 1
SPECIFICATION Spec
INVARIANT RulesFindTheirBlocks
