CONSTANTS
  Functions <- ElementWithQueue
  PipeDepth = 1
SPECIFICATION Spec
INVARIANT QueuesStopAtTheEnd
