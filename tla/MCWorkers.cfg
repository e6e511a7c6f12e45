SPECIFICATION FairSpec
CONSTANTS
  Size = 2
  N = 3
  MaxItems = 2
  MaxTimeoutRetries = 1
  MaxDispatches = 2
  Events = {"silence", "error", "crash", "start"}
INVARIANTS
  AnswerComplete
PROPERTIES
  ImplementsParallelMap
  DispatchSettles
  NoThreadLeak
