SPECIFICATION FairSpec
CONSTANTS
  q1 = q1
  q2 = q2
  Queue <- MCQueue
  MaxMsg <- MCMaxMsg
  UsesResource = {q1}
  NumResources = 2
  MaxConcurrency <- MCMaxConcurrency
  Concurrency = 1
CHECK_DEADLOCK FALSE
INVARIANTS
  OneTaskPerQueue
  OutputsOutliveCounted
  BoundedOvertaking
PROPERTIES
  MessagesDone
  CloseEnds
