SPECIFICATION FairSpec
CONSTANTS
  retry = retry
  sink = sink
  All = All
  Handlers <- MCHandlers
  Definitions <- MCDefinitions
  Anything = All
  Topic <- MCTopic
  Copy <- MCCopy
  Results <- MCResults
  Errors <- MCErrors
  Retry = retry
CHECK_DEADLOCK FALSE
INVARIANTS
  AcknowledgedIsPublished
  RetryKept
  TwiceOnlyInDoubt
  OneStage
PROPERTIES
  MessageEnds
