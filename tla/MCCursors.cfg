SPECIFICATION Spec
CONSTANTS
  r1 = r1
  r2 = r2
  NumItems = 3
  HasCursor = {2, 3}
  MaxRequests = 1
  Run <- MCRun
  MaxPartials <- MCMaxPartials
CHECK_DEADLOCK FALSE
INVARIANTS
  CursorCoversLeft
  CompletedMeansAll
  JoinWakes
