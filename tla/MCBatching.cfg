SPECIFICATION FairSpec
CONSTANTS
  p1 = p1
  p2 = p2
  p3 = p3
  x1 = x1
  Publisher = {p1, p2, p3}
  External = {x1}
  Immediate = {p3}
  Undecodable = {x1}
  MaxReservations = 2
  MaxLength = 1
  Prefetch = 2
  MaxRetry = 1
  Backoffs = 1
  MaxFaults = 1
  Nobody = Nobody
  BatchSize = 2
  MaxBatches = 1
CHECK_DEADLOCK FALSE
INVARIANTS
  RetriesAlone
PROPERTIES
  PublishEnds
  Delivered
