CONSTANTS
  w1 = w1
  w2 = w2
  d1 = d1
  d2 = d2
  r1 = r1
  r2 = r2
  Request <- MCRequest
  Asked <- MCAsked
  NoWorker = NoWorker
  Worker <- MCWorker
  Definition <- MCDefinition
  Plain <- MCPlain
  Statuses <- MCStatuses
  Wanted <- MCWanted
  Unlimited = {}
  Max = 1
  Expiry = 0
  MaxJobs = 2
  MaxFaults = 1
SPECIFICATION FairSpec
INVARIANTS ExclusiveWhileFresh WithinLimit OneRunningUnlessRaced
PROPERTIES TakenOver
