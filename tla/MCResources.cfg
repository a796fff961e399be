SPECIFICATION FairSpec
CONSTANTS
  c1 = c1
  c2 = c2
  c3 = c3
  o1 = o1
  o2 = o2
  o3 = o3
  o4 = o4
  MaxDelay = 1
  Client <- MCClient
  Type <- MCType
  Obj <- MCObj
  Needs <- MCNeeds
  TypeOf <- MCTypeOf
  NameOf <- MCNameOf
  DefaultDelay <- MCDefaultDelay
  Resets <- MCResets
  BadLimits <- MCBadLimits
  BadStrategy <- MCBadStrategy
INVARIANTS
  NothingLost
  WakeupsCoverAvailables
PROPERTIES
  SomeoneProceeds
  AllocationSpec
