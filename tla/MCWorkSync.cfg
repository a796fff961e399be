CONSTANTS
  q1 = q1
  q2 = q2
  e1 = e1
  e2 = e2
  s = s
  m = m
  o = o
  u = u
  p = p
  b = b
  t = t
  Queue = {q1, q2}
  Executor = {e1, e2}
  Resource = {s, m, o, u}
  Provider = {p, b}
  Type = {t}
  ExecutorOf <- MCExecutorOf
  Needs <- MCNeeds
  TypeOf <- MCTypeOf
  Offers <- MCOffers
  Periodic = {p}
  BadStrategy = {o, u}
  Definitions <- MCDefinitions
  MaxFaults = 1
SPECIFICATION FairSpec
INVARIANTS EndsForAReason RegisteredIfOwned
PROPERTIES Converges
CHECK_DEADLOCK FALSE
