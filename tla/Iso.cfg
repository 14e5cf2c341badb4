SPECIFICATION MCSpec
CONSTANTS
  None = None
  l1 = l1
  l2 = l2
  g1 = g1
  g2 = g2
  s1 = s1
  s2 = s2
  b1 = b1
  b2 = b2
  a1 = a1
  a2 = a2
  Links = {l1, l2}
  Cigs = {g1, g2}
  CisIds = {s1, s2}
  Handles = {0, 1, 2}
  Usages <- AllUsages
  BigHandles = {b1, b2}
  AdvertisingHandles = {a1, a2}
  BisHandles = {0, 1, 2, 3}
  MaxBis = 3
INVARIANTS
  CisConfigured
  HostKnows
  StreamsAgree
  BisesOfBigs
  ParametersDeliver
PROPERTIES
  RequestsServed
CHECK_DEADLOCK FALSE
