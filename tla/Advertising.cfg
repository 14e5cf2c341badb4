SPECIFICATION FairSpec
CONSTANTS
  h1 = h1
  h2 = h2
  r1 = r1
  p1 = p1
  None = None
  Public = Public
  q1 = q1
  q2 = q2
  Rpas = {q1, q2}
  Handles = {h1, h2}
  Random = {r1}
  Peers = {p1}
  Hosts <- AllHosts
  Counter = 4
  le_num_supported_advertising_sets = 2
  le_max_advertising_data_length = 300
  le_resolving_list_size = 1
INVARIANTS
  EnabledIsReady
  HostKnows
PROPERTIES
  IdentityStable
  LimitedSetsEnd
