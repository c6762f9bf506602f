CONSTANTS
  Nodes = {e1, e2, e3, other}
  Escs = {e1, e2, e3}
  EscCount = 3
  MaxOutstanding = 1
SPECIFICATION FairSpec
INVARIANTS
  TypeOK
  StartsWithEveryEsc
PROPERTIES
  DiscoveryEnds
