CONSTANTS
  Nodes = {e1, e2}
  Escs = {e1, e2}
  EscCount = 2
  MaxOutstanding = 2
SPECIFICATION FairSpec
INVARIANTS
  StartsWithEveryEsc
CHECK_DEADLOCK FALSE
