CONSTANTS
  T = {x, y}
  Zero = x
  N = 3
SPECIFICATION Spec
INVARIANTS
  SizeMatchesIterators
PROPERTIES
  QueueSpec
