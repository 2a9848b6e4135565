CONSTANTS
  DEPTH = 4
  e1 = e1
  e2 = e2
  e3 = e3
  Entry <- MCEntry
  None = None
SPECIFICATION Spec
INVARIANT OccupancyBounded
PROPERTY ImplementsFifo
