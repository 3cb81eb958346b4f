SPECIFICATION Spec
CONSTANTS
  Owners = {o1, o2, o3, o4, o5, o6}
  None = None
  Vals = {0, 1, 2}
INVARIANTS
  IndexInSync
  RootIsNearest
PROPERTIES
  ImplementsTimerSet
SYMMETRY Symmetry
