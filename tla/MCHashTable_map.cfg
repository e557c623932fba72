SPECIFICATION Spec
CONSTANTS
  Keys = {k1, k2, k3, k4}
  Vals = {v1, v2}
  Word = 32
  Programs <- Users
  None = None
INVARIANTS OneEntry PushEnds
PROPERTIES ImplementsMap
CHECK_DEADLOCK FALSE
SYMMETRY Symmetry
