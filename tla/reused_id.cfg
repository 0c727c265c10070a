SPECIFICATION Spec
CONSTANTS
  i1 = i1
  i2 = i2
  g1 = g1
  g2 = g2
  g3 = g3
  Games = {g1}
  Bots = {b1, b2}
  Instances = {i1, i2}
  InstanceOf <- MCOneInstance
  Ids = {n1, n2}
  Contents = {x1, x2}
  WindowLimit = 2
  MaxLog = 3
  None = None
SYMMETRY Symmetry
CHECK_DEADLOCK FALSE
INVARIANTS
  SameIdSameContent
