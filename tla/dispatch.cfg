SPECIFICATION Spec
CONSTANTS
  i1 = i1
  i2 = i2
  g1 = g1
  g2 = g2
  g3 = g3
  Games = {g1, g2, g3}
  Bots = {b1}
  Instances = {i1, i2}
  InstanceOf <- MCTwoInstances
  Ids = {n1, n2, n3}
  Contents = {x1}
  WindowLimit = 2
  MaxLog = 4
  None = None
SYMMETRY Symmetry
CHECK_DEADLOCK FALSE
INVARIANTS
  TypeOK
  WindowIsRecent
  NoReplay
