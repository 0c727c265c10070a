SPECIFICATION Spec
CONSTANTS
  g1 = g1
  g2 = g2
  i1 = i1
  i2 = i2
  Games = {g1}
  Instances = {i1}
  InstanceOf <- MCOneGame
  Bots = {b1}
  Subs = {s1}
  CastIds = {c1}
  Voters = {v1}
  MaxRound = 1
  MaxGeneration = 3
  QueueLimit = 2
  MaxBots = 2
  None = None
  Control = Control
SYMMETRY Symmetry
CHECK_DEADLOCK FALSE
INVARIANTS
  UnknownWasSent
