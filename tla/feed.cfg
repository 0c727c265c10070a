SPECIFICATION Spec
CONSTANTS
  Instances = {i1}
  Bots = {b1, b2}
  Phases = {"WAITING"}
  Tallies = {t1}
  MaxRound = 2
  Syncs <- MCSyncs
  t1 = t1
  QueueLimit = 3
  MaxBots = 2
  Own = Own
  None = None
SYMMETRY Symmetry
INVARIANTS
  TypeOK
  RoomIsKnown
  PhaseIsKnown
  NothingSkipped
  FramesFit
  Greeted
  ReadyIsOwn
PROPERTIES
  KeepsPromise
