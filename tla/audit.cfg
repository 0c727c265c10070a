SPECIFICATION FairSpec
CONSTANTS
  m1 = m1
  m2 = m2
  i1 = i1
  i2 = i2
  Casts = {c1, c2}
  Messages = {m1}
  MessageIds = {i1, i2}
  IdOf <- MCOneMessage
  QueueLimit = 2
  BatchLimit = 2
  MaxAcks = 1
  MaxRestarts = 1
  None = None
CHECK_DEADLOCK FALSE
INVARIANTS
  TypeOK
  StatusTruthful
  Reconciled
  CleanExit
PROPERTIES
  VerdictSticks
  CloseEnds
  QueueDrains
