SPECIFICATION Spec
CONSTANTS
  m1 = m1
  m2 = m2
  i1 = i1
  i2 = i2
  Casts = {c1}
  Messages = {m1, m2}
  MessageIds = {i1, i2}
  IdOf <- MCSameId
  QueueLimit = 2
  BatchLimit = 2
  MaxAcks = 0
  MaxRestarts = 0
  None = None
CHECK_DEADLOCK FALSE
INVARIANTS
  EventsComplete
