SPECIFICATION FairSpec
CONSTANTS
  QueueLimit = 3
  CastLimit = 2
  SecondTicks <- MCSecond
  MaxIn <- MCFrames
CHECK_DEADLOCK FALSE
INVARIANTS
  TypeOK
  Exact
  Contiguous
  StaysInStep
  FatalIsAnswered
  RateExact
PROPERTIES
  Closes
  SessionEnds
