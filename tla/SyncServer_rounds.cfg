SPECIFICATION FairSpec
CONSTANTS
  Threads = {t1, t2, t3}
  MaxSpurious = 1
INVARIANTS
  TypeOK
  ClientsCounted
  ConnectAlone
  PhasesSeparate
  CleanedAlone
PROPERTIES
  MembersFixedInRound
  KeepsRounds
  RoundsEnd
CHECK_DEADLOCK FALSE
