SPECIFICATION FairSpec
CONSTANTS
  Threads = {t1, t2, t3}
  MaxSpurious = 0
PROPERTY RoundsEndAnyway
CHECK_DEADLOCK FALSE
