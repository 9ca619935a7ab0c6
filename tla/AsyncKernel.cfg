SPECIFICATION FairSpec
CONSTANTS
  t1 = t1
  t2 = t2
  Timer = {t1, t2}
  Owned = {t2}
  NoTimer = NoTimer
  MaxThreads = 3
  MaxFree = 2
  MaxQueue = 1
INVARIANTS
  TypeOK
  OneRunner
  OneHolder
PROPERTIES
  TimersGoOn
  ShutdownEnds
CHECK_DEADLOCK FALSE
