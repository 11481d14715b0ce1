SPECIFICATION LockFairSpec
CONSTANTS
  t1 = t1
  t2 = t2
  t3 = t3
  t4 = t4
  Threads <- FourThreads
  Width = 5
  MayDie = TRUE
PROPERTIES HandedOnInOrder NoStarvation
CHECK_DEADLOCK FALSE
