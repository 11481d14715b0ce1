SPECIFICATION BufFairSpec
CONSTANTS
  t1 = t1
  t2 = t2
  t3 = t3
  nonfull = nonfull
  nonempty = nonempty
  Threads = {t1, t2, t3}
  MaxLive = 3
  KillSet = {t2, t3}
  Conds = {nonfull, nonempty}
  QSize = 4
  Width = 4
  None = None
  Producers = {t1, t2}
  Consumers = {t3}
  N = 1
INVARIANTS NoLostWaiter BufferBounds
PROPERTIES IsMonitor KeepsFlowing
CHECK_DEADLOCK FALSE

