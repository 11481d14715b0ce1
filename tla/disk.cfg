SPECIFICATION FairSpec
CONSTANTS
  Procs = {p1, p2}
  Sectors = {s1, s2, bm}
  Inner = {bm}
  Values = {0, 1}
  Bufs = {b1, b2}
  None = None
INVARIANTS CacheCoherent WaitersHaveCause
PROPERTIES IsSectorStore IoEnds
CHECK_DEADLOCK FALSE
