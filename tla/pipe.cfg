SPECIFICATION FairSpec
CONSTANTS
  Procs = {1, 2, 3, 4}
  sh = 1
  NFILE = 3
  NOFILE = 4
  Pages = {pg}
  PipeSize = 2
  Width = 4
  None = None
  MaxBytes = 6
  Chunks = {3}
  MaxKills = 1
INVARIANTS CountsAreDescriptors SleepersHaveCause
PROPERTIES IsStream PipelineEnds
CHECK_DEADLOCK FALSE
