SPECIFICATION FairSpec
CONSTANTS
  NPROC = 4
  NCPU = 1
  MaxPid = 4
  InitOps = {"wait"}
  ProcOps = {"clone", "join", "exit"}
  ThreadOps = {"join", "kill"}
  JoinArgs <- AnyThread
  KillArgs = {2}
PROPERTIES KilledExits ExitCompletes
CHECK_DEADLOCK FALSE
