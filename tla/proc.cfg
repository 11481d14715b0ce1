SPECIFICATION Spec
CONSTANTS
  NPROC = 4
  NCPU = 1
  MaxPid = 5
  InitOps = {"wait"}
  ProcOps = {"fork", "clone", "wait", "join", "exit", "exec"}
  ThreadOps = {"clone", "join", "kill", "exit", "ticket_sleep", "wake"}
  JoinArgs <- AnyThread
  KillArgs = {0, 3}
INVARIANTS NoLostChild NoLostThread ParentIsOlder SpaceAlive
PROPERTIES ExitKillsOwnThreads
CHECK_DEADLOCK FALSE
