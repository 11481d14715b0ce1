SPECIFICATION FairSpec
CONSTANTS
  NPROC = 4
  NCPU = 1
  STRIDE = 2
  INIT_TICKET_VAL = 2
  Tickets = {2}
  ULong = 8
  MaxPass = 16
  Preempts = {}
  Interrupts = FALSE
  Kills = FALSE
PROPERTIES RunnableRuns
CHECK_DEADLOCK FALSE
