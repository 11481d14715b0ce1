SPECIFICATION Spec
CONSTANTS
  NPROC = 3
  NCPU = 2
  STRIDE = 2
  INIT_TICKET_VAL = 1
  Tickets = {1, 2}
  ULong = 8
  MaxPass = 3
  Preempts = {3}
  Interrupts = TRUE
  Kills = TRUE
INVARIANTS NoLaggard NoRunaway
PROPERTIES TimeNeverTurnsBack
CHECK_DEADLOCK FALSE
