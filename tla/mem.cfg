SPECIFICATION Spec
CONSTANTS
  Threads = {t1, t2}
  Region = 128
  SlabSize = 16
  Sizes = {0, 20, 40}
  EarlyCallers = FALSE
  Null = Null
INVARIANTS StoreSound ScanIsNextFit SlabsComeCleared
PROPERTIES IsHeap
