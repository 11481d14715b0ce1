CONSTANTS
  p1 = p1
  p2 = p2
  Procs = {p1, p2}
  Inums = {1, 2, 3}
  Blocks = {1, 2, 3}
  Names = {"a", "b"}
  Slots = 2
  Paths <- MCPaths
  Images <- MCImages
  MaxCalls = 3
  MaxCrashes = 1
SYMMETRY Perms
SPECIFICATION Spec
INVARIANTS ImageSound RefsCounted CopiesAgree NothingLeaks NoDeadlock
CHECK_DEADLOCK FALSE
