SPECIFICATION Spec
CONSTANTS
  NPROC = 3
  Start = 3
  Team = {2}
  Top = 6
  Memory = 5
  Ops = {"sbrk", "clone", "fork"}
  Amounts <- UpAndDown
INVARIANTS SizesAgree MappedIsSize PagesConserved
CHECK_DEADLOCK FALSE
