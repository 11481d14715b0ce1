SPECIFICATION Spec
CONSTANTS
  p1 = p1
  p2 = p2
  p3 = p3
  Procs = {p1, p2, p3}
  Boot = p1
  Top = 6
  Memory = 8
  Images = {1, 3, 9, 11}
  Amounts <- UpAndDown
  UInt = 24
SYMMETRY Slots
INVARIANTS LayoutSound GuardPage ArgsAreMapped PagesConserved
CHECK_DEADLOCK FALSE
