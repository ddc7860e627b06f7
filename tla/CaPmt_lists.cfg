SPECIFICATION Spec
CONSTANTS
  Sessions = {i1, i2}
  Programs = {p1, p2, p3}
  MaxCount = 4
SYMMETRY Symmetry
CHECK_DEADLOCK FALSE
INVARIANTS
  OnlySelected
  CountedIsListed
