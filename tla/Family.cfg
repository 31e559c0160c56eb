\* Two Inits with two children each, and pids for two children in all: a second
\* Init may come at any entry of the kernel, and then a fork fails in the middle
\* of one family or of both.
SPECIFICATION FamilySpec
CONSTANTS
  QUE_MAX = 5
  CHILDREN = 2
  COLS = 2
  Periods = {1, 3}
  NAP = 1
  TIME_MAX = 2
  BURST = 1
  INITS = 2
INVARIANTS
  FamilyTypeOK
  ReportsAreRight
PROPERTIES
  FamilyEnds
