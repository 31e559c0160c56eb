\* Three children and ticks at any time: one child can exit while the parent
\* handles the exit of another and a third runs.
SPECIFICATION Spec
CONSTANTS
  CHILDREN = 3
  COLS = 1
  QUE_MAX = 5
  QuietTicks = FALSE
INVARIANTS
  TypeOK
  HandlersMatchZombies
  MutualExclusion
  DrawnInPlace
