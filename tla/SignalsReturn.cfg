\* Two children, every system call done before the next tick.
SPECIFICATION Spec
CONSTANTS
  CHILDREN = 2
  COLS = 1
  QUE_MAX = 4
  QuietTicks = TRUE
INVARIANT
  HandlerCanReturn
