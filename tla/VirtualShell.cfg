\* Idle, Login, Shell and one command; pages for the first two and two virtual
\* spaces.  Two keys fill a line.  Three keys in the buffer let DeQue shift and
\* an interrupt fall before, in and after its loop.
SPECIFICATION Spec
CONSTANTS
  QUE_MAX = 4
  PAGE_MAX = 6
  SPACE = 2
  TIME_MAX = 3
  BURST = 1
  NAP = 2
  STR_MAX = 3
  AHEAD = 3
  KEY_MOD = 5
  Sums = {2, 12}
INVARIANTS
  TypeOK
  KeysInOrder
  SpacesIntact
  ReportIsRight
PROPERTIES
  ShellReturns
