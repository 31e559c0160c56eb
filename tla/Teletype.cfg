\* As VirtualShell.cfg, with a pid to spare, lines of three keys, a sleep longer
\* than the ticks between two calls, and strings of one to three characters.
SPECIFICATION Spec
CONSTANTS
  QUE_MAX = 5
  PAGE_MAX = 8
  SPACE = 2
  TIME_MAX = 4
  BURST = 2
  NAP = 3
  STR_MAX = 4
  AHEAD = 4
  TEXT_MAX = 3
INVARIANTS
  TypeOK
  OneStringAtATime
  SpacesIntact
PROPERTIES
  CommandsEnd
