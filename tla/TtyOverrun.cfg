\* One process that reads and writes, as Login and Shell do.
SPECIFICATION Spec
CONSTANTS
  Users = {1}
  QUE_MAX = 3
  TEXT_MAX = 2
  KEY_MAX = 1
  MAX_WRITERS = 1
  MAX_READERS = 1
PROPERTY
  NoneSentOver
\* With every key typed a process may wait for the next one for ever.
CHECK_DEADLOCK FALSE
