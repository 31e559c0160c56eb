\* Idle, Login and three more processes; pages for Idle, Login and two virtual
\* spaces, and two more, so that spaces are made of pages given back by
\* different processes and the pages can run out before the pids.
SPECIFICATION Spec
CONSTANTS
  PROC_MAX = 5
  QUE_MAX = 5
  PAGE_MAX = 10
  SPACE = 3
INVARIANTS
  TypeOK
  SpacesIntact
  NoPageLeaks
\* Every process may end up waiting for a child it does not have.
CHECK_DEADLOCK FALSE
