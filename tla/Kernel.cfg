\* Idle and three user processes with every service.  Three users let a third
\* process get between any two, a mutex have two waiters, and a freed pid be
\* used again.
SPECIFICATION Spec
CONSTANTS
  PROC_MAX = 4
  QUE_MAX = 4
  TIME_MAX = 2
  TIME_MOD = 3
  SLEEP_UNIT = 1
  SleepArgs = {1}
  Services = {"info", "sleep", "fork", "vfork", "exit", "wait", "kill", "lock", "unlock", "write", "read"}
INVARIANTS
  TypeOK
  QueuesMatchStates
  OneRunner
  NoLostMutexWaiter
  SleepersWillWake
  WaiterHasNoZombie
PROPERTIES
  ReapedOnce
  RoundRobinScheduling
