\* Three user processes, longer sleeps than in Kernel.cfg, and the services
\* that block and release: does every ready process run?
SPECIFICATION FairSpec
CONSTANTS
  PROC_MAX = 4
  QUE_MAX = 4
  TIME_MAX = 2
  TIME_MOD = 5
  SLEEP_UNIT = 1
  SleepArgs = {1, 3}
  Services = {"info", "sleep", "fork", "kill", "lock", "unlock"}
PROPERTIES
  ReadyRuns
