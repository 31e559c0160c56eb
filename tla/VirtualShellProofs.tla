-------------------------- MODULE VirtualShellProofs --------------------------
(***************************************************************************)
(* Theorems of VirtualShell.tla, for every number of pids and pages, time  *)
(* slice, length of a line, keys typed ahead and sums of dice.  The        *)
(* inductive invariant VInv is that of ShellProofs.tla, on its instance of *)
(* VirtualShell.tla.  What belongs to Teletype.tla alone, the length of a  *)
(* string and the port, plays no part and is given any value.              *)
(***************************************************************************)
EXTENDS VirtualShell, TLAPS

S == INSTANCE ShellProofs
     WITH TEXT_MAX <- 1, keys <- 0, tty <- 0, thr <- FALSE, txrdy <- FALSE

LEMMA Assumed == S!V!VirtualShellAssumption /\ S!TeletypeAssumption
BY VirtualShellAssumption DEF S!V!VirtualShellAssumption, S!TeletypeAssumption

LEMMA SameInit == Init => S!V!Init
BY DEF Init, IDLE, Login, Pids, Pages, Spawned, NONE,
       S!V!Init, S!V!IDLE, S!V!Login, S!V!Pids, S!V!Pages, S!V!Spawned, S!V!NONE

\* The instance has the same steps.
LEMMA SameNext == [Next]_vars => [S!V!Next]_(S!V!vars)
<1> USE DEF
      IDLE, Login, Shell, Pids, Pages, Keys, NONE, Text, Onward, Started,
      sched, memory, program, keys, QueEmpty, QueFull, EnQue, EnQueAll,
      AfterDeQue, InOrder, After, Added, KBSR, Scheduler, Demote, Leave, Place,
      Calls, Behind, Reading, InProcess, LastOfLine, Allocated, Reclaimed,
      Zombies, Cardinality,
      S!V!IDLE, S!V!Login, S!V!Shell, S!V!Pids, S!V!Pages, S!V!Keys, S!V!NONE,
      S!V!Text, S!V!Onward, S!V!Started, S!V!sched, S!V!memory, S!V!program,
      S!V!keys, S!V!QueEmpty, S!V!QueFull, S!V!EnQue, S!V!EnQueAll,
      S!V!AfterDeQue, S!V!InOrder, S!V!After, S!V!Added, S!V!KBSR,
      S!V!Scheduler, S!V!Demote, S!V!Leave, S!V!Place, S!V!Calls, S!V!Behind,
      S!V!Reading, S!V!InProcess, S!V!LastOfLine, S!V!Allocated, S!V!Reclaimed,
      S!V!Zombies, S!V!Cardinality
<1>1. TimerSR <=> S!V!TimerSR
  BY DEF TimerSR, S!V!TimerSR
<1>2. SysWrite <=> S!V!SysWrite
  BY DEF SysWrite, S!V!SysWrite
<1>3. SysGetRand <=> S!V!SysGetRand
  BY DEF SysGetRand, S!V!SysGetRand
<1>4. SysVFork <=> S!V!SysVFork
  BY DEF SysVFork, S!V!SysVFork
<1>5. SysExit <=> S!V!SysExit
  BY DEF SysExit, S!V!SysExit
<1>6. SysWait <=> S!V!SysWait
  BY DEF SysWait, S!V!SysWait
<1>7. SysSleep <=> S!V!SysSleep
  BY DEF SysSleep, S!V!SysSleep
<1>8. TakeHead <=> S!V!TakeHead
  BY DEF TakeHead, S!V!TakeHead
<1>9. Shift <=> S!V!Shift
  BY DEF Shift, S!V!Shift
<1>10. Lower <=> S!V!Lower
  BY DEF Lower, S!V!Lower
<1>11. Aim <=> S!V!Aim
  BY DEF Aim, S!V!Aim
<1>12. Clear <=> S!V!Clear
  BY DEF Clear, S!V!Clear
<1>13. SysWriteEcho <=> S!V!SysWriteEcho
  BY DEF SysWriteEcho, S!V!SysWriteEcho
<1> QED
  BY <1>1, <1>2, <1>3, <1>4, <1>5, <1>6, <1>7, <1>8, <1>9, <1>10, <1>11, <1>12, <1>13
     DEF Next, Runs, sys_read, vars, S!V!Next, S!V!Runs, S!V!sys_read, S!V!vars

LEMMA Invariant == Spec => []S!VInv
<1>1. Init => S!VInv
  BY Assumed, SameInit, S!VInitial
<1>2. S!VInv /\ [Next]_vars => S!VInv'
  BY Assumed, SameNext, S!VStep
<1> QED
  BY <1>1, <1>2, PTL DEF Spec

\* Phase 8 keeps its tables, the buffer and the reader's locals in order: their
\* types hold in every state, whatever the interrupts do to DeQue.
THEOREM VirtualShellTypeCorrect == Spec => []TypeOK
<1>1. S!V!TypeOK => TypeOK
  BY DEF
    TypeOK, IDLE, Pids, Pages, Keys, Text, NONE, Range, IsInjective,
    S!V!TypeOK, S!V!IDLE, S!V!Pids, S!V!Pages, S!V!Keys, S!V!Text, S!V!NONE,
    S!V!Range, S!V!IsInjective
<1>2. S!VInv => S!V!TypeOK
  BY Assumed, S!VTypes
<1> QED
  BY <1>1, <1>2, Invariant, PTL

\* Until a key falls into one of the two windows of DeQue, sys_read returns the
\* keys once each, in the order in which they are typed.
THEOREM KeysInOrderCorrect == Spec => []KeysInOrder
<1>1. S!V!KeysInOrder => KeysInOrder
  BY DEF
    KeysInOrder, After, S!V!KeysInOrder, S!V!After
<1>2. S!VInv => S!V!KeysInOrder
  BY Assumed, S!VKeys
<1> QED
  BY <1>1, <1>2, Invariant, PTL

\* Phase 8 hands out and takes back whole spaces: a living process owns exactly
\* the pages it runs in, and the others are free.
THEOREM VirtualSpacesCorrect == Spec => []SpacesIntact
<1>1. S!V!SpacesIntact => SpacesIntact
  BY DEF
    SpacesIntact, Living, Pids, Pages, NONE, S!V!SpacesIntact, S!V!Living,
    S!V!Pids, S!V!Pages, S!V!NONE
<1>2. S!VInv => S!V!SpacesIntact
  BY Assumed, S!VSpaces
<1> QED
  BY <1>1, <1>2, Invariant, PTL

\* The pid and the code Shell reports are those of the process it started last,
\* though they are written by SysExit, through the page table of the parent.
THEOREM ReportCorrect == Spec => []ReportIsRight
<1>1. S!V!ReportIsRight => ReportIsRight
  BY DEF
    ReportIsRight, Living, Pids, IDLE, S!V!ReportIsRight, S!V!Living, S!V!Pids,
    S!V!IDLE
<1>2. S!VInv => S!V!ReportIsRight
  BY Assumed, S!VReporter
<1> QED
  BY <1>1, <1>2, Invariant, PTL
=============================================================================
