------------------------------- MODULE Kernel -------------------------------
(***************************************************************************)
(* Process management of the final JAWOS kernel, src/pA: the process table *)
(* (pcb), the ready and available queues, the video mutex, the queues of   *)
(* processes that wait for the terminal, and the scheduler.                *)
(*                                                                         *)
(* The kernel is entered by an interrupt (timer, terminal, system call)    *)
(* with interrupts off and leaves by Loader() with an iret, so one action  *)
(* is one whole call of Kernel(): the event's service routine, then        *)
(* Scheduler().  KBSR() is between the two; in pA it only moves console    *)
(* keys into kb.buffer, which no process reads, and changes nothing here.  *)
(*                                                                         *)
(* Not in this projection of the state: memory pages and exit codes, the   *)
(* characters on the terminal (TTYSR decides here only WHO is released),   *)
(* signal handlers and the screen cursor.                                  *)
(***************************************************************************)
EXTENDS Queue

CONSTANTS
  PROC_MAX,     \* entries of pcb[]
  TIME_MAX,     \* timer ticks of a time slice
  TIME_MOD,     \* sys_time_count wraps at this value (2^32 in the code)
  SLEEP_UNIT,   \* timer ticks per unit of sys_sleep's argument (10)
  SleepArgs,    \* arguments the programs pass to sys_sleep
  Services      \* system calls the programs make

IDLE == 0
Pids == 0..(PROC_MAX - 1)
Users == 1..(QUE_MAX - 1)       \* pids BootStrap queues, without Idle's

States == {"AVAIL", "READY", "RUN", "SLEEP", "SUSPEND", "WAIT", "ZOMBIE", "IO_WAIT"}

\* BootStrap queues the pids 0 .. QUE_MAX-1: each must index pcb[], and Idle
\* and Login need one each.
ASSUME QueueAssumption == PROC_MAX \in Nat /\ QUE_MAX \in 2..PROC_MAX
ASSUME TimeAssumption ==
  /\ TIME_MAX \in Nat \ {0} /\ TIME_MOD \in Nat \ {0, 1} /\ SLEEP_UNIT \in Nat \ {0}
  /\ SleepArgs \subseteq Int
\* A sleep is at least one tick and shorter than a turn of the clock: a wake
\* time equal to the current time would be met a whole turn later.
ASSUME SleepAssumption == \A n \in SleepArgs : n * SLEEP_UNIT \in 1..(TIME_MOD - 1)

VARIABLES
  run_pid,          \* the process that runs
  state,            \* pcb[p].state
  ppid,             \* pcb[p].ppid
  wake_time,        \* pcb[p].wake_time
  time_count,       \* pcb[run_pid].time_count; 0 for whoever is dispatched
  sys_time_count,
  ready_que, avail_que,
  lock, suspend_que,            \* video_mutex
  dsp_wait_que, kb_wait_que     \* tty: processes inside sys_write, sys_read

cpu == <<run_pid, state, time_count, ready_que>>
clock == <<wake_time, sys_time_count>>
family == <<ppid, avail_que>>
video_mutex == <<lock, suspend_que>>
tty == <<dsp_wait_que, kb_wait_que>>
vars == <<cpu, clock, family, video_mutex, tty>>

\* BootStrap, then SpawnSR(&Idle) and SpawnSR(&Login): Idle is loaded with its
\* pcb still READY and is never in ready_que.
Init ==
  /\ run_pid = IDLE
  /\ state = [p \in Pids |-> IF p \in {0, 1} THEN "READY" ELSE "AVAIL"]
  /\ ready_que = <<1>>
  /\ avail_que = [i \in 1..(QUE_MAX - 2) |-> i + 1]
  /\ ppid = [p \in Pids |-> 0]
  /\ wake_time = [p \in Pids |-> 0]
  /\ time_count = 0 /\ sys_time_count = 0
  /\ lock = "UNLOCKED" /\ suspend_que = << >>
  /\ dsp_wait_que = << >> /\ kb_wait_que = << >>

-----------------------------------------------------------------------------
\* Mutants of Scheduler.  One relieves a running Idle without making it READY;
\* one asks "run_pid >= IDLE"; one dispatches without looking whether
\* ready_que is empty, and DeQue returns NONE; one dispatches the newest.
SchedulerLeavesIdleRunning(rp, st, rq, ticks) ==
  IF rp > IDLE
  THEN run_pid' = rp /\ state' = st /\ ready_que' = rq /\ time_count' = ticks
  ELSE /\ run_pid' = IF QueEmpty(rq) THEN IDLE ELSE Head(rq)
       /\ state' = [st EXCEPT ![run_pid'] = "RUN"]
       /\ ready_que' = AfterDeQue(rq) /\ time_count' = 0

SchedulerKeepsIdle(rp, st, rq, ticks) ==
  IF rp >= IDLE
  THEN run_pid' = rp /\ state' = st /\ ready_que' = rq /\ time_count' = ticks % TIME_MAX
  ELSE /\ run_pid' = IF QueEmpty(rq) THEN IDLE ELSE Head(rq)
       /\ state' = [st EXCEPT ![IDLE] = "READY", ![run_pid'] = "RUN"]
       /\ ready_que' = AfterDeQue(rq) /\ time_count' = 0

SchedulerWithoutEmptyTest(rp, st, rq, ticks) ==
  IF rp > IDLE
  THEN run_pid' = rp /\ state' = st /\ ready_que' = rq /\ time_count' = ticks
  ELSE /\ run_pid' = Dequeued(rq)
       /\ state' = [p \in Pids |-> IF p = run_pid' THEN "RUN" ELSE st[p]]
       /\ ready_que' = AfterDeQue(rq) /\ time_count' = 0

SchedulerTakesNewest(rp, st, rq, ticks) ==
  IF rp > IDLE
  THEN run_pid' = rp /\ state' = st /\ ready_que' = rq /\ time_count' = ticks
  ELSE /\ run_pid' = IF QueEmpty(rq) THEN IDLE ELSE rq[Len(rq)]
       /\ state' = [st EXCEPT ![IDLE] = "READY", ![run_pid'] = "RUN"]
       /\ ready_que' = SubSeq(rq, 1, Len(rq) - 1) /\ time_count' = 0

\* Scheduler(), entered with run_pid = rp and the tables st, rq; ticks is the
\* time_count of a process that keeps the CPU.
Scheduler(rp, st, rq, ticks) ==
  \/ /\ rp > IDLE
     /\ run_pid' = rp /\ state' = st /\ ready_que' = rq /\ time_count' = ticks
  \/ /\ rp <= IDLE /\ QueEmpty(rq)
     /\ run_pid' = IDLE /\ state' = [st EXCEPT ![IDLE] = "RUN"]
     /\ ready_que' = rq /\ time_count' = 0
  \/ /\ rp <= IDLE /\ ~QueEmpty(rq)
     /\ run_pid' = Head(rq) /\ state' = [st EXCEPT ![IDLE] = "READY", ![Head(rq)] = "RUN"]
     /\ ready_que' = AfterDeQue(rq) /\ time_count' = 0

\* Mutant of Demote: the pcb keeps its state.
DemoteWithoutState(st, rq) == Scheduler(NONE, st, EnQue(rq, run_pid), 0)

\* The caller goes to the tail of ready_que: at the end of its time slice, and
\* at the end of every system call that did not block it.
Demote(st, rq) ==
  Scheduler(NONE, [st EXCEPT ![run_pid] = "READY"], EnQue(rq, run_pid), 0)

\* The caller left the CPU inside the service routine.
Leave(st, rq) == Scheduler(NONE, st, rq, 0)

\* Mutant of Woken: the loop runs before the clock advances.
WokenBeforeTick(now) == {p \in Pids : wake_time[p] = sys_time_count /\ state[p] = "SLEEP"}

\* The sleepers whose wake time is now.
Woken(now) == {p \in Pids : wake_time[p] = now /\ state[p] = "SLEEP"}

TimerSR ==
  LET now == (sys_time_count + 1) % TIME_MOD
      st == [p \in Pids |-> IF p \in Woken(now) THEN "READY" ELSE state[p]]
  IN /\ sys_time_count' = now
     /\ \E batch \in InOrder(Woken(now)) :
          LET rq == EnQueAll(ready_que, batch)
          IN IF run_pid # IDLE /\ time_count + 1 = TIME_MAX
             THEN Demote(st, rq)
             ELSE Scheduler(run_pid, st, rq, time_count + 1)
     /\ UNCHANGED <<wake_time, family, video_mutex, tty>>

-----------------------------------------------------------------------------
\* Idle makes no system call.
Calls(service) == run_pid # IDLE /\ service \in Services

\* sys_get_pid, sys_get_time, sys_get_rand, sys_set_cursor, sys_signal: no
\* table of this module changes, but the caller is demoted.
SysInfo ==
  /\ Calls("info")
  /\ Demote(state, ready_que)
  /\ UNCHANGED <<clock, family, video_mutex, tty>>

SysSleep ==
  /\ Calls("sleep")
  /\ \E n \in SleepArgs :
       wake_time' = [wake_time EXCEPT ![run_pid] = (sys_time_count + n * SLEEP_UNIT) % TIME_MOD]
  /\ Leave([state EXCEPT ![run_pid] = "SLEEP"], ready_que)
  /\ UNCHANGED <<sys_time_count, family, video_mutex, tty>>

\* The child gets a copy of the caller's pcb.  With no pid left SysFork returns
\* NONE to the caller and SysVFork stops in the debugger; no table changes.
NewProcess ==
  \/ /\ QueEmpty(avail_que)
     /\ Demote(state, ready_que)
     /\ UNCHANGED <<wake_time, family>>
  \/ /\ ~QueEmpty(avail_que)
     /\ LET pidF == Head(avail_que)
        IN /\ ppid' = [ppid EXCEPT ![pidF] = run_pid]
           /\ wake_time' = [wake_time EXCEPT ![pidF] = wake_time[run_pid]]
           /\ Demote([state EXCEPT ![pidF] = "READY"], EnQue(ready_que, pidF))
     /\ avail_que' = AfterDeQue(avail_que)

SysFork ==
  /\ Calls("fork") /\ NewProcess
  /\ UNCHANGED <<sys_time_count, video_mutex, tty>>

SysVFork ==
  /\ Calls("vfork") /\ NewProcess
  /\ UNCHANGED <<sys_time_count, video_mutex, tty>>

\* Mutant of SysExit: it does not look at the parent's state.
SysExitAlwaysZombie ==
  /\ Calls("exit")
  /\ Leave([state EXCEPT ![run_pid] = "ZOMBIE"], ready_que)
  /\ UNCHANGED <<family, clock, video_mutex, tty>>

SysExit ==
  /\ Calls("exit")
  /\ LET parent == ppid[run_pid]
     IN \/ /\ state[parent] = "WAIT"
           /\ Leave([state EXCEPT ![parent] = "READY", ![run_pid] = "AVAIL"],
                    EnQue(ready_que, parent))
           /\ avail_que' = EnQue(avail_que, run_pid)
        \/ /\ state[parent] # "WAIT"
           /\ Leave([state EXCEPT ![run_pid] = "ZOMBIE"], ready_que)
           /\ UNCHANGED avail_que
  /\ UNCHANGED <<ppid, clock, video_mutex, tty>>

\* Mutant of Zombies: the search takes any zombie for a child.
ZombiesOfAnyone(p) == {c \in Pids : state[c] = "ZOMBIE"}

Zombies(p) == {c \in Pids : state[c] = "ZOMBIE" /\ ppid[c] = p}

SysWait ==
  /\ Calls("wait")
  /\ \/ /\ Zombies(run_pid) = {}
        /\ Leave([state EXCEPT ![run_pid] = "WAIT"], ready_que)
        /\ UNCHANGED avail_que
     \/ \E c \in Zombies(run_pid) :
          /\ \A d \in Zombies(run_pid) : c <= d       \* the first in pcb[]
          /\ avail_que' = EnQue(avail_que, c)
          /\ Demote([state EXCEPT ![c] = "AVAIL"], ready_que)
  /\ UNCHANGED <<ppid, clock, video_mutex, tty>>

\* sys_kill(0, SIGCONT) wakes the caller's sleeping children; any other
\* argument does nothing (SysInfo).
SysKill ==
  /\ Calls("kill")
  /\ LET woken == {c \in Pids : ppid[c] = run_pid /\ state[c] = "SLEEP"}
     IN \E batch \in InOrder(woken) :
          Demote([p \in Pids |-> IF p \in woken THEN "READY" ELSE state[p]],
                 EnQueAll(ready_que, batch))
  /\ UNCHANGED <<clock, family, video_mutex, tty>>

SysLockMutex ==
  /\ Calls("lock")
  /\ \/ /\ lock = "UNLOCKED" /\ lock' = "LOCKED"
        /\ Demote(state, ready_que)
        /\ UNCHANGED suspend_que
     \/ /\ lock = "LOCKED"
        /\ suspend_que' = EnQue(suspend_que, run_pid)
        /\ Leave([state EXCEPT ![run_pid] = "SUSPEND"], ready_que)
        /\ UNCHANGED lock
  /\ UNCHANGED <<clock, family, tty>>

\* Mutant of SysUnlockMutex: it wakes a waiter and frees the mutex as well.
SysUnlockMutexFrees ==
  /\ Calls("unlock")
  /\ lock' = "UNLOCKED" /\ suspend_que' = AfterDeQue(suspend_que)
  /\ \/ /\ ~QueEmpty(suspend_que)
        /\ Demote([state EXCEPT ![Head(suspend_que)] = "READY"],
                  EnQue(ready_que, Head(suspend_que)))
     \/ /\ QueEmpty(suspend_que)
        /\ Demote(state, ready_que)
  /\ UNCHANGED <<clock, family, tty>>

\* With a waiter the mutex stays LOCKED and passes to the first one.
SysUnlockMutex ==
  /\ Calls("unlock")
  /\ \/ /\ ~QueEmpty(suspend_que)
        /\ suspend_que' = AfterDeQue(suspend_que)
        /\ Demote([state EXCEPT ![Head(suspend_que)] = "READY"],
                  EnQue(ready_que, Head(suspend_que)))
        /\ UNCHANGED lock
     \/ /\ QueEmpty(suspend_que) /\ lock' = "UNLOCKED"
        /\ Demote(state, ready_que)
        /\ UNCHANGED suspend_que
  /\ UNCHANGED <<clock, family, tty>>

-----------------------------------------------------------------------------
\* SysWrite to the terminal queues the caller and calls TTYdspSR at once: an
\* empty string (ended) releases the first process of dsp_wait_que.
SysWrite ==
  /\ Calls("write")
  /\ LET waiting == EnQue(dsp_wait_que, run_pid)
         st == [state EXCEPT ![run_pid] = "IO_WAIT"]
     IN \/ /\ dsp_wait_que' = waiting
           /\ Leave(st, ready_que)
        \/ /\ dsp_wait_que' = AfterDeQue(waiting)
           /\ Leave([st EXCEPT ![Head(waiting)] = "READY"], EnQue(ready_que, Head(waiting)))
  /\ UNCHANGED <<clock, family, video_mutex, kb_wait_que>>

SysRead ==
  /\ Calls("read")
  /\ kb_wait_que' = EnQue(kb_wait_que, run_pid)
  /\ Leave([state EXCEPT ![run_pid] = "IO_WAIT"], ready_que)
  /\ UNCHANGED <<clock, family, video_mutex, dsp_wait_que>>

\* A terminal interrupt moves a character, or finds the end of the string of
\* the first writer, or receives the '\r' that ends the first reader's line.
\* After '\r' the echo queue holds two characters, so TTYdspSR releases nobody.
TTYSR ==
  /\ \/ /\ Scheduler(run_pid, state, ready_que, time_count)
        /\ UNCHANGED tty
     \/ /\ ~QueEmpty(dsp_wait_que)
        /\ dsp_wait_que' = AfterDeQue(dsp_wait_que)
        /\ Scheduler(run_pid, [state EXCEPT ![Head(dsp_wait_que)] = "READY"],
                     EnQue(ready_que, Head(dsp_wait_que)), time_count)
        /\ UNCHANGED kb_wait_que
     \/ /\ ~QueEmpty(kb_wait_que)
        /\ kb_wait_que' = AfterDeQue(kb_wait_que)
        /\ Scheduler(run_pid, [state EXCEPT ![Head(kb_wait_que)] = "READY"],
                     EnQue(ready_que, Head(kb_wait_que)), time_count)
        /\ UNCHANGED dsp_wait_que
  /\ UNCHANGED <<clock, family, video_mutex>>

-----------------------------------------------------------------------------
Next ==
  \/ TimerSR \/ TTYSR
  \/ SysInfo \/ SysSleep \/ SysFork \/ SysVFork \/ SysExit \/ SysWait \/ SysKill
  \/ SysLockMutex \/ SysUnlockMutex \/ SysWrite \/ SysRead

Spec == Init /\ [][Next]_vars

\* The timer chip interrupts periodically and user code runs with interrupts
\* enabled; nothing is assumed of the programs or of the terminal.
FairSpec == Spec /\ WF_vars(TimerSR)

-----------------------------------------------------------------------------
TypeOK ==
  /\ run_pid \in Pids
  /\ state \in [Pids -> States]
  /\ ppid \in [Pids -> Pids]
  /\ wake_time \in [Pids -> 0..(TIME_MOD - 1)] /\ sys_time_count \in 0..(TIME_MOD - 1)
  /\ time_count \in 0..(TIME_MAX - 1)
  /\ ready_que \in Seq(Pids) /\ avail_que \in Seq(Pids) /\ suspend_que \in Seq(Pids)
  /\ dsp_wait_que \in Seq(Pids) /\ kb_wait_que \in Seq(Pids)
  /\ lock \in {"LOCKED", "UNLOCKED"}

InState(s) == {p \in Users : state[p] = s}

\* Every process is where its state says it is, once: a READY one in ready_que,
\* a free pid in avail_que, a SUSPENDed one in the mutex's queue, one in
\* IO_WAIT in exactly one terminal queue, and no queue holds anyone else.  So
\* no EnQue ever meets a full queue and no process is lost or run twice.
QueuesMatchStates ==
  /\ Holds(ready_que, InState("READY"))
  /\ Holds(avail_que, InState("AVAIL"))
  /\ Holds(suspend_que, InState("SUSPEND"))
  /\ IsInjective(dsp_wait_que) /\ IsInjective(kb_wait_que)
  /\ Range(dsp_wait_que) \cap Range(kb_wait_que) = {}
  /\ Range(dsp_wait_que) \cup Range(kb_wait_que) = InState("IO_WAIT")

\* One process runs, it is the one run_pid names, and Idle is never anything
\* but running or ready (it is READY, not RUN, only until the first interrupt).
OneRunner ==
  /\ run_pid # IDLE => run_pid \in InState("RUN") /\ state[IDLE] = "READY"
  /\ InState("RUN") \subseteq {run_pid}
  /\ run_pid = IDLE => state[IDLE] \in {"READY", "RUN"}

\* Nobody is suspended on a mutex that is free: an unlock hands the mutex over
\* or there was nobody to hand it to.
NoLostMutexWaiter == lock = "UNLOCKED" => QueEmpty(suspend_que)

\* TimerSR compares for equality, so a sleeper must never find its wake time
\* already passed: it lies ahead, by no more than the longest sleep.
SleepersWillWake ==
  \A p \in InState("SLEEP") : \E n \in SleepArgs :
    (wake_time[p] - sys_time_count) % TIME_MOD \in 1..(n * SLEEP_UNIT)

\* A process blocked in sys_wait has no child that already exited: SysWait
\* looks before it blocks, and SysExit looks at the parent before it becomes a
\* zombie.
WaiterHasNoZombie == \A p \in InState("WAIT") : Zombies(p) = {}

\* A pid returns to avail_que only when its exit was delivered: it exits while
\* its parent waits, and the parent becomes ready, or it is a zombie and the
\* caller of sys_wait is its parent.
ReapedOnce ==
  [][\A p \in Users : state[p] # "AVAIL" /\ state'[p] = "AVAIL" =>
       \/ p = run_pid /\ state[ppid[p]] = "WAIT" /\ state'[ppid[p]] # "WAIT"
       \/ state[p] = "ZOMBIE" /\ ppid[p] = run_pid /\ state'[run_pid] # "WAIT"]_vars

\* Every ready process runs, whatever the programs do.
ReadyRuns == \A p \in Users : (state[p] = "READY") ~> (state[p] = "RUN")

\* The scheduler is a round robin over one line: the CPU goes to the process
\* that has waited longest, never past it, and to Idle only when nobody waits.
RR == INSTANCE RoundRobin WITH Proc <- Users, Idle <- IDLE, First <- 1,
                               current <- run_pid, line <- ready_que
RoundRobinScheduling == RR!Spec
=============================================================================
