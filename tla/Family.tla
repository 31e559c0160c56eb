------------------------------- MODULE Family -------------------------------
(***************************************************************************)
(* Phase 5, src/p5: the kernel whose processes make copies of themselves,  *)
(* under its program.  Init forks CHILDREN times, then collects the exits  *)
(* of its children and reports each one; a child sleeps COLS times and     *)
(* exits with the time it slept.  The space bar starts another Init, so    *)
(* that the pids may run out in the middle of a family.                    *)
(*                                                                         *)
(* A fork copies a page, and the pointers in it have to be moved into the  *)
(* copy one by one.  A pointer is the pid whose page it points into, which *)
(* moves as the addresses do: by pidF - run_pid.  The locals of a process  *)
(* are found through its base pointer.                                     *)
(***************************************************************************)
EXTENDS Queue

CONSTANTS
  CHILDREN,     \* forks of an Init (5)
  COLS,         \* sleeps of a child (70)
  Periods,      \* sleeping periods: get_rand / my_pid % 4 + 1
  NAP,          \* ticks of sys_sleep(1) (10)
  TIME_MAX,     \* timer ticks of a time slice (310)
  BURST,        \* bound: ticks between two calls of a program
  INITS         \* bound: Init processes started in all

IDLE == 0
Pids == 0..(QUE_MAX - 1)
Codes == 0..(4 * COLS)   \* of children

\* A program calls the kernel far more often than once in a time slice.
ASSUME FamilyAssumption ==
  /\ QUE_MAX \in Nat /\ QUE_MAX >= 2 /\ CHILDREN \in Nat \ {0} /\ COLS \in Nat \ {0}
  /\ Periods \subseteq 1..4 /\ NAP \in Nat \ {0} /\ INITS \in Nat \ {0}
  /\ TIME_MAX \in Nat /\ BURST \in 1..(TIME_MAX - 1)

\* The calls of proc.c by what becomes of a process: it is still the one that
\* was spawned, it is a copy, or a fork has failed.
Text ==
  [Init   |-> <<"fork", "get_pid",
                "wait", "lock", "set_cursor", "write", "write", "write", "write", "unlock",
                "write", "exit">>,
   Child  |-> <<"get_pid",
                "lock", "set_cursor", "write", "unlock", "get_rand", "sleep",
                "exit">>,
   Failed |-> <<"write", "exit">>]

VARIABLES
  run_pid, ready_que, avail_que,
  time_count,   \* of the running process; not kept for Idle
  pcb,          \* state, ppid, tf_p; wake_in: ticks until wake_time = sys_time_count
  page,         \* the page with p as index: at, the call its code makes next; eip
                \* and ebp of the trapframe; bp and ret, the words at ebp; the
                \* variables of Init()
  video_mutex,
  inits,        \* Init processes started so far
  slept,        \* history: the time p has asked for
  ended         \* history: exits of children that p has not yet reported

sched == <<run_pid, ready_que, avail_que, time_count>>
memory == <<pcb, page>>
history == <<slept, ended>>
familyVars == <<sched, memory, video_mutex, inits, history>>

\* The pcb and the page that SpawnSR leaves.
Cleared(pid) == [state |-> "READY", ppid |-> IDLE, wake_in |-> 0, tf_p |-> pid]
Loaded(pid) ==
  [at |-> <<"Init", 1>>, eip |-> pid, ebp |-> pid, bp |-> pid, ret |-> pid,
   i |-> 0, period |-> 0, total |-> 0, exit_pid |-> 0, exit_code |-> 0]

\* BootStrap, SpawnSR(&Idle), SpawnSR(&Init).
FamilyInit ==
  /\ run_pid = IDLE /\ time_count = 0
  /\ ready_que = <<1>> /\ avail_que = [n \in 1..(QUE_MAX - 2) |-> n + 1]
  /\ pcb = [p \in Pids |-> IF p < 2 THEN Cleared(p) ELSE [Cleared(p) EXCEPT !.state = "AVAIL"]]
  /\ page = [p \in Pids |-> Loaded(p)]
  /\ video_mutex = [lock |-> FALSE, suspend_que |-> << >>]
  /\ inits = 1 /\ slept = [p \in Pids |-> 0] /\ ended = [p \in Pids |-> {}]

-----------------------------------------------------------------------------
\* Scheduler(), entered with run_pid = rp and the tables pc, rq.
Scheduler(rp, pc, rq, ticks) ==
  IF rp > IDLE
  THEN run_pid' = rp /\ pcb' = pc /\ ready_que' = rq /\ time_count' = ticks
  ELSE /\ run_pid' = IF QueEmpty(rq) THEN IDLE ELSE Head(rq)
       /\ pcb' = [pc EXCEPT ![IDLE].state = "READY", ![run_pid'].state = "RUN"]
       /\ ready_que' = AfterDeQue(rq) /\ time_count' = 0

\* The end of Kernel(): the space bar may have been pressed.  SpawnSR without a
\* pid stops in the debugger.
Dispatch(rp, pc, pg, rq, aq, ticks) ==
  \/ /\ Scheduler(rp, pc, rq, ticks)
     /\ avail_que' = aq /\ page' = pg /\ inits' = inits
  \/ /\ inits < INITS /\ inits' = inits + 1 /\ ~QueEmpty(aq) /\ avail_que' = Tail(aq)
     /\ LET pid == Head(aq)
        IN /\ Scheduler(rp, [pc EXCEPT ![pid] = Cleared(pid)], EnQue(rq, pid), ticks)
           /\ page' = [pg EXCEPT ![pid] = Loaded(pid)]

\* The end of SyscallSR for a call that did not block; and for one that did.
Demote(pc, pg, rq, aq) ==
  Dispatch(NONE, [pc EXCEPT ![run_pid].state = "READY"], pg, EnQue(rq, run_pid), aq, 0)
Leave(pc, pg, rq, aq) == Dispatch(NONE, pc, pg, rq, aq, 0)

TimerSR ==
  /\ run_pid # IDLE => time_count < BURST
  /\ LET woken == {p \in Pids : pcb[p].state = "SLEEP" /\ pcb[p].wake_in = 1}
         pc == [p \in Pids |->
                 [pcb[p] EXCEPT !.state = IF p \in woken THEN "READY" ELSE @,
                                !.wake_in = IF @ = 0 THEN 0 ELSE @ - 1]]
     IN \E batch \in InOrder(woken) :
          LET rq == EnQueAll(ready_que, batch)
          IN IF run_pid = IDLE THEN Dispatch(IDLE, pc, page, rq, avail_que, 0)
             ELSE IF time_count + 1 = TIME_MAX THEN Demote(pc, page, rq, avail_que)
             ELSE Dispatch(run_pid, pc, page, rq, avail_que, time_count + 1)
  /\ UNCHANGED <<video_mutex, history>>

-----------------------------------------------------------------------------
\* The running process has come to this call; the page of the variables it sees.
Place == page[run_pid].at
Calls(call) == run_pid # IDLE /\ Text[Place[1]][Place[2]] = call
Frame(p) == page[p].bp
Variable == page[Frame(run_pid)]

\* Where the program goes on.
LoopEnds == Variable.i + 1 = IF Place[1] = "Init" THEN CHILDREN ELSE COLS
Onward ==
  CASE Place = <<"Init", 10>> /\ ~LoopEnds -> <<"Init", 3>>
    [] Place = <<"Child", 7>> /\ ~LoopEnds -> <<"Child", 2>>
    [] OTHER -> <<Place[1], Place[2] + 1>>

\* The page table after the running process has gone on behind its call, with v
\* for its variables.
Stored(v) ==
  [page EXCEPT
    ![Frame(run_pid)] = [@ EXCEPT !.i = v.i, !.period = v.period, !.total = v.total],
    ![run_pid].at = Onward]

\* get_pid stands before a loop, whose variables are set to 0 behind it.
SysGetPid ==
  /\ Calls("get_pid")
  /\ Demote(pcb, Stored([Variable EXCEPT !.i = 0, !.total = 0]), ready_que, avail_que)
  /\ UNCHANGED <<video_mutex, history>>

\* Where on the screen a text appears is not modelled.
SysWriteText ==
  /\ Calls("write") /\ Demote(pcb, Stored(Variable), ready_que, avail_que)
  /\ UNCHANGED <<video_mutex, history>>

SysSetCursor ==
  /\ Calls("set_cursor") /\ Demote(pcb, Stored(Variable), ready_que, avail_que)
  /\ UNCHANGED <<video_mutex, history>>

SysGetRand ==
  /\ Calls("get_rand")
  /\ \E n \in Periods :
       Demote(pcb, Stored([Variable EXCEPT !.period = n]), ready_que, avail_que)
  /\ UNCHANGED <<video_mutex, history>>

\* SysSleep, and the end of the child's loop behind it.
SysSleep ==
  /\ Calls("sleep")
  /\ LET n == Variable.period
     IN /\ Leave([pcb EXCEPT ![run_pid] = [@ EXCEPT !.state = "SLEEP", !.wake_in = n * NAP]],
                 Stored([Variable EXCEPT !.total = @ + n, !.i = @ + 1]), ready_que, avail_que)
        /\ slept' = [slept EXCEPT ![run_pid] = @ + n]
  /\ UNCHANGED <<video_mutex, ended>>

SysLockMutex ==
  /\ Calls("lock")
  /\ \/ /\ ~video_mutex.lock /\ video_mutex' = [video_mutex EXCEPT !.lock = TRUE]
        /\ Demote(pcb, Stored(Variable), ready_que, avail_que)
     \/ /\ video_mutex.lock
        /\ video_mutex' = [video_mutex EXCEPT !.suspend_que = EnQue(@, run_pid)]
        /\ Leave([pcb EXCEPT ![run_pid].state = "SUSPEND"], Stored(Variable),
                 ready_que, avail_que)
  /\ UNCHANGED history

\* Mutant of SysUnlockMutex: it frees the mutex and releases nobody.
SysUnlockMutexFrees ==
  /\ Calls("unlock")
  /\ video_mutex' = [video_mutex EXCEPT !.lock = FALSE]
  /\ Demote(pcb, Stored([Variable EXCEPT !.i = IF Place[1] = "Init" THEN @ + 1 ELSE @]),
            ready_que, avail_que)
  /\ ended' = [ended EXCEPT ![run_pid] = @ \ {<<Variable.exit_pid, Variable.exit_code>>}]
  /\ UNCHANGED slept

\* SysUnlockMutex; in Init it ends a report, and a turn of the loop.
SysUnlockMutex ==
  /\ Calls("unlock")
  /\ LET reports == Place[1] = "Init"
         pg == Stored([Variable EXCEPT !.i = IF reports THEN @ + 1 ELSE @])
         first == Head(video_mutex.suspend_que)
     IN /\ \/ /\ QueEmpty(video_mutex.suspend_que)
              /\ video_mutex' = [video_mutex EXCEPT !.lock = FALSE]
              /\ Demote(pcb, pg, ready_que, avail_que)
           \/ /\ ~QueEmpty(video_mutex.suspend_que)
              /\ video_mutex' = [video_mutex EXCEPT !.suspend_que = Tail(@)]
              /\ Demote([pcb EXCEPT ![first].state = "READY"], pg, EnQue(ready_que, first),
                        avail_que)
        /\ ended' = IF reports
                    THEN [ended EXCEPT ![run_pid] =
                           @ \ {<<Variable.exit_pid, Variable.exit_code>>}]
                    ELSE ended
  /\ UNCHANGED slept

-----------------------------------------------------------------------------
\* Mutant of Moved: what the copied base pointer points to is left alone.
MovedButFrame(pg, pidF) ==
  LET distance == pidF - run_pid
  IN [pg EXCEPT ![pidF].eip = @ + distance, ![pidF].ebp = @ + distance]

\* The pointers of a copy in pidF, moved by the distance between the pages.
Moved(pg, pidF) ==
  LET distance == pidF - run_pid
  IN [pg EXCEPT ![pidF].eip = @ + distance, ![pidF].ebp = @ + distance,
                ![pidF].bp = @ + distance, ![pidF].ret = @ + distance]

\* SysFork: the child is queued before its caller is demoted, and breaks the
\* loop; without a pid the caller gets NONE and gives up.
SysFork ==
  /\ Calls("fork")
  /\ \/ /\ QueEmpty(avail_que)
        /\ Demote(pcb, [page EXCEPT ![run_pid].at = <<"Failed", 1>>], ready_que, avail_que)
        /\ UNCHANGED slept
     \/ /\ ~QueEmpty(avail_que)
        /\ LET pidF == Head(avail_que)
               copy == [pcb[run_pid] EXCEPT !.state = "READY", !.ppid = run_pid,
                                            !.tf_p = @ + pidF - run_pid]
               image == [page EXCEPT ![pidF] = page[run_pid]]
               next == IF LoopEnds THEN 2 ELSE 1
           IN /\ Demote([pcb EXCEPT ![pidF] = copy],
                        [Moved(image, pidF) EXCEPT ![pidF].at = <<"Child", 1>>,
                           ![Frame(run_pid)].i = @ + 1, ![run_pid].at[2] = next],
                        EnQue(ready_que, pidF), AfterDeQue(avail_que))
              /\ slept' = [slept EXCEPT ![pidF] = 0]
  /\ UNCHANGED <<video_mutex, ended>>

\* ebx of a process that has called sys_exit.
ExitCode(p) ==
  CASE page[p].at[1] = "Init" -> 0
    [] page[p].at[1] = "Failed" -> NONE
    [] OTHER -> page[Frame(p)].total

\* Pid and exit code of c, where sys_wait of p finds them.
Told(p, c) ==
  [page EXCEPT ![Frame(p)] = [@ EXCEPT !.exit_pid = c, !.exit_code = ExitCode(c)]]

SysExit ==
  /\ Calls("exit")
  /\ LET parent == pcb[run_pid].ppid
     IN /\ \/ /\ pcb[parent].state = "WAIT"
              /\ Leave([pcb EXCEPT ![parent].state = "READY", ![run_pid].state = "AVAIL"],
                       Told(parent, run_pid), EnQue(ready_que, parent),
                       EnQue(avail_que, run_pid))
           \/ /\ pcb[parent].state # "WAIT"
              /\ Leave([pcb EXCEPT ![run_pid].state = "ZOMBIE"], page, ready_que, avail_que)
        /\ ended' = IF parent = IDLE THEN ended
                    ELSE [ended EXCEPT ![parent] = @ \cup {<<run_pid, slept[run_pid]>>}]
  /\ UNCHANGED <<video_mutex, slept>>

\* Mutant of Zombies: the parent is not compared.
ZombiesOfAnyone(p) == {c \in Pids : pcb[c].state = "ZOMBIE"}

Zombies(p) == {c \in Pids : pcb[c].state = "ZOMBIE" /\ pcb[c].ppid = p}

SysWait ==
  /\ Calls("wait")
  /\ IF Zombies(run_pid) = {}
     THEN Leave([pcb EXCEPT ![run_pid].state = "WAIT"], Stored(Variable), ready_que, avail_que)
     ELSE \E c \in Zombies(run_pid) :
            /\ \A d \in Zombies(run_pid) : c <= d
            /\ Demote([pcb EXCEPT ![c].state = "AVAIL"],
                      [Told(run_pid, c) EXCEPT ![run_pid].at = Onward],
                      ready_que, EnQue(avail_que, c))
  /\ UNCHANGED <<video_mutex, history>>

Runs ==
  \/ SysGetPid \/ SysWriteText \/ SysSetCursor \/ SysGetRand \/ SysSleep
  \/ SysLockMutex \/ SysUnlockMutex \/ SysFork \/ SysExit \/ SysWait

FamilyNext == TimerSR \/ Runs

\* The timer interrupts for ever, and the running program goes on.
FamilySpec ==
  FamilyInit /\ [][FamilyNext]_familyVars /\ WF_familyVars(TimerSR) /\ WF_familyVars(Runs)

-----------------------------------------------------------------------------
Living == {p \in Pids : pcb[p].state \notin {"AVAIL", "ZOMBIE"}}

\* The tables and the variables are what their types say, no process is in two
\* queues, and every pointer of a living process points into its own page.
FamilyTypeOK ==
  /\ run_pid \in Pids /\ time_count \in 0..BURST /\ inits \in 1..INITS
  /\ \A p \in Pids :
       /\ pcb[p].state \in {"AVAIL", "READY", "RUN", "SLEEP", "SUSPEND", "WAIT", "ZOMBIE"}
       /\ pcb[p].ppid \in Pids /\ pcb[p].wake_in \in 0..(4 * NAP)
       /\ page[p].at[2] \in DOMAIN Text[page[p].at[1]]
       /\ page[p].i \in 0..(CHILDREN + COLS) /\ page[p].total \in Codes
       /\ page[p].exit_code \in Codes \cup {NONE}
  /\ LET queued == ready_que \o avail_que \o video_mutex.suspend_que
     IN IsInjective(queued) /\ Range(queued) \subseteq Pids
  /\ \A p \in Living :
       {pcb[p].tf_p, page[p].eip, page[p].ebp, page[p].bp, page[p].ret} = {p}

\* p5/0-README.txt: the exit code of the child "can be given to the parent".
\* What an Init reports is the exit, not reported before, of a child of its
\* own, with the time that child has slept; and when it has done its loop it
\* has reported them all.
ReportsAreRight ==
  \A p \in Living :
    /\ pcb[p].state # "WAIT" /\ page[p].at \in {<<"Init", n>> : n \in 4..10} =>
         <<page[p].exit_pid, page[p].exit_code>> \in ended[p]
    /\ page[p].at \in {<<"Init", n>> : n \in 11..12} =>
         ended[p] = {} /\ \A c \in Pids : pcb[c].ppid = p => pcb[c].state = "AVAIL"

\* Every process of every family comes to its exit, also those of an Init that
\* gave up when the pids ran out.
FamilyEnds ==
  \A p \in Pids \ {IDLE} : (pcb[p].state = "READY") ~> (pcb[p].state \in {"AVAIL", "ZOMBIE"})
=============================================================================
