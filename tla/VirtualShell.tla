---------------------------- MODULE VirtualShell ----------------------------
(***************************************************************************)
(* Phase 8, src/p8: the kernel that gives a process of sys_vfork a virtual *)
(* space of five pages, under its programs.  Login reads two lines and     *)
(* creates Shell; Shell reads a command, creates a process for it, waits   *)
(* for its exit and reports it.                                            *)
(*                                                                         *)
(* sys_read does not call the kernel for a key: it takes it out of         *)
(* kb.buffer itself, in the process, with DeQue, while every interrupt may *)
(* run KBSR and put a key in.  So beside one action per entry of the       *)
(* kernel (service, KBSR, Scheduler) there is one action per access of     *)
(* DeQue to the buffer.  Nothing locks the buffer.                         *)
(*                                                                         *)
(* A program is the sequence of its calls.  Which characters a line holds, *)
(* and so which command it is and when it ends, is left open; a key is its *)
(* number in the order of typing, modulo KEY_MOD, until two accesses to the *)
(* buffer have first collided.                                             *)
(***************************************************************************)
EXTENDS Queue

CONSTANTS
  PAGE_MAX,     \* pages of DRAM (100)
  SPACE,        \* pages of a virtual space (5)
  TIME_MAX,     \* timer ticks of a time slice (310)
  BURST,        \* bound: ticks between two calls of a program
  NAP,          \* ticks of sys_sleep(1) (10)
  STR_MAX,      \* bytes of a string (20)
  AHEAD,        \* bound: keys in kb.buffer
  KEY_MOD,      \* keys are numbered modulo this
  Sums          \* sums of two dice

IDLE == 0
Login == 1
Shell == 2      \* the first pid that Login finds in avail_que
Pids == 0..(QUE_MAX - 1)
Pages == 0..(PAGE_MAX - 1)
Keys == 1..KEY_MOD

\* A program calls the kernel far more often than once in a time slice.  With
\* fewer keys than cells DeQue's last store stays in the array.
ASSUME VirtualShellAssumption ==
  /\ QUE_MAX \in Nat /\ QUE_MAX >= 4 /\ SPACE \in Nat \ {0}
  /\ PAGE_MAX \in Nat /\ PAGE_MAX >= 2 * SPACE + 2 /\ TIME_MAX \in Nat
  /\ BURST \in 1..(TIME_MAX - 1) /\ NAP \in Nat \ {0} /\ STR_MAX \in Nat \ {0, 1}
  /\ AHEAD \in 1..(QUE_MAX - 1) /\ KEY_MOD \in Nat /\ KEY_MOD > AHEAD + 1 /\ Sums \subseteq 2..12

\* Mutant of Text: ShellRoll exits at once.
TextRollExits ==
  [Login     |-> <<"write", "read", "write", "read", "write", "vfork", "exit">>,
   Shell     |-> <<"write", "read", "vfork", "wait",
                   "write", "write", "write", "write", "write", "write",
                   "write", "write", "write", "write">>,
   ShellDir  |-> <<"write", "write", "write", "write", "exit">>,
   ShellCal  |-> <<"write", "write", "write", "write", "write", "exit">>,
   ShellRoll |-> <<"exit">>]

\* The calls of the programs.  Shell's last four are ShellCmds.
Text ==
  [Login     |-> <<"write", "read", "write", "read", "write", "vfork", "exit">>,
   Shell     |-> <<"write", "read", "vfork", "wait",
                   "write", "write", "write", "write", "write", "write",
                   "write", "write", "write", "write">>,
   ShellDir  |-> <<"write", "write", "write", "write", "exit">>,
   ShellCal  |-> <<"write", "write", "write", "write", "write", "exit">>,
   ShellRoll |-> <<"get_rand", "get_rand", "exit">>]

\* Where a program may go on after the call at n.
Onward(program, n) ==
  CASE program = "Login" /\ n = 5 -> {1, 6}
    [] program = "Shell" /\ n = 2 -> {3, 11}
    [] program = "Shell" /\ n \in {10, 14} -> {1}
    [] OTHER -> {n + 1}

\* What a program may pass to sys_vfork.
Started(program) ==
  IF program = "Login" THEN {"Shell"} ELSE {"ShellDir", "ShellCal", "ShellRoll"}

VARIABLES
  run_pid, state, ready_que, avail_que, ppid,
  time_count,   \* of the running process; not kept for Idle
  wake_in,      \* ticks until pcb[p].wake_time = sys_time_count
  page,         \* page[i].pid
  space,        \* the pages p runs in, by the address in its Dir
  at,           \* the call p makes next: its program, and the place in it
  sum,          \* d1 + d2 of ShellRoll; 0 in the other programs
  report,       \* edx and *exit_code_ptr in the space of p, as sys_wait left them
  kb,           \* kb.buffer: que, tail
  reader,       \* sys_read: the next access to the buffer, and its locals
  typed, seen,  \* history: the last key typed, the last one sys_read returned
  raced         \* history: a key came while DeQue had half removed another

sched == <<run_pid, state, ready_que, time_count>>
memory == <<page, space>>
program == <<at, sum, report>>
keys == <<kb, typed, raced>>
vars == <<sched, avail_que, ppid, wake_in, memory, program, keys, reader, seen>>

\* SpawnSR(&Idle), SpawnSR(&Login): READY, each in the page with its pid as
\* index.
Spawned == {IDLE, Login}

Init ==
  /\ run_pid = IDLE /\ time_count = 0
  /\ state = [p \in Pids |-> IF p \in Spawned THEN "READY" ELSE "AVAIL"]
  /\ ready_que = <<Login>> /\ avail_que = [n \in 1..(QUE_MAX - 2) |-> n + 1]
  /\ ppid = [p \in Pids |-> IDLE] /\ wake_in = [p \in Pids |-> 0]
  /\ page = [n \in Pages |-> IF n \in Spawned THEN n ELSE NONE]
  /\ space = [p \in Pids |-> IF p \in Spawned THEN {p} ELSE {}]
  /\ at = [p \in Pids |-> <<"Login", 1>>] /\ sum = [p \in Pids |-> 0]
  /\ report = [p \in Pids |-> <<0, 0>>]
  /\ kb = [que |-> [n \in 0..(QUE_MAX - 1) |-> 0], tail |-> 0]
  /\ reader = [step |-> "look", i |-> 0, aim |-> 0, head |-> 0, index |-> 0]
  /\ typed = KEY_MOD /\ seen = KEY_MOD /\ raced = FALSE

-----------------------------------------------------------------------------
\* The n-th key after key k.
After(k, n) == ((k + n - 1) % KEY_MOD) + 1

\* EnQue into the array.
Added(k, num) == [que |-> [k.que EXCEPT ![k.tail] = num], tail |-> k.tail + 1]

\* KBSR, the end of every entry of the kernel.  No process of this phase is
\* ever in kb.wait_que.
KBSR ==
  \/ UNCHANGED keys
  \/ /\ kb.tail < AHEAD
     /\ typed' = (IF raced THEN typed ELSE After(typed, 1)) /\ kb' = Added(kb, typed')
     /\ raced' = (raced \/ reader.step \in {"lower", "clear"})

\* Scheduler(), entered with run_pid = rp and the tables st, rq.
Scheduler(rp, st, rq, ticks) ==
  IF rp > IDLE
  THEN run_pid' = rp /\ state' = st /\ ready_que' = rq /\ time_count' = ticks
  ELSE /\ run_pid' = IF QueEmpty(rq) THEN IDLE ELSE Head(rq)
       /\ state' = [st EXCEPT ![IDLE] = "READY", ![run_pid'] = "RUN"]
       /\ ready_que' = AfterDeQue(rq) /\ time_count' = 0

Demote(st, rq) ==
  Scheduler(NONE, [st EXCEPT ![run_pid] = "READY"], EnQue(rq, run_pid), 0)

Leave(st, rq) == Scheduler(NONE, st, rq, 0)

TimerSR ==
  /\ run_pid # IDLE => time_count < BURST
  /\ LET woken == {p \in Pids : state[p] = "SLEEP" /\ wake_in[p] = 1}
         st == [p \in Pids |-> IF p \in woken THEN "READY" ELSE state[p]]
     IN \E batch \in InOrder(woken) :
          LET rq == EnQueAll(ready_que, batch)
          IN IF run_pid = IDLE THEN Scheduler(IDLE, st, rq, 0)
             ELSE IF time_count + 1 = TIME_MAX THEN Demote(st, rq)
             ELSE Scheduler(run_pid, st, rq, time_count + 1)
  /\ wake_in' = [p \in Pids |-> IF wake_in[p] = 0 THEN 0 ELSE wake_in[p] - 1]
  /\ KBSR
  /\ UNCHANGED <<avail_que, ppid, memory, program, reader, seen>>

\* The running process has come to this call; where it may go on behind it.
Place == at[run_pid]
Calls(call) == run_pid # IDLE /\ Text[Place[1]][Place[2]] = call
Behind == {[at EXCEPT ![run_pid][2] = n] : n \in Onward(Place[1], Place[2])}

\* The text appears on the screen; nothing else depends on it.
SysWrite ==
  /\ Calls("write") /\ at' \in Behind
  /\ Demote(state, ready_que) /\ KBSR
  /\ UNCHANGED <<avail_que, ppid, wake_in, memory, sum, report, reader, seen>>

SysGetRand ==
  /\ Calls("get_rand") /\ at' \in Behind
  /\ \E n \in Sums : sum' = [sum EXCEPT ![run_pid] = n]
  /\ Demote(state, ready_que) /\ KBSR
  /\ UNCHANGED <<avail_que, ppid, wake_in, memory, report, reader, seen>>

\* The first SPACE free pages.
Allocated ==
  LET free == {n \in Pages : page[n] = NONE}
  IN {n \in free : Cardinality({m \in free : m < n}) < SPACE}

\* The child is queued before its caller is, and so runs first.  There are
\* always a pid and five pages; without them the kernel stops in the debugger.
SysVFork ==
  /\ Calls("vfork") /\ ~QueEmpty(avail_que) /\ Cardinality(Allocated) = SPACE
  /\ LET pidF == Head(avail_que)
     IN /\ ppid' = [ppid EXCEPT ![pidF] = run_pid]
        /\ page' = [n \in Pages |-> IF n \in Allocated THEN pidF ELSE page[n]]
        /\ space' = [space EXCEPT ![pidF] = Allocated]
        /\ sum' = [sum EXCEPT ![pidF] = 0] /\ report' = [report EXCEPT ![pidF] = <<0, 0>>]
        /\ \E a \in Behind, p \in Started(Place[1]) : at' = [a EXCEPT ![pidF] = <<p, 1>>]
        /\ Demote([state EXCEPT ![pidF] = "READY"], EnQue(ready_que, pidF))
  /\ avail_que' = AfterDeQue(avail_que) /\ KBSR
  /\ UNCHANGED <<wake_in, reader, seen>>

\* page[] after the pages of p have been given back.
Reclaimed(p) == [n \in Pages |-> IF page[n] = p THEN NONE ELSE page[n]]

\* Mutants of SysExit: it writes to the exit code's address in its own space,
\* where edx and ebx of the parent are not; it never looks at the parent.
SysExitInOwnSpace ==
  /\ Calls("exit")
  /\ LET parent == ppid[run_pid]
     IN IF state[parent] = "WAIT"
        THEN /\ report' = [report EXCEPT ![run_pid] = <<run_pid, sum[run_pid]>>]
             /\ avail_que' = EnQue(avail_que, run_pid)
             /\ Leave([state EXCEPT ![parent] = "READY", ![run_pid] = "AVAIL"],
                      EnQue(ready_que, parent))
        ELSE /\ Leave([state EXCEPT ![run_pid] = "ZOMBIE"], ready_que)
             /\ UNCHANGED <<report, avail_que>>
  /\ page' = Reclaimed(run_pid) /\ KBSR
  /\ UNCHANGED <<ppid, wake_in, space, at, sum, reader, seen>>

SysExitAlwaysZombie ==
  /\ Calls("exit") /\ Leave([state EXCEPT ![run_pid] = "ZOMBIE"], ready_que)
  /\ page' = Reclaimed(run_pid) /\ KBSR
  /\ UNCHANGED <<avail_que, report, ppid, wake_in, space, at, sum, reader, seen>>

\* sys_exit: cr3 is the parent's Dir while pid and code are written.
SysExit ==
  /\ Calls("exit")
  /\ LET parent == ppid[run_pid]
     IN \/ /\ state[parent] = "WAIT"
           /\ report' = [report EXCEPT ![parent] = <<run_pid, sum[run_pid]>>]
           /\ avail_que' = EnQue(avail_que, run_pid)
           /\ Leave([state EXCEPT ![parent] = "READY", ![run_pid] = "AVAIL"],
                    EnQue(ready_que, parent))
        \/ /\ state[parent] # "WAIT"
           /\ Leave([state EXCEPT ![run_pid] = "ZOMBIE"], ready_que)
           /\ UNCHANGED <<report, avail_que>>
  /\ page' = Reclaimed(run_pid) /\ KBSR
  /\ UNCHANGED <<ppid, wake_in, space, at, sum, reader, seen>>

Zombies(p) == {c \in Pids : state[c] = "ZOMBIE" /\ ppid[c] = p}

\* A zombie's code is read in pages it has given back, and may be anything by
\* now.  The pages given back here are the caller's.
SysWait ==
  /\ Calls("wait") /\ at' \in Behind
  /\ IF Zombies(run_pid) = {}
     THEN /\ Leave([state EXCEPT ![run_pid] = "WAIT"], ready_que)
          /\ UNCHANGED <<avail_que, page, report>>
     ELSE \E c \in Zombies(run_pid), code \in {0} \cup Sums :
            /\ \A d \in Zombies(run_pid) : c <= d
            /\ report' = [report EXCEPT ![run_pid] = <<c, code>>]
            /\ avail_que' = EnQue(avail_que, c) /\ page' = Reclaimed(run_pid)
            /\ Demote([state EXCEPT ![c] = "AVAIL"], ready_que)
  /\ KBSR
  /\ UNCHANGED <<ppid, wake_in, space, sum, reader, seen>>

-----------------------------------------------------------------------------
\* sys_read, in the process.
Reading(step) == Calls("read") /\ reader.step = step
InProcess == UNCHANGED <<sched, avail_que, ppid, wake_in, memory, program, typed, raced, seen>>

\* while (QueEmpty(&kb.buffer)) sys_sleep(1);
SysSleep ==
  /\ Reading("look") /\ kb.tail = 0
  /\ wake_in' = [wake_in EXCEPT ![run_pid] = NAP]
  /\ Leave([state EXCEPT ![run_pid] = "SLEEP"], ready_que) /\ KBSR
  /\ UNCHANGED <<avail_que, ppid, memory, program, reader, seen>>

\* Otherwise DeQue is called and has copied the first cell: KBSR cannot change
\* what is read up to there.
TakeHead ==
  /\ Reading("look") /\ kb.tail # 0
  /\ reader' = [reader EXCEPT !.step = "shift", !.i = 0, !.head = kb.que[0]]
  /\ UNCHANGED kb /\ InProcess

\* Mutant of Shift: the loop ends one cell early.
ShiftButLast ==
  /\ Reading("shift")
  /\ IF reader.i < kb.tail - 2
     THEN /\ kb' = [kb EXCEPT !.que[reader.i] = kb.que[reader.i + 1]]
          /\ reader' = [reader EXCEPT !.i = @ + 1]
     ELSE reader' = [reader EXCEPT !.step = "lower", !.i = 0] /\ UNCHANGED kb
  /\ InProcess

\* The test of the for loop, which reads tail each time, and its body.
Shift ==
  /\ Reading("shift")
  /\ \/ /\ reader.i < kb.tail - 1
        /\ kb' = [kb EXCEPT !.que[reader.i] = kb.que[reader.i + 1]]
        /\ reader' = [reader EXCEPT !.i = @ + 1]
     \/ /\ reader.i >= kb.tail - 1
        /\ reader' = [reader EXCEPT !.step = "lower", !.i = 0] /\ UNCHANGED kb
  /\ InProcess

\* p->tail--, one instruction on the memory cell.
Lower ==
  /\ Reading("lower") /\ kb' = [kb EXCEPT !.tail = @ - 1]
  /\ reader' = [reader EXCEPT !.step = "aim"] /\ InProcess

\* p->que[p->tail] = NONE: the index is loaded, then the cell is stored.
Aim ==
  /\ Reading("aim") /\ reader' = [reader EXCEPT !.step = "clear", !.aim = kb.tail]
  /\ UNCHANGED kb /\ InProcess

Clear ==
  /\ Reading("clear") /\ kb' = [kb EXCEPT !.que[reader.aim] = NONE]
  /\ reader' = [reader EXCEPT !.step = "echo", !.aim = 0] /\ InProcess

\* Mutant of LastOfLine: it leaves no room for the NUL.
LastOfLineLate(n) == n = STR_MAX

\* The loop of sys_read ends when n keys are stored.
LastOfLine(n) == n = STR_MAX - 1

\* The key is echoed; it is RETURN and ends the line, or is stored, and may be
\* the last one the string has room for.
SysWriteEcho ==
  /\ Reading("echo") /\ seen' = IF raced THEN seen ELSE reader.head
  /\ \/ /\ reader.head # NONE \/ LastOfLine(reader.index + 1)
        /\ at' \in Behind
        /\ reader' = [reader EXCEPT !.step = "look", !.head = 0, !.index = 0]
     \/ /\ ~LastOfLine(reader.index + 1)
        /\ reader' = [reader EXCEPT !.step = "look", !.head = 0, !.index = @ + 1]
        /\ UNCHANGED at
  /\ Demote(state, ready_que) /\ KBSR
  /\ UNCHANGED <<avail_que, ppid, wake_in, memory, sum, report>>

sys_read == SysSleep \/ TakeHead \/ Shift \/ Lower \/ Aim \/ Clear \/ SysWriteEcho
Runs == sys_read \/ SysWrite \/ SysGetRand \/ SysVFork \/ SysExit \/ SysWait
Next == TimerSR \/ Runs

\* The timer interrupts for ever, and the running program goes on.
Spec == Init /\ [][Next]_vars /\ WF_vars(TimerSR) /\ WF_vars(Runs)

-----------------------------------------------------------------------------
Living == {p \in Pids : state[p] \notin {"AVAIL", "ZOMBIE"}}

\* The tables, the buffer and the reader's locals are what their types say; in
\* particular DeQue stays inside the array.
TypeOK ==
  /\ run_pid \in Pids /\ time_count \in 0..BURST
  /\ state \in [Pids -> {"AVAIL", "READY", "RUN", "SLEEP", "WAIT", "ZOMBIE"}]
  /\ ppid \in [Pids -> Pids] /\ wake_in \in [Pids -> 0..NAP]
  /\ IsInjective(ready_que \o avail_que) /\ Range(ready_que \o avail_que) \subseteq Pids
  /\ page \in [Pages -> Pids \cup {NONE}] /\ space \in [Pids -> SUBSET Pages]
  /\ \A p \in Pids : at[p][2] \in DOMAIN Text[at[p][1]]
  /\ sum \in [Pids -> {0} \cup Sums] /\ report \in [Pids -> Pids \X ({0} \cup Sums)]
  /\ kb.que \in [0..(QUE_MAX - 1) -> Keys \cup {0, NONE}] /\ kb.tail \in 0..AHEAD
  /\ reader.step \in {"look", "shift", "lower", "aim", "clear", "echo"}
  /\ {reader.i, reader.aim} \subseteq 0..(QUE_MAX - 1) /\ reader.index \in 0..(STR_MAX - 2)
  /\ {typed, seen} \subseteq Keys \cup {NONE} /\ raced \in BOOLEAN

\* p7/0-README.TXT: the keyboard routine queues "each input character to a
\* string buffer for processes to retrieve".  sys_read returns each key once, in
\* the order of typing, wherever the interrupts fall in DeQue, except in two
\* windows: between the loop's last test and tail--, where a new key is dropped
\* and an old one read again, and between the load of the last index and the
\* store of NONE, which then hits the new key.
KeysInOrder ==
  ~raced /\ reader.step \in {"look", "echo"} =>
    LET held == IF reader.step = "echo" THEN <<reader.head>> ELSE << >>
        pending == held \o [n \in 1..kb.tail |-> kb.que[n - 1]]
    IN /\ \A n \in DOMAIN pending : pending[n] = After(seen, n)
       /\ typed = After(seen, Len(pending))

\* A living process owns exactly the pages it runs in, and every other page is
\* free.  SysWait gives back the pages of a Shell that comes too late for its
\* child's exit: that never happens, because the child makes a call before it
\* exits, and Shell is waiting by then.
SpacesIntact ==
  /\ \A p \in Living : {n \in Pages : page[n] = p} = space[p]
  /\ \A n \in Pages : page[n] \in Living \cup {NONE}

\* What Shell is about to report is the pid and the exit code of the process it
\* started last, as they were computed in that process's own space.
ReportIsRight ==
  \A p \in Living :
    state[p] # "WAIT" /\ at[p] \in {<<"Shell", n>> : n \in 5..10} =>
      LET c == report[p][1]
      IN c # IDLE /\ ppid[c] = p /\ state[c] = "AVAIL" /\ report[p][2] = sum[c]

\* Every command ends: Shell comes back to its prompt.
ShellReturns ==
  (at[Shell] = <<"Shell", 3>>) ~> (at[Shell] = <<"Shell", 1>>)
=============================================================================
