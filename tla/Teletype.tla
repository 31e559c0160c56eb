------------------------------ MODULE Teletype ------------------------------
(***************************************************************************)
(* Phase 9, src/p9: the first kernel with a terminal.  SysWrite blocks its *)
(* caller and sends the first character of its string; TTYSR, at the       *)
(* interrupt of each character that has gone, sends the next one, and at   *)
(* the end of the string releases the writer.  There is one string pointer *)
(* for all writers, and nothing looks whether the port is ready.  That     *)
(* this suffices is a matter of who writes when, so the driver is composed *)
(* with the kernel and with the programs that use it: Login, Shell and the *)
(* processes Shell creates by sys_vfork and waits for.                     *)
(*                                                                         *)
(* Keys come from the console, by KBSR at the end of every entry of the    *)
(* kernel; sys_read takes them in the process.  Here a key is one of a     *)
(* number (VirtualShell has their order).  The serial port is external, as *)
(* in Tty: one character in the transmitter, an interrupt when it has      *)
(* gone, cleared by writing the next one.  Nobody types at the terminal.   *)
(***************************************************************************)
EXTENDS Queue

CONSTANTS
  PAGE_MAX, SPACE,      \* pages of DRAM (100) and of a virtual space (5)
  TIME_MAX,             \* timer ticks of a time slice (310)
  BURST,                \* bound: ticks between two calls of a program
  NAP,                  \* ticks of sys_sleep(1) (10)
  STR_MAX,              \* bytes of a string (20)
  AHEAD,                \* bound: keys in kb.buffer
  TEXT_MAX              \* bound: characters of a string that is written

IDLE == 0
Login == 1
Shell == 2              \* the first pid Login finds in avail_que
Pids == 0..(QUE_MAX - 1)
Pages == 0..(PAGE_MAX - 1)

ASSUME TeletypeAssumption ==
  /\ QUE_MAX \in Nat /\ QUE_MAX >= 4 /\ SPACE \in Nat \ {0}
  /\ PAGE_MAX \in Nat /\ PAGE_MAX >= 2 * SPACE + 2 /\ TIME_MAX \in Nat
  /\ BURST \in 1..(TIME_MAX - 1) /\ NAP \in Nat \ {0} /\ STR_MAX \in Nat \ {0, 1}
  /\ AHEAD \in 1..QUE_MAX /\ TEXT_MAX \in Nat \ {0}

\* Mutant of Text: Shell announces the report before it waits.
TextReportsEarly ==
  [Login     |-> <<"write", "read", "write", "read", "write", "vfork", "exit">>,
   Shell     |-> <<"write", "read", "vfork", "write", "wait",
                   "write", "write", "write", "write", "write",
                   "write", "write", "write", "write">>,
   ShellDir  |-> <<"write", "write", "write", "write", "exit">>,
   ShellCal  |-> <<"write", "write", "write", "write", "write", "write", "exit">>,
   ShellRoll |-> <<"get_rand", "sleep", "get_rand", "exit">>]

\* The calls of the programs.  Shell's last four are ShellCmds.
Text ==
  [Login     |-> <<"write", "read", "write", "read", "write", "vfork", "exit">>,
   Shell     |-> <<"write", "read", "vfork", "wait",
                   "write", "write", "write", "write", "write", "write",
                   "write", "write", "write", "write">>,
   ShellDir  |-> <<"write", "write", "write", "write", "exit">>,
   ShellCal  |-> <<"write", "write", "write", "write", "write", "write", "exit">>,
   ShellRoll |-> <<"get_rand", "sleep", "get_rand", "exit">>]

\* Where a program may go on after the call at n: a login may fail, a command
\* may be unknown, the outer loop starts again.
Onward(program, n) ==
  CASE program = "Login" /\ n = 5 -> {1, 6}
    [] program = "Shell" /\ n = 2 -> {3, 11}
    [] program = "Shell" /\ n \in {10, 14} -> {1}
    [] OTHER -> {n + 1}

Started(program) ==
  IF program = "Login" THEN {"Shell"} ELSE {"ShellDir", "ShellCal", "ShellRoll"}

VARIABLES
  run_pid, state, ready_que, avail_que, ppid,
  time_count,   \* of the running process; not kept for Idle
  wake_in,      \* ticks until pcb[p].wake_time = sys_time_count
  page, space,  \* page[i].pid; the pages p runs in, by its Dir
  at,           \* the call p makes next: its program, and the place in it
  keys,         \* keys in kb.buffer
  reader,       \* sys_read: it has a key to echo; keys stored so far
  tty,          \* tty_t; .left characters before the NUL in the string of .of
  thr, txrdy    \* the port: it sends a character; its interrupt is pending

sched == <<run_pid, state, ready_que, time_count>>
family == <<avail_que, ppid, page, space>>
port == <<tty, thr, txrdy>>
vars == <<sched, family, wake_in, at, keys, reader, port>>

\* SpawnSR for Idle and Login: READY, each in the page with its pid as index.
Spawned == {IDLE, Login}

\* TTYinit waits until its last character has gone; the interrupt is pending.
TTYinit ==
  /\ tty = [str |-> [of |-> NONE, left |-> 0], wait_que |-> << >>]
  /\ thr = FALSE /\ txrdy = TRUE

Init ==
  /\ run_pid = IDLE /\ time_count = 0
  /\ state = [p \in Pids |-> IF p \in Spawned THEN "READY" ELSE "AVAIL"]
  /\ ready_que = <<Login>> /\ avail_que = [n \in 1..(QUE_MAX - 2) |-> n + 1]
  /\ ppid = [p \in Pids |-> IDLE] /\ wake_in = [p \in Pids |-> 0]
  /\ page = [n \in Pages |-> IF n \in Spawned THEN n ELSE NONE]
  /\ space = [p \in Pids |-> IF p \in Spawned THEN {p} ELSE {}]
  /\ at = [p \in Pids |-> <<"Login", 1>>]
  /\ keys = 0 /\ reader = [echoes |-> FALSE, index |-> 0]
  /\ TTYinit

-----------------------------------------------------------------------------
\* A key may have been pressed.  The buffer does not fill: see AHEAD.
KBSR == keys' = keys \/ (keys < AHEAD /\ keys' = keys + 1)

\* Scheduler(), entered with run_pid = rp and the tables st, rq.
Scheduler(rp, st, rq, ticks) ==
  IF rp > IDLE
  THEN run_pid' = rp /\ state' = st /\ ready_que' = rq /\ time_count' = ticks
  ELSE /\ run_pid' = IF QueEmpty(rq) THEN IDLE ELSE Head(rq)
       /\ state' = [st EXCEPT ![IDLE] = "READY", ![run_pid'] = "RUN"]
       /\ ready_que' = AfterDeQue(rq) /\ time_count' = 0

\* The end of Kernel(), for every event.
Dispatch(rp, st, rq, ticks) == KBSR /\ Scheduler(rp, st, rq, ticks)

\* The end of SyscallSR for a call that did not block; and for one that did.
Demote(st, rq) ==
  Dispatch(NONE, [st EXCEPT ![run_pid] = "READY"], EnQue(rq, run_pid), 0)
Leave(st, rq) == Dispatch(NONE, st, rq, 0)

TimerSR ==
  /\ run_pid # IDLE => time_count < BURST
  /\ LET woken == {p \in Pids : state[p] = "SLEEP" /\ wake_in[p] = 1}
         st == [p \in Pids |-> IF p \in woken THEN "READY" ELSE state[p]]
     IN \E batch \in InOrder(woken) :
          LET rq == EnQueAll(ready_que, batch)
          IN IF run_pid = IDLE THEN Dispatch(IDLE, st, rq, 0)
             ELSE IF time_count + 1 = TIME_MAX THEN Demote(st, rq)
             ELSE Dispatch(run_pid, st, rq, time_count + 1)
  /\ wake_in' = [p \in Pids |-> IF wake_in[p] = 0 THEN 0 ELSE wake_in[p] - 1]
  /\ UNCHANGED <<family, at, reader, port>>

\* Mutant of TTYSR: the writer is released at its last character.
TTYSRReleasesEarly(rp, t, st, rq, pending, ticks) ==
  IF QueEmpty(t.wait_que)
  THEN tty' = t /\ thr' = thr /\ txrdy' = pending /\ Dispatch(rp, st, rq, ticks)
  ELSE /\ thr' = TRUE /\ txrdy' = FALSE
       /\ IF t.str.left > 1
          THEN /\ tty' = [t EXCEPT !.str.left = @ - 1]
               /\ Dispatch(rp, st, rq, ticks)
          ELSE /\ tty' = [t EXCEPT !.wait_que = AfterDeQue(@)]
               /\ Dispatch(rp, [st EXCEPT ![Head(t.wait_que)] = "READY"],
                           EnQue(rq, Head(t.wait_que)), ticks)

\* TTYSR(), entered with the tables t, st and rq while an interrupt is pending
\* or not.  It puts '\n' in front of '\r' and waits 3.3 ms before it sends the
\* character; a '\n' has gone by then.  Through the Dir of a process whose
\* string it is not, any character may be found.
TTYSR(rp, t, st, rq, pending, ticks) ==
  \/ /\ QueEmpty(t.wait_que)
     /\ tty' = t /\ thr' = thr /\ txrdy' = pending
     /\ Dispatch(rp, st, rq, ticks)
  \/ /\ ~QueEmpty(t.wait_que)
     /\ LET pid == Head(t.wait_que)
        IN \/ /\ t.str.left > 0 \/ t.str.of # pid
              /\ tty' = [t EXCEPT !.str.left = IF @ = 0 THEN 0 ELSE @ - 1]
              /\ thr' = TRUE /\ txrdy' = FALSE
              /\ Dispatch(rp, st, rq, ticks)
           \/ /\ t.str.left = 0 \/ t.str.of # pid
              /\ tty' = [t EXCEPT !.wait_que = AfterDeQue(@)]
              /\ thr' = thr /\ txrdy' = pending
              /\ Dispatch(rp, [st EXCEPT ![pid] = "READY"], EnQue(rq, pid), ticks)

\* The interrupt of the port.
TTYEvent ==
  /\ txrdy /\ TTYSR(run_pid, tty, state, ready_que, FALSE, time_count)
  /\ UNCHANGED <<family, wake_in, at, reader>>

-----------------------------------------------------------------------------
\* The running process has come to this call; where it may go on behind it.
Place == at[run_pid]
Calls(call) == run_pid # IDLE /\ Text[Place[1]][Place[2]] = call
Behind == {[at EXCEPT ![run_pid][2] = n] : n \in Onward(Place[1], Place[2])}

\* Mutant of SysWrite: it leaves the first character to the interrupt.
SysWriteWaits ==
  /\ \E n \in 1..TEXT_MAX :
       tty' = [str |-> [of |-> run_pid, left |-> n], wait_que |-> EnQue(tty.wait_que, run_pid)]
  /\ Leave([state EXCEPT ![run_pid] = "IO_WAIT"], ready_que)
  /\ UNCHANGED <<thr, txrdy>>

\* SysWrite to the terminal, the STDOUT of every process but Idle: the pointer
\* is set, the caller queued and the driver started.
SysWrite ==
  \E n \in 1..TEXT_MAX :
    TTYSR(NONE,
          [str |-> [of |-> run_pid, left |-> n], wait_que |-> EnQue(tty.wait_que, run_pid)],
          [state EXCEPT ![run_pid] = "IO_WAIT"], ready_que, txrdy, 0)

\* A program writes a string of its own.
ProgramWrites ==
  /\ Calls("write") /\ at' \in Behind /\ SysWrite
  /\ UNCHANGED <<family, wake_in, reader>>

SysGetRand ==
  /\ Calls("get_rand") /\ at' \in Behind
  /\ Demote(state, ready_que)
  /\ UNCHANGED <<family, wake_in, reader, port>>

SysSleep(next) ==
  /\ at' \in next
  /\ wake_in' = [wake_in EXCEPT ![run_pid] = NAP]
  /\ Leave([state EXCEPT ![run_pid] = "SLEEP"], ready_que)
  /\ UNCHANGED <<family, reader, port>>

\* The first SPACE free pages.
Allocated ==
  LET free == {n \in Pages : page[n] = NONE}
  IN {n \in free : Cardinality({m \in free : m < n}) < SPACE}

\* The child is queued before its caller is, and so runs first.
SysVFork ==
  /\ Calls("vfork") /\ ~QueEmpty(avail_que) /\ Cardinality(Allocated) = SPACE
  /\ LET pidF == Head(avail_que)
     IN /\ ppid' = [ppid EXCEPT ![pidF] = run_pid]
        /\ page' = [n \in Pages |-> IF n \in Allocated THEN pidF ELSE page[n]]
        /\ space' = [space EXCEPT ![pidF] = Allocated]
        /\ \E a \in Behind, p \in Started(Place[1]) : at' = [a EXCEPT ![pidF] = <<p, 1>>]
        /\ Demote([state EXCEPT ![pidF] = "READY"], EnQue(ready_que, pidF))
  /\ avail_que' = AfterDeQue(avail_que)
  /\ UNCHANGED <<wake_in, reader, port>>

\* Mutant of Reclaimed: no page is given back.
ReclaimedNone(p) == page

\* page[] after the pages of p have been given back.
Reclaimed(p) == [n \in Pages |-> IF page[n] = p THEN NONE ELSE page[n]]

SysExit ==
  /\ Calls("exit")
  /\ LET parent == ppid[run_pid]
     IN \/ /\ state[parent] = "WAIT"
           /\ avail_que' = EnQue(avail_que, run_pid)
           /\ Leave([state EXCEPT ![parent] = "READY", ![run_pid] = "AVAIL"],
                    EnQue(ready_que, parent))
        \/ /\ state[parent] # "WAIT"
           /\ Leave([state EXCEPT ![run_pid] = "ZOMBIE"], ready_que)
           /\ UNCHANGED avail_que
  /\ page' = Reclaimed(run_pid)
  /\ UNCHANGED <<ppid, wake_in, space, at, reader, port>>

Zombies(p) == {c \in Pids : state[c] = "ZOMBIE" /\ ppid[c] = p}

SysWait ==
  /\ Calls("wait") /\ at' \in Behind
  /\ IF Zombies(run_pid) = {}
     THEN /\ Leave([state EXCEPT ![run_pid] = "WAIT"], ready_que)
          /\ UNCHANGED <<avail_que, page>>
     ELSE \E c \in Zombies(run_pid) :
            /\ \A d \in Zombies(run_pid) : c <= d
            /\ avail_que' = EnQue(avail_que, c) /\ page' = Reclaimed(c)
            /\ Demote([state EXCEPT ![c] = "AVAIL"], ready_que)
  /\ UNCHANGED <<ppid, wake_in, space, reader, port>>

-----------------------------------------------------------------------------
\* sys_read.  A key is taken from the buffer; while there is none, it sleeps.
\* A key is echoed by sys_write, and then is the last one or is not.
ReaderSleeps ==
  Calls("read") /\ ~reader.echoes /\ keys = 0 /\ SysSleep({at})

ReaderTakesKey ==
  /\ Calls("read") /\ ~reader.echoes /\ keys > 0
  /\ keys' = keys - 1 /\ reader' = [reader EXCEPT !.echoes = TRUE]
  /\ UNCHANGED <<sched, family, wake_in, at, port>>

\* Mutant of LastOfLine: it leaves no room for the NUL.
LastOfLineLate(n) == n = STR_MAX

\* The loop of sys_read ends when n keys are stored.
LastOfLine(n) == n = STR_MAX - 1

ReaderEchoes ==
  /\ Calls("read") /\ reader.echoes
  /\ \/ at' \in Behind /\ reader' = [echoes |-> FALSE, index |-> 0]
     \/ /\ ~LastOfLine(reader.index + 1) /\ UNCHANGED at
        /\ reader' = [echoes |-> FALSE, index |-> reader.index + 1]
  /\ SysWrite
  /\ UNCHANGED <<family, wake_in>>

ProgramSleeps == Calls("sleep") /\ SysSleep(Behind)

Runs ==
  \/ ProgramWrites \/ ProgramSleeps \/ SysGetRand \/ SysVFork \/ SysExit \/ SysWait
  \/ ReaderSleeps \/ ReaderTakesKey \/ ReaderEchoes

\* The port.
CharacterGoes ==
  /\ thr /\ thr' = FALSE /\ txrdy' = TRUE
  /\ UNCHANGED <<sched, family, wake_in, at, keys, reader, tty>>

Next == TimerSR \/ TTYEvent \/ Runs \/ CharacterGoes

\* The timer interrupts for ever, an interrupt of the port is served, the port
\* sends what it is given, and the running program goes on.
Spec ==
  /\ Init /\ [][Next]_vars
  /\ WF_vars(TimerSR) /\ WF_vars(TTYEvent) /\ WF_vars(CharacterGoes) /\ WF_vars(Runs)

-----------------------------------------------------------------------------
Living == {p \in Pids : state[p] \notin {"AVAIL", "ZOMBIE"}}

\* The tables are what their types say, the reader stays inside its string, and
\* no process is in two queues.
TypeOK ==
  /\ run_pid \in Pids /\ time_count \in 0..BURST
  /\ state \in [Pids -> {"AVAIL", "READY", "RUN", "SLEEP", "WAIT", "ZOMBIE", "IO_WAIT"}]
  /\ ppid \in [Pids -> Pids] /\ wake_in \in [Pids -> 0..NAP]
  /\ page \in [Pages -> Pids \cup {NONE}] /\ space \in [Pids -> SUBSET Pages]
  /\ IsInjective(ready_que \o avail_que \o tty.wait_que)
  /\ Range(ready_que \o avail_que \o tty.wait_que) \subseteq Pids
  /\ \A p \in Pids : at[p][2] \in DOMAIN Text[at[p][1]]
  /\ keys \in 0..AHEAD /\ reader \in [echoes : BOOLEAN, index : 0..(STR_MAX - 2)]
  /\ tty.str \in [of : Pids \cup {NONE}, left : 0..TEXT_MAX]
  /\ thr \in BOOLEAN /\ txrdy \in BOOLEAN

\* p9/0-README.TXT: "the whole string is served, and the process is no longer
\* suspended".  At most one process writes, tty.str is in its string, and as
\* long as it waits exactly one of a character and an interrupt is under way.
\* When nobody writes the transmitter is empty: a '\n', which goes out at once,
\* replaces no character.
OneStringAtATime ==
  /\ {p \in Pids : state[p] = "IO_WAIT"} = Range(tty.wait_que)
  /\ IF QueEmpty(tty.wait_que) THEN ~thr
     ELSE tty.wait_que = <<tty.str.of>> /\ thr # txrdy

\* A living process owns exactly the pages it runs in, every other page is free,
\* and no living process has left a child uncollected.
SpacesIntact ==
  /\ \A p \in Living : {n \in Pages : page[n] = p} = space[p]
  /\ \A n \in Pages : page[n] \in Living \cup {NONE}
  /\ \A p \in Living \ {IDLE} : Zombies(p) = {}

\* Every string is served in the end, also the first one, which may find the
\* interrupt of TTYinit pending; and every command ends: through the writes of
\* the process it starts, its exit and the report, Shell returns to its prompt.
CommandsEnd ==
  /\ \A p \in Pids : (state[p] = "IO_WAIT") ~> (state[p] # "IO_WAIT")
  /\ (at[Shell] = <<"Shell", 3>>) ~> (at[Shell] = <<"Shell", 1>>)
=============================================================================
