# Verification of JAWOS

JAWOS is a teaching operating system for a 386 PC, built in phases: each
directory `p1` ... `pA` of `src/` is a complete snapshot of the kernel with what
the phase added.  `pA` is the last one.  A module models one phase: the last one for
what all phases share, and the phase itself where it had a program or a
mechanism that later ones dropped (the families of `p5`, the handler race of
`p6`, the keyboard login of `p7`, the reader of `p8` that empties the buffer
itself, the one-way terminal of `p9`).

The kernel is never interrupted.  An interrupt (timer, serial port) or an
`int $128` of a process saves the registers (`entry.S`) and calls `Kernel()`,
which runs one service routine, polls the keyboard, calls `Scheduler()` and
leaves through `Loader()`.  So one call of `Kernel()` is one atomic step, and
every hard question is about the order of those steps: which process makes
which call when, and where the interrupts fall between them.

## Inventory

| Component | State | Operations | Interacts with | What is hard | What makes it correct |
|---|---|---|---|---|---|
| Process management (`pA/ksr.c`) | `pcb[]` (state, ppid, wake_time), `avail_que`, `sys_time_count` | `TimerSR`, `SysFork`, `SysVFork`, `SysExit`, `SysWait`, `SysSleep`, `SysKill` | scheduler (`ready_que`), memory, signals | exit and wait in either order, pids used again, wake-up by equality | a process is in exactly the place its state names; an exit is delivered once; sleepers wake |
| Scheduler (`pA/kernel.c`) | `run_pid`, `ready_que`, `time_count` | `Scheduler`, demotion in `SyscallSR`, time slice in `TimerSR` | every routine | several processes made ready in one step, Idle | one runner, round robin, no starvation |
| Video mutex (`pA/ksr.c`) | `video_mutex` | `SysLockMutex`, `SysUnlockMutex` | scheduler, console | hand-over to a waiter | at most one inside, no lost waiter |
| Queues (`pA/tools.c`) | `que_t` | `EnQue`, `DeQue`, `QueEmpty`, `QueFull` | everything | shift at the boundaries, full queue | a first-in first-out queue |
| Signals (`p6`, still in `pA`) | `signal_handler[]`, the parent's stack | `SysSignal`, `AlterStack` in `SysExit`, `SysKill` | process management, mutex | a handler inserted anywhere in the parent, also into a handler | as many handlers as zombies, exclusion kept, the parent resumes |
| Terminal driver (`pA/ksr.c`) | `tty` | `SysWrite`, `SysRead`, `TTYSR`, `TTYdspSR`, `TTYkbSR` | serial port, scheduler | output, echo and keys share one port; nothing asks whether it is ready | the chain of interrupts goes on; a writer is released when its string is sent |
| Memory (`pA/ksr.c`) | `page[]`, `Dir`, trapframes in pages | `SysVFork`, reclaiming in `SysExit` and `SysWait` | process management | two routines give pages back; data read after that | a living process keeps its pages; no page leaks; the exit code arrives |
| Keyboard driver (`p7`) | `kb` | `KBSR`, `SysRead`, the loop in `sys_read` | scheduler, Login | a key against a call; an asm that stores more than its operand holds | keys in order, each once; no process waits beside a key; the strings come back (they do not, see below) |
| Families (`p5`) | `pcb[]`, pages, trapframes, the variables of `Init()` | `SpawnSR`, `SysFork`, `SysExit`, `SysWait`, `SysSleep`, mutex | keyboard (new Inits) | a copied page holds addresses; forks that fail half way; exits before and after the wait | copies run in their own page; each exit reported once, rightly; everybody exits |
| Shell on virtual spaces (`p8`) | `page[]`, `Dir`, `kb.buffer`, the programs | `KBSR`, `sys_read` with `DeQue` in user mode, `SysVFork`, `SysExit`, `SysWait` | all of the kernel | a buffer shared by a process and an interrupt routine; data written into another space | keys in order; spaces apart; reports right; Shell returns |
| Shell on the terminal (`p9`) | `tty`, the port, `kb.buffer`, the programs | `SysWrite`, `TTYSR`, `sys_read`, process life cycle | serial port, scheduler, memory | one string pointer for all writers, a driver that never asks the port | one string at a time; no lost interrupt; Shell returns |
| Console output | `sys_cursor` | `SysWrite` to the console, `SysSetCursor` | mutex | wrap at the end of the screen | layout, not modelled |
| Programs of `pA` | stacks | Login, Shell and its commands | all of the above | the only callers there are | modelled for `p8` and `p9` |
| Boot, `entry.S` | IDT, PIC, port | `BootStrap`, `TTYinit`, entries, `Loader` | hardware | assembly and port I/O | initial states only |
| Phases `p1`-`p4`, `p0`, `p4/fun` | | | | snapshots of the same kernel; demos | superseded by what later phases kept |

`PROJECT.json` lists the same components with their status, and under `hazards`
the places where this code can go wrong in ways a test hardly reaches.

## Modules

`Queue` has the operations on `que_t` as operators on sequences; every other
module extends it.

**`Kernel`** is process management, scheduler, mutex and the queues of the
terminal of `pA`, one action per event: `TimerSR`, `TTYSR` and one per system
call, each ending in `Scheduler`.  `Demote` is the end of `SyscallSR` for a
call that did not block (`run_pid` back to the tail of `ready_que`), `Leave` the
end of one that did.  `ready_que`, `avail_que`, `suspend_que`, `dsp_wait_que`
and `kb_wait_que` are the code's queues; `lock` is `video_mutex.lock`;
`time_count` is that of the running process, the only one the code reads.  Any
process may make any call at any time, which includes everything the programs
do.  Which character the terminal moves is left open, so `TTYSR` chooses among
releasing nobody, the first writer and the first reader.  Calls without an
effect on these tables are one action, `SysInfo`.

**`RoundRobin`** is the abstract scheduler: a runner and a line.  `Kernel` maps
`run_pid` and `ready_que` to it (`RoundRobinScheduling`).

**`Signals`** is the kernel of `p6` under its own program, `Init` in
`p6/proc.c`.  A process is a stack of activations, each a place in one of three
program texts (the system calls in order); `AlterStack` pushes an activation of
the handler on the parent's stack in whatever state the parent is.  Sleeping
times are random in the program, so `TimerSR` wakes any set of the sleepers.
`QuietTicks` restricts timer ticks to moments when every other process sleeps or
is blocked, which is the normal case of a machine whose ticks are 10 ms apart
and whose system calls take microseconds: the run with it shows that the flaw
below needs no unlucky tick.

**`Tty`** is the terminal driver with its characters, against an external serial
port: one character in the transmitter (`thr`), its interrupt (`txrdy`), one
received character (`rx`).  A character is "text", "key", "cr", "lf" or NUL; a
string is its length.  What lies at `dsp_str` after the end of a string, or seen
through another process's address space (`set_cr3` of the first waiter), can be
any character.  The characters of the line that is read are left out.

**`Memory`** is the ownership and the contents of pages through `SysVFork`,
`SysExit` and `SysWait`, called by any process at any time.  `page[i]` is the
code's owner of page `i`, `mem[i]` whose data the page holds.

**`Keyboard`** is the polling driver of `p7` with `Login` and `sys_read`'s loop:
`Polled` is `KBSR` followed by `Scheduler`, the end of every action of the kernel.
`Store` is the instruction after the int in `sys_read` (`p7/syscall.c:82`): four
bytes of `ebx` into the one byte of `ch`.  An operand of `movl` that holds a
`char` can only be in memory, and the Makefile's compiler (gcc 2.7.2.3, without
optimisation) puts the first local of a function right below the saved base
pointer; `p7/demo.dli`, an executable of this phase by that compiler with the same
asm, has `mov %ebx,-0x1(%ebp)` at 1028fb.  So the three zero bytes above an ASCII
key go over the base pointer of Login, which lies below 2^24 like every stack, and
`sys_read` returns with base pointer 0.  `string` therefore has two places for the
arrays of Login: in its own stack, and below address 0, at the top of memory.  What is
there is not in the code: `kept` leaves open whether it keeps what is stored, and
comparing a string nobody has stored may give either result (`Compared`).  `line`
are the keys of the lines as typed, to compare with.

**`Family`** is the kernel of `p5` under its program.  `pcb[p]` has the code's
fields; `page[p]` is the 4 KB of DRAM with `p` as index: the place its code has
come to, the pointers of its trapframe and of the frame of `sys_fork`, and the
variables of `Init()`, which a process finds through its base pointer.  A pointer
is the number of the page it points into, and `SysFork` moves it by
`pidF - run_pid` as the code does by `distance`.  `Text` is the program as the
sequence of its calls, in three parts: the Init that was spawned, a copy, and an
Init whose fork has failed.  `Dispatch` is the end of `Kernel()`, where the space
bar may start another Init.

**`VirtualShell`** is the kernel of `p8` under Login, Shell and its commands.
`space[p]` are the five pages its `Dir` leads to, `page[]` their owners; `report`
are the two words `sys_wait` leaves in the space of its caller, `sum` the exit
code a command has computed in its own.  `sys_read` of `p8` takes keys out of
`kb.buffer` without a system call, so `DeQue` is not one step here: `TakeHead`,
`Shift` (the loop), `Lower` (`tail--`), `Aim` and `Clear` (the index loaded, the
cell stored) are accesses between which the timer, and with it `KBSR`, may come.

**`Teletype`** is the kernel of `p9` under the same programs: process life cycle,
pages, sleeps and reader as in `VirtualShell`, but a key is taken in one step and
its value left out; `SysWrite` queues the caller, points `tty.str` to its string
and starts `TTYSR`.  The port is external, as in `Tty`.

**`QueueArray`** is the array behind `que_t` with `EnQue` and `DeQue` cell by
cell, and **`QueueSpec`** the queue it implements.

The theorems are in `KernelProofs` (of `Kernel` and `QueueArray`), `MemoryProofs`,
`KeyboardProofs`, `SignalsProofs`, `FamilyTtyProofs` (of `Tty` and of `Family`),
`ShellProofs` (of `Teletype`) and `VirtualShellProofs`; `QueueProofs` has the lemmas
about queues they share.  `Family` gives its specification names of its own
(`FamilyInit`, `FamilyNext`, ...) and calls `SysWrite` `SysWriteText`, because
`FamilyTtyProofs` extends `Tty` as well.

A definition whose comment starts with "Mutant of" is a plausible mistake; it is
used by no specification, only to show that a property notices the mistake.

## Runs

| Run | Shows | Bounds |
|---|---|---|
| `kernel` | `QueuesMatchStates`, `OneRunner`, `NoLostMutexWaiter`, `SleepersWillWake`, `WaiterHasNoZombie`, `ReapedOnce`, and that `Kernel` implements `RoundRobin` | Idle and three processes, so that a third can come between any two, the mutex has two waiters and a pid is used again; a slice of two ticks; a clock that wraps at 3 |
| `kernel_fair` | `ReadyRuns`: every READY process runs | sleeps of 1 and 3 ticks on a clock of 5; the calls that block and release |
| `signals` | `HandlersMatchZombies`, `MutualExclusion`, `DrawnInPlace` | three children, one column, ticks anywhere: one child exits while the handler for another runs and a third draws |
| `signals_return` | violation, see below | two children, `QuietTicks` |
| `tty` | `WaitersAreQueued`, `ChainUnbroken`, `ReleasedWhenServed`, `WriteReturns` | two processes, one writer and one reader at a time, strings up to 3, six keys, an echo queue of 3 that overflows |
| `tty_overrun` | violation, see below | one process that reads and writes |
| `memory` | `SpacesIntact`, `NoPageLeaks` | five processes, pages for two virtual spaces and two over: spaces made of pages given back by different processes, and pages that run out before pids |
| `keyboard` | `NoKeyForWaiter`, `KeysInOrder`, `VerdictIsRight`, `KeysTaken` | strings of two keys, a buffer of two that overflows, six keys at any moment: a second pair of lines is read over the first, with and without memory at the top |
| `virtual_shell` | `KeysInOrder`, `SpacesIntact`, `ReportIsRight`, `ShellReturns` | Idle, Login, Shell and one command; lines of two keys; three keys in a buffer of four, so that an interrupt comes before, in and after `DeQue`'s loop |
| `teletype` | `OneStringAtATime`, `SpacesIntact` (with no zombie left behind), `CommandsEnd` | the same with a pid to spare, strings of up to three characters, lines of three keys |
| `family` | pointers (in `FamilyTypeOK`), `ReportsAreRight`, `FamilyEnds` | two Inits with two children each and pids for two children: a fork fails in one family or in both, after none or one has succeeded; two sleeps per child, of 1 or 3 |
| `queue` | the array implements the queue | four cells: first, last, and two between |

The bounds that limit behaviours are `KEY_MAX` (keys typed), `TEXT_MAX` (length
of a string) and `COLS` (columns of the race; each column repeats the same
calls).  `TIME_MOD` is the code's 2^32: the clock wraps in every run, and
`SleepersWillWake` is about the distance on that clock.  `MAX_WRITERS` and
`MAX_READERS` are how many processes use the terminal at once; the programs of
`pA` use it one after the other, because Shell waits for its child.

`CHILDREN` and `COLS` are the 5 and 70 of `p5`; each turn of those loops repeats
the same calls.  `INITS` bounds the presses of the space bar.  `NAP` is the 10
ticks of `sys_sleep(1)`.  `BURST` bounds the ticks between two calls of a program
of `p5`, `p8` and `p9`: it is less than the time slice (310 ticks, over three
seconds), because these programs only format a number between two calls; slices
that end are in `Kernel`, `Signals` and `Keyboard`.  `AHEAD` is how many keys may
be typed ahead; a full buffer stops the kernel in the debugger.  `KEY_MOD` numbers
the keys in the order of typing, and with more numbers than keys in the buffer a
lost, doubled or exchanged key shows.

Deadlock is looked for in every run but `memory`, `keyboard` and
`tty_overrun`.  It is allowed where the system may really come to rest: every process
of `Memory` may wait for a child it does not have; after `KEY_MAX` keys a reader
waits for ever; a full key buffer stops `Keyboard` in the debugger.

### Fairness

`kernel_fair` assumes `WF(TimerSR)` and nothing else: the timer chip interrupts
for ever, and user code runs with interrupts enabled (`EF_INTR` in every
trapframe).  A process that never calls the kernel is taken off by its time
slice, so no fairness of programs is needed.  `tty` assumes that a pending
interrupt of the port is served and that the port sends the character it holds;
nobody has to write, read or type.  `keyboard` assumes the timer, and that the
running Login goes on.  `virtual_shell`, `teletype` and `family`
assume the timer and that the running program makes its next call (`WF(Runs)`),
`teletype` also the port as in `tty`; nobody has to press a key: `ShellReturns`
and `CommandsEnd` start when a command has been read.

### What holds of the programs and not of the kernel

The kernels of `p8`, `p9` and `pA` depend on how they are used, and these runs
show that their programs use them so.

* One string pointer serves all writers (`p9/ksr.c:374`, `pA/ksr.c:315`): two
  processes in `sys_write` would lose the first one's string and could leave a
  writer waiting.  `OneStringAtATime`: at most one process ever writes, because
  Shell waits for its command and Login exits without another write.
* `SysWait` of `p8` gives back the caller's pages (`p8/ksr.c:340`), and in every
  phase the exit code of a zombie is read in pages it has given back
  (`pA/ksr.c:410`, `pA/ksr.c:427`).  `SpacesIntact` and `ReportIsRight`: Shell is
  always waiting when its command exits, since a command makes at least one call
  first, which puts it behind Shell.  The mutant `TextRollExits`, a command that
  exits at once, breaks it.
* A process could collect the children of an ended process whose pid it was given
  (`pA/ksr.c:420`).  In `p5`, the one phase whose programs break up families,
  `ReportsAreRight` holds: the pid of an Init is never given out again, because
  nobody collects it.
* `DeQue` on `kb.buffer` in `p8` and `p9` is a race (`p8/syscall.c:92`).  A key
  that comes between the loop's last test and `tail--` is dropped and an earlier
  one read again; one that comes between the load of the index and the store of
  `NONE` is read as `NONE`.  Each window is an instruction or two wide.
  `KeysInOrder` says that there are no others: until a key has come in one of
  them (`raced`), every key is read once and in order.
* The first string of `p7` is lost.  `sys_read` receives every key (`KeysInOrder`,
  `KeysTaken`) and stores the first line in Login's stack, but has overwritten the
  base pointer by which Login finds it (`p7/syscall.c:82`).  `FirstStringMissed`, a
  part of `VerdictIsRight`, says that at the first verdict nothing has been stored
  where Login looks.  The repository disagrees with itself about this:
  `p7/0-README.TXT:32` says "the loop ends and the string is formed to return to the
  process", `src/README.md:75` that the first string "should always miss all
  inputs"; the code does the second.  The other part of `VerdictIsRight` says what is
  left: from the second verdict on both strings lie at the top of memory and, if it
  keeps them, are compared rightly.  From `p8` on the asm is commented out.

### What the violations show

* `signals_return`: a child exits while `Init` holds the video mutex; the
  handler inserted on top asks for the same mutex and suspends the parent behind
  itself for ever (`p6/ksr.c:174`, `p6/proc.c:33`).  `p6/0-README.TXT` says the
  parent "will resume from the original point in code".
* `tty_overrun`: after a line is read, its echo is still being sent when the
  reader writes; `SysWrite` starts the driver again and puts the next character
  over the one in the transmitter (`pA/ksr.c:319`).

## Proofs

Each theorem holds for every value of the constants that the named assumptions
of the module allow; the runs show the same properties on one small instance.

| Module | Theorems | Under |
|---|---|---|
| `KernelProofs` | `TypeCorrect`, `QueuesCorrect`, `OneRunnerCorrect`, `MutexCorrect` | `QueueAssumption`, `TimeAssumption` |
| | `ReapedCorrect`, `WaiterCorrect`, `SleepersCorrect`, `RoundRobinCorrect` | the same, and `SleepAssumption` for the sleepers |
| | `ArrayImplementsQueue`, `ArrayTypeCorrect` | `QueueArrayAssumption`: any capacity |
| `MemoryProofs` | `MemoryTypeCorrect`, `SpacesCorrect`, `NoLeaksCorrect` | `MemoryAssumption` |
| `FamilyTtyProofs` | `TtyTypeCorrect`, `WaitersCorrect`; with one writer at a time `ChainCorrect`, `ReleaseCorrect` | `TtyAssumption` |
| | `FamilyTypeCorrect`, `FamilyReportsCorrect` | `FamilyAssumption` |
| `KeyboardProofs` | `KeyboardTypeCorrect`, `NoKeyMissed`, `OrderCorrect`, `FirstStringLost`, `VerdictCorrect` | `KeyboardAssumption` |
| `SignalsProofs` | `SignalsTypeCorrect`, `HandlersCorrect`, `ExclusionCorrect`, `DrawnCorrect` | `SignalsAssumption` |
| `ShellProofs` | `TeletypeTypeCorrect`, `OneStringCorrect`, `TeletypeSpacesCorrect` | `TeletypeAssumption` |
| `VirtualShellProofs` | `VirtualShellTypeCorrect`, `KeysInOrderCorrect`, `VirtualSpacesCorrect`, `ReportCorrect` | `VirtualShellAssumption` |

`QueueProofs` has the facts they share about queues that hold a set, without
reference to any kernel.  All proofs are built alike: `Scheduler()` (or `KBSR`
and `Scheduler()`, or `TTYdspSR`) ends every action, so one lemma takes whatever
tables a service routine leaves through that common end, and each action has to
show only that it leaves sound tables.

**Assumptions.**  `QueueAssumption` is the code's `QUE_MAX` 20 and `PROC_MAX`
20.  `SleepAssumption` says that a sleep is at least one tick and shorter than a
turn of the clock, 2^32 ticks: the programs of `pA` sleep 10 ticks
(`pA/proc.c:108`), and no program from `p5` on more than the 10^7 of
`p6/proc.c:80`.  `SignalsAssumption` asks for room for all children:
pids 2 to `QUE_MAX - 1` and `CHILDREN` of them needed, 5 of 18 in `p6`.
`TeletypeAssumption` and `VirtualShellAssumption` ask for Idle, Login, Shell and a
command, for pages for two spaces, and that a program calls the kernel within its
time slice (`BURST`); `VirtualShellAssumption` also that the buffer never fills up,
which would stop the kernel in the debugger, and that keys are numbered modulo
more than the buffer holds.  `FamilyAssumption` asks for two pids at least, one
child and one sleep, and for the same of `BURST`; there may be fewer pids than
one family needs.

**`KernelProofs`.**  The inductive invariant `IInv` is the conjunction of what
its theorems state, arranged by table, and of one fact the runs do not show,
because their `QUE_MAX` equals `PROC_MAX`: a pid that `BootStrap` did not queue
stays free.  None of the parts is inductive alone: that `Head(ready_que)` may run
needs that the queue holds only READY processes, that `EnQue` drops nobody needs
that each queue holds distinct users, of whom there are fewer than `QUE_MAX`, and
that a process may be appended needs that it is nowhere else, which its state
says.  There is a lemma per kind of move: wake a set, wake one, block, demote.

In the second half of the module `Scheduler()` is almost invisible: whoever is parked
(AVAIL, ZOMBIE, SLEEP, WAIT) after it was parked before it, in the same state
(`SettleLemma`), and all actions but sleep, exit, wait and fork leave those
states alone or end them (`QuietLemma`).  With `IInv`, `WaiterHasNoZombie` is
inductive: `SysWait` looks for a zombie before it blocks, `SysExit` looks at its
parent before it becomes one, and a fork, which reuses the pid of a collected
child, starts a process that is neither.  So is `SleepersWillWake`: a tick
brings each wake time one nearer and wakes those at zero, across the wrap of the
clock (`ClockFacts`).  `RoundRobinCorrect` is the refinement: every action hands
`Scheduler()` the old line with newcomers behind it (`Arrived`), and the caller,
if it did not block, behind these (`Demote`).  The last part is the array of
`QueueArray`: its `ArrayTypeOK` is not inductive, because that `DeQue` returns a
number needs that the cells below `tail` hold numbers (`Filled`).

**`MemoryProofs`.**  `SpacesIntact` is not inductive: that the pages given to a
new process are all it owns needs that its pid owned none, which is `NoPageLeaks`
and that a pid in `avail_que` belongs to nobody (`PidsFree`).

**`FamilyTtyProofs`.**  For `Tty`, `IInv` (the queues match the states, within
their capacity) holds for any number of writers and readers.  `ChainCorrect` and `ReleaseCorrect`
have the hypothesis `MAX_WRITERS = 1`: with one string pointer for all, a second
`sys_write` loses the first string.  The programs of `pA` use the driver so,
because Shell waits for its child (see above).  `ReleasedWhenServed` needs that
`dsp_str` points into the string of the process in `dsp_wait_que` (`Pointed`),
whatever echo is sent in between.

For `Family` the invariant `FInv` has three parts: who runs and who is ready (`Cpu`),
who is in the other queues (`QueuesHold`), and what every process knows of its
family by the place it has come to in its program (`Families`).  `ReportsAreRight`
speaks of the moment of a report; what makes it inductive is the account an Init
keeps before it (`IsInit`): while it forks, it has as many children as its loop
has turns behind it (`Forks`), while it collects, as many as turns before it
(`Waits`, and one less in the middle of a report, `Reports`), so that none is left
when the loop ends (`Done`); and the exits it could be told of are those of its
zombies, and of the one whose report is under way, whose pid may be another
process's by then.  A child's account (`IsChild`) is that `total` in its page is
the time it has slept, and its parent's pid belongs to an Init, alive or a
zombie, never to a child.  Then the words `SysExit` writes into the page of a
parent that waits, or `SysWait` into its caller's, are right.  An Init that gave
up keeps its pid as a zombie, so that its children never have a stranger for a
parent.  That the pointers of a copy are its own is one lemma about `SysFork`
(`CopyIs`).

**`KeyboardProofs`.**  `KeysInOrder` is inductive only together with where Login
is.  A key goes past `kb.buffer` into Login's trapframe only while Login is in
`kb.wait_que`, and it is there only with the buffer empty (`Placed`).
`VerdictIsRight` relates the verdict to the lines as typed.  `Spelled` says which
line each array holds, that before the first verdict nothing has been stored for
`login_str` at the top of memory (`FirstStringMissed`), and that afterwards both are
filled and compared from the same base pointer; the keys stored so far are the beginning of the line
(`Begun`), and `NUL` ends it inside the array, so that `StrCmp` of two such arrays is
equality of the lines (`StrCmpLemma`).

**`SignalsProofs`.**  A stack is read by heights, so that pushing or popping an
activation renames no other; then an action changes one height of one process.
The parts of `IInv`:

* `Lined`, `Queued`: the scheduler's tables, as in `KernelProofs`.
* `Shape`: `Init` lies at the bottom of the parent's stack with handlers on top;
  a child that has not exited has one activation.
* `Forked`: until `Init` has forked all children, none is past its first sleep,
  which only the parent's SIGCONT ends.  So nobody exits while `signal_handler` is
  still to be set or `avail_que` not yet in its final order.
* `Guarded`: the activation whose call suspended its process stands right behind
  `sys_lock_mutex`; a free mutex has nobody inside and nobody waiting; between
  lock and unlock is at most one activation that is not suspended; and one about
  to write is the one that placed the cursor last.
* `Counted`: the activations about to call `sys_wait` are as many as the zombies.

`MutualExclusion` and `DrawnInPlace` are two clauses of `Guarded`; what makes
them inductive is the hand-over in `SysUnlockMutex`, which takes a process out of
`suspend_que` while its mutex stays locked.

**`ShellProofs`.**  `Teletype` and `VirtualShell` compose a kernel with programs,
and their properties hold of the programs only, so the invariant says where the
programs are.  It is a scene: one process `w` works (Login, then Shell, then a
command and Shell again), and beside it there is at most its parent, which has just
created it and has one last call to make, `sys_exit` or `sys_wait`.  The scene
fixes the state of every process and the ready queue: `w` is `Alone`, its parent
gone or waiting for it; or they are two, and then `w` has not made its first call
(`First`) or its parent's last call is next (`Second`).  `Pool` says which pids are free, in
the order of `BootStrap` while Login works, so that the first child is pid 2,
`Shell`; `Owned` that pages and spaces agree.  None of it is inductive alone: that
Shell already waits when its command exits needs that the command has made a call
and that the queue had Shell before it; that `SysExit` frees the right pages needs
`Owned`; that the next command gets a pid needs that Shell collected the last.

The lemmas on scenes are stated of arbitrary tables and of any program text that
`Follows` some rules (a command makes a call before it exits, Login and Shell
have no call but one behind `sys_vfork`), and so they serve both kernels.  For
`Teletype` the invariant adds `Line`: while a process waits in `sys_write`, it is
`w`, the string pointer is its own, and exactly one of a character and an interrupt
of the port is under way.  For `VirtualShell` it adds `VReport`, what `SysExit` has
written into Shell's page and where Shell is in reporting it, and `VBuffer`: for
each access of `DeQue` to `kb.buffer`, which cells hold which key while the loop
has moved half of them, and how far `KBSR` may come in between (`Ordered`).
`VirtualShellProofs` takes the invariant of the instance to `VirtualShell` itself:
`Init` and every action are the instance's.

Only model-checked: liveness under fairness (`ReadyRuns`, `WriteReturns`,
`KeysTaken`, `ShellReturns`, `CommandsEnd`, `FamilyEnds`), which is out of the
prover's reach.  Every safety property the passing runs check is a theorem.

## What is left out

* Registers and stacks, except exit codes, the pointers a fork moves, the
  activations of `p6` and the register that brings a key.  In particular not modelled: a handler inserted
  between the `int` of `sys_wait` and the instruction that reads its result.
* What follows a breakpoint with undefined values (`SysVFork` without pid or
  pages).  `Memory` stops there; `Kernel` goes on without a new process.
* `sys_sleep` with zero or a negative argument, which sleeps until the clock
  comes round: only `p4/proc.c:50` can compute one.
* Services that no program of a phase calls, in the module of that phase: in `p8`
  and `p9` `SysRead`, `SysKill`, `SysSignal`, `SysFork` and the mutex.
* A key typed at the terminal of `p9`, whose interrupt nobody answers by reading
  the port: what the port does then is not in the code.
* `SysFork` in `pA`, whose page bookkeeping no program exercises.
* `kb.buffer` in `pA`, which nobody empties.
* The positions on the screen, and all text.

## Plan

Order of work, each with its runs and theorems:

1. *Done*: `Queue`, `Kernel` with `RoundRobin`, `Signals`, `Tty`, `Memory`,
   `Keyboard`, `QueueArray`; `Family`, `VirtualShell` and `Teletype`, the
   compositions of the kernel with its programs.
2. Proofs: *done* for `QueueArray`, `Kernel`, `Memory`, `Tty`, `Keyboard`,
   `Signals`, `Teletype`, `VirtualShell` and `Family`.
3. `Signals` with the registers of `sys_wait`; the programs of `pA` on the
   two-way terminal of `Tty`, with the text of a line and its length;
   `SysFork` beside `SysVFork` in `Memory`.

### Not modelled

Console layout and `Number2Str` (formatting), `p0`, `p4/fun` (demos without
processes or with a screen effect), `p1` to `p4` (their kernels are subsets of
later ones), `entry.S`, the interrupt controller and the bits of page tables
(assembly and hardware).
