------------------------------- MODULE Memory -------------------------------
(***************************************************************************)
(* Memory of processes in src/pA: which process owns which 4 KB page of    *)
(* DRAM, what the pages hold, and what becomes of both when processes are  *)
(* created, exit and are collected.  A process of sys_vfork runs in a      *)
(* virtual space of its own: a directory, two tables, an instruction page  *)
(* and a data page that ends with its trapframe.  A process of SpawnSR     *)
(* runs in the kernel's space, in the page that has its pid as index.      *)
(*                                                                         *)
(* Kernel.tla has the scheduling of the same operations; here any process  *)
(* that is not blocked in sys_wait may call next, and ALIVE stands for     *)
(* READY, RUN and every other blocked state.  sys_fork, which no program   *)
(* of pA calls, is left out.                                               *)
(***************************************************************************)
EXTENDS Queue

CONSTANTS
  PROC_MAX,     \* entries of pcb[]; BootStrap queues QUE_MAX pids
  PAGE_MAX,     \* pages of DRAM (100)
  SPACE         \* pages of a virtual space (5)

IDLE == 0
Login == 1
Pids == 0..(PROC_MAX - 1)
Pages == 0..(PAGE_MAX - 1)

ASSUME MemoryAssumption ==
  /\ PROC_MAX \in Nat /\ QUE_MAX \in 2..PROC_MAX
  /\ PAGE_MAX \in Nat \ {0, 1} /\ SPACE \in Nat \ {0}

VARIABLES
  state, ppid, avail_que,
  page,         \* page[i].pid
  mem,          \* the process whose data page i holds, NONE if none yet
  space         \* the pages of p, Dir first

vars == <<state, ppid, avail_que, page, mem, space>>

\* BootStrap, SpawnSR(&Idle), SpawnSR(&Login).
Init ==
  /\ state = [p \in Pids |-> IF p \in {IDLE, Login} THEN "ALIVE" ELSE "AVAIL"]
  /\ ppid = [p \in Pids |-> IDLE]
  /\ avail_que = [i \in 1..(QUE_MAX - 2) |-> i + 1]
  /\ page = [i \in Pages |-> IF i \in {IDLE, Login} THEN i ELSE NONE]
  /\ mem = page
  /\ space = [p \in Pids |-> IF p \in {IDLE, Login} THEN <<p>> ELSE << >>]

-----------------------------------------------------------------------------
Calls(p) == p # IDLE /\ state[p] = "ALIVE"

FreePages == {i \in Pages : page[i] = NONE}

\* The first n members of a set of pages, as a loop over page[] finds them.
FirstPages(n, S) ==
  CHOOSE s \in InOrder({i \in S : Cardinality({j \in S : j < i}) < n}) : TRUE

\* Mutant of SysVFork: it takes the pages there are.
SysVForkWithoutPageTest(p) ==
  /\ Calls(p) /\ ~QueEmpty(avail_que)
  /\ LET pidF == Head(avail_que)
         pageIndex == FirstPages(SPACE, FreePages)
     IN /\ state' = [state EXCEPT ![pidF] = "ALIVE"]
        /\ ppid' = [ppid EXCEPT ![pidF] = p]
        /\ space' = [space EXCEPT ![pidF] = pageIndex]
        /\ page' = [i \in Pages |-> IF i \in Range(pageIndex) THEN pidF ELSE page[i]]
        /\ mem' = [i \in Pages |-> IF i \in Range(pageIndex) THEN pidF ELSE mem[i]]
  /\ avail_que' = AfterDeQue(avail_que)

\* Without a pid or five pages the kernel stops in the debugger.
SysVFork(p) ==
  /\ Calls(p) /\ ~QueEmpty(avail_que) /\ Cardinality(FreePages) >= SPACE
  /\ LET pidF == Head(avail_que)
         pageIndex == FirstPages(SPACE, FreePages)
     IN /\ state' = [state EXCEPT ![pidF] = "ALIVE"]
        /\ ppid' = [ppid EXCEPT ![pidF] = p]
        /\ space' = [space EXCEPT ![pidF] = pageIndex]
        /\ page' = [i \in Pages |-> IF i \in Range(pageIndex) THEN pidF ELSE page[i]]
        /\ mem' = [i \in Pages |-> IF i \in Range(pageIndex) THEN pidF ELSE mem[i]]
  /\ avail_que' = AfterDeQue(avail_que)

\* page[] after the pages of p have been given back; they keep their contents.
Reclaimed(p) == [i \in Pages |-> IF page[i] = p THEN NONE ELSE page[i]]

\* Mutant of SysExit: only a process that is collected at once gives its pages
\* back.
SysExitKeepsPages(p) ==
  /\ Calls(p)
  /\ IF state[ppid[p]] = "WAIT"
     THEN /\ state' = [state EXCEPT ![ppid[p]] = "ALIVE", ![p] = "AVAIL"]
          /\ avail_que' = EnQue(avail_que, p) /\ UNCHANGED page
     ELSE /\ state' = [state EXCEPT ![p] = "ZOMBIE"] /\ page' = Reclaimed(p)
          /\ UNCHANGED avail_que
  /\ UNCHANGED <<ppid, mem, space>>

\* sys_exit: a waiting parent is released; the pages are given back in either
\* case.  The exit code is in VirtualShell.tla.
SysExit(p) ==
  /\ Calls(p)
  /\ \/ /\ state[ppid[p]] = "WAIT"
        /\ state' = [state EXCEPT ![ppid[p]] = "ALIVE", ![p] = "AVAIL"]
        /\ avail_que' = EnQue(avail_que, p)
     \/ /\ state[ppid[p]] # "WAIT"
        /\ state' = [state EXCEPT ![p] = "ZOMBIE"]
        /\ UNCHANGED avail_que
  /\ page' = Reclaimed(p)
  /\ UNCHANGED <<ppid, mem, space>>

Zombies(p) == {c \in Pids : state[c] = "ZOMBIE" /\ ppid[c] = p}

\* Mutant of SysWait (phase 8, corrected since): it gives back the caller's
\* pages, not the child's.
SysWaitFreesCaller(p) ==
  /\ Calls(p)
  /\ IF Zombies(p) = {}
     THEN state' = [state EXCEPT ![p] = "WAIT"] /\ UNCHANGED <<avail_que, page>>
     ELSE \E c \in Zombies(p) :
            /\ \A d \in Zombies(p) : c <= d
            /\ state' = [state EXCEPT ![c] = "AVAIL"]
            /\ avail_que' = EnQue(avail_que, c) /\ page' = Reclaimed(p)
  /\ UNCHANGED <<ppid, mem, space>>

SysWait(p) ==
  /\ Calls(p)
  /\ \/ /\ Zombies(p) = {}
        /\ state' = [state EXCEPT ![p] = "WAIT"]
        /\ UNCHANGED <<avail_que, page>>
     \/ \E c \in Zombies(p) :
          /\ \A d \in Zombies(p) : c <= d
          /\ state' = [state EXCEPT ![c] = "AVAIL"]
          /\ avail_que' = EnQue(avail_que, c) /\ page' = Reclaimed(c)
  /\ UNCHANGED <<ppid, mem, space>>

Next == \E p \in Pids : SysVFork(p) \/ SysExit(p) \/ SysWait(p)

Spec == Init /\ [][Next]_vars

-----------------------------------------------------------------------------
Living == {p \in Pids : state[p] \in {"ALIVE", "WAIT"}}

TypeOK ==
  /\ state \in [Pids -> {"AVAIL", "ALIVE", "WAIT", "ZOMBIE"}] /\ ppid \in [Pids -> Pids]
  /\ page \in [Pages -> Pids \cup {NONE}] /\ mem \in [Pages -> Pids \cup {NONE}]
  /\ space \in [Pids -> Seq(Pages)]
  /\ avail_que \in Seq(Pids)
  /\ \A p \in Living : Len(space[p]) = (IF p \in {IDLE, Login} /\ space[p] = <<p>> THEN 1 ELSE SPACE)

\* A living process owns exactly its pages, whatever was created and collected
\* meanwhile, and they hold its data and nobody else's.
SpacesIntact ==
  \A p \in Living :
    /\ {i \in Pages : page[i] = p} = Range(space[p])
    /\ \A i \in Range(space[p]) : mem[i] = p

\* Every page is free or belongs to a living process: none leaks, although two
\* routines give pages back and a pid is used again.
NoPageLeaks == \A i \in Pages : page[i] = NONE \/ page[i] \in Living
=============================================================================
