------------------------------ MODULE Signals ------------------------------
(***************************************************************************)
(* Phase 6, src/p6: a process that exits interrupts its parent.  SysExit   *)
(* leaves the child a zombie and AlterStack rewrites the parent's stack,   *)
(* wherever the parent happens to be, so that it next runs its SIGCHLD     *)
(* handler and then goes on.  The kernel runs here under the program       *)
(* it was written for, p6/proc.c: Init forks its children, sleeps, starts  *)
(* them with SIGCONT, and then shows its pid for ever; the children race   *)
(* over the columns of the screen and exit; the handler collects the       *)
(* child and shows which one it was.                                       *)
(*                                                                         *)
(* A process is a stack of activations, innermost first; an activation is  *)
(* a place in one of the three program texts.  One action is one system    *)
(* call, with the demotion at the end of SyscallSR and the Scheduler.      *)
(***************************************************************************)
EXTENDS Queue

CONSTANTS
  CHILDREN,     \* times Init forks (5 in proc.c)
  COLS,         \* columns of the race (70 in proc.c)
  QuietTicks    \* TRUE: a tick finds every other process asleep or blocked,
                \* as when a system call takes far less than a tick

IDLE == 0
Parent == 1
Child == 2..(CHILDREN + 1)
Procs == {Parent} \cup Child

ASSUME SignalsAssumption ==
  /\ CHILDREN \in Nat \ {0} /\ COLS \in Nat \ {0} /\ QuietTicks \in BOOLEAN
  /\ QUE_MAX \in Nat /\ QUE_MAX >= CHILDREN + 2

\* The system calls of the program texts, in order.  "return" is the
\* handler's ret.  Init shows "pid" and "-" in turn: one text for both.
Text ==
  [init    |-> <<"signal", "fork", "get_pid", "sleep", "kill",
                 "lock", "set_cursor", "write", "unlock", "sleep">>,
   child   |-> <<"get_pid", "nap",
                 "lock", "set_cursor", "write", "unlock", "get_rand", "sleep",
                 "lock", "set_cursor", "write", "unlock", "exit">>,
   handler |-> <<"wait", "lock", "set_cursor",
                 "write", "write", "write", "unlock", "return">>]

VARIABLES
  run_pid, state, ready_que, avail_que,
  lock, suspend_que,
  stack,        \* stack[p]: the activations of p, innermost first
  handler,      \* signal_handler[SIGCHLD] of the parent is set
  sys_cursor    \* the activation <<pid, height>> that placed it last

sched == <<run_pid, state, ready_que>>
video_mutex == <<lock, suspend_que>>
vars == <<sched, avail_que, video_mutex, stack, handler, sys_cursor>>

Activation(text) == [text |-> text, at |-> 1, col |-> 0]
Op(a) == Text[a.text][a.at]
Top(p) == Head(stack[p])
\* An activation is named by its process and its height above the first one.
Running == <<run_pid, Len(stack[run_pid])>>

\* SpawnSR(&Init), after SpawnSR(&Idle).
Init ==
  /\ run_pid = IDLE
  /\ state = [p \in Procs |-> IF p = Parent THEN "READY" ELSE "AVAIL"]
  /\ ready_que = <<Parent>> /\ avail_que = [i \in 1..(QUE_MAX - 2) |-> i + 1]
  /\ lock = "UNLOCKED" /\ suspend_que = << >>
  /\ stack = [p \in Procs |-> IF p = Parent THEN <<Activation("init")>> ELSE << >>]
  /\ handler = FALSE /\ sys_cursor = <<IDLE, 0>>

-----------------------------------------------------------------------------
\* Mutant of Scheduler: it dispatches without looking whether ready_que is empty.
SchedulerWithoutEmptyTest(rp, st, rq) ==
  IF rp > IDLE THEN run_pid' = rp /\ state' = st /\ ready_que' = rq
  ELSE /\ run_pid' = Dequeued(rq) /\ state' = [p \in Procs |-> IF p = run_pid' THEN "RUN" ELSE st[p]]
       /\ ready_que' = AfterDeQue(rq)

\* Scheduler(), entered with the tables st and rq.
Scheduler(rp, st, rq) ==
  IF rp > IDLE THEN run_pid' = rp /\ state' = st /\ ready_que' = rq
  ELSE IF QueEmpty(rq) THEN run_pid' = IDLE /\ state' = st /\ ready_que' = rq
  ELSE /\ run_pid' = Head(rq) /\ state' = [st EXCEPT ![Head(rq)] = "RUN"]
       /\ ready_que' = AfterDeQue(rq)

Demote(st, rq) == Scheduler(NONE, [st EXCEPT ![run_pid] = "READY"], EnQue(rq, run_pid))

Calls(op) == run_pid # IDLE /\ Op(Top(run_pid)) = op

\* Where an activation goes on: Init forks once per child, counted in col, and
\* then shows its pid for ever; a child runs over COLS columns.
Resumed(a) ==
  CASE a.text = "init" /\ a.at = 2 /\ a.col + 1 < CHILDREN -> [a EXCEPT !.col = @ + 1]
    [] a.text = "init" /\ a.at = Len(Text.init) -> [a EXCEPT !.at = 6]
    [] a.text = "child" /\ a.at = 12 /\ a.col + 1 < COLS -> [a EXCEPT !.at = 3, !.col = @ + 1]
    [] OTHER -> [a EXCEPT !.at = @ + 1]

Advanced == [stack EXCEPT ![run_pid] = <<Resumed(Head(@))>> \o Tail(@)]
Advance == stack' = Advanced

\* p sleeps in one of the sleeps that end; the million seconds of "nap" do not.
Dozes(p) == state[p] = "SLEEP" /\ ~(Top(p).text = "child" /\ Top(p).at = 3)

\* Sleeping times are random numbers, so any of the sleepers may wake; the
\* running process may be at the end of its time slice.
TimerSR ==
  /\ QuietTicks => run_pid = IDLE
  /\ \E woken \in SUBSET {p \in Procs : Dozes(p)}, expired \in BOOLEAN :
       \E batch \in InOrder(woken) :
         LET st == [p \in Procs |-> IF p \in woken THEN "READY" ELSE state[p]]
             rq == EnQueAll(ready_que, batch)
         IN IF expired /\ run_pid # IDLE THEN Demote(st, rq) ELSE Scheduler(run_pid, st, rq)
  /\ UNCHANGED <<avail_que, video_mutex, stack, handler, sys_cursor>>

-----------------------------------------------------------------------------
SysInfo ==
  /\ Calls("get_pid") \/ Calls("get_rand") \/ Calls("write")
  /\ Advance /\ Demote(state, ready_que)
  /\ UNCHANGED <<avail_que, video_mutex, handler, sys_cursor>>

SysSignal ==
  /\ Calls("signal") /\ handler' = TRUE
  /\ Advance /\ Demote(state, ready_que)
  /\ UNCHANGED <<avail_que, video_mutex, sys_cursor>>

SysFork ==
  /\ Calls("fork")
  /\ LET pidF == Head(avail_que)
     IN /\ stack' = [Advanced EXCEPT ![pidF] = <<Activation("child")>>]
        /\ Demote([state EXCEPT ![pidF] = "READY"], EnQue(ready_que, pidF))
  /\ avail_que' = AfterDeQue(avail_que)
  /\ UNCHANGED <<video_mutex, handler, sys_cursor>>

SysSleep ==
  /\ Calls("sleep") \/ Calls("nap")
  /\ Advance /\ Scheduler(NONE, [state EXCEPT ![run_pid] = "SLEEP"], ready_que)
  /\ UNCHANGED <<avail_que, video_mutex, handler, sys_cursor>>

\* sys_kill(SIGCONT, 0); only Init calls it, and all others are its children.
SysKill ==
  /\ Calls("kill")
  /\ LET woken == {c \in Child : state[c] = "SLEEP"}
     IN \E batch \in InOrder(woken) :
          Demote([p \in Procs |-> IF p \in woken THEN "READY" ELSE state[p]],
                 EnQueAll(ready_que, batch))
  /\ Advance /\ UNCHANGED <<avail_que, video_mutex, handler, sys_cursor>>

\* Mutant of SysLockMutex: the caller joins the queue but is not suspended.
SysLockMutexGoesOn ==
  /\ Calls("lock") /\ Advance /\ Demote(state, ready_que)
  /\ lock' = "LOCKED"
  /\ UNCHANGED <<suspend_que, avail_que, handler, sys_cursor>>

SysLockMutex ==
  /\ Calls("lock") /\ Advance
  /\ \/ /\ lock = "UNLOCKED" /\ lock' = "LOCKED"
        /\ Demote(state, ready_que) /\ UNCHANGED suspend_que
     \/ /\ lock = "LOCKED" /\ suspend_que' = EnQue(suspend_que, run_pid)
        /\ Scheduler(NONE, [state EXCEPT ![run_pid] = "SUSPEND"], ready_que)
        /\ UNCHANGED lock
  /\ UNCHANGED <<avail_que, handler, sys_cursor>>

\* Mutant of SysUnlockMutex: it wakes a waiter and frees the mutex as well.
SysUnlockMutexFrees ==
  /\ Calls("unlock") /\ Advance
  /\ lock' = "UNLOCKED" /\ suspend_que' = AfterDeQue(suspend_que)
  /\ IF QueEmpty(suspend_que) THEN Demote(state, ready_que)
     ELSE Demote([state EXCEPT ![Head(suspend_que)] = "READY"],
                 EnQue(ready_que, Head(suspend_que)))
  /\ UNCHANGED <<avail_que, handler, sys_cursor>>

SysUnlockMutex ==
  /\ Calls("unlock") /\ Advance
  /\ \/ /\ ~QueEmpty(suspend_que) /\ suspend_que' = AfterDeQue(suspend_que)
        /\ Demote([state EXCEPT ![Head(suspend_que)] = "READY"],
                  EnQue(ready_que, Head(suspend_que)))
        /\ UNCHANGED lock
     \/ /\ QueEmpty(suspend_que) /\ lock' = "UNLOCKED"
        /\ Demote(state, ready_que) /\ UNCHANGED suspend_que
  /\ UNCHANGED <<avail_que, handler, sys_cursor>>

SysSetCursor ==
  /\ Calls("set_cursor") /\ sys_cursor' = Running
  /\ Advance /\ Demote(state, ready_que)
  /\ UNCHANGED <<avail_que, video_mutex, handler>>

-----------------------------------------------------------------------------
\* Mutant of AlterStack: a parent already in its handler is left alone.
AlterStackOnce ==
  IF Top(Parent).text = "handler" THEN stack[Parent]
  ELSE <<Activation("handler")>> \o stack[Parent]

\* The parent's stack with a call of the handler inserted where it stopped.
AlterStack == <<Activation("handler")>> \o stack[Parent]

\* A parent blocked in sys_wait is released at once; otherwise the child stays
\* a zombie and the handler, if there is one, is inserted.
SysExit ==
  /\ Calls("exit")
  /\ IF state[Parent] = "WAIT"
     THEN /\ Scheduler(NONE, [state EXCEPT ![Parent] = "READY", ![run_pid] = "AVAIL"],
                       EnQue(ready_que, Parent))
          /\ avail_que' = EnQue(avail_que, run_pid)
          /\ stack' = [stack EXCEPT ![run_pid] = << >>]
     ELSE /\ Scheduler(NONE, [state EXCEPT ![run_pid] = "ZOMBIE"], ready_que)
          /\ stack' = [stack EXCEPT ![run_pid] = << >>,
                                    ![Parent] = IF handler THEN AlterStack ELSE @]
          /\ UNCHANGED avail_que
  /\ UNCHANGED <<video_mutex, handler, sys_cursor>>

Zombies == {c \in Child : state[c] = "ZOMBIE"}

SysWait ==
  /\ Calls("wait") /\ Advance
  /\ IF Zombies = {}
     THEN /\ Scheduler(NONE, [state EXCEPT ![run_pid] = "WAIT"], ready_que)
          /\ UNCHANGED avail_que
     ELSE \E c \in Zombies :
            /\ \A d \in Zombies : c <= d
            /\ avail_que' = EnQue(avail_que, c)
            /\ Demote([state EXCEPT ![c] = "AVAIL"], ready_que)
  /\ UNCHANGED <<video_mutex, handler, sys_cursor>>

\* The handler returns to where the parent was.
HandlerReturns ==
  /\ Calls("return") /\ stack' = [stack EXCEPT ![run_pid] = Tail(@)]
  /\ UNCHANGED <<sched, avail_que, video_mutex, handler, sys_cursor>>

Next ==
  \/ TimerSR
  \/ SysInfo \/ SysSignal \/ SysFork \/ SysSleep \/ SysKill
  \/ SysLockMutex \/ SysUnlockMutex \/ SysSetCursor
  \/ SysExit \/ SysWait \/ HandlerReturns

Spec == Init /\ [][Next]_vars

-----------------------------------------------------------------------------
\* Every activation, as <<pid, height>>; the record it is; whether it is the one
\* whose call suspended the process (handlers inserted since have not run yet);
\* and whether it is between lock and unlock.
Activations == UNION {{<<p, h>> : h \in 1..Len(stack[p])} : p \in Procs}
At(x) == stack[x[1]][Len(stack[x[1]]) - x[2] + 1]
Suspended(x) ==
  /\ state[x[1]] = "SUSPEND" /\ Op(At(x)) # "wait"
  /\ \A y \in Activations : y[1] = x[1] /\ y[2] > x[2] => Op(At(y)) = "wait"
Critical(x) == Op(At(x)) \in {"set_cursor", "write", "unlock"} /\ ~Suspended(x)

\* The tables are what their types say; the stacks hold places of the texts.
TypeOK ==
  /\ run_pid \in {IDLE} \cup Procs
  /\ state \in [Procs -> {"AVAIL", "READY", "RUN", "SLEEP", "SUSPEND", "WAIT", "ZOMBIE"}]
  /\ ready_que \in Seq(Procs) /\ suspend_que \in Seq(Procs) /\ IsInjective(avail_que)
  /\ lock \in {"LOCKED", "UNLOCKED"} /\ handler \in BOOLEAN
  /\ \A x \in Activations : At(x).at \in DOMAIN Text[At(x).text]
  /\ sys_cursor \in ({IDLE} \cup Procs) \X Nat

\* As many handler activations have yet to call sys_wait as there are zombies,
\* however exits and handlers overlap: the handler never blocks in sys_wait and
\* no zombie is forgotten.
HandlersMatchZombies ==
  /\ Cardinality({x \in Activations : Op(At(x)) = "wait"}) = Cardinality(Zombies)
  /\ state[Parent] # "WAIT"

\* At most one activation is between lock and unlock, the handlers inserted on
\* top of a critical section included.
MutualExclusion ==
  \A x, y \in Activations : Critical(x) /\ Critical(y) => x = y

\* What is about to be written goes where its writer placed the cursor, whoever
\* ran since (sys_cursor is one kernel variable for all).
DrawnInPlace ==
  \A x \in Activations : Op(At(x)) = "write" /\ ~Suspended(x) => sys_cursor = x

\* p6/0-README.TXT: after the handler the parent "will resume from the original
\* point in code".  It must not wait in the handler for a mutex that an
\* activation below holds, which cannot run before the handler returns.
HandlerCanReturn ==
  \A x, y \in Activations : Suspended(x) /\ Critical(y) => x[1] # y[1]
=============================================================================
