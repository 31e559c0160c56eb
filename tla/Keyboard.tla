------------------------------ MODULE Keyboard ------------------------------
(***************************************************************************)
(* Phase 7, src/p7: a driver that polls.  Every entry of the kernel ends   *)
(* with KBSR, which takes at most one key from the console and gives it to *)
(* the first process of kb.wait_que or puts it into kb.buffer; SysRead     *)
(* takes one from kb.buffer or blocks.  The kernel runs under its program, *)
(* Login, which reads two lines key by key and compares them.              *)
(*                                                                         *)
(* One action is one entry of the kernel: the service, KBSR, Scheduler.    *)
(* What Login does to its own memory before a call is part of that call,   *)
(* but for the instruction after the int of sys_read, the action Store.    *)
(* The key '$', which stops in the debugger and then goes on, is a key like*)
(* others.  Where Login's output goes on the screen is left out.           *)
(*                                                                         *)
(* Store is "movl %ebx, ch" with a ch of one byte: the key goes to ch, and *)
(* the upper bytes of ebx, 0 for every ASCII key, to the three bytes above *)
(* it.  The operand can only be in memory (movl takes no byte register),   *)
(* and the compiler of the Makefile, which puts the first local at the top *)
(* of the frame, has it right below the saved base pointer: "mov %ebx,     *)
(* -0x1(%ebp)" at 1028fb in src/p7/demo.dli.  Stacks lie below 2^24, so    *)
(* the pointer that sys_read restores is 0, and from then on Login finds   *)
(* login_str and passwd_str below address 0, at the top of memory.         *)
(***************************************************************************)
EXTENDS Queue

CONSTANTS
  STR_MAX,      \* bytes of a string (20)
  Letters,      \* keys other than RETURN
  KEY_MAX       \* keys typed in one behaviour

IDLE == 0
Login == 1
CR == "cr"
NUL == "nul"
JUNK == "junk"                  \* a byte of memory that nobody has set
Frames == {"own", "zero"}       \* a base pointer: into Login's stack, or 0
Lines == {"login", "passwd"}
Keys == Letters \cup {CR}

ASSUME KeyboardAssumption ==
  /\ QUE_MAX \in Nat \ {0} /\ STR_MAX \in Nat \ {0, 1} /\ KEY_MAX \in Nat
  /\ CR \notin Letters /\ NUL \notin Letters /\ JUNK \notin Letters

VARIABLES
  run_pid, state, ready_que,    \* state is pcb[Login].state
  kb,           \* kb_t: buffer, wait_que
  ebx,          \* the register in Login's trapframe that brings the key
  at,           \* what Login does next: a system call, or "store"
  ebp,          \* Login's base pointer, saved on the stack by sys_read
  string,       \* login_str and passwd_str, as found from each base pointer
  kept,         \* whether the memory at the top keeps what is stored there
  reading,      \* the string sys_read fills,
  str,          \*   the base pointer its address was made from,
  index, ch,    \*   and the locals of sys_read
  shown,        \* the last verdict: "none", "failed" or "sucessful"
  cons,         \* keys the console holds for cons_getchar
  debug,        \* the kernel has stopped in EnQue's breakpoint
  typed, taken, \* history: the keys typed, and those sys_read has received
  line          \* history: the keys of the last line of each string

sched == <<run_pid, state, ready_que>>
memory == <<ebp, string, kept, reading, str, ch>>
program == <<at, memory, index, shown, taken, line>>
vars == <<sched, kb, ebx, program, cons, debug, typed>>

Init ==
  /\ run_pid = IDLE /\ state = "READY" /\ ready_que = <<Login>>
  /\ kb = [buffer |-> << >>, wait_que |-> << >>] /\ ebx = NUL
  /\ at = "prompt" /\ reading = "login" /\ index = 0 /\ shown = "none"
  /\ ebp = "own" /\ str = "own" /\ ch = JUNK /\ kept \in BOOLEAN
  /\ string = [f \in Frames |-> [l \in Lines |-> [i \in 0..(STR_MAX - 1) |-> JUNK]]]
  /\ cons = << >> /\ debug = FALSE
  /\ typed = << >> /\ taken = << >> /\ line = [l \in Lines |-> << >>]

-----------------------------------------------------------------------------
\* Scheduler(), entered with run_pid = rp, Login in state st, and rq.
Scheduler(rp, st, rq) ==
  \/ /\ rp > IDLE
     /\ run_pid' = rp /\ state' = st /\ ready_que' = rq
  \/ /\ rp <= IDLE /\ QueEmpty(rq)
     /\ run_pid' = IDLE /\ state' = st /\ ready_que' = rq
  \/ /\ rp <= IDLE /\ ~QueEmpty(rq)
     /\ run_pid' = Head(rq) /\ state' = "RUN" /\ ready_que' = AfterDeQue(rq)

\* Mutant of Polled: it buffers the key without looking for a waiting process.
PolledIntoBuffer(rp, st, rq, k, value) ==
  /\ IF cons = << >> THEN kb' = k /\ debug' = debug
     ELSE kb' = [k EXCEPT !.buffer = EnQue(@, Head(cons))] /\ debug' = QueFull(k.buffer)
  /\ cons' = (IF cons = << >> THEN cons ELSE Tail(cons)) /\ ebx' = value
  /\ Scheduler(rp, st, rq)

\* KBSR(), then Scheduler(), entered with the tables of the arguments; value is
\* the ebx of Login so far.
Polled(rp, st, rq, k, value) ==
  \/ /\ cons = << >>
     /\ kb' = k /\ ebx' = value /\ UNCHANGED <<cons, debug>>
     /\ Scheduler(rp, st, rq)
  \/ /\ cons # << >> /\ cons' = Tail(cons)
     /\ \/ /\ QueEmpty(k.wait_que)
           /\ kb' = [k EXCEPT !.buffer = EnQue(@, Head(cons))]
           /\ debug' = QueFull(k.buffer) /\ ebx' = value
           /\ Scheduler(rp, st, rq)
        \/ /\ ~QueEmpty(k.wait_que)
           /\ kb' = [k EXCEPT !.wait_que = AfterDeQue(@)]
           /\ ebx' = Head(cons) /\ UNCHANGED debug
           /\ Scheduler(rp, "READY", EnQue(rq, Head(k.wait_que)))

\* The time slice of Login may be over.
TimerSR ==
  /\ ~debug
  /\ \/ Polled(run_pid, state, ready_que, kb, ebx)
     \/ run_pid = Login /\ Polled(NONE, "READY", EnQue(ready_que, Login), kb, ebx)
  /\ UNCHANGED <<program, typed>>

Calls(call) == ~debug /\ run_pid = Login /\ at = call
Demoted(k, value) == Polled(NONE, "READY", EnQue(ready_que, Login), k, value)

\* Mutant of SysRead: it leaves the key in the buffer.
SysReadPeeks ==
  /\ Calls("read") /\ at' = "store"
  /\ IF QueEmpty(kb.buffer)
     THEN Polled(NONE, "IO_WAIT", ready_que, [kb EXCEPT !.wait_que = EnQue(@, Login)], ebx)
     ELSE Demoted(kb, Head(kb.buffer))
  /\ UNCHANGED <<memory, index, shown, typed, taken, line>>

\* The int of sys_read.
SysRead ==
  /\ Calls("read") /\ at' = "store"
  /\ \/ /\ QueEmpty(kb.buffer)
        /\ Polled(NONE, "IO_WAIT", ready_que, [kb EXCEPT !.wait_que = EnQue(@, Login)], ebx)
     \/ /\ ~QueEmpty(kb.buffer)
        /\ Demoted([kb EXCEPT !.buffer = AfterDeQue(@)], Dequeued(kb.buffer))
  /\ UNCHANGED <<memory, index, shown, typed, taken, line>>

\* Mutant of StrCmp: it compares the arrays to their ends.
StrCmpAll(a, b) == a = b

\* StrCmp: no cell differs before the cell where both end.
StrCmp(a, b) ==
  \E i \in 0..(STR_MAX - 1) :
    /\ a[i] = NUL /\ b[i] = NUL
    /\ \A j \in 0..(i - 1) : a[j] = b[j]

\* What StrCmp may return: anything when a string starts in memory that nobody
\* has set, where it also ends at the first cells that differ.
Compared(a, b) == IF JUNK \in {a[0], b[0]} THEN BOOLEAN ELSE {StrCmp(a, b)}

\* The instruction after the int of sys_read: the key goes to ch, and the 0 above
\* it into the base pointer that sys_read has saved.
Store ==
  /\ ~debug /\ run_pid = Login /\ at = "store" /\ at' = "echo"
  /\ ch' = ebx /\ ebp' = "zero"
  /\ taken' = Append(taken, ebx)
  /\ UNCHANGED <<sched, kb, ebx, string, kept, reading, str, index, shown, cons, debug,
                 typed, line>>

\* Login writes a prompt, then calls sys_read; or the verdict, then prompts.
SysWritePrompt ==
  /\ Calls("prompt") /\ at' = "read"
  /\ str' = ebp /\ index' = 0 /\ line' = [line EXCEPT ![reading] = << >>]
  /\ Demoted(kb, ebx)
  /\ UNCHANGED <<ebp, string, kept, reading, ch, shown, typed, taken>>

SysWriteVerdict ==
  /\ Calls("verdict") /\ at' = "prompt" /\ reading' = "login"
  /\ \E same \in Compared(string[ebp]["login"], string[ebp]["passwd"]) :
       shown' = IF same THEN "sucessful" ELSE "failed"
  /\ Demoted(kb, ebx)
  /\ UNCHANGED <<ebp, string, kept, str, ch, index, typed, taken, line>>

\* Mutant of EndOfLine: the array is filled to its last byte.
EndOfLineLate(key, n) == key = CR \/ n = STR_MAX

\* sys_read's loop is left with this key, n keys stored when it would go on.
EndOfLine(key, n) == key = CR \/ n = STR_MAX - 1

\* The string that sys_read fills has become a, unless it lies where nothing is kept.
Filled(a) ==
  string' = IF str = "own" \/ kept THEN [string EXCEPT ![str][reading] = a] ELSE string

\* sys_read echoes ch, stores it and goes on, or ends the line with NUL.
SysWriteEcho ==
  /\ Calls("echo") /\ Demoted(kb, ebx)
  /\ line' = IF ch = CR THEN line ELSE [line EXCEPT ![reading] = Append(@, ch)]
  /\ LET n == IF ch = CR THEN index ELSE index + 1
         stored == IF ch = CR THEN string[str][reading]
                   ELSE [string[str][reading] EXCEPT ![index] = ch]
     IN /\ index' = n
        /\ \/ /\ EndOfLine(ch, n) /\ Filled([stored EXCEPT ![n] = NUL])
              /\ at' = (IF reading = "login" THEN "prompt" ELSE "verdict") /\ reading' = "passwd"
           \/ /\ ~EndOfLine(ch, n) /\ Filled(stored)
              /\ at' = "read" /\ UNCHANGED reading
  /\ UNCHANGED <<ebp, kept, str, ch, shown, typed, taken>>

-----------------------------------------------------------------------------
\* The person at the keyboard.
KeyPressed ==
  /\ Len(typed) < KEY_MAX
  /\ \E key \in Keys : typed' = Append(typed, key) /\ cons' = Append(cons, key)
  /\ UNCHANGED <<sched, kb, ebx, program, debug>>

StepOfLogin == SysRead \/ Store \/ SysWritePrompt \/ SysWriteVerdict \/ SysWriteEcho

Next == TimerSR \/ StepOfLogin \/ KeyPressed

Spec == Init /\ [][Next]_vars

\* The timer interrupts, and a process that has the CPU goes on.
FairSpec == Spec /\ WF_vars(TimerSR) /\ WF_vars(StepOfLogin)

-----------------------------------------------------------------------------
TypeOK ==
  /\ run_pid \in {IDLE, Login} /\ state \in {"READY", "RUN", "IO_WAIT"}
  /\ ready_que \in Seq({Login}) /\ kb.wait_que \in Seq({Login}) /\ kb.buffer \in Seq(Keys)
  /\ Len(kb.buffer) <= QUE_MAX /\ ebx \in Keys \cup {NUL} /\ cons \in Seq(Keys)
  /\ at \in {"prompt", "read", "store", "echo", "verdict"} /\ reading \in Lines
  /\ ebp \in Frames /\ str \in Frames /\ kept \in BOOLEAN
  /\ index \in 0..(STR_MAX - 1) /\ ch \in Keys \cup {JUNK}
  /\ string \in [Frames -> [Lines -> [0..(STR_MAX - 1) -> Letters \cup {NUL, JUNK}]]]
  /\ shown \in {"none", "failed", "sucessful"}

\* Login waits for a key only while there is none for it: a key and a waiting
\* process never miss each other between SysRead and KBSR.
NoKeyForWaiter ==
  /\ state = "IO_WAIT" <=> kb.wait_que = <<Login>>
  /\ ~QueEmpty(kb.wait_que) => QueEmpty(kb.buffer)

\* The key that ebx brings to sys_read and that is not in ch yet.
Brought == IF at = "store" /\ state # "IO_WAIT" THEN <<ebx>> ELSE << >>

\* sys_read receives the keys in the order in which they were typed, each once,
\* whichever way each of them went.  Where Login finds them is another matter.
KeysInOrder == ~debug => taken \o Brought \o kb.buffer \o cons = typed

\* Every key is received by sys_read, unless the buffer overflows.
KeysTaken == \A n \in 1..KEY_MAX : (Len(typed) >= n) ~> (Len(taken) >= n \/ debug)

\* The array a holds the keys of s and their end.
Spells(a, s) == a[Len(s)] = NUL /\ \A i \in 1..Len(s) : a[i - 1] = s[i]

\* src/README.md, about the strings of sys_read: "The first one should always miss
\* all inputs."  What the first sys_read has stored is not where Login looks when
\* it compares: nothing has been stored there.
FirstStringMissed ==
  at = "verdict" /\ shown = "none" => \A i \in 0..(STR_MAX - 1) : string[ebp]["login"][i] = JUNK

\* What a verdict is about.  The first compares a login_str that nobody has filled.
\* From then on both arrays lie at the top of memory: if that memory keeps them, it
\* is about the two lines typed last, and about nothing that earlier, longer lines
\* left behind them.
VerdictIsRight ==
  [][at = "verdict" /\ at' # "verdict" =>
       /\ FirstStringMissed
       /\ shown # "none" /\ kept => (shown' = "sucessful") = (line["login"] = line["passwd"])]_vars
=============================================================================
