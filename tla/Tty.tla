-------------------------------- MODULE Tty --------------------------------
(***************************************************************************)
(* The terminal driver of src/pA.  The upper half, SysWrite and SysRead,   *)
(* blocks the caller in a wait queue; the lower half, TTYSR, is entered at *)
(* an interrupt of the serial port, sends the next character and releases  *)
(* the caller at the end of its string.  The driver never looks whether    *)
(* the port is ready: it relies on one interrupt following each character. *)
(*                                                                         *)
(* Kernel.tla has the scheduling of these processes and leaves the         *)
(* characters open; here a process is READY or in IO_WAIT, any READY one   *)
(* may call next (Kernel's order is one of the orders), and the characters *)
(* are what decides.  The port is external, as the driver uses it: one     *)
(* character in the transmitter, an interrupt when it has gone, one        *)
(* received character, which the status register reports first.            *)
(***************************************************************************)
EXTENDS Queue

CONSTANTS
  Users,            \* the processes with the terminal as STDIN and STDOUT
  TEXT_MAX,         \* longest string that is written
  KEY_MAX,          \* keys typed in one behaviour
  MAX_WRITERS,      \* processes inside sys_write at once
  MAX_READERS       \* processes inside sys_read at once

ASSUME TtyAssumption ==
  /\ Users # {} /\ QUE_MAX \in Nat \ {0} /\ TEXT_MAX \in Nat /\ KEY_MAX \in Nat
  /\ MAX_WRITERS \in 1..QUE_MAX /\ MAX_READERS \in 1..QUE_MAX

NUL == "nul"
EMPTY == "empty"                    \* no character in a register of the port
Keys == {"key", "cr"}               \* an ordinary key, and '\r'
Chars == Keys \cup {"lf", "text"}

VARIABLES
  state,            \* pcb[p].state
  length,           \* length of the string p passes to sys_write
  tty,              \* tty_t; dsp_str points at character .at of the string of .of
  thr,              \* the port: the character in the transmitter, or EMPTY
  txrdy,            \*   its interrupt that a character has gone is pending
  rx,               \*   the received character, or EMPTY
  typed             \*   keys typed so far

vars == <<state, length, tty, thr, txrdy, rx, typed>>

\* TTYinit has sent three lines without interrupts: one may be pending.
Init ==
  /\ state = [p \in Users |-> "READY"] /\ length = [p \in Users |-> 0]
  /\ tty = [dsp_str |-> [of |-> NONE, at |-> 0], dsp_wait_que |-> << >>,
            kb_wait_que |-> << >>, echo |-> << >>]
  /\ thr = EMPTY /\ txrdy \in BOOLEAN /\ rx = EMPTY /\ typed = 0

-----------------------------------------------------------------------------
\* The characters that may lie at str in the memory of p, with strings of
\* length len: p's own string, then NUL; past that, or through the pointer of
\* another process, anything.
Fetched(p, str, len) ==
  IF str.of # p \/ str.at > len[p] THEN Chars \cup {NUL}
  ELSE IF str.at = len[p] THEN {NUL} ELSE {"text"}

\* dsp_str++; every position past the longest string is the same.
Advanced(str) == [str EXCEPT !.at = IF @ > TEXT_MAX THEN @ ELSE @ + 1]

\* outportb(tty.port, c): c replaces what is in the transmitter.
Send(c) == thr' = c /\ txrdy' = FALSE
SendNothing(pending) == thr' = thr /\ txrdy' = pending

\* Mutants of TTYdspSR: the pointer also advances past an echoed character; the
\* NUL is sent like the others.
TTYdspSRAdvances(t, st, len, pending) ==
  IF ~QueEmpty(t.echo)
  THEN /\ Send(Head(t.echo)) /\ state' = st
       /\ tty' = [t EXCEPT !.echo = AfterDeQue(@), !.dsp_str = Advanced(@)]
  ELSE IF QueEmpty(t.dsp_wait_que) THEN SendNothing(pending) /\ tty' = t /\ state' = st
  ELSE LET pid == Head(t.dsp_wait_que)
       IN \E ttych \in Fetched(pid, t.dsp_str, len) :
            IF ttych # NUL
            THEN Send(ttych) /\ state' = st /\ tty' = [t EXCEPT !.dsp_str = Advanced(@)]
            ELSE /\ SendNothing(pending) /\ state' = [st EXCEPT ![pid] = "READY"]
                 /\ tty' = [t EXCEPT !.dsp_wait_que = AfterDeQue(@)]

TTYdspSRSendsNul(t, st, len, pending) ==
  IF ~QueEmpty(t.echo)
  THEN Send(Head(t.echo)) /\ state' = st /\ tty' = [t EXCEPT !.echo = AfterDeQue(@)]
  ELSE IF QueEmpty(t.dsp_wait_que) THEN SendNothing(pending) /\ tty' = t /\ state' = st
  ELSE LET pid == Head(t.dsp_wait_que)
       IN \E ttych \in Fetched(pid, t.dsp_str, len) :
            /\ Send(ttych)
            /\ tty' = [t EXCEPT !.dsp_str = Advanced(@),
                                !.dsp_wait_que = IF ttych = NUL THEN AfterDeQue(@) ELSE @]
            /\ state' = IF ttych = NUL THEN [st EXCEPT ![pid] = "READY"] ELSE st

\* TTYdspSR(), entered with the tables t and st; an interrupt still pending
\* stays pending unless a character is sent.
TTYdspSR(t, st, len, pending) ==
  \/ /\ ~QueEmpty(t.echo) /\ Send(Head(t.echo))
     /\ tty' = [t EXCEPT !.echo = AfterDeQue(@)] /\ state' = st
  \/ /\ QueEmpty(t.echo) /\ QueEmpty(t.dsp_wait_que)
     /\ SendNothing(pending) /\ tty' = t /\ state' = st
  \/ /\ QueEmpty(t.echo) /\ ~QueEmpty(t.dsp_wait_que)
     /\ LET pid == Head(t.dsp_wait_que)
        IN \E ttych \in Fetched(pid, t.dsp_str, len) :
             \/ /\ ttych # NUL /\ Send(ttych) /\ state' = st
                /\ tty' = [t EXCEPT !.dsp_str = Advanced(@)]
             \/ /\ ttych = NUL /\ SendNothing(pending)
                /\ state' = [st EXCEPT ![pid] = "READY"]
                /\ tty' = [t EXCEPT !.dsp_wait_que = AfterDeQue(@)]

-----------------------------------------------------------------------------
\* Mutant of SysWrite: it leaves the first character to the interrupt.
SysWriteWaits(p) ==
  /\ state[p] = "READY" /\ Len(tty.dsp_wait_que) < MAX_WRITERS
  /\ \E n \in 0..TEXT_MAX : length' = [length EXCEPT ![p] = n]
  /\ tty' = [tty EXCEPT !.dsp_str = [of |-> p, at |-> 0], !.dsp_wait_que = EnQue(@, p)]
  /\ state' = [state EXCEPT ![p] = "IO_WAIT"]
  /\ UNCHANGED <<thr, txrdy, rx, typed>>

\* sys_write: dsp_str points to the caller's string and the driver is started.
SysWrite(p) ==
  /\ state[p] = "READY" /\ Len(tty.dsp_wait_que) < MAX_WRITERS
  /\ \E n \in 0..TEXT_MAX : length' = [length EXCEPT ![p] = n]
  /\ TTYdspSR([tty EXCEPT !.dsp_str = [of |-> p, at |-> 0], !.dsp_wait_que = EnQue(@, p)],
              [state EXCEPT ![p] = "IO_WAIT"], length', txrdy)
  /\ UNCHANGED <<rx, typed>>

\* sys_read.  The line is left out: TTYkbSR stores each key where kb_str points
\* and advances it.
SysRead(p) ==
  /\ state[p] = "READY" /\ Len(tty.kb_wait_que) < MAX_READERS
  /\ tty' = [tty EXCEPT !.kb_wait_que = EnQue(@, p)]
  /\ state' = [state EXCEPT ![p] = "IO_WAIT"]
  /\ UNCHANGED <<length, thr, txrdy, rx, typed>>

\* The port reports that a character has gone.
TTYSRTransmit ==
  /\ rx = EMPTY /\ txrdy
  /\ TTYdspSR(tty, state, length, FALSE)
  /\ UNCHANGED <<length, rx, typed>>

\* Mutants of TTYSRReceive: the echo waits for the next interrupt; the reader
\* is released but stays in the queue.
TTYSRReceiveWithoutDisplay ==
  /\ rx # EMPTY /\ rx' = EMPTY
  /\ IF QueEmpty(tty.kb_wait_que) THEN UNCHANGED <<tty, state>>
     ELSE IF rx # "cr" THEN tty' = [tty EXCEPT !.echo = EnQue(@, rx)] /\ UNCHANGED state
     ELSE /\ tty' = [tty EXCEPT !.echo = EnQue(EnQue(@, rx), "lf"), !.kb_wait_que = AfterDeQue(@)]
          /\ state' = [state EXCEPT ![Head(tty.kb_wait_que)] = "READY"]
  /\ UNCHANGED <<length, thr, txrdy, typed>>

TTYSRReceiveWithoutDeQue ==
  /\ rx # EMPTY /\ rx' = EMPTY
  /\ IF QueEmpty(tty.kb_wait_que) THEN TTYdspSR(tty, state, length, txrdy)
     ELSE IF rx # "cr" THEN TTYdspSR([tty EXCEPT !.echo = EnQue(@, rx)], state, length, txrdy)
     ELSE TTYdspSR([tty EXCEPT !.echo = EnQue(EnQue(@, rx), "lf")],
                   [state EXCEPT ![Head(tty.kb_wait_que)] = "READY"], length, txrdy)
  /\ UNCHANGED <<length, typed>>

\* The port has received a character: TTYkbSR, then TTYdspSR.
TTYSRReceive ==
  /\ rx # EMPTY /\ rx' = EMPTY
  /\ \/ /\ QueEmpty(tty.kb_wait_que)
        /\ TTYdspSR(tty, state, length, txrdy)
     \/ /\ ~QueEmpty(tty.kb_wait_que) /\ rx # "cr"
        /\ TTYdspSR([tty EXCEPT !.echo = EnQue(@, rx)], state, length, txrdy)
     \/ /\ ~QueEmpty(tty.kb_wait_que) /\ rx = "cr"
        /\ TTYdspSR([tty EXCEPT !.echo = EnQue(EnQue(@, rx), "lf"),
                                !.kb_wait_que = AfterDeQue(@)],
                    [state EXCEPT ![Head(tty.kb_wait_que)] = "READY"], length, txrdy)
  /\ UNCHANGED <<length, typed>>

TTYSR == TTYSRTransmit \/ TTYSRReceive

-----------------------------------------------------------------------------
\* The port and the person at the terminal.
CharacterGoes ==
  /\ thr # EMPTY /\ thr' = EMPTY /\ txrdy' = TRUE
  /\ UNCHANGED <<state, length, tty, rx, typed>>

KeyTyped ==
  /\ rx = EMPTY /\ typed < KEY_MAX
  /\ rx' \in Keys /\ typed' = typed + 1
  /\ UNCHANGED <<state, length, tty, thr, txrdy>>

Next ==
  \/ \E p \in Users : SysWrite(p) \/ SysRead(p)
  \/ TTYSR \/ CharacterGoes \/ KeyTyped

Spec == Init /\ [][Next]_vars

\* Interrupts are served and characters sent; nobody has to write, read or type.
FairSpec == Spec /\ WF_vars(TTYSR) /\ WF_vars(CharacterGoes)

-----------------------------------------------------------------------------
Waiting == Range(tty.dsp_wait_que) \cup Range(tty.kb_wait_que)

TypeOK ==
  /\ state \in [Users -> {"READY", "IO_WAIT"}] /\ length \in [Users -> 0..TEXT_MAX]
  /\ tty.dsp_str \in [of : Users \cup {NONE}, at : 0..(TEXT_MAX + 1)]
  /\ tty.dsp_wait_que \in Seq(Users) /\ tty.kb_wait_que \in Seq(Users)
  /\ tty.echo \in Seq(Chars) /\ Len(tty.echo) <= QUE_MAX
  /\ thr \in Chars \cup {EMPTY} /\ txrdy \in BOOLEAN /\ rx \in Keys \cup {EMPTY}

\* A process is in IO_WAIT exactly while one of the queues holds it, and one
\* queue holds it once: its release is neither lost nor repeated.
WaitersAreQueued ==
  /\ {p \in Users : state[p] = "IO_WAIT"} = Waiting
  /\ IsInjective(tty.dsp_wait_que \o tty.kb_wait_que)

\* Something to display never waits without an interrupt to come: the chain of
\* characters, each sent at the interrupt of the one before, does not break.
ChainUnbroken ==
  ~QueEmpty(tty.echo) \/ ~QueEmpty(tty.dsp_wait_que) => thr # EMPTY \/ txrdy

\* p9/0-README.TXT: the writer waits "until the whole string is served, and the
\* process is no longer suspended".  Keys and echo in the middle of a string
\* make it neither shorter nor longer.
ReleasedWhenServed ==
  [][\A p \in Users : p \in Range(tty.dsp_wait_que) /\ p \notin Range(tty'.dsp_wait_que) =>
       tty'.dsp_str = [of |-> p, at |-> length[p]]]_vars

\* p9/0-README.TXT, as above: every sys_write returns.
WriteReturns == \A p \in Users : p \in Range(tty.dsp_wait_que) ~> state[p] = "READY"

\* p9/0-README.TXT: after a character "a moment passes and the terminal will
\* feed back with an even of completion (of printing the character)", and the
\* next one follows then.  No character is sent over one that has not gone.
NoneSentOver == [][thr # EMPTY => thr' \in {thr, EMPTY}]_vars
=============================================================================
