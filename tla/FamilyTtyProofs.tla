-------------------------- MODULE FamilyTtyProofs --------------------------
(***************************************************************************)
(* The theorems about the terminal driver, Tty.tla, and in the second half *)
(* those about the families of phase 5, Family.tla.  The two have nothing  *)
(* in common but the queues.                                               *)
(*                                                                         *)
(* For every set of processes, length of strings and capacity of the echo  *)
(* queue: what the terminal driver promises.  That no waiter is lost holds *)
(* for any number of writers.  That the chain of interrupts goes on, and   *)
(* that a writer is released at the end of its own string, holds for one   *)
(* writer at a time, as the programs of pA use the driver; the theorems    *)
(* have that as a hypothesis.  DisplayLemma takes the tables an upper half *)
(* or TTYkbSR leaves through TTYdspSR, the common end of every action.     *)
(*                                                                         *)
(* For every number of pids, children, sleeps and Inits: in a family every *)
(* pointer of a process points into its own page, and an Init reports the  *)
(* exits of its own children.  The inductive invariant FInv is the         *)
(* conjunction of Cpu, who runs and who is ready; QueuesHold, who is in    *)
(* the other queues; and Families, in which every process keeps an account *)
(* of its children by the place it has come to in its program.  The lemmas *)
(* called ...Kept say what a change does to the accounts, those called     *)
(* ...Cpu what it does to the queues; DispatchLemma is the common end of   *)
(* the kernel's entries, and there is one ...Step for each action.         *)
(***************************************************************************)
EXTENDS Tty, Family, QueueProofs

Record == [dsp_str : [of : Users \cup {NONE}, at : 0..(TEXT_MAX + 1)],
           dsp_wait_que : Seq(Users), kb_wait_que : Seq(Users), echo : Seq(Chars)]

InIoWait(st) == {p \in Users : st[p] = "IO_WAIT"}

\* The two queues hold the processes that st says are waiting.
Queued(t, st) ==
  /\ Holds(t.dsp_wait_que, Range(t.dsp_wait_que))
  /\ Holds(t.kb_wait_que, Range(t.kb_wait_que))
  /\ Range(t.dsp_wait_que) \cap Range(t.kb_wait_que) = {}
  /\ Range(t.dsp_wait_que) \cup Range(t.kb_wait_que) = InIoWait(st)

\* Tables an action may enter TTYdspSR with.
Sound(t, st) ==
  /\ t \in Record /\ st \in [Users -> {"READY", "IO_WAIT"}]
  /\ Len(t.echo) <= QUE_MAX /\ Len(t.dsp_wait_que) <= MAX_WRITERS
  /\ Queued(t, st)

PortOK ==
  /\ thr \in Chars \cup {EMPTY} /\ txrdy \in BOOLEAN /\ rx \in Keys \cup {EMPTY}

IInv == Sound(tty, state) /\ length \in [Users -> 0..TEXT_MAX] /\ PortOK

\* dsp_str points into the string of the process that writes.
Pointed(t, len) ==
  \A p \in Range(t.dsp_wait_que) : t.dsp_str.of = p /\ t.dsp_str.at <= len[p]

-----------------------------------------------------------------------------
LEMMA Constants ==
  /\ QUE_MAX \in Nat \ {0} /\ TEXT_MAX \in Nat
  /\ MAX_WRITERS \in Nat /\ MAX_WRITERS <= QUE_MAX
  /\ MAX_READERS \in Nat /\ MAX_READERS <= QUE_MAX
  /\ EMPTY \notin Chars /\ NUL \notin Chars /\ "cr" \in Chars /\ "lf" \in Chars
  /\ "text" \in Chars /\ Keys \subseteq Chars
BY TtyAssumption DEF Chars, Keys, EMPTY, NUL

\* The echo queue takes a character, or drops it, and is not empty then.
LEMMA EchoLemma ==
  ASSUME NEW q \in Seq(Chars), Len(q) <= QUE_MAX, NEW c \in Chars
  PROVE  EnQue(q, c) \in Seq(Chars) /\ Len(EnQue(q, c)) <= QUE_MAX /\ EnQue(q, c) # << >>
<1>1. CASE QueFull(q)
  <2>1. Len(q) # 0 /\ EnQue(q, c) = q
    BY <1>1, Constants DEF QueFull, EnQue
  <2> QED
    BY <2>1, EmptySeq
<1>2. CASE ~QueFull(q)
  <2>1. EnQue(q, c) = Append(q, c) /\ Len(q) # QUE_MAX /\ Len(q) \in Nat
    BY <1>2, LenProperties DEF QueFull, EnQue
  <2>2. Append(q, c) \in Seq(Chars) /\ Append(q, c) # << >> /\ Len(Append(q, c)) = Len(q) + 1
    BY AppendProperties
  <2> QED
    BY <2>1, <2>2, Constants
<1> QED
  BY <1>1, <1>2

\* A caller joins a queue that is not full.
LEMMA JoinLemma ==
  ASSUME NEW q \in Seq(Users), Holds(q, Range(q)), NEW p \in Users, p \notin Range(q),
         NEW m \in Nat, m <= QUE_MAX, Len(q) < m
  PROVE  /\ EnQue(q, p) \in Seq(Users) /\ Len(EnQue(q, p)) = Len(q) + 1
         /\ Range(EnQue(q, p)) = Range(q) \cup {p}
         /\ Holds(EnQue(q, p), Range(EnQue(q, p)))
<1>1. EnQue(q, p) = Append(q, p)
  BY Constants, LenProperties DEF EnQue, QueFull
<1>2. Append(q, p) \in Seq(Users) /\ Holds(Append(q, p), Range(q) \cup {p})
  BY HoldsAppend
<1>3. Len(Append(q, p)) = Len(q) + 1
  BY AppendProperties
<1> QED
  BY <1>1, <1>2, <1>3 DEF Holds

\* The first process of a queue leaves it.
LEMMA LeaveLemma ==
  ASSUME NEW q \in Seq(Users), Holds(q, Range(q)), ~QueEmpty(q)
  PROVE  /\ Head(q) \in Range(q) /\ Head(q) \in Users
         /\ AfterDeQue(q) \in Seq(Users) /\ Len(AfterDeQue(q)) = Len(q) - 1
         /\ Range(AfterDeQue(q)) = Range(q) \ {Head(q)}
         /\ Holds(AfterDeQue(q), Range(AfterDeQue(q)))
<1>1. q # << >> /\ AfterDeQue(q) = Tail(q)
  BY DEF QueEmpty, AfterDeQue
<1>2. /\ Head(q) \in Range(q) /\ Head(q) \in Users /\ Tail(q) \in Seq(Users)
      /\ Holds(Tail(q), Range(q) \ {Head(q)})
  BY <1>1, HoldsTail
<1>3. Len(Tail(q)) = Len(q) - 1
  BY <1>1, HeadTailProperties
<1> QED
  BY <1>1, <1>2, <1>3 DEF Holds

LEMMA RecordFields ==
  ASSUME NEW t \in Record
  PROVE  /\ t.dsp_str \in [of : Users \cup {NONE}, at : 0..(TEXT_MAX + 1)]
         /\ t.dsp_wait_que \in Seq(Users) /\ t.kb_wait_que \in Seq(Users)
         /\ t.echo \in Seq(Chars)
BY DEF Record

\* The first writer of t is released.
LEMMA ReleaseLemma ==
  ASSUME NEW t, NEW st, Sound(t, st), ~QueEmpty(t.dsp_wait_que)
  PROVE  LET pid == Head(t.dsp_wait_que)
         IN  /\ pid \in Range(t.dsp_wait_que)
             /\ Sound([t EXCEPT !.dsp_wait_que = AfterDeQue(@)], [st EXCEPT ![pid] = "READY"])
<1> DEFINE q == t.dsp_wait_que
           pid == Head(q)
           t2 == [t EXCEPT !.dsp_wait_que = AfterDeQue(@)]
           st2 == [st EXCEPT ![pid] = "READY"]
<1>1. /\ t \in Record /\ st \in [Users -> {"READY", "IO_WAIT"}] /\ Queued(t, st)
      /\ Len(t.echo) <= QUE_MAX /\ Len(q) <= MAX_WRITERS /\ q \in Seq(Users)
  BY RecordFields DEF Sound
<1>2. /\ pid \in Range(q) /\ pid \in Users /\ AfterDeQue(q) \in Seq(Users)
      /\ Len(AfterDeQue(q)) = Len(q) - 1 /\ Range(AfterDeQue(q)) = Range(q) \ {pid}
      /\ Holds(AfterDeQue(q), Range(AfterDeQue(q)))
  BY <1>1, LeaveLemma DEF Queued
<1>3. /\ t2 \in Record /\ t2.dsp_wait_que = AfterDeQue(q) /\ t2.kb_wait_que = t.kb_wait_que
      /\ t2.echo = t.echo
  BY <1>1, <1>2 DEF Record
<1>4. st2 \in [Users -> {"READY", "IO_WAIT"}] /\ InIoWait(st2) = InIoWait(st) \ {pid}
  BY <1>1, <1>2 DEF InIoWait
<1> HIDE DEF pid, st2, t2
<1>5. Queued(t2, st2)
  BY <1>1, <1>2, <1>3, <1>4 DEF Queued
<1>6. Len(t2.dsp_wait_que) <= MAX_WRITERS
  BY <1>1, <1>2, <1>3, Constants, LenProperties
<1> QED
  BY <1>1, <1>2, <1>3, <1>4, <1>5, <1>6 DEF Sound, pid, st2, t2

LEMMA AdvancedLemma ==
  ASSUME NEW str \in [of : Users \cup {NONE}, at : 0..(TEXT_MAX + 1)]
  PROVE  /\ Advanced(str) \in [of : Users \cup {NONE}, at : 0..(TEXT_MAX + 1)]
         /\ Advanced(str).of = str.of
         /\ str.at <= TEXT_MAX => Advanced(str).at = str.at + 1
<1>1. str.at \in 0..(TEXT_MAX + 1) /\ TEXT_MAX \in Nat
  BY Constants
<1>2. CASE str.at > TEXT_MAX
  <2>1. Advanced(str) = [str EXCEPT !.at = str.at]
    BY <1>2 DEF Advanced
  <2>2. Advanced(str) = str
    BY <2>1
  <2> QED
    BY <1>1, <1>2, <2>2
<1>3. CASE ~(str.at > TEXT_MAX)
  <2>1. Advanced(str) = [str EXCEPT !.at = str.at + 1]
    BY <1>3 DEF Advanced
  <2>2. str.at + 1 \in 0..(TEXT_MAX + 1)
    BY <1>1, <1>3
  <2> QED
    BY <2>1, <2>2
<1> QED
  BY <1>2, <1>3

\* What the driver reads in the string dsp_str points into.
LEMMA FetchedLemma ==
  ASSUME NEW len \in [Users -> 0..TEXT_MAX], NEW p \in Users,
         NEW str \in [of : Users \cup {NONE}, at : 0..(TEXT_MAX + 1)],
         str.of = p, str.at <= len[p], NEW c \in Fetched(p, str, len)
  PROVE  c = NUL <=> str.at = len[p]
<1>1. str.at \in Int /\ len[p] \in Int
  BY Constants
<1>2. ~(str.at > len[p])
  BY <1>1
<1> QED
  BY <1>1, <1>2 DEF Fetched, NUL

\* TTYdspSR sends one character, of the echo or of the string, or releases the
\* writer, or has nothing to do.
LEMMA DisplayLemma ==
  ASSUME NEW t, NEW st, NEW len \in [Users -> 0..TEXT_MAX], NEW pending \in BOOLEAN,
         Sound(t, st), PortOK, TTYdspSR(t, st, len, pending)
  PROVE  /\ Sound(tty', state') /\ txrdy' \in BOOLEAN /\ thr' \in Chars \cup {EMPTY}
         /\ MAX_WRITERS = 1 => ChainUnbroken'
         /\ MAX_WRITERS = 1 /\ Pointed(t, len) =>
              /\ Pointed(tty', len)
              /\ \A p \in Range(t.dsp_wait_que) : p \notin Range(tty'.dsp_wait_que) =>
                   tty'.dsp_str = [of |-> p, at |-> len[p]]
<1> USE Constants
<1>1. /\ t \in Record /\ st \in [Users -> {"READY", "IO_WAIT"}] /\ Queued(t, st)
      /\ Len(t.echo) <= QUE_MAX /\ Len(t.dsp_wait_que) <= MAX_WRITERS
      /\ t.dsp_str \in [of : Users \cup {NONE}, at : 0..(TEXT_MAX + 1)]
      /\ t.dsp_wait_que \in Seq(Users) /\ t.kb_wait_que \in Seq(Users)
      /\ t.echo \in Seq(Chars)
  BY RecordFields DEF Sound
<1>2. CASE /\ ~QueEmpty(t.echo) /\ Send(Head(t.echo))
           /\ tty' = [t EXCEPT !.echo = AfterDeQue(@)] /\ state' = st
  <2>1. /\ Head(t.echo) \in Chars /\ AfterDeQue(t.echo) \in Seq(Chars)
        /\ Len(AfterDeQue(t.echo)) = Len(t.echo) - 1
    BY <1>1, <1>2, HeadTailProperties DEF QueEmpty, AfterDeQue
  <2>2. /\ tty' \in Record /\ tty'.echo = AfterDeQue(t.echo) /\ tty'.dsp_str = t.dsp_str
        /\ tty'.dsp_wait_que = t.dsp_wait_que /\ tty'.kb_wait_que = t.kb_wait_que
    BY <1>1, <1>2, <2>1 DEF Record
  <2>3. Sound(tty', state')
    <3>1. Len(tty'.echo) <= QUE_MAX
      BY <1>1, <2>1, <2>2, LenProperties
    <3> QED
      BY <1>1, <1>2, <2>2, <3>1 DEF Sound, Queued
  <2>4. thr' \in Chars /\ txrdy' = FALSE
    BY <1>2, <2>1 DEF Send
  <2>5. ChainUnbroken'
    BY <2>4 DEF ChainUnbroken
  <2>6. Pointed(t, len) => Pointed(tty', len)
    BY <2>2 DEF Pointed
  <2> QED
    BY <2>2, <2>3, <2>4, <2>5, <2>6
<1>3. CASE /\ QueEmpty(t.echo) /\ QueEmpty(t.dsp_wait_que)
           /\ SendNothing(pending) /\ tty' = t /\ state' = st
  <2>1. thr' = thr /\ txrdy' = pending
    BY <1>3 DEF SendNothing
  <2> QED
    BY <1>3, <2>1 DEF PortOK, ChainUnbroken, Pointed
<1>4. ASSUME QueEmpty(t.echo), ~QueEmpty(t.dsp_wait_que),
             NEW ttych \in Fetched(Head(t.dsp_wait_que), t.dsp_str, len),
             ttych # NUL, Send(ttych), state' = st,
             tty' = [t EXCEPT !.dsp_str = Advanced(@)]
      PROVE  /\ Sound(tty', state') /\ txrdy' \in BOOLEAN /\ thr' \in Chars \cup {EMPTY}
             /\ ChainUnbroken'
             /\ MAX_WRITERS = 1 /\ Pointed(t, len) =>
                  Pointed(tty', len) /\ tty'.dsp_wait_que = t.dsp_wait_que
  <2> DEFINE pid == Head(t.dsp_wait_que)
  <2>1. ttych \in Chars
    BY <1>4 DEF Fetched
  <2>2. thr' \in Chars /\ txrdy' = FALSE
    BY <1>4, <2>1 DEF Send
  <2>3. /\ Advanced(t.dsp_str) \in [of : Users \cup {NONE}, at : 0..(TEXT_MAX + 1)]
        /\ Advanced(t.dsp_str).of = t.dsp_str.of
        /\ t.dsp_str.at <= TEXT_MAX => Advanced(t.dsp_str).at = t.dsp_str.at + 1
    BY <1>1, AdvancedLemma
  <2>4. /\ tty' \in Record /\ tty'.echo = t.echo /\ tty'.dsp_str = Advanced(t.dsp_str)
        /\ tty'.dsp_wait_que = t.dsp_wait_que /\ tty'.kb_wait_que = t.kb_wait_que
    BY <1>1, <1>4, <2>3 DEF Record
  <2>5. Sound(tty', state')
    BY <1>1, <1>4, <2>4 DEF Sound, Queued
  <2>6. ChainUnbroken'
    BY <2>2 DEF ChainUnbroken
  <2>7. ASSUME Pointed(t, len), NEW p \in Range(t.dsp_wait_que), MAX_WRITERS = 1
        PROVE  tty'.dsp_str.of = p /\ tty'.dsp_str.at <= len[p]
    <3>1. pid \in Range(t.dsp_wait_que) /\ pid \in Users
      BY <1>1, <1>4, LeaveLemma DEF Queued
    <3>2. p = pid /\ t.dsp_str.of = pid /\ t.dsp_str.at <= len[pid]
      BY <2>7, <3>1 DEF Pointed
    <3>3. t.dsp_str.at # len[pid]
      <4>1. ttych \in Fetched(pid, t.dsp_str, len) /\ ttych # NUL
        BY <1>4
      <4>2. t.dsp_str \in [of : Users \cup {NONE}, at : 0..(TEXT_MAX + 1)]
        BY <1>1
      <4> HIDE DEF pid
      <4> QED
        BY <3>1, <3>2, <4>1, <4>2, FetchedLemma
    <3>4. t.dsp_str.at \in Int /\ len[pid] \in Int /\ len[pid] <= TEXT_MAX
      BY <1>1, <3>1
    <3>5. t.dsp_str.at < len[pid] /\ t.dsp_str.at <= TEXT_MAX
      <4> HIDE DEF pid
      <4> QED
        BY <3>2, <3>3, <3>4
    <3>6. tty'.dsp_str.of = pid /\ tty'.dsp_str.at = t.dsp_str.at + 1
      BY <2>3, <2>4, <3>2, <3>5
    <3> HIDE DEF pid
    <3> QED
      BY <3>2, <3>4, <3>5, <3>6
  <2> QED
    BY <2>2, <2>4, <2>5, <2>6, <2>7 DEF Pointed
<1>5. ASSUME QueEmpty(t.echo), ~QueEmpty(t.dsp_wait_que),
             NUL \in Fetched(Head(t.dsp_wait_que), t.dsp_str, len),
             SendNothing(pending),
             state' = [st EXCEPT ![Head(t.dsp_wait_que)] = "READY"],
             tty' = [t EXCEPT !.dsp_wait_que = AfterDeQue(@)]
      PROVE  /\ Sound(tty', state') /\ txrdy' \in BOOLEAN /\ thr' \in Chars \cup {EMPTY}
             /\ MAX_WRITERS = 1 => ChainUnbroken'
             /\ MAX_WRITERS = 1 /\ Pointed(t, len) =>
                  /\ Pointed(tty', len)
                  /\ \A p \in Range(t.dsp_wait_que) : tty'.dsp_str = [of |-> p, at |-> len[p]]
  <2> DEFINE pid == Head(t.dsp_wait_que)
  <2>1. thr' = thr /\ txrdy' = pending
    BY <1>5 DEF SendNothing
  <2>2. Sound(tty', state') /\ pid \in Range(t.dsp_wait_que)
    BY <1>5, ReleaseLemma
  <2>3. /\ tty'.dsp_wait_que = AfterDeQue(t.dsp_wait_que) /\ tty'.echo = t.echo
        /\ tty'.dsp_str = t.dsp_str
    BY <1>1, <1>5 DEF Record
  <2>4. MAX_WRITERS = 1 => AfterDeQue(t.dsp_wait_que) = << >>
    <3>1. /\ AfterDeQue(t.dsp_wait_que) \in Seq(Users)
          /\ Len(AfterDeQue(t.dsp_wait_que)) = Len(t.dsp_wait_que) - 1
      BY <1>1, <1>5, LeaveLemma DEF Queued
    <3>2. Len(AfterDeQue(t.dsp_wait_que)) \in Nat /\ Len(t.dsp_wait_que) \in Nat
      BY <1>1, <3>1, LenProperties
    <3>3. MAX_WRITERS = 1 => Len(AfterDeQue(t.dsp_wait_que)) = 0
      <4> DEFINE m == Len(t.dsp_wait_que)
                 n == Len(AfterDeQue(t.dsp_wait_que))
      <4>1. m \in Nat /\ n \in Nat /\ n = m - 1 /\ m <= MAX_WRITERS
        BY <1>1, <3>1, <3>2
      <4> HIDE DEF m, n
      <4>2. MAX_WRITERS = 1 => n = 0
        BY <4>1
      <4> QED
        BY <4>2 DEF n
    <3> QED
      BY <3>1, <3>3, EmptySeq
  <2>5. MAX_WRITERS = 1 => ChainUnbroken'
    BY <1>5, <2>3, <2>4 DEF ChainUnbroken, QueEmpty
  <2>6. ASSUME Pointed(t, len), NEW p \in Range(t.dsp_wait_que)
        PROVE  tty'.dsp_str = [of |-> p, at |-> len[p]]
    <3>1. p = pid /\ t.dsp_str.of = pid /\ t.dsp_str.at <= len[pid] /\ pid \in Users
      BY <1>1, <1>5, <2>2, <2>6, LeaveLemma DEF Pointed, Queued
    <3>2. t.dsp_str.at = len[pid]
      BY <1>1, <1>5, <3>1, FetchedLemma
    <3> HIDE DEF pid
    <3> QED
      BY <1>1, <2>3, <3>1, <3>2
  <2>7. MAX_WRITERS = 1 => Pointed(tty', len)
    <3>1. Range(<< >>) = {}
      BY HoldsEmpty DEF Holds
    <3> QED
      BY <2>3, <2>4, <3>1 DEF Pointed
  <2> QED
    BY <2>1, <2>2, <2>5, <2>6, <2>7 DEF PortOK
<1> QED
  BY <1>2, <1>3, <1>4, <1>5 DEF TTYdspSR

-----------------------------------------------------------------------------
\* What every step keeps; the second and the third part are for one writer.
Kept ==
  /\ IInv'
  /\ MAX_WRITERS = 1 /\ ChainUnbroken => ChainUnbroken'
  /\ MAX_WRITERS = 1 /\ Pointed(tty, length) =>
       /\ Pointed(tty', length')
       /\ \A p \in Range(tty.dsp_wait_que) : p \notin Range(tty'.dsp_wait_que) =>
            tty'.dsp_str = [of |-> p, at |-> length[p]]

LEMMA InitHolds == Init => IInv /\ ChainUnbroken /\ Pointed(tty, length)
<1> SUFFICES ASSUME Init PROVE IInv /\ ChainUnbroken /\ Pointed(tty, length)
  OBVIOUS
<1> USE Constants
<1>1. /\ tty.dsp_wait_que = << >> /\ tty.kb_wait_que = << >> /\ tty.echo = << >>
      /\ tty.dsp_str = [of |-> NONE, at |-> 0]
      /\ \A p \in Users : state[p] = "READY"
  BY DEF Init
<1>2. << >> \in Seq(Users) /\ << >> \in Seq(Chars) /\ Len(<< >>) = 0
  BY EmptySeq
<1>3. Holds(<< >>, {}) /\ Range(<< >>) = {}
  BY HoldsEmpty DEF Holds
<1>4. tty \in Record /\ state \in [Users -> {"READY", "IO_WAIT"}]
  BY <1>2 DEF Init, Record
<1>5. Queued(tty, state)
  BY <1>1, <1>3 DEF Queued, InIoWait
<1>6. Sound(tty, state)
  BY <1>1, <1>2, <1>4, <1>5 DEF Sound
<1>7. PortOK /\ length \in [Users -> 0..TEXT_MAX]
  BY DEF Init, PortOK
<1>8. ChainUnbroken /\ Pointed(tty, length)
  BY <1>1, <1>3 DEF ChainUnbroken, QueEmpty, Pointed
<1> QED
  BY <1>6, <1>7, <1>8 DEF IInv

LEMMA SysWriteStep ==
  ASSUME IInv, NEW p \in Users, SysWrite(p)
  PROVE  Kept
<1> USE Constants
<1> DEFINE q == tty.dsp_wait_que
           t == [tty EXCEPT !.dsp_str = [of |-> p, at |-> 0], !.dsp_wait_que = EnQue(@, p)]
           st == [state EXCEPT ![p] = "IO_WAIT"]
<1>1. /\ state[p] = "READY" /\ Len(q) < MAX_WRITERS
      /\ TTYdspSR(t, st, length', txrdy) /\ rx' = rx
  BY DEF SysWrite
<1>2. length' \in [Users -> 0..TEXT_MAX]
  BY DEF SysWrite, IInv
<1>3. /\ tty \in Record /\ state \in [Users -> {"READY", "IO_WAIT"}] /\ Queued(tty, state)
      /\ Len(tty.echo) <= QUE_MAX /\ PortOK
      /\ q \in Seq(Users) /\ tty.kb_wait_que \in Seq(Users) /\ tty.echo \in Seq(Chars)
  BY RecordFields DEF IInv, Sound
<1>4. p \notin Range(q) /\ p \notin Range(tty.kb_wait_que)
  BY <1>1, <1>3 DEF Queued, InIoWait
<1>5. /\ EnQue(q, p) \in Seq(Users) /\ Len(EnQue(q, p)) = Len(q) + 1
      /\ Range(EnQue(q, p)) = Range(q) \cup {p}
      /\ Holds(EnQue(q, p), Range(EnQue(q, p)))
  BY <1>1, <1>3, <1>4, JoinLemma DEF Queued
<1>6. /\ t \in Record /\ t.dsp_wait_que = EnQue(q, p) /\ t.kb_wait_que = tty.kb_wait_que
      /\ t.echo = tty.echo /\ t.dsp_str = [of |-> p, at |-> 0]
  <2>1. [of |-> p, at |-> 0] \in [of : Users \cup {NONE}, at : 0..(TEXT_MAX + 1)]
    OBVIOUS
  <2> QED
    BY <1>3, <1>5, <2>1 DEF Record
<1>7. st \in [Users -> {"READY", "IO_WAIT"}] /\ InIoWait(st) = InIoWait(state) \cup {p}
  BY <1>3 DEF InIoWait
<1> HIDE DEF t, st
<1>8. Queued(t, st)
  BY <1>3, <1>4, <1>5, <1>6, <1>7 DEF Queued
<1>9. Sound(t, st)
  <2>1. Len(q) \in Nat
    BY <1>3, LenProperties
  <2>2. Len(t.dsp_wait_que) <= MAX_WRITERS
    BY <1>1, <1>5, <1>6, <2>1
  <2> QED
    BY <1>3, <1>6, <1>7, <1>8, <2>2 DEF Sound
<1>10. MAX_WRITERS = 1 => Range(q) = {} /\ Pointed(t, length')
  <2>1. MAX_WRITERS = 1 => q = << >>
    BY <1>1, <1>3, EmptySeq, LenProperties
  <2>2. Range(<< >>) = {}
    BY HoldsEmpty DEF Holds
  <2>3. length'[p] >= 0
    BY <1>2
  <2> QED
    BY <1>5, <1>6, <2>1, <2>2, <2>3 DEF Pointed
<1>11. /\ Sound(tty', state') /\ txrdy' \in BOOLEAN /\ thr' \in Chars \cup {EMPTY}
       /\ MAX_WRITERS = 1 => ChainUnbroken'
       /\ MAX_WRITERS = 1 /\ Pointed(t, length') => Pointed(tty', length')
  <2>1. txrdy \in BOOLEAN
    BY <1>3 DEF PortOK
  <2> QED
    BY <1>1, <1>2, <1>3, <1>9, <2>1, DisplayLemma
<1> QED
  BY <1>1, <1>2, <1>3, <1>10, <1>11 DEF Kept, IInv, PortOK

LEMMA SysReadStep ==
  ASSUME IInv, NEW p \in Users, SysRead(p)
  PROVE  Kept
<1> USE Constants
<1> DEFINE q == tty.kb_wait_que
           st == [state EXCEPT ![p] = "IO_WAIT"]
<1>1. /\ state[p] = "READY" /\ Len(q) < MAX_READERS
      /\ tty' = [tty EXCEPT !.kb_wait_que = EnQue(@, p)] /\ state' = st
      /\ length' = length /\ thr' = thr /\ txrdy' = txrdy /\ rx' = rx
  BY DEF SysRead
<1>2. /\ tty \in Record /\ state \in [Users -> {"READY", "IO_WAIT"}] /\ Queued(tty, state)
      /\ Len(tty.echo) <= QUE_MAX /\ Len(tty.dsp_wait_que) <= MAX_WRITERS /\ PortOK
      /\ q \in Seq(Users) /\ tty.dsp_wait_que \in Seq(Users) /\ tty.echo \in Seq(Chars)
      /\ length \in [Users -> 0..TEXT_MAX]
  BY RecordFields DEF IInv, Sound
<1>3. p \notin Range(q) /\ p \notin Range(tty.dsp_wait_que)
  BY <1>1, <1>2 DEF Queued, InIoWait
<1>4. /\ EnQue(q, p) \in Seq(Users) /\ Range(EnQue(q, p)) = Range(q) \cup {p}
      /\ Holds(EnQue(q, p), Range(EnQue(q, p)))
  BY <1>1, <1>2, <1>3, JoinLemma DEF Queued
<1>5. /\ tty' \in Record /\ tty'.kb_wait_que = EnQue(q, p)
      /\ tty'.dsp_wait_que = tty.dsp_wait_que
      /\ tty'.echo = tty.echo /\ tty'.dsp_str = tty.dsp_str
  BY <1>1, <1>2, <1>4 DEF Record
<1>6. st \in [Users -> {"READY", "IO_WAIT"}] /\ InIoWait(st) = InIoWait(state) \cup {p}
  BY <1>2 DEF InIoWait
<1> HIDE DEF st
<1>7. Queued(tty', state')
  BY <1>1, <1>2, <1>3, <1>4, <1>5, <1>6 DEF Queued
<1>8. Sound(tty', state')
  BY <1>1, <1>2, <1>5, <1>6, <1>7 DEF Sound
<1>9. IInv'
  BY <1>1, <1>2, <1>8 DEF IInv, PortOK
<1>10. ChainUnbroken => ChainUnbroken'
  BY <1>1, <1>5 DEF ChainUnbroken
<1> QED
  BY <1>1, <1>5, <1>9, <1>10 DEF Kept, Pointed

LEMMA TransmitStep ==
  ASSUME IInv, TTYSRTransmit
  PROVE  Kept
<1>1. TTYdspSR(tty, state, length, FALSE) /\ length' = length /\ rx' = rx
  BY DEF TTYSRTransmit
<1>2. Sound(tty, state) /\ length \in [Users -> 0..TEXT_MAX] /\ PortOK
  BY DEF IInv
<1>3. /\ Sound(tty', state') /\ txrdy' \in BOOLEAN /\ thr' \in Chars \cup {EMPTY}
      /\ MAX_WRITERS = 1 => ChainUnbroken'
      /\ MAX_WRITERS = 1 /\ Pointed(tty, length) =>
           /\ Pointed(tty', length)
           /\ \A p \in Range(tty.dsp_wait_que) : p \notin Range(tty'.dsp_wait_que) =>
                tty'.dsp_str = [of |-> p, at |-> length[p]]
  BY <1>1, <1>2, DisplayLemma
<1> QED
  BY <1>1, <1>2, <1>3 DEF Kept, IInv, PortOK

\* TTYkbSR leaves the writers and dsp_str alone.
LEMMA ReceiveStep ==
  ASSUME IInv, TTYSRReceive
  PROVE  Kept
<1> USE Constants
<1>1. /\ Sound(tty, state) /\ length \in [Users -> 0..TEXT_MAX] /\ PortOK
      /\ txrdy \in BOOLEAN /\ rx \in Keys \cup {EMPTY}
  BY DEF IInv, PortOK
<1>2. rx # EMPTY /\ rx' = EMPTY /\ length' = length /\ rx \in Chars
  BY <1>1 DEF TTYSRReceive
<1>3. ASSUME NEW t, NEW st, Sound(t, st), TTYdspSR(t, st, length, txrdy),
             t.dsp_wait_que = tty.dsp_wait_que, t.dsp_str = tty.dsp_str
      PROVE  Kept
  <2>1. /\ Sound(tty', state') /\ txrdy' \in BOOLEAN /\ thr' \in Chars \cup {EMPTY}
        /\ MAX_WRITERS = 1 => ChainUnbroken'
        /\ MAX_WRITERS = 1 /\ Pointed(t, length) =>
             /\ Pointed(tty', length)
             /\ \A p \in Range(t.dsp_wait_que) : p \notin Range(tty'.dsp_wait_que) =>
                  tty'.dsp_str = [of |-> p, at |-> length[p]]
    BY <1>1, <1>3, DisplayLemma
  <2>2. Pointed(tty, length) => Pointed(t, length)
    BY <1>3 DEF Pointed
  <2> QED
    BY <1>1, <1>2, <1>3, <2>1, <2>2 DEF Kept, IInv, PortOK
<1>4. /\ tty \in Record /\ state \in [Users -> {"READY", "IO_WAIT"}] /\ Queued(tty, state)
      /\ Len(tty.echo) <= QUE_MAX /\ Len(tty.dsp_wait_que) <= MAX_WRITERS
      /\ tty.kb_wait_que \in Seq(Users) /\ tty.dsp_wait_que \in Seq(Users)
      /\ tty.echo \in Seq(Chars)
  BY <1>1, RecordFields DEF Sound
<1>5. CASE QueEmpty(tty.kb_wait_que) /\ TTYdspSR(tty, state, length, txrdy)
  BY <1>1, <1>3, <1>5
<1> DEFINE e == EnQue(tty.echo, rx)
<1>6. e \in Seq(Chars) /\ Len(e) <= QUE_MAX
  BY <1>2, <1>4, EchoLemma
<1>7. CASE TTYdspSR([tty EXCEPT !.echo = EnQue(@, rx)], state, length, txrdy)
  <2> DEFINE t == [tty EXCEPT !.echo = EnQue(@, rx)]
  <2>1. /\ t \in Record /\ t.echo = e /\ t.dsp_wait_que = tty.dsp_wait_que
        /\ t.kb_wait_que = tty.kb_wait_que /\ t.dsp_str = tty.dsp_str
    BY <1>4, <1>6 DEF Record
  <2> HIDE DEF t
  <2>2. Sound(t, state)
    BY <1>4, <1>6, <2>1 DEF Sound, Queued
  <2>3. TTYdspSR(t, state, length, txrdy)
    BY <1>7 DEF t
  <2> QED
    BY <1>3, <2>1, <2>2, <2>3
<1>8. ASSUME ~QueEmpty(tty.kb_wait_que),
             TTYdspSR([tty EXCEPT !.echo = EnQue(EnQue(@, rx), "lf"),
                                  !.kb_wait_que = AfterDeQue(@)],
                      [state EXCEPT ![Head(tty.kb_wait_que)] = "READY"], length, txrdy)
      PROVE  Kept
  <2> DEFINE q == tty.kb_wait_que
             pid == Head(q)
             t == [tty EXCEPT !.echo = EnQue(EnQue(@, rx), "lf"), !.kb_wait_que = AfterDeQue(@)]
             st == [state EXCEPT ![pid] = "READY"]
  <2>1. EnQue(e, "lf") \in Seq(Chars) /\ Len(EnQue(e, "lf")) <= QUE_MAX
    <3> HIDE DEF e
    <3> QED
      BY <1>6, EchoLemma
  <2>2. /\ pid \in Range(q) /\ pid \in Users /\ AfterDeQue(q) \in Seq(Users)
        /\ Range(AfterDeQue(q)) = Range(q) \ {pid}
        /\ Holds(AfterDeQue(q), Range(AfterDeQue(q)))
    BY <1>4, <1>8, LeaveLemma DEF Queued
  <2>3. /\ t \in Record /\ t.echo = EnQue(e, "lf") /\ t.dsp_wait_que = tty.dsp_wait_que
        /\ t.kb_wait_que = AfterDeQue(q) /\ t.dsp_str = tty.dsp_str
    BY <1>4, <2>1, <2>2 DEF Record
  <2>4. st \in [Users -> {"READY", "IO_WAIT"}] /\ InIoWait(st) = InIoWait(state) \ {pid}
    BY <1>4, <2>2 DEF InIoWait
  <2>5. TTYdspSR(t, st, length, txrdy)
    BY <1>8
  <2> HIDE DEF pid, t, st, e
  <2>6. Queued(t, st)
    BY <1>4, <2>2, <2>3, <2>4 DEF Queued
  <2>7. Sound(t, st)
    BY <1>4, <2>1, <2>3, <2>4, <2>6 DEF Sound
  <2> QED
    BY <1>3, <2>3, <2>5, <2>7
<1> QED
  BY <1>5, <1>7, <1>8 DEF TTYSRReceive

\* The port, the person at the terminal, and steps that change nothing.
LEMMA PortStep ==
  ASSUME IInv, CharacterGoes \/ KeyTyped \/ UNCHANGED vars
  PROVE  Kept
<1>1. tty' = tty /\ state' = state /\ length' = length
  BY DEF CharacterGoes, KeyTyped, vars
<1>2. PortOK'
  BY DEF IInv, PortOK, CharacterGoes, KeyTyped, vars
<1>3. ChainUnbroken => ChainUnbroken'
  BY DEF ChainUnbroken, CharacterGoes, KeyTyped, vars
<1> QED
  BY <1>1, <1>2, <1>3 DEF Kept, IInv, Pointed

LEMMA StepHolds == IInv /\ [Next]_vars => Kept
BY SysWriteStep, SysReadStep, TransmitStep, ReceiveStep, PortStep DEF Next, TTYSR

LEMMA Invariance == Spec => []IInv
<1>1. IInv /\ [Next]_vars => IInv'
  BY StepHolds DEF Kept
<1> QED
  BY InitHolds, <1>1, PTL DEF Spec

-----------------------------------------------------------------------------
\* The types of the tables, for any number of writers and readers.
THEOREM TtyTypeCorrect == Spec => []TypeOK
<1>1. IInv => TypeOK
  BY RecordFields DEF IInv, Sound, PortOK, TypeOK
<1> QED
  BY Invariance, <1>1, PTL

\* A process is in IO_WAIT exactly while one queue holds it, once: the upper
\* half puts it there and the lower half takes it out with its release.
THEOREM WaitersCorrect == Spec => []WaitersAreQueued
<1>1. IInv => WaitersAreQueued
  <2> SUFFICES ASSUME IInv PROVE WaitersAreQueued
    OBVIOUS
  <2>1. Queued(tty, state) /\ tty.dsp_wait_que \in Seq(Users) /\ tty.kb_wait_que \in Seq(Users)
    BY RecordFields DEF IInv, Sound
  <2>2. IsInjective(tty.dsp_wait_que \o tty.kb_wait_que)
    BY <2>1, HoldsConcat DEF Queued, Holds
  <2> QED
    BY <2>1, <2>2 DEF WaitersAreQueued, Waiting, Queued, InIoWait
<1> QED
  BY Invariance, <1>1, PTL

\* One writer at a time: while there is something to display, an interrupt of
\* the port is to come.
THEOREM ChainCorrect ==
  ASSUME MAX_WRITERS = 1
  PROVE  Spec => []ChainUnbroken
<1>1. IInv /\ ChainUnbroken /\ [Next]_vars => IInv' /\ ChainUnbroken'
  BY StepHolds DEF Kept
<1> QED
  BY InitHolds, <1>1, PTL DEF Spec

\* One writer at a time: sys_write returns to a process at the end of its own
\* string, whatever keys and echo come in between.
THEOREM ReleaseCorrect ==
  ASSUME MAX_WRITERS = 1
  PROVE  Spec => ReleasedWhenServed
<1> DEFINE Inv == IInv /\ Pointed(tty, length)
<1>1. Init => Inv
  BY InitHolds
<1>2. Inv /\ [Next]_vars => Inv'
  BY StepHolds DEF Kept, Pointed
<1>3. Inv /\ [Next]_vars =>
        [\A p \in Users : p \in Range(tty.dsp_wait_que) /\ p \notin Range(tty'.dsp_wait_que) =>
           tty'.dsp_str = [of |-> p, at |-> length[p]]]_vars
  BY StepHolds DEF Kept
<1> QED
  BY <1>1, <1>2, <1>3, PTL DEF Spec, ReleasedWhenServed

-----------------------------------------------------------------------------
\* Families of phase 5.
Members == Pids \ {IDLE}

States == {"AVAIL", "READY", "RUN", "SLEEP", "SUSPEND", "WAIT", "ZOMBIE"}
Pcb == [state : States, ppid : Pids, wake_in : 0..(4 * NAP), tf_p : Pids]
Places == ({"Init"} \X (1..12)) \cup ({"Child"} \X (1..8)) \cup ({"Failed"} \X (1..2))
Page == [at : Places, eip : Pids, ebp : Pids, bp : Pids, ret : Pids,
         i : 0..(CHILDREN + COLS), period : 0..4, total : Codes,
         exit_pid : Pids, exit_code : Codes \cup {NONE}]

In(pc, s) == {p \in Members : pc[p].state = s}

\* The running process and the ready queue; rp is NONE behind a call.
Cpu(rp, pc, rq) ==
  /\ pc \in [Pids -> Pcb] /\ pc[IDLE].state \in {"READY", "RUN"} /\ pc[IDLE].ppid = IDLE
  /\ In(pc, "RUN") = {rp} \cap Members
  /\ rq \in Seq(Pids) /\ Holds(rq, In(pc, "READY"))

QueuesHold(pc, aq, mutex) ==
  /\ aq \in Seq(Pids) /\ Holds(aq, In(pc, "AVAIL"))
  /\ mutex \in [lock : BOOLEAN, suspend_que : Seq(Pids)]
  /\ Holds(mutex.suspend_que, In(pc, "SUSPEND"))

\* The children of p that it has not collected, and the exits of those it could.
Children(pc, p) == {c \in Members : pc[c].state # "AVAIL" /\ pc[c].ppid = p}
Dead(pc, p) == {c \in Children(pc, p) : pc[c].state = "ZOMBIE"}
Exits(pc, sl, p) == {<<c, sl[c]>> : c \in Dead(pc, p)}

\* Every pointer of p points into its own page.
Own(pcp, pgp, p) ==
  pcp.tf_p = p /\ pgp.eip = p /\ pgp.ebp = p /\ pgp.bp = p /\ pgp.ret = p

\* What a child at n knows of itself: e are the exits it would have to report.
IsChild(n, x, s, e) ==
  /\ x.total = s /\ e = {}
  /\ n = 1 => x.total = 0
  /\ n \in 2..7 => x.i < COLS /\ x.total <= 4 * x.i
  /\ n = 8 => x.i = COLS /\ x.total <= 4 * x.i
  /\ n = 7 => x.period \in Periods

\* An Init at n with the children kin, e the exits of its dead ones: it forks, it
\* waits, it reports the child whose exit it was told, it has done.
Forks(n, x, kin, e, d) == n = 1 /\ x.i < CHILDREN /\ Cardinality(kin) = x.i /\ e = d
Forked(n, x, kin, e, d) == n = 2 /\ Cardinality(kin) = CHILDREN /\ e = d
Waits(n, waiting, x, kin, e, d) ==
  /\ n = 3 \/ (n = 4 /\ waiting)
  /\ x.i < CHILDREN /\ Cardinality(kin) = CHILDREN - x.i /\ e = d
Reports(n, waiting, x, kin, e, d) ==
  /\ n \in 4..10 /\ ~waiting
  /\ x.i < CHILDREN /\ Cardinality(kin) = CHILDREN - x.i - 1
  /\ e = d \cup {<<x.exit_pid, x.exit_code>>} /\ x.exit_pid \notin kin
Done(n, kin, e) == n \in 11..12 /\ kin = {} /\ e = {}

IsInit(n, waiting, x, kin, e, d) ==
  /\ x.total = 0
  /\ \/ Forks(n, x, kin, e, d) \/ Forked(n, x, kin, e, d)
     \/ Waits(n, waiting, x, kin, e, d) \/ Reports(n, waiting, x, kin, e, d)
     \/ Done(n, kin, e)

Member(pc, pg, sl, en, p) ==
  /\ Own(pc[p], pg[p], p)
  /\ pc[p].state = "WAIT" => pg[p].at = <<"Init", 4>>
  /\ pg[p].at[1] = "Child" =>
       /\ pc[p].ppid \in Members /\ pc[pc[p].ppid].state # "AVAIL"
       /\ pg[pc[p].ppid].at[1] # "Child"
       /\ IsChild(pg[p].at[2], pg[p], sl[p], en[p])
  /\ pg[p].at[1] # "Child" => pc[p].ppid = IDLE
  /\ pg[p].at[1] = "Init" =>
       IsInit(pg[p].at[2], pc[p].state = "WAIT", pg[p], Children(pc, p), en[p], Exits(pc, sl, p))

Families(pc, pg, sl, en) ==
  /\ pg \in [Pids -> Page] /\ sl \in [Pids -> Nat] /\ en \in [Pids -> SUBSET (Pids \X Int)]
  /\ Own(pc[IDLE], pg[IDLE], IDLE) /\ pg[IDLE].at = <<"Init", 1>>
  /\ \A p \in Members : IF pc[p].state = "AVAIL" THEN en[p] = {} ELSE Member(pc, pg, sl, en, p)

FInv ==
  /\ run_pid \in Pids /\ time_count \in 0..BURST /\ inits \in 1..INITS
  /\ Cpu(run_pid, pcb, ready_que) /\ QueuesHold(pcb, avail_que, video_mutex)
  /\ Families(pcb, page, slept, ended)
-----------------------------------------------------------------------------
LEMMA PidFacts ==
  /\ QUE_MAX \in Nat /\ QUE_MAX >= 2 /\ CHILDREN \in Nat \ {0} /\ COLS \in Nat \ {0}
  /\ NAP \in Nat \ {0} /\ INITS \in Nat \ {0} /\ Periods \subseteq 1..4
  /\ IDLE \in Pids /\ IDLE \notin Members /\ Members \subseteq Pids /\ Pids \subseteq Nat
  /\ IsFiniteSet(Members) /\ IsFiniteSet(Pids) /\ Cardinality(Members) <= QUE_MAX
  /\ \A p \in Pids : p > IDLE <=> p \in Members
  /\ NONE \notin Pids /\ ~(NONE > IDLE) /\ NONE \in Int
<1>1. QUE_MAX \in Nat /\ QUE_MAX >= 2
  BY FamilyAssumption
<1>2. IsFiniteSet(Pids) /\ Cardinality(Pids) = QUE_MAX
  <2>1. 0 \in Int /\ QUE_MAX - 1 \in Int /\ ~(0 > QUE_MAX - 1)
    BY <1>1
  <2>2. Cardinality(0..(QUE_MAX - 1)) = (QUE_MAX - 1) - 0 + 1 /\ IsFiniteSet(0..(QUE_MAX - 1))
    BY <2>1, FS_Interval
  <2> QED
    BY <1>1, <2>2 DEF Pids
<1>3. IsFiniteSet(Members) /\ Cardinality(Members) <= QUE_MAX
  BY <1>2, FS_Subset DEF Members
<1> QED
  BY <1>1, <1>2, <1>3, FamilyAssumption DEF Members, Pids, IDLE, NONE

LEMMA OneMore ==
  ASSUME NEW S, IsFiniteSet(S), NEW x, x \notin S
  PROVE  Cardinality(S \cup {x}) = Cardinality(S) + 1
BY FS_AddElement

LEMMA OneLess ==
  ASSUME NEW S, IsFiniteSet(S), NEW x, x \in S
  PROVE  Cardinality(S \ {x}) = Cardinality(S) - 1
BY FS_RemoveElement

\* A process keeps its account when nothing of its family changes.
LEMMA MemberKept ==
  ASSUME NEW pc, NEW pg, NEW sl, NEW en, NEW pc2, NEW pg2, NEW sl2, NEW en2,
         NEW p \in Members, Member(pc, pg, sl, en, p),
         pc2[p].ppid = pc[p].ppid, pc2[p].tf_p = pc[p].tf_p,
         pc2[p].state = "WAIT" <=> pc[p].state = "WAIT",
         pg2[p] = pg[p], sl2[p] = sl[p], en2[p] = en[p],
         Children(pc2, p) = Children(pc, p), Exits(pc2, sl2, p) = Exits(pc, sl, p),
         \A q \in Members : q = pc[p].ppid /\ pc[q].state # "AVAIL" /\ pg[q].at[1] # "Child"
                              => pc2[q].state # "AVAIL" /\ pg2[q].at[1] # "Child"
  PROVE  Member(pc2, pg2, sl2, en2, p)
<1>1. Own(pc2[p], pg2[p], p)
  BY DEF Own, Member
<1>2. pg[p].at[1] = "Init" =>
        IsInit(pg2[p].at[2], pc2[p].state = "WAIT", pg2[p], Children(pc2, p), en2[p],
               Exits(pc2, sl2, p))
  BY DEF Member, IsInit, Waits, Reports
<1> QED
  BY <1>1, <1>2 DEF Member

\* A change of states other than to or from AVAIL, WAIT and, of a child, ZOMBIE is
\* no matter of the families.
LEMMA StatesKept ==
  ASSUME NEW pc, NEW pg, NEW sl, NEW en, Families(pc, pg, sl, en), NEW pc2,
         \A p \in Pids :
           /\ pc2[p].ppid = pc[p].ppid /\ pc2[p].tf_p = pc[p].tf_p
           /\ \A s \in {"AVAIL", "WAIT"} : pc2[p].state = s <=> pc[p].state = s
           /\ pc[p].ppid # IDLE => (pc2[p].state = "ZOMBIE" <=> pc[p].state = "ZOMBIE")
  PROVE  Families(pc2, pg, sl, en)
<1> USE PidFacts
<1>1. Own(pc2[IDLE], pg[IDLE], IDLE)
  BY DEF Families, Own
<1>2. ASSUME NEW p \in Members, pc2[p].state # "AVAIL"
      PROVE  Member(pc2, pg, sl, en, p)
  <2>1. Member(pc, pg, sl, en, p)
    BY <1>2 DEF Families
  <2>2. Children(pc2, p) = Children(pc, p)
    BY DEF Children
  <2>3. Dead(pc2, p) = Dead(pc, p)
    BY <2>2 DEF Dead, Children
  <2> QED
    BY <2>1, <2>2, <2>3, MemberKept DEF Exits
<1>3. \A p \in Members : pc2[p].state = "AVAIL" => en[p] = {}
  BY DEF Families
<1> QED
  BY <1>1, <1>2, <1>3 DEF Families

\* A new Init has no children and nothing to report.
LEMMA SpawnKept ==
  ASSUME NEW pc \in [Pids -> Pcb], NEW pg, NEW sl, NEW en, Families(pc, pg, sl, en),
         NEW f \in Members, pc[f].state = "AVAIL"
  PROVE  Families([pc EXCEPT ![f] = Cleared(f)], [pg EXCEPT ![f] = Loaded(f)], sl, en)
<1> USE PidFacts
<1> DEFINE pc2 == [pc EXCEPT ![f] = Cleared(f)]
           pg2 == [pg EXCEPT ![f] = Loaded(f)]
<1>1. /\ Cleared(f).state = "READY" /\ Cleared(f).ppid = IDLE /\ Cleared(f).tf_p = f
      /\ Loaded(f) \in Page /\ Loaded(f).at = <<"Init", 1>>
      /\ Loaded(f).i = 0 /\ Loaded(f).total = 0
      /\ Own(Cleared(f), Loaded(f), f)
  BY DEF Cleared, Loaded, Page, Places, Codes, Own, IDLE, Pids
<1>2. /\ pg \in [Pids -> Page] /\ sl \in [Pids -> Nat] /\ en \in [Pids -> SUBSET (Pids \X Int)]
      /\ Own(pc[IDLE], pg[IDLE], IDLE) /\ pg[IDLE].at = <<"Init", 1>>
  BY DEF Families
<1>3. /\ pc2[f] = Cleared(f) /\ pg2[f] = Loaded(f) /\ pg2 \in [Pids -> Page]
      /\ \A p \in Pids : p # f => pc2[p] = pc[p] /\ pg2[p] = pg[p]
  BY <1>1, <1>2
<1> HIDE DEF pc2, pg2
<1>4. ASSUME NEW p \in Members
      PROVE  Children(pc2, p) = Children(pc, p) /\ Dead(pc2, p) = Dead(pc, p)
  <2>1. ASSUME NEW c \in Members
        PROVE  /\ pc2[c].state # "AVAIL" /\ pc2[c].ppid = p <=>
                    pc[c].state # "AVAIL" /\ pc[c].ppid = p
               /\ pc2[c].ppid = p => (pc2[c].state = "ZOMBIE" <=> pc[c].state = "ZOMBIE")
    BY <1>1, <1>3
  <2>2. Children(pc2, p) = Children(pc, p)
    BY <2>1 DEF Children
  <2> QED
    BY <2>1, <2>2 DEF Dead, Children
<1>5. ASSUME NEW p \in Members, pc2[p].state # "AVAIL"
      PROVE  Member(pc2, pg2, sl, en, p)
  <2>1. CASE p # f
    <3>1. Member(pc, pg, sl, en, p) /\ pc2[p] = pc[p] /\ pg2[p] = pg[p]
      BY <1>3, <1>5, <2>1 DEF Families
    <3>2. Exits(pc2, sl, p) = Exits(pc, sl, p)
      BY <1>4 DEF Exits
    <3>3. \A q \in Members : pc[q].state # "AVAIL" => pc2[q] = pc[q] /\ pg2[q] = pg[q]
      BY <1>3
    <3> QED
      BY <3>1, <3>2, <3>3, <1>4, MemberKept
  <2>2. CASE p = f
    <3>1. \A c \in Members : pc[c].state # "AVAIL" => pc[c].ppid # f
      BY DEF Families, Member
    <3>2. Children(pc2, f) = {} /\ Dead(pc2, f) = {}
      BY <1>4, <3>1 DEF Children, Dead
    <3>3. Exits(pc2, sl, f) = {} /\ en[f] = {} /\ Cardinality({}) = 0
      BY <3>2, FS_EmptySet DEF Exits, Families
    <3>4. Forks(1, pg2[f], {}, {}, {})
      BY <1>1, <1>3, <3>3 DEF Forks
    <3>5. IsInit(1, pc2[f].state = "WAIT", pg2[f], Children(pc2, f), en[f], Exits(pc2, sl, f))
      BY <1>1, <1>3, <3>2, <3>3, <3>4 DEF IsInit
    <3> QED
      BY <1>1, <1>3, <2>2, <3>5 DEF Member
  <2> QED
    BY <2>1, <2>2
<1>6. Own(pc2[IDLE], pg2[IDLE], IDLE) /\ pg2[IDLE].at = <<"Init", 1>>
  BY <1>2, <1>3
<1>7. \A p \in Members : pc2[p].state = "AVAIL" => en[p] = {}
  BY <1>1, <1>3 DEF Families
<1>8. Families(pc2, pg2, sl, en)
  BY <1>2, <1>3, <1>5, <1>6, <1>7 DEF Families
<1> QED
  BY <1>8 DEF pc2, pg2

\* The running process goes on: only its page and its own accounts change.
LEMMA RunnerKept ==
  ASSUME NEW pc \in [Pids -> Pcb], NEW pg, NEW sl, NEW en, Families(pc, pg, sl, en),
         NEW r \in Members, pc[r].state = "RUN",
         NEW x \in Page, NEW s \in Nat, NEW e \in SUBSET (Pids \X Int),
         (pg[r].at[1] = "Child") <=> (x.at[1] = "Child"),
         Own(pc[r], x, r),
         x.at[1] = "Child" => IsChild(x.at[2], x, s, e),
         x.at[1] = "Init" =>
           IsInit(x.at[2], FALSE, x, Children(pc, r), e, Exits(pc, sl, r))
  PROVE  Families(pc, [pg EXCEPT ![r] = x], [sl EXCEPT ![r] = s], [en EXCEPT ![r] = e])
<1> USE PidFacts
<1> DEFINE pg2 == [pg EXCEPT ![r] = x]
           sl2 == [sl EXCEPT ![r] = s]
           en2 == [en EXCEPT ![r] = e]
<1>2. /\ pg \in [Pids -> Page] /\ sl \in [Pids -> Nat] /\ en \in [Pids -> SUBSET (Pids \X Int)]
      /\ Own(pc[IDLE], pg[IDLE], IDLE) /\ pg[IDLE].at = <<"Init", 1>>
  BY DEF Families
<1>3. /\ pg2[r] = x /\ sl2[r] = s /\ en2[r] = e
      /\ \A p \in Pids : p # r => pg2[p] = pg[p] /\ sl2[p] = sl[p] /\ en2[p] = en[p]
      /\ pg2 \in [Pids -> Page] /\ sl2 \in [Pids -> Nat] /\ en2 \in [Pids -> SUBSET (Pids \X Int)]
  BY <1>2
<1> HIDE DEF pg2, sl2, en2
<1>4. ASSUME NEW p \in Members
      PROVE  Exits(pc, sl2, p) = Exits(pc, sl, p)
  <2>1. \A c \in Dead(pc, p) : c \in Pids /\ c # r
    BY DEF Dead, Children
  <2>2. \A c \in Dead(pc, p) : <<c, sl2[c]>> = <<c, sl[c]>>
    BY <1>3, <2>1
  <2> QED
    BY <2>2 DEF Exits
<1>5. ASSUME NEW p \in Members, pc[p].state # "AVAIL"
      PROVE  Member(pc, pg2, sl2, en2, p)
  <2>0. Member(pc, pg, sl, en, p)
    BY <1>5 DEF Families
  <2>1. CASE p # r
    BY <1>3, <1>4, <2>0, <2>1, MemberKept
  <2>2. CASE p = r
    BY <1>3, <1>4, <2>0, <2>2 DEF Member
  <2> QED
    BY <2>1, <2>2
<1>6. Own(pc[IDLE], pg2[IDLE], IDLE) /\ pg2[IDLE].at = <<"Init", 1>>
  BY <1>2, <1>3
<1>7. \A p \in Members : pc[p].state = "AVAIL" => en2[p] = {}
  BY <1>3 DEF Families
<1>8. Families(pc, pg2, sl2, en2)
  BY <1>2, <1>3, <1>5, <1>6, <1>7 DEF Families
<1> QED
  BY <1>8 DEF pg2, sl2, en2

\* A fork gives r one more child, f, at the start of its own text.
LEMMA ForkKept ==
  ASSUME NEW pc \in [Pids -> Pcb], NEW pg, NEW sl, NEW en, Families(pc, pg, sl, en),
         NEW r \in Members, pc[r].state = "RUN", pg[r].at = <<"Init", 1>>,
         NEW f \in Members, pc[f].state = "AVAIL",
         NEW copy \in Pcb, copy.state = "READY", copy.ppid = r,
         NEW y \in Page, y.at = <<"Child", 1>>, y.total = 0, Own(copy, y, f),
         NEW x \in Page, Own(pc[r], x, r), x.total = 0, x.i = pg[r].i + 1,
         x.at = <<"Init", IF x.i = CHILDREN THEN 2 ELSE 1>>
  PROVE  Families([pc EXCEPT ![f] = copy], [pg EXCEPT ![f] = y, ![r] = x],
                  [sl EXCEPT ![f] = 0], en)
<1> USE PidFacts
<1> DEFINE pc2 == [pc EXCEPT ![f] = copy]
           pg2 == [pg EXCEPT ![f] = y, ![r] = x]
           sl2 == [sl EXCEPT ![f] = 0]
<1>1. f # r
  OBVIOUS
<1>2. /\ pg \in [Pids -> Page] /\ sl \in [Pids -> Nat] /\ en \in [Pids -> SUBSET (Pids \X Int)]
      /\ Own(pc[IDLE], pg[IDLE], IDLE) /\ pg[IDLE].at = <<"Init", 1>>
  BY DEF Families
<1>3. /\ pc2[f] = copy /\ pg2[f] = y /\ pg2[r] = x /\ sl2[f] = 0
      /\ \A p \in Pids : p # f => pc2[p] = pc[p] /\ sl2[p] = sl[p]
      /\ \A p \in Pids : p # f /\ p # r => pg2[p] = pg[p]
      /\ pg2 \in [Pids -> Page] /\ sl2 \in [Pids -> Nat]
  BY <1>1, <1>2
<1> HIDE DEF pc2, pg2, sl2
<1>4. /\ f \notin Children(pc, r) /\ Children(pc2, r) = Children(pc, r) \cup {f}
      /\ \A p \in Members : p # r => Children(pc2, p) = Children(pc, p)
  <2>1. ASSUME NEW c \in Members, NEW p \in Members, c # f
        PROVE  c \in Children(pc2, p) <=> c \in Children(pc, p)
    BY <1>3, <2>1 DEF Children
  <2>2. \A p \in Members : f \notin Children(pc, p) /\ (f \in Children(pc2, p) <=> p = r)
    BY <1>3 DEF Children
  <2>3. \A p \in Members : Children(pc2, p) \subseteq Members /\ Children(pc, p) \subseteq Members
    BY DEF Children
  <2> QED
    BY <2>1, <2>2, <2>3
<1>5. ASSUME NEW p \in Members
      PROVE  Exits(pc2, sl2, p) = Exits(pc, sl, p)
  <2>1. \A c \in Dead(pc, p) : c \in Pids /\ c # f
    BY DEF Dead, Children
  <2>2. Dead(pc2, p) = Dead(pc, p)
    <3>1. ASSUME NEW c \in Members, c # f
          PROVE  c \in Dead(pc2, p) <=> c \in Dead(pc, p)
      BY <1>3, <3>1 DEF Dead, Children
    <3>2. f \notin Dead(pc2, p) /\ f \notin Dead(pc, p)
      BY <1>3 DEF Dead, Children
    <3>3. Dead(pc2, p) \subseteq Members /\ Dead(pc, p) \subseteq Members
      BY DEF Dead, Children
    <3>4. \A c \in Members : c \in Dead(pc2, p) <=> c \in Dead(pc, p)
      BY <3>1, <3>2
    <3> HIDE PidFacts
    <3> QED
      BY <3>3, <3>4
  <2>3. \A c \in Dead(pc, p) : <<c, sl2[c]>> = <<c, sl[c]>>
    BY <1>3, <2>1
  <2> QED
    BY <2>2, <2>3 DEF Exits
<1>6. Member(pc2, pg2, sl2, en, r)
  <2>1. Member(pc, pg, sl, en, r) /\ pc2[r] = pc[r]
    BY <1>1, <1>3 DEF Families
  <2>2. Forks(1, pg[r], Children(pc, r), en[r], Exits(pc, sl, r))
    BY <2>1 DEF Member, IsInit, Forked, Waits, Reports, Done
  <2>3. Cardinality(Children(pc2, r)) = x.i /\ x.i <= CHILDREN /\ x.i \in Nat
    <3>1. IsFiniteSet(Children(pc, r))
      BY FS_Subset DEF Children
    <3>2. pg[r].i \in Nat /\ pg[r].i < CHILDREN /\ Cardinality(Children(pc, r)) = pg[r].i
      BY <1>2, <2>2 DEF Forks, Page
    <3>3. Cardinality(Children(pc, r) \cup {f}) = Cardinality(Children(pc, r)) + 1
      BY <1>4, <3>1, OneMore
    <3>4. Cardinality(Children(pc2, r)) = Cardinality(Children(pc, r)) + 1
      BY <1>4, <3>3
    <3> QED
      BY <3>2, <3>4
  <2>4. en[r] = Exits(pc2, sl2, r)
    BY <1>5, <2>2 DEF Forks
  <2>5. IsInit(x.at[2], pc2[r].state = "WAIT", x, Children(pc2, r), en[r], Exits(pc2, sl2, r))
    BY <2>3, <2>4 DEF IsInit, Forks, Forked
  <2> QED
    BY <1>3, <2>1, <2>5 DEF Member
<1>7. Member(pc2, pg2, sl2, en, f)
  <2>1. IsChild(1, y, 0, {}) /\ en[f] = {}
    BY DEF IsChild, Families
  <2> QED
    BY <1>1, <1>3, <2>1 DEF Member
<1>8. ASSUME NEW p \in Members, pc2[p].state # "AVAIL", p # f, p # r
      PROVE  Member(pc2, pg2, sl2, en, p)
  <2>1. Member(pc, pg, sl, en, p) /\ pc2[p] = pc[p] /\ pg2[p] = pg[p] /\ sl2[p] = sl[p]
    BY <1>3, <1>8 DEF Families
  <2>2. \A q \in Members : pc[q].state # "AVAIL" /\ pg[q].at[1] # "Child"
                             => pc2[q].state # "AVAIL" /\ pg2[q].at[1] # "Child"
    <3>1. x.at[1] = "Init"
      OBVIOUS
    <3> QED
      BY <1>3, <3>1
  <2> QED
    BY <1>4, <1>5, <1>8, <2>1, <2>2, MemberKept
<1>9. Own(pc2[IDLE], pg2[IDLE], IDLE) /\ pg2[IDLE].at = <<"Init", 1>>
  BY <1>2, <1>3
<1>10. \A p \in Members : pc2[p].state = "AVAIL" => en[p] = {}
  BY <1>3 DEF Families
<1>11. Families(pc2, pg2, sl2, en)
  BY <1>2, <1>3, <1>6, <1>7, <1>8, <1>9, <1>10 DEF Families
<1> QED
  BY <1>11 DEF pc2, pg2, sl2

\* A child exits and its parent does not wait.
LEMMA ZombieKept ==
  ASSUME NEW pc \in [Pids -> Pcb], NEW pg, NEW sl, NEW en, Families(pc, pg, sl, en),
         NEW r \in Members, pc[r].state = "RUN", pg[r].at[1] = "Child"
  PROVE  /\ pc[r].ppid \in Members
         /\ Families([pc EXCEPT ![r].state = "ZOMBIE"], pg, sl,
                     [en EXCEPT ![pc[r].ppid] = @ \cup {<<r, sl[r]>>}])
<1> USE PidFacts
<1> DEFINE parent == pc[r].ppid
           pc2 == [pc EXCEPT ![r].state = "ZOMBIE"]
           en2 == [en EXCEPT ![parent] = @ \cup {<<r, sl[r]>>}]
<1>1. /\ Member(pc, pg, sl, en, r)
      /\ parent \in Members /\ pc[parent].state # "AVAIL" /\ pg[parent].at[1] # "Child"
      /\ parent # r
  BY DEF Families, Member
<1>2. /\ pg \in [Pids -> Page] /\ sl \in [Pids -> Nat] /\ en \in [Pids -> SUBSET (Pids \X Int)]
      /\ Own(pc[IDLE], pg[IDLE], IDLE) /\ pg[IDLE].at = <<"Init", 1>>
  BY DEF Families
<1>3. /\ pc2[r].state = "ZOMBIE" /\ pc2[r].ppid = parent /\ pc2[r].tf_p = pc[r].tf_p
      /\ \A p \in Pids : p # r => pc2[p] = pc[p]
      /\ en2[parent] = en[parent] \cup {<<r, sl[r]>>}
      /\ \A p \in Pids : p # parent => en2[p] = en[p]
      /\ en2 \in [Pids -> SUBSET (Pids \X Int)]
  BY <1>1, <1>2 DEF Pcb
<1> HIDE DEF pc2, en2
<1>4. ASSUME NEW p \in Members
      PROVE  /\ Children(pc2, p) = Children(pc, p)
             /\ p # parent => Dead(pc2, p) = Dead(pc, p)
             /\ p = parent => Dead(pc2, p) = Dead(pc, p) \cup {r} /\ r \in Children(pc, p)
  <2>1. Children(pc2, p) = Children(pc, p)
    BY <1>3 DEF Children
  <2>2. ASSUME NEW c \in Members, c # r
        PROVE  c \in Dead(pc2, p) <=> c \in Dead(pc, p)
    BY <1>3, <2>1, <2>2 DEF Dead
  <2>3. /\ r \in Dead(pc2, p) <=> p = parent
        /\ r \in Children(pc, p) <=> p = parent
        /\ r \notin Dead(pc, p)
    BY <1>3 DEF Dead, Children
  <2>4. Dead(pc2, p) \subseteq Members /\ Dead(pc, p) \subseteq Members
    BY DEF Dead, Children
  <2> HIDE PidFacts
  <2>5. CASE p # parent
    <3>1. \A c \in Members : c \in Dead(pc2, p) <=> c \in Dead(pc, p)
      BY <2>2, <2>3, <2>5
    <3>2. Dead(pc2, p) = Dead(pc, p)
      BY <2>4, <3>1
    <3> QED
      BY <2>1, <2>5, <3>2
  <2>6. CASE p = parent
    <3>1. \A c \in Members : c \in Dead(pc2, p) <=> c \in Dead(pc, p) \cup {r}
      BY <2>2, <2>3, <2>6
    <3>2. Dead(pc2, p) = Dead(pc, p) \cup {r}
      BY <2>4, <3>1
    <3> QED
      BY <2>1, <2>3, <2>6, <3>2
  <2> QED
    BY <2>5, <2>6
<1>5. ASSUME NEW p \in Members, pc2[p].state # "AVAIL", p # parent
      PROVE  Member(pc2, pg, sl, en2, p)
  <2>1. Member(pc, pg, sl, en, p)
    BY <1>3, <1>5 DEF Families
  <2>2. /\ pc2[p].ppid = pc[p].ppid /\ pc2[p].tf_p = pc[p].tf_p /\ en2[p] = en[p]
        /\ pc2[p].state = "WAIT" <=> pc[p].state = "WAIT"
    BY <1>3, <1>5
  <2>3. Exits(pc2, sl, p) = Exits(pc, sl, p)
    BY <1>4, <1>5 DEF Exits
  <2>4. \A q \in Members : pc[q].state # "AVAIL" => pc2[q].state # "AVAIL"
    BY <1>3
  <2> QED
    BY <1>4, <2>1, <2>2, <2>3, <2>4, MemberKept
<1>6. Member(pc2, pg, sl, en2, parent)
  <2>1. Member(pc, pg, sl, en, parent) /\ pc2[parent] = pc[parent]
    BY <1>1, <1>3 DEF Families
  <2>2. Exits(pc2, sl, parent) = Exits(pc, sl, parent) \cup {<<r, sl[r]>>}
    BY <1>1, <1>4 DEF Exits
  <2>3. Children(pc2, parent) = Children(pc, parent) /\ Children(pc, parent) # {}
    BY <1>1, <1>4
  <2>4. ASSUME pg[parent].at[1] = "Init"
        PROVE  IsInit(pg[parent].at[2], pc2[parent].state = "WAIT", pg[parent],
                      Children(pc2, parent), en2[parent], Exits(pc2, sl, parent))
    <3>1. IsInit(pg[parent].at[2], pc[parent].state = "WAIT", pg[parent],
                 Children(pc, parent), en[parent], Exits(pc, sl, parent))
      BY <2>1, <2>4 DEF Member
    <3> QED
      BY <1>3, <2>1, <2>2, <2>3, <3>1 DEF IsInit, Forks, Forked, Waits, Reports, Done
  <2> QED
    BY <1>1, <2>1, <2>4 DEF Member
<1>7. \A p \in Members : pc2[p].state = "AVAIL" => en2[p] = {}
  BY <1>1, <1>3 DEF Families
<1>8. Families(pc2, pg, sl, en2)
  BY <1>2, <1>3, <1>5, <1>6, <1>7 DEF Families
<1> QED
  BY <1>1, <1>8 DEF pc2, en2

\* An Init that waits, or comes to, is told of the exit of its child c, whose pid
\* becomes available.
LEMMA ToldKept ==
  ASSUME NEW pc \in [Pids -> Pcb], NEW pg, NEW sl, NEW en, Families(pc, pg, sl, en),
         NEW q \in Members, pc[q].state # "AVAIL", pg[q].at[1] = "Init", pg[q].at[2] \in {3, 4},
         pc[q].state = "WAIT" \/ pg[q].at[2] = 3,
         NEW c \in Members, pc[c].state # "AVAIL", pc[c].ppid = q,
         NEW st \in {"READY", "RUN"},
         NEW x \in Page, Own(pc[q], x, q), x.total = 0, x.i = pg[q].i, x.at = <<"Init", 4>>,
         x.exit_pid = c, x.exit_code = sl[c]
  PROVE  Families([pc EXCEPT ![q].state = st, ![c].state = "AVAIL"], [pg EXCEPT ![q] = x], sl,
                  [en EXCEPT ![q] = @ \cup {<<c, sl[c]>>}])
<1> USE PidFacts
<1> DEFINE pc2 == [pc EXCEPT ![q].state = st, ![c].state = "AVAIL"]
           pg2 == [pg EXCEPT ![q] = x]
           en2 == [en EXCEPT ![q] = @ \cup {<<c, sl[c]>>}]
<1>1. /\ Member(pc, pg, sl, en, c) /\ Member(pc, pg, sl, en, q)
      /\ pg[c].at[1] = "Child" /\ en[c] = {} /\ c # q
  BY DEF Families, Member, IsChild
<1>2. /\ pg \in [Pids -> Page] /\ sl \in [Pids -> Nat] /\ en \in [Pids -> SUBSET (Pids \X Int)]
      /\ Own(pc[IDLE], pg[IDLE], IDLE) /\ pg[IDLE].at = <<"Init", 1>>
  BY DEF Families
<1>3. /\ pc2[c].state = "AVAIL" /\ pc2[q].state = st
      /\ \A p \in Pids : pc2[p].ppid = pc[p].ppid /\ pc2[p].tf_p = pc[p].tf_p
      /\ \A p \in Pids : p # c /\ p # q => pc2[p] = pc[p] /\ pg2[p] = pg[p]
      /\ \A p \in Pids : p # q => pg2[p] = pg[p] /\ en2[p] = en[p]
      /\ pg2[q] = x /\ en2[q] = en[q] \cup {<<c, sl[c]>>}
      /\ pg2 \in [Pids -> Page] /\ en2 \in [Pids -> SUBSET (Pids \X Int)]
  <2>1. pc2[c].state = "AVAIL" /\ pc2[q].state = st
    BY <1>1 DEF Pcb
  <2>2. \A p \in Pids : pc2[p].ppid = pc[p].ppid /\ pc2[p].tf_p = pc[p].tf_p
    BY <1>1 DEF Pcb
  <2>3. \A p \in Pids : p # c /\ p # q => pc2[p] = pc[p]
    OBVIOUS
  <2>4. pg2[q] = x /\ pg2 \in [Pids -> Page] /\ \A p \in Pids : p # q => pg2[p] = pg[p]
    BY <1>2
  <2>5. /\ en2[q] = en[q] \cup {<<c, sl[c]>>} /\ en2 \in [Pids -> SUBSET (Pids \X Int)]
        /\ \A p \in Pids : p # q => en2[p] = en[p]
    <3>1. <<c, sl[c]>> \in Pids \X Int
      BY <1>2
    <3> QED
      BY <1>2, <3>1
  <2> HIDE DEF pc2, pg2, en2
  <2> QED
    BY <2>1, <2>2, <2>3, <2>4, <2>5
<1> HIDE DEF pc2, pg2, en2
<1>4. ASSUME NEW p \in Members
      PROVE  /\ p # q => Children(pc2, p) = Children(pc, p) /\ Dead(pc2, p) = Dead(pc, p)
             /\ p = q => /\ Children(pc2, p) = Children(pc, p) \ {c}
                         /\ Dead(pc2, p) = Dead(pc, p) \ {c} /\ c \in Children(pc, p)
  <2>1. ASSUME NEW d \in Members, d # c
        PROVE  /\ d \in Children(pc2, p) <=> d \in Children(pc, p)
               /\ d \in Dead(pc2, p) <=> d \in Dead(pc, p)
    <3>1. /\ pc2[d].state = "AVAIL" <=> pc[d].state = "AVAIL"
          /\ pc2[d].ppid = pc[d].ppid
      BY <1>3, <2>1
    <3>2. d \in Children(pc2, p) <=> d \in Children(pc, p)
      BY <3>1 DEF Children
    <3>3. pc[d].ppid = IDLE \/ (pc2[d].state = "ZOMBIE" <=> pc[d].state = "ZOMBIE")
      <4>1. CASE d = q
        BY <1>1, <4>1 DEF Member
      <4>2. CASE d # q
        BY <1>3, <2>1, <4>2
      <4> QED
        BY <4>1, <4>2
    <3>4. d \in Children(pc, p) => pc[d].ppid # IDLE
      BY DEF Children
    <3> QED
      BY <3>2, <3>3, <3>4 DEF Dead
  <2>2. /\ c \notin Children(pc2, p) /\ c \notin Dead(pc2, p)
        /\ c \in Children(pc, p) <=> p = q
        /\ c \in Dead(pc, p) => p = q
    BY <1>3 DEF Dead, Children
  <2>3. /\ Dead(pc2, p) \subseteq Members /\ Dead(pc, p) \subseteq Members
        /\ Children(pc2, p) \subseteq Members /\ Children(pc, p) \subseteq Members
    BY DEF Dead, Children
  <2> HIDE PidFacts
  <2>4. /\ \A d \in Members : d \in Children(pc2, p) <=> d \in Children(pc, p) \ {c}
        /\ \A d \in Members : d \in Dead(pc2, p) <=> d \in Dead(pc, p) \ {c}
    BY <2>1, <2>2
  <2>5. Children(pc2, p) = Children(pc, p) \ {c} /\ Dead(pc2, p) = Dead(pc, p) \ {c}
    BY <2>3, <2>4
  <2>6. p # q => c \notin Children(pc, p) /\ c \notin Dead(pc, p)
    BY <2>2
  <2> QED
    BY <2>2, <2>5, <2>6
<1>5. ASSUME NEW p \in Members, pc2[p].state # "AVAIL", p # q
      PROVE  Member(pc2, pg2, sl, en2, p)
  <2>0. p # c
    BY <1>3, <1>5
  <2>1. Member(pc, pg, sl, en, p) /\ pc2[p] = pc[p] /\ pg2[p] = pg[p] /\ en2[p] = en[p]
    BY <1>3, <1>5, <2>0 DEF Families
  <2>2. Exits(pc2, sl, p) = Exits(pc, sl, p) /\ Children(pc2, p) = Children(pc, p)
    BY <1>4, <1>5 DEF Exits
  <2>3. \A d \in Members : pc[d].state # "AVAIL" /\ pg[d].at[1] # "Child"
                             => pc2[d].state # "AVAIL" /\ pg2[d].at[1] # "Child"
    <3>1. x.at[1] = "Init"
      OBVIOUS
    <3> QED
      BY <1>1, <1>3, <3>1
  <2> QED
    BY <2>1, <2>2, <2>3, MemberKept
<1>6. Member(pc2, pg2, sl, en2, q)
  <2>1. Waits(pg[q].at[2], pc[q].state = "WAIT", pg[q], Children(pc, q), en[q], Exits(pc, sl, q))
    BY <1>1 DEF Member, IsInit, Forks, Forked, Reports, Done
  <2>2. Cardinality(Children(pc2, q)) = Cardinality(Children(pc, q)) - 1
    <3>1. IsFiniteSet(Children(pc, q))
      BY FS_Subset DEF Children
    <3>2. Cardinality(Children(pc, q) \ {c}) = Cardinality(Children(pc, q)) - 1
      BY <1>4, <3>1, OneLess
    <3> QED
      BY <1>4, <3>2
  <2>3. en2[q] = Exits(pc2, sl, q) \cup {<<x.exit_pid, x.exit_code>>}
    <3>1. en2[q] = Exits(pc, sl, q) \cup {<<c, sl[c]>>}
      BY <1>3, <2>1 DEF Waits
    <3>2. Dead(pc2, q) = Dead(pc, q) \ {c}
      BY <1>4
    <3>3. Exits(pc, sl, q) \cup {<<c, sl[c]>>} = Exits(pc2, sl, q) \cup {<<c, sl[c]>>}
      BY <3>2 DEF Exits
    <3> QED
      BY <3>1, <3>3
  <2>4. x.exit_pid \notin Children(pc2, q)
    BY <1>4
  <2>5. Reports(4, pc2[q].state = "WAIT", x, Children(pc2, q), en2[q], Exits(pc2, sl, q))
    <3>1. x.i < CHILDREN /\ Cardinality(Children(pc, q)) = CHILDREN - x.i /\ x.i \in Nat
      BY <2>1 DEF Waits, Page
    <3>2. Cardinality(Children(pc2, q)) = CHILDREN - x.i - 1
      BY <2>2, <3>1
    <3>3. pc2[q].state # "WAIT"
      BY <1>3
    <3> QED
      BY <2>3, <2>4, <3>1, <3>2, <3>3 DEF Reports
  <2>6. IsInit(4, pc2[q].state = "WAIT", x, Children(pc2, q), en2[q], Exits(pc2, sl, q))
    BY <2>5 DEF IsInit
  <2>7. pc[q].ppid = IDLE
    BY <1>1 DEF Member
  <2>8. Own(pc2[q], x, q)
    BY <1>3 DEF Own
  <2> QED
    BY <1>3, <2>6, <2>7, <2>8 DEF Member
<1>7. Own(pc2[IDLE], pg2[IDLE], IDLE) /\ pg2[IDLE].at = <<"Init", 1>>
  BY <1>2, <1>3
<1>8. \A p \in Members : pc2[p].state = "AVAIL" => en2[p] = {}
  BY <1>1, <1>3 DEF Families
<1>9. Families(pc2, pg2, sl, en2)
  BY <1>2, <1>3, <1>5, <1>6, <1>7, <1>8 DEF Families
<1> QED
  BY <1>9 DEF pc2, pg2, en2

\* An Init none of whose children is dead goes to wait.
LEMMA WaitKept ==
  ASSUME NEW pc \in [Pids -> Pcb], NEW pg, NEW sl, NEW en, Families(pc, pg, sl, en),
         NEW r \in Members, pc[r].state = "RUN", pg[r].at = <<"Init", 3>>,
         NEW x \in Page, Own(pc[r], x, r), x.total = 0, x.i = pg[r].i, x.at = <<"Init", 4>>
  PROVE  Families([pc EXCEPT ![r].state = "WAIT"], [pg EXCEPT ![r] = x], sl, en)
<1> USE PidFacts
<1> DEFINE pc2 == [pc EXCEPT ![r].state = "WAIT"]
           pg2 == [pg EXCEPT ![r] = x]
<1>1. Member(pc, pg, sl, en, r) /\ pc[r].ppid = IDLE
  BY DEF Families, Member
<1>2. /\ pg \in [Pids -> Page] /\ sl \in [Pids -> Nat] /\ en \in [Pids -> SUBSET (Pids \X Int)]
      /\ Own(pc[IDLE], pg[IDLE], IDLE) /\ pg[IDLE].at = <<"Init", 1>>
  BY DEF Families
<1>3. /\ pc2[r].state = "WAIT" /\ pc2[r].ppid = pc[r].ppid /\ pc2[r].tf_p = pc[r].tf_p
      /\ pg2[r] = x /\ pg2 \in [Pids -> Page]
      /\ \A p \in Pids : p # r => pc2[p] = pc[p] /\ pg2[p] = pg[p]
  BY <1>2 DEF Pcb
<1> HIDE DEF pc2, pg2
<1>4. ASSUME NEW p \in Members
      PROVE  Children(pc2, p) = Children(pc, p) /\ Exits(pc2, sl, p) = Exits(pc, sl, p)
  <2>1. ASSUME NEW d \in Members
        PROVE  /\ pc2[d].state = "AVAIL" <=> pc[d].state = "AVAIL"
               /\ pc2[d].state = "ZOMBIE" <=> pc[d].state = "ZOMBIE"
               /\ pc2[d].ppid = pc[d].ppid
    BY <1>3
  <2>2. Children(pc2, p) = Children(pc, p)
    BY <2>1 DEF Children
  <2>3. Dead(pc2, p) = Dead(pc, p)
    BY <2>1, <2>2 DEF Dead, Children
  <2> QED
    BY <2>2, <2>3 DEF Exits
<1>5. ASSUME NEW p \in Members, pc2[p].state # "AVAIL", p # r
      PROVE  Member(pc2, pg2, sl, en, p)
  <2>1. Member(pc, pg, sl, en, p) /\ pc2[p] = pc[p] /\ pg2[p] = pg[p]
    BY <1>3, <1>5 DEF Families
  <2>2. \A d \in Members : pc[d].state # "AVAIL" /\ pg[d].at[1] # "Child"
                             => pc2[d].state # "AVAIL" /\ pg2[d].at[1] # "Child"
    <3>1. x.at[1] = "Init"
      OBVIOUS
    <3> QED
      BY <1>3, <3>1
  <2> QED
    BY <1>4, <2>1, <2>2, MemberKept
<1>6. Member(pc2, pg2, sl, en, r)
  <2>1. Waits(3, FALSE, pg[r], Children(pc, r), en[r], Exits(pc, sl, r))
    BY <1>1 DEF Member, IsInit, Forks, Forked, Waits, Reports, Done
  <2>2. Waits(4, pc2[r].state = "WAIT", x, Children(pc2, r), en[r], Exits(pc2, sl, r))
    BY <1>3, <1>4, <2>1 DEF Waits
  <2>3. IsInit(4, pc2[r].state = "WAIT", x, Children(pc2, r), en[r], Exits(pc2, sl, r))
    BY <2>2 DEF IsInit
  <2>4. Own(pc2[r], x, r)
    BY <1>3 DEF Own
  <2> QED
    BY <1>1, <1>3, <2>3, <2>4 DEF Member
<1>7. Own(pc2[IDLE], pg2[IDLE], IDLE) /\ pg2[IDLE].at = <<"Init", 1>>
  BY <1>2, <1>3
<1>8. \A p \in Members : pc2[p].state = "AVAIL" => en[p] = {}
  BY <1>3 DEF Families
<1>9. Families(pc2, pg2, sl, en)
  BY <1>2, <1>3, <1>5, <1>6, <1>7, <1>8 DEF Families
<1> QED
  BY <1>9 DEF pc2, pg2

-----------------------------------------------------------------------------
\* A pcb with another state.
LEMMA PutState ==
  ASSUME NEW x \in Pcb, NEW s \in States
  PROVE  /\ [x EXCEPT !.state = s] \in Pcb /\ [x EXCEPT !.state = s].state = s
         /\ [x EXCEPT !.state = s].ppid = x.ppid /\ [x EXCEPT !.state = s].tf_p = x.tf_p
BY DEF Pcb

LEMMA StatesOf ==
  ASSUME NEW pc \in [Pids -> Pcb], NEW p \in Members, NEW pc2 \in [Pids -> Pcb],
         \A q \in Members : q # p => pc2[q] = pc[q]
  PROVE  /\ In(pc2, pc2[p].state) = In(pc, pc2[p].state) \cup {p}
         /\ \A s \in States \ {pc2[p].state} : In(pc2, s) = In(pc, s) \ {p}
<1>1. ASSUME NEW s, NEW q \in Members
      PROVE  /\ q # p => (q \in In(pc2, s) <=> q \in In(pc, s))
             /\ p \in In(pc2, s) <=> s = pc2[p].state
  BY PidFacts DEF In
<1>2. \A s : In(pc2, s) \subseteq Members /\ In(pc, s) \subseteq Members
  BY DEF In
<1>3. In(pc2, pc2[p].state) = In(pc, pc2[p].state) \cup {p}
  BY <1>1, <1>2
<1>4. \A s \in States \ {pc2[p].state} : In(pc2, s) = In(pc, s) \ {p}
  BY <1>1, <1>2
<1> QED
  BY <1>3, <1>4

LEMMA EnQueMember ==
  ASSUME NEW q \in Seq(Pids), NEW S \in SUBSET Members, Holds(q, S), NEW p \in Members, p \notin S
  PROVE  EnQue(q, p) \in Seq(Pids) /\ Holds(EnQue(q, p), S \cup {p})
<1>1. p \in Pids /\ S \cup {p} \subseteq Members
  BY PidFacts
<1> QED
  BY <1>1, PidFacts, EnQueHolds

\* Only p changes from pc to pc2.
Turns(pc, pc2, p) ==
  /\ pc2 \in [Pids -> Pcb]
  /\ \A q \in Pids : q # p => pc2[q] = pc[q]

\* A process becomes ready; the running one does; it parks; a parked one moves.
LEMMA ReadyCpu ==
  ASSUME NEW rp, NEW pc, NEW rq, Cpu(rp, pc, rq),
         NEW p \in Members, pc[p].state \notin {"READY", "RUN"},
         NEW pc2, Turns(pc, pc2, p), pc2[p].state = "READY"
  PROVE  /\ Cpu(rp, pc2, EnQue(rq, p))
         /\ \A s \in States \ {"READY", "RUN"} : In(pc2, s) = In(pc, s) \ {p}
<1>0. /\ pc \in [Pids -> Pcb] /\ pc[IDLE].state \in {"READY", "RUN"} /\ pc[IDLE].ppid = IDLE
      /\ rq \in Seq(Pids) /\ Holds(rq, In(pc, "READY"))
  BY DEF Cpu
<1>1. /\ pc2 \in [Pids -> Pcb] /\ pc2[IDLE] = pc[IDLE]
      /\ In(pc2, "READY") = In(pc, "READY") \cup {p}
      /\ \A s \in States \ {"READY"} : In(pc2, s) = In(pc, s) \ {p}
  <2>1. /\ pc2 \in [Pids -> Pcb] /\ pc \in [Pids -> Pcb]
        /\ \A q \in Members : q # p => pc2[q] = pc[q]
    BY <1>0, PidFacts DEF Turns
  <2>2. pc2[IDLE] = pc[IDLE]
    BY PidFacts DEF Turns
  <2>3. /\ In(pc2, pc2[p].state) = In(pc, pc2[p].state) \cup {p}
        /\ \A s \in States \ {pc2[p].state} : In(pc2, s) = In(pc, s) \ {p}
    BY <2>1, StatesOf
  <2> QED
    BY <2>1, <2>2, <2>3
<1>2. p \notin In(pc, "READY") /\ p \notin In(pc, "RUN") /\ In(pc, "READY") \in SUBSET Members
  BY DEF In
<1>3. In(pc2, "RUN") = {rp} \cap Members
  BY <1>1, <1>2 DEF Cpu, States
<1>4. EnQue(rq, p) \in Seq(Pids) /\ Holds(EnQue(rq, p), In(pc2, "READY"))
  <2>1. EnQue(rq, p) \in Seq(Pids) /\ Holds(EnQue(rq, p), In(pc, "READY") \cup {p})
    BY <1>0, <1>2, EnQueMember
  <2> QED
    BY <1>1, <2>1
<1>5. Cpu(rp, pc2, EnQue(rq, p))
  BY <1>0, <1>1, <1>3, <1>4 DEF Cpu
<1> QED
  BY <1>1, <1>5

LEMMA RunningState ==
  ASSUME NEW r \in Members, NEW pc, NEW rq, Cpu(r, pc, rq)
  PROVE  /\ pc \in [Pids -> Pcb] /\ pc[r].state = "RUN" /\ In(pc, "RUN") = {r}
         /\ \A s \in States \ {"RUN"} : r \notin In(pc, s)
<1>1. In(pc, "RUN") = {r} /\ pc \in [Pids -> Pcb]
  BY DEF Cpu
<1>2. pc[r].state = "RUN"
  BY <1>1 DEF In
<1> QED
  BY <1>1, <1>2 DEF In

LEMMA DemoteCpu ==
  ASSUME NEW r \in Members, NEW pc, NEW rq, Cpu(r, pc, rq),
         NEW pc2, Turns(pc, pc2, r), pc2[r].state = "READY"
  PROVE  /\ Cpu(NONE, pc2, EnQue(rq, r))
         /\ \A s \in States \ {"READY", "RUN"} : In(pc2, s) = In(pc, s)
<1>0. /\ pc \in [Pids -> Pcb] /\ pc[IDLE].state \in {"READY", "RUN"} /\ pc[IDLE].ppid = IDLE
      /\ rq \in Seq(Pids) /\ Holds(rq, In(pc, "READY"))
  BY DEF Cpu
<1>1. /\ pc2 \in [Pids -> Pcb] /\ pc2[IDLE] = pc[IDLE]
      /\ In(pc2, "READY") = In(pc, "READY") \cup {r}
      /\ \A s \in States \ {"READY"} : In(pc2, s) = In(pc, s) \ {r}
  <2>1. /\ pc2 \in [Pids -> Pcb] /\ pc \in [Pids -> Pcb]
        /\ \A q \in Members : q # r => pc2[q] = pc[q]
    BY <1>0, PidFacts DEF Turns
  <2>2. pc2[IDLE] = pc[IDLE]
    BY PidFacts DEF Turns
  <2>3. /\ In(pc2, pc2[r].state) = In(pc, pc2[r].state) \cup {r}
        /\ \A s \in States \ {pc2[r].state} : In(pc2, s) = In(pc, s) \ {r}
    BY <2>1, StatesOf
  <2> QED
    BY <2>1, <2>2, <2>3
<1>2. /\ In(pc, "RUN") = {r} /\ In(pc, "READY") \in SUBSET Members
      /\ \A s \in States \ {"RUN"} : r \notin In(pc, s)
  <2>1. In(pc, "READY") \in SUBSET Members
    BY DEF In
  <2> QED
    BY <2>1, RunningState
<1>3. In(pc2, "RUN") = {NONE} \cap Members
  BY <1>1, <1>2, PidFacts DEF States
<1>4. EnQue(rq, r) \in Seq(Pids) /\ Holds(EnQue(rq, r), In(pc2, "READY"))
  <2>0. r \notin In(pc, "READY")
    BY <1>2 DEF States
  <2>1. EnQue(rq, r) \in Seq(Pids) /\ Holds(EnQue(rq, r), In(pc, "READY") \cup {r})
    BY <1>0, <1>2, <2>0, EnQueMember
  <2> QED
    BY <1>1, <2>1
<1>5. Cpu(NONE, pc2, EnQue(rq, r))
  BY <1>0, <1>1, <1>3, <1>4 DEF Cpu
<1>6. ASSUME NEW s \in States \ {"READY", "RUN"}
      PROVE  In(pc2, s) = In(pc, s)
  <2>1. In(pc2, s) = In(pc, s) \ {r} /\ r \notin In(pc, s)
    BY <1>1, <1>2, Zenon
  <2> QED
    BY <2>1
<1> QED
  BY <1>5, <1>6

LEMMA LeaveCpu ==
  ASSUME NEW r \in Members, NEW pc, NEW rq, Cpu(r, pc, rq),
         NEW pc2, Turns(pc, pc2, r), NEW t \in States \ {"READY", "RUN"}, pc2[r].state = t
  PROVE  /\ Cpu(NONE, pc2, rq)
         /\ r \notin In(pc, t) /\ In(pc2, t) = In(pc, t) \cup {r}
         /\ \A s \in States \ {"READY", "RUN", t} : In(pc2, s) = In(pc, s)
<1>0. /\ pc \in [Pids -> Pcb] /\ pc[IDLE].state \in {"READY", "RUN"} /\ pc[IDLE].ppid = IDLE
      /\ rq \in Seq(Pids) /\ Holds(rq, In(pc, "READY"))
  BY DEF Cpu
<1>1. /\ pc2 \in [Pids -> Pcb] /\ pc2[IDLE] = pc[IDLE]
      /\ In(pc2, t) = In(pc, t) \cup {r}
      /\ \A s \in States \ {t} : In(pc2, s) = In(pc, s) \ {r}
  <2>1. /\ pc2 \in [Pids -> Pcb] /\ pc \in [Pids -> Pcb]
        /\ \A q \in Members : q # r => pc2[q] = pc[q]
    BY <1>0, PidFacts DEF Turns
  <2>2. pc2[IDLE] = pc[IDLE]
    BY PidFacts DEF Turns
  <2>3. /\ In(pc2, pc2[r].state) = In(pc, pc2[r].state) \cup {r}
        /\ \A s \in States \ {pc2[r].state} : In(pc2, s) = In(pc, s) \ {r}
    BY <2>1, StatesOf
  <2> QED
    BY <2>1, <2>2, <2>3
<1>2. In(pc, "RUN") = {r} /\ \A s \in States \ {"RUN"} : r \notin In(pc, s)
  BY RunningState
<1>3. In(pc2, "RUN") = {NONE} \cap Members /\ In(pc2, "READY") = In(pc, "READY")
  <2>1. {NONE} \cap Members = {} /\ {"RUN", "READY"} \subseteq States \ {t}
    BY PidFacts DEF States
  <2>2. In(pc2, "RUN") = {}
    BY <1>1, <1>2, <2>1
  <2>3. r \notin In(pc, "READY")
    BY <1>2 DEF States
  <2> QED
    BY <1>1, <2>1, <2>2, <2>3
<1>4. Cpu(NONE, pc2, rq)
  BY <1>0, <1>1, <1>3 DEF Cpu
<1> QED
  BY <1>1, <1>2, <1>4

LEMMA MoveCpu ==
  ASSUME NEW rp, NEW pc, NEW rq, Cpu(rp, pc, rq),
         NEW p \in Members, NEW w, pc[p].state = w, w \notin {"READY", "RUN"},
         NEW pc2, Turns(pc, pc2, p), NEW t \in States \ {"READY", "RUN", w}, pc2[p].state = t
  PROVE  /\ Cpu(rp, pc2, rq)
         /\ p \notin In(pc, t) /\ In(pc2, t) = In(pc, t) \cup {p}
         /\ \A s \in States \ {t, w} : In(pc2, s) = In(pc, s)
<1>0. /\ pc \in [Pids -> Pcb] /\ pc[IDLE].state \in {"READY", "RUN"} /\ pc[IDLE].ppid = IDLE
      /\ rq \in Seq(Pids) /\ Holds(rq, In(pc, "READY"))
  BY DEF Cpu
<1>1. /\ pc2 \in [Pids -> Pcb] /\ pc2[IDLE] = pc[IDLE]
      /\ In(pc2, t) = In(pc, t) \cup {p}
      /\ \A s \in States \ {t} : In(pc2, s) = In(pc, s) \ {p}
  <2>1. /\ pc2 \in [Pids -> Pcb] /\ pc \in [Pids -> Pcb]
        /\ \A q \in Members : q # p => pc2[q] = pc[q]
    BY <1>0, PidFacts DEF Turns
  <2>2. pc2[IDLE] = pc[IDLE]
    BY PidFacts DEF Turns
  <2>3. /\ In(pc2, pc2[p].state) = In(pc, pc2[p].state) \cup {p}
        /\ \A s \in States \ {pc2[p].state} : In(pc2, s) = In(pc, s) \ {p}
    BY <2>1, StatesOf
  <2> QED
    BY <2>1, <2>2, <2>3
<1>2. \A s : s # w => p \notin In(pc, s)
  BY DEF In
<1>3. \A s \in States \ {t, w} : In(pc2, s) = In(pc, s)
  BY <1>1, <1>2
<1>4. In(pc2, "RUN") = In(pc, "RUN") /\ In(pc2, "READY") = In(pc, "READY")
  BY <1>3 DEF States
<1>5. Cpu(rp, pc2, rq)
  BY <1>0, <1>1, <1>4 DEF Cpu
<1> QED
  BY <1>1, <1>2, <1>3, <1>5

\* What the accounts of a family say of the states of its members.
Alike(pc, pc2) ==
  \A p \in Pids :
    /\ pc2[p].ppid = pc[p].ppid /\ pc2[p].tf_p = pc[p].tf_p
    /\ \A s \in {"AVAIL", "WAIT"} : pc2[p].state = s <=> pc[p].state = s
    /\ pc[p].ppid # IDLE => (pc2[p].state = "ZOMBIE" <=> pc[p].state = "ZOMBIE")

\* Scheduler() finds a process to run, Idle when no other is ready.
LEMMA SchedulerLemma ==
  ASSUME NEW rp \in Pids \cup {NONE}, NEW pc, NEW rq, NEW ticks \in 0..BURST, Cpu(rp, pc, rq),
         Scheduler(rp, pc, rq, ticks)
  PROVE  /\ run_pid' \in Pids /\ time_count' \in 0..BURST
         /\ Cpu(run_pid', pcb', ready_que') /\ Alike(pc, pcb')
         /\ \A s \in States \ {"READY", "RUN"} : In(pcb', s) = In(pc, s)
<1>0. /\ pc \in [Pids -> Pcb] /\ pc[IDLE].state \in {"READY", "RUN"} /\ pc[IDLE].ppid = IDLE
      /\ In(pc, "RUN") = {rp} \cap Members
      /\ rq \in Seq(Pids) /\ Holds(rq, In(pc, "READY"))
      /\ 0 \in 0..BURST
  BY FamilyAssumption DEF Cpu
<1>1. CASE rp > IDLE
  <2>1. run_pid' = rp /\ pcb' = pc /\ ready_que' = rq /\ time_count' = ticks
    BY <1>1 DEF Scheduler
  <2>2. rp \in Pids
    BY <1>1, PidFacts
  <2> QED
    BY <2>1, <2>2 DEF Alike
<1>2. CASE ~(rp > IDLE)
  <2>1. /\ run_pid' = IF QueEmpty(rq) THEN IDLE ELSE Head(rq)
        /\ pcb' = [pc EXCEPT ![IDLE].state = "READY", ![run_pid'].state = "RUN"]
        /\ ready_que' = AfterDeQue(rq) /\ time_count' = 0
    BY <1>2 DEF Scheduler
  <2>2. In(pc, "RUN") = {}
    BY <1>0, <1>2, PidFacts
  <2>3. CASE QueEmpty(rq)
    <3>1. run_pid' = IDLE /\ ready_que' = rq
      BY <2>1, <2>3 DEF AfterDeQue
    <3>2. /\ pcb' \in [Pids -> Pcb] /\ pcb'[IDLE].state = "RUN"
          /\ pcb'[IDLE].ppid = pc[IDLE].ppid /\ pcb'[IDLE].tf_p = pc[IDLE].tf_p
          /\ \A p \in Members : pcb'[p] = pc[p]
      BY <1>0, <2>1, <3>1, PidFacts DEF Pcb, States
    <3>3. \A s : In(pcb', s) = In(pc, s)
      BY <3>2 DEF In
    <3>4. Cpu(run_pid', pcb', ready_que')
      BY <1>0, <2>2, <3>1, <3>2, <3>3, PidFacts DEF Cpu
    <3>5. Alike(pc, pcb')
      BY <1>0, <3>2 DEF Alike, Members
    <3> QED
      BY <1>0, <2>1, <3>1, <3>3, <3>4, <3>5, PidFacts
  <2>4. CASE ~QueEmpty(rq)
    <3> DEFINE h == Head(rq)
    <3>1. /\ h \in In(pc, "READY")
          /\ Tail(rq) \in Seq(Pids) /\ Holds(Tail(rq), In(pc, "READY") \ {h})
      BY <1>0, <2>4, HoldsTail DEF QueEmpty
    <3>2. run_pid' = h /\ ready_que' = Tail(rq)
      BY <2>1, <2>4 DEF AfterDeQue
    <3>3. h \in Members /\ pc[h].state = "READY" /\ h # IDLE /\ h \in Pids
      BY <3>1, PidFacts DEF In
    <3> HIDE DEF h
    <3>4. /\ pcb' \in [Pids -> Pcb] /\ pcb'[IDLE].state = "READY" /\ pcb'[h].state = "RUN"
          /\ \A p \in Pids : pcb'[p].ppid = pc[p].ppid /\ pcb'[p].tf_p = pc[p].tf_p
          /\ \A p \in Members : p # h => pcb'[p] = pc[p]
      <4>1. pcb' = [pc EXCEPT ![IDLE].state = "READY", ![h].state = "RUN"]
        BY <2>1, <3>2
      <4>2. \A p \in Pids : pc[p] \in Pcb
        BY <1>0
      <4>. DEFINE idle == [pc[IDLE] EXCEPT !.state = "READY"]
                  next == [pc[h] EXCEPT !.state = "RUN"]
      <4>6. pcb' = [pc EXCEPT ![IDLE] = idle, ![h] = next]
        BY <1>0, <3>3, <4>1, PidFacts
      <4>7. /\ idle \in Pcb /\ idle.state = "READY"
            /\ idle.ppid = pc[IDLE].ppid /\ idle.tf_p = pc[IDLE].tf_p
            /\ next \in Pcb /\ next.state = "RUN"
            /\ next.ppid = pc[h].ppid /\ next.tf_p = pc[h].tf_p
        BY <3>3, <4>2, PutState, PidFacts DEF States
      <4> HIDE DEF idle, next
      <4>3. pcb' \in [Pids -> Pcb] /\ pcb'[IDLE].state = "READY" /\ pcb'[h].state = "RUN"
        BY <1>0, <3>3, <4>6, <4>7, PidFacts
      <4>4. \A p \in Pids : pcb'[p].ppid = pc[p].ppid /\ pcb'[p].tf_p = pc[p].tf_p
        BY <1>0, <3>3, <4>6, <4>7, PidFacts
      <4>5. \A p \in Members : p # h => pcb'[p] = pc[p]
        BY <1>0, <4>1, PidFacts
      <4> QED
        BY <4>3, <4>4, <4>5
    <3>5. /\ In(pcb', "RUN") = In(pc, "RUN") \cup {h}
          /\ \A s \in States \ {"RUN"} : In(pcb', s) = In(pc, s) \ {h}
      <4>1. /\ pcb' \in [Pids -> Pcb] /\ pc \in [Pids -> Pcb] /\ h \in Members
            /\ \A p \in Members : p # h => pcb'[p] = pc[p]
        BY <1>0, <3>3, <3>4
      <4>2. /\ In(pcb', pcb'[h].state) = In(pc, pcb'[h].state) \cup {h}
            /\ \A s \in States \ {pcb'[h].state} : In(pcb', s) = In(pc, s) \ {h}
        BY <4>1, StatesOf
      <4> QED
        BY <3>4, <4>2
    <3>6. \A s \in States \ {"READY"} : h \notin In(pc, s)
      BY <3>3 DEF In
    <3>7. Cpu(run_pid', pcb', ready_que')
      <4>1. In(pcb', "READY") = In(pc, "READY") \ {h}
        BY <3>5 DEF States
      <4>2. pcb'[IDLE].ppid = IDLE
        BY <1>0, <3>4, PidFacts
      <4> QED
        BY <2>2, <3>1, <3>2, <3>3, <3>4, <3>5, <4>1, <4>2 DEF Cpu
    <3>8. Alike(pc, pcb')
      <4>1. \A p \in Pids : p = IDLE \/ p = h \/ (p \in Members /\ p # h)
        BY DEF Members
      <4> QED
        BY <1>0, <3>3, <3>4, <4>1 DEF Alike
    <3>9. \A s \in States \ {"READY", "RUN"} : In(pcb', s) = In(pc, s)
      BY <3>5, <3>6
    <3> QED
      BY <1>0, <2>1, <3>2, <3>3, <3>7, <3>8, <3>9
  <2> QED
    BY <2>3, <2>4
<1> QED
  BY <1>1, <1>2

\* The common end of the kernel's entries.
LEMMA DispatchLemma ==
  ASSUME NEW rp \in Pids \cup {NONE}, NEW pc, NEW pg, NEW rq, NEW aq, NEW ticks \in 0..BURST,
         Cpu(rp, pc, rq), QueuesHold(pc, aq, video_mutex'), Families(pc, pg, slept', ended'),
         inits \in 1..INITS, Dispatch(rp, pc, pg, rq, aq, ticks)
  PROVE  FInv'
<1> DEFINE Next2(pc2, pg2, rq2, aq2) ==
             /\ Cpu(rp, pc2, rq2) /\ QueuesHold(pc2, aq2, video_mutex')
             /\ Families(pc2, pg2, slept', ended')
             /\ Scheduler(rp, pc2, rq2, ticks) /\ avail_que' = aq2 /\ page' = pg2
             /\ inits' \in 1..INITS
<1>1. ASSUME NEW pc2, NEW pg2, NEW rq2, NEW aq2, Next2(pc2, pg2, rq2, aq2)
      PROVE  FInv'
  <2>1. /\ run_pid' \in Pids /\ time_count' \in 0..BURST
        /\ Cpu(run_pid', pcb', ready_que') /\ Alike(pc2, pcb')
        /\ \A s \in States \ {"READY", "RUN"} : In(pcb', s) = In(pc2, s)
    BY <1>1, SchedulerLemma
  <2>2. QueuesHold(pcb', avail_que', video_mutex')
    <3>1. In(pcb', "AVAIL") = In(pc2, "AVAIL") /\ In(pcb', "SUSPEND") = In(pc2, "SUSPEND")
      BY <2>1 DEF States
    <3> QED
      BY <1>1, <3>1 DEF QueuesHold
  <2>3. Families(pcb', page', slept', ended')
    BY <1>1, <2>1, StatesKept DEF Alike
  <2> QED
    BY <1>1, <2>1, <2>2, <2>3 DEF FInv
<1>2. CASE Scheduler(rp, pc, rq, ticks) /\ avail_que' = aq /\ page' = pg /\ inits' = inits
  BY <1>1, <1>2
<1>3. CASE /\ inits < INITS /\ inits' = inits + 1 /\ ~QueEmpty(aq) /\ avail_que' = Tail(aq)
           /\ LET pid == Head(aq)
              IN /\ Scheduler(rp, [pc EXCEPT ![pid] = Cleared(pid)], EnQue(rq, pid), ticks)
                 /\ page' = [pg EXCEPT ![pid] = Loaded(pid)]
  <2> DEFINE f == Head(aq)
             pc2 == [pc EXCEPT ![f] = Cleared(f)]
  <2>1. /\ f \in Members /\ pc[f].state = "AVAIL"
        /\ Tail(aq) \in Seq(Pids) /\ Holds(Tail(aq), In(pc, "AVAIL") \ {f})
    <3>1. aq \in Seq(Pids) /\ Holds(aq, In(pc, "AVAIL")) /\ aq # << >>
      BY <1>3 DEF QueuesHold, QueEmpty
    <3>2. /\ f \in In(pc, "AVAIL")
          /\ Tail(aq) \in Seq(Pids) /\ Holds(Tail(aq), In(pc, "AVAIL") \ {f})
      BY <3>1, HoldsTail
    <3> QED
      BY <3>2 DEF In
  <2> HIDE DEF f
  <2>2. Cleared(f) \in Pcb /\ Cleared(f).state = "READY"
    BY <2>1, PidFacts DEF Cleared, Pcb, States
  <2>3. /\ Cpu(rp, pc2, EnQue(rq, f))
        /\ \A s \in States \ {"READY", "RUN"} : In(pc2, s) = In(pc, s) \ {f}
    <3>1. Turns(pc, pc2, f) /\ pc2[f].state = "READY"
      BY <2>1, <2>2, PidFacts DEF Turns, Cpu
    <3> HIDE DEF pc2
    <3> QED
      BY <2>1, <3>1, ReadyCpu
  <2>4. Families(pc2, [pg EXCEPT ![f] = Loaded(f)], slept', ended')
    BY <2>1, SpawnKept DEF Cpu
  <2>5. QueuesHold(pc2, Tail(aq), video_mutex')
    <3>1. f \notin In(pc, "SUSPEND")
      BY <2>1 DEF In
    <3>2. In(pc2, "AVAIL") = In(pc, "AVAIL") \ {f} /\ In(pc2, "SUSPEND") = In(pc, "SUSPEND")
      BY <2>3, <3>1 DEF States
    <3> QED
      BY <2>1, <3>2 DEF QueuesHold
  <2>6. inits' \in 1..INITS
    BY <1>3, PidFacts
  <2>7. Scheduler(rp, pc2, EnQue(rq, f), ticks) /\ page' = [pg EXCEPT ![f] = Loaded(f)]
    BY <1>3 DEF f
  <2> HIDE DEF pc2
  <2> QED
    BY <1>1, <1>3, <2>3, <2>4, <2>5, <2>6, <2>7
<1> QED
  BY <1>2, <1>3 DEF Dispatch

LEMMA FamilyInitHolds == FamilyInit => FInv
<1> SUFFICES ASSUME FamilyInit PROVE FInv
  OBVIOUS
<1>1. 1 \in Members /\ 1 \in Pids /\ 0 \in Pids
  BY PidFacts DEF Members, Pids, IDLE
<1>2. pcb \in [Pids -> Pcb] /\ page \in [Pids -> Page]
  <2>1. \A p \in Pids : Cleared(p) \in Pcb /\ Loaded(p) \in Page
    BY PidFacts DEF Cleared, Loaded, Pcb, Page, States, Places, Codes, Pids, IDLE
  <2>2. \A p \in Pids : [Cleared(p) EXCEPT !.state = "AVAIL"] \in Pcb
    BY <2>1 DEF Pcb, States
  <2> QED
    BY <2>1, <2>2 DEF FamilyInit
<1>3. /\ pcb[IDLE].state = "READY" /\ pcb[1].state = "READY"
      /\ \A p \in Members : p # 1 => pcb[p].state = "AVAIL"
      /\ \A p \in Pids : pcb[p].ppid = IDLE /\ pcb[p].tf_p = p /\ page[p] = Loaded(p)
  BY <1>1 DEF FamilyInit, Cleared, Members, Pids, IDLE
<1>4. /\ In(pcb, "READY") = {1} /\ In(pcb, "AVAIL") = Members \ {1}
      /\ In(pcb, "RUN") = {} /\ In(pcb, "SUSPEND") = {}
  BY <1>1, <1>3 DEF In
<1>5. Cpu(run_pid, pcb, ready_que)
  <2>1. <<1>> \in Seq(Pids) /\ Holds(<<1>>, {1})
    BY <1>1, HoldsOne
  <2> QED
    <3>1. run_pid = IDLE /\ ready_que = <<1>> /\ {IDLE} \cap Members = {}
      BY PidFacts DEF FamilyInit
    <3> QED
      BY <1>2, <1>3, <1>4, <2>1, <3>1, PidFacts DEF Cpu
<1>6. QueuesHold(pcb, avail_que, video_mutex)
  <2>1. << >> \in Seq(Pids) /\ Holds(<< >>, {})
    BY HoldsEmpty, EmptySeq
  <2>2. avail_que \in Seq(Pids) /\ Holds(avail_que, Members \ {1})
    <3> DEFINE q == [n \in 1..(QUE_MAX - 2) |-> n + 1]
    <3>1. q \in Seq(Pids) /\ Len(q) = QUE_MAX - 2
      BY PidFacts DEF Pids
    <3>2. /\ \A i, j \in 1..Len(q) : q[i] = q[j] => i = j
          /\ Members \ {1} = {q[i] : i \in 1..Len(q)}
      <4>1. \A i, j \in 1..Len(q) : q[i] = q[j] => i = j
        BY <3>1, PidFacts
      <4>2. \A i \in 1..Len(q) : q[i] \in Members \ {1}
        BY <3>1, PidFacts DEF Members, Pids, IDLE
      <4>3. \A p \in Members \ {1} : p - 1 \in 1..Len(q) /\ q[p - 1] = p
        BY <3>1, PidFacts DEF Members, Pids, IDLE
      <4> HIDE DEF q
      <4> QED
        BY <4>1, <4>2, <4>3
    <3>3. avail_que = q
      BY DEF FamilyInit
    <3> HIDE DEF q
    <3> QED
      BY <3>1, <3>2, <3>3, HoldsCells
  <2> QED
    BY <1>4, <2>1, <2>2 DEF QueuesHold, FamilyInit
<1>7. Families(pcb, page, slept, ended)
  <2>1. slept \in [Pids -> Nat] /\ ended \in [Pids -> SUBSET (Pids \X Int)]
        /\ \A p \in Pids : ended[p] = {}
    BY DEF FamilyInit
  <2>2. \A p \in Pids : Own(pcb[p], page[p], p) /\ page[p].at = <<"Init", 1>>
                        /\ page[p].i = 0 /\ page[p].total = 0
    <3>1. ASSUME NEW p \in Pids
          PROVE  Own(pcb[p], Loaded(p), p) /\ Loaded(p).at = <<"Init", 1>>
                 /\ Loaded(p).i = 0 /\ Loaded(p).total = 0
      BY <1>3 DEF Own, Loaded
    <3> QED
      BY <1>3, <3>1
  <2>3. \A p \in Members : Children(pcb, p) = {} /\ Exits(pcb, slept, p) = {}
    <3>1. \A p \in Members : Children(pcb, p) = {}
      <4>1. \A p \in Members, c \in Members : pcb[c].ppid # p
        BY <1>3, PidFacts
      <4> QED
        BY <4>1 DEF Children
    <3> QED
      BY <3>1 DEF Dead, Exits
  <2>4. Member(pcb, page, slept, ended, 1)
    <3>1. Forks(1, page[1], {}, {}, {})
      BY <1>1, <2>2, FS_EmptySet, PidFacts DEF Forks
    <3>2. IsInit(1, pcb[1].state = "WAIT", page[1], Children(pcb, 1), ended[1],
                 Exits(pcb, slept, 1))
      BY <1>1, <2>1, <2>2, <2>3, <3>1 DEF IsInit
    <3> QED
      BY <1>1, <1>3, <2>2, <3>2 DEF Member
  <2> QED
    BY <1>1, <1>2, <1>3, <2>1, <2>2, <2>4, PidFacts DEF Families
<1> QED
  BY <1>1, <1>5, <1>6, <1>7, PidFacts, FamilyAssumption DEF FInv, FamilyInit, IDLE

-----------------------------------------------------------------------------
\* Where the programs make each call.
LEMMA Sites ==
  ASSUME NEW a \in Places
  PROVE  /\ a = <<a[1], a[2]>> /\ a[2] \in Nat
         /\ \/ a[1] = "Init" /\ a[2] \in 1..12
            \/ a[1] = "Child" /\ a[2] \in 1..8
            \/ a[1] = "Failed" /\ a[2] \in 1..2
         /\ a[2] \in DOMAIN Text[a[1]]
         /\ Text[a[1]][a[2]] = "fork" => a = <<"Init", 1>>
         /\ Text[a[1]][a[2]] = "get_pid" => a = <<"Init", 2>> \/ a = <<"Child", 1>>
         /\ Text[a[1]][a[2]] = "wait" => a = <<"Init", 3>>
         /\ Text[a[1]][a[2]] = "lock" => a = <<"Init", 4>> \/ a = <<"Child", 2>>
         /\ Text[a[1]][a[2]] = "set_cursor" => a = <<"Init", 5>> \/ a = <<"Child", 3>>
         /\ Text[a[1]][a[2]] = "write" =>
              \/ a[1] = "Init" /\ a[2] \in {6, 7, 8, 9, 11}
              \/ a = <<"Child", 4>> \/ a = <<"Failed", 1>>
         /\ Text[a[1]][a[2]] = "unlock" => a = <<"Init", 10>> \/ a = <<"Child", 5>>
         /\ Text[a[1]][a[2]] = "get_rand" => a = <<"Child", 6>>
         /\ Text[a[1]][a[2]] = "sleep" => a = <<"Child", 7>>
         /\ Text[a[1]][a[2]] = "exit" =>
              a = <<"Init", 12>> \/ a = <<"Child", 8>> \/ a = <<"Failed", 2>>
<1>1. /\ a = <<a[1], a[2]>>
      /\ \/ a[1] = "Init" /\ a[2] \in 1..12
         \/ a[1] = "Child" /\ a[2] \in 1..8
         \/ a[1] = "Failed" /\ a[2] \in 1..2
  BY DEF Places
<1>2. CASE a[1] = "Init" /\ a[2] \in 1..12
  <2>1. Text[a[1]] = <<"fork", "get_pid", "wait", "lock", "set_cursor", "write", "write",
                       "write", "write", "unlock", "write", "exit">>
    BY <1>2 DEF Text
  <2>2. \/ a[2] = 1 \/ a[2] = 2 \/ a[2] = 3 \/ a[2] = 4 \/ a[2] = 5 \/ a[2] = 6
        \/ a[2] = 7 \/ a[2] = 8 \/ a[2] = 9 \/ a[2] = 10 \/ a[2] = 11 \/ a[2] = 12
    BY <1>2
  <2> QED
    BY <1>1, <1>2, <2>1, <2>2
<1>3. CASE a[1] = "Child" /\ a[2] \in 1..8
  <2>1. Text[a[1]] = <<"get_pid", "lock", "set_cursor", "write", "unlock", "get_rand", "sleep",
                       "exit">>
    BY <1>3 DEF Text
  <2>2. \/ a[2] = 1 \/ a[2] = 2 \/ a[2] = 3 \/ a[2] = 4 \/ a[2] = 5 \/ a[2] = 6
        \/ a[2] = 7 \/ a[2] = 8
    BY <1>3
  <2> QED
    BY <1>1, <1>3, <2>1, <2>2
<1>4. CASE a[1] = "Failed" /\ a[2] \in 1..2
  <2>1. Text[a[1]] = <<"write", "exit">>
    BY <1>4 DEF Text
  <2>2. a[2] = 1 \/ a[2] = 2
    BY <1>4
  <2> QED
    BY <1>1, <1>4, <2>1, <2>2
<1> QED
  BY <1>1, <1>2, <1>3, <1>4

\* The running process, its page and the account it keeps.
LEMMA CallerFacts ==
  ASSUME FInv, run_pid # IDLE
  PROVE  /\ run_pid \in Members /\ run_pid \in Pids
         /\ pcb \in [Pids -> Pcb] /\ pcb[run_pid].state = "RUN" /\ pcb[run_pid] \in Pcb
         /\ page \in [Pids -> Page] /\ page[run_pid] \in Page
         /\ slept \in [Pids -> Nat] /\ ended \in [Pids -> SUBSET (Pids \X Int)]
         /\ slept[run_pid] \in Nat /\ ended[run_pid] \in SUBSET (Pids \X Int)
         /\ Member(pcb, page, slept, ended, run_pid)
         /\ Place \in Places /\ Frame(run_pid) = run_pid /\ Variable = page[run_pid]
         /\ Place = page[run_pid].at
<1>1. run_pid \in Members /\ run_pid \in Pids
  BY DEF FInv, Members
<1>2. pcb \in [Pids -> Pcb] /\ pcb[run_pid].state = "RUN"
  BY <1>1, RunningState DEF FInv
<1>3. /\ page \in [Pids -> Page]
      /\ slept \in [Pids -> Nat] /\ ended \in [Pids -> SUBSET (Pids \X Int)]
  BY DEF FInv, Families
<1>4. Member(pcb, page, slept, ended, run_pid)
  BY <1>1, <1>2 DEF FInv, Families
<1>5. Place \in Places /\ Frame(run_pid) = run_pid
  BY <1>1, <1>3, <1>4 DEF Place, Frame, Page, Member, Own
<1> QED
  BY <1>1, <1>2, <1>3, <1>4, <1>5 DEF Variable, Place

\* The end of a call that leaves its caller ready, and of one that does not.
LEMMA LeaveStep ==
  ASSUME FInv, NEW pc, NEW pg, NEW rq, NEW aq,
         Cpu(NONE, pc, rq), QueuesHold(pc, aq, video_mutex'), Families(pc, pg, slept', ended'),
         Leave(pc, pg, rq, aq)
  PROVE  FInv'
<1>1. 0 \in 0..BURST /\ inits \in 1..INITS
  BY FamilyAssumption DEF FInv
<1>2. Dispatch(NONE, pc, pg, rq, aq, 0)
  BY DEF Leave
<1> QED
  BY <1>1, <1>2, DispatchLemma

LEMMA DemoteStep ==
  ASSUME FInv, run_pid # IDLE, NEW pc, NEW pg, NEW rq, NEW aq,
         Cpu(run_pid, pc, rq), QueuesHold(pc, aq, video_mutex'), Families(pc, pg, slept', ended'),
         Demote(pc, pg, rq, aq)
  PROVE  FInv'
<1> DEFINE pc2 == [pc EXCEPT ![run_pid].state = "READY"]
<1>0. 0 \in 0..BURST /\ inits \in 1..INITS
  BY FamilyAssumption DEF FInv
<1>1. run_pid \in Members /\ pc \in [Pids -> Pcb] /\ pc[run_pid].state = "RUN"
  BY CallerFacts, RunningState
<1>2. /\ Turns(pc, pc2, run_pid) /\ pc2[run_pid].state = "READY"
      /\ pc2[run_pid].ppid = pc[run_pid].ppid /\ pc2[run_pid].tf_p = pc[run_pid].tf_p
  <2> DEFINE x == [pc[run_pid] EXCEPT !.state = "READY"]
  <2>1. /\ x \in Pcb /\ x.state = "READY"
        /\ x.ppid = pc[run_pid].ppid /\ x.tf_p = pc[run_pid].tf_p
    BY <1>1, PutState, PidFacts DEF States
  <2>2. pc2 = [pc EXCEPT ![run_pid] = x]
    BY <1>1
  <2> HIDE DEF x, pc2
  <2> QED
    BY <1>1, <2>1, <2>2, PidFacts DEF Turns
<1>3. Dispatch(NONE, pc2, pg, EnQue(rq, run_pid), aq, 0)
  BY DEF Demote
<1> HIDE DEF pc2
<1>4. /\ Cpu(NONE, pc2, EnQue(rq, run_pid))
      /\ \A s \in States \ {"READY", "RUN"} : In(pc2, s) = In(pc, s)
  BY <1>1, <1>2, DemoteCpu
<1>5. QueuesHold(pc2, aq, video_mutex')
  <2>1. In(pc2, "AVAIL") = In(pc, "AVAIL") /\ In(pc2, "SUSPEND") = In(pc, "SUSPEND")
    BY <1>4 DEF States
  <2> QED
    BY <2>1 DEF QueuesHold
<1>6. Families(pc2, pg, slept', ended')
  <2>1. \A p \in Pids :
          /\ pc2[p].ppid = pc[p].ppid /\ pc2[p].tf_p = pc[p].tf_p
          /\ \A s \in {"AVAIL", "WAIT"} : pc2[p].state = s <=> pc[p].state = s
          /\ pc[p].ppid # IDLE => (pc2[p].state = "ZOMBIE" <=> pc[p].state = "ZOMBIE")
    BY <1>1, <1>2 DEF Turns
  <2> QED
    BY <2>1, StatesKept
<1> QED
  BY <1>0, <1>3, <1>4, <1>5, <1>6, DispatchLemma

\* The page of the running process behind its call.
Going(v) ==
  [page[run_pid] EXCEPT !.i = v.i, !.period = v.period, !.total = v.total, !.at = Onward]

LEMMA GoingIs ==
  ASSUME FInv, run_pid # IDLE, NEW v, v.i \in 0..(CHILDREN + COLS), v.period \in 0..4,
         v.total \in Codes, Onward \in Places
  PROVE  /\ Stored(v) = [page EXCEPT ![run_pid] = Going(v)]
         /\ Going(v) \in Page /\ Own(pcb[run_pid], Going(v), run_pid)
         /\ Going(v).i = v.i /\ Going(v).period = v.period /\ Going(v).total = v.total
         /\ Going(v).at = Onward
         /\ Going(v).exit_pid = page[run_pid].exit_pid
         /\ Going(v).exit_code = page[run_pid].exit_code
<1>1. /\ page \in [Pids -> Page] /\ page[run_pid] \in Page /\ run_pid \in Pids
      /\ Frame(run_pid) = run_pid /\ Own(pcb[run_pid], page[run_pid], run_pid)
  BY CallerFacts DEF Member
<1>2. /\ Going(v) \in Page
      /\ Going(v).i = v.i /\ Going(v).period = v.period /\ Going(v).total = v.total
      /\ Going(v).at = Onward
      /\ Going(v).exit_pid = page[run_pid].exit_pid
      /\ Going(v).exit_code = page[run_pid].exit_code
  BY <1>1 DEF Going, Page
<1>3. Own(pcb[run_pid], Going(v), run_pid)
  BY <1>1 DEF Going, Page, Own
<1>4. Stored(v) = [page EXCEPT ![run_pid] = Going(v)]
  BY <1>1 DEF Stored, Going
<1> QED
  BY <1>2, <1>3, <1>4

LEMMA OnwardIs ==
  ASSUME FInv, run_pid # IDLE, NEW k, NEW n, Place = <<k, n>>
  PROVE  /\ Place = <<"Init", 10>> =>
              Onward = IF Variable.i + 1 = CHILDREN THEN <<"Init", 11>> ELSE <<"Init", 3>>
         /\ Place = <<"Child", 7>> =>
              Onward = IF Variable.i + 1 = COLS THEN <<"Child", 8>> ELSE <<"Child", 2>>
         /\ Place \notin {<<"Init", 10>>, <<"Child", 7>>} => Onward = <<k, n + 1>>
BY DEF Onward, LoopEnds

LEMMA RunnerGoes ==
  ASSUME FInv, run_pid # IDLE,
         NEW v, v.i \in 0..(CHILDREN + COLS), v.period \in 0..4, v.total \in Codes,
         Onward \in Places, Onward[1] = Place[1],
         NEW s \in Nat, NEW e \in SUBSET (Pids \X Int),
         Place[1] = "Child" => IsChild(Onward[2], Going(v), s, e),
         Place[1] = "Init" =>
           IsInit(Onward[2], FALSE, Going(v), Children(pcb, run_pid), e,
                  Exits(pcb, slept, run_pid))
  PROVE  Families(pcb, Stored(v), [slept EXCEPT ![run_pid] = s], [ended EXCEPT ![run_pid] = e])
<1>1. Families(pcb, page, slept, ended)
  BY DEF FInv
<1>2. /\ Stored(v) = [page EXCEPT ![run_pid] = Going(v)]
      /\ Going(v) \in Page /\ Own(pcb[run_pid], Going(v), run_pid) /\ Going(v).at = Onward
  BY GoingIs
<1>3. /\ run_pid \in Members /\ pcb \in [Pids -> Pcb] /\ pcb[run_pid].state = "RUN"
      /\ Place = page[run_pid].at
  BY CallerFacts
<1>4. Families(pcb, [page EXCEPT ![run_pid] = Going(v)],
               [slept EXCEPT ![run_pid] = s], [ended EXCEPT ![run_pid] = e])
  <2> DEFINE x == Going(v)
  <2>1. /\ x \in Page /\ Own(pcb[run_pid], x, run_pid)
        /\ (page[run_pid].at[1] = "Child") <=> (x.at[1] = "Child")
        /\ x.at[1] = "Child" => IsChild(x.at[2], x, s, e)
        /\ x.at[1] = "Init" => IsInit(x.at[2], FALSE, x, Children(pcb, run_pid), e,
                                      Exits(pcb, slept, run_pid))
    BY <1>2, <1>3
  <2> HIDE DEF x
  <2>2. Families(pcb, [page EXCEPT ![run_pid] = x],
                 [slept EXCEPT ![run_pid] = s], [ended EXCEPT ![run_pid] = e])
    BY <1>1, <1>3, <2>1, RunnerKept
  <2> QED
    BY <2>2 DEF x
<1> QED
  BY <1>2, <1>4

LEMMA Accounts ==
  ASSUME FInv, run_pid # IDLE
  PROVE  /\ Place[1] = "Child" =>
              IsChild(Place[2], page[run_pid], slept[run_pid], ended[run_pid])
         /\ Place[1] = "Init" =>
              IsInit(Place[2], FALSE, page[run_pid], Children(pcb, run_pid), ended[run_pid],
                     Exits(pcb, slept, run_pid))
<1>1. /\ Member(pcb, page, slept, ended, run_pid) /\ Place = page[run_pid].at
      /\ pcb[run_pid].state = "RUN"
  BY CallerFacts
<1>2. Place[1] = "Child" => IsChild(Place[2], page[run_pid], slept[run_pid], ended[run_pid])
  BY <1>1 DEF Member
<1>3. Place[1] = "Init" =>
        IsInit(Place[2], FALSE, page[run_pid], Children(pcb, run_pid), ended[run_pid],
               Exits(pcb, slept, run_pid))
  BY <1>1 DEF Member, IsInit, Waits, Reports
<1> QED
  BY <1>2, <1>3

\* A call in the middle of a text, with the same variables behind it.
LEMMA AdvanceKept ==
  ASSUME FInv, run_pid # IDLE, NEW k, NEW n, Place = <<k, n>>,
         \/ k = "Init" /\ n \in {4, 5, 6, 7, 8, 9, 11}
         \/ k = "Child" /\ n \in {2, 3, 4, 5, 6}
         \/ k = "Failed" /\ n = 1,
         NEW v, v.i = Variable.i, v.total = Variable.total, v.period \in 0..4,
         n = 6 /\ k = "Child" => v.period \in Periods
  PROVE  Families(pcb, Stored(v), slept, ended)
<1>1. /\ page[run_pid] \in Page /\ Variable = page[run_pid]
      /\ slept[run_pid] \in Nat /\ ended[run_pid] \in SUBSET (Pids \X Int)
      /\ slept \in [Pids -> Nat] /\ ended \in [Pids -> SUBSET (Pids \X Int)]
      /\ run_pid \in Pids
  BY CallerFacts
<1>2. v.i \in 0..(CHILDREN + COLS) /\ v.total \in Codes /\ v.i \in Nat
  BY <1>1, PidFacts DEF Page
<1>3. n \in Nat /\ Onward = <<k, n + 1>>
  <2>1. Place \notin {<<"Init", 10>>, <<"Child", 7>>} /\ n \in Nat
    OBVIOUS
  <2> QED
    BY <2>1, OnwardIs
<1>4. Onward \in Places /\ Onward[1] = Place[1] /\ Onward[2] = n + 1 /\ Place[1] = k /\ Place[2] = n
  BY <1>3 DEF Places
<1>5. /\ Going(v).i = v.i /\ Going(v).period = v.period /\ Going(v).total = v.total
      /\ Going(v).exit_pid = page[run_pid].exit_pid
      /\ Going(v).exit_code = page[run_pid].exit_code
  BY <1>2, <1>4, GoingIs
<1>6. ASSUME Place[1] = "Child"
      PROVE  IsChild(Onward[2], Going(v), slept[run_pid], ended[run_pid])
  <2>1. IsChild(n, page[run_pid], slept[run_pid], ended[run_pid]) /\ n \in 2..6
    BY <1>4, <1>6, Accounts
  <2> QED
    BY <1>1, <1>4, <1>5, <1>6, <2>1 DEF IsChild
<1>7. ASSUME Place[1] = "Init"
      PROVE  IsInit(Onward[2], FALSE, Going(v), Children(pcb, run_pid), ended[run_pid],
                    Exits(pcb, slept, run_pid))
  <2>1. IsInit(n, FALSE, page[run_pid], Children(pcb, run_pid), ended[run_pid],
               Exits(pcb, slept, run_pid))
    BY <1>4, <1>7, Accounts
  <2>2. CASE n \in 4..9
    <3>1. Reports(n, FALSE, page[run_pid], Children(pcb, run_pid), ended[run_pid],
                  Exits(pcb, slept, run_pid))
      <4>1. n # 1 /\ n # 2 /\ n # 3 /\ n \notin 11..12
        BY <2>2
      <4>2. /\ ~Forks(n, page[run_pid], Children(pcb, run_pid), ended[run_pid],
                     Exits(pcb, slept, run_pid))
            /\ ~Forked(n, page[run_pid], Children(pcb, run_pid), ended[run_pid],
                      Exits(pcb, slept, run_pid))
            /\ ~Waits(n, FALSE, page[run_pid], Children(pcb, run_pid), ended[run_pid],
                     Exits(pcb, slept, run_pid))
            /\ ~Done(n, Children(pcb, run_pid), ended[run_pid])
        BY <4>1 DEF Forks, Forked, Waits, Done
      <4> QED
        BY <2>1, <4>2 DEF IsInit
    <3>2. Reports(n + 1, FALSE, Going(v), Children(pcb, run_pid), ended[run_pid],
                  Exits(pcb, slept, run_pid))
      BY <1>1, <1>5, <2>2, <3>1 DEF Reports
    <3> QED
      BY <1>1, <1>4, <1>5, <2>1, <3>2 DEF IsInit
  <2>3. CASE n = 11
    <3>1. Done(n, Children(pcb, run_pid), ended[run_pid])
      BY <2>1, <2>3 DEF IsInit, Forks, Forked, Waits, Reports
    <3>2. Done(n + 1, Children(pcb, run_pid), ended[run_pid])
      BY <2>3, <3>1 DEF Done
    <3> QED
      BY <1>1, <1>4, <1>5, <2>1, <3>2 DEF IsInit
  <2>4. n \in 4..9 \/ n = 11
    BY <1>4, <1>7
  <2> QED
    BY <2>2, <2>3, <2>4
<1>8. Families(pcb, Stored(v), [slept EXCEPT ![run_pid] = slept[run_pid]],
               [ended EXCEPT ![run_pid] = ended[run_pid]])
  BY <1>1, <1>2, <1>4, <1>6, <1>7, RunnerGoes
<1>9. /\ [slept EXCEPT ![run_pid] = slept[run_pid]] = slept
      /\ [ended EXCEPT ![run_pid] = ended[run_pid]] = ended
  BY <1>1
<1> QED
  BY <1>8, <1>9

\* A call that changes no table but the page of its caller.
LEMMA QuietStep ==
  ASSUME FInv, run_pid # IDLE, UNCHANGED <<video_mutex, history>>,
         NEW pg, Families(pcb, pg, slept, ended), Demote(pcb, pg, ready_que, avail_que)
  PROVE  FInv'
<1>1. /\ Cpu(run_pid, pcb, ready_que) /\ QueuesHold(pcb, avail_que, video_mutex')
      /\ Families(pcb, pg, slept', ended')
  BY DEF FInv, history
<1> QED
  BY <1>1, DemoteStep

LEMMA SysWriteTextStep ==
  ASSUME FInv, SysWriteText
  PROVE  FInv'
<1>1. /\ run_pid # IDLE /\ Text[Place[1]][Place[2]] = "write"
      /\ Demote(pcb, Stored(Variable), ready_que, avail_que)
      /\ UNCHANGED <<video_mutex, history>>
  BY DEF SysWriteText, Calls
<1>2. Place \in Places /\ Variable \in Page
  BY <1>1, CallerFacts
<1>3. Families(pcb, Stored(Variable), slept, ended)
  <2>1. /\ \/ Place[1] = "Init" /\ Place[2] \in {6, 7, 8, 9, 11}
           \/ Place[1] = "Child" /\ Place[2] = 4
           \/ Place[1] = "Failed" /\ Place[2] = 1
        /\ Place = <<Place[1], Place[2]>>
    <3>1. /\ \/ Place[1] = "Init" /\ Place[2] \in {6, 7, 8, 9, 11}
             \/ Place = <<"Child", 4>> \/ Place = <<"Failed", 1>>
          /\ Place = <<Place[1], Place[2]>>
      BY <1>1, <1>2, Sites
    <3> QED
      BY <3>1
  <2>2. Variable.period \in 0..4
    BY <1>2 DEF Page
  <2> QED
    BY <1>1, <2>1, <2>2, AdvanceKept
<1> QED
  BY <1>1, <1>3, QuietStep

LEMMA SysSetCursorStep ==
  ASSUME FInv, SysSetCursor
  PROVE  FInv'
<1>1. /\ run_pid # IDLE /\ Text[Place[1]][Place[2]] = "set_cursor"
      /\ Demote(pcb, Stored(Variable), ready_que, avail_que)
      /\ UNCHANGED <<video_mutex, history>>
  BY DEF SysSetCursor, Calls
<1>2. Place \in Places /\ Variable \in Page
  BY <1>1, CallerFacts
<1>3. Families(pcb, Stored(Variable), slept, ended)
  <2>1. /\ \/ Place[1] = "Init" /\ Place[2] = 5
           \/ Place[1] = "Child" /\ Place[2] = 3
        /\ Place = <<Place[1], Place[2]>>
    <3>1. Place = <<"Init", 5>> \/ Place = <<"Child", 3>>
      BY <1>1, <1>2, Sites
    <3> QED
      BY <3>1
  <2>2. Variable.period \in 0..4
    BY <1>2 DEF Page
  <2> QED
    BY <1>1, <2>1, <2>2, AdvanceKept
<1> QED
  BY <1>1, <1>3, QuietStep

LEMMA SysGetRandStep ==
  ASSUME FInv, SysGetRand
  PROVE  FInv'
<1>1. PICK m \in Periods :
        Demote(pcb, Stored([Variable EXCEPT !.period = m]), ready_que, avail_que)
  BY DEF SysGetRand
<1> DEFINE v == [Variable EXCEPT !.period = m]
<1>2. /\ run_pid # IDLE /\ Text[Place[1]][Place[2]] = "get_rand"
      /\ UNCHANGED <<video_mutex, history>>
  BY DEF SysGetRand, Calls
<1>3. Place \in Places /\ Variable \in Page
  BY <1>2, CallerFacts
<1>4. v.i = Variable.i /\ v.total = Variable.total /\ v.period = m /\ m \in 0..4
  BY <1>3, PidFacts DEF Page
<1>5. Place = <<"Child", 6>>
  BY <1>2, <1>3, Sites
<1> HIDE DEF v
<1>6. Families(pcb, Stored(v), slept, ended)
  BY <1>2, <1>4, <1>5, AdvanceKept
<1>7. Demote(pcb, Stored(v), ready_que, avail_que)
  BY <1>1 DEF v
<1> QED
  BY <1>2, <1>6, <1>7, QuietStep

\* get_pid starts a loop: of the collection, with every child forked, or of a
\* child, that has not slept yet.
LEMMA SysGetPidStep ==
  ASSUME FInv, SysGetPid
  PROVE  FInv'
<1> DEFINE v == [Variable EXCEPT !.i = 0, !.total = 0]
<1>1. /\ run_pid # IDLE /\ Text[Place[1]][Place[2]] = "get_pid"
      /\ Demote(pcb, Stored(v), ready_que, avail_que)
      /\ UNCHANGED <<video_mutex, history>>
  BY DEF SysGetPid, Calls
<1>2. /\ Place \in Places /\ Variable \in Page /\ Variable = page[run_pid]
      /\ slept[run_pid] \in Nat /\ ended[run_pid] \in SUBSET (Pids \X Int)
      /\ slept \in [Pids -> Nat] /\ ended \in [Pids -> SUBSET (Pids \X Int)]
      /\ run_pid \in Pids
  BY <1>1, CallerFacts
<1>3. Place = <<"Init", 2>> \/ Place = <<"Child", 1>>
  BY <1>1, <1>2, Sites
<1>4. /\ v.i = 0 /\ v.total = 0 /\ v.period \in 0..4
      /\ v.i \in 0..(CHILDREN + COLS) /\ v.total \in Codes
  BY <1>2, PidFacts DEF Page, Codes
<1> HIDE DEF v
<1>5. /\ Place[1] = "Init" => Onward = <<"Init", 3>>
      /\ Place[1] = "Child" => Onward = <<"Child", 2>>
  <2>1. CASE Place = <<"Init", 2>>
    BY <1>1, <2>1, OnwardIs
  <2>2. CASE Place = <<"Child", 1>>
    BY <1>1, <2>2, OnwardIs
  <2> QED
    BY <1>3, <2>1, <2>2
<1>6. Onward \in Places /\ Onward[1] = Place[1]
  BY <1>3, <1>5 DEF Places
<1>7. /\ Going(v).i = 0 /\ Going(v).total = 0
  BY <1>1, <1>4, <1>6, GoingIs
<1>8. ASSUME Place[1] = "Child"
      PROVE  IsChild(Onward[2], Going(v), slept[run_pid], ended[run_pid])
  <2>1. IsChild(1, page[run_pid], slept[run_pid], ended[run_pid])
    BY <1>1, <1>3, <1>8, Accounts
  <2> QED
    BY <1>5, <1>7, <1>8, <2>1, PidFacts DEF IsChild
<1>9. ASSUME Place[1] = "Init"
      PROVE  IsInit(Onward[2], FALSE, Going(v), Children(pcb, run_pid), ended[run_pid],
                    Exits(pcb, slept, run_pid))
  <2>1. IsInit(2, FALSE, page[run_pid], Children(pcb, run_pid), ended[run_pid],
               Exits(pcb, slept, run_pid))
    <3>1. Place[2] = 2
      BY <1>3, <1>9
    <3> QED
      BY <1>1, <1>9, <3>1, Accounts
  <2>2. Forked(2, page[run_pid], Children(pcb, run_pid), ended[run_pid],
               Exits(pcb, slept, run_pid))
    BY <2>1 DEF IsInit, Forks, Waits, Reports, Done
  <2>3. Waits(3, FALSE, Going(v), Children(pcb, run_pid), ended[run_pid],
              Exits(pcb, slept, run_pid))
    BY <1>7, <2>2, PidFacts DEF Forked, Waits
  <2>4. IsInit(3, FALSE, Going(v), Children(pcb, run_pid), ended[run_pid],
               Exits(pcb, slept, run_pid))
    BY <1>7, <2>3 DEF IsInit
  <2>5. Onward[2] = 3
    BY <1>5, <1>9
  <2> QED
    BY <2>4, <2>5
<1>10. Families(pcb, Stored(v), [slept EXCEPT ![run_pid] = slept[run_pid]],
                [ended EXCEPT ![run_pid] = ended[run_pid]])
  BY <1>1, <1>2, <1>4, <1>6, <1>8, <1>9, RunnerGoes
<1>11. /\ [slept EXCEPT ![run_pid] = slept[run_pid]] = slept
       /\ [ended EXCEPT ![run_pid] = ended[run_pid]] = ended
  BY <1>2
<1>12. Families(pcb, Stored(v), slept, ended)
  BY <1>10, <1>11
<1> QED
  BY <1>1, <1>12, QuietStep

\* A child that has slept once more has done its loop, or goes round it.
LEMMA SysSleepStep ==
  ASSUME FInv, SysSleep
  PROVE  FInv'
<1> DEFINE n == Variable.period
           v == [Variable EXCEPT !.total = @ + n, !.i = @ + 1]
           pc == [pcb EXCEPT ![run_pid] = [@ EXCEPT !.state = "SLEEP", !.wake_in = n * NAP]]
<1>1. /\ run_pid # IDLE /\ Text[Place[1]][Place[2]] = "sleep"
      /\ Leave(pc, Stored(v), ready_que, avail_que)
      /\ slept' = [slept EXCEPT ![run_pid] = @ + n]
      /\ UNCHANGED <<video_mutex, ended>>
  BY DEF SysSleep, Calls
<1>2. /\ Place \in Places /\ Variable \in Page /\ Variable = page[run_pid]
      /\ slept[run_pid] \in Nat /\ ended[run_pid] \in SUBSET (Pids \X Int)
      /\ slept \in [Pids -> Nat] /\ ended \in [Pids -> SUBSET (Pids \X Int)]
      /\ run_pid \in Pids /\ run_pid \in Members
      /\ pcb \in [Pids -> Pcb] /\ pcb[run_pid] \in Pcb /\ pcb[run_pid].state = "RUN"
  BY <1>1, CallerFacts
<1>3. Place = <<"Child", 7>> /\ Place[1] = "Child" /\ Place[2] = 7
  <2>1. Place = <<"Child", 7>>
    BY <1>1, <1>2, Sites
  <2> QED
    BY <2>1
<1>4. IsChild(7, Variable, slept[run_pid], ended[run_pid])
  BY <1>1, <1>2, <1>3, Accounts
<1>5. /\ n \in 1..4 /\ Variable.i \in Nat /\ Variable.i < COLS
      /\ Variable.total \in Nat /\ Variable.total <= 4 * Variable.i
      /\ Variable.total = slept[run_pid] /\ ended[run_pid] = {}
  BY <1>2, <1>4, PidFacts DEF IsChild, Page, Codes
<1> HIDE DEF n
<1>6. /\ v.i = Variable.i + 1 /\ v.total = Variable.total + n /\ v.period \in 0..4
  BY <1>2 DEF Page
<1> HIDE DEF v
<1>7. /\ v.i \in 0..(CHILDREN + COLS) /\ v.total \in Codes /\ v.i <= COLS /\ v.total <= 4 * v.i
      /\ v.total = slept[run_pid] + n /\ v.total \in Nat /\ v.i \in 1..COLS
  BY <1>5, <1>6, PidFacts DEF Codes
<1>8. Onward = IF v.i = COLS THEN <<"Child", 8>> ELSE <<"Child", 2>>
  <2>1. Onward = IF Variable.i + 1 = COLS THEN <<"Child", 8>> ELSE <<"Child", 2>>
    BY <1>1, <1>3, OnwardIs
  <2> QED
    BY <1>6, <2>1
<1>9. /\ Onward \in Places /\ Onward[1] = Place[1]
      /\ Onward[2] = IF v.i = COLS THEN 8 ELSE 2
  BY <1>3, <1>8 DEF Places
<1>10. IsChild(Onward[2], Going(v), v.total, {})
  <2>1. Going(v).i = v.i /\ Going(v).total = v.total
    BY <1>1, <1>6, <1>7, <1>9, GoingIs
  <2>2. CASE v.i = COLS
    <3>1. IsChild(8, Going(v), v.total, {})
      BY <1>7, <2>1, <2>2 DEF IsChild
    <3>2. Onward[2] = 8
      BY <1>9, <2>2
    <3> QED
      BY <3>1, <3>2
  <2>3. CASE v.i # COLS
    <3>1. IsChild(2, Going(v), v.total, {})
      BY <1>7, <2>1, <2>3, PidFacts DEF IsChild
    <3>2. Onward[2] = 2
      BY <1>9, <2>3
    <3> QED
      BY <3>1, <3>2
  <2> QED
    BY <2>2, <2>3
<1>11. Families(pcb, Stored(v), slept', ended')
  <2>1. {} \in SUBSET (Pids \X Int) /\ Place[1] # "Init"
    BY <1>3
  <2>2. Families(pcb, Stored(v), [slept EXCEPT ![run_pid] = v.total],
                 [ended EXCEPT ![run_pid] = {}])
    BY <1>1, <1>6, <1>7, <1>9, <1>10, <2>1, RunnerGoes
  <2>3. /\ [ended EXCEPT ![run_pid] = {}] = ended'
        /\ [slept EXCEPT ![run_pid] = v.total] = slept'
    BY <1>1, <1>2, <1>5, <1>7
  <2> QED
    BY <2>2, <2>3
<1>12. /\ Turns(pcb, pc, run_pid) /\ pc[run_pid].state = "SLEEP"
       /\ pc[run_pid].ppid = pcb[run_pid].ppid /\ pc[run_pid].tf_p = pcb[run_pid].tf_p
  <2> DEFINE x == [pcb[run_pid] EXCEPT !.state = "SLEEP", !.wake_in = n * NAP]
  <2>1. n * NAP \in 0..(4 * NAP)
    <3>1. n = 1 \/ n = 2 \/ n = 3 \/ n = 4
      BY <1>5
    <3> QED
      BY <3>1, PidFacts
  <2>2. /\ x \in Pcb /\ x.state = "SLEEP"
        /\ x.ppid = pcb[run_pid].ppid /\ x.tf_p = pcb[run_pid].tf_p
    BY <1>2, <2>1 DEF Pcb, States
  <2>3. pc = [pcb EXCEPT ![run_pid] = x]
    BY <1>2
  <2> HIDE DEF x, pc
  <2> QED
    BY <1>2, <2>2, <2>3 DEF Turns
<1> HIDE DEF pc
<1>13. /\ Cpu(NONE, pc, ready_que)
       /\ In(pc, "AVAIL") = In(pcb, "AVAIL") /\ In(pc, "SUSPEND") = In(pcb, "SUSPEND")
  <2>1. Cpu(run_pid, pcb, ready_que) /\ "SLEEP" \in States \ {"READY", "RUN"}
    BY DEF FInv, States
  <2>2. /\ Cpu(NONE, pc, ready_que)
        /\ \A s \in States \ {"READY", "RUN", "SLEEP"} : In(pc, s) = In(pcb, s)
    BY <1>2, <1>12, <2>1, LeaveCpu
  <2> QED
    BY <2>2 DEF States
<1>14. QueuesHold(pc, avail_que, video_mutex')
  BY <1>1, <1>13 DEF FInv, QueuesHold
<1>15. Families(pc, Stored(v), slept', ended')
  <2>1. \A p \in Pids :
          /\ pc[p].ppid = pcb[p].ppid /\ pc[p].tf_p = pcb[p].tf_p
          /\ \A s \in {"AVAIL", "WAIT"} : pc[p].state = s <=> pcb[p].state = s
          /\ pcb[p].ppid # IDLE => (pc[p].state = "ZOMBIE" <=> pcb[p].state = "ZOMBIE")
    BY <1>2, <1>12 DEF Turns
  <2> QED
    BY <1>11, <2>1, StatesKept
<1> QED
  BY <1>1, <1>13, <1>14, <1>15, LeaveStep

LEMMA SysLockMutexStep ==
  ASSUME FInv, SysLockMutex
  PROVE  FInv'
<1>1. /\ run_pid # IDLE /\ Text[Place[1]][Place[2]] = "lock" /\ UNCHANGED history
  BY DEF SysLockMutex, Calls
<1>2. /\ Place \in Places /\ Variable \in Page
      /\ run_pid \in Pids /\ run_pid \in Members
      /\ pcb \in [Pids -> Pcb] /\ pcb[run_pid] \in Pcb /\ pcb[run_pid].state = "RUN"
  BY <1>1, CallerFacts
<1>3. Families(pcb, Stored(Variable), slept', ended')
  <2>1. /\ \/ Place[1] = "Init" /\ Place[2] = 4
           \/ Place[1] = "Child" /\ Place[2] = 2
        /\ Place = <<Place[1], Place[2]>>
    <3>1. Place = <<"Init", 4>> \/ Place = <<"Child", 2>>
      BY <1>1, <1>2, Sites
    <3> QED
      BY <3>1
  <2>2. Variable.period \in 0..4
    BY <1>2 DEF Page
  <2>3. Families(pcb, Stored(Variable), slept, ended)
    BY <1>1, <2>1, <2>2, AdvanceKept
  <2> QED
    BY <1>1, <2>3 DEF history
<1>4. Cpu(run_pid, pcb, ready_que) /\ QueuesHold(pcb, avail_que, video_mutex)
  BY DEF FInv
<1>5. CASE /\ ~video_mutex.lock /\ video_mutex' = [video_mutex EXCEPT !.lock = TRUE]
           /\ Demote(pcb, Stored(Variable), ready_que, avail_que)
  <2>1. QueuesHold(pcb, avail_que, video_mutex')
    BY <1>4, <1>5 DEF QueuesHold
  <2> QED
    BY <1>1, <1>3, <1>4, <1>5, <2>1, DemoteStep
<1>6. CASE /\ video_mutex.lock
           /\ video_mutex' = [video_mutex EXCEPT !.suspend_que = EnQue(@, run_pid)]
           /\ Leave([pcb EXCEPT ![run_pid].state = "SUSPEND"], Stored(Variable),
                    ready_que, avail_que)
  <2> DEFINE pc == [pcb EXCEPT ![run_pid].state = "SUSPEND"]
  <2>1. /\ Turns(pcb, pc, run_pid) /\ pc[run_pid].state = "SUSPEND"
        /\ pc[run_pid].ppid = pcb[run_pid].ppid /\ pc[run_pid].tf_p = pcb[run_pid].tf_p
    <3> DEFINE x == [pcb[run_pid] EXCEPT !.state = "SUSPEND"]
    <3>1. /\ x \in Pcb /\ x.state = "SUSPEND"
          /\ x.ppid = pcb[run_pid].ppid /\ x.tf_p = pcb[run_pid].tf_p
      BY <1>2, PutState DEF States
    <3>2. pc = [pcb EXCEPT ![run_pid] = x]
      BY <1>2
    <3> HIDE DEF x, pc
    <3> QED
      BY <1>2, <3>1, <3>2 DEF Turns
  <2>2. Leave(pc, Stored(Variable), ready_que, avail_que)
    BY <1>6
  <2> HIDE DEF pc
  <2>3. /\ Cpu(NONE, pc, ready_que)
        /\ In(pc, "AVAIL") = In(pcb, "AVAIL")
        /\ run_pid \notin In(pcb, "SUSPEND")
        /\ In(pc, "SUSPEND") = In(pcb, "SUSPEND") \cup {run_pid}
    <3>1. "SUSPEND" \in States \ {"READY", "RUN"}
      BY DEF States
    <3>2. /\ Cpu(NONE, pc, ready_que)
          /\ run_pid \notin In(pcb, "SUSPEND")
          /\ In(pc, "SUSPEND") = In(pcb, "SUSPEND") \cup {run_pid}
          /\ \A s \in States \ {"READY", "RUN", "SUSPEND"} : In(pc, s) = In(pcb, s)
      BY <1>2, <1>4, <2>1, <3>1, LeaveCpu
    <3> QED
      BY <3>2 DEF States
  <2>4. QueuesHold(pc, avail_que, video_mutex')
    <3> DEFINE q == video_mutex.suspend_que
    <3>1. q \in Seq(Pids) /\ Holds(q, In(pcb, "SUSPEND")) /\ In(pcb, "SUSPEND") \in SUBSET Members
      BY <1>4 DEF QueuesHold, In
    <3>2. EnQue(q, run_pid) \in Seq(Pids) /\ Holds(EnQue(q, run_pid), In(pc, "SUSPEND"))
      <4> HIDE DEF q
      <4>1. EnQue(q, run_pid) \in Seq(Pids)
            /\ Holds(EnQue(q, run_pid), In(pcb, "SUSPEND") \cup {run_pid})
        BY <1>2, <2>3, <3>1, EnQueMember
      <4> QED
        BY <2>3, <4>1
    <3>3. /\ video_mutex' \in [lock : BOOLEAN, suspend_que : Seq(Pids)]
          /\ video_mutex'.suspend_que = EnQue(q, run_pid)
      BY <1>4, <1>6, <3>2 DEF QueuesHold
    <3> QED
      BY <1>4, <2>3, <3>2, <3>3 DEF QueuesHold
  <2>5. Families(pc, Stored(Variable), slept', ended')
    <3>1. \A p \in Pids :
            /\ pc[p].ppid = pcb[p].ppid /\ pc[p].tf_p = pcb[p].tf_p
            /\ \A s \in {"AVAIL", "WAIT"} : pc[p].state = s <=> pcb[p].state = s
            /\ pcb[p].ppid # IDLE => (pc[p].state = "ZOMBIE" <=> pcb[p].state = "ZOMBIE")
      BY <1>2, <2>1 DEF Turns
    <3> QED
      BY <1>3, <3>1, StatesKept
  <2> QED
    BY <2>2, <2>3, <2>4, <2>5, LeaveStep
<1> QED
  BY <1>5, <1>6 DEF SysLockMutex

\* What unlock ends: a turn of a child's loop goes on; a report of an Init is done.
LEMMA UnlockKept ==
  ASSUME FInv, run_pid # IDLE, Calls("unlock"),
         NEW v, v.total = Variable.total, v.period = Variable.period,
         v.i = IF Place[1] = "Init" THEN Variable.i + 1 ELSE Variable.i,
         slept' = slept,
         ended' = IF Place[1] = "Init"
                  THEN [ended EXCEPT ![run_pid] =
                         @ \ {<<Variable.exit_pid, Variable.exit_code>>}]
                  ELSE ended
  PROVE  Families(pcb, Stored(v), slept', ended')
<1>1. /\ Place \in Places /\ Variable \in Page /\ Variable = page[run_pid]
      /\ slept[run_pid] \in Nat /\ ended[run_pid] \in SUBSET (Pids \X Int)
      /\ slept \in [Pids -> Nat] /\ ended \in [Pids -> SUBSET (Pids \X Int)]
      /\ run_pid \in Pids /\ run_pid \in Members
  BY CallerFacts
<1>2. Place = <<"Init", 10>> \/ Place = <<"Child", 5>>
  BY <1>1, Sites DEF Calls
<1>3. v.period \in 0..4 /\ v.total \in Codes
  BY <1>1 DEF Page
<1>4. CASE Place = <<"Child", 5>>
  <2>1. v.i = Variable.i /\ slept' = slept /\ ended' = ended
    BY <1>3, <1>4
  <2>2. Families(pcb, Stored(v), slept, ended)
    BY <1>3, <1>4, <2>1, AdvanceKept
  <2> QED
    BY <2>1, <2>2
<1>5. CASE Place = <<"Init", 10>>
  <2> DEFINE e == ended[run_pid] \ {<<Variable.exit_pid, Variable.exit_code>>}
             kin == Children(pcb, run_pid)
             d == Exits(pcb, slept, run_pid)
  <2>1. /\ Place[1] = "Init" /\ Place[2] = 10 /\ v.i = Variable.i + 1
        /\ ended' = [ended EXCEPT ![run_pid] = e]
    BY <1>3, <1>5
  <2>2. Reports(10, FALSE, Variable, kin, ended[run_pid], d) /\ Variable.total = 0
    <3>1. IsInit(10, FALSE, Variable, kin, ended[run_pid], d)
      BY <1>1, <2>1, Accounts
    <3> HIDE DEF kin, d
    <3>2. /\ ~Forks(10, Variable, kin, ended[run_pid], d)
          /\ ~Forked(10, Variable, kin, ended[run_pid], d)
          /\ ~Waits(10, FALSE, Variable, kin, ended[run_pid], d)
          /\ ~Done(10, kin, ended[run_pid])
      BY DEF Forks, Forked, Waits, Done
    <3> QED
      BY <3>1, <3>2 DEF IsInit
  <2>3. e = d
    <3>1. \A c \in Dead(pcb, run_pid) : c \in kin
      BY DEF Dead
    <3>2. Variable.exit_pid \notin kin
          /\ ended[run_pid] = d \cup {<<Variable.exit_pid, Variable.exit_code>>}
      BY <2>2 DEF Reports
    <3>3. <<Variable.exit_pid, Variable.exit_code>> \notin d
      BY <3>1, <3>2 DEF Exits
    <3> QED
      BY <3>2, <3>3
  <2>4. /\ Variable.i \in Nat /\ Variable.i < CHILDREN /\ v.i \in Nat /\ v.i <= CHILDREN
        /\ Cardinality(kin) = CHILDREN - v.i
    BY <1>1, <2>1, <2>2, PidFacts DEF Reports, Page
  <2>5. v.i \in 0..(CHILDREN + COLS) /\ v.total = 0
    BY <1>3, <2>2, <2>4, PidFacts
  <2>6. Onward = IF v.i = CHILDREN THEN <<"Init", 11>> ELSE <<"Init", 3>>
    <3>1. Onward = IF Variable.i + 1 = CHILDREN THEN <<"Init", 11>> ELSE <<"Init", 3>>
      BY <1>5, OnwardIs
    <3> QED
      BY <2>1, <3>1
  <2>7. Onward \in Places /\ Onward[1] = Place[1] /\ Onward[2] = IF v.i = CHILDREN THEN 11 ELSE 3
    BY <2>1, <2>6 DEF Places
  <2>8. Going(v).i = v.i /\ Going(v).total = v.total
    BY <1>3, <2>5, <2>7, GoingIs
  <2>9. e \in SUBSET (Pids \X Int) /\ kin \subseteq Members
    BY <1>1 DEF Children
  <2> HIDE DEF e, kin, d
  <2>10. IsInit(Onward[2], FALSE, Going(v), kin, e, d)
    <3>1. CASE v.i = CHILDREN
      <4>1. Cardinality(kin) = 0
        BY <2>4, <3>1, PidFacts
      <4>2. kin = {}
        <5>1. IsFiniteSet(kin)
          BY <2>9, PidFacts, FS_Subset
        <5> QED
          BY <4>1, <5>1, FS_EmptySet
      <4>3. d = {}
        BY <4>2 DEF d, kin, Exits, Dead
      <4>4. Done(11, kin, e)
        BY <2>3, <4>2, <4>3 DEF Done
      <4>5. IsInit(11, FALSE, Going(v), kin, e, d) /\ Onward[2] = 11
        BY <2>5, <2>7, <2>8, <3>1, <4>4 DEF IsInit
      <4> QED
        BY <4>5
    <3>2. CASE v.i # CHILDREN
      <4>1. Waits(3, FALSE, Going(v), kin, e, d)
        BY <2>3, <2>4, <2>8, <3>2, PidFacts DEF Waits
      <4>2. IsInit(3, FALSE, Going(v), kin, e, d) /\ Onward[2] = 3
        BY <2>5, <2>7, <2>8, <3>2, <4>1 DEF IsInit
      <4> QED
        BY <4>2
    <3> QED
      BY <3>1, <3>2
  <2>11. Families(pcb, Stored(v), [slept EXCEPT ![run_pid] = slept[run_pid]],
                  [ended EXCEPT ![run_pid] = e])
    <3>1. IsInit(Onward[2], FALSE, Going(v), Children(pcb, run_pid), e,
                 Exits(pcb, slept, run_pid))
      BY <2>10 DEF kin, d
    <3>2. Place[1] # "Child"
      BY <2>1
    <3> QED
      BY <1>1, <1>3, <2>5, <2>7, <2>9, <3>1, <3>2, RunnerGoes
  <2>12. [slept EXCEPT ![run_pid] = slept[run_pid]] = slept'
    BY <1>1
  <2> QED
    BY <2>1, <2>11, <2>12
<1> QED
  BY <1>2, <1>4, <1>5

LEMMA SysUnlockMutexStep ==
  ASSUME FInv, SysUnlockMutex
  PROVE  FInv'
<1> DEFINE v == [Variable EXCEPT !.i = IF Place[1] = "Init" THEN @ + 1 ELSE @]
           q == video_mutex.suspend_que
           first == Head(q)
<1>1. /\ run_pid # IDLE /\ Calls("unlock") /\ slept' = slept
      /\ ended' = IF Place[1] = "Init"
                  THEN [ended EXCEPT ![run_pid] =
                         @ \ {<<Variable.exit_pid, Variable.exit_code>>}]
                  ELSE ended
      /\ \/ /\ QueEmpty(q) /\ video_mutex' = [video_mutex EXCEPT !.lock = FALSE]
            /\ Demote(pcb, Stored(v), ready_que, avail_que)
         \/ /\ ~QueEmpty(q) /\ video_mutex' = [video_mutex EXCEPT !.suspend_que = Tail(@)]
            /\ Demote([pcb EXCEPT ![first].state = "READY"], Stored(v),
                      EnQue(ready_que, first), avail_que)
  BY DEF SysUnlockMutex, Calls
<1>2. Families(pcb, Stored(v), slept', ended')
  <2>1. Variable \in Page
    BY <1>1, CallerFacts
  <2>2. /\ v.total = Variable.total /\ v.period = Variable.period
        /\ v.i = IF Place[1] = "Init" THEN Variable.i + 1 ELSE Variable.i
    BY <2>1 DEF Page
  <2> HIDE DEF v
  <2> QED
    BY <1>1, <2>2, UnlockKept
<1>3. /\ run_pid \in Pids /\ run_pid \in Members
      /\ pcb \in [Pids -> Pcb] /\ pcb[run_pid].state = "RUN"
      /\ Cpu(run_pid, pcb, ready_que) /\ QueuesHold(pcb, avail_que, video_mutex)
  BY <1>1, CallerFacts DEF FInv
<1> HIDE DEF v
<1>4. CASE /\ QueEmpty(q) /\ video_mutex' = [video_mutex EXCEPT !.lock = FALSE]
           /\ Demote(pcb, Stored(v), ready_que, avail_que)
  <2>1. QueuesHold(pcb, avail_que, video_mutex')
    BY <1>3, <1>4 DEF QueuesHold
  <2> QED
    BY <1>1, <1>2, <1>3, <1>4, <2>1, DemoteStep
<1>5. CASE /\ ~QueEmpty(q) /\ video_mutex' = [video_mutex EXCEPT !.suspend_que = Tail(@)]
           /\ Demote([pcb EXCEPT ![first].state = "READY"], Stored(v),
                     EnQue(ready_que, first), avail_que)
  <2> DEFINE pc == [pcb EXCEPT ![first].state = "READY"]
  <2>1. /\ first \in Members /\ first \in Pids /\ pcb[first].state = "SUSPEND"
        /\ Tail(q) \in Seq(Pids) /\ Holds(Tail(q), In(pcb, "SUSPEND") \ {first})
    <3>1. q \in Seq(Pids) /\ Holds(q, In(pcb, "SUSPEND")) /\ q # << >>
      BY <1>3, <1>5 DEF QueuesHold, QueEmpty
    <3>2. /\ first \in In(pcb, "SUSPEND")
          /\ Tail(q) \in Seq(Pids) /\ Holds(Tail(q), In(pcb, "SUSPEND") \ {first})
      BY <3>1, HoldsTail
    <3> QED
      BY <3>2, PidFacts DEF In
  <2>2. /\ video_mutex' \in [lock : BOOLEAN, suspend_que : Seq(Pids)]
        /\ video_mutex'.suspend_que = Tail(q)
    BY <1>3, <1>5, <2>1 DEF QueuesHold
  <2>3. Demote(pc, Stored(v), EnQue(ready_que, first), avail_que)
    BY <1>5
  <2> HIDE DEF first
  <2>4. /\ Turns(pcb, pc, first) /\ pc[first].state = "READY"
        /\ pc[first].ppid = pcb[first].ppid /\ pc[first].tf_p = pcb[first].tf_p
    <3> DEFINE x == [pcb[first] EXCEPT !.state = "READY"]
    <3>1. /\ x \in Pcb /\ x.state = "READY"
          /\ x.ppid = pcb[first].ppid /\ x.tf_p = pcb[first].tf_p
      BY <1>3, <2>1, PutState DEF States
    <3>2. pc = [pcb EXCEPT ![first] = x]
      BY <1>3, <2>1
    <3> HIDE DEF x, pc
    <3> QED
      BY <1>3, <2>1, <3>1, <3>2 DEF Turns
  <2> HIDE DEF pc
  <2>5. /\ Cpu(run_pid, pc, EnQue(ready_que, first))
        /\ \A s \in States \ {"READY", "RUN"} : In(pc, s) = In(pcb, s) \ {first}
    BY <1>3, <2>1, <2>4, ReadyCpu
  <2>6. QueuesHold(pc, avail_que, video_mutex')
    <3>1. first \notin In(pcb, "AVAIL")
      BY <2>1 DEF In
    <3>2. In(pc, "AVAIL") = In(pcb, "AVAIL") /\ In(pc, "SUSPEND") = In(pcb, "SUSPEND") \ {first}
      BY <2>5, <3>1 DEF States
    <3> QED
      BY <1>3, <2>1, <2>2, <3>2 DEF QueuesHold
  <2>7. Families(pc, Stored(v), slept', ended')
    <3>1. \A p \in Pids :
            /\ pc[p].ppid = pcb[p].ppid /\ pc[p].tf_p = pcb[p].tf_p
            /\ \A s \in {"AVAIL", "WAIT"} : pc[p].state = s <=> pcb[p].state = s
            /\ pcb[p].ppid # IDLE => (pc[p].state = "ZOMBIE" <=> pcb[p].state = "ZOMBIE")
      BY <1>3, <2>1, <2>4 DEF Turns
    <3> QED
      BY <1>2, <3>1, StatesKept
  <2> QED
    BY <1>1, <2>3, <2>5, <2>6, <2>7, DemoteStep
<1> QED
  BY <1>1, <1>4, <1>5

\* The pages of the parent and of its copy behind a fork: every pointer of the
\* copy has moved by the distance between them.
LEMMA CopyIs ==
  ASSUME NEW pg \in [Pids -> Page], NEW r \in Pids, NEW f \in Pids, f # r, NEW next,
         r = run_pid, pg[r].at = <<"Init", 1>>, NEW pcbr, Own(pcbr, pg[r], r),
         pg[r].i + 1 \in 0..(CHILDREN + COLS), next \in {1, 2}
  PROVE  LET y == [pg[r] EXCEPT !.eip = f, !.ebp = f, !.bp = f, !.ret = f, !.at = <<"Child", 1>>]
             x == [pg[r] EXCEPT !.i = @ + 1, !.at = <<"Init", next>>]
         IN /\ [Moved([pg EXCEPT ![f] = pg[r]], f) EXCEPT
                  ![f].at = <<"Child", 1>>, ![r].i = @ + 1, ![r].at[2] = next]
               = [pg EXCEPT ![f] = y, ![r] = x]
            /\ y \in Page /\ y.at = <<"Child", 1>> /\ y.total = pg[r].total
            /\ y.eip = f /\ y.ebp = f /\ y.bp = f /\ y.ret = f
            /\ x \in Page /\ x.at = <<"Init", next>> /\ x.total = pg[r].total
            /\ x.i = pg[r].i + 1 /\ Own(pcbr, x, r)
<1> DEFINE y == [pg[r] EXCEPT !.eip = f, !.ebp = f, !.bp = f, !.ret = f, !.at = <<"Child", 1>>]
           x == [pg[r] EXCEPT !.i = @ + 1, !.at = <<"Init", next>>]
           z == [pg[r] EXCEPT !.eip = f, !.ebp = f, !.bp = f, !.ret = f]
           a == [pg[r] EXCEPT !.i = @ + 1]
           image == [pg EXCEPT ![f] = pg[r]]
<1>1. pg[r] \in Page
  OBVIOUS
<1>2. r + (f - r) = f /\ pg[r].eip = r /\ pg[r].ebp = r /\ pg[r].bp = r /\ pg[r].ret = r
  BY PidFacts DEF Own
<1>3. Moved(image, f) = [pg EXCEPT ![f] = z]
  <2>1. image[f] = pg[r] /\ image \in [Pids -> Page] /\ \A p \in Pids : p # f => image[p] = pg[p]
    OBVIOUS
  <2>2. z = [pg[r] EXCEPT !.eip = @ + (f - r), !.ebp = @ + (f - r),
                          !.bp = @ + (f - r), !.ret = @ + (f - r)]
    BY <1>2
  <2> HIDE DEF image, z
  <2>3. Moved(image, f) = [image EXCEPT ![f] = z]
    <3>1. Moved(image, f) =
            [image EXCEPT ![f].eip = @ + (f - r), ![f].ebp = @ + (f - r),
                          ![f].bp = @ + (f - r), ![f].ret = @ + (f - r)]
      BY DEF Moved
    <3> QED
      BY <2>1, <2>2, <3>1
  <2>4. [image EXCEPT ![f] = z] = [pg EXCEPT ![f] = z]
    BY DEF image
  <2> QED
    BY <2>3, <2>4
<1>4. y = [z EXCEPT !.at = <<"Child", 1>>] /\ z \in Page
  BY <1>1 DEF Page
<1>5. x = [a EXCEPT !.at[2] = next] /\ a \in Page
  <2>1. [a.at EXCEPT ![2] = next] = <<"Init", next>>
    BY <1>1 DEF Page
  <2> QED
    BY <1>1, <2>1 DEF Page
<1>6. /\ y \in Page /\ y.at = <<"Child", 1>> /\ y.total = pg[r].total
      /\ y.eip = f /\ y.ebp = f /\ y.bp = f /\ y.ret = f
  <2>1. <<"Child", 1>> \in Places
    BY DEF Places
  <2> QED
    BY <1>1, <2>1 DEF Page
<1>7. /\ x \in Page /\ x.at = <<"Init", next>> /\ x.total = pg[r].total
      /\ x.i = pg[r].i + 1 /\ Own(pcbr, x, r)
  <2>1. <<"Init", next>> \in Places
    BY DEF Places
  <2>2. x \in Page /\ x.at = <<"Init", next>> /\ x.total = pg[r].total /\ x.i = pg[r].i + 1
    BY <1>1, <2>1 DEF Page
  <2>3. Own(pcbr, x, r)
    BY <1>1 DEF Page, Own
  <2> QED
    BY <2>2, <2>3
<1>8. [[pg EXCEPT ![f] = z] EXCEPT ![f].at = <<"Child", 1>>, ![r].i = @ + 1, ![r].at[2] = next]
      = [pg EXCEPT ![f] = y, ![r] = x]
  <2> DEFINE m == [pg EXCEPT ![f] = z]
  <2>1. m[f] = z /\ m[r] = pg[r] /\ DOMAIN m = Pids
    OBVIOUS
  <2> HIDE DEF m, z
  <2>2. [m EXCEPT ![f].at = <<"Child", 1>>] = [m EXCEPT ![f] = y]
    BY <1>4, <2>1
  <2> HIDE DEF y
  <2>3. [m EXCEPT ![f].at = <<"Child", 1>>, ![r].i = @ + 1] = [m EXCEPT ![f] = y, ![r] = a]
    BY <2>1, <2>2
  <2> HIDE DEF a, x
  <2>4. [m EXCEPT ![f].at = <<"Child", 1>>, ![r].i = @ + 1, ![r].at[2] = next]
        = [m EXCEPT ![f] = y, ![r] = x]
    <3> DEFINE k == [m EXCEPT ![f] = y, ![r] = a]
    <3>1. k[r] = a /\ [k EXCEPT ![r] = x] = [m EXCEPT ![f] = y, ![r] = x]
      BY <2>1
    <3>2. [k EXCEPT ![r].at[2] = next] = [k EXCEPT ![r] = [k[r] EXCEPT !.at[2] = next]]
      OBVIOUS
    <3> HIDE DEF k
    <3>3. [k EXCEPT ![r].at[2] = next] = [k EXCEPT ![r] = x]
      BY <1>5, <3>1, <3>2
    <3>4. k = [m EXCEPT ![f].at = <<"Child", 1>>, ![r].i = @ + 1]
      BY <2>3 DEF k
    <3>5. [m EXCEPT ![f].at = <<"Child", 1>>, ![r].i = @ + 1, ![r].at[2] = next]
          = [k EXCEPT ![r].at[2] = next]
      BY <3>4
    <3> QED
      BY <3>1, <3>3, <3>5
  <2>5. [m EXCEPT ![f] = y, ![r] = x] = [pg EXCEPT ![f] = y, ![r] = x]
    BY DEF m
  <2> QED
    BY <2>4, <2>5 DEF m
<1> QED
  BY <1>3, <1>6, <1>7, <1>8

\* A fork makes the first available pid a child, or finds none and gives up.
LEMMA SysForkStep ==
  ASSUME FInv, SysFork
  PROVE  FInv'
<1> DEFINE r == run_pid
<1>1. /\ run_pid # IDLE /\ Text[Place[1]][Place[2]] = "fork"
      /\ UNCHANGED <<video_mutex, ended>>
  BY DEF SysFork, Calls
<1>2. /\ Place \in Places /\ Place = page[r].at /\ Frame(r) = r /\ Variable = page[r]
      /\ page[r] \in Page /\ page \in [Pids -> Page]
      /\ slept \in [Pids -> Nat] /\ ended \in [Pids -> SUBSET (Pids \X Int)]
      /\ slept[r] \in Nat /\ ended[r] \in SUBSET (Pids \X Int)
      /\ r \in Pids /\ r \in Members
      /\ pcb \in [Pids -> Pcb] /\ pcb[r] \in Pcb /\ pcb[r].state = "RUN"
      /\ Own(pcb[r], page[r], r)
  BY <1>1, CallerFacts DEF Member
<1>3. Place = <<"Init", 1>> /\ page[r].at = <<"Init", 1>>
  BY <1>1, <1>2, Sites
<1>4. /\ Cpu(r, pcb, ready_que) /\ QueuesHold(pcb, avail_que, video_mutex')
      /\ Families(pcb, page, slept, ended)
  BY <1>1 DEF FInv
<1>5. page[r].i \in Nat /\ page[r].i < CHILDREN /\ page[r].total = 0
  <2>1. IsInit(1, FALSE, page[r], Children(pcb, r), ended[r], Exits(pcb, slept, r))
    <3>1. Place[1] = "Init" /\ Place[2] = 1
      BY <1>3
    <3> QED
      BY <1>1, <3>1, Accounts
  <2>2. Forks(1, page[r], Children(pcb, r), ended[r], Exits(pcb, slept, r)) /\ page[r].total = 0
    BY <2>1 DEF IsInit, Forked, Waits, Reports, Done
  <2> QED
    BY <1>2, <2>2 DEF Forks, Page
<1>6. CASE /\ QueEmpty(avail_que)
           /\ Demote(pcb, [page EXCEPT ![run_pid].at = <<"Failed", 1>>], ready_que, avail_que)
           /\ UNCHANGED slept
  <2> DEFINE x == [page[r] EXCEPT !.at = <<"Failed", 1>>]
  <2>1. x \in Page /\ x.at = <<"Failed", 1>> /\ Own(pcb[r], x, r)
    BY <1>2 DEF Page, Places, Own
  <2>2. [page EXCEPT ![run_pid].at = <<"Failed", 1>>] = [page EXCEPT ![r] = x]
    BY <1>2
  <2> HIDE DEF x
  <2>3. x.at[1] # "Child" /\ x.at[1] # "Init" /\ page[r].at[1] # "Child"
    BY <1>3, <2>1
  <2>4. Families(pcb, [page EXCEPT ![r] = x], [slept EXCEPT ![r] = slept[r]],
                 [ended EXCEPT ![r] = ended[r]])
    BY <1>2, <1>4, <2>1, <2>3, RunnerKept
  <2>5. [slept EXCEPT ![r] = slept[r]] = slept' /\ [ended EXCEPT ![r] = ended[r]] = ended'
    BY <1>1, <1>2, <1>6
  <2>6. Families(pcb, [page EXCEPT ![run_pid].at = <<"Failed", 1>>], slept', ended')
    BY <2>2, <2>4, <2>5
  <2> QED
    BY <1>1, <1>4, <1>6, <2>6, DemoteStep
<1>7. CASE /\ ~QueEmpty(avail_que)
           /\ LET pidF == Head(avail_que)
                  copy == [pcb[run_pid] EXCEPT !.state = "READY", !.ppid = run_pid,
                                               !.tf_p = @ + pidF - run_pid]
                  image == [page EXCEPT ![pidF] = page[run_pid]]
                  next == IF LoopEnds THEN 2 ELSE 1
              IN /\ Demote([pcb EXCEPT ![pidF] = copy],
                           [Moved(image, pidF) EXCEPT ![pidF].at = <<"Child", 1>>,
                              ![Frame(run_pid)].i = @ + 1, ![run_pid].at[2] = next],
                           EnQue(ready_que, pidF), AfterDeQue(avail_que))
                 /\ slept' = [slept EXCEPT ![pidF] = 0]
  <2> DEFINE f == Head(avail_que)
             copy == [pcb[r] EXCEPT !.state = "READY", !.ppid = r, !.tf_p = @ + f - r]
             next == IF LoopEnds THEN 2 ELSE 1
             y == [page[r] EXCEPT !.eip = f, !.ebp = f, !.bp = f, !.ret = f,
                                  !.at = <<"Child", 1>>]
             x == [page[r] EXCEPT !.i = @ + 1, !.at = <<"Init", next>>]
             pc == [pcb EXCEPT ![f] = copy]
             pg == [page EXCEPT ![f] = y, ![r] = x]
  <2>1. /\ f \in Members /\ f \in Pids /\ pcb[f].state = "AVAIL" /\ f # r
        /\ AfterDeQue(avail_que) = Tail(avail_que)
        /\ Tail(avail_que) \in Seq(Pids) /\ Holds(Tail(avail_que), In(pcb, "AVAIL") \ {f})
    <3>1. /\ avail_que \in Seq(Pids) /\ Holds(avail_que, In(pcb, "AVAIL"))
          /\ avail_que # << >> /\ AfterDeQue(avail_que) = Tail(avail_que)
      BY <1>4, <1>7 DEF QueuesHold, QueEmpty, AfterDeQue
    <3>2. /\ f \in In(pcb, "AVAIL")
          /\ Tail(avail_que) \in Seq(Pids) /\ Holds(Tail(avail_que), In(pcb, "AVAIL") \ {f})
      BY <3>1, HoldsTail
    <3>3. f \in Members /\ f \in Pids /\ pcb[f].state = "AVAIL"
      BY <3>2, PidFacts DEF In
    <3> QED
      BY <1>2, <3>1, <3>2, <3>3
  <2>2. next = IF page[r].i + 1 = CHILDREN THEN 2 ELSE 1
    BY <1>2, <1>3 DEF LoopEnds
  <2>3. /\ [Moved([page EXCEPT ![f] = page[r]], f) EXCEPT
              ![f].at = <<"Child", 1>>, ![r].i = @ + 1, ![r].at[2] = next] = pg
        /\ y \in Page /\ y.at = <<"Child", 1>> /\ y.total = page[r].total
        /\ y.eip = f /\ y.ebp = f /\ y.bp = f /\ y.ret = f
        /\ x \in Page /\ x.at = <<"Init", next>> /\ x.total = page[r].total
        /\ x.i = page[r].i + 1 /\ Own(pcb[r], x, r)
    <3>1. page[r].i + 1 \in 0..(CHILDREN + COLS) /\ next \in {1, 2}
      BY <1>5, <2>2, PidFacts
    <3> HIDE DEF next, f
    <3> QED
      BY <1>2, <1>3, <2>1, <3>1, CopyIs
  <2>4. copy \in Pcb /\ copy.state = "READY" /\ copy.ppid = r /\ copy.tf_p = f
    <3>1. pcb[r].tf_p = r /\ r + f - r = f
      <4>1. pcb[r].tf_p = r
        BY <1>2 DEF Own
      <4>2. r \in Int /\ f \in Int
        <5> HIDE DEF r, f
        <5>1. r \in Pids /\ f \in Pids
          BY <1>2, <2>1
        <5> QED
          BY <5>1, PidFacts
      <4> HIDE DEF r, f
      <4> QED
        BY <4>1, <4>2
    <3> QED
      BY <1>2, <2>1, <3>1 DEF Pcb, States
  <2>5. /\ Demote(pc, pg, EnQue(ready_que, f), Tail(avail_que))
        /\ slept' = [slept EXCEPT ![f] = 0]
    BY <1>2, <1>7, <2>1, <2>3
  <2> HIDE DEF f, copy, next, x, y
  <2>6. Own(copy, y, f)
    BY <2>3, <2>4 DEF Own
  <2>7. x.at = <<"Init", IF x.i = CHILDREN THEN 2 ELSE 1>>
    BY <2>2, <2>3
  <2>8. Families(pc, pg, [slept EXCEPT ![f] = 0], ended)
    BY <1>2, <1>3, <1>4, <1>5, <2>1, <2>3, <2>4, <2>6, <2>7, ForkKept
  <2>9. Turns(pcb, pc, f) /\ pc[f].state = "READY"
    BY <1>2, <2>1, <2>4 DEF Turns
  <2> HIDE DEF pc, pg
  <2>10. /\ Cpu(r, pc, EnQue(ready_que, f))
         /\ \A s \in States \ {"READY", "RUN"} : In(pc, s) = In(pcb, s) \ {f}
    BY <1>4, <2>1, <2>9, ReadyCpu
  <2>11. QueuesHold(pc, Tail(avail_que), video_mutex')
    <3>1. f \notin In(pcb, "SUSPEND")
      BY <2>1 DEF In
    <3>2. In(pc, "AVAIL") = In(pcb, "AVAIL") \ {f} /\ In(pc, "SUSPEND") = In(pcb, "SUSPEND")
      BY <2>10, <3>1 DEF States
    <3> QED
      BY <1>4, <2>1, <3>2 DEF QueuesHold
  <2>12. Families(pc, pg, slept', ended')
    BY <1>1, <2>5, <2>8
  <2> QED
    BY <1>1, <2>5, <2>10, <2>11, <2>12, DemoteStep
<1> QED
  BY <1>6, <1>7 DEF SysFork

\* The exit of a child has the time that it has slept for its code.
LEMMA ChildExit ==
  ASSUME FInv, NEW c \in Members, pcb[c].state # "AVAIL", pcb[c].ppid # IDLE
  PROVE  ExitCode(c) = slept[c] /\ slept[c] \in Codes /\ page[c].at[1] = "Child"
<1>1. Member(pcb, page, slept, ended, c) /\ page[c] \in Page
  BY PidFacts DEF FInv, Families
<1>2. page[c].at[1] = "Child" /\ page[c].bp = c
  BY <1>1 DEF Member, Own
<1>3. page[c].total = slept[c]
  BY <1>1, <1>2 DEF Member, IsChild
<1>4. ExitCode(c) = page[c].total
  BY <1>2 DEF ExitCode, Frame
<1> QED
  BY <1>1, <1>2, <1>3, <1>4 DEF Page

LEMMA ToldIs ==
  ASSUME FInv, NEW q \in Members, pcb[q].state # "AVAIL",
         NEW c \in Members, pcb[c].state # "AVAIL", pcb[c].ppid # IDLE
  PROVE  LET x == [page[q] EXCEPT !.exit_pid = c, !.exit_code = slept[c]]
         IN /\ Told(q, c) = [page EXCEPT ![q] = x]
            /\ x \in Page /\ Own(pcb[q], x, q) /\ x.at = page[q].at /\ x.total = page[q].total
            /\ x.i = page[q].i /\ x.exit_pid = c /\ x.exit_code = slept[c]
<1> DEFINE x == [page[q] EXCEPT !.exit_pid = c, !.exit_code = slept[c]]
<1>1. /\ Member(pcb, page, slept, ended, q) /\ page \in [Pids -> Page] /\ page[q] \in Page
      /\ q \in Pids /\ c \in Pids
  BY PidFacts DEF FInv, Families
<1>2. Own(pcb[q], page[q], q) /\ Frame(q) = q
  BY <1>1 DEF Member, Own, Frame
<1>3. ExitCode(c) = slept[c] /\ slept[c] \in Codes
  BY ChildExit
<1>4. Told(q, c) = [page EXCEPT ![q] = x]
  BY <1>1, <1>2, <1>3 DEF Told
<1>5. /\ x \in Page /\ x.at = page[q].at /\ x.total = page[q].total
      /\ x.i = page[q].i /\ x.exit_pid = c /\ x.exit_code = slept[c]
  BY <1>1, <1>3 DEF Page
<1>6. Own(pcb[q], x, q)
  BY <1>1, <1>2 DEF Page, Own
<1> QED
  BY <1>4, <1>5, <1>6

\* A process that exits wakes the parent that waits for it, or becomes a zombie.
LEMMA SysExitStep ==
  ASSUME FInv, SysExit
  PROVE  FInv'
<1> DEFINE r == run_pid
           parent == pcb[run_pid].ppid
<1>1. /\ run_pid # IDLE /\ Text[Place[1]][Place[2]] = "exit"
      /\ UNCHANGED <<video_mutex, slept>>
      /\ ended' = IF parent = IDLE THEN ended
                  ELSE [ended EXCEPT ![parent] = @ \cup {<<r, slept[r]>>}]
  BY DEF SysExit, Calls
<1>2. /\ page[r] \in Page /\ page \in [Pids -> Page]
      /\ slept \in [Pids -> Nat] /\ ended \in [Pids -> SUBSET (Pids \X Int)]
      /\ r \in Pids /\ r \in Members
      /\ pcb \in [Pids -> Pcb] /\ pcb[r] \in Pcb /\ pcb[r].state = "RUN"
      /\ Member(pcb, page, slept, ended, r)
  BY <1>1, CallerFacts
<1>3. /\ Cpu(r, pcb, ready_que) /\ QueuesHold(pcb, avail_que, video_mutex')
      /\ Families(pcb, page, slept, ended) /\ pcb[IDLE].state \in {"READY", "RUN"}
  BY <1>1 DEF FInv, Cpu
<1>4. parent \in Pids /\ (parent # IDLE <=> parent \in Members)
  BY <1>2 DEF Pcb, Members
<1>5. CASE /\ pcb[parent].state = "WAIT"
           /\ Leave([pcb EXCEPT ![parent].state = "READY", ![run_pid].state = "AVAIL"],
                    Told(parent, run_pid), EnQue(ready_que, parent), EnQue(avail_que, run_pid))
  <2> DEFINE x == [page[parent] EXCEPT !.exit_pid = r, !.exit_code = slept[r]]
             pcA == [pcb EXCEPT ![parent].state = "READY"]
             pc == [pcb EXCEPT ![parent].state = "READY", ![r].state = "AVAIL"]
             pg == [page EXCEPT ![parent] = x]
  <2>1. parent # IDLE /\ parent \in Members /\ parent # r /\ pcb[parent] \in Pcb
    BY <1>2, <1>3, <1>4, <1>5
  <2>2. /\ Told(parent, r) = pg
        /\ x \in Page /\ Own(pcb[parent], x, parent)
        /\ x.at = page[parent].at /\ x.total = page[parent].total
        /\ x.i = page[parent].i /\ x.exit_pid = r /\ x.exit_code = slept[r]
    <3> HIDE DEF parent
    <3>1. /\ parent \in Members /\ pcb[parent].state # "AVAIL"
          /\ r \in Members /\ pcb[r].state # "AVAIL" /\ pcb[r].ppid # IDLE
      BY <1>2, <1>5, <2>1 DEF parent
    <3> HIDE DEF r
    <3> QED
      BY <3>1, ToldIs
  <2>3. Leave(pc, pg, EnQue(ready_que, parent), EnQue(avail_que, r))
    BY <1>5, <2>2
  <2>4. pcb[r].ppid = parent /\ pcb[parent].state = "WAIT"
    BY <1>5
  <2>5. ended' = [ended EXCEPT ![parent] = @ \cup {<<r, slept[r]>>}]
    BY <1>1, <2>1
  <2>6. /\ Turns(pcb, pcA, parent) /\ pcA[parent].state = "READY"
        /\ Turns(pcA, pc, r) /\ pc[r].state = "AVAIL"
    <3> HIDE DEF parent
    <3> DEFINE y == [pcb[parent] EXCEPT !.state = "READY"]
               z == [pcb[r] EXCEPT !.state = "AVAIL"]
    <3>1. /\ y \in Pcb /\ y.state = "READY" /\ z \in Pcb /\ z.state = "AVAIL"
      BY <1>2, <2>1, PutState DEF States
    <3>2. pcA = [pcb EXCEPT ![parent] = y] /\ pc = [pcA EXCEPT ![r] = z]
      BY <1>2, <2>1
    <3> HIDE DEF y, z, pcA, pc
    <3>3. pcA \in [Pids -> Pcb]
      BY <1>2, <1>4, <3>1, <3>2
    <3> QED
      BY <1>2, <1>4, <2>1, <3>1, <3>2, <3>3 DEF Turns
  <2> HIDE DEF x, parent
  <2>7. page[parent].at = <<"Init", 4>> /\ page[parent].total = 0
    <3>1. Member(pcb, page, slept, ended, parent)
      BY <1>3, <2>1, <2>4 DEF Families
    <3>2. page[parent].at = <<"Init", 4>>
      BY <2>4, <3>1 DEF Member
    <3> QED
      BY <3>1, <3>2 DEF Member, IsInit
  <2>8. Families(pc, pg, slept', ended')
    <3>1. /\ page[parent].at[1] = "Init" /\ page[parent].at[2] \in {3, 4}
          /\ pcb[parent].state # "AVAIL" /\ pcb[r].state # "AVAIL"
          /\ x.at = <<"Init", 4>> /\ x.total = 0 /\ "READY" \in {"READY", "RUN"}
      BY <1>2, <2>2, <2>4, <2>7
    <3>2. Families(pc, pg, slept, [ended EXCEPT ![parent] = @ \cup {<<r, slept[r]>>}])
      BY <1>2, <1>3, <2>1, <2>2, <2>4, <3>1, ToldKept
    <3> QED
      BY <1>1, <2>5, <3>2
  <2> HIDE DEF pcA, pc, pg
  <2>9. /\ Cpu(r, pcA, EnQue(ready_que, parent))
        /\ \A s \in States \ {"READY", "RUN"} : In(pcA, s) = In(pcb, s) \ {parent}
    BY <1>3, <2>1, <2>4, <2>6, ReadyCpu
  <2>10. /\ Cpu(NONE, pc, EnQue(ready_que, parent))
         /\ r \notin In(pcA, "AVAIL") /\ In(pc, "AVAIL") = In(pcA, "AVAIL") \cup {r}
         /\ In(pc, "SUSPEND") = In(pcA, "SUSPEND")
    <3>1. "AVAIL" \in States \ {"READY", "RUN"} /\ "SUSPEND" \in States \ {"READY", "RUN", "AVAIL"}
      BY DEF States
    <3>2. /\ Cpu(NONE, pc, EnQue(ready_que, parent))
          /\ r \notin In(pcA, "AVAIL") /\ In(pc, "AVAIL") = In(pcA, "AVAIL") \cup {r}
          /\ \A s \in States \ {"READY", "RUN", "AVAIL"} : In(pc, s) = In(pcA, s)
      BY <1>2, <2>6, <2>9, <3>1, LeaveCpu
    <3> QED
      BY <3>1, <3>2
  <2>11. In(pcA, "AVAIL") = In(pcb, "AVAIL") /\ In(pcA, "SUSPEND") = In(pcb, "SUSPEND")
    <3>1. parent \notin In(pcb, "AVAIL") /\ parent \notin In(pcb, "SUSPEND")
      BY <2>4 DEF In
    <3> QED
      BY <2>9, <3>1 DEF States
  <2>12. QueuesHold(pc, EnQue(avail_que, r), video_mutex')
    <3>1. /\ avail_que \in Seq(Pids) /\ Holds(avail_que, In(pcb, "AVAIL"))
          /\ In(pcb, "AVAIL") \in SUBSET Members /\ r \notin In(pcb, "AVAIL")
      BY <1>3, <2>10, <2>11 DEF QueuesHold, In
    <3>2. EnQue(avail_que, r) \in Seq(Pids) /\ Holds(EnQue(avail_que, r), In(pcb, "AVAIL") \cup {r})
      BY <1>2, <3>1, EnQueMember
    <3> QED
      BY <1>3, <2>10, <2>11, <3>2 DEF QueuesHold
  <2> QED
    BY <2>3, <2>8, <2>10, <2>12, LeaveStep
<1>6. CASE /\ pcb[parent].state # "WAIT"
           /\ Leave([pcb EXCEPT ![run_pid].state = "ZOMBIE"], page, ready_que, avail_que)
  <2> DEFINE pc == [pcb EXCEPT ![r].state = "ZOMBIE"]
  <2>1. /\ Turns(pcb, pc, r) /\ pc[r].state = "ZOMBIE"
        /\ pc[r].ppid = pcb[r].ppid /\ pc[r].tf_p = pcb[r].tf_p
    <3> DEFINE x == [pcb[r] EXCEPT !.state = "ZOMBIE"]
    <3>1. /\ x \in Pcb /\ x.state = "ZOMBIE" /\ x.ppid = pcb[r].ppid /\ x.tf_p = pcb[r].tf_p
      BY <1>2, PutState DEF States
    <3>2. pc = [pcb EXCEPT ![r] = x]
      BY <1>2
    <3> HIDE DEF x, pc
    <3> QED
      BY <1>2, <3>1, <3>2 DEF Turns
  <2>2. Leave(pc, page, ready_que, avail_que)
    BY <1>6
  <2>3. Families(pc, page, slept', ended')
    <3>1. CASE parent # IDLE
      <4>1. page[r].at[1] = "Child"
        BY <1>2, <3>1 DEF Member
      <4>2. Families(pc, page, slept, [ended EXCEPT ![pcb[r].ppid] = @ \cup {<<r, slept[r]>>}])
        BY <1>2, <1>3, <4>1, ZombieKept
      <4> QED
        BY <1>1, <3>1, <4>2
    <3>2. CASE parent = IDLE
      <4> HIDE DEF pc
      <4>1. \A p \in Pids :
              /\ pc[p].ppid = pcb[p].ppid /\ pc[p].tf_p = pcb[p].tf_p
              /\ \A s \in {"AVAIL", "WAIT"} : pc[p].state = s <=> pcb[p].state = s
              /\ pcb[p].ppid # IDLE => (pc[p].state = "ZOMBIE" <=> pcb[p].state = "ZOMBIE")
        BY <1>2, <2>1, <3>2 DEF Turns
      <4>2. Families(pc, page, slept, ended)
        BY <1>3, <4>1, StatesKept
      <4> QED
        BY <1>1, <3>2, <4>2
    <3> QED
      BY <3>1, <3>2
  <2> HIDE DEF pc
  <2>4. /\ Cpu(NONE, pc, ready_que)
        /\ In(pc, "AVAIL") = In(pcb, "AVAIL") /\ In(pc, "SUSPEND") = In(pcb, "SUSPEND")
    <3>1. "ZOMBIE" \in States \ {"READY", "RUN"}
      BY DEF States
    <3>2. /\ Cpu(NONE, pc, ready_que)
          /\ \A s \in States \ {"READY", "RUN", "ZOMBIE"} : In(pc, s) = In(pcb, s)
      BY <1>2, <1>3, <2>1, <3>1, LeaveCpu
    <3> QED
      BY <3>2 DEF States
  <2>5. QueuesHold(pc, avail_que, video_mutex')
    BY <1>3, <2>4 DEF QueuesHold
  <2> QED
    BY <2>2, <2>3, <2>4, <2>5, LeaveStep
<1> QED
  BY <1>5, <1>6 DEF SysExit

\* An Init collects the least of its dead children, or waits for one.
LEMMA SysWaitStep ==
  ASSUME FInv, SysWait
  PROVE  FInv'
<1> DEFINE r == run_pid
<1>1. /\ run_pid # IDLE /\ Text[Place[1]][Place[2]] = "wait"
      /\ UNCHANGED <<video_mutex, history>>
      /\ IF Zombies(run_pid) = {}
         THEN Leave([pcb EXCEPT ![run_pid].state = "WAIT"], Stored(Variable), ready_que, avail_que)
         ELSE \E c \in Zombies(run_pid) :
                Demote([pcb EXCEPT ![c].state = "AVAIL"],
                       [Told(run_pid, c) EXCEPT ![run_pid].at = Onward],
                       ready_que, EnQue(avail_que, c))
  BY DEF SysWait, Calls
<1>2. /\ Place \in Places /\ Place = page[r].at /\ Variable = page[r]
      /\ page[r] \in Page /\ page \in [Pids -> Page]
      /\ slept \in [Pids -> Nat] /\ ended \in [Pids -> SUBSET (Pids \X Int)]
      /\ r \in Pids /\ r \in Members
      /\ pcb \in [Pids -> Pcb] /\ pcb[r] \in Pcb /\ pcb[r].state = "RUN"
  BY <1>1, CallerFacts
<1>3. /\ Cpu(r, pcb, ready_que) /\ QueuesHold(pcb, avail_que, video_mutex')
      /\ Families(pcb, page, slept, ended) /\ pcb[IDLE].state \in {"READY", "RUN"}
      /\ slept' = slept /\ ended' = ended
  BY <1>1 DEF FInv, Cpu, history
<1>4. Place = <<"Init", 3>> /\ page[r].at = <<"Init", 3>>
  BY <1>1, <1>2, Sites
<1>5. Onward = <<"Init", 4>> /\ <<"Init", 4>> \in Places
  <2>1. Place = <<"Init", 3>> => Onward = <<"Init", 4>>
    BY <1>1, <1>4, OnwardIs
  <2> QED
    BY <1>4, <2>1 DEF Places
<1>6. /\ page[r].total = 0
      /\ Waits(3, FALSE, page[r], Children(pcb, r), ended[r], Exits(pcb, slept, r))
  <2>1. IsInit(3, FALSE, page[r], Children(pcb, r), ended[r], Exits(pcb, slept, r))
    <3>1. Place[1] = "Init" /\ Place[2] = 3
      BY <1>4
    <3> QED
      BY <1>1, <3>1, Accounts
  <2> DEFINE kin == Children(pcb, r)
             d == Exits(pcb, slept, r)
             n == 3
  <2>2. n # 1 /\ n # 2 /\ n \notin 4..10 /\ n \notin 11..12
    OBVIOUS
  <2> HIDE DEF kin, d, n
  <2>3. /\ ~Forks(n, page[r], kin, ended[r], d) /\ ~Forked(n, page[r], kin, ended[r], d)
        /\ ~Reports(n, FALSE, page[r], kin, ended[r], d) /\ ~Done(n, kin, ended[r])
    BY <2>2 DEF Forks, Forked, Reports, Done
  <2>4. IsInit(n, FALSE, page[r], kin, ended[r], d)
    BY <2>1 DEF kin, d, n
  <2>5. page[r].total = 0 /\ Waits(n, FALSE, page[r], kin, ended[r], d)
    BY <2>3, <2>4 DEF IsInit
  <2> QED
    BY <2>5 DEF kin, d, n
<1>7. CASE Leave([pcb EXCEPT ![run_pid].state = "WAIT"], Stored(Variable), ready_que, avail_que)
  <2> DEFINE pc == [pcb EXCEPT ![r].state = "WAIT"]
             x == Going(Variable)
  <2>1. /\ Stored(Variable) = [page EXCEPT ![r] = x]
        /\ x \in Page /\ Own(pcb[r], x, r) /\ x.at = <<"Init", 4>>
        /\ x.i = page[r].i /\ x.total = 0
    <3>1. /\ Variable.i \in 0..(CHILDREN + COLS) /\ Variable.period \in 0..4
          /\ Variable.total \in Codes
      BY <1>2 DEF Page
    <3>2. Onward \in Places
      BY <1>5
    <3> HIDE DEF x
    <3> QED
      BY <1>1, <1>2, <1>5, <1>6, <3>1, <3>2, GoingIs DEF x
  <2>2. Leave(pc, [page EXCEPT ![r] = x], ready_que, avail_que)
    BY <1>7, <2>1
  <2> HIDE DEF x
  <2>3. Families(pc, [page EXCEPT ![r] = x], slept', ended')
    BY <1>2, <1>3, <1>4, <2>1, WaitKept
  <2>4. Turns(pcb, pc, r) /\ pc[r].state = "WAIT"
    <3> DEFINE y == [pcb[r] EXCEPT !.state = "WAIT"]
    <3>1. y \in Pcb /\ y.state = "WAIT"
      BY <1>2, PutState DEF States
    <3>2. pc = [pcb EXCEPT ![r] = y]
      BY <1>2
    <3> HIDE DEF y, pc
    <3> QED
      BY <1>2, <3>1, <3>2 DEF Turns
  <2> HIDE DEF pc
  <2>5. /\ Cpu(NONE, pc, ready_que)
        /\ In(pc, "AVAIL") = In(pcb, "AVAIL") /\ In(pc, "SUSPEND") = In(pcb, "SUSPEND")
    <3>1. "WAIT" \in States \ {"READY", "RUN"}
      BY DEF States
    <3>2. /\ Cpu(NONE, pc, ready_que)
          /\ \A s \in States \ {"READY", "RUN", "WAIT"} : In(pc, s) = In(pcb, s)
      BY <1>2, <1>3, <2>4, <3>1, LeaveCpu
    <3> QED
      BY <3>2 DEF States
  <2>6. QueuesHold(pc, avail_que, video_mutex')
    BY <1>3, <2>5 DEF QueuesHold
  <2> QED
    BY <2>2, <2>3, <2>5, <2>6, LeaveStep
<1>8. ASSUME NEW c \in Zombies(run_pid),
             Demote([pcb EXCEPT ![c].state = "AVAIL"],
                    [Told(run_pid, c) EXCEPT ![run_pid].at = Onward],
                    ready_que, EnQue(avail_que, c))
      PROVE  FInv'
  <2> DEFINE x0 == [page[r] EXCEPT !.exit_pid = c, !.exit_code = slept[c]]
             x == [x0 EXCEPT !.at = <<"Init", 4>>]
             pc == [pcb EXCEPT ![c].state = "AVAIL"]
  <2>1. /\ c \in Pids /\ c \in Members /\ pcb[c].state = "ZOMBIE" /\ pcb[c].ppid = r /\ c # r
        /\ pcb[c] \in Pcb
    BY <1>2, <1>3, <1>8 DEF Zombies, Members
  <2>2. /\ Told(r, c) = [page EXCEPT ![r] = x0]
        /\ x0 \in Page /\ Own(pcb[r], x0, r) /\ x0.total = page[r].total
        /\ x0.i = page[r].i /\ x0.exit_pid = c /\ x0.exit_code = slept[c]
    <3>1. /\ r \in Members /\ pcb[r].state # "AVAIL"
          /\ c \in Members /\ pcb[c].state # "AVAIL" /\ pcb[c].ppid # IDLE
      BY <1>1, <1>2, <2>1
    <3> HIDE DEF r
    <3> QED
      BY <3>1, ToldIs
  <2> HIDE DEF x0
  <2>3. /\ x \in Page /\ x.total = 0 /\ x.i = page[r].i /\ x.at = <<"Init", 4>>
        /\ x.exit_pid = c /\ x.exit_code = slept[c]
    BY <1>5, <1>6, <2>2 DEF Page
  <2>4. Own(pcb[r], x, r)
    BY <2>2 DEF Page, Own
  <2>5. [Told(r, c) EXCEPT ![r].at = Onward] = [page EXCEPT ![r] = x]
    BY <1>2, <1>5, <2>2
  <2>6. Demote(pc, [page EXCEPT ![r] = x], ready_que, EnQue(avail_que, c))
    BY <1>8, <2>5
  <2>7. [ended EXCEPT ![r] = @ \cup {<<c, slept[c]>>}] = ended'
    <3>1. c \in Dead(pcb, r)
      BY <2>1 DEF Dead, Children
    <3>2. <<c, slept[c]>> \in ended[r]
      BY <1>6, <3>1 DEF Waits, Exits
    <3>3. ended[r] \cup {<<c, slept[c]>>} = ended[r]
      BY <3>2
    <3> QED
      BY <1>2, <1>3, <3>3
  <2>8. pc = [pcb EXCEPT ![r].state = "RUN", ![c].state = "AVAIL"]
    <3>1. [pcb EXCEPT ![r].state = "RUN"] = pcb
      <4>1. [pcb[r] EXCEPT !.state = "RUN"] = pcb[r]
        BY <1>2 DEF Pcb
      <4>2. [pcb EXCEPT ![r].state = "RUN"] = [pcb EXCEPT ![r] = [pcb[r] EXCEPT !.state = "RUN"]]
        BY <1>2
      <4> QED
        BY <1>2, <4>1, <4>2
    <3> QED
      BY <3>1
  <2> HIDE DEF x
  <2>9. Families(pc, [page EXCEPT ![r] = x], slept', ended')
    <3>1. /\ page[r].at[1] = "Init" /\ page[r].at[2] = 3 /\ page[r].at[2] \in {3, 4}
          /\ pcb[r].state # "AVAIL" /\ pcb[c].state # "AVAIL" /\ "RUN" \in {"READY", "RUN"}
      BY <1>2, <1>4, <2>1
    <3>2. Families([pcb EXCEPT ![r].state = "RUN", ![c].state = "AVAIL"],
                   [page EXCEPT ![r] = x], slept,
                   [ended EXCEPT ![r] = @ \cup {<<c, slept[c]>>}])
      BY <1>2, <1>3, <2>1, <2>3, <2>4, <3>1, ToldKept
    <3> QED
      BY <1>3, <2>7, <2>8, <3>2
  <2>10. Turns(pcb, pc, c) /\ pc[c].state = "AVAIL"
    <3> DEFINE y == [pcb[c] EXCEPT !.state = "AVAIL"]
    <3>1. y \in Pcb /\ y.state = "AVAIL"
      BY <2>1, PutState DEF States
    <3>2. pc = [pcb EXCEPT ![c] = y]
      BY <1>2, <2>1
    <3> HIDE DEF y, pc
    <3> QED
      BY <1>2, <2>1, <3>1, <3>2 DEF Turns
  <2> HIDE DEF pc
  <2>11. /\ Cpu(r, pc, ready_que)
         /\ c \notin In(pcb, "AVAIL") /\ In(pc, "AVAIL") = In(pcb, "AVAIL") \cup {c}
         /\ In(pc, "SUSPEND") = In(pcb, "SUSPEND")
    <3>1. /\ "AVAIL" \in States \ {"READY", "RUN", "ZOMBIE"}
          /\ "SUSPEND" \in States \ {"AVAIL", "ZOMBIE"}
          /\ "ZOMBIE" \notin {"READY", "RUN"}
      BY DEF States
    <3>2. /\ Cpu(r, pc, ready_que)
          /\ c \notin In(pcb, "AVAIL") /\ In(pc, "AVAIL") = In(pcb, "AVAIL") \cup {c}
          /\ \A s \in States \ {"AVAIL", "ZOMBIE"} : In(pc, s) = In(pcb, s)
      BY <1>3, <2>1, <2>10, <3>1, MoveCpu
    <3> QED
      BY <3>1, <3>2
  <2>12. QueuesHold(pc, EnQue(avail_que, c), video_mutex')
    <3>1. /\ avail_que \in Seq(Pids) /\ Holds(avail_que, In(pcb, "AVAIL"))
          /\ In(pcb, "AVAIL") \in SUBSET Members /\ c \notin In(pcb, "AVAIL")
      BY <1>3, <2>11 DEF QueuesHold, In
    <3>2. EnQue(avail_que, c) \in Seq(Pids) /\ Holds(EnQue(avail_que, c), In(pcb, "AVAIL") \cup {c})
      BY <2>1, <3>1, EnQueMember
    <3> QED
      BY <1>3, <2>11, <3>2 DEF QueuesHold
  <2> QED
    BY <1>1, <2>6, <2>9, <2>11, <2>12, DemoteStep
<1> QED
  BY <1>1, <1>7, <1>8

\* The pcbs behind a timer tick, and the processes it makes ready.
Woken == {p \in Pids : pcb[p].state = "SLEEP" /\ pcb[p].wake_in = 1}
Ticked ==
  [p \in Pids |-> [pcb[p] EXCEPT !.state = IF p \in Woken THEN "READY" ELSE @,
                                 !.wake_in = IF @ = 0 THEN 0 ELSE @ - 1]]

LEMMA TickIs ==
  ASSUME FInv
  PROVE  LET pc == Ticked
             woken == Woken
         IN /\ pc \in [Pids -> Pcb] /\ pc[IDLE].state = pcb[IDLE].state
            /\ woken \subseteq In(pcb, "SLEEP")
            /\ \A p \in Pids :
                 /\ pc[p].ppid = pcb[p].ppid /\ pc[p].tf_p = pcb[p].tf_p
                 /\ p \notin woken => pc[p].state = pcb[p].state
                 /\ p \in woken => pc[p].state = "READY"
<1> DEFINE pc == Ticked
           woken == Woken
<1>1. pcb \in [Pids -> Pcb] /\ pcb[IDLE].state \in {"READY", "RUN"}
  BY DEF FInv, Cpu
<1>2. woken \subseteq In(pcb, "SLEEP") /\ IDLE \notin woken
  BY <1>1, PidFacts DEF In, Members, Woken
<1>3. ASSUME NEW p \in Pids
      PROVE  /\ pc[p] \in Pcb /\ pc[p].ppid = pcb[p].ppid /\ pc[p].tf_p = pcb[p].tf_p
             /\ p \notin woken => pc[p].state = pcb[p].state
             /\ p \in woken => pc[p].state = "READY"
  <2> DEFINE s == IF p \in woken THEN "READY" ELSE pcb[p].state
             w == IF pcb[p].wake_in = 0 THEN 0 ELSE pcb[p].wake_in - 1
  <2>1. pcb[p] \in Pcb
    BY <1>1
  <2>2. s \in States /\ w \in 0..(4 * NAP)
    <3>1. s \in States
      BY <2>1 DEF Pcb, States
    <3>2. pcb[p].wake_in \in 0..(4 * NAP)
      BY <2>1 DEF Pcb
    <3>3. 4 * NAP \in Nat
      BY PidFacts
    <3>4. w \in 0..(4 * NAP)
      BY <3>2, <3>3
    <3> QED
      BY <3>1, <3>4
  <2>3. pc[p] = [pcb[p] EXCEPT !.state = s, !.wake_in = w]
    BY <2>1 DEF Pcb, Ticked
  <2> HIDE DEF pc, s, w
  <2>4. /\ pc[p] \in Pcb /\ pc[p].ppid = pcb[p].ppid /\ pc[p].tf_p = pcb[p].tf_p
        /\ pc[p].state = s
    BY <2>1, <2>2, <2>3 DEF Pcb
  <2> QED
    BY <2>4 DEF s
<1>4. pc \in [Pids -> Pcb]
  <2>1. pc = [p \in Pids |-> pc[p]]
    BY DEF Ticked
  <2> QED
    BY <1>3, <2>1
<1> QED
  BY <1>2, <1>3, <1>4, PidFacts

\* A tick of the timer makes the processes ready that it wakes.
LEMMA TimerStep ==
  ASSUME FInv, TimerSR
  PROVE  FInv'
<1> DEFINE woken == Woken
           pc == Ticked
<1>1. /\ run_pid # IDLE => time_count < BURST
      /\ UNCHANGED <<video_mutex, history>>
  BY DEF TimerSR
<1>2. PICK batch \in InOrder(woken) :
        LET rq == EnQueAll(ready_que, batch)
        IN IF run_pid = IDLE THEN Dispatch(IDLE, pc, page, rq, avail_que, 0)
           ELSE IF time_count + 1 = TIME_MAX THEN Demote(pc, page, rq, avail_que)
           ELSE Dispatch(run_pid, pc, page, rq, avail_que, time_count + 1)
  BY DEF TimerSR, Woken, Ticked
<1>3. /\ Cpu(run_pid, pcb, ready_que) /\ QueuesHold(pcb, avail_que, video_mutex')
      /\ Families(pcb, page, slept', ended')
      /\ run_pid \in Pids /\ time_count \in 0..BURST /\ inits \in 1..INITS
      /\ pcb \in [Pids -> Pcb] /\ pcb[IDLE].state \in {"READY", "RUN"}
      /\ ready_que \in Seq(Pids) /\ Holds(ready_que, In(pcb, "READY"))
      /\ In(pcb, "RUN") = {run_pid} \cap Members
  BY <1>1 DEF FInv, Cpu, history
<1>4. /\ pc \in [Pids -> Pcb] /\ pc[IDLE].state = pcb[IDLE].state
      /\ woken \subseteq In(pcb, "SLEEP")
      /\ \A p \in Pids :
           /\ pc[p].ppid = pcb[p].ppid /\ pc[p].tf_p = pcb[p].tf_p
           /\ p \notin woken => pc[p].state = pcb[p].state
           /\ p \in woken => pc[p].state = "READY"
  BY TickIs
<1> HIDE DEF woken, pc
<1>5. woken \subseteq Members /\ IsFiniteSet(woken) /\ woken \subseteq Int
  <2>1. woken \subseteq Members
    BY <1>4 DEF In
  <2>2. IsFiniteSet(Members) /\ Members \subseteq Int
    BY PidFacts
  <2>3. IsFiniteSet(woken)
    BY <2>1, <2>2, FS_Subset
  <2> QED
    BY <2>1, <2>2, <2>3
<1>6. batch \in Seq(Pids) /\ Holds(batch, woken)
  <2>1. batch \in Seq(woken) /\ Holds(batch, woken)
    BY <1>2, <1>5, InOrderHolds
  <2>2. woken \subseteq Pids
    BY <1>5, PidFacts
  <2> QED
    BY <2>1, <2>2
<1>7. /\ In(pc, "READY") = In(pcb, "READY") \cup woken
      /\ In(pc, "RUN") = In(pcb, "RUN") /\ In(pc, "AVAIL") = In(pcb, "AVAIL")
      /\ In(pc, "SUSPEND") = In(pcb, "SUSPEND") /\ In(pcb, "READY") \cap woken = {}
  <2>1. /\ woken \subseteq Members /\ \A p \in woken : pcb[p].state = "SLEEP"
        /\ \A p \in Members : /\ p \notin woken => pc[p].state = pcb[p].state
                              /\ p \in woken => pc[p].state = "READY"
    BY <1>4, <1>5, PidFacts DEF In
  <2> QED
    BY <2>1 DEF In
<1> DEFINE rq == EnQueAll(ready_que, batch)
<1>8. rq \in Seq(Pids) /\ Holds(rq, In(pc, "READY"))
  <2>1. In(pcb, "READY") \cup woken \subseteq Members
    BY <1>5 DEF In
  <2>2. rq \in Seq(Pids) /\ Holds(rq, In(pcb, "READY") \cup woken)
    BY <1>3, <1>6, <1>7, <2>1, PidFacts, EnQueAllHolds
  <2> QED
    BY <1>7, <2>2
<1>9. Cpu(run_pid, pc, rq)
  <2>1. pc[IDLE].ppid = IDLE
    BY <1>4, PidFacts DEF FInv, Cpu
  <2> QED
    BY <1>3, <1>4, <1>7, <1>8, <2>1 DEF Cpu
<1>10. QueuesHold(pc, avail_que, video_mutex')
  BY <1>3, <1>7 DEF QueuesHold
<1>11. Families(pc, page, slept', ended')
  <2>1. \A p \in Pids :
          /\ pc[p].ppid = pcb[p].ppid /\ pc[p].tf_p = pcb[p].tf_p
          /\ \A s \in {"AVAIL", "WAIT"} : pc[p].state = s <=> pcb[p].state = s
          /\ pcb[p].ppid # IDLE => (pc[p].state = "ZOMBIE" <=> pcb[p].state = "ZOMBIE")
    <3>1. \A p \in woken : pcb[p].state = "SLEEP"
      BY <1>4 DEF In
    <3> QED
      BY <1>4, <3>1
  <2> QED
    BY <1>3, <2>1, StatesKept
<1>12. CASE run_pid = IDLE
  <2>1. Dispatch(run_pid, pc, page, rq, avail_que, 0) /\ 0 \in 0..BURST
    BY <1>2, <1>12, FamilyAssumption
  <2> HIDE DEF rq
  <2> QED
    BY <1>3, <1>9, <1>10, <1>11, <2>1, DispatchLemma
<1>13. CASE run_pid # IDLE
  <2>1. time_count + 1 # TIME_MAX /\ time_count + 1 \in 0..BURST
    BY <1>1, <1>3, <1>13, FamilyAssumption
  <2>2. Dispatch(run_pid, pc, page, rq, avail_que, time_count + 1)
    BY <1>2, <1>13, <2>1
  <2> DEFINE ticks == time_count + 1
  <2>3. ticks \in 0..BURST /\ Dispatch(run_pid, pc, page, rq, avail_que, ticks)
    BY <2>1, <2>2
  <2> HIDE DEF rq, ticks
  <2> QED
    BY <1>3, <1>9, <1>10, <1>11, <2>3, DispatchLemma
<1> QED
  BY <1>12, <1>13

LEMMA FamilyStep == FInv /\ [FamilyNext]_familyVars => FInv'
<1> SUFFICES ASSUME FInv, [FamilyNext]_familyVars PROVE FInv'
  OBVIOUS
<1>1. CASE TimerSR
  BY <1>1, TimerStep
<1>2. CASE SysGetPid
  BY <1>2, SysGetPidStep
<1>3. CASE SysWriteText
  BY <1>3, SysWriteTextStep
<1>4. CASE SysSetCursor
  BY <1>4, SysSetCursorStep
<1>5. CASE SysGetRand
  BY <1>5, SysGetRandStep
<1>6. CASE SysSleep
  BY <1>6, SysSleepStep
<1>7. CASE SysLockMutex
  BY <1>7, SysLockMutexStep
<1>8. CASE SysUnlockMutex
  BY <1>8, SysUnlockMutexStep
<1>9. CASE SysFork
  BY <1>9, SysForkStep
<1>10. CASE SysExit
  BY <1>10, SysExitStep
<1>11. CASE SysWait
  BY <1>11, SysWaitStep
<1>12. CASE UNCHANGED familyVars
  BY <1>12 DEF familyVars, sched, memory, history, FInv
<1> QED
  BY <1>1, <1>2, <1>3, <1>4, <1>5, <1>6, <1>7, <1>8, <1>9, <1>10, <1>11, <1>12 DEF FamilyNext, Runs

-----------------------------------------------------------------------------
LEMMA TypeOKHolds == FInv => FamilyTypeOK
<1> SUFFICES ASSUME FInv PROVE FamilyTypeOK
  OBVIOUS
<1>1. /\ run_pid \in Pids /\ time_count \in 0..BURST /\ inits \in 1..INITS
      /\ pcb \in [Pids -> Pcb] /\ page \in [Pids -> Page]
      /\ Own(pcb[IDLE], page[IDLE], IDLE)
  BY DEF FInv, Cpu, Families
<1>2. ASSUME NEW p \in Pids
      PROVE  /\ pcb[p].state \in {"AVAIL", "READY", "RUN", "SLEEP", "SUSPEND", "WAIT", "ZOMBIE"}
             /\ pcb[p].ppid \in Pids /\ pcb[p].wake_in \in 0..(4 * NAP)
             /\ page[p].at[2] \in DOMAIN Text[page[p].at[1]]
             /\ page[p].i \in 0..(CHILDREN + COLS) /\ page[p].total \in Codes
             /\ page[p].exit_code \in Codes \cup {NONE}
  <2>1. pcb[p] \in Pcb /\ page[p] \in Page
    BY <1>1
  <2>2. page[p].at \in Places /\ page[p].i \in 0..(CHILDREN + COLS) /\ page[p].total \in Codes
        /\ page[p].exit_code \in Codes \cup {NONE}
    BY <2>1 DEF Page
  <2>3. page[p].at[2] \in DOMAIN Text[page[p].at[1]]
    BY <2>2, Sites
  <2>4. /\ pcb[p].state \in {"AVAIL", "READY", "RUN", "SLEEP", "SUSPEND", "WAIT", "ZOMBIE"}
        /\ pcb[p].ppid \in Pids /\ pcb[p].wake_in \in 0..(4 * NAP)
    BY <2>1 DEF Pcb, States
  <2> QED
    BY <2>2, <2>3, <2>4
<1>3. LET queued == ready_que \o avail_que \o video_mutex.suspend_que
      IN IsInjective(queued) /\ Range(queued) \subseteq Pids
  <2> DEFINE q == video_mutex.suspend_que
             R == In(pcb, "READY")
             A == In(pcb, "AVAIL")
             S == In(pcb, "SUSPEND")
  <2>1. /\ ready_que \in Seq(Pids) /\ Holds(ready_que, R)
        /\ avail_que \in Seq(Pids) /\ Holds(avail_que, A) /\ q \in Seq(Pids) /\ Holds(q, S)
    BY DEF FInv, Cpu, QueuesHold
  <2>2. R \cap A = {} /\ (R \cup A) \cap S = {} /\ (R \cup A) \cup S \subseteq Pids
    BY PidFacts DEF In
  <2> HIDE DEF q, R, A, S
  <2>3. ready_que \o avail_que \in Seq(Pids) /\ Holds(ready_que \o avail_que, R \cup A)
    BY <2>1, <2>2, HoldsConcat
  <2>4. Holds((ready_que \o avail_que) \o q, (R \cup A) \cup S)
    BY <2>1, <2>2, <2>3, HoldsConcat
  <2> QED
    BY <2>2, <2>4 DEF Holds, q
<1>4. ASSUME NEW p \in Living
      PROVE  {pcb[p].tf_p, page[p].eip, page[p].ebp, page[p].bp, page[p].ret} = {p}
  <2>1. p \in Pids /\ pcb[p].state # "AVAIL"
    BY DEF Living
  <2>2. p \in Members => Own(pcb[p], page[p], p)
    BY <2>1 DEF FInv, Families, Member
  <2>3. Own(pcb[p], page[p], p)
    BY <1>1, <2>1, <2>2 DEF Members
  <2> QED
    BY <2>3 DEF Own
<1> QED
  BY <1>1, <1>2, <1>3, <1>4 DEF FamilyTypeOK

LEMMA ReportsHold == FInv => ReportsAreRight
<1> SUFFICES ASSUME FInv, NEW p \in Living
             PROVE  /\ pcb[p].state # "WAIT" /\ page[p].at \in {<<"Init", n>> : n \in 4..10} =>
                         <<page[p].exit_pid, page[p].exit_code>> \in ended[p]
                    /\ page[p].at \in {<<"Init", n>> : n \in 11..12} =>
                         /\ ended[p] = {}
                         /\ \A c \in Pids : pcb[c].ppid = p => pcb[c].state = "AVAIL"
  BY DEF ReportsAreRight
<1>1. p \in Pids /\ pcb[p].state # "AVAIL"
  BY DEF Living
<1>2. page[IDLE].at = <<"Init", 1>> /\ pcb[IDLE].ppid = IDLE
  BY DEF FInv, Families, Cpu
<1> DEFINE kin == Children(pcb, p)
           d == Exits(pcb, slept, p)
           w == pcb[p].state = "WAIT"
<1>3. ASSUME NEW n \in 4..12, page[p].at = <<"Init", n>>
      PROVE  p \in Members /\ IsInit(n, w, page[p], kin, ended[p], d)
  <2>1. page[p].at[1] = "Init" /\ page[p].at[2] = n /\ n # 1
    BY <1>3
  <2>2. p # IDLE
    BY <1>2, <2>1
  <2>3. p \in Members
    BY <1>1, <2>2 DEF Members
  <2>4. Member(pcb, page, slept, ended, p)
    BY <1>1, <2>3 DEF FInv, Families
  <2> QED
    BY <2>1, <2>3, <2>4 DEF Member
<1>4. ASSUME ~w, NEW n \in 4..10, page[p].at = <<"Init", n>>
      PROVE  <<page[p].exit_pid, page[p].exit_code>> \in ended[p]
  <2>1. n \in 4..12
    OBVIOUS
  <2>2. IsInit(n, w, page[p], kin, ended[p], d)
    BY <1>3, <1>4, <2>1
  <2> HIDE DEF kin, d, w
  <2>3. Reports(n, w, page[p], kin, ended[p], d)
    BY <1>4, <2>2 DEF IsInit, Forks, Forked, Waits, Done
  <2> QED
    BY <2>3 DEF Reports
<1>5. ASSUME NEW n \in 11..12, page[p].at = <<"Init", n>>
      PROVE  /\ ended[p] = {}
             /\ \A c \in Pids : pcb[c].ppid = p => pcb[c].state = "AVAIL"
  <2>1. n \in 4..12
    OBVIOUS
  <2>2. p \in Members /\ IsInit(n, w, page[p], kin, ended[p], d)
    BY <1>3, <1>5, <2>1
  <2>3. Done(n, kin, ended[p])
    <3> HIDE DEF kin, d, w
    <3> QED
      BY <1>5, <2>2 DEF IsInit, Forks, Forked, Waits, Reports
  <2>4. ended[p] = {} /\ kin = {}
    BY <2>3 DEF Done
  <2>5. \A c \in Members : pcb[c].ppid = p => pcb[c].state = "AVAIL"
    BY <2>4 DEF Children
  <2> QED
    BY <1>2, <2>2, <2>4, <2>5 DEF Members
<1> QED
  BY <1>4, <1>5

\* In every family no process is in two queues, and every pointer of a living
\* process points into its own page.
THEOREM FamilyTypeCorrect == FamilySpec => []FamilyTypeOK
<1>1. FamilySpec => []FInv
  BY FamilyInitHolds, FamilyStep, PTL DEF FamilySpec
<1> QED
  BY <1>1, TypeOKHolds, PTL

\* An Init reports the exits of its own children, each with the time that child has
\* slept, and when it has done its loop it has reported them all.
THEOREM FamilyReportsCorrect == FamilySpec => []ReportsAreRight
<1>1. FamilySpec => []FInv
  BY FamilyInitHolds, FamilyStep, PTL DEF FamilySpec
<1> QED
  BY <1>1, ReportsHold, PTL
=============================================================================
