---------------------------- MODULE KeyboardProofs ----------------------------
(***************************************************************************)
(* For every length of a string, capacity of kb.buffer, set of letters and *)
(* number of keys: what the polling driver of Keyboard.tla promises.  The  *)
(* order of the keys is inductive only together with where Login is: a key *)
(* goes past kb.buffer into its trapframe while it is in kb.wait_que, and  *)
(* SysRead puts it there only with kb.buffer empty.  The verdict needs to  *)
(* know from which base pointer each string was filled (Spelled).          *)
(*                                                                         *)
(* PolledLemma takes the tables a service leaves through KBSR and          *)
(* Scheduler, the common end of every entry of the kernel.                 *)
(***************************************************************************)
EXTENDS Keyboard, QueueProofs

Cells == Keys \cup {NUL}
Tables == [buffer : Seq(Keys), wait_que : Seq({Login})]

\* Where Login is, with the CPU at rp (NONE between a service and Scheduler).
Running(rp, st, rq, k) == rp = Login /\ st = "RUN" /\ rq = << >> /\ k.wait_que = << >>
Ready(rp, st, rq, k) ==
  rp \in {NONE, IDLE} /\ st = "READY" /\ rq = <<Login>> /\ k.wait_que = << >>
Waits(rp, st, rq, k) ==
  /\ rp \in {NONE, IDLE} /\ st = "IO_WAIT" /\ rq = << >> /\ k.wait_que = <<Login>>
  /\ k.buffer = << >>

Placed(rp, st, rq, k) == Running(rp, st, rq, k) \/ Ready(rp, st, rq, k) \/ Waits(rp, st, rq, k)

Array == [0..(STR_MAX - 1) -> Letters \cup {NUL, JUNK}]

Machine ==
  /\ run_pid \in {IDLE, Login} /\ kb \in Tables /\ Len(kb.buffer) <= QUE_MAX
  /\ ebx \in Cells /\ cons \in Seq(Keys)
  /\ Placed(run_pid, state, ready_que, kb)

InRead == {"read", "store", "echo"}

Program ==
  /\ at \in InRead \cup {"prompt", "verdict"} /\ reading \in Lines
  /\ ebp \in Frames /\ str \in Frames /\ kept \in BOOLEAN
  /\ index \in 0..(STR_MAX - 1) /\ (at \in InRead => index # STR_MAX - 1)
  /\ ch \in Keys \cup {JUNK} /\ (at = "echo" => ch \in Keys)
  /\ string \in [Frames -> [Lines -> Array]]
  /\ shown \in {"none", "failed", "sucessful"}

\* The array a begins with the keys of s.
Begun(a, s) == \A i \in 1..Len(s) : a[i - 1] = s[i]

\* The lines, and the arrays that hold them after the first verdict.
Spelled ==
  /\ line \in [Lines -> Seq(Letters)] /\ \A l \in Lines : Len(line[l]) <= STR_MAX - 1
  /\ at \in {"echo", "verdict"} \/ shown # "none" => ebp = "zero"
  /\ at = "verdict" => reading = "passwd"
  /\ at \in InRead => index = Len(line[reading])
  /\ shown = "none" =>
       /\ \A i \in 0..(STR_MAX - 1) : string["zero"]["login"][i] = JUNK
       /\ reading = "login" /\ at = "prompt" => ebp = "own"
       /\ reading = "login" /\ at \in InRead => str = "own"
  /\ shown # "none" /\ kept =>
       /\ at \in InRead => str = "zero" /\ Begun(string["zero"][reading], line[reading])
       /\ reading = "passwd" => Spells(string["zero"]["login"], line["login"])
       /\ at = "verdict" => Spells(string["zero"]["passwd"], line["passwd"])

History ==
  /\ typed \in Seq(Cells) /\ taken \in Seq(Cells)
  /\ state = "IO_WAIT" => at = "store"
  /\ at = "store" /\ state # "IO_WAIT" => ebx \in Keys
  /\ KeysInOrder

IInv == Machine /\ Program /\ Spelled /\ History

-----------------------------------------------------------------------------
LEMMA Constants ==
  /\ QUE_MAX \in Nat \ {0} /\ STR_MAX \in Nat \ {0, 1} /\ KEY_MAX \in Nat
  /\ CR \in Keys /\ NUL \notin Keys /\ NUL # CR /\ Keys \subseteq Cells
  /\ Keys \ {CR} \subseteq Letters /\ JUNK \notin Letters /\ NUL \notin Letters /\ NUL # JUNK /\ NUL \in Cells
  /\ IDLE = 0 /\ Login = 1 /\ NONE = -1
BY KeyboardAssumption DEF Keys, Cells, CR, NUL, JUNK, IDLE, Login, NONE

\* Login is queued alone.
LEMMA LoginQueues ==
  /\ << >> \in Seq({Login}) /\ <<Login>> \in Seq({Login})
  /\ EnQue(<< >>, Login) = <<Login>> /\ <<Login>> # << >>
  /\ Head(<<Login>>) = Login /\ AfterDeQue(<<Login>>) = << >>
<1>1. << >> \in Seq({Login}) /\ Len(<< >>) = 0
  BY EmptySeq
<1>2. EnQue(<< >>, Login) = Append(<< >>, Login)
  BY <1>1, Constants DEF EnQue, QueFull
<1>3. <<Login>> \in Seq({Login}) /\ Append(<< >>, Login) = <<Login>> /\ <<Login>> # << >>
  OBVIOUS
<1>4. Head(<<Login>>) = Login /\ Tail(<<Login>>) = << >>
  OBVIOUS
<1> QED
  BY <1>1, <1>2, <1>3, <1>4 DEF AfterDeQue, QueEmpty

\* Scheduler runs Login if it is ready, and leaves it alone otherwise.
LEMMA SchedulerLemma ==
  ASSUME NEW rp, NEW st, NEW rq, NEW k, Placed(rp, st, rq, k), Scheduler(rp, st, rq)
  PROVE  /\ run_pid' \in {IDLE, Login}
         /\ Placed(run_pid', state', ready_que', k)
         /\ state' = "IO_WAIT" <=> st = "IO_WAIT"
<1> USE Constants, LoginQueues
<1>1. CASE Running(rp, st, rq, k)
  <2>1. rp > IDLE /\ rp = Login
    BY <1>1 DEF Running
  <2>2. run_pid' = rp /\ state' = st /\ ready_que' = rq
    BY <2>1 DEF Scheduler
  <2> QED
    BY <1>1, <2>1, <2>2 DEF Placed, Running
<1>2. CASE Ready(rp, st, rq, k)
  <2>1. rp <= IDLE /\ ~(rp > IDLE) /\ ~QueEmpty(rq)
    BY <1>2 DEF Ready, QueEmpty
  <2>2. run_pid' = Login /\ state' = "RUN" /\ ready_que' = << >>
    BY <1>2, <2>1 DEF Scheduler, Ready
  <2> QED
    BY <1>2, <2>2 DEF Placed, Ready, Running
<1>3. CASE Waits(rp, st, rq, k)
  <2>1. rp <= IDLE /\ ~(rp > IDLE) /\ QueEmpty(rq)
    BY <1>3 DEF Waits, QueEmpty
  <2>2. run_pid' = IDLE /\ state' = st /\ ready_que' = rq
    BY <2>1 DEF Scheduler
  <2> QED
    BY <1>3, <2>2 DEF Placed, Waits
<1> QED
  BY <1>1, <1>2, <1>3 DEF Placed

LEMMA ShiftLemma ==
  ASSUME NEW T, NEW s \in Seq(T), NEW c \in Seq(T), c # << >>
  PROVE  /\ <<Head(c)>> \in Seq(T) /\ <<Head(c)>> \o Tail(c) = c
         /\ Append(s, Head(c)) \o Tail(c) = s \o c
<1>1. Head(c) \in T /\ Tail(c) \in Seq(T)
  BY HeadTailProperties
<1>2. <<Head(c)>> \in Seq(T)
  BY <1>1
<1>3. <<Head(c)>> \o Tail(c) = c
  <2>1. Len(c) \in Nat \ {0}
    BY EmptySeq
  <2>2. SubSeq(c, 1, Len(c)) = <<c[1]>> \o SubSeq(c, 1 + 1, Len(c))
    BY <2>1, SubSeqRecursiveFirst
  <2>3. SubSeq(c, 1, Len(c)) = c /\ SubSeq(c, 2, Len(c)) = Tail(c) /\ Head(c) = c[1]
    BY <2>1, SubSeqFull, TailIsSubSeq
  <2> QED
    BY <2>2, <2>3
<1>4. Append(s, Head(c)) = s \o <<Head(c)>>
  BY <1>1, AppendIsConcat
<1> QED
  BY <1>1, <1>2, <1>3, <1>4, ConcatAssociative

\* The first of the keys at the console goes into a buffer with room for it.
LEMMA BufferLemma ==
  ASSUME NEW q \in Seq(Keys), Len(q) <= QUE_MAX, NEW c \in Seq(Keys), c # << >>
  PROVE  /\ EnQue(q, Head(c)) \in Seq(Keys) /\ Len(EnQue(q, Head(c))) <= QUE_MAX
         /\ ~QueFull(q) => EnQue(q, Head(c)) \o Tail(c) = q \o c
<1>1. CASE QueFull(q)
  BY <1>1 DEF EnQue
<1>2. CASE ~QueFull(q)
  <2>1. EnQue(q, Head(c)) = Append(q, Head(c)) /\ Len(q) # QUE_MAX
    BY <1>2 DEF EnQue, QueFull
  <2>2. Append(q, Head(c)) \in Seq(Keys) /\ Len(Append(q, Head(c))) = Len(q) + 1
    <3>1. Head(c) \in Keys
      BY HeadTailProperties
    <3> QED
      BY <3>1, AppendProperties
  <2>3. Len(q) \in Nat
    BY LenProperties
  <2>4. Len(q) + 1 <= QUE_MAX
    BY <2>1, <2>3, Constants
  <2>5. Append(q, Head(c)) \o Tail(c) = q \o c
    BY ShiftLemma
  <2> QED
    BY <2>1, <2>2, <2>4, <2>5
<1> QED
  BY <1>1, <1>2

\* KBSR, then Scheduler.  A key is neither lost nor overtaken: it goes to the
\* end of kb.buffer, or to a process that waits with kb.buffer empty.
LEMMA PolledLemma ==
  ASSUME NEW rp, NEW st, NEW rq, NEW k, NEW value \in Cells,
         Placed(rp, st, rq, k), k \in Tables, Len(k.buffer) <= QUE_MAX,
         cons \in Seq(Keys), Polled(rp, st, rq, k, value)
  PROVE  /\ Machine'
         /\ \/ /\ st = "IO_WAIT" /\ state' = "IO_WAIT"
               /\ kb' = k /\ cons' = cons /\ ebx' = value /\ debug' = debug
            \/ /\ st = "IO_WAIT" /\ state' # "IO_WAIT" /\ cons # << >>
               /\ ebx' = Head(cons) /\ ebx' \in Keys /\ debug' = debug
               /\ cons' = Tail(cons) /\ kb'.buffer = << >>
            \/ /\ st # "IO_WAIT" /\ state' # "IO_WAIT" /\ ebx' = value
               /\ ~debug' /\ ~debug => kb'.buffer \o cons' = k.buffer \o cons
<1> USE Constants, LoginQueues
<1>1. k.buffer \in Seq(Keys) /\ k.wait_que \in Seq({Login})
  BY DEF Tables
<1>2. st = "IO_WAIT" <=> k.wait_que = <<Login>>
  BY DEF Placed, Running, Ready, Waits
<1>3. CASE /\ cons = << >> /\ kb' = k /\ ebx' = value /\ UNCHANGED <<cons, debug>>
           /\ Scheduler(rp, st, rq)
  <2>1. /\ run_pid' \in {IDLE, Login} /\ Placed(run_pid', state', ready_que', kb')
        /\ state' = "IO_WAIT" <=> st = "IO_WAIT"
    BY <1>3, SchedulerLemma
  <2> QED
    BY <1>3, <2>1 DEF Machine
<1>4. ASSUME cons # << >>, cons' = Tail(cons), QueEmpty(k.wait_que),
             kb' = [k EXCEPT !.buffer = EnQue(@, Head(cons))],
             debug' = QueFull(k.buffer), ebx' = value, Scheduler(rp, st, rq)
      PROVE  /\ Machine' /\ st # "IO_WAIT" /\ state' # "IO_WAIT" /\ ebx' = value
             /\ ~debug' /\ ~debug => kb'.buffer \o cons' = k.buffer \o cons
  <2>1. Head(cons) \in Keys /\ Tail(cons) \in Seq(Keys)
    BY <1>4, HeadTailProperties
  <2> DEFINE b == EnQue(k.buffer, Head(cons))
  <2>2. /\ b \in Seq(Keys) /\ Len(b) <= QUE_MAX
        /\ ~QueFull(k.buffer) => b \o Tail(cons) = k.buffer \o cons
    BY <1>1, <1>4, BufferLemma
  <2>3. ~debug' => b \o cons' = k.buffer \o cons
    BY <1>4, <2>2
  <2> HIDE DEF b
  <2>4. kb' \in Tables /\ kb'.buffer = b /\ kb'.wait_que = k.wait_que
    BY <1>4, <2>2 DEF Tables, b
  <2>5. ~Waits(rp, st, rq, k)
    BY <1>4 DEF Waits, QueEmpty
  <2>6. Placed(rp, st, rq, kb') /\ st # "IO_WAIT"
    BY <2>4, <2>5 DEF Placed, Running, Ready
  <2>7. /\ run_pid' \in {IDLE, Login} /\ Placed(run_pid', state', ready_que', kb')
        /\ state' # "IO_WAIT"
    BY <1>4, <2>6, SchedulerLemma
  <2> QED
    BY <1>4, <2>1, <2>2, <2>3, <2>4, <2>6, <2>7 DEF Machine
<1>5. ASSUME cons # << >>, cons' = Tail(cons), ~QueEmpty(k.wait_que),
             kb' = [k EXCEPT !.wait_que = AfterDeQue(@)],
             ebx' = Head(cons), UNCHANGED debug,
             Scheduler(rp, "READY", EnQue(rq, Head(k.wait_que)))
      PROVE  /\ Machine' /\ st = "IO_WAIT" /\ state' # "IO_WAIT"
             /\ ebx' \in Keys /\ kb'.buffer = << >>
  <2>1. Head(cons) \in Keys /\ Tail(cons) \in Seq(Keys)
    BY <1>5, HeadTailProperties
  <2>2. Waits(rp, st, rq, k)
    BY <1>5 DEF Placed, Running, Ready, QueEmpty
  <2>3. kb' \in Tables /\ kb'.buffer = << >> /\ kb'.wait_que = << >>
    BY <1>5, <2>2 DEF Tables, Waits
  <2>4. Head(k.wait_que) = Login /\ EnQue(rq, Head(k.wait_que)) = <<Login>>
    BY <2>2 DEF Waits
  <2>5. Ready(rp, "READY", EnQue(rq, Head(k.wait_que)), kb')
    BY <2>2, <2>3, <2>4 DEF Ready, Waits
  <2>6. /\ run_pid' \in {IDLE, Login} /\ Placed(run_pid', state', ready_que', kb')
        /\ state' # "IO_WAIT"
    <3>1. Placed(rp, "READY", EnQue(rq, Head(k.wait_que)), kb')
      BY <2>5 DEF Placed
    <3> QED
      BY <1>5, <3>1, SchedulerLemma
  <2>7. Len(kb'.buffer) <= QUE_MAX
    BY <2>3, EmptySeq
  <2> QED
    BY <1>5, <2>1, <2>2, <2>3, <2>6, <2>7 DEF Machine, Waits
<1> QED
  BY <1>3, <1>4, <1>5 DEF Polled

-----------------------------------------------------------------------------
LEMMA InitHolds == Init => IInv
<1> SUFFICES ASSUME Init PROVE IInv
  OBVIOUS
<1> USE Constants, LoginQueues
<1>1. << >> \in Seq(Keys) /\ << >> \in Seq(Cells) /\ Len(<< >>) = 0
  BY EmptySeq
<1>2. Machine
  BY <1>1 DEF Init, Machine, Tables, Placed, Ready
<1>3. Program
  <2> DEFINE blank == [i \in 0..(STR_MAX - 1) |-> JUNK]
  <2>1. index = 0 /\ 0 \in 0..(STR_MAX - 1) /\ at = "prompt"
    BY DEF Init
  <2>2. blank \in Array
    BY DEF Array
  <2>3. string = [f \in Frames |-> [l \in Lines |-> blank]]
    BY DEF Init
  <2> HIDE DEF blank
  <2>4. string \in [Frames -> [Lines -> Array]]
    BY <2>2, <2>3
  <2> QED
    BY <2>1, <2>4 DEF Init, Program, InRead, Frames, Lines
<1>5. Spelled
  <2>1. << >> \in Seq(Letters) /\ Len(<< >>) = 0 /\ 0 <= STR_MAX - 1
    BY EmptySeq
  <2>2. \A i \in 0..(STR_MAX - 1) : string["zero"]["login"][i] = JUNK
    BY DEF Init, Frames, Lines
  <2>3. line \in [Lines -> Seq(Letters)] /\ \A l \in Lines : Len(line[l]) <= STR_MAX - 1
    BY <2>1 DEF Init
  <2>4. at = "prompt" /\ shown = "none" /\ ebp = "own" /\ reading = "login"
    BY DEF Init
  <2> QED
    BY <2>2, <2>3, <2>4 DEF Spelled, InRead
<1>4. KeysInOrder
  <2>1. << >> \o << >> = << >>
    BY <1>1, ConcatEmptySeq
  <2> QED
    BY <2>1 DEF Init, KeysInOrder, Brought
<1> QED
  BY <1>1, <1>2, <1>3, <1>4, <1>5 DEF Init, IInv, History

\* Login's own tables when a service hands the CPU over.
LEMMA DemotedLemma ==
  ASSUME IInv, run_pid = Login
  PROVE  /\ state = "RUN" /\ ready_que = << >> /\ kb.wait_que = << >>
         /\ \A k : k.wait_que = << >> =>
              Placed(NONE, "READY", EnQue(ready_que, Login), k)
<1> USE Constants, LoginQueues
<1>1. Running(run_pid, state, ready_que, kb)
  BY DEF IInv, Machine, Placed, Ready, Waits
<1> QED
  BY <1>1 DEF Running, Ready, Placed

LEMMA Regroup == \A s, t, u \in Seq(Cells) : (s \o t) \o u = s \o (t \o u)
BY ConcatAssociative

LEMMA EmptyBetween == \A s \in Seq(Cells) : s \o << >> = s /\ << >> \o s = s
BY ConcatEmptySeq

LEMMA JoinedCells == \A s, t \in Seq(Cells) : s \o t \in Seq(Cells)
BY ConcatProperties

Join(s, t) == s \o t

LEMMA JoinFacts ==
  /\ \A s, t \in Seq(Cells) : Join(s, t) \in Seq(Cells)
  /\ \A s, t, u \in Seq(Cells) : Join(Join(s, t), u) = Join(s, Join(t, u))
  /\ \A s \in Seq(Cells) : Join(s, << >>) = s
BY Regroup, EmptyBetween, JoinedCells DEF Join

\* A key of the console, or of the buffer, comes before the rest of them.
LEMMA FirstKey ==
  \A c \in Seq(Cells) : c # << >> =>
    <<Head(c)>> \in Seq(Cells) /\ Tail(c) \in Seq(Cells) /\ <<Head(c)>> \o Tail(c) = c
<1> TAKE c \in Seq(Cells)
<1> HAVE c # << >>
<1> QED
  BY ShiftLemma, HeadTailProperties

\* A waiting process gets the first key of the console.
LEMMA BroughtFromConsole ==
  \A u, c \in Seq(Cells) :
    /\ u \o << >> \o << >> \o c = u \o c
    /\ c # << >> => u \o <<Head(c)>> \o << >> \o Tail(c) = u \o c
<1> TAKE u, c \in Seq(Cells)
<1>1. u \o << >> \o << >> \o c = u \o c
  BY EmptyBetween
<1>2. ASSUME c # << >>
      PROVE  u \o <<Head(c)>> \o << >> \o Tail(c) = u \o c
  <2> DEFINE h == <<Head(c)>>
             r == Tail(c)
  <2>1. h \in Seq(Cells) /\ r \in Seq(Cells) /\ h \o r = c
    BY <1>2, FirstKey
  <2> HIDE DEF h, r
  <2>2. u \o h \in Seq(Cells)
    BY <2>1, JoinedCells
  <2>3. (u \o h) \o << >> = u \o h
    BY <2>2, EmptyBetween
  <2>4. (u \o h) \o r = u \o (h \o r)
    BY <2>1, Regroup
  <2> QED
    BY <2>1, <2>3, <2>4 DEF h, r
<1> QED
  BY <1>1, <1>2

LEMMA MovedKeys ==
  ASSUME NEW u \in Seq(Cells), NEW h \in Seq(Cells), NEW r \in Seq(Cells),
         NEW b \in Seq(Cells), b = Join(h, r), NEW c \in Seq(Cells),
         NEW d \in Seq(Cells), NEW e \in Seq(Cells), Join(d, e) = Join(r, c)
  PROVE  Join(Join(Join(u, h), d), e) = Join(Join(Join(u, << >>), b), c)
<1>1. Join(u, h) \in Seq(Cells) /\ Join(r, c) \in Seq(Cells)
  BY JoinFacts
<1>2. Join(Join(Join(u, h), d), e) = Join(Join(u, h), Join(d, e))
  BY <1>1, JoinFacts
<1>3. Join(Join(u, h), Join(r, c)) = Join(u, Join(h, Join(r, c)))
  BY <1>1, JoinFacts
<1>4. Join(b, c) = Join(h, Join(r, c))
  BY JoinFacts
<1>5. Join(Join(Join(u, << >>), b), c) = Join(u, Join(b, c))
  BY JoinFacts
<1> QED
  BY <1>2, <1>3, <1>4, <1>5

\* SysRead takes the first key of the buffer b, before KBSR makes d and e of
\* the rest of it and of the console.
LEMMA BroughtFromBuffer ==
  ASSUME NEW u \in Seq(Cells), NEW b \in Seq(Cells), b # << >>, NEW c \in Seq(Cells),
         NEW d \in Seq(Cells), NEW e \in Seq(Cells), Join(d, e) = Join(Tail(b), c)
  PROVE  Join(Join(Join(u, <<Head(b)>>), d), e) = Join(Join(Join(u, << >>), b), c)
<1> DEFINE h == <<Head(b)>>
           r == Tail(b)
<1>1. h \in Seq(Cells) /\ r \in Seq(Cells) /\ b = Join(h, r)
  BY FirstKey DEF Join
<1>2. Join(d, e) = Join(r, c)
  OBVIOUS
<1>3. Join(Join(Join(u, h), d), e) = Join(Join(Join(u, << >>), b), c)
  <2> HIDE DEF h, r
  <2> QED
    BY <1>1, <1>2, MovedKeys
<1> QED
  BY <1>3

\* Login stores the key x.
LEMMA TakenLemma ==
  ASSUME NEW u \in Seq(Cells), NEW b \in Seq(Cells), NEW c \in Seq(Cells),
         NEW d \in Seq(Cells), NEW e \in Seq(Cells), Join(d, e) = Join(b, c), NEW x \in Cells
  PROVE  Join(Join(Join(Append(u, x), << >>), d), e) = Join(Join(Join(u, <<x>>), b), c)
<1> DEFINE w == Append(u, x)
<1>1. w = Join(u, <<x>>) /\ w \in Seq(Cells)
  BY AppendIsConcat, AppendProperties DEF Join
<1> HIDE DEF w
<1>2. Join(w, << >>) = w
  BY <1>1, JoinFacts
<1>3. Join(Join(w, d), e) = Join(w, Join(d, e)) /\ Join(Join(w, b), c) = Join(w, Join(b, c))
  BY <1>1, JoinFacts
<1> QED
  BY <1>1, <1>2, <1>3 DEF w

\* The person at the keyboard types x.
LEMMA TypedLemma ==
  \A u, c \in Seq(Cells), x \in Cells : u \o Append(c, x) = Append(u \o c, x)
<1> TAKE u, c \in Seq(Cells), x \in Cells
<1>1. u \o c \in Seq(Cells) /\ <<x>> \in Seq(Cells)
  BY JoinedCells
<1>2. Append(c, x) = c \o <<x>> /\ Append(u \o c, x) = (u \o c) \o <<x>>
  BY <1>1, AppendIsConcat
<1> QED
  BY <1>1, <1>2, Regroup

\* What has passed through the driver, as sequences of cells.
LEMMA KeySequences ==
  ASSUME IInv
  PROVE  /\ kb.buffer \in Seq(Keys) /\ kb.buffer \in Seq(Cells)
         /\ cons \in Seq(Keys) /\ cons \in Seq(Cells)
         /\ taken \in Seq(Cells) /\ typed \in Seq(Cells) /\ << >> \in Seq(Cells)
         /\ ebx \in Cells /\ <<ebx>> \in Seq(Cells)
<1>1. kb.buffer \in Seq(Keys) /\ cons \in Seq(Keys) /\ ebx \in Cells
  BY DEF IInv, Machine, Tables
<1>2. kb.buffer \in Seq(Cells) /\ cons \in Seq(Cells)
  BY <1>1, Constants, SeqMonotonic
<1> QED
  BY <1>1, <1>2, EmptySeq DEF IInv, History

\* A service that ends in KBSR with Login demoted, or running on: the keys
\* between the console and Login are as before.
LEMMA OnwardLemma ==
  ASSUME IInv, ~debug, NEW rp, NEW st, NEW rq,
         Placed(rp, st, rq, kb), Polled(rp, st, rq, kb, ebx),
         taken' = taken, typed' = typed, Program', Spelled',
         state # "IO_WAIT" => st # "IO_WAIT" /\ (at = "store" <=> at' = "store"),
         state = "IO_WAIT" => st = "IO_WAIT" /\ at' = at
  PROVE  IInv'
<1>1. /\ kb \in Tables /\ Len(kb.buffer) <= QUE_MAX /\ cons \in Seq(Keys) /\ ebx \in Cells
  BY DEF IInv, Machine
<1>2. taken \o Brought \o kb.buffer \o cons = typed
  BY DEF IInv, History, KeysInOrder
<1>3. /\ Machine'
      /\ \/ /\ st = "IO_WAIT" /\ state' = "IO_WAIT"
            /\ kb' = kb /\ cons' = cons /\ ebx' = ebx /\ debug' = debug
         \/ /\ st = "IO_WAIT" /\ state' # "IO_WAIT" /\ cons # << >>
            /\ ebx' = Head(cons) /\ ebx' \in Keys /\ debug' = debug
            /\ cons' = Tail(cons) /\ kb'.buffer = << >>
         \/ /\ st # "IO_WAIT" /\ state' # "IO_WAIT" /\ ebx' = ebx
            /\ ~debug' /\ ~debug => kb'.buffer \o cons' = kb.buffer \o cons
  BY <1>1, PolledLemma
<1>4. CASE /\ st = "IO_WAIT" /\ state' = "IO_WAIT"
           /\ kb' = kb /\ cons' = cons /\ ebx' = ebx /\ debug' = debug
  <2>1. state = "IO_WAIT" /\ at' = at /\ Brought = << >> /\ Brought' = << >>
    BY <1>4 DEF Brought
  <2>2. KeysInOrder'
    BY <1>2, <1>4, <2>1 DEF KeysInOrder
  <2> QED
    BY <1>3, <1>4, <2>1, <2>2 DEF IInv, History
<1>5. CASE /\ st = "IO_WAIT" /\ state' # "IO_WAIT" /\ cons # << >>
           /\ ebx' = Head(cons) /\ ebx' \in Keys /\ debug' = debug
           /\ cons' = Tail(cons) /\ kb'.buffer = << >>
  <2>1. state = "IO_WAIT" /\ at' = at /\ at = "store" /\ kb.buffer = << >>
    BY <1>5 DEF IInv, History, Machine, Placed, Running, Ready, Waits
  <2>2. Brought = << >> /\ Brought' = <<Head(cons)>>
    BY <1>5, <2>1 DEF Brought
  <2>3. taken \in Seq(Cells) /\ cons \in Seq(Cells)
    BY KeySequences
  <2>4. /\ taken \o << >> \o << >> \o cons = taken \o cons
        /\ taken \o <<Head(cons)>> \o << >> \o Tail(cons) = taken \o cons
    BY <1>5, <2>3, BroughtFromConsole
  <2>5. KeysInOrder'
    BY <1>2, <1>5, <2>1, <2>2, <2>4 DEF KeysInOrder
  <2> QED
    BY <1>3, <1>5, <2>1, <2>5 DEF IInv, History
<1>6. CASE /\ st # "IO_WAIT" /\ state' # "IO_WAIT" /\ ebx' = ebx
           /\ ~debug' /\ ~debug => kb'.buffer \o cons' = kb.buffer \o cons
  <2>1. state # "IO_WAIT" /\ (at = "store" <=> at' = "store")
    BY <1>6
  <2>2. Brought' = Brought
    BY <1>6, <2>1 DEF Brought
  <2>3. kb'.buffer \in Seq(Cells) /\ cons' \in Seq(Cells)
    <3>1. kb'.buffer \in Seq(Keys) /\ cons' \in Seq(Keys)
      BY <1>3 DEF Machine, Tables
    <3> QED
      BY <3>1, Constants, SeqMonotonic
  <2>4. Brought \in Seq(Cells) /\ taken \o Brought \in Seq(Cells)
    <3>1. Brought \in Seq(Cells) /\ taken \in Seq(Cells)
      BY KeySequences DEF Brought
    <3> QED
      BY <3>1, ConcatProperties
  <2>5. ~debug' => taken \o Brought \o kb'.buffer \o cons' = typed
    <3> DEFINE u == taken \o Brought
    <3>1. u \in Seq(Cells) /\ kb.buffer \in Seq(Cells) /\ cons \in Seq(Cells)
      BY <2>4, KeySequences
    <3> HIDE DEF u
    <3>2. (u \o kb.buffer) \o cons = u \o (kb.buffer \o cons)
      BY <3>1, Regroup
    <3>3. (u \o kb'.buffer) \o cons' = u \o (kb'.buffer \o cons')
      BY <2>3, <3>1, Regroup
    <3> QED
      BY <1>2, <1>6, <3>2, <3>3 DEF u
  <2>6. KeysInOrder'
    BY <2>2, <2>5 DEF KeysInOrder
  <2>7. at' = "store" => ebx' \in Keys
    BY <1>6, <2>1 DEF IInv, History
  <2> QED
    BY <1>3, <1>6, <2>6, <2>7 DEF IInv, History
<1> QED
  BY <1>3, <1>4, <1>5, <1>6

-----------------------------------------------------------------------------
LEMMA TimerStep ==
  ASSUME IInv, TimerSR
  PROVE  IInv'
<1>1. ~debug /\ typed' = typed /\ UNCHANGED program
  BY DEF TimerSR
<1>2. Program' /\ Spelled' /\ at' = at /\ taken' = taken
  BY <1>1 DEF program, memory, IInv, Program, Spelled
<1>3. CASE Polled(run_pid, state, ready_que, kb, ebx)
  <2>1. Placed(run_pid, state, ready_que, kb)
    BY DEF IInv, Machine
  <2> QED
    BY <1>1, <1>2, <1>3, <2>1, OnwardLemma
<1>4. CASE run_pid = Login /\ Polled(NONE, "READY", EnQue(ready_que, Login), kb, ebx)
  <2>1. state = "RUN" /\ Placed(NONE, "READY", EnQue(ready_que, Login), kb)
    BY <1>4, DemotedLemma
  <2> QED
    BY <1>1, <1>2, <1>4, <2>1, OnwardLemma
<1> QED
  BY <1>3, <1>4 DEF TimerSR

LEMMA PromptStep ==
  ASSUME IInv, SysWritePrompt
  PROVE  IInv'
<1> USE Constants
<1>1. /\ ~debug /\ run_pid = Login /\ at = "prompt" /\ at' = "read" /\ index' = 0
      /\ Polled(NONE, "READY", EnQue(ready_que, Login), kb, ebx)
      /\ str' = ebp /\ line' = [line EXCEPT ![reading] = << >>]
      /\ UNCHANGED <<ebp, string, kept, reading, ch, shown, typed, taken>>
  BY DEF SysWritePrompt, Calls, Demoted
<1>2. state = "RUN" /\ Placed(NONE, "READY", EnQue(ready_que, Login), kb)
  BY <1>1, DemotedLemma
<1>3. Program'
  BY <1>1 DEF IInv, Program, InRead
<1>4. Spelled'
  <2>1. /\ << >> \in Seq(Letters) /\ Len(<< >>) = 0 /\ reading \in Lines
        /\ line \in [Lines -> Seq(Letters)]
    BY EmptySeq DEF IInv, Program, Spelled
  <2>2. /\ line' \in [Lines -> Seq(Letters)] /\ line'[reading] = << >>
        /\ \A l \in Lines \ {reading} : line'[l] = line[l]
    BY <1>1, <2>1
  <2>3. Begun(string["zero"][reading], << >>)
    BY <2>1 DEF Begun
  <2>4. reading = "passwd" => line'["login"] = line["login"]
    BY <2>2 DEF Lines
  <2>5. ASSUME NEW l \in Lines
        PROVE  Len(line'[l]) <= STR_MAX - 1
    <3>1. Len(line[l]) <= STR_MAX - 1
      BY DEF IInv, Spelled
    <3>2. Len(line'[l]) = 0 \/ line'[l] = line[l]
      BY <2>1, <2>2
    <3> QED
      BY <2>1, <3>1, <3>2
  <2>6. shown # "none" => ebp' = "zero" /\ str' = "zero"
    BY <1>1 DEF IInv, Spelled
  <2> QED
    BY <1>1, <2>1, <2>2, <2>3, <2>4, <2>5, <2>6 DEF IInv, Spelled, InRead
<1> QED
  BY <1>1, <1>2, <1>3, <1>4, OnwardLemma

LEMMA VerdictStep ==
  ASSUME IInv, SysWriteVerdict
  PROVE  IInv'
<1>1. /\ ~debug /\ run_pid = Login /\ at = "verdict" /\ at' = "prompt"
      /\ Polled(NONE, "READY", EnQue(ready_que, Login), kb, ebx)
      /\ reading' = "login" /\ shown' \in {"sucessful", "failed"}
      /\ UNCHANGED <<ebp, string, kept, str, ch, index, typed, taken, line>>
  BY DEF SysWriteVerdict, Calls, Demoted
<1>2. state = "RUN" /\ Placed(NONE, "READY", EnQue(ready_que, Login), kb)
  BY <1>1, DemotedLemma
<1>3. Program'
  BY <1>1 DEF IInv, Program, InRead, Lines
<1>4. Spelled'
  BY <1>1 DEF IInv, Spelled, InRead
<1> QED
  BY <1>1, <1>2, <1>3, <1>4, OnwardLemma

LEMMA SysReadStep ==
  ASSUME IInv, SysRead
  PROVE  IInv'
<1> USE Constants
<1>1. /\ ~debug /\ run_pid = Login /\ at = "read" /\ at' = "store"
      /\ UNCHANGED <<memory, index, shown, typed, taken, line>>
  BY DEF SysRead, Calls
<1>2. /\ state = "RUN" /\ ready_que = << >> /\ kb.wait_que = << >>
      /\ \A k : k.wait_que = << >> => Placed(NONE, "READY", EnQue(ready_que, Login), k)
  BY <1>1, DemotedLemma
<1>3. /\ kb \in Tables /\ Len(kb.buffer) <= QUE_MAX /\ ebx \in Cells
  BY DEF IInv, Machine
<1>4. Program' /\ Spelled'
  BY <1>1 DEF IInv, Program, Spelled, InRead, memory
<1>5. taken \o << >> \o kb.buffer \o cons = typed
  BY <1>1 DEF IInv, History, KeysInOrder, Brought
<1>6. /\ kb.buffer \in Seq(Keys) /\ kb.buffer \in Seq(Cells)
      /\ cons \in Seq(Keys) /\ cons \in Seq(Cells) /\ taken \in Seq(Cells) /\ typed \in Seq(Cells)
  BY KeySequences
<1>7. ASSUME QueEmpty(kb.buffer),
             Polled(NONE, "IO_WAIT", ready_que, [kb EXCEPT !.wait_que = EnQue(@, Login)], ebx)
      PROVE  IInv'
  <2> DEFINE k == [kb EXCEPT !.wait_que = EnQue(@, Login)]
  <2>1. /\ k \in Tables /\ k.buffer = << >> /\ k.wait_que = <<Login>>
        /\ Len(k.buffer) <= QUE_MAX /\ kb.buffer = << >>
    BY <1>2, <1>3, <1>7, LoginQueues DEF Tables, QueEmpty
  <2>2. Polled(NONE, "IO_WAIT", ready_que, k, ebx)
    BY <1>7
  <2> HIDE DEF k
  <2>3. Placed(NONE, "IO_WAIT", ready_que, k)
    BY <1>2, <2>1 DEF Placed, Waits
  <2>4. /\ Machine'
        /\ \/ /\ state' = "IO_WAIT"
              /\ kb' = k /\ cons' = cons /\ debug' = debug
           \/ /\ state' # "IO_WAIT" /\ cons # << >>
              /\ ebx' = Head(cons) /\ ebx' \in Keys /\ debug' = debug
              /\ cons' = Tail(cons) /\ kb'.buffer = << >>
    BY <1>3, <1>6, <2>1, <2>2, <2>3, PolledLemma
  <2>5. /\ taken \o << >> \o << >> \o cons = taken \o cons
        /\ cons # << >> => taken \o <<Head(cons)>> \o << >> \o Tail(cons) = taken \o cons
    BY <1>6, BroughtFromConsole
  <2>6. taken \o cons = typed
    BY <1>5, <2>1, <2>5
  <2>7. KeysInOrder'
    BY <1>1, <2>1, <2>4, <2>5, <2>6 DEF KeysInOrder, Brought
  <2> QED
    BY <1>1, <1>4, <1>6, <2>4, <2>7 DEF IInv, History
<1>8. ASSUME ~QueEmpty(kb.buffer),
             Polled(NONE, "READY", EnQue(ready_que, Login),
                    [kb EXCEPT !.buffer = AfterDeQue(@)], Dequeued(kb.buffer))
      PROVE  IInv'
  <2> DEFINE k == [kb EXCEPT !.buffer = AfterDeQue(@)]
             b == kb.buffer
  <2>1. /\ b # << >> /\ AfterDeQue(b) = Tail(b) /\ Dequeued(b) = Head(b)
        /\ Head(b) \in Keys /\ Tail(b) \in Seq(Keys) /\ Len(Tail(b)) = Len(b) - 1
    BY <1>6, <1>8, HeadTailProperties DEF QueEmpty, AfterDeQue, Dequeued
  <2>2. k \in Tables /\ k.buffer = Tail(b) /\ k.wait_que = << >>
    BY <1>2, <1>3, <2>1 DEF Tables
  <2>3. Polled(NONE, "READY", EnQue(ready_que, Login), k, Head(b))
    BY <1>8, <2>1
  <2> HIDE DEF k
  <2>4. Placed(NONE, "READY", EnQue(ready_que, Login), k)
    BY <1>2, <2>2
  <2>5. Len(k.buffer) <= QUE_MAX
    <3>1. Len(b) \in Nat
      BY <1>6, LenProperties
    <3> QED
      BY <1>3, <2>1, <2>2, <3>1
  <2>6. /\ Machine' /\ state' # "IO_WAIT" /\ ebx' = Head(b)
        /\ ~debug' /\ ~debug => kb'.buffer \o cons' = Tail(b) \o cons
    <3> DEFINE v == Head(b)
               rq == EnQue(ready_que, Login)
    <3>1. v \in Cells
      BY <2>1
    <3>2. Polled(NONE, "READY", rq, k, v) /\ Placed(NONE, "READY", rq, k)
      BY <2>3, <2>4
    <3> HIDE DEF b, v, rq
    <3>3. /\ Machine' /\ state' # "IO_WAIT" /\ ebx' = v
          /\ ~debug' /\ ~debug => kb'.buffer \o cons' = k.buffer \o cons
      BY <1>6, <2>2, <2>5, <3>1, <3>2, PolledLemma
    <3> QED
      BY <2>2, <3>3 DEF v
  <2>7. kb'.buffer \in Seq(Cells) /\ cons' \in Seq(Cells)
    <3>1. kb'.buffer \in Seq(Keys) /\ cons' \in Seq(Keys)
      BY <2>6 DEF Machine, Tables
    <3> QED
      BY <3>1, SeqMonotonic
  <2>8. ~debug' => taken \o <<Head(b)>> \o kb'.buffer \o cons' = taken \o << >> \o b \o cons
    <3> DEFINE d == kb'.buffer
               e == cons'
    <3>1. d \in Seq(Cells) /\ e \in Seq(Cells) /\ b \in Seq(Cells) /\ b # << >>
      BY <1>6, <2>1, <2>7
    <3>2. ~debug' => Join(d, e) = Join(Tail(b), cons)
      BY <1>1, <2>6 DEF Join
    <3> HIDE DEF b, d, e
    <3>3. ~debug' =>
            Join(Join(Join(taken, <<Head(b)>>), d), e) = Join(Join(Join(taken, << >>), b), cons)
      BY <1>6, <3>1, <3>2, BroughtFromBuffer
    <3> QED
      BY <3>3 DEF Join, b, d, e
  <2>9. KeysInOrder'
    BY <1>1, <1>5, <2>6, <2>8 DEF KeysInOrder, Brought
  <2> QED
    BY <1>1, <1>4, <1>6, <2>1, <2>6, <2>9 DEF IInv, History
<1> QED
  BY <1>7, <1>8 DEF SysRead, Demoted

LEMMA StoreStep ==
  ASSUME IInv, Store
  PROVE  IInv'
<1> USE Constants
<1>1. /\ ~debug /\ run_pid = Login /\ at = "store" /\ at' = "echo"
      /\ ch' = ebx /\ ebp' = "zero" /\ taken' = Append(taken, ebx)
      /\ UNCHANGED <<sched, kb, ebx, string, kept, reading, str, index, shown, cons, debug,
                     typed, line>>
  BY DEF Store
<1>2. state = "RUN" /\ state' = "RUN"
  BY <1>1, DemotedLemma DEF sched
<1>3. ebx \in Keys
  BY <1>1, <1>2 DEF IInv, History
<1>4. Machine'
  BY <1>1 DEF IInv, Machine, sched
<1>5. Program'
  BY <1>1, <1>3 DEF IInv, Program, InRead, Frames
<1>6. Spelled'
  BY <1>1 DEF IInv, Spelled, InRead
<1>7. /\ kb.buffer \in Seq(Cells) /\ cons \in Seq(Cells)
      /\ taken \in Seq(Cells) /\ typed \in Seq(Cells)
  BY KeySequences
<1>8. taken \o <<ebx>> \o kb.buffer \o cons = typed
  BY <1>1, <1>2 DEF IInv, History, KeysInOrder, Brought
<1>9. taken' \o << >> \o kb.buffer \o cons = typed
  <2> DEFINE b == kb.buffer
  <2>1. b \in Seq(Cells) /\ Join(b, cons) = Join(b, cons)
    BY <1>7
  <2> HIDE DEF b
  <2>2. Join(Join(Join(Append(taken, ebx), << >>), b), cons)
          = Join(Join(Join(taken, <<ebx>>), b), cons)
    BY <1>3, <1>7, <2>1, TakenLemma
  <2> QED
    BY <1>1, <1>8, <2>2 DEF Join, b
<1>10. KeysInOrder'
  BY <1>1, <1>9 DEF KeysInOrder, Brought
<1>11. taken' \in Seq(Cells)
  BY <1>1, <1>3, <1>7, AppendProperties
<1> QED
  BY <1>1, <1>2, <1>4, <1>5, <1>6, <1>7, <1>10, <1>11 DEF IInv, History

\* The cells sys_read has filled, then with the key c added, then with the end.
LEMMA CellsLemma ==
  ASSUME NEW a \in Array, NEW s \in Seq(Letters), Len(s) < STR_MAX - 1, NEW c \in Keys,
         NEW t, NEW b, NEW n,
         \/ c = CR /\ t = s /\ b = a /\ n = Len(s)
         \/ c # CR /\ t = Append(s, c) /\ b = [a EXCEPT ![Len(s)] = c] /\ n = Len(s) + 1
  PROVE  /\ t \in Seq(Letters) /\ Len(t) = n /\ n \in 0..(STR_MAX - 1)
         /\ b \in Array /\ [b EXCEPT ![n] = NUL] \in Array
         /\ Begun(a, s) => Begun(b, t) /\ Spells([b EXCEPT ![n] = NUL], t)
<1> USE Constants
<1>1. Len(s) \in Nat
  BY LenProperties
<1>2. /\ t \in Seq(Letters) /\ Len(t) = n /\ n \in 0..(STR_MAX - 1) /\ b \in Array
      /\ Begun(a, s) => Begun(b, t)
  <2>1. CASE c = CR /\ t = s /\ b = a /\ n = Len(s)
    BY <1>1, <2>1
  <2>2. CASE c # CR /\ t = Append(s, c) /\ b = [a EXCEPT ![Len(s)] = c] /\ n = Len(s) + 1
    <3>1. c \in Letters
      BY <2>2
    <3>2. /\ t \in Seq(Letters) /\ Len(t) = Len(s) + 1 /\ t[Len(s) + 1] = c
          /\ \A i \in 1..Len(s) : t[i] = s[i]
      BY <2>2, <3>1, AppendProperties
    <3>3. b \in Array
      BY <1>1, <2>2, <3>1 DEF Array
    <3>4. /\ b[Len(s)] = c /\ \A i \in 1..Len(s) : b[i - 1] = a[i - 1]
      BY <1>1, <2>2 DEF Array
    <3>5. ASSUME Begun(a, s), NEW i \in 1..Len(t)
          PROVE  b[i - 1] = t[i]
      <4>1. CASE i = Len(s) + 1
        BY <1>1, <3>2, <3>4, <4>1
      <4>2. CASE i # Len(s) + 1
        BY <1>1, <3>2, <3>4, <3>5, <4>2 DEF Begun
      <4> QED
        BY <4>1, <4>2
    <3> QED
      BY <1>1, <2>2, <3>2, <3>3, <3>5 DEF Begun
  <2> QED
    BY <2>1, <2>2
<1> DEFINE e == [b EXCEPT ![n] = NUL]
<1>3. e \in Array /\ e[n] = NUL /\ \A i \in 1..n : e[i - 1] = b[i - 1]
  BY <1>2 DEF Array
<1> HIDE DEF e
<1>4. Begun(b, t) => Spells(e, t)
  BY <1>2, <1>3 DEF Begun, Spells
<1> QED
  BY <1>2, <1>3, <1>4 DEF e

\* What Filled does to the strings.
LEMMA FilledLemma ==
  ASSUME Program, NEW x \in Array, Filled(x)
  PROVE  /\ string' \in [Frames -> [Lines -> Array]]
         /\ str = "own" \/ reading = "passwd" => string'["zero"]["login"] = string["zero"]["login"]
         /\ kept /\ str = "zero" => string'["zero"] = [string["zero"] EXCEPT ![reading] = x]
<1>1. /\ str \in Frames /\ reading \in Lines
      /\ string \in [Frames -> [Lines -> Array]]
  BY DEF Program
<1> DEFINE w == [string EXCEPT ![str][reading] = x]
<1>2. w \in [Frames -> [Lines -> Array]] /\ w[str] = [string[str] EXCEPT ![reading] = x]
  BY <1>1
<1>3. string' = IF str = "own" \/ kept THEN w ELSE string
  BY DEF Filled
<1>4. str = "own" \/ reading = "passwd" => w["zero"]["login"] = string["zero"]["login"]
  BY <1>1 DEF Frames, Lines
<1> HIDE DEF w
<1> QED
  BY <1>1, <1>2, <1>3, <1>4

\* sys_read stores the key in ch behind those of the line, never in the last byte.
LEMMA FillLemma ==
  ASSUME Program, Spelled, SysWriteEcho
  PROVE  Program' /\ Spelled' /\ at' # "store"
<1> USE Constants
<1> DEFINE s == line[reading]
           a == string[str][reading]
           t == IF ch = CR THEN s ELSE Append(s, ch)
           n == IF ch = CR THEN index ELSE index + 1
           stored == IF ch = CR THEN a ELSE [a EXCEPT ![index] = ch]
           ended == [stored EXCEPT ![n] = NUL]
<1>1. /\ at = "echo" /\ index' = n
      /\ line' = IF ch = CR THEN line ELSE [line EXCEPT ![reading] = t]
      /\ UNCHANGED <<ebp, kept, str, ch, shown>>
      /\ \/ /\ EndOfLine(ch, n) /\ Filled(ended)
            /\ at' = (IF reading = "login" THEN "prompt" ELSE "verdict") /\ reading' = "passwd"
         \/ /\ ~EndOfLine(ch, n) /\ Filled(stored) /\ at' = "read" /\ reading' = reading
  BY DEF SysWriteEcho, Calls
<1>2. /\ index \in 0..(STR_MAX - 1) /\ index # STR_MAX - 1 /\ reading \in Lines
      /\ str \in Frames /\ ebp \in Frames /\ kept \in BOOLEAN /\ ch \in Keys
      /\ string \in [Frames -> [Lines -> Array]] /\ shown \in {"none", "failed", "sucessful"}
  BY <1>1 DEF Program, InRead
<1>3. /\ line \in [Lines -> Seq(Letters)] /\ \A l \in Lines : Len(line[l]) <= STR_MAX - 1
      /\ ebp = "zero" /\ index = Len(s)
  BY <1>1 DEF Spelled, InRead
<1>4. s \in Seq(Letters) /\ a \in Array
  BY <1>2, <1>3
<1>5. /\ t \in Seq(Letters) /\ Len(t) = n /\ n \in 0..(STR_MAX - 1)
      /\ stored \in Array /\ ended \in Array
      /\ Begun(a, s) => Begun(stored, t) /\ Spells(ended, t)
  <2>1. Len(s) < STR_MAX - 1
    BY <1>2, <1>3
  <2>2. \/ ch = CR /\ t = s /\ stored = a /\ n = Len(s)
        \/ ch # CR /\ t = Append(s, ch) /\ stored = [a EXCEPT ![Len(s)] = ch] /\ n = Len(s) + 1
    BY <1>3
  <2> HIDE DEF s, a, t, stored, n
  <2> QED
    BY <1>2, <1>4, <2>1, <2>2, CellsLemma
<1>6. /\ line' \in [Lines -> Seq(Letters)] /\ line'[reading] = t
      /\ \A l \in Lines \ {reading} : line'[l] = line[l]
  <2>1. CASE ch = CR
    BY <1>1, <1>3, <2>1
  <2>2. CASE ch # CR
    <3>1. line' = [line EXCEPT ![reading] = t]
      BY <1>1, <2>2
    <3> HIDE DEF t
    <3> QED
      BY <1>2, <1>3, <1>5, <3>1
  <2> QED
    BY <2>1, <2>2
<1>7. shown # "none" /\ kept => str = "zero" /\ Begun(a, s)
  BY <1>1 DEF Spelled, InRead
<1>8. shown # "none" /\ kept /\ reading = "passwd" => Spells(string["zero"]["login"], line["login"])
  BY DEF Spelled
<1>12. shown = "none" =>
         /\ \A i \in 0..(STR_MAX - 1) : string["zero"]["login"][i] = JUNK
         /\ str = "own" \/ reading = "passwd"
  BY <1>1, <1>2 DEF Spelled, InRead, Lines
<1> HIDE DEF s, a, t, n, stored, ended
<1>9. ASSUME NEW l \in Lines
      PROVE  Len(line'[l]) <= STR_MAX - 1
  <2>1. Len(line[l]) <= STR_MAX - 1 /\ Len(t) <= STR_MAX - 1
    BY <1>3, <1>5
  <2>2. line'[l] = t \/ line'[l] = line[l]
    BY <1>6
  <2> QED
    BY <2>1, <2>2
<1>10. CASE /\ EndOfLine(ch, n) /\ Filled(ended)
            /\ at' = (IF reading = "login" THEN "prompt" ELSE "verdict") /\ reading' = "passwd"
  <2>1. /\ string' \in [Frames -> [Lines -> Array]]
        /\ str = "own" \/ reading = "passwd" => string'["zero"]["login"] = string["zero"]["login"]
        /\ kept /\ str = "zero" => string'["zero"] = [string["zero"] EXCEPT ![reading] = ended]
    BY <1>5, <1>10, FilledLemma
  <2>2. Program' /\ at' \in {"prompt", "verdict"}
    BY <1>1, <1>2, <1>5, <1>10, <2>1 DEF Program, InRead, Lines
  <2>3. ASSUME shown # "none", kept
        PROVE  /\ Spells(string'["zero"][reading], line'[reading])
               /\ reading = "passwd" => Spells(string'["zero"]["login"], line'["login"])
    <3>1. /\ string'["zero"][reading] = ended
          /\ reading = "passwd" => string'["zero"]["login"] = string["zero"]["login"]
      BY <1>2, <1>7, <2>1, <2>3 DEF Frames, Lines
    <3>2. reading = "passwd" => line'["login"] = line["login"]
      BY <1>6 DEF Lines
    <3> QED
      BY <1>5, <1>6, <1>7, <1>8, <2>3, <3>1, <3>2
  <2>4. reading = "login" \/ reading = "passwd"
    BY <1>2 DEF Lines
  <2>5. shown' # "none" /\ kept' =>
          /\ Spells(string'["zero"]["login"], line'["login"])
          /\ at' = "verdict" => Spells(string'["zero"]["passwd"], line'["passwd"])
    BY <1>1, <1>10, <2>3, <2>4
  <2>6. shown' = "none" =>
          /\ \A i \in 0..(STR_MAX - 1) : string'["zero"]["login"][i] = JUNK
          /\ reading' # "login"
    BY <1>1, <1>10, <1>12, <2>1
  <2> QED
    BY <1>1, <1>3, <1>6, <1>9, <1>10, <2>2, <2>5, <2>6 DEF Spelled, InRead
<1>11. CASE ~EndOfLine(ch, n) /\ Filled(stored) /\ at' = "read" /\ reading' = reading
  <2>1. /\ string' \in [Frames -> [Lines -> Array]]
        /\ str = "own" \/ reading = "passwd" => string'["zero"]["login"] = string["zero"]["login"]
        /\ kept /\ str = "zero" => string'["zero"] = [string["zero"] EXCEPT ![reading] = stored]
    BY <1>5, <1>11, FilledLemma
  <2>2. n # STR_MAX - 1
    BY <1>11 DEF EndOfLine
  <2>3. Program'
    BY <1>1, <1>2, <1>5, <1>11, <2>1, <2>2 DEF Program, InRead
  <2>4. ASSUME shown # "none", kept
        PROVE  /\ str = "zero" /\ Begun(string'["zero"][reading], line'[reading])
               /\ reading = "passwd" => Spells(string'["zero"]["login"], line'["login"])
    <3>1. /\ string'["zero"][reading] = stored
          /\ reading = "passwd" => string'["zero"]["login"] = string["zero"]["login"]
      BY <1>2, <1>7, <2>1, <2>4 DEF Frames, Lines
    <3>2. reading = "passwd" => line'["login"] = line["login"]
      BY <1>6 DEF Lines
    <3> QED
      BY <1>5, <1>6, <1>7, <1>8, <2>4, <3>1, <3>2
  <2>5. shown' = "none" =>
          /\ \A i \in 0..(STR_MAX - 1) : string'["zero"]["login"][i] = JUNK
          /\ reading' = "login" => str' = "own"
    BY <1>1, <1>2, <1>11, <1>12, <2>1
  <2> QED
    BY <1>1, <1>3, <1>5, <1>6, <1>9, <1>11, <2>3, <2>4, <2>5 DEF Spelled, InRead
<1> QED
  BY <1>1, <1>10, <1>11

LEMMA EchoStep ==
  ASSUME IInv, SysWriteEcho
  PROVE  IInv'
<1>1. /\ ~debug /\ run_pid = Login /\ at = "echo"
      /\ Polled(NONE, "READY", EnQue(ready_que, Login), kb, ebx)
      /\ taken' = taken /\ typed' = typed
  BY DEF SysWriteEcho, Calls, Demoted
<1>2. state = "RUN" /\ Placed(NONE, "READY", EnQue(ready_que, Login), kb)
  BY <1>1, DemotedLemma
<1>3. Program' /\ Spelled' /\ at' # "store"
  BY FillLemma DEF IInv
<1> QED
  BY <1>1, <1>2, <1>3, OnwardLemma

LEMMA KeyPressedStep ==
  ASSUME IInv, KeyPressed
  PROVE  IInv'
<1>1. PICK key \in Keys : typed' = Append(typed, key) /\ cons' = Append(cons, key)
  BY DEF KeyPressed
<1>2. UNCHANGED <<sched, kb, ebx, program, debug>> /\ taken' = taken
  BY DEF KeyPressed, program
<1>3. /\ kb.buffer \in Seq(Cells) /\ cons \in Seq(Keys) /\ cons \in Seq(Cells)
      /\ taken \in Seq(Cells) /\ typed \in Seq(Cells) /\ <<ebx>> \in Seq(Cells)
      /\ << >> \in Seq(Cells) /\ key \in Cells
  BY KeySequences, Constants
<1>4. cons' \in Seq(Keys) /\ typed' \in Seq(Cells)
  BY <1>1, <1>3, AppendProperties
<1>5. Machine' /\ Program' /\ Spelled'
  BY <1>2, <1>4 DEF IInv, Machine, Program, Spelled, sched, program, memory
<1>6. Brought' = Brought /\ Brought \in Seq(Cells)
  BY <1>2, <1>3 DEF Brought, sched, program
<1>7. KeysInOrder'
  <2> DEFINE u == taken \o Brought \o kb.buffer
  <2>1. u \in Seq(Cells)
    BY <1>3, <1>6, JoinedCells
  <2>2. u \o Append(cons, key) = Append(u \o cons, key)
    <3> HIDE DEF u
    <3> QED
      BY <1>3, <2>1, TypedLemma
  <2>3. ~debug => u \o cons = typed
    BY DEF IInv, History, KeysInOrder
  <2> QED
    BY <1>1, <1>2, <1>6, <2>2, <2>3 DEF KeysInOrder, sched, program
<1> QED
  BY <1>2, <1>3, <1>4, <1>5, <1>7 DEF IInv, History, sched, program

LEMMA StepHolds == IInv /\ [Next]_vars => IInv'
<1> SUFFICES ASSUME IInv, [Next]_vars PROVE IInv'
  OBVIOUS
<1>1. CASE UNCHANGED vars
  <2>1. Machine' /\ Program'
    BY <1>1 DEF vars, sched, program, memory, IInv, Machine, Program
  <2>2. Spelled'
    BY <1>1 DEF vars, sched, program, memory, IInv, Spelled
  <2>3. History'
    BY <1>1 DEF vars, sched, program, memory, IInv, History, KeysInOrder, Brought
  <2> QED
    BY <2>1, <2>2, <2>3 DEF IInv
<1> QED
  BY <1>1, TimerStep, SysReadStep, PromptStep, VerdictStep, StoreStep, EchoStep,
     KeyPressedStep DEF Next, StepOfLogin

LEMMA Invariance == Spec => []IInv
BY InitHolds, StepHolds, PTL DEF Spec

-----------------------------------------------------------------------------
\* StrCmp compares the lines that two arrays hold.
LEMMA StrCmpLemma ==
  ASSUME NEW s \in Seq(Letters), NEW t \in Seq(Letters), NEW a, NEW b,
         Len(s) <= STR_MAX - 1, Len(t) <= STR_MAX - 1, Spells(a, s), Spells(b, t)
  PROVE  /\ StrCmp(a, b) <=> s = t
         /\ a[0] # JUNK /\ b[0] # JUNK
<1> USE Constants
<1>1. Len(s) \in Nat /\ Len(t) \in Nat
  BY LenProperties
<1>2. /\ a[Len(s)] = NUL /\ b[Len(t)] = NUL
      /\ \A i \in 1..Len(s) : a[i - 1] = s[i] /\ s[i] \in Letters
      /\ \A i \in 1..Len(t) : b[i - 1] = t[i] /\ t[i] \in Letters
  BY ElementOfSeq DEF Spells
<1>3. /\ \A i \in 0..(Len(s) - 1) : a[i] = s[i + 1] /\ a[i] \in Letters
      /\ \A i \in 0..(Len(t) - 1) : b[i] = t[i + 1] /\ b[i] \in Letters
  <2>1. ASSUME NEW i \in 0..(Len(s) - 1)
        PROVE  a[i] = s[i + 1] /\ a[i] \in Letters
    <3>1. i + 1 \in 1..Len(s) /\ (i + 1) - 1 = i
      BY <1>1
    <3> QED
      BY <1>2, <3>1
  <2>2. ASSUME NEW i \in 0..(Len(t) - 1)
        PROVE  b[i] = t[i + 1] /\ b[i] \in Letters
    <3>1. i + 1 \in 1..Len(t) /\ (i + 1) - 1 = i
      BY <1>1
    <3> QED
      BY <1>2, <3>1
  <2> QED
    BY <2>1, <2>2
<1>4. a[0] # JUNK /\ b[0] # JUNK
  <2>1. Len(s) = 0 \/ 0 \in 0..(Len(s) - 1)
    BY <1>1
  <2>2. Len(t) = 0 \/ 0 \in 0..(Len(t) - 1)
    BY <1>1
  <2> QED
    BY <1>2, <1>3, <2>1, <2>2
<1>5. ASSUME StrCmp(a, b)
      PROVE  s = t
  <2>1. PICK i \in 0..(STR_MAX - 1) :
          a[i] = NUL /\ b[i] = NUL /\ \A j \in 0..(i - 1) : a[j] = b[j]
    BY <1>5 DEF StrCmp
  <2>2. Len(s) <= i /\ Len(t) <= i
    <3>1. ~(i \in 0..(Len(s) - 1)) /\ ~(i \in 0..(Len(t) - 1))
      BY <1>3, <2>1
    <3> QED
      BY <1>1, <3>1
  <2>3. Len(s) = Len(t)
    <3>1. ~(Len(s) < Len(t))
      <4> SUFFICES ASSUME Len(s) < Len(t) PROVE FALSE
        OBVIOUS
      <4>1. Len(s) \in 0..(i - 1) /\ Len(s) \in 0..(Len(t) - 1)
        BY <1>1, <2>2
      <4> QED
        BY <1>2, <1>3, <2>1, <4>1
    <3>2. ~(Len(t) < Len(s))
      <4> SUFFICES ASSUME Len(t) < Len(s) PROVE FALSE
        OBVIOUS
      <4>1. Len(t) \in 0..(i - 1) /\ Len(t) \in 0..(Len(s) - 1)
        BY <1>1, <2>2
      <4> QED
        BY <1>2, <1>3, <2>1, <4>1
    <3> QED
      BY <1>1, <3>1, <3>2
  <2>4. ASSUME NEW j \in 1..Len(s)
        PROVE  s[j] = t[j]
    <3>1. j - 1 \in 0..(i - 1)
      BY <1>1, <2>2
    <3> QED
      BY <1>2, <2>1, <2>3, <3>1
  <2> QED
    BY <2>3, <2>4, SeqEqual
<1>6. ASSUME s = t
      PROVE  StrCmp(a, b)
  <2>1. Len(s) \in 0..(STR_MAX - 1)
    BY <1>1
  <2>2. \A j \in 0..(Len(s) - 1) : a[j] = b[j]
    BY <1>3, <1>6
  <2> QED
    BY <1>2, <1>6, <2>1, <2>2 DEF StrCmp
<1> QED
  BY <1>4, <1>5, <1>6

-----------------------------------------------------------------------------
\* The types of the tables of the kernel and of Login's memory: the index
\* never leaves the array, whatever is typed.
THEOREM KeyboardTypeCorrect == Spec => []TypeOK
<1>1. IInv => TypeOK
  BY LoginQueues
     DEF IInv, Machine, Tables, Placed, Running, Ready, Waits, Program, InRead, Array, TypeOK, Cells
<1> QED
  BY Invariance, <1>1, PTL

\* A key and a waiting process never miss each other between SysRead and KBSR.
THEOREM NoKeyMissed == Spec => []NoKeyForWaiter
<1>1. IInv => NoKeyForWaiter
  BY LoginQueues DEF IInv, Machine, Placed, Running, Ready, Waits, NoKeyForWaiter, QueEmpty
<1> QED
  BY Invariance, <1>1, PTL

\* Every key is received by sys_read once and in the order typed, unless EnQue
\* into a full kb.buffer has stopped the kernel.
THEOREM OrderCorrect == Spec => []KeysInOrder
<1>1. IInv => KeysInOrder
  BY DEF IInv, History
<1> QED
  BY Invariance, <1>1, PTL

\* The first line that Login reads is not where Login looks for it.
THEOREM FirstStringLost == Spec => []FirstStringMissed
<1>1. IInv => FirstStringMissed
  BY DEF IInv, Spelled, FirstStringMissed
<1> QED
  BY Invariance, <1>1, PTL

\* The first verdict is about a string that was not read.  After it, where the memory
\* at the top keeps the strings, sys_read and StrCmp together tell whether the last
\* two lines typed are equal.
THEOREM VerdictCorrect == Spec => VerdictIsRight
<1>1. IInv /\ [Next]_vars =>
        [at = "verdict" /\ at' # "verdict" =>
           /\ FirstStringMissed
           /\ shown # "none" /\ kept =>
                (shown' = "sucessful") = (line["login"] = line["passwd"])]_vars
  <2>0. IInv => FirstStringMissed
    BY DEF IInv, Spelled, FirstStringMissed
  <2> SUFFICES ASSUME IInv, Next, at = "verdict", at' # "verdict", shown # "none", kept
               PROVE  (shown' = "sucessful") = (line["login"] = line["passwd"])
    BY <2>0
  <2> DEFINE a == string[ebp]["login"]
             b == string[ebp]["passwd"]
             s == line["login"]
             t == line["passwd"]
  <2>1. SysWriteVerdict
    BY DEF Next, StepOfLogin, TimerSR, program, SysRead, Store, SysWritePrompt, SysWriteEcho,
           Calls, KeyPressed
  <2>2. PICK same \in Compared(a, b) : shown' = IF same THEN "sucessful" ELSE "failed"
    BY <2>1 DEF SysWriteVerdict
  <2>3. /\ s \in Seq(Letters) /\ t \in Seq(Letters)
        /\ Len(s) <= STR_MAX - 1 /\ Len(t) <= STR_MAX - 1
        /\ Spells(a, s) /\ Spells(b, t)
    BY DEF IInv, Spelled, Lines
  <2> HIDE DEF a, b, s, t
  <2>4. /\ StrCmp(a, b) <=> s = t
        /\ a[0] # JUNK /\ b[0] # JUNK
    BY <2>3, StrCmpLemma
  <2>5. same = StrCmp(a, b)
    BY <2>2, <2>4 DEF Compared
  <2>6. (shown' = "sucessful") <=> StrCmp(a, b)
    BY <2>2, <2>5
  <2>7. (shown' = "sucessful") = (s = t)
    BY <2>4, <2>6
  <2> QED
    BY <2>7 DEF s, t
<1> QED
  BY Invariance, <1>1, PTL DEF Spec, VerdictIsRight
=============================================================================
