---------------------------- MODULE SignalsProofs ----------------------------
(***************************************************************************)
(* For every number of children and columns, and ticks at any moment: the  *)
(* handler race of Signals.tla keeps the video mutex exclusive, draws      *)
(* where the cursor was placed, and handles each exit once.                *)
(*                                                                         *)
(* A stack is read by heights: pushing or popping an activation renames no *)
(* other, so an action changes one height of one process (AdvanceEffect,   *)
(* PushEffect, ...) and each part of the inductive invariant IInv follows  *)
(* from what that one change does to it.                                   *)
(***************************************************************************)
EXTENDS Signals, QueueProofs

States == {"AVAIL", "READY", "RUN", "SLEEP", "SUSPEND", "WAIT", "ZOMBIE"}

\* The processes a table st has in state s.
In(st, s) == {p \in Procs : st[p] = s}

\* The tables agree on who wants the CPU while run_pid is rp.
Lined(rp, st, rq) ==
  /\ st \in [Procs -> States] /\ rq \in Seq(Procs)
  /\ Holds(rq, In(st, "READY"))
  /\ In(st, "RUN") = IF rp > IDLE THEN {rp} ELSE {}

SchedInv == run_pid \in {IDLE} \cup Procs /\ Lined(run_pid, state, ready_que)

\* The pids avail_que ever holds; those of no process stay free.
Pool == 2..(QUE_MAX - 1)
Spare == Pool \ Procs

\* The places of the three texts, and the activations that stacks s make of them.
Places(text, n) == [text : {text}, at : 1..n, col : Nat]
Place == Places("init", 10) \cup Places("child", 13) \cup Places("handler", 8)
Stacks == [Procs -> Seq(Place)]
Acts(s) == UNION {{<<p, h>> : h \in 1..Len(s[p])} : p \in Procs}
Frame(s, x) == s[x[1]][Len(s[x[1]]) - x[2] + 1]
Susp(s, st, x) ==
  /\ st[x[1]] = "SUSPEND" /\ Op(Frame(s, x)) # "wait"
  /\ \A y \in Acts(s) : y[1] = x[1] /\ y[2] > x[2] => Op(Frame(s, y)) = "wait"
Section == {"set_cursor", "write", "unlock"}
Crit(s, st, x) == Op(Frame(s, x)) \in Section /\ ~Susp(s, st, x)
WaitsIn(s) == {x \in Acts(s) : Op(Frame(s, x)) = "wait"}
Gone(st, p) == st[p] \in {"AVAIL", "ZOMBIE"}

\* Everybody suspended is in suspend_que, every free pid in avail_que.
Queued(st, aq, sq) ==
  /\ sq \in Seq(Procs) /\ Holds(sq, In(st, "SUSPEND"))
  /\ aq \in Seq(Pool) /\ Holds(aq, In(st, "AVAIL") \cup Spare)

\* The parent has Init at the bottom and handlers on top of it; a child that
\* has not exited has its one activation.
Shape(s, st) ==
  /\ s \in Stacks
  /\ Len(s[Parent]) >= 1
  /\ \A h \in 1..Len(s[Parent]) :
       Frame(s, <<Parent, h>>).text = IF h = 1 THEN "init" ELSE "handler"
  /\ ~Gone(st, Parent) /\ st[Parent] # "WAIT"
  /\ \A c \in Child :
       /\ st[c] # "WAIT"
       /\ Gone(st, c) => s[c] = << >>
       /\ ~Gone(st, c) => Len(s[c]) = 1 /\ Frame(s, <<c, 1>>).text = "child"

\* Where the program Init has come to, whatever lies on top of it.
Root(s) == Frame(s, <<Parent, 1>>)

\* While Init forks, the pids come out of avail_que in order and no child gets
\* past its first sleep; so nobody exits before the handler is set.
Forked(s, st, aq, hd) ==
  /\ hd \in BOOLEAN /\ (hd <=> Root(s).at > 1)
  /\ Root(s).at = 1 => Root(s).col = 0
  /\ Root(s).at <= 2 =>
       /\ Len(s[Parent]) = 1 /\ Root(s).col < CHILDREN
       /\ Len(aq) = QUE_MAX - 2 - Root(s).col
       /\ \A i \in 1..Len(aq) : aq[i] = Root(s).col + i + 1
       /\ \A c \in Child :
            /\ st[c] # "ZOMBIE"
            /\ st[c] # "AVAIL" =>
                 /\ Frame(s, <<c, 1>>).at \in 1..3
                 /\ Frame(s, <<c, 1>>).at = 3 => st[c] = "SLEEP"

\* Who is suspended has just called sys_lock_mutex, and a free mutex has nobody
\* inside and nobody waiting; one is inside at most, and draws where it said.
Guarded(s, st, lk, sq, cur) ==
  /\ lk \in {"LOCKED", "UNLOCKED"}
  /\ lk = "UNLOCKED" => sq = << >> /\ \A x \in Acts(s) : ~Crit(s, st, x)
  /\ \A x, y \in Acts(s) : Crit(s, st, x) /\ Crit(s, st, y) => x = y
  /\ \A x \in Acts(s) : Susp(s, st, x) => Op(Frame(s, x)) = "set_cursor"
  /\ \A x \in Acts(s) : Op(Frame(s, x)) = "write" /\ ~Susp(s, st, x) => cur = x
  /\ cur \in ({IDLE} \cup Procs) \X Nat

\* As many handlers have yet to call sys_wait as there are zombies.
Counted(s, st) ==
  IsFiniteSet(WaitsIn(s)) /\ Cardinality(WaitsIn(s)) = Cardinality(In(st, "ZOMBIE"))

Good(s, st, aq, hd, lk, sq, cur) ==
  /\ Queued(st, aq, sq) /\ Shape(s, st) /\ Forked(s, st, aq, hd)
  /\ Guarded(s, st, lk, sq, cur) /\ Counted(s, st)

IInv == SchedInv /\ Good(stack, state, avail_que, handler, lock, suspend_que, sys_cursor)

-----------------------------------------------------------------------------
\* Idle, Init and the children are distinct processes, and there is at least one child.
LEMMA PidFacts ==
  /\ CHILDREN \in Nat /\ CHILDREN >= 1 /\ QUE_MAX \in Nat /\ QUE_MAX >= CHILDREN + 2
  /\ Procs = 1..(CHILDREN + 1) /\ Parent \in Procs /\ Parent \notin Child /\ Child \subseteq Procs
  /\ \A p \in Procs : p # Parent => p \in Child
  /\ IDLE \notin Procs /\ Procs \subseteq Int /\ Pool \subseteq Int
  /\ IsFiniteSet(Procs) /\ Cardinality(Procs) <= QUE_MAX
  /\ IsFiniteSet(Pool) /\ Cardinality(Pool) <= QUE_MAX
  /\ Child \subseteq Pool /\ IsFiniteSet(Child)
  /\ \A p \in Procs : p > IDLE
  /\ ~(NONE > IDLE) /\ ~(IDLE > IDLE)
<1>1. CHILDREN \in Nat /\ CHILDREN >= 1 /\ QUE_MAX \in Nat /\ QUE_MAX >= CHILDREN + 2
  BY SignalsAssumption
<1>2. Procs = 1..(CHILDREN + 1) /\ Parent \in Procs /\ Parent \notin Child /\ Child \subseteq Procs
  BY <1>1 DEF Procs, Parent, Child
<1>3. IsFiniteSet(Procs) /\ Cardinality(Procs) = CHILDREN + 1
  BY <1>1, <1>2, FS_Interval
<1>4. IsFiniteSet(Pool) /\ Cardinality(Pool) <= QUE_MAX
  BY <1>1, FS_Interval DEF Pool
<1>5. IsFiniteSet(Child)
  BY <1>2, <1>3, FS_Subset
<1>6. Child \subseteq Pool
  BY <1>1 DEF Child, Pool
<1> QED
  BY <1>1, <1>2, <1>3, <1>4, <1>5, <1>6 DEF Procs, Child, Pool, IDLE, NONE

\* The calls of the texts, place by place.
LEMMA TextCalls ==
  /\ \A a \in Places("init", 10) :
       /\ a.at = 1 => Op(a) = "signal"
       /\ a.at = 2 => Op(a) = "fork"
       /\ a.at = 3 => Op(a) = "get_pid"
       /\ a.at \in {4, 10} => Op(a) = "sleep"
       /\ a.at = 5 => Op(a) = "kill"
       /\ a.at = 6 => Op(a) = "lock"
       /\ a.at = 7 => Op(a) = "set_cursor"
       /\ a.at = 8 => Op(a) = "write"
       /\ a.at = 9 => Op(a) = "unlock"
  /\ \A a \in Places("child", 13) :
       /\ a.at = 1 => Op(a) = "get_pid"
       /\ a.at = 2 => Op(a) = "nap"
       /\ a.at \in {3, 9} => Op(a) = "lock"
       /\ a.at \in {4, 10} => Op(a) = "set_cursor"
       /\ a.at \in {5, 11} => Op(a) = "write"
       /\ a.at \in {6, 12} => Op(a) = "unlock"
       /\ a.at = 7 => Op(a) = "get_rand"
       /\ a.at = 8 => Op(a) = "sleep"
       /\ a.at = 13 => Op(a) = "exit"
  /\ \A a \in Places("handler", 8) :
       /\ a.at = 1 => Op(a) = "wait"
       /\ a.at = 2 => Op(a) = "lock"
       /\ a.at = 3 => Op(a) = "set_cursor"
       /\ a.at \in {4, 5, 6} => Op(a) = "write"
       /\ a.at = 7 => Op(a) = "unlock"
       /\ a.at = 8 => Op(a) = "return"
BY DEF Op, Text, Places

\* How long the three program texts are.
LEMMA TextLengths ==
  DOMAIN Text["init"] = 1..10 /\ DOMAIN Text["child"] = 1..13 /\ DOMAIN Text["handler"] = 1..8
BY DEF Text

\* Where each text goes on.
LEMMA ResumedPlaces ==
  ASSUME NEW a \in Place, Op(a) \notin {"return", "exit"}
  PROVE  /\ Resumed(a) \in Place /\ Resumed(a).text = a.text
         /\ a.text = "init" =>
              /\ a \in Places("init", 10) /\ Resumed(a) \in Places("init", 10)
              /\ a.at = 2 /\ a.col + 1 < CHILDREN => Resumed(a).at = 2 /\ Resumed(a).col = a.col + 1
              /\ a.at = 2 /\ ~(a.col + 1 < CHILDREN) => Resumed(a).at = 3
              /\ a.at = 10 => Resumed(a).at = 6
              /\ a.at \notin {2, 10} => Resumed(a).at = a.at + 1 /\ Resumed(a).col = a.col
         /\ a.text = "child" =>
              /\ a \in Places("child", 13) /\ Resumed(a) \in Places("child", 13)
              /\ a.at = 12 => Resumed(a).at \in {3, 13}
              /\ a.at # 12 => Resumed(a).at = a.at + 1
         /\ a.text = "handler" =>
              /\ a \in Places("handler", 8) /\ Resumed(a) \in Places("handler", 8)
              /\ Resumed(a).at = a.at + 1
<1>1. CASE a \in Places("init", 10)
  <2>1. Len(Text.init) = 10
    BY DEF Text
  <2>2. a.text = "init" /\ a.at \in 1..10 /\ a.col \in Nat
    BY <1>1 DEF Places
  <2>3. CHILDREN \in Nat
    BY PidFacts
  <2> QED
    BY <1>1, <2>1, <2>2, <2>3 DEF Resumed, Places, Place
<1>2. CASE a \in Places("child", 13)
  <2>1. a.text = "child" /\ a.at \in 1..12 /\ a.col \in Nat
    BY <1>2, TextCalls DEF Places
  <2>2. Resumed(a) = IF a.at = 12 /\ a.col + 1 < COLS THEN [a EXCEPT !.at = 3, !.col = @ + 1]
                                                      ELSE [a EXCEPT !.at = @ + 1]
    BY <2>1 DEF Resumed
  <2>3. Resumed(a) \in Places("child", 13)
    <3> DEFINE b == [a EXCEPT !.at = 3]
    <3>1. b \in Places("child", 13)
      BY <1>2, <2>1 DEF Places
    <3>2. [b EXCEPT !.col = a.col + 1] \in Places("child", 13)
      <4>1. a.col + 1 \in Nat
        BY <2>1
      <4> HIDE DEF b
      <4> QED
        BY <3>1, <4>1 DEF Places
    <3>3. [a EXCEPT !.at = 3, !.col = a.col + 1] = [b EXCEPT !.col = a.col + 1]
      OBVIOUS
    <3>4. [a EXCEPT !.at = 3, !.col = a.col + 1] \in Places("child", 13)
      BY <3>2, <3>3
    <3>5. [a EXCEPT !.at = a.at + 1] \in Places("child", 13)
      BY <1>2, <2>1 DEF Places
    <3> QED
      BY <2>2, <3>4, <3>5
  <2>4. Resumed(a).text = "child"
    BY <2>3 DEF Places
  <2>5. /\ a.at = 12 => Resumed(a).at \in {3, 13}
        /\ a.at # 12 => Resumed(a).at = a.at + 1
    BY <1>2, <2>1, <2>2 DEF Places
  <2> QED
    BY <1>2, <2>1, <2>3, <2>4, <2>5 DEF Place
<1>3. CASE a \in Places("handler", 8)
  <2>1. a.text = "handler" /\ a.at \in 1..7 /\ a.col \in Nat
    BY <1>3, TextCalls DEF Places
  <2> QED
    BY <1>3, <2>1 DEF Resumed, Places, Place
<1> QED
  BY <1>1, <1>2, <1>3 DEF Place

\* What a call leads to: the section is entered by a lock, left by an unlock,
\* and run through in between.
LEMMA NextCalls ==
  ASSUME NEW a \in Place, Op(a) \notin {"return", "exit"}
  PROVE  /\ Op(Resumed(a)) # "wait"
         /\ Op(a) = "lock" => Op(Resumed(a)) = "set_cursor"
         /\ Op(a) = "set_cursor" => Op(Resumed(a)) = "write"
         /\ Op(a) = "write" => Op(Resumed(a)) \in {"write", "unlock"}
         /\ Op(a) \notin {"lock", "set_cursor", "write"} => Op(Resumed(a)) \notin Section
<1> DEFINE b == Resumed(a)
<1>1. CASE a.text = "init"
  <2>1. a \in Places("init", 10) /\ b \in Places("init", 10)
    BY <1>1, ResumedPlaces
  <2>2. a.at \in 1..10
    BY <2>1 DEF Places
  <2>3. b.at = IF a.at = 10 THEN 6 ELSE IF a.at = 2 THEN b.at ELSE a.at + 1
    BY <1>1, <2>2, ResumedPlaces
  <2>4. a.at = 2 => b.at \in {2, 3}
    BY <1>1, <2>2, ResumedPlaces
  <2> HIDE DEF b
  <2>5. /\ Op(b) # "wait"
        /\ Op(a) = "lock" => Op(b) = "set_cursor"
        /\ Op(a) = "set_cursor" => Op(b) = "write"
        /\ Op(a) = "write" => Op(b) \in {"write", "unlock"}
        /\ Op(a) \notin {"lock", "set_cursor", "write"} => Op(b) \notin Section
    BY <2>1, <2>2, <2>3, <2>4, TextCalls DEF Section
  <2> QED
    BY <2>5 DEF b
<1>2. CASE a.text = "child"
  <2>1. a \in Places("child", 13) /\ b \in Places("child", 13)
    BY <1>2, ResumedPlaces
  <2>2. a.at \in 1..12
    BY <2>1, TextCalls DEF Places
  <2>3. /\ a.at = 12 => b.at \in {3, 13}
        /\ a.at # 12 => b.at = a.at + 1
    BY <1>2, ResumedPlaces
  <2> HIDE DEF b
  <2>4. /\ Op(b) # "wait"
        /\ Op(a) = "lock" => Op(b) = "set_cursor"
        /\ Op(a) = "set_cursor" => Op(b) = "write"
        /\ Op(a) = "write" => Op(b) \in {"write", "unlock"}
        /\ Op(a) \notin {"lock", "set_cursor", "write"} => Op(b) \notin Section
    BY <2>1, <2>2, <2>3, TextCalls DEF Section
  <2> QED
    BY <2>4 DEF b
<1>3. CASE a.text = "handler"
  <2>1. a \in Places("handler", 8) /\ b \in Places("handler", 8)
    BY <1>3, ResumedPlaces
  <2>2. a.at \in 1..7
    BY <2>1, TextCalls DEF Places
  <2>3. b.at = a.at + 1
    BY <1>3, ResumedPlaces
  <2> HIDE DEF b
  <2>4. /\ Op(b) # "wait"
        /\ Op(a) = "lock" => Op(b) = "set_cursor"
        /\ Op(a) = "set_cursor" => Op(b) = "write"
        /\ Op(a) = "write" => Op(b) \in {"write", "unlock"}
        /\ Op(a) \notin {"lock", "set_cursor", "write"} => Op(b) \notin Section
    BY <2>1, <2>2, <2>3, TextCalls DEF Section
  <2> QED
    BY <2>4 DEF b
<1> QED
  BY <1>1, <1>2, <1>3 DEF Place, Places

\* Which text makes which call.
LEMMA CallTexts ==
  ASSUME NEW a \in Place
  PROVE  /\ a.text = "init" => a \in Places("init", 10)
         /\ a.text = "child" => a \in Places("child", 13)
         /\ a.text = "handler" => a \in Places("handler", 8)
         /\ a.text \in {"init", "child", "handler"}
         /\ Op(a) = "fork" => a.text = "init" /\ a.at = 2
         /\ Op(a) = "signal" => a.text = "init" /\ a.at = 1
         /\ Op(a) = "kill" => a.text = "init" /\ a.at = 5
         /\ Op(a) = "wait" => a.text = "handler" /\ a.at = 1
         /\ Op(a) = "return" => a.text = "handler"
         /\ Op(a) = "exit" => a.text = "child" /\ a.at = 13
         /\ a.text = "init" /\ a.at <= 2 => Op(a) \in {"signal", "fork"}
         /\ a.text = "child" /\ a.at = 2 => Op(a) = "nap"
         /\ a.text = "child" /\ a.at = 1 => Op(a) = "get_pid"
         /\ Op(a) \in {"nap"} => a.text = "child" /\ a.at = 2
<1>1. /\ a.text = "init" => a \in Places("init", 10)
      /\ a.text = "child" => a \in Places("child", 13)
      /\ a.text = "handler" => a \in Places("handler", 8)
      /\ a.text \in {"init", "child", "handler"}
  BY DEF Place, Places
<1>2. CASE a.text = "init"
  <2>1. a \in Places("init", 10) /\ a.at \in 1..10
    BY <1>1, <1>2 DEF Places
  <2> QED
    BY <1>1, <1>2, <2>1, TextCalls
<1>3. CASE a.text = "child"
  <2>1. a \in Places("child", 13) /\ a.at \in 1..13
    BY <1>1, <1>3 DEF Places
  <2> QED
    BY <1>1, <1>3, <2>1, TextCalls
<1>4. CASE a.text = "handler"
  <2>1. a \in Places("handler", 8) /\ a.at \in 1..8
    BY <1>1, <1>4 DEF Places
  <2> QED
    BY <1>1, <1>4, <2>1, TextCalls
<1> QED
  BY <1>1, <1>2, <1>3, <1>4

-----------------------------------------------------------------------------
\* Tables that differ in who is ready and who runs only.
Like(st, st2) ==
  /\ st2 \in [Procs -> States]
  /\ \A p \in Procs : \A v \in States \ {"READY", "RUN"} : st2[p] = v <=> st[p] = v

\* Scheduler() and the moves of the service routines.
LEMMA SchedulerLemma ==
  ASSUME NEW rp \in {NONE, IDLE} \cup Procs, NEW st, NEW rq, Lined(rp, st, rq),
         Scheduler(rp, st, rq)
  PROVE  SchedInv' /\ Like(st, state')
<1> USE PidFacts
<1>1. CASE rp > IDLE
  <2>1. rp \in Procs
    BY <1>1
  <2>2. run_pid' = rp /\ state' = st /\ ready_que' = rq
    BY <1>1 DEF Scheduler
  <2> QED
    BY <1>1, <2>1, <2>2 DEF SchedInv, Lined, Like
<1>2. CASE ~(rp > IDLE) /\ QueEmpty(rq)
  <2>1. run_pid' = IDLE /\ state' = st /\ ready_que' = rq
    BY <1>2 DEF Scheduler
  <2> QED
    BY <1>2, <2>1 DEF SchedInv, Lined, Like
<1>3. CASE ~(rp > IDLE) /\ ~QueEmpty(rq)
  <2> DEFINE h == Head(rq)
  <2>1. run_pid' = h /\ state' = [st EXCEPT ![h] = "RUN"] /\ ready_que' = Tail(rq)
    BY <1>3 DEF Scheduler, AfterDeQue
  <2>2. /\ rq \in Seq(Procs) /\ Holds(rq, In(st, "READY")) /\ In(st, "RUN") = {}
        /\ st \in [Procs -> States]
    BY <1>3 DEF Lined
  <2>3. /\ h \in In(st, "READY") /\ h \in Procs /\ Tail(rq) \in Seq(Procs)
        /\ Holds(Tail(rq), In(st, "READY") \ {h})
    BY <1>3, <2>2, HoldsTail DEF QueEmpty
  <2> HIDE DEF h
  <2>4. st[h] = "READY" /\ h > IDLE
    BY <2>3 DEF In
  <2>5. /\ state' \in [Procs -> States] /\ In(state', "READY") = In(st, "READY") \ {h}
        /\ In(state', "RUN") = {h}
    BY <2>1, <2>2, <2>3, <2>4 DEF In, States
  <2>6. SchedInv'
    BY <2>1, <2>3, <2>4, <2>5 DEF SchedInv, Lined
  <2>7. Like(st, state')
    BY <2>1, <2>2, <2>3, <2>4, <2>5 DEF Like, States
  <2> QED
    BY <2>6, <2>7
<1> QED
  BY <1>1, <1>2, <1>3

Put(st, p, s) == [st EXCEPT ![p] = s]
Wake(st, B) == [p \in Procs |-> IF p \in B THEN "READY" ELSE st[p]]

\* There is always room for a process that is not in the queue.
LEMMA EnQueProc ==
  ASSUME NEW q \in Seq(Procs), NEW S \in SUBSET Procs, Holds(q, S), NEW x \in Procs, x \notin S
  PROVE  EnQue(q, x) \in Seq(Procs) /\ Holds(EnQue(q, x), S \cup {x})
<1>1. S \cup {x} \subseteq Procs
  OBVIOUS
<1>2. QUE_MAX \in Nat /\ IsFiniteSet(Procs) /\ Cardinality(Procs) <= QUE_MAX
  BY PidFacts
<1> QED
  BY <1>1, <1>2, EnQueHolds

\* One process becomes ready that was neither ready nor running.
LEMMA ReadyLemma ==
  ASSUME NEW rp, NEW st, NEW rq, Lined(rp, st, rq), NEW p \in Procs,
         st[p] \notin {"READY", "RUN"}
  PROVE  Lined(rp, Put(st, p, "READY"), EnQue(rq, p))
<1> DEFINE st2 == Put(st, p, "READY")
<1>1. /\ st2 \in [Procs -> States] /\ In(st2, "READY") = In(st, "READY") \cup {p}
      /\ In(st2, "RUN") = In(st, "RUN") /\ p \notin In(st, "READY")
  BY DEF Lined, Put, In, States
<1>2. rq \in Seq(Procs) /\ Holds(rq, In(st, "READY")) /\ In(st, "READY") \in SUBSET Procs
  BY DEF Lined, In
<1>3. EnQue(rq, p) \in Seq(Procs) /\ Holds(EnQue(rq, p), In(st, "READY") \cup {p})
  BY <1>1, <1>2, EnQueProc
<1> QED
  BY <1>1, <1>3 DEF Lined

\* A set of sleepers becomes ready.
LEMMA ReadyAllLemma ==
  ASSUME NEW rp, NEW st, NEW rq, Lined(rp, st, rq), NEW B \in SUBSET Procs,
         \A p \in B : st[p] = "SLEEP", NEW batch \in InOrder(B)
  PROVE  Lined(rp, Wake(st, B), EnQueAll(rq, batch))
<1> DEFINE st2 == Wake(st, B)
<1>1. /\ st2 \in [Procs -> States] /\ In(st2, "READY") = In(st, "READY") \cup B
      /\ In(st2, "RUN") = In(st, "RUN") /\ In(st, "READY") \cap B = {}
  BY DEF Lined, Wake, In, States
<1>2. rq \in Seq(Procs) /\ Holds(rq, In(st, "READY")) /\ In(st, "READY") \cup B \subseteq Procs
  BY DEF Lined, In
<1>3. batch \in Seq(B) /\ Holds(batch, B)
  <2>1. IsFiniteSet(B) /\ B \subseteq Int
    BY PidFacts, FS_Subset
  <2> QED
    BY <2>1, InOrderHolds
<1>4. batch \in Seq(Procs)
  BY <1>3, SeqMonotonic
<1>5. QUE_MAX \in Nat /\ IsFiniteSet(Procs) /\ Cardinality(Procs) <= QUE_MAX
  BY PidFacts
<1>6. /\ EnQueAll(rq, batch) \in Seq(Procs)
      /\ Holds(EnQueAll(rq, batch), In(st, "READY") \cup B)
  <2> HIDE DEF st2
  <2> QED
    BY <1>1, <1>2, <1>3, <1>4, <1>5, EnQueAllHolds
<1> QED
  BY <1>1, <1>6 DEF Lined

\* The running process leaves the CPU for a state s that is neither.
LEMMA ParkLemma ==
  ASSUME NEW r \in Procs, NEW st, NEW rq, Lined(r, st, rq), NEW s \in States \ {"READY", "RUN"}
  PROVE  Lined(NONE, Put(st, r, s), rq) /\ st[r] = "RUN"
<1> USE PidFacts
<1>1. In(st, "RUN") = {r} /\ st \in [Procs -> States] /\ st[r] = "RUN"
  BY DEF Lined, In
<1>2. /\ Put(st, r, s) \in [Procs -> States] /\ In(Put(st, r, s), "READY") = In(st, "READY")
      /\ In(Put(st, r, s), "RUN") = {}
  BY <1>1 DEF Put, In
<1> QED
  BY <1>1, <1>2 DEF Lined

\* The running process joins the ready queue.
LEMMA DemoteLemma ==
  ASSUME run_pid \in Procs, NEW st, NEW rq, Lined(run_pid, st, rq), Demote(st, rq)
  PROVE  SchedInv' /\ st[run_pid] = "RUN" /\ Like(st, state')
<1> USE PidFacts
<1> DEFINE st2 == Put(st, run_pid, "READY")
<1>1. /\ In(st, "RUN") = {run_pid} /\ st \in [Procs -> States] /\ st[run_pid] = "RUN"
      /\ \A p \in Procs : st[p] = "RUN" => p = run_pid
  BY DEF Lined, In
<1>2. /\ st2 \in [Procs -> States] /\ In(st2, "READY") = In(st, "READY") \cup {run_pid}
      /\ In(st2, "RUN") = {} /\ run_pid \notin In(st, "READY")
      /\ \A p \in Procs : st2[p] = IF p = run_pid THEN "READY" ELSE st[p]
  BY <1>1 DEF Put, In, States
<1>3. rq \in Seq(Procs) /\ Holds(rq, In(st, "READY")) /\ In(st, "READY") \in SUBSET Procs
  BY DEF Lined, In
<1>4. EnQue(rq, run_pid) \in Seq(Procs) /\ Holds(EnQue(rq, run_pid), In(st, "READY") \cup {run_pid})
  BY <1>2, <1>3, EnQueProc
<1>5. Lined(NONE, st2, EnQue(rq, run_pid))
  BY <1>2, <1>4 DEF Lined
<1>6. Scheduler(NONE, st2, EnQue(rq, run_pid))
  BY DEF Demote, Put
<1> HIDE DEF st2
<1>7. SchedInv' /\ Like(st2, state')
  BY <1>5, <1>6, SchedulerLemma
<1>8. Like(st, state')
  BY <1>1, <1>2, <1>7 DEF Like
<1> QED
  BY <1>1, <1>7, <1>8

-----------------------------------------------------------------------------
\* What is in Acts(s).
LEMMA ActsMembers ==
  ASSUME NEW s \in Stacks
  PROVE  /\ \A p \in Procs : \A h : <<p, h>> \in Acts(s) <=> h \in 1..Len(s[p])
         /\ \A x \in Acts(s) :
              /\ x = <<x[1], x[2]>> /\ x[1] \in Procs /\ x[2] \in 1..Len(s[x[1]])
              /\ Frame(s, x) \in Place
         /\ \A p \in Procs : Len(s[p]) \in Nat /\ s[p] \in Seq(Place)
<1>1. \A p \in Procs : Len(s[p]) \in Nat /\ s[p] \in Seq(Place)
  BY LenProperties DEF Stacks
<1>2. \A p \in Procs : \A h : <<p, h>> \in Acts(s) <=> h \in 1..Len(s[p])
  BY DEF Acts
<1>3. ASSUME NEW x \in Acts(s)
      PROVE  /\ x = <<x[1], x[2]>> /\ x[1] \in Procs /\ x[2] \in 1..Len(s[x[1]])
             /\ Frame(s, x) \in Place
  <2>0. PICK p \in Procs : x \in {<<p, h>> : h \in 1..Len(s[p])}
    BY DEF Acts
  <2>1. PICK h \in 1..Len(s[p]) : x = <<p, h>>
    BY <2>0
  <2>2. x[1] = p /\ x[2] = h
    BY <2>1
  <2>3. Len(s[p]) - h + 1 \in 1..Len(s[p])
    BY <1>1, <2>1
  <2>4. s[p][Len(s[p]) - h + 1] \in Place
    BY <1>1, <2>3, ElementOfSeq
  <2> QED
    BY <2>1, <2>2, <2>4 DEF Frame
<1> QED
  BY <1>1, <1>2, <1>3

\* Other processes are as they were: their activations too.
LEMMA OtherFrames ==
  ASSUME NEW s \in Stacks, NEW t \in Stacks, NEW p \in Procs, t[p] = s[p]
  PROVE  /\ \A h : <<p, h>> \in Acts(t) <=> <<p, h>> \in Acts(s)
         /\ \A h : Frame(t, <<p, h>>) = Frame(s, <<p, h>>)
BY ActsMembers DEF Frame

\* The sequences behind an advance, a push and a pop.
LEMMA Sequels ==
  ASSUME NEW q \in Seq(Place), NEW b \in Place
  PROVE  /\ Len(q) \in Nat
         /\ <<b>> \o q \in Seq(Place) /\ Len(<<b>> \o q) = Len(q) + 1
         /\ (<<b>> \o q)[1] = b /\ \A i \in 1..Len(q) : (<<b>> \o q)[i + 1] = q[i]
         /\ q # << >> =>
              /\ Len(q) >= 1 /\ Head(q) = q[1]
              /\ Tail(q) \in Seq(Place) /\ Len(Tail(q)) = Len(q) - 1
              /\ \A i \in 1..(Len(q) - 1) : Tail(q)[i] = q[i + 1]
              /\ <<b>> \o Tail(q) \in Seq(Place) /\ Len(<<b>> \o Tail(q)) = Len(q)
              /\ (<<b>> \o Tail(q))[1] = b
              /\ \A i \in 2..Len(q) : (<<b>> \o Tail(q))[i] = q[i]
<1>1. Len(q) \in Nat
  BY LenProperties
<1>2. <<b>> \in Seq(Place) /\ Len(<<b>>) = 1 /\ <<b>>[1] = b
  OBVIOUS
<1>3. ASSUME NEW r \in Seq(Place)
      PROVE  /\ <<b>> \o r \in Seq(Place) /\ Len(<<b>> \o r) = Len(r) + 1
             /\ (<<b>> \o r)[1] = b /\ \A i \in 1..Len(r) : (<<b>> \o r)[i + 1] = r[i]
  <2>1. /\ <<b>> \o r \in Seq(Place) /\ Len(<<b>> \o r) = Len(<<b>>) + Len(r) /\ Len(r) \in Nat
        /\ \A i \in 1..(Len(<<b>>) + Len(r)) :
             (<<b>> \o r)[i] = IF i <= Len(<<b>>) THEN <<b>>[i] ELSE r[i - Len(<<b>>)]
    BY <1>2, ConcatProperties, LenProperties
  <2> DEFINE c == <<b>> \o r
  <2>2. /\ c \in Seq(Place) /\ Len(c) = 1 + Len(r) /\ Len(r) \in Nat
        /\ \A i \in 1..(1 + Len(r)) : c[i] = IF i <= 1 THEN <<b>>[i] ELSE r[i - 1]
    BY <1>2, <2>1
  <2> HIDE DEF c
  <2>3. c[1] = b /\ \A i \in 1..Len(r) : c[i + 1] = r[i]
    BY <1>2, <2>2
  <2> QED
    BY <2>2, <2>3 DEF c
<1>4. ASSUME q # << >>
      PROVE  /\ Len(q) >= 1 /\ Head(q) = q[1]
             /\ Tail(q) \in Seq(Place) /\ Len(Tail(q)) = Len(q) - 1
             /\ \A i \in 1..(Len(q) - 1) : Tail(q)[i] = q[i + 1]
  <2>1. Len(q) # 0
    BY <1>4, EmptySeq
  <2>2. /\ Tail(q) \in Seq(Place) /\ Len(Tail(q)) = Len(q) - 1 /\ Head(q) = q[1]
        /\ \A i \in 1..Len(Tail(q)) : Tail(q)[i] = q[i + 1]
    BY <1>4, HeadTailProperties
  <2> QED
    BY <1>1, <2>1, <2>2
<1>5. ASSUME q # << >>
      PROVE  /\ <<b>> \o Tail(q) \in Seq(Place) /\ Len(<<b>> \o Tail(q)) = Len(q)
             /\ (<<b>> \o Tail(q))[1] = b
             /\ \A i \in 2..Len(q) : (<<b>> \o Tail(q))[i] = q[i]
  <2> DEFINE r == Tail(q)
             c == <<b>> \o r
  <2>1. /\ r \in Seq(Place) /\ Len(r) = Len(q) - 1
        /\ \A i \in 1..(Len(q) - 1) : r[i] = q[i + 1]
    BY <1>4, <1>5
  <2> HIDE DEF r
  <2>2. /\ c \in Seq(Place) /\ Len(c) = Len(r) + 1 /\ c[1] = b
        /\ \A i \in 1..Len(r) : c[i + 1] = r[i]
    BY <1>3, <2>1
  <2> HIDE DEF c
  <2>3. Len(c) = Len(q)
    BY <1>1, <2>1, <2>2
  <2>4. ASSUME NEW i \in 2..Len(q)
        PROVE  c[i] = q[i]
    <3> DEFINE j == i - 1
    <3>1. j \in 1..Len(r) /\ j \in 1..(Len(q) - 1) /\ i = j + 1
      BY <1>1, <2>1
    <3> HIDE DEF j
    <3> QED
      BY <2>1, <2>2, <3>1
  <2> QED
    BY <2>2, <2>3, <2>4 DEF c, r
<1> QED
  BY <1>1, <1>3, <1>4, <1>5

\* What an action does to the stack of p: the top activation goes on at b, b is
\* put on top, the top is taken off.
Replaced(s, t, p, b) == t = [s EXCEPT ![p] = <<b>> \o Tail(s[p])]
Pushed(s, t, p, b) == t = [s EXCEPT ![p] = <<b>> \o s[p]]
Popped(s, t, p) == t = [s EXCEPT ![p] = Tail(s[p])]
Tip(s, p) == <<p, Len(s[p])>>

\* The top activation of p is replaced by b: only its height changes.
LEMMA AdvanceEffect ==
  ASSUME NEW s \in Stacks, NEW p \in Procs, s[p] # << >>, NEW b \in Place,
         NEW t, Replaced(s, t, p, b)
  PROVE  /\ t \in Stacks /\ Acts(t) = Acts(s)
         /\ Tip(s, p) \in Acts(s) /\ Frame(s, Tip(s, p)) = Head(s[p])
         /\ Len(t[p]) = Len(s[p]) /\ \A q \in Procs : q # p => t[q] = s[q]
         /\ \A x \in Acts(s) : Frame(t, x) = IF x = Tip(s, p) THEN b ELSE Frame(s, x)
<1> DEFINE n == Len(s[p])
           c == <<b>> \o Tail(s[p])
           top == <<p, n>>
<1>1. /\ n \in Nat /\ n >= 1 /\ Head(s[p]) = s[p][1]
      /\ c \in Seq(Place) /\ Len(c) = n /\ c[1] = b /\ \A i \in 2..n : c[i] = s[p][i]
  BY Sequels DEF Stacks
<1> HIDE DEF c
<1>2. t[p] = c /\ \A q \in Procs : q # p => t[q] = s[q]
  BY DEF Stacks, c, Replaced
<1>3. t \in Stacks
  BY <1>1 DEF Stacks, c, Replaced
<1>4. \A q \in Procs : Len(t[q]) = Len(s[q])
  BY <1>1, <1>2
<1>5. Acts(t) = Acts(s)
  BY <1>4 DEF Acts
<1>6. top \in Acts(s)
  BY <1>1, ActsMembers
<1>7. Frame(s, top) = Head(s[p])
  BY <1>1 DEF Frame
<1>8. ASSUME NEW x \in Acts(s)
      PROVE  Frame(t, x) = IF x = top THEN b ELSE Frame(s, x)
  <2>1. x = <<x[1], x[2]>> /\ x[1] \in Procs /\ x[2] \in 1..Len(s[x[1]])
    BY ActsMembers
  <2>2. CASE x[1] # p
    BY <1>2, <2>1, <2>2 DEF Frame
  <2>3. CASE x[1] = p /\ x[2] = n
    <3>1. x = top /\ Frame(t, x) = t[p][Len(t[p]) - n + 1]
      BY <2>1, <2>3 DEF Frame
    <3>2. Len(t[p]) - n + 1 = 1 /\ t[p][1] = b
      BY <1>1, <1>2
    <3> QED
      BY <3>1, <3>2
  <2>4. CASE x[1] = p /\ x[2] # n
    <3>1. x[2] \in 1..n /\ n - x[2] + 1 \in 2..n /\ x # top
      BY <1>1, <2>1, <2>4
    <3>2. c[n - x[2] + 1] = s[p][n - x[2] + 1]
      BY <1>1, <3>1
    <3> QED
      BY <1>1, <1>2, <2>4, <3>1, <3>2 DEF Frame
  <2> QED
    BY <2>2, <2>3, <2>4
<1> QED
  BY <1>1, <1>2, <1>3, <1>5, <1>6, <1>7, <1>8 DEF Tip

\* t is s with one activation more on top of the stack of p.
Taller(s, t, p) ==
  /\ \A q \in Procs : q # p => t[q] = s[q]
  /\ Len(t[p]) = Len(s[p]) + 1
  /\ \A i \in 1..Len(s[p]) : t[p][i + 1] = s[p][i]

\* A taller stack has one activation more on top, and all others where they were.
LEMMA TopEffect ==
  ASSUME NEW s \in Stacks, NEW t \in Stacks, NEW p \in Procs, Taller(s, t, p)
  PROVE  /\ Acts(t) = Acts(s) \cup {<<p, Len(t[p])>>} /\ <<p, Len(t[p])>> \notin Acts(s)
         /\ Frame(t, <<p, Len(t[p])>>) = t[p][1]
         /\ \A x \in Acts(s) : Frame(t, x) = Frame(s, x)
<1> DEFINE n == Len(s[p])
           new == <<p, Len(t[p])>>
<1>0. /\ \A q \in Procs : q # p => t[q] = s[q]
      /\ \A i \in 1..n : t[p][i + 1] = s[p][i]
  BY DEF Taller
<1>1. n \in Nat /\ Len(t[p]) = n + 1
  BY ActsMembers DEF Taller
<1>2. /\ \A q \in Procs : \A h : <<q, h>> \in Acts(s) <=> h \in 1..Len(s[q])
      /\ \A q \in Procs : \A h : <<q, h>> \in Acts(t) <=> h \in 1..Len(t[q])
      /\ \A x \in Acts(s) : x = <<x[1], x[2]>> /\ x[1] \in Procs /\ x[2] \in 1..Len(s[x[1]])
      /\ \A x \in Acts(t) : x = <<x[1], x[2]>> /\ x[1] \in Procs /\ x[2] \in 1..Len(t[x[1]])
  BY ActsMembers
<1>3. new \notin Acts(s) /\ new \in Acts(t)
  BY <1>1, <1>2
<1>4. ASSUME NEW x \in Acts(s)
      PROVE  x \in Acts(t) /\ Frame(t, x) = Frame(s, x)
  <2>1. x = <<x[1], x[2]>> /\ x[1] \in Procs /\ x[2] \in 1..Len(s[x[1]])
    BY <1>2
  <2>2. CASE x[1] # p
    BY <1>0, <1>2, <2>1, <2>2 DEF Frame
  <2>3. CASE x[1] = p
    <3> DEFINE i == n - x[2] + 1
    <3>1. i \in 1..n /\ n + 1 - x[2] + 1 = i + 1 /\ x[2] \in 1..(n + 1)
      BY <1>1, <2>1, <2>3
    <3>2. x \in Acts(t)
      BY <1>1, <1>2, <2>1, <2>3, <3>1
    <3> HIDE DEF i
    <3>3. t[p][n + 1 - x[2] + 1] = s[p][i]
      BY <1>0, <1>1, <3>1
    <3>4. Frame(t, x) = t[p][n + 1 - x[2] + 1] /\ Frame(s, x) = s[p][i]
      <4>1. Frame(t, x) = t[p][Len(t[p]) - x[2] + 1] /\ Frame(s, x) = s[p][n - x[2] + 1]
        BY <2>3 DEF Frame
      <4>2. Len(t[p]) - x[2] + 1 = n + 1 - x[2] + 1
        BY <1>1, <2>1
      <4> QED
        BY <4>1, <4>2 DEF i
    <3> QED
      BY <3>2, <3>3, <3>4
  <2> QED
    BY <2>2, <2>3
<1>5. ASSUME NEW x \in Acts(t), x # new
      PROVE  x \in Acts(s)
  <2>1. x = <<x[1], x[2]>> /\ x[1] \in Procs /\ x[2] \in 1..Len(t[x[1]])
    BY <1>2
  <2>2. CASE x[1] # p
    BY <1>0, <1>2, <2>1, <2>2
  <2>3. CASE x[1] = p
    <3>1. x[2] \in 1..(n + 1) /\ x[2] # n + 1
      BY <1>1, <1>5, <2>1, <2>3
    <3>2. x[2] \in 1..n
      BY <1>1, <3>1
    <3> QED
      BY <1>2, <2>1, <2>3, <3>2
  <2> QED
    BY <2>2, <2>3
<1>6. Frame(t, new) = t[p][1]
  <2>1. Frame(t, new) = t[p][Len(t[p]) - Len(t[p]) + 1]
    BY DEF Frame
  <2>2. Len(t[p]) - Len(t[p]) + 1 = 1
    BY <1>1
  <2> QED
    BY <2>1, <2>2
<1> QED
  BY <1>3, <1>4, <1>5, <1>6

\* b is put on top of the stack of p.
LEMMA PushEffect ==
  ASSUME NEW s \in Stacks, NEW p \in Procs, NEW b \in Place,
         NEW t, Pushed(s, t, p, b)
  PROVE  /\ t \in Stacks /\ Acts(t) = Acts(s) \cup {Tip(t, p)} /\ Tip(t, p) \notin Acts(s)
         /\ Frame(t, Tip(t, p)) = b
         /\ Len(t[p]) = Len(s[p]) + 1 /\ \A q \in Procs : q # p => t[q] = s[q]
         /\ \A x \in Acts(s) : Frame(t, x) = Frame(s, x)
<1> DEFINE c == <<b>> \o s[p]
<1>1. /\ c \in Seq(Place) /\ Len(c) = Len(s[p]) + 1 /\ c[1] = b
      /\ \A i \in 1..Len(s[p]) : c[i + 1] = s[p][i]
  BY Sequels DEF Stacks
<1> HIDE DEF c
<1>2. t[p] = c /\ \A q \in Procs : q # p => t[q] = s[q]
  BY DEF Stacks, c, Pushed
<1>3. t \in Stacks
  BY <1>1 DEF Stacks, c, Pushed
<1>4. Taller(s, t, p)
  BY <1>1, <1>2 DEF Taller
<1>5. /\ Acts(t) = Acts(s) \cup {<<p, Len(t[p])>>} /\ <<p, Len(t[p])>> \notin Acts(s)
      /\ Frame(t, <<p, Len(t[p])>>) = t[p][1]
      /\ \A x \in Acts(s) : Frame(t, x) = Frame(s, x)
  BY <1>3, <1>4, TopEffect
<1>6. Len(t[p]) = Len(s[p]) + 1 /\ t[p][1] = b
  BY <1>1, <1>2
<1> QED
  BY <1>2, <1>3, <1>5, <1>6 DEF Tip

\* The top activation of p is taken off.
LEMMA PopEffect ==
  ASSUME NEW s \in Stacks, NEW p \in Procs, s[p] # << >>,
         NEW t, Popped(s, t, p)
  PROVE  /\ t \in Stacks /\ Acts(t) = Acts(s) \ {Tip(s, p)} /\ Tip(s, p) \in Acts(s)
         /\ Frame(s, Tip(s, p)) = Head(s[p])
         /\ Len(t[p]) = Len(s[p]) - 1 /\ \A q \in Procs : q # p => t[q] = s[q]
         /\ \A x \in Acts(t) : Frame(t, x) = Frame(s, x)
<1> DEFINE c == Tail(s[p])
           n == Len(s[p])
<1>1. PICK b : b \in Place /\ n \in Nat
  <2>1. n \in Nat /\ n # 0
    BY LenProperties, EmptySeq DEF Stacks
  <2> QED
    BY <2>1, ElementOfSeq DEF Stacks
<1>2. /\ n >= 1 /\ Head(s[p]) = s[p][1]
      /\ c \in Seq(Place) /\ Len(c) = n - 1 /\ \A i \in 1..(n - 1) : c[i] = s[p][i + 1]
  BY <1>1, Sequels DEF Stacks
<1> HIDE DEF c
<1>3. t[p] = c /\ \A q \in Procs : q # p => t[q] = s[q]
  BY DEF Stacks, c, Popped
<1>4. t \in Stacks
  BY <1>2 DEF Stacks, c, Popped
<1>5. Taller(t, s, p)
  BY <1>1, <1>2, <1>3 DEF Taller
<1>6. /\ Acts(s) = Acts(t) \cup {<<p, Len(s[p])>>} /\ <<p, Len(s[p])>> \notin Acts(t)
      /\ Frame(s, <<p, Len(s[p])>>) = s[p][1]
      /\ \A x \in Acts(t) : Frame(s, x) = Frame(t, x)
  BY <1>3, <1>4, <1>5, TopEffect
<1> QED
  BY <1>1, <1>2, <1>3, <1>4, <1>6 DEF Tip
-----------------------------------------------------------------------------
\* Who is ready and who runs makes no difference to the invariants below.
LEMMA LikeGood ==
  ASSUME NEW st, NEW st2, Like(st, st2), NEW s, NEW aq, NEW hd, NEW lk, NEW sq, NEW cur,
         Good(s, st, aq, hd, lk, sq, cur)
  PROVE  Good(s, st2, aq, hd, lk, sq, cur)
<1>0. /\ Queued(st, aq, sq) /\ Shape(s, st) /\ Forked(s, st, aq, hd)
      /\ Guarded(s, st, lk, sq, cur) /\ Counted(s, st)
  BY DEF Good
<1>1. \A p \in Procs :
        /\ st2[p] = "AVAIL" <=> st[p] = "AVAIL"
        /\ st2[p] = "ZOMBIE" <=> st[p] = "ZOMBIE"
        /\ st2[p] = "SLEEP" <=> st[p] = "SLEEP"
        /\ st2[p] = "WAIT" <=> st[p] = "WAIT"
        /\ st2[p] = "SUSPEND" <=> st[p] = "SUSPEND"
  BY DEF Like, States
<1>2. /\ In(st2, "SUSPEND") = In(st, "SUSPEND") /\ In(st2, "AVAIL") = In(st, "AVAIL")
      /\ In(st2, "ZOMBIE") = In(st, "ZOMBIE")
  BY <1>1 DEF In
<1>3. Queued(st2, aq, sq) /\ Counted(s, st2)
  BY <1>0, <1>2 DEF Queued, Counted
<1>4. Parent \in Procs /\ Child \subseteq Procs
  BY PidFacts
<1>5. \A p \in Procs : Gone(st2, p) <=> Gone(st, p)
  BY <1>1 DEF Gone
<1>6. Shape(s, st2)
  BY <1>0, <1>1, <1>4, <1>5 DEF Shape
<1>7. Forked(s, st2, aq, hd)
  BY <1>0, <1>1, <1>4 DEF Forked
<1>8. \A x \in Acts(s) : /\ Susp(s, st2, x) <=> Susp(s, st, x)
                         /\ Crit(s, st2, x) <=> Crit(s, st, x)
  <2>1. \A x \in Acts(s) : x[1] \in Procs
    BY <1>0, ActsMembers DEF Shape
  <2> QED
    BY <1>1, <2>1 DEF Susp, Crit
<1>9. Guarded(s, st2, lk, sq, cur)
  BY <1>0, <1>8 DEF Guarded
<1> QED
  BY <1>3, <1>6, <1>7, <1>9 DEF Good

\* An action may be judged by the table it hands to the Scheduler.
LEMMA Settle ==
  ASSUME SchedInv', NEW st, Like(st, state'),
         Good(stack', st, avail_que', handler', lock', suspend_que', sys_cursor')
  PROVE  IInv'
<1>1. Good(stack', state', avail_que', handler', lock', suspend_que', sys_cursor')
  BY LikeGood
<1> QED
  BY <1>1 DEF IInv

-----------------------------------------------------------------------------
\* The table changes for p only.
Only(st, st2, p) == st2 \in [Procs -> States] /\ \A q \in Procs : q # p => st2[q] = st[q]

\* A process with the stack and the suspension it had has the activations it had.
LEMMA OtherProcess ==
  ASSUME NEW s \in Stacks, NEW t \in Stacks, NEW st, NEW st2, NEW q \in Procs, t[q] = s[q],
         st2[q] = "SUSPEND" <=> st[q] = "SUSPEND"
  PROVE  /\ \A x \in Acts(s) : x[1] = q =>
              /\ x \in Acts(t) /\ Frame(t, x) = Frame(s, x)
              /\ Susp(t, st2, x) <=> Susp(s, st, x)
         /\ \A x \in Acts(t) : x[1] = q => x \in Acts(s)
<1>1. /\ \A h : <<q, h>> \in Acts(t) <=> <<q, h>> \in Acts(s)
      /\ \A h : Frame(t, <<q, h>>) = Frame(s, <<q, h>>)
  BY OtherFrames
<1>2. /\ \A x \in Acts(s) : x = <<x[1], x[2]>>
      /\ \A x \in Acts(t) : x = <<x[1], x[2]>>
  BY ActsMembers
<1>3. \A x \in Acts(s) : x[1] = q => x \in Acts(t) /\ Frame(t, x) = Frame(s, x)
  BY <1>1, <1>2
<1>4. \A x \in Acts(t) : x[1] = q => x \in Acts(s)
  BY <1>1, <1>2
<1>5. \A x \in Acts(s) : x[1] = q => (Susp(t, st2, x) <=> Susp(s, st, x))
  BY <1>3, <1>4 DEF Susp
<1> QED
  BY <1>3, <1>4, <1>5

\* A process that is not suspended has no suspended activation, so an advance of
\* one suspends and releases nobody.
LEMMA AdvanceSusp ==
  ASSUME NEW s \in Stacks, NEW p \in Procs, s[p] # << >>, NEW b \in Place,
         NEW t, Replaced(s, t, p, b), NEW st, NEW st2, Only(st, st2, p),
         st[p] # "SUSPEND", st2[p] # "SUSPEND"
  PROVE  /\ \A x \in Acts(s) : Susp(t, st2, x) <=> Susp(s, st, x)
         /\ ~Susp(s, st, Tip(s, p)) /\ ~Susp(t, st2, Tip(s, p))
<1>1. t \in Stacks /\ \A q \in Procs : q # p => t[q] = s[q]
  BY AdvanceEffect
<1>2. \A x \in Acts(s) : x[1] \in Procs
  BY ActsMembers
<1>3. \A x : x[1] = p => ~Susp(s, st, x) /\ ~Susp(t, st2, x)
  BY DEF Susp
<1>4. ASSUME NEW x \in Acts(s), x[1] # p
      PROVE  Susp(t, st2, x) <=> Susp(s, st, x)
  <2>1. x[1] \in Procs /\ t[x[1]] = s[x[1]] /\ (st2[x[1]] = "SUSPEND" <=> st[x[1]] = "SUSPEND")
    BY <1>1, <1>2, <1>4 DEF Only
  <2> QED
    BY <1>1, <2>1, OtherProcess
<1>5. Tip(s, p)[1] = p
  BY DEF Tip
<1> QED
  BY <1>3, <1>4, <1>5

\* The mutex, the cursor and their invariant are kept by whatever suspends,
\* enters and writes no more than before.
LEMMA GuardedKeep ==
  ASSUME NEW s, NEW t, NEW st, NEW st2, NEW lk, NEW sq, NEW cur, Guarded(s, st, lk, sq, cur),
         \A x \in Acts(t) : Susp(t, st2, x) =>
             x \in Acts(s) /\ Susp(s, st, x) /\ Frame(t, x) = Frame(s, x),
         \A x \in Acts(t) : Crit(t, st2, x) => x \in Acts(s) /\ Crit(s, st, x),
         \A x \in Acts(t) : Op(Frame(t, x)) = "write" /\ ~Susp(t, st2, x) =>
             x \in Acts(s) /\ Op(Frame(s, x)) = "write" /\ ~Susp(s, st, x)
  PROVE  Guarded(t, st2, lk, sq, cur)
BY DEF Guarded

\* An advance that neither locks nor places the cursor.
LEMMA AdvanceGuarded ==
  ASSUME NEW s \in Stacks, NEW p \in Procs, s[p] # << >>, NEW a \in Place, a = Head(s[p]),
         Op(a) \notin {"return", "exit", "lock", "set_cursor"},
         NEW t, Replaced(s, t, p, Resumed(a)), NEW st, NEW st2, Only(st, st2, p),
         st[p] # "SUSPEND", st2[p] # "SUSPEND",
         NEW lk, NEW sq, NEW cur, Guarded(s, st, lk, sq, cur)
  PROVE  /\ Guarded(t, st2, lk, sq, cur)
         /\ Op(a) = "unlock" => \A x \in Acts(t) : ~Crit(t, st2, x)
<1> DEFINE b == Resumed(a)
<1>1. b \in Place
  BY ResumedPlaces
<1>2. /\ Op(a) = "write" => Op(b) \in {"write", "unlock"}
      /\ Op(a) # "write" => Op(b) \notin Section
  BY NextCalls
<1> HIDE DEF b
<1> DEFINE tip == Tip(s, p)
<1>3. /\ Acts(t) = Acts(s) /\ tip \in Acts(s) /\ Frame(s, tip) = a /\ Frame(t, tip) = b
      /\ \A x \in Acts(s) : x # tip => Frame(t, x) = Frame(s, x)
  BY <1>1, AdvanceEffect DEF b
<1>4. /\ \A x \in Acts(s) : Susp(t, st2, x) <=> Susp(s, st, x)
      /\ ~Susp(s, st, tip) /\ ~Susp(t, st2, tip)
  BY <1>1, AdvanceSusp DEF b
<1> HIDE DEF tip
<1>5. \A x \in Acts(t) : Susp(t, st2, x) =>
             x \in Acts(s) /\ Susp(s, st, x) /\ Frame(t, x) = Frame(s, x)
  BY <1>3, <1>4
<1>6. \A x \in Acts(t) : Crit(t, st2, x) => x \in Acts(s) /\ Crit(s, st, x)
  BY <1>2, <1>3, <1>4 DEF Crit, Section
<1>7. \A x \in Acts(t) : Op(Frame(t, x)) = "write" /\ ~Susp(t, st2, x) =>
             x \in Acts(s) /\ Op(Frame(s, x)) = "write" /\ ~Susp(s, st, x)
  BY <1>2, <1>3, <1>4 DEF Section
<1>8. Guarded(t, st2, lk, sq, cur)
  BY <1>5, <1>6, <1>7, GuardedKeep
<1>9. ASSUME Op(a) = "unlock", NEW x \in Acts(t), Crit(t, st2, x)
      PROVE  FALSE
  <2>1. Crit(s, st, tip) /\ Crit(s, st, x)
    BY <1>3, <1>4, <1>6, <1>9 DEF Crit, Section
  <2>2. x = tip
    BY <1>3, <1>6, <1>9, <2>1 DEF Guarded
  <2> QED
    BY <1>2, <1>3, <1>9, <2>2 DEF Crit
<1> QED
  BY <1>8, <1>9

\* An advance in the same text leaves the shape of the stacks.
LEMMA AdvanceShape ==
  ASSUME NEW s, NEW st, Shape(s, st), NEW p \in Procs, s[p] # << >>, NEW b \in Place,
         b.text = Head(s[p]).text, NEW t, Replaced(s, t, p, b), NEW st2, Only(st, st2, p),
         ~Gone(st, p), ~Gone(st2, p), st2[p] # "WAIT"
  PROVE  Shape(t, st2)
<1> DEFINE tip == Tip(s, p)
<1>0. s \in Stacks
  BY DEF Shape
<1>1. /\ t \in Stacks /\ Acts(t) = Acts(s) /\ tip \in Acts(s) /\ Frame(s, tip) = Head(s[p])
      /\ Len(t[p]) = Len(s[p]) /\ \A q \in Procs : q # p => t[q] = s[q]
      /\ \A x \in Acts(s) : Frame(t, x) = IF x = tip THEN b ELSE Frame(s, x)
  BY <1>0, AdvanceEffect
<1> HIDE DEF tip
<1>2. \A x \in Acts(s) : Frame(t, x).text = Frame(s, x).text
  BY <1>1
<1>3. \A q \in Procs : \A h \in 1..Len(s[q]) : <<q, h>> \in Acts(s)
  BY <1>0, ActsMembers
<1>4. \A q \in Procs : Len(t[q]) = Len(s[q])
  BY <1>1
<1>5. \A q \in Procs : \A h \in 1..Len(s[q]) : Frame(t, <<q, h>>).text = Frame(s, <<q, h>>).text
  BY <1>2, <1>3
<1>6. Parent \in Procs /\ Child \subseteq Procs
  BY PidFacts
<1>7. \A q \in Procs : (Gone(st2, q) <=> Gone(st, q)) /\ (st[q] # "WAIT" => st2[q] # "WAIT")
  BY DEF Only, Gone
<1>8. /\ Len(t[Parent]) >= 1
      /\ \A h \in 1..Len(t[Parent]) :
           Frame(t, <<Parent, h>>).text = IF h = 1 THEN "init" ELSE "handler"
      /\ ~Gone(st2, Parent) /\ st2[Parent] # "WAIT"
  BY <1>4, <1>5, <1>6, <1>7 DEF Shape
<1>9. ASSUME NEW c \in Child
      PROVE  /\ st2[c] # "WAIT"
             /\ Gone(st2, c) => t[c] = << >>
             /\ ~Gone(st2, c) => Len(t[c]) = 1 /\ Frame(t, <<c, 1>>).text = "child"
  <2>1. c \in Procs /\ st2[c] # "WAIT" /\ (Gone(st2, c) <=> Gone(st, c))
    BY <1>6, <1>7 DEF Shape
  <2>2. CASE Gone(st, c)
    <3>1. c # p /\ s[c] = << >>
      BY <2>2 DEF Shape
    <3> QED
      BY <1>1, <2>1, <2>2, <3>1
  <2>3. CASE ~Gone(st, c)
    <3>1. Len(s[c]) = 1 /\ Frame(s, <<c, 1>>).text = "child"
      BY <2>3 DEF Shape
    <3>2. 1 \in 1..Len(s[c])
      BY <3>1
    <3>3. Len(t[c]) = 1 /\ Frame(t, <<c, 1>>).text = Frame(s, <<c, 1>>).text
      BY <1>4, <1>5, <2>1, <3>1, <3>2
    <3> QED
      BY <2>1, <2>3, <3>1, <3>3
  <2> QED
    BY <2>2, <2>3
<1> QED
  BY <1>1, <1>8, <1>9 DEF Shape

\* An advance past any call but sys_wait leaves the handlers to come.
LEMMA AdvanceCounted ==
  ASSUME NEW s \in Stacks, NEW st, Counted(s, st), NEW p \in Procs, s[p] # << >>, NEW b \in Place,
         Op(Head(s[p])) # "wait", Op(b) # "wait", NEW t, Replaced(s, t, p, b),
         NEW st2, Only(st, st2, p), ~Gone(st, p), ~Gone(st2, p)
  PROVE  Counted(t, st2)
<1> DEFINE tip == Tip(s, p)
<1>1. /\ Acts(t) = Acts(s) /\ tip \in Acts(s) /\ Frame(s, tip) = Head(s[p])
      /\ \A x \in Acts(s) : Frame(t, x) = IF x = tip THEN b ELSE Frame(s, x)
  BY AdvanceEffect
<1> HIDE DEF tip
<1>2. WaitsIn(t) = WaitsIn(s)
  BY <1>1 DEF WaitsIn
<1>3. In(st2, "ZOMBIE") = In(st, "ZOMBIE")
  BY DEF In, Only, Gone
<1> QED
  BY <1>2, <1>3 DEF Counted

\* Which text a process is in: the top of the parent is Init only when it is the
\* bottom too.
LEMMA TopText ==
  ASSUME NEW s, NEW st, Shape(s, st), NEW p \in Procs, s[p] # << >>, NEW a, a = Head(s[p])
  PROVE  /\ a \in Place /\ Tip(s, p) \in Acts(s) /\ Frame(s, Tip(s, p)) = a /\ <<Parent, 1>> \in Acts(s)
         /\ p = Parent => /\ Len(s[p]) = 1 => a.text = "init" /\ Tip(s, p) = <<Parent, 1>>
                          /\ Len(s[p]) # 1 => a.text = "handler" /\ Tip(s, p) # <<Parent, 1>>
         /\ p # Parent => p \in Child /\ ~Gone(st, p) /\ a.text = "child" /\ Tip(s, p) = <<p, 1>>
<1>1. s \in Stacks /\ s[p] \in Seq(Place) /\ Len(s[p]) \in Nat
  BY ActsMembers DEF Shape
<1>2. Len(s[p]) >= 1 /\ a = s[p][1] /\ a \in Place
  <2>1. Len(s[p]) # 0
    BY <1>1, EmptySeq
  <2>2. 1 \in 1..Len(s[p])
    BY <1>1, <2>1
  <2> QED
    BY <1>1, <2>1, <2>2, ElementOfSeq, HeadTailProperties
<1>3. Frame(s, Tip(s, p)) = a
  <2>1. Frame(s, Tip(s, p)) = s[p][Len(s[p]) - Len(s[p]) + 1]
    BY DEF Frame, Tip
  <2>2. Len(s[p]) - Len(s[p]) + 1 = 1
    BY <1>1
  <2> QED
    BY <1>2, <2>1, <2>2
<1>4. Tip(s, p) \in Acts(s)
  BY <1>1, <1>2, ActsMembers DEF Tip
<1>5. Parent \in Procs /\ Len(s[Parent]) >= 1 /\ Len(s[Parent]) \in Nat
  BY <1>1, PidFacts, ActsMembers DEF Shape
<1>6. <<Parent, 1>> \in Acts(s)
  BY <1>1, <1>5, ActsMembers
<1>7. ASSUME p = Parent
      PROVE  /\ Len(s[p]) = 1 => a.text = "init" /\ Tip(s, p) = <<Parent, 1>>
             /\ Len(s[p]) # 1 => a.text = "handler" /\ Tip(s, p) # <<Parent, 1>>
  <2>1. Len(s[p]) \in 1..Len(s[p])
    BY <1>1, <1>2
  <2>2. Frame(s, Tip(s, p)).text = IF Len(s[p]) = 1 THEN "init" ELSE "handler"
    BY <1>7, <2>1 DEF Shape, Tip
  <2> QED
    BY <1>3, <1>7, <2>2 DEF Tip
<1>8. ASSUME p # Parent
      PROVE  p \in Child /\ ~Gone(st, p) /\ a.text = "child" /\ Tip(s, p) = <<p, 1>>
  <2>1. p \in Child
    BY <1>8, PidFacts
  <2>2. ~Gone(st, p)
    BY <2>1 DEF Shape
  <2>3. Len(s[p]) = 1 /\ Frame(s, <<p, 1>>).text = "child"
    BY <2>1, <2>2 DEF Shape
  <2> QED
    BY <1>3, <2>1, <2>2, <2>3 DEF Tip
<1> QED
  BY <1>2, <1>3, <1>4, <1>6, <1>7, <1>8

\* An advance past any call but sys_fork, while Init forks and after.
LEMMA AdvanceForked ==
  ASSUME NEW s, NEW st, NEW aq, NEW hd, Shape(s, st), Forked(s, st, aq, hd),
         NEW p \in Procs, s[p] # << >>, NEW a, a = Head(s[p]), Op(a) \notin {"fork", "return", "exit"},
         NEW t, Replaced(s, t, p, Resumed(a)), NEW st2, Only(st, st2, p),
         st[p] = "RUN", ~Gone(st2, p), Op(a) = "nap" => st2[p] = "SLEEP",
         NEW hd2 \in BOOLEAN, hd2 <=> hd \/ Op(a) = "signal"
  PROVE  Forked(t, st2, aq, hd2)
<1> DEFINE b == Resumed(a)
           tip == Tip(s, p)
           rt == <<Parent, 1>>
<1>1. /\ a \in Place /\ tip \in Acts(s) /\ Frame(s, tip) = a /\ rt \in Acts(s)
      /\ p = Parent => /\ Len(s[p]) = 1 => a.text = "init" /\ tip = rt
                       /\ Len(s[p]) # 1 => a.text = "handler" /\ tip # rt
      /\ p # Parent => p \in Child /\ ~Gone(st, p) /\ a.text = "child" /\ tip = <<p, 1>>
  BY TopText
<1>2. b \in Place
  BY <1>1, ResumedPlaces
<1>3. s \in Stacks
  BY DEF Shape
<1>4. /\ t \in Stacks /\ Len(t[p]) = Len(s[p]) /\ \A q \in Procs : q # p => t[q] = s[q]
      /\ \A x \in Acts(s) : Frame(t, x) = IF x = tip THEN b ELSE Frame(s, x)
  BY <1>2, <1>3, AdvanceEffect
<1>5. Root(s) = Frame(s, rt) /\ Root(t) = Frame(t, rt)
  BY DEF Root
<1>6. a.text = "init" => a.at \in 1..10
  BY <1>1, CallTexts DEF Places
<1>7. Parent \in Procs /\ Parent \notin Child /\ Child \subseteq Procs /\ CHILDREN \in Nat /\ CHILDREN >= 1
  BY PidFacts
<1>8. \A c \in Child : c # p =>
        Frame(t, <<c, 1>>) = Frame(s, <<c, 1>>) /\ st2[c] = st[c]
  <2>1. ASSUME NEW c \in Child, c # p
        PROVE  Frame(t, <<c, 1>>) = Frame(s, <<c, 1>>)
    BY <1>3, <1>4, <1>7, <2>1, OtherFrames
  <2> QED
    BY <1>7, <2>1 DEF Only
<1>9. Len(t[Parent]) = Len(s[Parent])
  BY <1>4, <1>7
<1>10. CASE p = Parent /\ Len(s[p]) = 1
  <2>1. Root(s) = a /\ Root(t) = b /\ a.text = "init"
    BY <1>1, <1>4, <1>5, <1>10
  <2>2. CASE a.at = 1
    <3>1. b.at = 2 /\ b.col = a.col /\ a.col = 0
      BY <1>1, <2>1, <2>2, ResumedPlaces DEF Forked
    <3>2. Op(a) = "signal"
      BY <1>1, <2>1, <2>2, CallTexts, TextCalls
    <3> HIDE DEF b
    <3>3. hd2
      BY <3>2
    <3>4. /\ Len(s[Parent]) = 1 /\ Len(aq) = QUE_MAX - 2 - a.col
          /\ \A i \in 1..Len(aq) : aq[i] = a.col + i + 1
          /\ \A c \in Child :
               /\ st[c] # "ZOMBIE"
               /\ st[c] # "AVAIL" =>
                    /\ Frame(s, <<c, 1>>).at \in 1..3
                    /\ Frame(s, <<c, 1>>).at = 3 => st[c] = "SLEEP"
      BY <2>1, <2>2 DEF Forked
    <3>5. \A c \in Child : c # p
      BY <1>7, <1>10
    <3> QED
      BY <1>7, <1>8, <1>9, <2>1, <3>1, <3>3, <3>4, <3>5 DEF Forked
  <2>3. CASE a.at = 2
    <3>1. Op(a) = "fork"
      BY <1>1, <2>1, <2>3, CallTexts, TextCalls
    <3> QED
      BY <3>1
  <2>4. CASE a.at > 2
    <3>1. b.at > 2
      BY <1>1, <1>6, <2>1, <2>4, ResumedPlaces
    <3>2. hd /\ b.at # 1 /\ ~(b.at <= 2) /\ b.at > 1
      <4>1. b.at \in Nat
        BY <1>2 DEF Place, Places
      <4> HIDE DEF b
      <4> QED
        BY <1>6, <2>1, <2>4, <3>1, <4>1 DEF Forked
    <3> HIDE DEF b
    <3> QED
      BY <2>1, <3>2 DEF Forked
  <2> QED
    BY <1>6, <2>1, <2>2, <2>3, <2>4
<1>11. CASE p = Parent /\ Len(s[p]) # 1
  <2>1. Root(t) = Root(s)
    BY <1>1, <1>4, <1>5, <1>11
  <2>2. ~(Root(s).at <= 2) /\ (hd <=> Root(s).at > 1) /\ (Root(s).at = 1 => Root(s).col = 0)
    BY <1>11 DEF Forked
  <2>3. Root(s).at \in Nat
    BY <1>1, <1>3, <1>5, ActsMembers DEF Place, Places
  <2>4. hd
    BY <2>2, <2>3
  <2> QED
    BY <2>1, <2>2, <2>4 DEF Forked
<1>12. CASE p # Parent
  <2>1. p \in Child /\ a.text = "child" /\ tip = <<p, 1>> /\ tip # rt /\ a \in Place
    BY <1>1, <1>12
  <2>2. Root(t) = Root(s) /\ Frame(s, <<p, 1>>) = a /\ Frame(t, <<p, 1>>) = b
    BY <1>1, <1>4, <1>5, <2>1
  <2>3. Op(a) # "signal" /\ a.at \in 1..13
    BY <2>1, CallTexts DEF Places
  <2>4. hd \in BOOLEAN
    BY DEF Forked
  <2>5. hd2 <=> hd
    BY <2>3, <2>4
  <2>6. ASSUME Root(s).at <= 2
        PROVE  /\ st2[p] # "ZOMBIE"
               /\ Frame(t, <<p, 1>>).at \in 1..3
               /\ Frame(t, <<p, 1>>).at = 3 => st2[p] = "SLEEP"
    <3>1. a.at \in 1..2
      BY <1>1, <2>1, <2>2, <2>6 DEF Forked, Gone
    <3>2. b.at = a.at + 1
      BY <2>1, <3>1, ResumedPlaces
    <3>3. a.at = 2 => Op(a) = "nap"
      BY <2>1, CallTexts
    <3> HIDE DEF b
    <3> QED
      BY <2>2, <3>1, <3>2, <3>3 DEF Gone
  <2>7. Root(s).at <= 2 =>
          \A c \in Child :
            /\ st2[c] # "ZOMBIE"
            /\ st2[c] # "AVAIL" =>
                 /\ Frame(t, <<c, 1>>).at \in 1..3
                 /\ Frame(t, <<c, 1>>).at = 3 => st2[c] = "SLEEP"
    BY <1>8, <2>6 DEF Forked
  <2> QED
    BY <1>9, <2>2, <2>5, <2>7 DEF Forked
<1> QED
  BY <1>10, <1>11, <1>12

-----------------------------------------------------------------------------
\* Any call that is not about the mutex, the cursor or another process's stack.
LEMMA GoodAdvance ==
  ASSUME NEW s, NEW st, NEW aq, NEW hd, NEW lk, NEW sq, NEW cur, Good(s, st, aq, hd, lk, sq, cur),
         NEW p \in Procs, s[p] # << >>, st[p] = "RUN", NEW a, a = Head(s[p]),
         Op(a) \notin {"fork", "return", "exit", "lock", "set_cursor", "wait"},
         NEW t, Replaced(s, t, p, Resumed(a)),
         NEW st2, Only(st, st2, p), st2[p] \in {"RUN", "SLEEP"}, Op(a) = "nap" => st2[p] = "SLEEP",
         NEW hd2 \in BOOLEAN, hd2 <=> hd \/ Op(a) = "signal"
  PROVE  /\ Good(t, st2, aq, hd2, lk, sq, cur)
         /\ Op(a) = "unlock" => \A x \in Acts(t) : ~Crit(t, st2, x)
<1> DEFINE b == Resumed(a)
<1>1. /\ Queued(st, aq, sq) /\ Shape(s, st) /\ Forked(s, st, aq, hd)
      /\ Guarded(s, st, lk, sq, cur) /\ Counted(s, st) /\ s \in Stacks
  BY DEF Good, Shape
<1>2. a \in Place
  BY <1>1, TopText
<1>3. b \in Place /\ b.text = a.text /\ Op(b) # "wait"
  BY <1>2, ResumedPlaces, NextCalls
<1>4. ~Gone(st, p) /\ ~Gone(st2, p) /\ st2[p] # "WAIT" /\ st[p] # "SUSPEND" /\ st2[p] # "SUSPEND"
  BY DEF Gone
<1>5. /\ Guarded(t, st2, lk, sq, cur)
      /\ Op(a) = "unlock" => \A x \in Acts(t) : ~Crit(t, st2, x)
  BY <1>1, <1>2, <1>4, AdvanceGuarded
<1>6. Forked(t, st2, aq, hd2)
  BY <1>1, <1>4, AdvanceForked
<1> HIDE DEF b
<1>7. Replaced(s, t, p, b)
  BY DEF b
<1>8. Shape(t, st2)
  BY <1>1, <1>3, <1>4, <1>7, AdvanceShape
<1>9. Counted(t, st2)
  BY <1>1, <1>3, <1>4, <1>7, AdvanceCounted
<1>10. In(st2, "SUSPEND") = In(st, "SUSPEND") /\ In(st2, "AVAIL") = In(st, "AVAIL")
  BY DEF In, Only
<1>11. Queued(st2, aq, sq)
  BY <1>1, <1>10 DEF Queued
<1> QED
  BY <1>5, <1>6, <1>8, <1>9, <1>11 DEF Good

\* Sleepers wake, but while Init forks none of the children that wait for it.
LEMMA GoodWake ==
  ASSUME NEW s, NEW st, NEW aq, NEW hd, NEW lk, NEW sq, NEW cur, Good(s, st, aq, hd, lk, sq, cur),
         st \in [Procs -> States], NEW B \in SUBSET Procs, \A p \in B : st[p] = "SLEEP",
         ~(Root(s).at <= 2) \/ \A c \in Child \cap B : Frame(s, <<c, 1>>).at # 3
  PROVE  Good(s, Wake(st, B), aq, hd, lk, sq, cur)
<1> DEFINE st2 == Wake(st, B)
<1>1. /\ Queued(st, aq, sq) /\ Shape(s, st) /\ Forked(s, st, aq, hd)
      /\ Guarded(s, st, lk, sq, cur) /\ Counted(s, st)
  BY DEF Good
<1>2. \A p \in Procs : st2[p] = IF p \in B THEN "READY" ELSE st[p]
  BY DEF Wake
<1> HIDE DEF st2
<1>3. Parent \in Procs /\ Child \subseteq Procs
  BY PidFacts
<1>4. \A p \in Procs : /\ st2[p] = "AVAIL" <=> st[p] = "AVAIL"
                       /\ st2[p] = "ZOMBIE" <=> st[p] = "ZOMBIE"
                       /\ st2[p] = "WAIT" <=> st[p] = "WAIT"
                       /\ st2[p] = "SUSPEND" <=> st[p] = "SUSPEND"
                       /\ p \notin B => st2[p] = st[p]
  BY <1>2
<1>5. /\ In(st2, "SUSPEND") = In(st, "SUSPEND") /\ In(st2, "AVAIL") = In(st, "AVAIL")
      /\ In(st2, "ZOMBIE") = In(st, "ZOMBIE")
  BY <1>4 DEF In
<1>6. Queued(st2, aq, sq) /\ Counted(s, st2)
  BY <1>1, <1>5 DEF Queued, Counted
<1>7. \A p \in Procs : Gone(st2, p) <=> Gone(st, p)
  BY <1>4 DEF Gone
<1>8. Shape(s, st2)
  BY <1>1, <1>3, <1>4, <1>7 DEF Shape
<1>9. Forked(s, st2, aq, hd)
  <2>1. CASE ~(Root(s).at <= 2)
    BY <1>1, <2>1 DEF Forked
  <2>2. CASE \A c \in Child \cap B : Frame(s, <<c, 1>>).at # 3
    BY <1>1, <1>3, <1>4, <2>2 DEF Forked
  <2> QED
    BY <2>1, <2>2
<1>10. \A x \in Acts(s) : /\ Susp(s, st2, x) <=> Susp(s, st, x)
                          /\ Crit(s, st2, x) <=> Crit(s, st, x)
  <2>1. \A x \in Acts(s) : x[1] \in Procs
    BY <1>1, ActsMembers DEF Shape
  <2> QED
    BY <1>4, <2>1 DEF Susp, Crit
<1>11. Guarded(s, st2, lk, sq, cur)
  BY <1>1, <1>10 DEF Guarded
<1> QED
  BY <1>6, <1>8, <1>9, <1>11 DEF Good, st2

\* The running process is in a system call of its text.
LEMMA Caller ==
  ASSUME IInv, run_pid # IDLE
  PROVE  /\ run_pid \in Procs /\ state[run_pid] = "RUN" /\ state \in [Procs -> States]
         /\ Lined(run_pid, state, ready_que)
         /\ Good(stack, state, avail_que, handler, lock, suspend_que, sys_cursor)
         /\ Shape(stack, state) /\ stack \in Stacks /\ stack[run_pid] # << >>
         /\ Top(run_pid) = Head(stack[run_pid]) /\ Top(run_pid) \in Place
         /\ Running = Tip(stack, run_pid)
<1>1. /\ run_pid \in Procs /\ Lined(run_pid, state, ready_que) /\ state \in [Procs -> States]
      /\ run_pid > IDLE /\ \A p \in Procs : p # Parent => p \in Child
  BY PidFacts DEF IInv, SchedInv, Lined
<1>2. state[run_pid] = "RUN"
  <2>1. In(state, "RUN") = {run_pid}
    BY <1>1 DEF Lined
  <2> QED
    BY <2>1 DEF In
<1>3. /\ Good(stack, state, avail_que, handler, lock, suspend_que, sys_cursor)
      /\ Shape(stack, state) /\ stack \in Stacks
  BY DEF IInv, Good, Shape
<1>4. Len(stack[run_pid]) >= 1
  <2>1. CASE run_pid = Parent
    BY <1>3, <2>1 DEF Shape
  <2>2. CASE run_pid \in Child
    <3>1. Len(stack[run_pid]) = 1
      BY <1>2, <1>3, <2>2 DEF Shape, Gone
    <3> QED
      BY <3>1
  <2> QED
    BY <1>1, <2>1, <2>2
<1>5. stack[run_pid] # << >>
  <2>1. Len(<< >>) = 0
    OBVIOUS
  <2> QED
    BY <1>4, <2>1
<1>6. Head(stack[run_pid]) \in Place
  BY <1>1, <1>3, <1>5, TopText
<1> QED
  BY <1>1, <1>2, <1>3, <1>5, <1>6 DEF Top, Running, Tip

\* The timer interrupt.
LEMMA TimerStep == IInv /\ TimerSR => IInv'
<1> SUFFICES ASSUME IInv, TimerSR PROVE IInv'
  OBVIOUS
<1>1. PICK woken \in SUBSET {p \in Procs : Dozes(p)}, expired \in BOOLEAN :
        \E batch \in InOrder(woken) :
          LET st == [p \in Procs |-> IF p \in woken THEN "READY" ELSE state[p]]
              rq == EnQueAll(ready_que, batch)
          IN IF expired /\ run_pid # IDLE THEN Demote(st, rq) ELSE Scheduler(run_pid, st, rq)
  BY DEF TimerSR
<1>2. PICK batch \in InOrder(woken) :
          LET st == [p \in Procs |-> IF p \in woken THEN "READY" ELSE state[p]]
              rq == EnQueAll(ready_que, batch)
          IN IF expired /\ run_pid # IDLE THEN Demote(st, rq) ELSE Scheduler(run_pid, st, rq)
  BY <1>1
<1> DEFINE st == Wake(state, woken)
           rq == EnQueAll(ready_que, batch)
<1>3. IF expired /\ run_pid # IDLE THEN Demote(st, rq) ELSE Scheduler(run_pid, st, rq)
  BY <1>2 DEF Wake
<1>4. woken \in SUBSET Procs /\ \A p \in woken : Dozes(p) /\ state[p] = "SLEEP"
  BY <1>1 DEF Dozes
<1>5. /\ run_pid \in {IDLE} \cup Procs /\ Lined(run_pid, state, ready_que) /\ state \in [Procs -> States]
      /\ Good(stack, state, avail_que, handler, lock, suspend_que, sys_cursor)
      /\ Shape(stack, state)
  BY DEF IInv, SchedInv, Lined, Good
<1>6. Lined(run_pid, st, rq)
  BY <1>4, <1>5, ReadyAllLemma
<1>7. \A c \in Child \cap woken : Frame(stack, <<c, 1>>).at # 3
  <2> SUFFICES ASSUME NEW c \in Child \cap woken
               PROVE  Frame(stack, <<c, 1>>).at # 3
    OBVIOUS
  <2>1. c \in Procs /\ c # Parent /\ Dozes(c) /\ ~Gone(state, c)
    BY <1>4, PidFacts DEF Gone
  <2>2. Len(stack[c]) = 1 /\ Frame(stack, <<c, 1>>).text = "child"
    BY <1>5, <2>1 DEF Shape
  <2>3. stack[c] # << >>
    <3>1. Len(<< >>) = 0
      OBVIOUS
    <3> QED
      BY <2>2, <3>1
  <2>4. Frame(stack, Tip(stack, c)) = Head(stack[c]) /\ Tip(stack, c) = <<c, 1>>
    BY <1>5, <2>1, <2>3, TopText
  <2> QED
    BY <2>1, <2>2, <2>4 DEF Dozes, Top
<1>8. Good(stack, st, avail_que, handler, lock, suspend_que, sys_cursor)
  BY <1>4, <1>5, <1>7, GoodWake
<1> HIDE DEF st, rq
<1>9. SchedInv' /\ Like(st, state')
  <2>1. CASE expired /\ run_pid # IDLE
    BY <1>3, <1>5, <1>6, <2>1, DemoteLemma
  <2>2. CASE ~(expired /\ run_pid # IDLE)
    <3>1. run_pid \in {NONE, IDLE} \cup Procs
      BY <1>5
    <3> QED
      BY <1>3, <1>6, <2>2, <3>1, SchedulerLemma
  <2> QED
    BY <2>1, <2>2
<1>10. Good(stack', st, avail_que', handler', lock', suspend_que', sys_cursor')
  BY <1>8 DEF TimerSR, video_mutex
<1> QED
  BY <1>9, <1>10, Settle

-----------------------------------------------------------------------------
\* Calls after which the caller joins the ready queue and nothing else moves.
LEMMA OrdinaryStep ==
  ASSUME IInv, run_pid # IDLE, NEW st, NEW rq, Lined(run_pid, st, rq), Demote(st, rq),
         Good(stack, st, avail_que, handler, lock, suspend_que, sys_cursor),
         Op(Top(run_pid)) \notin {"fork", "return", "exit", "lock", "set_cursor", "wait", "nap", "unlock"},
         Advance, UNCHANGED <<avail_que, video_mutex, sys_cursor>>,
         handler' \in BOOLEAN, handler' <=> handler \/ Op(Top(run_pid)) = "signal"
  PROVE  IInv'
<1> DEFINE a == Top(run_pid)
<1>1. /\ run_pid \in Procs /\ stack[run_pid] # << >> /\ a = Head(stack[run_pid])
      /\ Replaced(stack, stack', run_pid, Resumed(a))
  BY Caller DEF Advance, Advanced, Replaced
<1> HIDE DEF a
<1>2. SchedInv' /\ st[run_pid] = "RUN" /\ Like(st, state') /\ st \in [Procs -> States]
  BY <1>1, DemoteLemma DEF Lined
<1>3. Only(st, st, run_pid)
  BY <1>2 DEF Only
<1>4. /\ Op(a) \notin {"fork", "return", "exit", "lock", "set_cursor", "wait"}
      /\ st[run_pid] \in {"RUN", "SLEEP"} /\ (Op(a) = "nap" => st[run_pid] = "SLEEP")
  BY <1>2 DEF a
<1>5. Good(stack', st, avail_que, handler', lock, suspend_que, sys_cursor)
  <2> DEFINE hd2 == handler'
  <2>1. hd2 \in BOOLEAN /\ (hd2 <=> handler \/ Op(a) = "signal")
    BY DEF a
  <2>0. handler \in BOOLEAN
    BY DEF Good, Forked
  <2> HIDE DEF hd2
  <2>2. Good(stack', st, avail_que, hd2, lock, suspend_que, sys_cursor)
    BY <1>1, <1>2, <1>3, <1>4, <2>1, <2>0, GoodAdvance
  <2> QED
    BY <2>2 DEF hd2
<1>6. Good(stack', st, avail_que', handler', lock', suspend_que', sys_cursor')
  BY <1>5 DEF video_mutex
<1> QED
  BY <1>2, <1>6, Settle

\* A get_pid, get_rand or write.
LEMMA InfoStep == IInv /\ SysInfo => IInv'
<1> SUFFICES ASSUME IInv, SysInfo PROVE IInv'
  OBVIOUS
<1>1. run_pid # IDLE /\ Op(Top(run_pid)) \in {"get_pid", "get_rand", "write"}
  BY DEF SysInfo, Calls
<1>2. /\ Lined(run_pid, state, ready_que)
      /\ Good(stack, state, avail_que, handler, lock, suspend_que, sys_cursor)
  BY <1>1, Caller
<1>3. /\ Advance /\ Demote(state, ready_que) /\ UNCHANGED <<avail_que, video_mutex, sys_cursor>>
      /\ handler' = handler
  BY DEF SysInfo
<1>4. handler' \in BOOLEAN /\ (handler' <=> handler \/ Op(Top(run_pid)) = "signal")
  BY <1>1, <1>2, <1>3 DEF Good, Forked
<1> QED
  BY <1>1, <1>2, <1>3, <1>4, OrdinaryStep

\* Init sets the handler.
LEMMA SignalStep == IInv /\ SysSignal => IInv'
<1> SUFFICES ASSUME IInv, SysSignal PROVE IInv'
  OBVIOUS
<1>1. run_pid # IDLE /\ Op(Top(run_pid)) = "signal"
  BY DEF SysSignal, Calls
<1>2. /\ Lined(run_pid, state, ready_que)
      /\ Good(stack, state, avail_que, handler, lock, suspend_que, sys_cursor)
  BY <1>1, Caller
<1>3. /\ Advance /\ Demote(state, ready_que) /\ UNCHANGED <<avail_que, video_mutex, sys_cursor>>
      /\ handler' = TRUE
  BY DEF SysSignal
<1> QED
  BY <1>1, <1>2, <1>3, OrdinaryStep

\* Init starts the race.
LEMMA KillStep == IInv /\ SysKill => IInv'
<1> SUFFICES ASSUME IInv, SysKill PROVE IInv'
  OBVIOUS
<1> DEFINE woken == {c \in Child : state[c] = "SLEEP"}
           st == Wake(state, woken)
<1>1. run_pid # IDLE /\ Op(Top(run_pid)) = "kill"
  BY DEF SysKill, Calls
<1>2. PICK batch \in InOrder(woken) : Demote(st, EnQueAll(ready_que, batch))
  BY DEF SysKill, Wake
<1>3. /\ run_pid \in Procs /\ Lined(run_pid, state, ready_que) /\ state \in [Procs -> States]
      /\ Good(stack, state, avail_que, handler, lock, suspend_que, sys_cursor)
      /\ Shape(stack, state) /\ stack[run_pid] # << >>
      /\ Top(run_pid) = Head(stack[run_pid]) /\ Top(run_pid) \in Place
  BY <1>1, Caller
<1>4. woken \in SUBSET Procs /\ \A p \in woken : state[p] = "SLEEP"
  BY PidFacts
<1> HIDE DEF woken
<1>5. Lined(run_pid, st, EnQueAll(ready_que, batch))
  BY <1>3, <1>4, ReadyAllLemma
<1>6. ~(Root(stack).at <= 2)
  <2> DEFINE a == Top(run_pid)
  <2>1. a.text = "init" /\ a.at = 5
    BY <1>1, <1>3, CallTexts
  <2>2. Tip(stack, run_pid) = <<Parent, 1>> /\ Frame(stack, Tip(stack, run_pid)) = a
    BY <1>3, <2>1, TopText
  <2> QED
    BY <2>1, <2>2 DEF Root
<1>7. Good(stack, st, avail_que, handler, lock, suspend_que, sys_cursor)
  BY <1>3, <1>4, <1>6, GoodWake
<1>8. Advance /\ UNCHANGED <<avail_que, video_mutex, sys_cursor>> /\ handler' = handler
  BY DEF SysKill
<1>9. handler' \in BOOLEAN /\ (handler' <=> handler \/ Op(Top(run_pid)) = "signal")
  BY <1>1, <1>3, <1>8 DEF Good, Forked
<1> HIDE DEF st
<1> QED
  BY <1>1, <1>2, <1>5, <1>7, <1>8, <1>9, OrdinaryStep

\* The running process leaves the CPU for the state v.
LEMMA ParkStep ==
  ASSUME IInv, run_pid # IDLE, NEW v \in {"SLEEP", "SUSPEND", "ZOMBIE"},
         Scheduler(NONE, Put(state, run_pid, v), ready_que)
  PROVE  /\ SchedInv' /\ Like(Put(state, run_pid, v), state')
         /\ Only(state, Put(state, run_pid, v), run_pid) /\ Put(state, run_pid, v)[run_pid] = v
<1>1. run_pid \in Procs /\ Lined(run_pid, state, ready_que) /\ state \in [Procs -> States]
  BY Caller
<1>2. v \in States \ {"READY", "RUN"}
  BY DEF States
<1>3. Lined(NONE, Put(state, run_pid, v), ready_que)
  BY <1>1, <1>2, ParkLemma
<1>4. SchedInv' /\ Like(Put(state, run_pid, v), state')
  BY <1>3, SchedulerLemma
<1>5. Only(state, Put(state, run_pid, v), run_pid) /\ Put(state, run_pid, v)[run_pid] = v
  BY <1>1, <1>2 DEF Only, Put
<1> QED
  BY <1>4, <1>5

\* A sleep, the long one of the children included.
LEMMA SleepStep == IInv /\ SysSleep => IInv'
<1> SUFFICES ASSUME IInv, SysSleep PROVE IInv'
  OBVIOUS
<1> DEFINE st == Put(state, run_pid, "SLEEP")
           a == Top(run_pid)
<1>1. run_pid # IDLE /\ Op(a) \in {"sleep", "nap"}
  BY DEF SysSleep, Calls
<1>2. /\ SchedInv' /\ Like(st, state') /\ Only(state, st, run_pid) /\ st[run_pid] = "SLEEP"
  <2>1. Scheduler(NONE, st, ready_que)
    BY DEF SysSleep, Put
  <2> QED
    BY <1>1, <2>1, ParkStep
<1>3. /\ run_pid \in Procs /\ state[run_pid] = "RUN"
      /\ Good(stack, state, avail_que, handler, lock, suspend_que, sys_cursor)
      /\ stack[run_pid] # << >> /\ a = Head(stack[run_pid])
  BY <1>1, Caller
<1>4. Replaced(stack, stack', run_pid, Resumed(a))
  BY <1>3 DEF SysSleep, Advance, Advanced, Replaced
<1>5. handler \in BOOLEAN /\ (handler <=> handler \/ Op(a) = "signal")
  BY <1>1, <1>3 DEF Good, Forked
<1> HIDE DEF st, a
<1>6. Good(stack', st, avail_que, handler, lock, suspend_que, sys_cursor)
  BY <1>1, <1>2, <1>3, <1>4, <1>5, GoodAdvance
<1>7. Good(stack', st, avail_que', handler', lock', suspend_que', sys_cursor')
  BY <1>6 DEF SysSleep, video_mutex
<1> QED
  BY <1>2, <1>7, Settle

-----------------------------------------------------------------------------
\* A free mutex is taken: its taker is the only one inside.
LEMMA LockGuarded ==
  ASSUME NEW s \in Stacks, NEW p \in Procs, s[p] # << >>, NEW a \in Place, a = Head(s[p]),
         Op(a) = "lock", NEW t, Replaced(s, t, p, Resumed(a)),
         NEW st \in [Procs -> States], st[p] # "SUSPEND",
         NEW sq, NEW cur, Guarded(s, st, "UNLOCKED", sq, cur)
  PROVE  Guarded(t, st, "LOCKED", sq, cur)
<1> DEFINE b == Resumed(a)
           tip == Tip(s, p)
<1>1. b \in Place /\ Op(b) = "set_cursor"
  BY ResumedPlaces, NextCalls
<1> HIDE DEF b
<1>2. Replaced(s, t, p, b) /\ Only(st, st, p)
  BY DEF b, Only
<1>3. /\ Acts(t) = Acts(s) /\ tip \in Acts(s) /\ Frame(t, tip) = b
      /\ \A x \in Acts(s) : x # tip => Frame(t, x) = Frame(s, x)
  BY <1>1, <1>2, AdvanceEffect
<1>4. /\ \A x \in Acts(s) : Susp(t, st, x) <=> Susp(s, st, x)
      /\ ~Susp(s, st, tip) /\ ~Susp(t, st, tip)
  BY <1>1, <1>2, AdvanceSusp
<1> HIDE DEF tip
<1>5. \A x \in Acts(s) : ~Crit(s, st, x)
  BY DEF Guarded
<1>6. \A x \in Acts(t) : Crit(t, st, x) => x = tip
  BY <1>3, <1>4, <1>5 DEF Crit
<1>7. \A x \in Acts(t) : Susp(t, st, x) => Op(Frame(t, x)) = "set_cursor"
  BY <1>3, <1>4 DEF Guarded
<1>8. ASSUME NEW x \in Acts(t), Op(Frame(t, x)) = "write", ~Susp(t, st, x)
      PROVE  FALSE
  <2>1. Crit(t, st, x)
    BY <1>8 DEF Crit, Section
  <2> QED
    BY <1>1, <1>3, <1>6, <1>8, <2>1
<1> QED
  BY <1>6, <1>7, <1>8 DEF Guarded

\* The cursor is placed: by the one inside, who draws next.
LEMMA CursorGuarded ==
  ASSUME NEW s \in Stacks, NEW p \in Procs, s[p] # << >>, NEW a \in Place, a = Head(s[p]),
         Op(a) = "set_cursor", NEW t, Replaced(s, t, p, Resumed(a)),
         NEW st \in [Procs -> States], st[p] # "SUSPEND",
         NEW lk, NEW sq, NEW cur, Guarded(s, st, lk, sq, cur)
  PROVE  Guarded(t, st, lk, sq, Tip(s, p))
<1> DEFINE b == Resumed(a)
           tip == Tip(s, p)
<1>1. b \in Place /\ Op(b) = "write"
  BY ResumedPlaces, NextCalls
<1> HIDE DEF b
<1>2. Replaced(s, t, p, b) /\ Only(st, st, p)
  BY DEF b, Only
<1>3. /\ Acts(t) = Acts(s) /\ tip \in Acts(s) /\ Frame(t, tip) = b /\ Frame(s, tip) = a
      /\ \A x \in Acts(s) : x # tip => Frame(t, x) = Frame(s, x)
  BY <1>1, <1>2, AdvanceEffect
<1>4. /\ \A x \in Acts(s) : Susp(t, st, x) <=> Susp(s, st, x)
      /\ ~Susp(s, st, tip) /\ ~Susp(t, st, tip)
  BY <1>1, <1>2, AdvanceSusp
<1>5. tip \in ({IDLE} \cup Procs) \X Nat
  <2>1. Len(s[p]) \in Nat
    BY ActsMembers
  <2> QED
    BY <2>1 DEF Tip
<1> HIDE DEF tip
<1>6. Crit(s, st, tip)
  BY <1>3, <1>4 DEF Crit, Section
<1>7. \A x \in Acts(t) : Crit(t, st, x) => x = tip
  <2>1. \A x \in Acts(t) : Crit(t, st, x) /\ x # tip => Crit(s, st, x)
    BY <1>3, <1>4 DEF Crit
  <2> QED
    BY <1>3, <1>6, <2>1 DEF Guarded
<1>8. \A x \in Acts(t) : Susp(t, st, x) => Op(Frame(t, x)) = "set_cursor"
  BY <1>3, <1>4 DEF Guarded
<1>9. \A x \in Acts(t) : Op(Frame(t, x)) = "write" /\ ~Susp(t, st, x) => tip = x
  BY <1>7 DEF Crit, Section
<1>10. lk = "LOCKED"
  BY <1>3, <1>6 DEF Guarded
<1>11. Guarded(t, st, lk, sq, tip)
  BY <1>5, <1>7, <1>8, <1>9, <1>10 DEF Guarded
<1> QED
  BY <1>11 DEF tip

\* A process joins the queue of the mutex: it is suspended in the call it made,
\* and whatever lies below that call stays where it was.
LEMMA BlockGuarded ==
  ASSUME NEW s \in Stacks, NEW p \in Procs, s[p] # << >>, NEW a \in Place, a = Head(s[p]),
         Op(a) = "lock", NEW t, Replaced(s, t, p, Resumed(a)),
         NEW st, NEW st2, Only(st, st2, p), st[p] # "SUSPEND", st2[p] = "SUSPEND",
         NEW sq, NEW sq2, NEW cur, Guarded(s, st, "LOCKED", sq, cur)
  PROVE  Guarded(t, st2, "LOCKED", sq2, cur)
<1> DEFINE b == Resumed(a)
           tip == Tip(s, p)
<1>1. b \in Place /\ Op(b) = "set_cursor"
  BY ResumedPlaces, NextCalls
<1> HIDE DEF b
<1>2. Replaced(s, t, p, b)
  BY DEF b
<1>3. /\ t \in Stacks /\ Acts(t) = Acts(s) /\ tip \in Acts(s) /\ Frame(t, tip) = b
      /\ Len(t[p]) = Len(s[p]) /\ \A q \in Procs : q # p => t[q] = s[q]
      /\ \A x \in Acts(s) : x # tip => Frame(t, x) = Frame(s, x)
  BY <1>1, <1>2, AdvanceEffect
<1>4. /\ \A x \in Acts(s) : x = <<x[1], x[2]>> /\ x[1] \in Procs /\ x[2] \in 1..Len(s[x[1]])
      /\ Len(s[p]) \in Nat
  BY ActsMembers
<1>5. tip[1] = p /\ tip[2] = Len(s[p])
  BY DEF Tip
<1>6. \A x \in Acts(s) : x[1] = p => x[2] <= tip[2] /\ (x # tip => tip[2] > x[2])
  BY <1>4 DEF Tip
<1> HIDE DEF tip
<1>7. Susp(t, st2, tip)
  <2>1. \A y \in Acts(t) : y[1] = p => ~(y[2] > tip[2])
    BY <1>3, <1>4, <1>5, <1>6
  <2> QED
    BY <1>1, <1>3, <1>5, <2>1 DEF Susp
<1>8. \A x \in Acts(s) : x[1] = p /\ x # tip => ~Susp(t, st2, x)
  <2> SUFFICES ASSUME NEW x \in Acts(s), x[1] = p, x # tip, Susp(t, st2, x) PROVE FALSE
    OBVIOUS
  <2>1. tip \in Acts(t) /\ tip[1] = x[1] /\ tip[2] > x[2]
    BY <1>3, <1>5, <1>6
  <2>2. Op(Frame(t, tip)) = "wait"
    BY <2>1 DEF Susp
  <2> QED
    BY <1>1, <1>3, <2>2
<1>9. \A x \in Acts(s) : x[1] = p => ~Susp(s, st, x)
  BY DEF Susp
<1>10. ASSUME NEW x \in Acts(s), x[1] # p
       PROVE  Susp(t, st2, x) <=> Susp(s, st, x)
  <2>1. x[1] \in Procs /\ t[x[1]] = s[x[1]] /\ (st2[x[1]] = "SUSPEND" <=> st[x[1]] = "SUSPEND")
    BY <1>3, <1>4, <1>10 DEF Only
  <2> QED
    BY <1>3, <2>1, OtherProcess
<1>11. \A x \in Acts(s) : x # tip => (Susp(t, st2, x) <=> Susp(s, st, x))
  BY <1>8, <1>9, <1>10
<1>12. \A x \in Acts(t) : Crit(t, st2, x) => x \in Acts(s) /\ Crit(s, st, x)
  BY <1>3, <1>7, <1>11 DEF Crit
<1>13. \A x \in Acts(t) : Susp(t, st2, x) => Op(Frame(t, x)) = "set_cursor"
  BY <1>1, <1>3, <1>11 DEF Guarded
<1>14. \A x \in Acts(t) : Op(Frame(t, x)) = "write" /\ ~Susp(t, st2, x) => cur = x
  BY <1>3, <1>7, <1>11 DEF Guarded
<1>15. \A x, y \in Acts(t) : Crit(t, st2, x) /\ Crit(t, st2, y) => x = y
  BY <1>12 DEF Guarded
<1>16. cur \in ({IDLE} \cup Procs) \X Nat
  BY DEF Guarded
<1> QED
  BY <1>13, <1>14, <1>15, <1>16 DEF Guarded

\* One activation of a process at most is the one whose call suspended it.
LEMMA SuspUnique ==
  ASSUME NEW s \in Stacks, NEW st, NEW x \in Acts(s), NEW y \in Acts(s), x[1] = y[1],
         Susp(s, st, x), Susp(s, st, y)
  PROVE  x = y
<1>1. /\ x = <<x[1], x[2]>> /\ y = <<y[1], y[2]>> /\ x[2] \in Int /\ y[2] \in Int
  <2>1. /\ x = <<x[1], x[2]>> /\ x[1] \in Procs /\ x[2] \in 1..Len(s[x[1]])
        /\ y = <<y[1], y[2]>> /\ y[1] \in Procs /\ y[2] \in 1..Len(s[y[1]])
        /\ Len(s[x[1]]) \in Nat
    BY ActsMembers
  <2> QED
    BY <2>1
<1>2. ~(y[2] > x[2]) /\ ~(x[2] > y[2])
  BY DEF Susp
<1> QED
  BY <1>1, <1>2

\* The mutex is handed over when its holder has left: who receives it is inside.
LEMMA HandGuarded ==
  ASSUME NEW t \in Stacks, NEW st, NEW w \in Procs, NEW st2, Only(st, st2, w), st2[w] # "SUSPEND",
         NEW sq, NEW sq2, NEW cur, Guarded(t, st, "LOCKED", sq, cur),
         \A x \in Acts(t) : ~Crit(t, st, x)
  PROVE  Guarded(t, st2, "LOCKED", sq2, cur)
<1>1. \A x \in Acts(t) : x[1] \in Procs
  BY ActsMembers
<1>2. \A x \in Acts(t) : x[1] # w => (Susp(t, st2, x) <=> Susp(t, st, x))
  BY <1>1 DEF Susp, Only
<1>3. \A x \in Acts(t) : x[1] = w => ~Susp(t, st2, x)
  BY DEF Susp
<1>4. \A x \in Acts(t) : Crit(t, st2, x) => x[1] = w /\ Susp(t, st, x)
  BY <1>2 DEF Crit
<1>5. \A x, y \in Acts(t) : Crit(t, st2, x) /\ Crit(t, st2, y) => x = y
  BY <1>4, SuspUnique
<1>6. \A x \in Acts(t) : Susp(t, st2, x) => Op(Frame(t, x)) = "set_cursor"
  BY <1>2, <1>3 DEF Guarded
<1>7. ASSUME NEW x \in Acts(t), Op(Frame(t, x)) = "write", ~Susp(t, st2, x)
      PROVE  FALSE
  <2>1. Susp(t, st, x)
    BY <1>4, <1>7 DEF Crit, Section
  <2> QED
    BY <1>7, <2>1 DEF Guarded
<1>8. cur \in ({IDLE} \cup Procs) \X Nat
  BY DEF Guarded
<1> QED
  BY <1>5, <1>6, <1>7, <1>8 DEF Guarded

-----------------------------------------------------------------------------
\* What a lock or a set_cursor leaves: the stacks' shape, the forks, the count.
LEMMA SectionRest ==
  ASSUME NEW s, NEW st, NEW aq, NEW hd, Shape(s, st), Forked(s, st, aq, hd), Counted(s, st),
         NEW p \in Procs, s[p] # << >>, st[p] = "RUN", NEW a, a = Head(s[p]),
         Op(a) \in {"lock", "set_cursor"}, NEW t, Replaced(s, t, p, Resumed(a)),
         NEW st2, Only(st, st2, p), st2[p] \in {"RUN", "SUSPEND"}
  PROVE  Shape(t, st2) /\ Forked(t, st2, aq, hd) /\ Counted(t, st2)
<1> DEFINE b == Resumed(a)
<1>1. s \in Stacks
  BY DEF Shape
<1>2. a \in Place
  BY TopText
<1>3. b \in Place /\ b.text = a.text /\ Op(b) # "wait"
  BY <1>2, ResumedPlaces, NextCalls
<1>4. ~Gone(st, p) /\ ~Gone(st2, p) /\ st2[p] # "WAIT"
  BY DEF Gone
<1>5. hd \in BOOLEAN /\ (hd <=> hd \/ Op(a) = "signal")
  BY DEF Forked
<1>6. Forked(t, st2, aq, hd)
  BY <1>4, <1>5, AdvanceForked
<1> HIDE DEF b
<1>7. Replaced(s, t, p, b)
  BY DEF b
<1>8. Shape(t, st2)
  BY <1>1, <1>3, <1>4, <1>7, AdvanceShape
<1>9. Counted(t, st2)
  BY <1>1, <1>3, <1>4, <1>7, AdvanceCounted
<1> QED
  BY <1>6, <1>8, <1>9

\* sys_lock_mutex.
LEMMA LockStep == IInv /\ SysLockMutex => IInv'
<1> SUFFICES ASSUME IInv, SysLockMutex PROVE IInv'
  OBVIOUS
<1> DEFINE a == Top(run_pid)
           r == run_pid
<1>1. r # IDLE /\ Op(a) = "lock"
  BY DEF SysLockMutex, Calls
<1>2. /\ r \in Procs /\ state[r] = "RUN" /\ state \in [Procs -> States]
      /\ Lined(r, state, ready_que)
      /\ Good(stack, state, avail_que, handler, lock, suspend_que, sys_cursor)
      /\ Shape(stack, state) /\ stack \in Stacks
      /\ stack[r] # << >> /\ a = Head(stack[r]) /\ a \in Place
  BY <1>1, Caller
<1>3. Replaced(stack, stack', r, Resumed(a))
  BY <1>2 DEF SysLockMutex, Advance, Advanced, Replaced
<1>4. UNCHANGED <<avail_que, handler, sys_cursor>>
  BY DEF SysLockMutex
<1>5. /\ Queued(state, avail_que, suspend_que) /\ Forked(stack, state, avail_que, handler)
      /\ Guarded(stack, state, lock, suspend_que, sys_cursor) /\ Counted(stack, state)
  BY <1>2 DEF Good
<1>6. CASE /\ lock = "UNLOCKED" /\ lock' = "LOCKED"
           /\ Demote(state, ready_que) /\ UNCHANGED suspend_que
  <2>1. SchedInv' /\ Like(state, state')
    BY <1>2, <1>6, DemoteLemma
  <2>2. Only(state, state, r)
    BY <1>2 DEF Only
  <2> HIDE DEF a, r
  <2>3. Shape(stack', state) /\ Forked(stack', state, avail_que, handler) /\ Counted(stack', state)
    BY <1>1, <1>2, <1>3, <1>5, <2>2, SectionRest
  <2>4. Guarded(stack', state, "LOCKED", suspend_que, sys_cursor)
    BY <1>1, <1>2, <1>3, <1>5, <1>6, LockGuarded
  <2>5. Good(stack', state, avail_que', handler', lock', suspend_que', sys_cursor')
    BY <1>4, <1>5, <1>6, <2>3, <2>4 DEF Good
  <2> QED
    BY <2>1, <2>5, Settle
<1>7. CASE /\ lock = "LOCKED" /\ suspend_que' = EnQue(suspend_que, run_pid)
           /\ Scheduler(NONE, [state EXCEPT ![run_pid] = "SUSPEND"], ready_que)
           /\ UNCHANGED lock
  <2> DEFINE st == Put(state, r, "SUSPEND")
  <2>1. /\ SchedInv' /\ Like(st, state') /\ Only(state, st, r) /\ st[r] = "SUSPEND"
    <3>1. Scheduler(NONE, st, ready_que)
      BY <1>7 DEF Put
    <3> QED
      BY <1>1, <3>1, ParkStep
  <2>2. /\ In(st, "SUSPEND") = In(state, "SUSPEND") \cup {r} /\ r \notin In(state, "SUSPEND")
        /\ In(st, "AVAIL") = In(state, "AVAIL") /\ In(state, "SUSPEND") \in SUBSET Procs
    BY <1>2 DEF In, Put
  <2> HIDE DEF a, r, st
  <2>3. Shape(stack', st) /\ Forked(stack', st, avail_que, handler) /\ Counted(stack', st)
    BY <1>1, <1>2, <1>3, <1>5, <2>1, SectionRest
  <2>4. Guarded(stack', st, "LOCKED", EnQue(suspend_que, r), sys_cursor)
    BY <1>1, <1>2, <1>3, <1>5, <1>7, <2>1, BlockGuarded
  <2>5. /\ EnQue(suspend_que, r) \in Seq(Procs)
        /\ Holds(EnQue(suspend_que, r), In(state, "SUSPEND") \cup {r})
    BY <1>2, <1>5, <2>2, EnQueProc DEF Queued
  <2>6. Queued(st, avail_que, EnQue(suspend_que, r))
    BY <1>5, <2>2, <2>5 DEF Queued
  <2>7. suspend_que' = EnQue(suspend_que, r) /\ lock' = "LOCKED"
    BY <1>7 DEF r
  <2>8. Good(stack', st, avail_que', handler', lock', suspend_que', sys_cursor')
    BY <1>4, <2>3, <2>4, <2>6, <2>7 DEF Good
  <2> QED
    BY <2>1, <2>8, Settle
<1> QED
  BY <1>6, <1>7 DEF SysLockMutex

\* sys_set_cursor.
LEMMA CursorStep == IInv /\ SysSetCursor => IInv'
<1> SUFFICES ASSUME IInv, SysSetCursor PROVE IInv'
  OBVIOUS
<1> DEFINE a == Top(run_pid)
           r == run_pid
<1>1. r # IDLE /\ Op(a) = "set_cursor"
  BY DEF SysSetCursor, Calls
<1>2. /\ r \in Procs /\ state[r] = "RUN" /\ state \in [Procs -> States]
      /\ Lined(r, state, ready_que)
      /\ Good(stack, state, avail_que, handler, lock, suspend_que, sys_cursor)
      /\ Shape(stack, state) /\ stack \in Stacks
      /\ stack[r] # << >> /\ a = Head(stack[r]) /\ a \in Place
      /\ Running = Tip(stack, r)
  BY <1>1, Caller
<1>3. Replaced(stack, stack', r, Resumed(a))
  BY <1>2 DEF SysSetCursor, Advance, Advanced, Replaced
<1>4. /\ UNCHANGED <<avail_que, lock, suspend_que, handler>> /\ sys_cursor' = Tip(stack, r)
      /\ Demote(state, ready_que)
  BY <1>2 DEF SysSetCursor, video_mutex
<1>5. /\ Queued(state, avail_que, suspend_que) /\ Forked(stack, state, avail_que, handler)
      /\ Guarded(stack, state, lock, suspend_que, sys_cursor) /\ Counted(stack, state)
  BY <1>2 DEF Good
<1>6. SchedInv' /\ Like(state, state')
  BY <1>2, <1>4, DemoteLemma
<1>7. Only(state, state, r)
  BY <1>2 DEF Only
<1> HIDE DEF a, r
<1>8. Shape(stack', state) /\ Forked(stack', state, avail_que, handler) /\ Counted(stack', state)
  BY <1>1, <1>2, <1>3, <1>5, <1>7, SectionRest
<1>9. Guarded(stack', state, lock, suspend_que, Tip(stack, r))
  BY <1>1, <1>2, <1>3, <1>5, CursorGuarded
<1>10. Good(stack', state, avail_que', handler', lock', suspend_que', sys_cursor')
  BY <1>4, <1>5, <1>8, <1>9 DEF Good
<1> QED
  BY <1>6, <1>10, Settle

\* sys_unlock_mutex.
LEMMA UnlockStep == IInv /\ SysUnlockMutex => IInv'
<1> SUFFICES ASSUME IInv, SysUnlockMutex PROVE IInv'
  OBVIOUS
<1> DEFINE a == Top(run_pid)
           r == run_pid
<1>1. r # IDLE /\ Op(a) = "unlock"
  BY DEF SysUnlockMutex, Calls
<1>2. /\ r \in Procs /\ state[r] = "RUN" /\ state \in [Procs -> States]
      /\ Lined(r, state, ready_que)
      /\ Good(stack, state, avail_que, handler, lock, suspend_que, sys_cursor)
      /\ stack[r] # << >> /\ a = Head(stack[r]) /\ a \in Place
  BY <1>1, Caller
<1>3. Replaced(stack, stack', r, Resumed(a))
  BY <1>2 DEF SysUnlockMutex, Advance, Advanced, Replaced
<1>4. UNCHANGED <<avail_que, handler, sys_cursor>>
  BY DEF SysUnlockMutex
<1>5. /\ Good(stack', state, avail_que, handler, lock, suspend_que, sys_cursor)
      /\ \A x \in Acts(stack') : ~Crit(stack', state, x)
  <2>1. handler \in BOOLEAN /\ (handler <=> handler \/ Op(a) = "signal")
    BY <1>1, <1>2 DEF Good, Forked
  <2>2. Only(state, state, r)
    BY <1>2 DEF Only
  <2> HIDE DEF a, r
  <2> QED
    BY <1>1, <1>2, <1>3, <2>1, <2>2, GoodAdvance
<1>6. /\ Queued(state, avail_que, suspend_que) /\ Shape(stack', state)
      /\ Forked(stack', state, avail_que, handler)
      /\ Guarded(stack', state, lock, suspend_que, sys_cursor) /\ Counted(stack', state)
      /\ stack' \in Stacks
  BY <1>5 DEF Good, Shape
<1>7. CASE /\ QueEmpty(suspend_que) /\ lock' = "UNLOCKED"
           /\ Demote(state, ready_que) /\ UNCHANGED suspend_que
  <2>1. SchedInv' /\ Like(state, state')
    BY <1>2, <1>7, DemoteLemma
  <2>2. suspend_que = << >>
    BY <1>7 DEF QueEmpty
  <2>3. Guarded(stack', state, "UNLOCKED", suspend_que, sys_cursor)
    BY <1>5, <1>6, <2>2 DEF Guarded
  <2>4. Good(stack', state, avail_que', handler', lock', suspend_que', sys_cursor')
    BY <1>4, <1>6, <1>7, <2>3 DEF Good
  <2> QED
    BY <2>1, <2>4, Settle
<1>8. CASE /\ ~QueEmpty(suspend_que) /\ suspend_que' = AfterDeQue(suspend_que)
           /\ Demote([state EXCEPT ![Head(suspend_que)] = "READY"],
                     EnQue(ready_que, Head(suspend_que)))
           /\ UNCHANGED lock
  <2> DEFINE w == Head(suspend_que)
             st == Put(state, w, "READY")
  <2>1. /\ suspend_que # << >> /\ suspend_que' = Tail(suspend_que)
        /\ Demote(st, EnQue(ready_que, w))
    BY <1>8 DEF QueEmpty, AfterDeQue, Put
  <2>2. /\ w \in In(state, "SUSPEND") /\ Tail(suspend_que) \in Seq(Procs)
        /\ Holds(Tail(suspend_que), In(state, "SUSPEND") \ {w})
    BY <1>6, <2>1, HoldsTail DEF Queued
  <2>3. lock = "LOCKED"
    BY <1>6, <2>1 DEF Guarded
  <2> HIDE DEF w, st
  <2>4. w \in Procs /\ state[w] = "SUSPEND"
    BY <2>2 DEF In
  <2>5. Lined(r, st, EnQue(ready_que, w))
    BY <1>2, <2>4, ReadyLemma DEF st
  <2>6. SchedInv' /\ Like(st, state')
    BY <1>2, <2>1, <2>5, DemoteLemma
  <2>7. Only(state, st, w) /\ st[w] = "READY"
    BY <1>2, <2>4 DEF Only, Put, st, States
  <2>8. Guarded(stack', st, "LOCKED", Tail(suspend_que), sys_cursor)
    BY <1>5, <1>6, <2>3, <2>4, <2>7, HandGuarded
  <2>9. /\ In(st, "SUSPEND") = In(state, "SUSPEND") \ {w} /\ In(st, "AVAIL") = In(state, "AVAIL")
        /\ In(st, "ZOMBIE") = In(state, "ZOMBIE")
    BY <2>4, <2>7 DEF In, Only
  <2>10. Queued(st, avail_que, Tail(suspend_que)) /\ Counted(stack', st)
    BY <1>6, <2>2, <2>9 DEF Queued, Counted
  <2>11. Parent \in Procs /\ Child \subseteq Procs
    BY PidFacts
  <2>12. \A p \in Procs : /\ Gone(st, p) <=> Gone(state, p)
                          /\ st[p] = "AVAIL" <=> state[p] = "AVAIL"
                          /\ st[p] = "ZOMBIE" <=> state[p] = "ZOMBIE"
                          /\ st[p] = "SLEEP" <=> state[p] = "SLEEP"
                          /\ st[p] = "WAIT" <=> state[p] = "WAIT"
    BY <2>4, <2>7 DEF Gone, Only
  <2>13. Shape(stack', st)
    BY <1>6, <2>11, <2>12 DEF Shape
  <2>14. Forked(stack', st, avail_que, handler)
    BY <1>6, <2>11, <2>12 DEF Forked
  <2>15. Good(stack', st, avail_que', handler', lock', suspend_que', sys_cursor')
    BY <1>4, <1>8, <2>1, <2>3, <2>8, <2>10, <2>13, <2>14 DEF Good
  <2> QED
    BY <2>6, <2>15, Settle
<1> QED
  BY <1>7, <1>8 DEF SysUnlockMutex

-----------------------------------------------------------------------------
\* The activations that are put on stacks.
LEMMA NewPlaces ==
  /\ Activation("init") \in Place /\ Activation("init").text = "init"
  /\ Activation("init").at = 1 /\ Activation("init").col = 0 /\ Op(Activation("init")) = "signal"
  /\ Activation("child") \in Place /\ Activation("child").text = "child"
  /\ Activation("child").at = 1 /\ Op(Activation("child")) = "get_pid"
  /\ Activation("handler") \in Place /\ Activation("handler").text = "handler"
  /\ Op(Activation("handler")) = "wait"
<1>1. /\ Activation("init") \in Places("init", 10) /\ Activation("child") \in Places("child", 13)
      /\ Activation("handler") \in Places("handler", 8)
  BY DEF Activation, Places
<1>2. /\ Activation("init").text = "init" /\ Activation("init").at = 1 /\ Activation("init").col = 0
      /\ Activation("child").text = "child" /\ Activation("child").at = 1
      /\ Activation("handler").text = "handler" /\ Activation("handler").at = 1
  BY DEF Activation
<1> HIDE DEF Activation
<1> QED
  BY <1>1, <1>2, TextCalls DEF Place

\* A process that is not suspended gives up its top activation, which is neither
\* inside nor about to wait.
LEMMA PopGuarded ==
  ASSUME NEW s \in Stacks, NEW p \in Procs, s[p] # << >>, NEW t, Popped(s, t, p),
         NEW st, NEW st2, Only(st, st2, p), st[p] # "SUSPEND", st2[p] # "SUSPEND",
         NEW lk, NEW sq, NEW cur, Guarded(s, st, lk, sq, cur)
  PROVE  Guarded(t, st2, lk, sq, cur)
<1>1. /\ t \in Stacks /\ \A q \in Procs : q # p => t[q] = s[q]
      /\ \A x \in Acts(t) : x \in Acts(s) /\ Frame(t, x) = Frame(s, x)
  BY PopEffect
<1>2. \A x \in Acts(t) : x[1] \in Procs
  BY <1>1, ActsMembers
<1>3. \A x \in Acts(t) : Susp(t, st2, x) <=> Susp(s, st, x)
  <2> SUFFICES ASSUME NEW x \in Acts(t) PROVE Susp(t, st2, x) <=> Susp(s, st, x)
    OBVIOUS
  <2>1. CASE x[1] = p
    BY <2>1 DEF Susp
  <2>2. CASE x[1] # p
    <3>1. x[1] \in Procs /\ t[x[1]] = s[x[1]] /\ (st2[x[1]] = "SUSPEND" <=> st[x[1]] = "SUSPEND")
      BY <1>1, <1>2, <2>2 DEF Only
    <3> QED
      BY <1>1, <3>1, OtherProcess
  <2> QED
    BY <2>1, <2>2
<1>4. \A x \in Acts(t) : Crit(t, st2, x) => Crit(s, st, x)
  BY <1>1, <1>3 DEF Crit
<1> QED
  BY <1>1, <1>3, <1>4, GuardedKeep

\* An activation that is outside is put on a stack: on a suspended process only
\* one that is about to wait.
LEMMA PushGuarded ==
  ASSUME NEW s \in Stacks, NEW p \in Procs, NEW b \in Place, NEW t, Pushed(s, t, p, b),
         NEW st, NEW st2, Only(st, st2, p), Op(b) \notin Section,
         st2[p] = "SUSPEND" <=> st[p] = "SUSPEND", st[p] = "SUSPEND" => Op(b) = "wait",
         NEW lk, NEW sq, NEW cur, Guarded(s, st, lk, sq, cur)
  PROVE  Guarded(t, st2, lk, sq, cur)
<1> DEFINE new == Tip(t, p)
<1>1. /\ t \in Stacks /\ Acts(t) = Acts(s) \cup {new} /\ new \notin Acts(s)
      /\ Frame(t, new) = b /\ \A q \in Procs : q # p => t[q] = s[q]
      /\ \A x \in Acts(s) : Frame(t, x) = Frame(s, x)
  BY PushEffect
<1>2. new[1] = p
  BY DEF Tip
<1> HIDE DEF new
<1>3. ~Susp(t, st2, new)
  BY <1>1, <1>2 DEF Susp
<1>4. \A x \in Acts(s) : Susp(t, st2, x) <=> Susp(s, st, x)
  <2> SUFFICES ASSUME NEW x \in Acts(s) PROVE Susp(t, st2, x) <=> Susp(s, st, x)
    OBVIOUS
  <2>1. x[1] \in Procs
    BY ActsMembers
  <2>2. CASE x[1] = p
    BY <1>1, <1>2, <2>2 DEF Susp
  <2>3. CASE x[1] # p
    <3>1. t[x[1]] = s[x[1]] /\ (st2[x[1]] = "SUSPEND" <=> st[x[1]] = "SUSPEND")
      BY <1>1, <2>1, <2>3 DEF Only
    <3> QED
      BY <1>1, <2>1, <3>1, OtherProcess
  <2> QED
    BY <2>2, <2>3
<1>5. \A x \in Acts(t) : Susp(t, st2, x) => x \in Acts(s) /\ Susp(s, st, x) /\ Frame(t, x) = Frame(s, x)
  BY <1>1, <1>3, <1>4
<1>6. \A x \in Acts(t) : Crit(t, st2, x) => x \in Acts(s) /\ Crit(s, st, x)
  BY <1>1, <1>4 DEF Crit
<1>7. \A x \in Acts(t) : Op(Frame(t, x)) = "write" /\ ~Susp(t, st2, x) =>
             x \in Acts(s) /\ Op(Frame(s, x)) = "write" /\ ~Susp(s, st, x)
  BY <1>1, <1>4 DEF Section
<1> QED
  BY <1>5, <1>6, <1>7, GuardedKeep

\* Init lies at the bottom of the parent's stack.
LEMMA RootPlace ==
  ASSUME NEW s, NEW st, Shape(s, st)
  PROVE  <<Parent, 1>> \in Acts(s) /\ Root(s) \in Place /\ Root(s).at \in Nat
<1>1. <<Parent, 1>> \in Acts(s) /\ s \in Stacks
  <2>1. s \in Stacks /\ Parent \in Procs /\ Len(s[Parent]) >= 1
    BY PidFacts DEF Shape
  <2>2. Len(s[Parent]) \in Nat
    BY <2>1, ActsMembers
  <2>3. 1 \in 1..Len(s[Parent])
    BY <2>1, <2>2
  <2> QED
    BY <2>1, <2>3, ActsMembers
<1>2. Root(s) \in Place
  BY <1>1, ActsMembers DEF Root
<1>3. Root(s).at \in Nat
  BY <1>2 DEF Place, Places
<1> QED
  BY <1>1, <1>2, <1>3

\* Once the parent is in its handler, Init has forked.
LEMMA InHandler ==
  ASSUME NEW s, NEW st, NEW aq, NEW hd, Shape(s, st), Forked(s, st, aq, hd), Len(s[Parent]) # 1
  PROVE  hd /\ hd \in BOOLEAN /\ Root(s).at > 1 /\ Root(s).at # 1 /\ ~(Root(s).at <= 2)
<1>1. ~(Root(s).at <= 2)
  BY DEF Forked
<1>2. Root(s).at \in Nat
  BY RootPlace
<1> QED
  BY <1>1, <1>2 DEF Forked

\* The handler returns.
LEMMA ReturnStep == IInv /\ HandlerReturns => IInv'
<1> SUFFICES ASSUME IInv, HandlerReturns PROVE IInv'
  OBVIOUS
<1> DEFINE a == Top(run_pid)
           r == run_pid
           t == stack'
           tip == Tip(stack, r)
           rt == <<Parent, 1>>
<1>1. r # IDLE /\ Op(a) = "return"
  BY DEF HandlerReturns, Calls
<1>2. /\ r \in Procs /\ state[r] = "RUN" /\ state \in [Procs -> States]
      /\ Good(stack, state, avail_que, handler, lock, suspend_que, sys_cursor)
      /\ Shape(stack, state) /\ stack \in Stacks
      /\ stack[r] # << >> /\ a = Head(stack[r]) /\ a \in Place
  BY <1>1, Caller
<1>3. Popped(stack, t, r)
  BY DEF HandlerReturns, Popped
<1>4. UNCHANGED <<sched, avail_que, lock, suspend_que, handler, sys_cursor>>
  BY DEF HandlerReturns, video_mutex
<1>5. /\ Queued(state, avail_que, suspend_que) /\ Forked(stack, state, avail_que, handler)
      /\ Guarded(stack, state, lock, suspend_que, sys_cursor) /\ Counted(stack, state)
  BY <1>2 DEF Good
<1>6. /\ r = Parent /\ Len(stack[r]) # 1 /\ tip # rt /\ rt \in Acts(stack)
  <2>1. a.text = "handler"
    BY <1>1, <1>2, CallTexts
  <2> QED
    BY <1>2, <2>1, TopText
<1>7. /\ t \in Stacks /\ Acts(t) = Acts(stack) \ {tip} /\ tip \in Acts(stack)
      /\ Frame(stack, tip) = a
      /\ Len(t[r]) = Len(stack[r]) - 1 /\ \A q \in Procs : q # r => t[q] = stack[q]
      /\ \A x \in Acts(t) : Frame(t, x) = Frame(stack, x)
  BY <1>2, <1>3, PopEffect
<1> HIDE DEF a, r, t, tip
<1>8. Root(t) = Root(stack)
  BY <1>6, <1>7 DEF Root
<1>9. Forked(t, state, avail_que, handler)
  <2>1. Len(stack[Parent]) # 1
    BY <1>6
  <2>2. handler /\ handler \in BOOLEAN /\ Root(stack).at > 1 /\ Root(stack).at # 1 /\ ~(Root(stack).at <= 2)
    BY <1>2, <1>5, <2>1, InHandler
  <2> QED
    BY <1>8, <2>2 DEF Forked
<1>10. Guarded(t, state, lock, suspend_que, sys_cursor)
  <2>1. Only(state, state, r) /\ state[r] # "SUSPEND"
    BY <1>2 DEF Only
  <2> QED
    BY <1>2, <1>3, <1>5, <2>1, PopGuarded
<1>11. Counted(t, state)
  <2>1. WaitsIn(t) = WaitsIn(stack)
    BY <1>1, <1>7 DEF WaitsIn
  <2> QED
    BY <1>5, <2>1 DEF Counted
<1>12. Shape(t, state)
  <2>1. Len(t[Parent]) \in Nat /\ Len(stack[Parent]) \in Nat /\ Parent \in Procs
    BY <1>2, <1>7, PidFacts, ActsMembers
  <2>2. /\ Len(stack[Parent]) >= 1
        /\ \A h \in 1..Len(stack[Parent]) :
             Frame(stack, <<Parent, h>>).text = IF h = 1 THEN "init" ELSE "handler"
        /\ ~Gone(state, Parent) /\ state[Parent] # "WAIT"
    BY <1>2 DEF Shape
  <2>3. Len(t[Parent]) >= 1 /\ Len(t[Parent]) <= Len(stack[Parent])
    <3>1. Len(t[Parent]) = Len(stack[Parent]) - 1 /\ Len(stack[Parent]) # 1
      BY <1>6, <1>7
    <3>2. Len(stack[Parent]) >= 1
      BY <2>2
    <3> DEFINE m == Len(t[Parent])
               n == Len(stack[Parent])
    <3>3. m \in Nat /\ n \in Nat /\ m = n - 1 /\ n # 1 /\ n >= 1
      BY <2>1, <3>1, <3>2
    <3> HIDE DEF m, n
    <3>4. m >= 1 /\ m <= n
      BY <3>3
    <3> QED
      BY <3>4 DEF m, n
  <2>4. \A h \in 1..Len(t[Parent]) : <<Parent, h>> \in Acts(t) /\ h \in 1..Len(stack[Parent])
    BY <1>7, <2>1, <2>3, ActsMembers
  <2>5. \A h \in 1..Len(t[Parent]) : Frame(t, <<Parent, h>>).text = IF h = 1 THEN "init" ELSE "handler"
    BY <1>7, <2>2, <2>4
  <2>6. \A c \in Child : c \in Procs /\ c # Parent /\ t[c] = stack[c]
    BY <1>6, <1>7, PidFacts
  <2>7. \A c \in Child : Frame(t, <<c, 1>>) = Frame(stack, <<c, 1>>)
    BY <1>2, <1>7, <2>6, OtherFrames
  <2>8. \A c \in Child :
          /\ state[c] # "WAIT"
          /\ Gone(state, c) => t[c] = << >>
          /\ ~Gone(state, c) => Len(t[c]) = 1 /\ Frame(t, <<c, 1>>).text = "child"
    BY <1>2, <2>6, <2>7 DEF Shape
  <2> QED
    BY <1>7, <2>2, <2>3, <2>5, <2>8 DEF Shape
<1>13. Good(t, state, avail_que', handler', lock', suspend_que', sys_cursor')
  BY <1>4, <1>5, <1>9, <1>10, <1>11, <1>12 DEF Good
<1>14. SchedInv' /\ Like(state, state')
  BY <1>2, <1>4 DEF SchedInv, sched, IInv, Like
<1> QED
  BY <1>13, <1>14, Settle DEF t

-----------------------------------------------------------------------------
\* A child exits: its stack is taken away, the parent's handler is inserted, and
\* the child is a zombie.
LEMMA ExitStacks ==
  ASSUME NEW s, NEW st, NEW aq, NEW hd, NEW lk, NEW sq, NEW cur, Good(s, st, aq, hd, lk, sq, cur),
         st \in [Procs -> States], NEW c \in Child, st[c] = "RUN", s[c] # << >>, Op(Head(s[c])) = "exit",
         NEW u, Popped(s, u, c), NEW t, Pushed(u, t, Parent, Activation("handler"))
  PROVE  Good(t, Put(st, c, "ZOMBIE"), aq, hd, lk, sq, cur)
<1> DEFINE st2 == Put(st, c, "ZOMBIE")
           tip == Tip(s, c)
           new == Tip(t, Parent)
           rt == <<Parent, 1>>
<1>1. /\ Queued(st, aq, sq) /\ Shape(s, st) /\ Forked(s, st, aq, hd)
      /\ Guarded(s, st, lk, sq, cur) /\ Counted(s, st) /\ s \in Stacks
  BY DEF Good, Shape
<1>2. Parent \in Procs /\ c \in Procs /\ c # Parent /\ Child \subseteq Procs
  BY PidFacts
<1>3. st2[c] = "ZOMBIE" /\ Only(st, st2, c)
  BY <1>2 DEF Put, Only, States
<1> HIDE DEF st2
<1>4. /\ u \in Stacks /\ Acts(u) = Acts(s) \ {tip} /\ tip \in Acts(s) /\ Frame(s, tip) = Head(s[c])
      /\ Len(u[c]) = Len(s[c]) - 1 /\ \A q \in Procs : q # c => u[q] = s[q]
      /\ \A x \in Acts(u) : Frame(u, x) = Frame(s, x)
  BY <1>1, <1>2, PopEffect
<1>5. /\ t \in Stacks /\ Acts(t) = Acts(u) \cup {new} /\ new \notin Acts(u)
      /\ Frame(t, new) = Activation("handler")
      /\ Len(t[Parent]) = Len(u[Parent]) + 1 /\ \A q \in Procs : q # Parent => t[q] = u[q]
      /\ \A x \in Acts(u) : Frame(t, x) = Frame(u, x)
  BY <1>2, <1>4, NewPlaces, PushEffect
<1>6. Len(s[c]) = 1 /\ Head(s[c]).text = "child" /\ Head(s[c]).at = 13 /\ tip = <<c, 1>>
  <2>1. Head(s[c]) \in Place /\ tip = <<c, 1>>
    BY <1>1, <1>2, TopText
  <2>2. Len(s[c]) = 1
    BY <1>1 DEF Shape, Gone
  <2> QED
    BY <2>1, <2>2, CallTexts
<1>7. t[c] = << >> /\ Len(t[Parent]) = Len(s[Parent]) + 1
  <2>1. Len(u[c]) = 0 /\ u[c] \in Seq(Place)
    BY <1>2, <1>4, <1>6 DEF Stacks
  <2>2. u[c] = << >>
    BY <2>1, EmptySeq
  <2> QED
    BY <1>2, <1>4, <1>5, <2>2
<1> HIDE DEF tip
<1>8. \A q \in Procs : q # Parent /\ q # c => t[q] = s[q]
  BY <1>4, <1>5
<1>9. Guarded(u, st2, lk, sq, cur)
  BY <1>1, <1>2, <1>3, PopGuarded
<1>10. Guarded(t, st2, lk, sq, cur)
  <2>1. Only(st2, st2, Parent) /\ Op(Activation("handler")) \notin Section
    BY <1>3, NewPlaces DEF Only, Section
  <2> QED
    BY <1>2, <1>4, <1>9, <2>1, NewPlaces, PushGuarded
<1>11. rt \in Acts(s) /\ rt \in Acts(u) /\ Root(t) = Root(s)
  <2>1. rt \in Acts(s)
    BY <1>1, <1>2, TopText
  <2>2. rt \in Acts(u)
    BY <1>2, <1>4, <1>6, <2>1
  <2> QED
    BY <1>4, <1>5, <2>1, <2>2 DEF Root
<1>12. ~(Root(s).at <= 2) /\ Root(s).at # 1
  <2>1. Frame(s, <<c, 1>>).at = 13
    BY <1>4, <1>6
  <2>2. ~(Root(s).at <= 2)
    BY <1>1, <2>1 DEF Forked
  <2> QED
    BY <2>2
<1>13. Forked(t, st2, aq, hd)
  BY <1>1, <1>11, <1>12 DEF Forked
<1>14. Counted(t, st2)
  <2>1. Op(Frame(t, new)) = "wait" /\ Op(Frame(s, tip)) # "wait"
    BY <1>4, <1>5, NewPlaces
  <2> HIDE DEF new
  <2>2. WaitsIn(t) = WaitsIn(s) \cup {new} /\ new \notin WaitsIn(s)
    <3>1. WaitsIn(u) = WaitsIn(s)
      BY <1>4, <2>1 DEF WaitsIn
    <3>2. WaitsIn(t) = WaitsIn(u) \cup {new} /\ new \notin WaitsIn(u)
      BY <1>5, <2>1 DEF WaitsIn
    <3> QED
      BY <3>1, <3>2
  <2>3. In(st2, "ZOMBIE") = In(st, "ZOMBIE") \cup {c} /\ c \notin In(st, "ZOMBIE")
    BY <1>2, <1>3 DEF In, Only
  <2>4. IsFiniteSet(In(st, "ZOMBIE"))
    BY PidFacts, FS_Subset DEF In
  <2>5. /\ IsFiniteSet(WaitsIn(t)) /\ Cardinality(WaitsIn(t)) = Cardinality(WaitsIn(s)) + 1
        /\ Cardinality(In(st2, "ZOMBIE")) = Cardinality(In(st, "ZOMBIE")) + 1
    BY <1>1, <2>2, <2>3, <2>4, FS_AddElement DEF Counted
  <2> QED
    BY <1>1, <2>5 DEF Counted
<1>15. Queued(st2, aq, sq)
  <2>1. In(st2, "SUSPEND") = In(st, "SUSPEND") /\ In(st2, "AVAIL") = In(st, "AVAIL")
    BY <1>2, <1>3 DEF In, Only
  <2> QED
    BY <1>1, <2>1 DEF Queued
<1>16. Shape(t, st2)
  <2>1. /\ Len(s[Parent]) >= 1 /\ Len(s[Parent]) \in Nat
        /\ \A h \in 1..Len(s[Parent]) :
             Frame(s, <<Parent, h>>).text = IF h = 1 THEN "init" ELSE "handler"
        /\ ~Gone(st, Parent) /\ st[Parent] # "WAIT"
    BY <1>1, <1>2, ActsMembers DEF Shape
  <2>2. ~Gone(st2, Parent) /\ st2[Parent] # "WAIT"
    BY <1>2, <1>3, <2>1 DEF Gone, Only
  <2>3. new = <<Parent, Len(s[Parent]) + 1>>
    BY <1>7 DEF Tip
  <2> HIDE DEF new
  <2>4. ASSUME NEW h \in 1..Len(t[Parent])
        PROVE  Frame(t, <<Parent, h>>).text = IF h = 1 THEN "init" ELSE "handler"
    <3>1. CASE h = Len(s[Parent]) + 1
      <4>1. Frame(t, <<Parent, h>>).text = "handler"
        BY <1>5, <2>3, <3>1, NewPlaces
      <4>2. h # 1
        BY <2>1, <3>1
      <4> QED
        BY <4>1, <4>2
    <3>2. CASE h # Len(s[Parent]) + 1
      <4>1. h \in 1..Len(s[Parent])
        BY <1>7, <2>1, <3>2
      <4>2. <<Parent, h>> \in Acts(s)
        BY <1>1, <1>2, <4>1, ActsMembers
      <4>3. <<Parent, h>> \in Acts(u)
        BY <1>2, <1>4, <1>6, <4>2
      <4> QED
        BY <1>4, <1>5, <2>1, <4>1, <4>3
    <3> QED
      BY <3>1, <3>2
  <2>5. Len(t[Parent]) >= 1
    BY <1>7, <2>1
  <2>6. ASSUME NEW d \in Child
        PROVE  /\ st2[d] # "WAIT"
               /\ Gone(st2, d) => t[d] = << >>
               /\ ~Gone(st2, d) => Len(t[d]) = 1 /\ Frame(t, <<d, 1>>).text = "child"
    <3>1. CASE d = c
      BY <1>3, <1>7, <3>1 DEF Gone
    <3>2. CASE d # c
      <4>1. d \in Procs /\ t[d] = s[d] /\ st2[d] = st[d]
        BY <1>2, <1>3, <1>8, <3>2, PidFacts DEF Only
      <4>2. Frame(t, <<d, 1>>) = Frame(s, <<d, 1>>)
        BY <1>1, <1>5, <4>1, OtherFrames
      <4> QED
        BY <1>1, <4>1, <4>2 DEF Shape, Gone
    <3> QED
      BY <3>1, <3>2
  <2> QED
    BY <1>5, <2>2, <2>4, <2>5, <2>6 DEF Shape
<1> QED
  BY <1>10, <1>13, <1>14, <1>15, <1>16 DEF Good, st2

\* sys_exit.
LEMMA ExitStep == IInv /\ SysExit => IInv'
<1> SUFFICES ASSUME IInv, SysExit PROVE IInv'
  OBVIOUS
<1> DEFINE a == Top(run_pid)
           r == run_pid
           st == Put(state, r, "ZOMBIE")
           u == [stack EXCEPT ![r] = Tail(stack[r])]
<1>1. r # IDLE /\ Op(a) = "exit"
  BY DEF SysExit, Calls
<1>2. /\ r \in Procs /\ state[r] = "RUN" /\ state \in [Procs -> States]
      /\ Good(stack, state, avail_que, handler, lock, suspend_que, sys_cursor)
      /\ Shape(stack, state) /\ stack \in Stacks
      /\ stack[r] # << >> /\ a = Head(stack[r]) /\ a \in Place
  BY <1>1, Caller
<1>3. a.text = "child" /\ a.at = 13 /\ r \in Child /\ r # Parent /\ Len(stack[r]) = 1
  <2>1. a.text = "child" /\ a.at = 13
    BY <1>1, <1>2, CallTexts
  <2>2. r # Parent /\ r \in Child
    <3>1. r = Parent => a.text \in {"init", "handler"}
      BY <1>2, TopText
    <3> QED
      BY <1>2, <2>1, <3>1, PidFacts
  <2>3. Len(stack[r]) = 1
    BY <1>2, <2>2 DEF Shape, Gone
  <2> QED
    BY <2>1, <2>2, <2>3
<1>4. state[Parent] # "WAIT"
  BY <1>2 DEF Shape
<1>5. handler
  <2>1. Frame(stack, <<r, 1>>) = a
    BY <1>2, <1>3, TopText
  <2>2. Forked(stack, state, avail_que, handler)
    BY <1>2 DEF Good
  <2>3. ~(Root(stack).at <= 2)
    BY <1>2, <1>3, <2>1, <2>2 DEF Forked
  <2>4. Root(stack).at \in Nat
    BY <1>2, RootPlace
  <2> QED
    BY <2>2, <2>3, <2>4 DEF Forked
<1>6. /\ Scheduler(NONE, st, ready_que)
      /\ stack' = [stack EXCEPT ![r] = << >>, ![Parent] = AlterStack]
      /\ UNCHANGED <<avail_que, lock, suspend_que, handler, sys_cursor>>
  BY <1>4, <1>5 DEF SysExit, Put, video_mutex
<1>7. Tail(stack[r]) = << >>
  <2>1. Tail(stack[r]) \in Seq(Place) /\ Len(Tail(stack[r])) = 0
    <3>1. stack[r] \in Seq(Place)
      BY <1>2 DEF Stacks
    <3> QED
      BY <1>2, <1>3, <3>1, HeadTailProperties
  <2> QED
    BY <2>1, EmptySeq
<1>8. Popped(stack, u, r)
  BY DEF Popped
<1>9. Pushed(u, stack', Parent, Activation("handler"))
  <2>1. u[Parent] = stack[Parent] /\ u = [stack EXCEPT ![r] = << >>]
    BY <1>2, <1>3, <1>7, PidFacts DEF Stacks
  <2>2. stack' = [u EXCEPT ![Parent] = AlterStack]
    BY <1>2, <1>6, <2>1 DEF Stacks
  <2> QED
    BY <2>1, <2>2 DEF Pushed, AlterStack
<1> HIDE DEF a, u
<1>10. SchedInv' /\ Like(st, state')
  BY <1>1, <1>6, ParkStep
<1>11. Op(Head(stack[r])) = "exit"
  BY <1>1, <1>2
<1> HIDE DEF r
<1>12. Good(stack', st, avail_que, handler, lock, suspend_que, sys_cursor)
  BY <1>2, <1>3, <1>8, <1>9, <1>11, ExitStacks
<1>13. Good(stack', st, avail_que', handler', lock', suspend_que', sys_cursor')
  BY <1>6, <1>12
<1> QED
  BY <1>10, <1>13, Settle

-----------------------------------------------------------------------------
\* The handler collects a zombie: there is one, by the count.
LEMMA WaitStacks ==
  ASSUME NEW s, NEW st, NEW aq, NEW hd, NEW lk, NEW sq, NEW cur, Good(s, st, aq, hd, lk, sq, cur),
         st \in [Procs -> States], NEW p \in Procs, st[p] = "RUN", s[p] # << >>,
         NEW a, a = Head(s[p]), Op(a) = "wait", NEW t, Replaced(s, t, p, Resumed(a)),
         NEW c \in In(st, "ZOMBIE")
  PROVE  Good(t, Put(st, c, "AVAIL"), EnQue(aq, c), hd, lk, sq, cur)
<1> DEFINE st2 == Put(st, c, "AVAIL")
           b == Resumed(a)
           tip == Tip(s, p)
           rt == <<Parent, 1>>
<1>1. /\ Queued(st, aq, sq) /\ Shape(s, st) /\ Forked(s, st, aq, hd)
      /\ Guarded(s, st, lk, sq, cur) /\ Counted(s, st) /\ s \in Stacks
  BY DEF Good, Shape
<1>2. /\ a \in Place /\ p = Parent /\ Len(s[Parent]) # 1 /\ tip # rt
  <2>1. a \in Place
    BY <1>1, TopText
  <2>2. a.text = "handler"
    BY <2>1, CallTexts
  <2> QED
    BY <1>1, <2>1, <2>2, TopText
<1>3. c \in Procs /\ st[c] = "ZOMBIE" /\ c # p /\ Parent \in Procs /\ Child \subseteq Procs
  BY PidFacts DEF In
<1>4. st2[c] = "AVAIL" /\ Only(st, st2, c) /\ Only(st, st, p)
  BY <1>3 DEF Put, Only, States
<1>5. b \in Place /\ b.text = a.text /\ Op(b) # "wait"
  BY <1>2, ResumedPlaces, NextCalls
<1> HIDE DEF st2, b
<1>6. Replaced(s, t, p, b)
  BY DEF b
<1>7. /\ t \in Stacks /\ Acts(t) = Acts(s) /\ tip \in Acts(s) /\ Frame(s, tip) = a
      /\ \A x \in Acts(s) : Frame(t, x) = IF x = tip THEN b ELSE Frame(s, x)
  BY <1>1, <1>5, <1>6, AdvanceEffect
<1> HIDE DEF tip
<1>8. \A q \in Procs : /\ Gone(st2, q) <=> Gone(st, q)
                       /\ st2[q] = "WAIT" <=> st[q] = "WAIT"
                       /\ st2[q] = "SUSPEND" <=> st[q] = "SUSPEND"
  BY <1>3, <1>4 DEF Gone, Only
<1>9. Guarded(t, st2, lk, sq, cur)
  <2>1. Guarded(t, st, lk, sq, cur)
    BY <1>1, <1>2, <1>4, AdvanceGuarded
  <2>2. \A x \in Acts(t) : x[1] \in Procs
    BY <1>7, ActsMembers
  <2>3. \A x \in Acts(t) : /\ Susp(t, st2, x) <=> Susp(t, st, x)
                           /\ Crit(t, st2, x) <=> Crit(t, st, x)
    BY <1>8, <2>2 DEF Susp, Crit
  <2> QED
    BY <2>1, <2>3 DEF Guarded
<1>10. Shape(t, st2)
  <2>1. ~Gone(st, p) /\ st[p] # "WAIT"
    BY DEF Gone
  <2>2. Shape(t, st)
    BY <1>1, <1>4, <1>5, <1>6, <2>1, AdvanceShape
  <2> QED
    BY <1>3, <1>8, <2>2 DEF Shape
<1>11. Forked(t, st2, EnQue(aq, c), hd)
  <2>1. Root(t) = Root(s)
    BY <1>1, <1>2, <1>7, RootPlace DEF Root
  <2>2. hd /\ hd \in BOOLEAN /\ Root(s).at > 1 /\ Root(s).at # 1 /\ ~(Root(s).at <= 2)
    BY <1>1, <1>2, InHandler
  <2> QED
    BY <2>1, <2>2 DEF Forked
<1>12. Counted(t, st2)
  <2>1. WaitsIn(t) = WaitsIn(s) \ {tip} /\ tip \in WaitsIn(s)
    BY <1>5, <1>7 DEF WaitsIn
  <2>2. In(st2, "ZOMBIE") = In(st, "ZOMBIE") \ {c}
    BY <1>3, <1>4 DEF In, Only
  <2>3. IsFiniteSet(In(st, "ZOMBIE"))
    BY PidFacts, FS_Subset DEF In
  <2>4. /\ IsFiniteSet(WaitsIn(t)) /\ Cardinality(WaitsIn(t)) = Cardinality(WaitsIn(s)) - 1
        /\ Cardinality(In(st2, "ZOMBIE")) = Cardinality(In(st, "ZOMBIE")) - 1
    BY <1>1, <2>1, <2>2, <2>3, FS_RemoveElement DEF Counted
  <2> QED
    BY <1>1, <2>4 DEF Counted
<1>13. Queued(st2, EnQue(aq, c), sq)
  <2> DEFINE S == In(st, "AVAIL") \cup Spare
  <2>1. /\ In(st2, "SUSPEND") = In(st, "SUSPEND")
        /\ In(st2, "AVAIL") \cup Spare = S \cup {c} /\ c \notin S
    BY <1>3, <1>4 DEF In, Only, Spare
  <2>2. c \in Pool /\ S \cup {c} \subseteq Pool
    <3>1. c \in Child /\ \A q \in Procs : st[q] = "AVAIL" => q \in Child
      BY <1>1, <1>2, <1>3, PidFacts DEF Shape, Gone
    <3> QED
      BY <3>1, PidFacts DEF In, Spare
  <2>3. QUE_MAX \in Nat /\ IsFiniteSet(Pool) /\ Cardinality(Pool) <= QUE_MAX
    BY PidFacts
  <2>4. aq \in Seq(Pool) /\ Holds(aq, S) /\ sq \in Seq(Procs) /\ Holds(sq, In(st, "SUSPEND"))
    BY <1>1 DEF Queued
  <2> HIDE DEF S
  <2>5. EnQue(aq, c) \in Seq(Pool) /\ Holds(EnQue(aq, c), S \cup {c})
    BY <2>1, <2>2, <2>3, <2>4, EnQueHolds
  <2> QED
    BY <2>1, <2>4, <2>5 DEF Queued
<1> QED
  BY <1>9, <1>10, <1>11, <1>12, <1>13 DEF Good, st2

\* sys_wait.
LEMMA WaitStep == IInv /\ SysWait => IInv'
<1> SUFFICES ASSUME IInv, SysWait PROVE IInv'
  OBVIOUS
<1> DEFINE a == Top(run_pid)
           r == run_pid
<1>1. r # IDLE /\ Op(a) = "wait"
  BY DEF SysWait, Calls
<1>2. /\ r \in Procs /\ state[r] = "RUN" /\ state \in [Procs -> States]
      /\ Lined(r, state, ready_que)
      /\ Good(stack, state, avail_que, handler, lock, suspend_que, sys_cursor)
      /\ Shape(stack, state) /\ stack \in Stacks
      /\ stack[r] # << >> /\ a = Head(stack[r]) /\ a \in Place
      /\ Running = Tip(stack, r)
  BY <1>1, Caller
<1>3. Replaced(stack, stack', r, Resumed(a))
  BY <1>2 DEF SysWait, Advance, Advanced, Replaced
<1>4. Zombies = In(state, "ZOMBIE")
  <2>1. state[Parent] # "ZOMBIE"
    BY <1>2 DEF Shape, Gone
  <2>2. Child \subseteq Procs /\ \A p \in Procs : p # Parent => p \in Child
    BY PidFacts
  <2> QED
    BY <2>1, <2>2 DEF Zombies, In
<1>5. Zombies # {}
  <2>1. Running \in WaitsIn(stack)
    BY <1>1, <1>2, TopText DEF WaitsIn
  <2>2. IsFiniteSet(WaitsIn(stack)) /\ Cardinality(WaitsIn(stack)) = Cardinality(In(state, "ZOMBIE"))
    BY <1>2 DEF Good, Counted
  <2>3. Cardinality(WaitsIn(stack)) # 0
    BY <2>1, <2>2, FS_EmptySet
  <2> QED
    BY <1>4, <2>2, <2>3, FS_EmptySet
<1>6. PICK c \in Zombies : /\ avail_que' = EnQue(avail_que, c)
                           /\ Demote([state EXCEPT ![c] = "AVAIL"], ready_que)
  BY <1>5 DEF SysWait
<1> DEFINE st == Put(state, c, "AVAIL")
<1>7. c \in Procs /\ state[c] = "ZOMBIE" /\ Demote(st, ready_que) /\ c \in In(state, "ZOMBIE")
  BY <1>4, <1>6 DEF In, Put
<1>8. Lined(r, st, ready_que)
  <2>1. /\ st \in [Procs -> States] /\ In(st, "READY") = In(state, "READY")
        /\ In(st, "RUN") = In(state, "RUN")
    BY <1>2, <1>7 DEF In, Put, States
  <2> HIDE DEF st
  <2> QED
    BY <1>2, <2>1 DEF Lined
<1> HIDE DEF a, st
<1>9. SchedInv' /\ Like(st, state')
  BY <1>2, <1>7, <1>8, DemoteLemma
<1> HIDE DEF r
<1>10. Good(stack', st, EnQue(avail_que, c), handler, lock, suspend_que, sys_cursor)
  BY <1>1, <1>2, <1>3, <1>7, WaitStacks DEF st
<1>11. Good(stack', st, avail_que', handler', lock', suspend_que', sys_cursor')
  BY <1>6, <1>10 DEF SysWait, video_mutex
<1> QED
  BY <1>9, <1>11, Settle

-----------------------------------------------------------------------------
\* Init is at sys_fork, with c next: a child that was never forked.
ForkPlace(s, st, aq, p, a, c) ==
  /\ c \in Child /\ c \in Procs /\ c # Parent /\ st[c] = "AVAIL" /\ s[c] = << >>
  /\ a \in Place /\ a.text = "init" /\ a.at = 2 /\ p = Parent /\ Len(s[Parent]) = 1
  /\ Tip(s, p) = <<Parent, 1>> /\ Frame(s, <<Parent, 1>>) = a /\ <<Parent, 1>> \in Acts(s)
  /\ a.col \in Nat /\ a.col < CHILDREN /\ Len(aq) = QUE_MAX - 2 - a.col
  /\ \A i \in 1..Len(aq) : aq[i] = a.col + i + 1
  /\ \A d \in Child :
       /\ st[d] # "ZOMBIE"
       /\ st[d] # "AVAIL" =>
            /\ Frame(s, <<d, 1>>).at \in 1..3
            /\ Frame(s, <<d, 1>>).at = 3 => st[d] = "SLEEP"
  /\ aq \in Seq(Pool) /\ Len(aq) \in Nat /\ Len(aq) >= 1 /\ aq # << >>
  /\ Tail(aq) \in Seq(Pool) /\ Holds(Tail(aq), (In(st, "AVAIL") \cup Spare) \ {c})

\* While Init forks, the pid at the head of avail_que is that of a child not forked yet.
LEMMA ForkPid ==
  ASSUME NEW s, NEW st, NEW aq, NEW hd, Shape(s, st), Forked(s, st, aq, hd),
         NEW sq, Queued(st, aq, sq), NEW p \in Procs, s[p] # << >>,
         NEW a, a = Head(s[p]), Op(a) = "fork", NEW c, c = Head(aq)
  PROVE  ForkPlace(s, st, aq, p, a, c)
<1> DEFINE tip == Tip(s, p)
           rt == <<Parent, 1>>
           k == a.col
<1>1. Queued(st, aq, sq) /\ Shape(s, st) /\ Forked(s, st, aq, hd)
  OBVIOUS
<1>2. /\ a \in Place /\ a.text = "init" /\ a.at = 2 /\ p = Parent /\ Len(s[Parent]) = 1 /\ tip = rt
      /\ Frame(s, rt) = a /\ rt \in Acts(s)
  <2>1. a \in Place
    BY <1>1, TopText
  <2>2. a.text = "init" /\ a.at = 2
    BY <2>1, CallTexts
  <2> QED
    BY <1>1, <2>1, <2>2, TopText
<1>3. /\ k \in Nat /\ k < CHILDREN /\ Len(aq) = QUE_MAX - 2 - k
      /\ \A i \in 1..Len(aq) : aq[i] = k + i + 1
      /\ \A d \in Child :
           /\ st[d] # "ZOMBIE"
           /\ st[d] # "AVAIL" =>
                /\ Frame(s, <<d, 1>>).at \in 1..3
                /\ Frame(s, <<d, 1>>).at = 3 => st[d] = "SLEEP"
  <2>1. Root(s) = a
    BY <1>2 DEF Root
  <2>2. k \in Nat
    BY <1>2 DEF Place, Places
  <2> QED
    BY <1>1, <1>2, <2>1, <2>2 DEF Forked
<1>4. /\ CHILDREN \in Nat /\ QUE_MAX \in Nat /\ QUE_MAX >= CHILDREN + 2
      /\ Parent \in Procs /\ Parent \notin Child /\ Child \subseteq Procs
  BY PidFacts
<1>5. aq \in Seq(Pool) /\ Len(aq) \in Nat /\ Len(aq) >= 1
  BY <1>1, <1>3, <1>4 DEF Queued
<1>6. aq # << >> /\ Head(aq) = aq[1] /\ c = k + 2
  <2>1. aq # << >>
    BY <1>5, EmptySeq
  <2>2. Head(aq) = aq[1]
    BY <1>5, <2>1, HeadTailProperties
  <2>3. 1 \in 1..Len(aq)
    BY <1>5
  <2> HIDE DEF k
  <2>4. aq[1] = k + 1 + 1
    BY <1>3, <2>3
  <2> QED
    BY <1>3, <2>1, <2>2, <2>4
<1>7. c \in Child /\ c \in Procs /\ c # Parent
  BY <1>3, <1>4, <1>6 DEF Child
<1>8. /\ c \in In(st, "AVAIL") \cup Spare /\ Tail(aq) \in Seq(Pool)
      /\ Holds(Tail(aq), (In(st, "AVAIL") \cup Spare) \ {c})
  BY <1>1, <1>6, HoldsTail DEF Queued
<1>9. st[c] = "AVAIL" /\ s[c] = << >>
  <2>1. st[c] = "AVAIL"
    BY <1>7, <1>8 DEF Spare, In
  <2> QED
    BY <1>1, <1>7, <2>1 DEF Shape, Gone
<1> QED
  BY <1>2, <1>3, <1>5, <1>6, <1>7, <1>8, <1>9 DEF ForkPlace

\* Init forks: the next pid of avail_que starts the text of a child.
LEMMA ForkStacks ==
  ASSUME NEW s, NEW st, NEW aq, NEW hd, NEW lk, NEW sq, NEW cur, Good(s, st, aq, hd, lk, sq, cur),
         st \in [Procs -> States], NEW p \in Procs, st[p] = "RUN", s[p] # << >>,
         NEW a, a = Head(s[p]), Op(a) = "fork", NEW c, c = Head(aq),
         NEW u, Replaced(s, u, p, Resumed(a)), NEW t, Pushed(u, t, c, Activation("child"))
  PROVE  Good(t, Put(st, c, "READY"), Tail(aq), hd, lk, sq, cur)
<1> DEFINE st2 == Put(st, c, "READY")
           b == Resumed(a)
           tip == Tip(s, p)
           rt == <<Parent, 1>>
           k == a.col
<1>1. /\ Queued(st, aq, sq) /\ Shape(s, st) /\ Forked(s, st, aq, hd)
      /\ Guarded(s, st, lk, sq, cur) /\ Counted(s, st) /\ s \in Stacks
  BY DEF Good, Shape
<1>0. ForkPlace(s, st, aq, p, a, c)
  BY <1>1, ForkPid
<1>2. /\ c \in Child /\ c \in Procs /\ c # Parent /\ st[c] = "AVAIL" /\ s[c] = << >>
      /\ a \in Place /\ a.text = "init" /\ a.at = 2 /\ p = Parent /\ Len(s[Parent]) = 1
      /\ Tip(s, p) = <<Parent, 1>> /\ Frame(s, <<Parent, 1>>) = a /\ <<Parent, 1>> \in Acts(s)
      /\ a.col \in Nat /\ a.col < CHILDREN /\ Len(aq) = QUE_MAX - 2 - a.col
      /\ \A i \in 1..Len(aq) : aq[i] = a.col + i + 1
      /\ \A d \in Child :
           /\ st[d] # "ZOMBIE"
           /\ st[d] # "AVAIL" =>
                /\ Frame(s, <<d, 1>>).at \in 1..3
                /\ Frame(s, <<d, 1>>).at = 3 => st[d] = "SLEEP"
      /\ aq \in Seq(Pool) /\ Len(aq) \in Nat /\ Len(aq) >= 1 /\ aq # << >>
      /\ Tail(aq) \in Seq(Pool) /\ Holds(Tail(aq), (In(st, "AVAIL") \cup Spare) \ {c})
      /\ tip = rt
  BY <1>0 DEF ForkPlace
<1>3. /\ k \in Nat /\ k < CHILDREN /\ Len(aq) = QUE_MAX - 2 - k
      /\ \A i \in 1..Len(aq) : aq[i] = k + i + 1
  BY <1>2
<1>4. /\ CHILDREN \in Nat /\ QUE_MAX \in Nat /\ QUE_MAX >= CHILDREN + 2
      /\ Parent \in Procs /\ Parent \notin Child /\ Child \subseteq Procs
  BY PidFacts
<1>5. Len(aq) \in Nat /\ Len(aq) >= 1 /\ aq \in Seq(Pool) /\ aq # << >>
  BY <1>2
<1> HIDE DEF k
<1>10. st2[c] = "READY" /\ Only(st, st2, c) /\ Only(st, st, p)
  BY <1>2 DEF Put, Only, States
<1>11. b \in Place /\ b.text = a.text /\ Op(b) # "wait" /\ Op(a) # "wait"
  BY <1>2, ResumedPlaces, NextCalls
<1>12. \/ b.at = 2 /\ b.col = k + 1 /\ k + 1 < CHILDREN
       \/ b.at = 3
  BY <1>2, ResumedPlaces DEF k
<1> HIDE DEF st2, b
<1>13. Replaced(s, u, p, b)
  BY DEF b
<1>14. /\ u \in Stacks /\ Acts(u) = Acts(s) /\ Len(u[p]) = Len(s[p])
       /\ \A q \in Procs : q # p => u[q] = s[q]
       /\ \A x \in Acts(s) : Frame(u, x) = IF x = tip THEN b ELSE Frame(s, x)
  BY <1>1, <1>11, <1>13, AdvanceEffect
<1>15. u[c] = << >> /\ Len(u[c]) = 0
  <2>1. u[c] = << >>
    BY <1>2, <1>14
  <2> QED
    BY <2>1
<1> DEFINE new == Tip(t, c)
<1>16. /\ t \in Stacks /\ Acts(t) = Acts(u) \cup {new} /\ new \notin Acts(u)
       /\ Frame(t, new) = Activation("child")
       /\ Len(t[c]) = Len(u[c]) + 1 /\ \A q \in Procs : q # c => t[q] = u[q]
       /\ \A x \in Acts(u) : Frame(t, x) = Frame(u, x)
  BY <1>2, <1>14, NewPlaces, PushEffect
<1>17. Len(t[c]) = 1 /\ new = <<c, 1>> /\ Frame(t, <<c, 1>>) = Activation("child")
  <2>1. Len(t[c]) = 1
    BY <1>15, <1>16
  <2> QED
    BY <1>16, <2>1 DEF Tip
<1> HIDE DEF tip, new
<1>18. Root(t) = b /\ Len(t[Parent]) = 1 /\ Len(s[Parent]) = Len(t[Parent])
  <2>1. t[Parent] = u[Parent] /\ Len(u[Parent]) = 1
    BY <1>2, <1>4, <1>2, <1>14, <1>16
  <2> QED
    BY <1>2, <1>14, <1>16, <2>1 DEF Root
<1>19. Guarded(u, st, lk, sq, cur)
  BY <1>1, <1>2, <1>10, AdvanceGuarded
<1>20. Guarded(t, st2, lk, sq, cur)
  <2>1. Op(Activation("child")) \notin Section
    BY NewPlaces DEF Section
  <2>2. st[c] # "SUSPEND" /\ st2[c] # "SUSPEND"
    BY <1>2, <1>10
  <2> QED
    BY <1>2, <1>10, <1>14, <1>19, <2>1, <2>2, NewPlaces, PushGuarded
<1>21. Shape(u, st)
  <2>1. ~Gone(st, p) /\ st[p] # "WAIT"
    BY DEF Gone
  <2> QED
    BY <1>1, <1>10, <1>11, <1>13, <2>1, AdvanceShape
<1>22. \A d \in Child : d # c => /\ st2[d] = st[d] /\ t[d] = u[d]
                                 /\ Frame(t, <<d, 1>>) = Frame(u, <<d, 1>>)
                                 /\ Frame(u, <<d, 1>>) = Frame(s, <<d, 1>>)
  <2> SUFFICES ASSUME NEW d \in Child, d # c
               PROVE  /\ st2[d] = st[d] /\ t[d] = u[d]
                      /\ Frame(t, <<d, 1>>) = Frame(u, <<d, 1>>)
                      /\ Frame(u, <<d, 1>>) = Frame(s, <<d, 1>>)
    OBVIOUS
  <2>1. d \in Procs /\ st2[d] = st[d] /\ t[d] = u[d] /\ u[d] = s[d]
    BY <1>2, <1>4, <1>10, <1>14, <1>16 DEF Only
  <2>2. Frame(t, <<d, 1>>) = Frame(u, <<d, 1>>)
    BY <1>14, <1>16, <2>1, OtherFrames
  <2>3. Frame(u, <<d, 1>>) = Frame(s, <<d, 1>>)
    BY <1>1, <1>14, <2>1, OtherFrames
  <2> QED
    BY <2>1, <2>2, <2>3
<1>23. Shape(t, st2)
  <2>1. ~Gone(st2, Parent) /\ st2[Parent] # "WAIT" /\ Len(t[Parent]) >= 1
    BY <1>1, <1>4, <1>2, <1>10, <1>18 DEF Shape, Only, Gone
  <2>2. \A h \in 1..Len(t[Parent]) : Frame(t, <<Parent, h>>).text = IF h = 1 THEN "init" ELSE "handler"
    BY <1>2, <1>11, <1>18 DEF Root
  <2>3. ASSUME NEW d \in Child
        PROVE  /\ st2[d] # "WAIT"
               /\ Gone(st2, d) => t[d] = << >>
               /\ ~Gone(st2, d) => Len(t[d]) = 1 /\ Frame(t, <<d, 1>>).text = "child"
    <3>1. CASE d = c
      BY <1>10, <1>17, <3>1, NewPlaces DEF Gone
    <3>2. CASE d # c
      BY <1>21, <1>22, <3>2 DEF Shape, Gone
    <3> QED
      BY <3>1, <3>2
  <2> QED
    BY <1>16, <2>1, <2>2, <2>3 DEF Shape
<1>24. Counted(t, st2)
  <2>1. Counted(u, st)
    <3>1. ~Gone(st, p)
      BY DEF Gone
    <3> QED
      BY <1>1, <1>10, <1>11, <1>13, <3>1, AdvanceCounted
  <2>2. WaitsIn(t) = WaitsIn(u)
    BY <1>16, NewPlaces DEF WaitsIn
  <2>3. In(st2, "ZOMBIE") = In(st, "ZOMBIE")
    BY <1>2, <1>10 DEF In, Only
  <2> QED
    BY <2>1, <2>2, <2>3 DEF Counted
<1>25. Queued(st2, Tail(aq), sq)
  <2>1. /\ In(st2, "SUSPEND") = In(st, "SUSPEND")
        /\ In(st2, "AVAIL") \cup Spare = (In(st, "AVAIL") \cup Spare) \ {c}
    BY <1>2, <1>10 DEF In, Only, Spare
  <2> QED
    BY <1>1, <1>2, <2>1 DEF Queued
<1>26. Forked(t, st2, Tail(aq), hd)
  <2>1. hd /\ hd \in BOOLEAN
    <3>1. Root(s).at = 2
      BY <1>2 DEF Root
    <3> QED
      BY <1>1, <3>1 DEF Forked
  <2>2. CASE b.at = 2 /\ b.col = k + 1 /\ k + 1 < CHILDREN
    <3>1. Len(Tail(aq)) = Len(aq) - 1 /\ \A i \in 1..Len(Tail(aq)) : Tail(aq)[i] = aq[i + 1]
      BY <1>5, HeadTailProperties
    <3>2. Len(Tail(aq)) = QUE_MAX - 2 - (k + 1)
      BY <1>3, <1>4, <1>5, <3>1
    <3>3. ASSUME NEW i \in 1..Len(Tail(aq))
          PROVE  Tail(aq)[i] = k + 1 + i + 1
      <4>1. i + 1 \in 1..Len(aq)
        BY <1>5, <3>1
      <4>2. aq[i + 1] = k + (i + 1) + 1
        BY <1>3, <4>1
      <4> QED
        BY <1>3, <3>1, <4>2
    <3>4. ASSUME NEW d \in Child
          PROVE  /\ st2[d] # "ZOMBIE"
                 /\ st2[d] # "AVAIL" =>
                      /\ Frame(t, <<d, 1>>).at \in 1..3
                      /\ Frame(t, <<d, 1>>).at = 3 => st2[d] = "SLEEP"
      <4>1. CASE d = c
        BY <1>10, <1>17, <4>1, NewPlaces
      <4>2. CASE d # c
        BY <1>2, <1>22, <4>2
      <4> QED
        BY <4>1, <4>2
    <3> DEFINE q == Tail(aq)
    <3>5. Len(q) = QUE_MAX - 2 - b.col /\ \A i \in 1..Len(q) : q[i] = b.col + i + 1
      BY <2>2, <3>2, <3>3
    <3> HIDE DEF q
    <3>6. Forked(t, st2, q, hd)
      BY <1>18, <2>1, <2>2, <3>4, <3>5 DEF Forked
    <3> QED
      BY <3>6 DEF q
  <2>3. CASE b.at = 3
    <3>1. ~(b.at <= 2) /\ b.at # 1 /\ b.at > 1
      BY <2>3
    <3> QED
      BY <1>18, <2>1, <3>1 DEF Forked
  <2> QED
    BY <1>12, <2>2, <2>3
<1>27. Good(t, st2, Tail(aq), hd, lk, sq, cur)
  BY <1>20, <1>23, <1>24, <1>25, <1>26 DEF Good
<1> QED
  BY <1>27 DEF st2

\* sys_fork.
LEMMA ForkStep == IInv /\ SysFork => IInv'
<1> SUFFICES ASSUME IInv, SysFork PROVE IInv'
  OBVIOUS
<1> DEFINE a == Top(run_pid)
           r == run_pid
           c == Head(avail_que)
           u == Advanced
           st == Put(state, c, "READY")
<1>1. r # IDLE /\ Op(a) = "fork"
  BY DEF SysFork, Calls
<1>2. /\ r \in Procs /\ state[r] = "RUN" /\ state \in [Procs -> States]
      /\ Lined(r, state, ready_que)
      /\ Good(stack, state, avail_que, handler, lock, suspend_que, sys_cursor)
      /\ stack \in Stacks /\ stack[r] # << >> /\ a = Head(stack[r])
  BY <1>1, Caller
<1>3. Replaced(stack, u, r, Resumed(a))
  BY <1>2 DEF Advanced, Replaced
<1>4. /\ stack' = [u EXCEPT ![c] = <<Activation("child")>>] /\ Demote(st, EnQue(ready_que, c))
      /\ avail_que' = AfterDeQue(avail_que) /\ UNCHANGED <<lock, suspend_que, handler, sys_cursor>>
  BY DEF SysFork, Put, video_mutex
<1> HIDE DEF a, c, u
<1>5. ForkPlace(stack, state, avail_que, r, a, c)
  BY <1>1, <1>2, ForkPid DEF Good, c
<1>6. /\ c \in Procs /\ c # Parent /\ state[c] = "AVAIL" /\ stack[c] = << >> /\ avail_que # << >>
      /\ r = Parent /\ a \in Place
  BY <1>5 DEF ForkPlace
<1>7. Pushed(u, stack', c, Activation("child"))
  <2>1. Resumed(a) \in Place
    BY <1>1, <1>6, ResumedPlaces
  <2>2. u[c] = stack[c]
    BY <1>2, <1>3, <1>6, <2>1, AdvanceEffect
  <2>3. <<Activation("child")>> = <<Activation("child")>> \o u[c]
    BY <1>6, <2>2
  <2> QED
    BY <1>4, <2>3 DEF Pushed
<1>8. Lined(r, st, EnQue(ready_que, c))
  BY <1>2, <1>6, ReadyLemma
<1> HIDE DEF st
<1>9. SchedInv' /\ Like(st, state')
  BY <1>2, <1>4, <1>8, DemoteLemma
<1>10. avail_que' = Tail(avail_que)
  BY <1>4, <1>6 DEF AfterDeQue, QueEmpty
<1> HIDE DEF r
<1>11. Good(stack', st, Tail(avail_que), handler, lock, suspend_que, sys_cursor)
  BY <1>1, <1>2, <1>3, <1>7, ForkStacks DEF c, st
<1>12. Good(stack', st, avail_que', handler', lock', suspend_que', sys_cursor')
  BY <1>4, <1>10, <1>11
<1> QED
  BY <1>9, <1>12, Settle

-----------------------------------------------------------------------------
\* One process is ready, the parent; every pid but 0 and 1 is free.
LEMMA InitGood == Init => IInv
<1> SUFFICES ASSUME Init PROVE IInv
  OBVIOUS
<1> DEFINE rt == <<Parent, 1>>
<1>1. /\ run_pid = IDLE /\ state = [p \in Procs |-> IF p = Parent THEN "READY" ELSE "AVAIL"]
      /\ ready_que = <<Parent>> /\ avail_que = [i \in 1..(QUE_MAX - 2) |-> i + 1]
      /\ lock = "UNLOCKED" /\ suspend_que = << >>
      /\ stack = [p \in Procs |-> IF p = Parent THEN <<Activation("init")>> ELSE << >>]
      /\ handler = FALSE /\ sys_cursor = <<IDLE, 0>>
  BY DEF Init
<1>2. /\ CHILDREN \in Nat /\ CHILDREN >= 1 /\ QUE_MAX \in Nat /\ QUE_MAX >= CHILDREN + 2
      /\ Parent \in Procs /\ Parent \notin Child /\ Child \subseteq Procs
      /\ \A p \in Procs : p # Parent => p \in Child
      /\ Child \subseteq Pool /\ ~(IDLE > IDLE)
  BY PidFacts
<1>3. state[Parent] = "READY" /\ \A p \in Procs : p # Parent => state[p] = "AVAIL"
  BY <1>1, <1>2
<1>4. /\ In(state, "READY") = {Parent} /\ In(state, "RUN") = {} /\ In(state, "SUSPEND") = {}
      /\ In(state, "ZOMBIE") = {} /\ In(state, "AVAIL") = Child
  BY <1>2, <1>3 DEF In
<1>5. SchedInv
  <2>1. <<Parent>> \in Seq(Procs) /\ Holds(<<Parent>>, {Parent})
    BY <1>2, HoldsOne
  <2>2. state \in [Procs -> States]
    BY <1>1 DEF States
  <2> QED
    BY <1>1, <1>2, <1>4, <2>1, <2>2 DEF SchedInv, Lined
<1>6. Queued(state, avail_que, suspend_que)
  <2>1. avail_que \in Seq(Pool) /\ Len(avail_que) = QUE_MAX - 2
    BY <1>1, <1>2 DEF Pool
  <2>2. \A i \in 1..Len(avail_que) : avail_que[i] = i + 1
    BY <1>1, <2>1
  <2>3. Pool = {avail_que[i] : i \in 1..Len(avail_que)}
    <3>1. ASSUME NEW x \in Pool
          PROVE  \E i \in 1..Len(avail_que) : x = avail_que[i]
      <4>1. x - 1 \in 1..Len(avail_que) /\ x \in Int
        BY <1>2, <2>1 DEF Pool
      <4>2. avail_que[x - 1] = x
        BY <2>2, <4>1
      <4> QED
        BY <4>1, <4>2
    <3>2. \A i \in 1..Len(avail_que) : avail_que[i] \in Pool
      BY <1>2, <2>1, <2>2 DEF Pool
    <3> QED
      BY <3>1, <3>2
  <2>4. \A i, j \in 1..Len(avail_que) : avail_que[i] = avail_que[j] => i = j
    BY <2>1, <2>2
  <2>5. Holds(avail_que, Pool)
    BY <2>1, <2>3, <2>4, HoldsCells
  <2>6. Child \cup Spare = Pool
    BY <1>2, PidFacts DEF Spare, Child, Pool, Procs, Parent
  <2>7. suspend_que \in Seq(Procs) /\ Holds(suspend_que, {})
    BY <1>1, HoldsEmpty
  <2> QED
    BY <1>4, <2>1, <2>5, <2>6, <2>7 DEF Queued
<1>7. /\ stack \in Stacks /\ stack[Parent] = <<Activation("init")>> /\ Len(stack[Parent]) = 1
      /\ \A c \in Child : stack[c] = << >>
  BY <1>1, <1>2, NewPlaces DEF Stacks
<1>8. Frame(stack, rt) = Activation("init")
  <2>1. Frame(stack, rt) = stack[Parent][Len(stack[Parent]) - 1 + 1]
    BY DEF Frame
  <2> QED
    BY <1>7, <2>1
<1>9. Shape(stack, state)
  <2>1. \A h \in 1..Len(stack[Parent]) : h = 1
    BY <1>7
  <2>2. \A h \in 1..Len(stack[Parent]) :
          Frame(stack, <<Parent, h>>).text = IF h = 1 THEN "init" ELSE "handler"
    BY <1>8, <2>1, NewPlaces
  <2> QED
    BY <1>2, <1>3, <1>7, <2>2 DEF Shape, Gone
<1>10. Acts(stack) = {rt}
  <2>1. \A x \in Acts(stack) : x = rt
    <3> SUFFICES ASSUME NEW x \in Acts(stack) PROVE x = rt
      OBVIOUS
    <3>1. x = <<x[1], x[2]>> /\ x[1] \in Procs /\ x[2] \in 1..Len(stack[x[1]])
      BY <1>7, ActsMembers
    <3>2. x[1] = Parent
      <4>1. ASSUME x[1] # Parent PROVE FALSE
        <5>1. stack[x[1]] = << >>
          BY <1>2, <1>7, <3>1, <4>1
        <5>2. Len(stack[x[1]]) = 0
          BY <5>1
        <5> QED
          BY <3>1, <5>2
      <4> QED
        BY <4>1
    <3>3. x[2] = 1
      BY <1>7, <3>1, <3>2
    <3> QED
      BY <3>1, <3>2, <3>3
  <2>2. rt \in Acts(stack)
    BY <1>9, RootPlace
  <2> QED
    BY <2>1, <2>2
<1>11. Op(Frame(stack, rt)) = "signal"
  BY <1>8, NewPlaces
<1>12. Forked(stack, state, avail_que, handler)
  <2>1. Root(stack).at = 1 /\ Root(stack).col = 0
    BY <1>8, NewPlaces DEF Root
  <2>2. Len(avail_que) = QUE_MAX - 2 - 0 /\ \A i \in 1..Len(avail_que) : avail_que[i] = 0 + i + 1
    BY <1>1, <1>2
  <2>3. \A c \in Child : state[c] = "AVAIL"
    BY <1>2, <1>3
  <2>4. ~handler /\ handler \in BOOLEAN /\ ~(1 > 1) /\ 0 < CHILDREN /\ Len(stack[Parent]) = 1
    <3>1. handler = FALSE
      BY <1>1
    <3>2. 0 < CHILDREN
      BY <1>2
    <3>3. ~handler /\ handler \in BOOLEAN
      BY <3>1, Zenon
    <3>4. ~(1 > 1)
      OBVIOUS
    <3> QED
      BY <1>7, <3>2, <3>3, <3>4, Zenon
  <2> DEFINE q == avail_que
  <2>5. Len(q) = QUE_MAX - 2 - 0 /\ \A i \in 1..Len(q) : q[i] = 0 + i + 1
    BY <2>2
  <2> HIDE DEF q
  <2>6. Forked(stack, state, q, handler)
    BY <2>1, <2>3, <2>4, <2>5 DEF Forked
  <2> QED
    BY <2>6 DEF q
<1>13. Guarded(stack, state, lock, suspend_que, sys_cursor)
  <2>1. state[rt[1]] # "SUSPEND"
    BY <1>3
  <2>2. \A x \in Acts(stack) : ~Crit(stack, state, x) /\ ~Susp(stack, state, x) /\ Op(Frame(stack, x)) # "write"
    BY <1>10, <1>11, <2>1 DEF Crit, Susp, Section
  <2> QED
    BY <1>1, <2>2 DEF Guarded
<1>14. Counted(stack, state)
  <2>1. WaitsIn(stack) = {}
    BY <1>10, <1>11 DEF WaitsIn
  <2> QED
    BY <1>4, <2>1, FS_EmptySet DEF Counted
<1> QED
  BY <1>5, <1>6, <1>9, <1>12, <1>13, <1>14 DEF IInv, Good

\* A step that changes nothing keeps the inductive invariant.
LEMMA StutterStep == IInv /\ UNCHANGED vars => IInv'
<1> SUFFICES ASSUME IInv, UNCHANGED vars PROVE IInv'
  OBVIOUS
<1> USE DEF vars, sched, video_mutex
<1>1. SchedInv'
  BY DEF IInv, SchedInv
<1>2. Good(stack', state', avail_que', handler', lock', suspend_que', sys_cursor')
  BY DEF IInv
<1> QED
  BY <1>1, <1>2 DEF IInv

\* The inductive invariant.
THEOREM Invariance == Spec => []IInv
<1>1. IInv /\ [Next]_vars => IInv'
  BY TimerStep, InfoStep, SignalStep, ForkStep, SleepStep, KillStep, LockStep, UnlockStep,
     CursorStep, ExitStep, WaitStep, ReturnStep, StutterStep DEF Next
<1> QED
  BY <1>1, InitGood, PTL DEF Spec

\* The kernel's queues and the programs' places keep their types, whatever the
\* number of children and however exits interrupt the parent.
THEOREM SignalsTypeCorrect == Spec => []TypeOK
<1>1. ASSUME IInv PROVE TypeOK
  <2>1. /\ run_pid \in {IDLE} \cup Procs /\ state \in [Procs -> States] /\ ready_que \in Seq(Procs)
        /\ Queued(state, avail_que, suspend_que) /\ Shape(stack, state) /\ stack \in Stacks
        /\ Forked(stack, state, avail_que, handler)
        /\ Guarded(stack, state, lock, suspend_que, sys_cursor)
    BY <1>1 DEF IInv, SchedInv, Lined, Good, Shape
  <2>2. suspend_que \in Seq(Procs) /\ IsInjective(avail_que)
    BY <2>1 DEF Queued, Holds
  <2>3. lock \in {"LOCKED", "UNLOCKED"} /\ sys_cursor \in ({IDLE} \cup Procs) \X Nat
    BY <2>1 DEF Guarded
  <2>4. handler \in BOOLEAN
    BY <2>1 DEF Forked
  <2>5. ASSUME NEW x \in Activations
        PROVE  At(x).at \in DOMAIN Text[At(x).text]
    <3> DEFINE a == At(x)
    <3>1. a \in Place
      BY <2>1, ActsMembers DEF Activations, At, Acts, Frame
    <3> HIDE DEF a
    <3>2. a.at \in DOMAIN Text[a.text]
      BY <3>1, CallTexts, TextLengths DEF Places
    <3> QED
      BY <3>2 DEF a
  <2> QED
    BY <2>1, <2>2, <2>3, <2>4, <2>5 DEF TypeOK, States
<1> QED
  BY <1>1, Invariance, PTL

\* Every exit is handled once: the handlers inserted on the parent's stack that
\* have yet to call sys_wait are as many as the zombies (AlterStack in SysExit,
\* p6/ksr.c), so the handler never blocks and no zombie is forgotten.
THEOREM HandlersCorrect == Spec => []HandlersMatchZombies
<1>1. ASSUME IInv PROVE HandlersMatchZombies
  <2>1. Shape(stack, state) /\ Counted(stack, state)
    BY <1>1 DEF IInv, Good
  <2>2. Zombies = In(state, "ZOMBIE")
    <3>1. state[Parent] # "ZOMBIE"
      BY <2>1 DEF Shape, Gone
    <3>2. Child \subseteq Procs /\ \A p \in Procs : p # Parent => p \in Child
      BY PidFacts
    <3> QED
      BY <3>1, <3>2 DEF Zombies, In
  <2>3. {x \in Activations : Op(At(x)) = "wait"} = WaitsIn(stack)
    BY DEF WaitsIn, Activations, At, Acts, Frame
  <2> QED
    BY <2>1, <2>2, <2>3 DEF HandlersMatchZombies, Counted, Shape
<1> QED
  BY <1>1, Invariance, PTL

\* Suspended and Critical are Susp and Crit of the state.
LEMMA SameSections ==
  /\ Activations = Acts(stack)
  /\ \A x : At(x) = Frame(stack, x)
  /\ \A x : Suspended(x) <=> Susp(stack, state, x)
  /\ \A x : Critical(x) <=> Crit(stack, state, x)
<1>1. Activations = Acts(stack) /\ \A x : At(x) = Frame(stack, x)
  BY DEF Activations, Acts, At, Frame
<1>2. \A x : Suspended(x) <=> Susp(stack, state, x)
  BY <1>1 DEF Suspended, Susp
<1>3. \A x : Critical(x) <=> Crit(stack, state, x)
  BY <1>1, <1>2 DEF Critical, Crit, Section
<1> QED
  BY <1>1, <1>2, <1>3

\* The video mutex keeps all but one activation out of the section between
\* sys_lock_mutex and sys_unlock_mutex, handlers included that were inserted on
\* top of it.
THEOREM ExclusionCorrect == Spec => []MutualExclusion
<1>1. IInv => MutualExclusion
  BY SameSections DEF IInv, Good, Guarded, MutualExclusion
<1> QED
  BY <1>1, Invariance, PTL

\* Whoever writes next placed sys_cursor: the screen shows each message where
\* its writer meant it.
THEOREM DrawnCorrect == Spec => []DrawnInPlace
<1>1. IInv => DrawnInPlace
  BY SameSections DEF IInv, Good, Guarded, DrawnInPlace
<1> QED
  BY <1>1, Invariance, PTL
=============================================================================
