------------------------------ MODULE ShellProofs ------------------------------
(***************************************************************************)
(* Login, Shell and its commands on the kernels of p8 and p9, for every    *)
(* number of pids and pages, time slice, length of a line and of a string: *)
(* the theorems of Teletype.tla and an inductive invariant of the instance *)
(* V of VirtualShell.tla, for VirtualShellProofs.tla.                      *)
(*                                                                         *)
(* The two have the same programs but for single calls, and so the same    *)
(* scenes.  One process w works; beside it there may be its parent, which  *)
(* has just created it and makes one last call, sys_exit or sys_wait.  The *)
(* lemmas on scenes are about tables that need not be the current ones,    *)
(* and serve both kernels.                                                 *)
(***************************************************************************)
EXTENDS Teletype, QueueProofs

CONSTANTS KEY_MOD, Sums
VARIABLES sum, report, kb, typed, seen, raced

V == INSTANCE VirtualShell

Users == Pids \ {IDLE}
States == {"AVAIL", "READY", "RUN", "SLEEP", "WAIT", "ZOMBIE", "IO_WAIT"}
Commands == {"ShellDir", "ShellCal", "ShellRoll"}
Programs == {"Login", "Shell"} \cup Commands
Parent(w) == IF w = Shell THEN Login ELSE Shell

\* The last call of a parent while its child is there: it exits or waits.
Last(s) == IF s = Login THEN <<"Login", 7>> ELSE <<"Shell", 4>>

\* What p runs.
Program(p) == IF p = Login THEN {"Login"} ELSE IF p = Shell THEN {"Shell"} ELSE Commands

\* Everyone but w and its parent.
Cast(w, st) ==
  /\ st \in [Pids -> States] /\ st[IDLE] \in {"READY", "RUN"}
  /\ \A p \in Users \ {Login, Shell, w} : st[p] = "AVAIL"
  /\ w = Login => st[Shell] = "AVAIL"
  /\ w \notin {Login, Shell} => st[Login] = "ZOMBIE"

\* w works alone: its parent has exited, or waits for it.
Alone(w, rp, st, rq, a) ==
  /\ w \in {Login, Shell} => a[w] # Last(w)
  /\ w = Shell => st[Login] = "ZOMBIE"
  /\ w \notin {Login, Shell} => st[Shell] = "WAIT" /\ a[Shell] = <<"Shell", 5>>
  /\ \/ rp = w /\ st[w] = "RUN" /\ rq = << >>
     \/ rp \in {NONE, IDLE} /\ st[w] = "READY" /\ rq = <<w>>
     \/ rp \in {NONE, IDLE} /\ st[w] \in {"SLEEP", "IO_WAIT"} /\ rq = << >>

\* w is new, and comes to its first call before its parent s.
First(w, s, rp, st, rq) ==
  /\ st[s] = "READY"
  /\ \/ rp = w /\ st[w] = "RUN" /\ rq = <<s>>
     \/ rp = NONE /\ st[w] = "READY" /\ rq = <<w, s>>

\* w has made its first call, s comes to its last one.
Second(w, s, rp, st, rq) ==
  \/ rp = s /\ st[s] = "RUN" /\ st[w] = "READY" /\ rq = <<w>>
  \/ rp = s /\ st[s] = "RUN" /\ st[w] = "IO_WAIT" /\ rq = << >>
  \/ rp = NONE /\ st[s] = "READY" /\ st[w] = "READY" /\ rq = <<s, w>>
  \/ rp = NONE /\ st[s] = "READY" /\ st[w] = "IO_WAIT" /\ rq = <<s>>

Paired(w, rp, st, rq, a) ==
  /\ w # Login
  /\ a[Parent(w)] = Last(Parent(w))
  /\ \/ a[w][2] = 1 /\ First(w, Parent(w), rp, st, rq)
     \/ a[w][2] = 2 /\ Second(w, Parent(w), rp, st, rq)

Placed(a) == a \in [Pids -> Programs \X Nat]

\* The tables while w works; rp is NONE between a service and Scheduler().
Scene(w, rp, st, rq, a, pp) ==
  /\ w \in Users /\ Cast(w, st) /\ Placed(a) /\ a[w][1] \in Program(w)
  /\ pp[Login] = IDLE
  /\ w # Login => pp[w] = Parent(w) /\ pp[Shell] = Login
  /\ Alone(w, rp, st, rq, a) \/ Paired(w, rp, st, rq, a)

\* The pids to be given out, in the order of BootStrap while Login works.
Pool(w, st, aq) ==
  /\ aq \in Seq(Pids) /\ Holds(aq, {p \in Pids : st[p] = "AVAIL"})
  /\ w = Login => aq = [n \in 1..(QUE_MAX - 2) |-> n + 1]

Alive(st) == {p \in Pids : st[p] \notin {"AVAIL", "ZOMBIE"}}
Owned(st, pg, sp) ==
  /\ pg \in [Pages -> Pids \cup {NONE}] /\ sp \in [Pids -> SUBSET Pages]
  /\ \A p \in Alive(st) : {n \in Pages : pg[n] = p} = sp[p]
  /\ \A n \in Pages : pg[n] \in Alive(st) \cup {NONE}

\* The kernel, in a scene.
Core(w, rp, st, rq, a, pp, aq, pg, sp) ==
  /\ Scene(w, rp, st, rq, a, pp) /\ Pool(w, st, aq) /\ Owned(st, pg, sp)
  /\ pp \in [Pids -> Pids]

\* Everybody is in his text, and p has come to this call.
InText(T, a) == \A p \in Pids : a[p][2] \in DOMAIN T[a[p][1]]
Call(T, a, p) == T[a[p][1]][a[p][2]]

Kernel ==
  /\ run_pid \in Pids /\ time_count \in 0..BURST /\ wake_in \in [Pids -> 0..NAP]
  /\ \E w \in Users :
       Core(w, run_pid, state, ready_que, at, ppid, avail_que, page, space)

\* Who waits for the terminal, and what the port is doing.
Waits(st, t) ==
  /\ t \in [str : [of : Pids \cup {NONE}, left : 0..TEXT_MAX], wait_que : Seq(Pids)]
  /\ \/ t.wait_que = << >> /\ \A p \in Pids : st[p] # "IO_WAIT"
     \/ /\ t.wait_que = <<t.str.of>> /\ t.str.of \in Pids
        /\ \A p \in Pids : st[p] = "IO_WAIT" <=> p = t.str.of
Line(st, t, sends, ready) ==
  /\ Waits(st, t) /\ sends \in BOOLEAN /\ ready \in BOOLEAN
  /\ IF t.wait_que = << >> THEN ~sends ELSE sends # ready

IInv ==
  /\ Kernel /\ Line(state, tty, thr, txrdy) /\ InText(Text, at)
  /\ keys \in 0..AHEAD /\ reader \in [echoes : BOOLEAN, index : 0..(STR_MAX - 2)]

\* V: the buffer k holds the keys from rd.head or from the one behind sn to ty,
\* at every access of DeQue; the cells below rd.i have been shifted.
Ordered(rd, sn, k, ty) ==
  /\ rd.step # "look" => rd.head = V!After(sn, 1)
  /\ rd.step \in {"aim", "clear", "echo"} =>
       /\ ty = V!After(sn, k.tail + 1)
       /\ \A n \in 0..(k.tail - 1) : k.que[n] = V!After(sn, n + 2)
  /\ rd.step \in {"look", "shift", "lower"} => ty = V!After(sn, k.tail)
  /\ rd.step = "look" => \A n \in 0..(k.tail - 1) : k.que[n] = V!After(sn, n + 1)
  /\ rd.step = "clear" => rd.aim = k.tail
  /\ rd.step = "lower" => \A n \in 0..(k.tail - 2) : k.que[n] = V!After(sn, n + 2)
  /\ rd.step = "shift" =>
       \A n \in 0..(k.tail - 1) :
         k.que[n] = IF n < rd.i THEN V!After(sn, n + 2) ELSE V!After(sn, n + 1)

Buffers == [que : [0..(QUE_MAX - 1) -> V!Keys \cup {0, NONE}], tail : 0..AHEAD]
Readers ==
  [step : {"look", "shift", "lower", "aim", "clear", "echo"}, i : 0..(QUE_MAX - 1),
   aim : 0..(QUE_MAX - 1), head : V!Keys \cup {0, NONE}, index : 0..(STR_MAX - 2)]

\* The reader is where the buffer allows it to be.
Within(rd, k) ==
  /\ rd.step = "shift" => rd.i <= k.tail - 1
  /\ rd.step = "lower" => k.tail >= 1

VBuffer ==
  /\ kb \in Buffers /\ reader \in Readers /\ Within(reader, kb)
  /\ typed \in V!Keys /\ seen \in V!Keys /\ raced \in BOOLEAN
  /\ ~raced => Ordered(reader, seen, kb, typed)

\* Shell's report is that of the last command, while Shell gives it.
VReport ==
  state[Shell] \notin {"AVAIL", "WAIT"} /\ at[Shell][2] \in 5..10 =>
    LET c == report[Shell][1]
    IN c \in Users /\ ppid[c] = Shell /\ state[c] = "AVAIL" /\ report[Shell][2] = sum[c]

VTables ==
  /\ Kernel /\ (\A p \in Pids : state[p] # "IO_WAIT")
  /\ InText(V!Text, at) /\ at[IDLE][1] = "Login"
  /\ sum \in [Pids -> {0} \cup Sums] /\ report \in [Pids -> Pids \X ({0} \cup Sums)]
  /\ VReport
VInv == VTables /\ VBuffer
-----------------------------------------------------------------------------
LEMMA PidFacts ==
  /\ QUE_MAX \in Nat /\ QUE_MAX >= 4
  /\ IDLE \in Pids /\ Login \in Users /\ Shell \in Users /\ Login # Shell
  /\ Users \subseteq Pids /\ IDLE \notin Users /\ Pids \subseteq Int
  /\ IsFiniteSet(Pids) /\ IsFiniteSet(Users) /\ Cardinality(Pids) = QUE_MAX
  /\ \A p \in Pids : p > IDLE <=> p # IDLE
  /\ \A p \in Pids : p # IDLE => p \in Users
  /\ ~(NONE > IDLE) /\ ~(IDLE > IDLE) /\ NONE \notin Pids
  /\ \A w \in Users : w # Login => Parent(w) \in Users /\ Parent(w) # w /\ Parent(w) \in {Login, Shell}
<1>1. QUE_MAX \in Nat /\ QUE_MAX >= 4
  BY TeletypeAssumption
<1>2. IsFiniteSet(Pids) /\ Cardinality(Pids) = QUE_MAX
  BY <1>1, FS_Interval DEF Pids
<1>3. Users \subseteq Pids /\ IsFiniteSet(Users)
  BY <1>2, FS_Subset DEF Users
<1>4. IDLE \in Pids /\ Login \in Users /\ Shell \in Users /\ Login # Shell
  BY <1>1 DEF Pids, Users, IDLE, Login, Shell
<1> QED
  BY <1>1, <1>2, <1>3, <1>4 DEF Pids, Users, IDLE, NONE, Parent

\* What is known of the others does not depend on w, its parent and Idle.
LEMMA CastKept ==
  ASSUME NEW w \in Users, NEW st, Cast(w, st), NEW st2 \in [Pids -> States],
         st2[IDLE] \in {"READY", "RUN"},
         \A p \in Users : p # w /\ (w # Login => p # Parent(w)) => st2[p] = st[p]
  PROVE  Cast(w, st2)
<1> USE PidFacts
<1>1. \A p \in Users \ {Login, Shell, w} : st2[p] = "AVAIL"
  BY DEF Cast
<1>2. w = Login => st2[Shell] = "AVAIL"
  BY DEF Cast
<1>3. w \notin {Login, Shell} => st2[Login] = "ZOMBIE"
  BY DEF Cast, Parent
<1> QED
  BY <1>1, <1>2, <1>3 DEF Cast

\* Scheduler() with nobody on the CPU gives it to the head of rq.
LEMMA Dispatches ==
  ASSUME NEW rp \in {NONE, IDLE}, NEW st, NEW rq, NEW ticks, Scheduler(rp, st, rq, ticks)
  PROVE  /\ time_count' = 0
         /\ state' = [st EXCEPT ![IDLE] = "READY", ![run_pid'] = "RUN"]
         /\ rq = << >> => run_pid' = IDLE /\ ready_que' = << >>
         /\ rq # << >> => run_pid' = Head(rq) /\ ready_que' = Tail(rq)
BY PidFacts DEF Scheduler, QueEmpty, AfterDeQue

Idling == {"AVAIL", "SLEEP", "WAIT", "ZOMBIE", "IO_WAIT"}
Kept(st, st2) == \A s \in Idling : \A p \in Pids : st2[p] = s <=> st[p] = s

\* Scheduler() stays in the scene.
LEMMA SceneGoesOn ==
  ASSUME NEW w, NEW rp \in Pids \cup {NONE}, NEW st, NEW rq, NEW ticks, NEW a, NEW pp,
         Scene(w, rp, st, rq, a, pp), Scheduler(rp, st, rq, ticks),
         rp > IDLE => ticks \in 0..BURST
  PROVE  /\ Scene(w, run_pid', state', ready_que', a, pp)
         /\ run_pid' \in Pids /\ time_count' \in 0..BURST /\ Kept(st, state')
<1> USE PidFacts
<1>1. w \in Users /\ Cast(w, st) /\ st \in [Pids -> States] /\ st[IDLE] \in {"READY", "RUN"}
  BY DEF Scene, Cast
<1>2. 0 \in 0..BURST
  BY TeletypeAssumption
<1>3. CASE rp > IDLE
  BY <1>3 DEF Scheduler, Kept
<1> DEFINE s == Parent(w)
<1>4. ASSUME rp \in {NONE, IDLE}, rq = << >>
      PROVE  /\ Scene(w, run_pid', state', ready_que', a, pp)
             /\ run_pid' \in Pids /\ time_count' \in 0..BURST /\ Kept(st, state')
  <2>1. ~Paired(w, rp, st, rq, a) /\ Alone(w, rp, st, rq, a)
    BY <1>1, <1>4 DEF Scene, Paired, First, Second
  <2>2. /\ run_pid' = IDLE /\ ready_que' = << >> /\ time_count' = 0
        /\ state' = [st EXCEPT ![IDLE] = "RUN"]
    BY <1>1, <1>4, Dispatches
  <2>3. state' \in [Pids -> States] /\ state'[IDLE] = "RUN" /\ \A p \in Users : state'[p] = st[p]
    BY <1>1, <2>2 DEF States
  <2>4. Cast(w, state')
    BY <1>1, <2>3, CastKept
  <2>5. st[w] \in {"SLEEP", "IO_WAIT"}
    BY <1>1, <1>4, <2>1 DEF Alone
  <2>6. Alone(w, run_pid', state', ready_que', a)
    BY <1>1, <2>1, <2>2, <2>3, <2>5 DEF Alone
  <2>7. Kept(st, state')
    BY <1>1, <2>2 DEF Kept, Idling
  <2> QED
    BY <1>2, <2>2, <2>4, <2>6, <2>7 DEF Scene
<1>5. ASSUME rp \in {NONE, IDLE}, rq # << >>
      PROVE  /\ Scene(w, run_pid', state', ready_que', a, pp)
             /\ run_pid' \in Pids /\ time_count' \in 0..BURST /\ Kept(st, state')
  <2> DEFINE h == Head(rq)
  <2>1. /\ run_pid' = h /\ ready_que' = Tail(rq) /\ time_count' = 0
        /\ state' = [st EXCEPT ![IDLE] = "READY", ![h] = "RUN"]
    BY <1>5, Dispatches
  <2>2. CASE Alone(w, rp, st, rq, a)
    <3>1. rq = <<w>> /\ st[w] = "READY"
      BY <1>1, <1>5, <2>2 DEF Alone
    <3>2. h = w /\ Tail(rq) = << >>
      BY <3>1
    <3>3. /\ state' \in [Pids -> States] /\ state'[IDLE] = "READY" /\ state'[w] = "RUN"
          /\ \A p \in Users : p # w => state'[p] = st[p]
      BY <1>1, <2>1, <3>2 DEF States
    <3>4. Cast(w, state')
      BY <1>1, <3>3, CastKept
    <3>5. Alone(w, run_pid', state', ready_que', a)
      BY <1>1, <2>1, <2>2, <3>2, <3>3 DEF Alone
    <3>6. Kept(st, state')
      BY <1>1, <2>1, <3>1, <3>2 DEF Kept, Idling
    <3> QED
      BY <1>1, <1>2, <2>1, <3>2, <3>4, <3>5, <3>6 DEF Scene
  <2>3. CASE Paired(w, rp, st, rq, a) /\ rq = <<w, s>>
    <3>1. /\ w # Login /\ s \in Users /\ s # w /\ h = w /\ Tail(rq) = <<s>>
          /\ First(w, s, rp, st, rq) /\ st[w] = "READY" /\ st[s] = "READY"
          /\ a[w][2] = 1
      BY <1>1, <1>5, <2>3 DEF Paired, First, Second
    <3>2. /\ state' \in [Pids -> States] /\ state'[IDLE] = "READY" /\ state'[w] = "RUN"
          /\ \A p \in Users : p # w => state'[p] = st[p]
      BY <1>1, <2>1, <3>1 DEF States
    <3>3. Cast(w, state')
      BY <1>1, <3>2, CastKept
    <3>4. Paired(w, run_pid', state', ready_que', a)
      BY <1>1, <2>1, <2>3, <3>1, <3>2 DEF Paired, First
    <3>5. Kept(st, state')
      BY <1>1, <2>1, <3>1 DEF Kept, Idling
    <3> QED
      BY <1>1, <1>2, <2>1, <3>1, <3>3, <3>4, <3>5 DEF Scene
  <2>4. CASE Paired(w, rp, st, rq, a) /\ rq # <<w, s>>
    <3>1. /\ w # Login /\ s \in Users /\ s # w /\ st[s] = "READY" /\ a[w][2] = 2
          /\ \/ rq = <<s, w>> /\ st[w] = "READY"
             \/ rq = <<s>> /\ st[w] = "IO_WAIT"
      BY <1>1, <1>5, <2>4 DEF Paired, First, Second
    <3>2. /\ h = s
          /\ \/ Tail(rq) = <<w>> /\ st[w] = "READY"
             \/ Tail(rq) = << >> /\ st[w] = "IO_WAIT"
      <4>1. CASE rq = <<s, w>> /\ st[w] = "READY"
        <5>1. h = s /\ Tail(rq) = <<w>>
          BY <4>1
        <5> QED
          BY <4>1, <5>1
      <4>2. CASE rq = <<s>> /\ st[w] = "IO_WAIT"
        <5>1. h = s /\ Tail(rq) = << >>
          BY <4>2
        <5> QED
          BY <4>2, <5>1
      <4> QED
        BY <3>1, <4>1, <4>2
    <3>3. /\ state' \in [Pids -> States] /\ state'[IDLE] = "READY" /\ state'[s] = "RUN"
          /\ \A p \in Users : p # s => state'[p] = st[p]
      BY <1>1, <2>1, <3>1, <3>2 DEF States
    <3>4. Cast(w, state')
      BY <1>1, <3>1, <3>3, CastKept
    <3>5. Paired(w, run_pid', state', ready_que', a)
      BY <1>1, <2>1, <2>4, <3>1, <3>2, <3>3 DEF Paired, Second
    <3>6. Kept(st, state')
      BY <1>1, <2>1, <3>1, <3>2 DEF Kept, Idling
    <3> QED
      BY <1>1, <1>2, <2>1, <3>1, <3>2, <3>4, <3>5, <3>6 DEF Scene
  <2> QED
    BY <2>2, <2>3, <2>4 DEF Scene
<1> QED
  BY <1>3, <1>4, <1>5

-----------------------------------------------------------------------------
\* What the texts of both phases have in common.
Follows(T) ==
  /\ \A g \in Programs : 1 \in DOMAIN T[g]
  /\ {1, 6, 7} \subseteq DOMAIN T["Login"] /\ {1, 3, 4, 5, 11} \subseteq DOMAIN T["Shell"]
  /\ \A g \in Programs : \A n \in DOMAIN T[g] :
       /\ n \in Nat /\ n >= 1
       /\ n = 1 => T[g][n] \in {"write", "get_rand"}
       /\ T[g][n] = "exit" <=>
            (<<g, n>> = <<"Login", 7>> \/ (g \in Commands /\ n + 1 \notin DOMAIN T[g]))
       /\ T[g][n] = "wait" <=> <<g, n>> = <<"Shell", 4>>
       /\ T[g][n] = "vfork" <=> <<g, n>> \in {<<"Login", 6>>, <<"Shell", 3>>}
       /\ T[g][n] \in {"sleep", "get_rand"} => g \in Commands
       /\ n + 1 \notin DOMAIN T[g] => T[g][n] = "exit" \/ <<g, n>> = <<"Shell", 14>>

LEMMA TextFollows == Follows(Text)
<1>1. /\ DOMAIN Text["Login"] = 1..7 /\ DOMAIN Text["Shell"] = 1..14
      /\ DOMAIN Text["ShellDir"] = 1..5 /\ DOMAIN Text["ShellCal"] = 1..7
      /\ DOMAIN Text["ShellRoll"] = 1..4
  BY DEF Text
<1>2. ASSUME NEW n \in 1..7
      PROVE  /\ n = 1 => Text["Login"][n] = "write"
             /\ Text["Login"][n] = "exit" <=> n = 7
             /\ Text["Login"][n] = "vfork" <=> n = 6
             /\ Text["Login"][n] \notin {"sleep", "get_rand", "wait"}
  BY <1>2 DEF Text
<1>3. ASSUME NEW n \in 1..14
      PROVE  /\ n = 1 => Text["Shell"][n] = "write"
             /\ Text["Shell"][n] = "vfork" <=> n = 3
             /\ Text["Shell"][n] = "wait" <=> n = 4
             /\ Text["Shell"][n] \notin {"sleep", "get_rand", "exit"}
  BY <1>3 DEF Text
<1>4. ASSUME NEW n \in 1..5
      PROVE  /\ n = 1 => Text["ShellDir"][n] = "write"
             /\ Text["ShellDir"][n] = "exit" <=> n = 5
             /\ Text["ShellDir"][n] \notin {"vfork", "wait"}
  BY <1>4 DEF Text
<1>5. ASSUME NEW n \in 1..7
      PROVE  /\ n = 1 => Text["ShellCal"][n] = "write"
             /\ Text["ShellCal"][n] = "exit" <=> n = 7
             /\ Text["ShellCal"][n] \notin {"vfork", "wait"}
  BY <1>5 DEF Text
<1>6. ASSUME NEW n \in 1..4
      PROVE  /\ n = 1 => Text["ShellRoll"][n] = "get_rand"
             /\ Text["ShellRoll"][n] = "exit" <=> n = 4
             /\ Text["ShellRoll"][n] \notin {"vfork", "wait"}
  BY <1>6 DEF Text
<1>7. ASSUME NEW g \in Programs, NEW n \in DOMAIN Text[g]
      PROVE  /\ n \in Nat /\ n >= 1
             /\ n = 1 => Text[g][n] \in {"write", "get_rand"}
             /\ Text[g][n] = "exit" <=>
                  (<<g, n>> = <<"Login", 7>> \/ (g \in Commands /\ n + 1 \notin DOMAIN Text[g]))
             /\ Text[g][n] = "wait" <=> <<g, n>> = <<"Shell", 4>>
             /\ Text[g][n] = "vfork" <=> <<g, n>> \in {<<"Login", 6>>, <<"Shell", 3>>}
             /\ Text[g][n] \in {"sleep", "get_rand"} => g \in Commands
             /\ n + 1 \notin DOMAIN Text[g] =>
                  Text[g][n] = "exit" \/ <<g, n>> = <<"Shell", 14>>
  <2>1. CASE g = "Login"
    BY <1>1, <1>2, <2>1 DEF Commands
  <2>2. CASE g = "Shell"
    BY <1>1, <1>3, <2>2 DEF Commands
  <2>3. CASE g = "ShellDir"
    BY <1>1, <1>4, <2>3 DEF Commands
  <2>4. CASE g = "ShellCal"
    BY <1>1, <1>5, <2>4 DEF Commands
  <2>5. CASE g = "ShellRoll"
    BY <1>1, <1>6, <2>5 DEF Commands
  <2> QED
    BY <2>1, <2>2, <2>3, <2>4, <2>5 DEF Programs, Commands
<1>8. /\ \A g \in Programs : 1 \in DOMAIN Text[g]
      /\ {1, 6, 7} \subseteq DOMAIN Text["Login"]
      /\ {1, 3, 4, 5, 11} \subseteq DOMAIN Text["Shell"]
  BY <1>1 DEF Programs, Commands
<1> QED
  BY <1>7, <1>8 DEF Follows

LEMMA VTextFollows == Follows(V!Text)
<1>1. /\ DOMAIN V!Text["Login"] = 1..7 /\ DOMAIN V!Text["Shell"] = 1..14
      /\ DOMAIN V!Text["ShellDir"] = 1..5 /\ DOMAIN V!Text["ShellCal"] = 1..6
      /\ DOMAIN V!Text["ShellRoll"] = 1..3
  BY DEF V!Text
<1>2. ASSUME NEW n \in 1..7
      PROVE  /\ n = 1 => V!Text["Login"][n] = "write"
             /\ V!Text["Login"][n] = "exit" <=> n = 7
             /\ V!Text["Login"][n] = "vfork" <=> n = 6
             /\ V!Text["Login"][n] \notin {"sleep", "get_rand", "wait"}
  BY <1>2 DEF V!Text
<1>3. ASSUME NEW n \in 1..14
      PROVE  /\ n = 1 => V!Text["Shell"][n] = "write"
             /\ V!Text["Shell"][n] = "vfork" <=> n = 3
             /\ V!Text["Shell"][n] = "wait" <=> n = 4
             /\ V!Text["Shell"][n] \notin {"sleep", "get_rand", "exit"}
  BY <1>3 DEF V!Text
<1>4. ASSUME NEW n \in 1..5
      PROVE  /\ n = 1 => V!Text["ShellDir"][n] = "write"
             /\ V!Text["ShellDir"][n] = "exit" <=> n = 5
             /\ V!Text["ShellDir"][n] \notin {"vfork", "wait"}
  BY <1>4 DEF V!Text
<1>5. ASSUME NEW n \in 1..6
      PROVE  /\ n = 1 => V!Text["ShellCal"][n] = "write"
             /\ V!Text["ShellCal"][n] = "exit" <=> n = 6
             /\ V!Text["ShellCal"][n] \notin {"vfork", "wait"}
  BY <1>5 DEF V!Text
<1>6. ASSUME NEW n \in 1..3
      PROVE  /\ n = 1 => V!Text["ShellRoll"][n] = "get_rand"
             /\ V!Text["ShellRoll"][n] = "exit" <=> n = 3
             /\ V!Text["ShellRoll"][n] \notin {"vfork", "wait"}
  BY <1>6 DEF V!Text
<1>7. ASSUME NEW g \in Programs, NEW n \in DOMAIN V!Text[g]
      PROVE  /\ n \in Nat /\ n >= 1
             /\ n = 1 => V!Text[g][n] \in {"write", "get_rand"}
             /\ V!Text[g][n] = "exit" <=>
                  (<<g, n>> = <<"Login", 7>> \/ (g \in Commands /\ n + 1 \notin DOMAIN V!Text[g]))
             /\ V!Text[g][n] = "wait" <=> <<g, n>> = <<"Shell", 4>>
             /\ V!Text[g][n] = "vfork" <=> <<g, n>> \in {<<"Login", 6>>, <<"Shell", 3>>}
             /\ V!Text[g][n] \in {"sleep", "get_rand"} => g \in Commands
             /\ n + 1 \notin DOMAIN V!Text[g] =>
                  V!Text[g][n] = "exit" \/ <<g, n>> = <<"Shell", 14>>
  <2>1. CASE g = "Login"
    BY <1>1, <1>2, <2>1 DEF Commands
  <2>2. CASE g = "Shell"
    BY <1>1, <1>3, <2>2 DEF Commands
  <2>3. CASE g = "ShellDir"
    BY <1>1, <1>4, <2>3 DEF Commands
  <2>4. CASE g = "ShellCal"
    BY <1>1, <1>5, <2>4 DEF Commands
  <2>5. CASE g = "ShellRoll"
    BY <1>1, <1>6, <2>5 DEF Commands
  <2> QED
    BY <2>1, <2>2, <2>3, <2>4, <2>5 DEF Programs, Commands
<1>8. /\ \A g \in Programs : 1 \in DOMAIN V!Text[g]
      /\ {1, 6, 7} \subseteq DOMAIN V!Text["Login"]
      /\ {1, 3, 4, 5, 11} \subseteq DOMAIN V!Text["Shell"]
  BY <1>1 DEF Programs, Commands
<1> QED
  BY <1>7, <1>8 DEF Follows

-----------------------------------------------------------------------------
\* a2 is a after the call that p has come to.
Steps(a, p, a2) ==
  \E m \in Onward(a[p][1], a[p][2]) : a2 = [a EXCEPT ![p] = <<a[p][1], m>>]

LEMMA OnwardFacts ==
  ASSUME NEW T, Follows(T), NEW g \in Programs, NEW n \in DOMAIN T[g],
         T[g][n] # "exit", NEW m \in Onward(g, n)
  PROVE  /\ m \in Nat /\ m \in DOMAIN T[g]
         /\ n = 1 => m = 2
         /\ T[g][n] = "wait" => <<g, m>> = <<"Shell", 5>>
         /\ T[g][n] = "vfork" => <<g, m>> \in {<<"Login", 7>>, <<"Shell", 4>>}
         /\ T[g][n] # "vfork" => <<g, m>> \notin {<<"Login", 7>>, <<"Shell", 4>>}
<1>1. /\ n \in Nat /\ n >= 1
      /\ T[g][n] = "wait" <=> <<g, n>> = <<"Shell", 4>>
      /\ T[g][n] = "vfork" <=> <<g, n>> \in {<<"Login", 6>>, <<"Shell", 3>>}
      /\ n + 1 \notin DOMAIN T[g] => <<g, n>> = <<"Shell", 14>>
  BY DEF Follows
<1>2. 1 \in DOMAIN T[g]
  BY DEF Follows
<1>3. {1, 6, 7} \subseteq DOMAIN T["Login"] /\ {1, 3, 4, 5, 11} \subseteq DOMAIN T["Shell"]
  BY DEF Follows
<1>4. CASE g = "Login" /\ n = 5
  BY <1>1, <1>2, <1>3, <1>4 DEF Onward
<1>5. CASE g = "Shell" /\ n = 2
  BY <1>1, <1>2, <1>3, <1>5 DEF Onward
<1>6. CASE g = "Shell" /\ n \in {10, 14}
  BY <1>1, <1>2, <1>3, <1>6 DEF Onward
<1>7. CASE ~(g = "Login" /\ n = 5) /\ ~(g = "Shell" /\ n \in {2, 10, 14})
  <2>1. m = n + 1
    BY <1>7 DEF Onward
  <2>2. m \in DOMAIN T[g]
    BY <1>1, <1>7, <2>1
  <2> QED
    BY <1>1, <2>1, <2>2
<1> QED
  BY <1>4, <1>5, <1>6, <1>7

\* w goes on in its program, beside nobody else; not to the call it would make
\* with a child.
StepsOn(w, a, a2) ==
  /\ Placed(a2) /\ a2[w][1] = a[w][1] /\ \A p \in Pids : p # w => a2[p] = a[p]
  /\ w \in {Login, Shell} => a2[w] # Last(w)
  /\ a[w][2] = 1 => a2[w][2] = 2

\* What p runs in a scene.
LEMMA ProgramFacts ==
  /\ \A p \in Users : Program(p) \subseteq Programs
  /\ Program(Login) = {"Login"} /\ Program(Shell) = {"Shell"}
  /\ \A p \in Users : p \notin {Login, Shell} => Program(p) = Commands
  /\ "Login" \notin Commands /\ "Shell" \notin Commands
  /\ Commands \subseteq Programs /\ "Login" \in Programs /\ "Shell" \in Programs
BY PidFacts DEF Program, Programs, Commands

LEMMA StepsFurther ==
  ASSUME NEW T, Follows(T), NEW w \in Users, NEW a, Placed(a), a[w][1] \in Program(w),
         a[w][2] \in DOMAIN T[a[w][1]], T[a[w][1]][a[w][2]] \notin {"exit", "vfork"},
         NEW a2, Steps(a, w, a2)
  PROVE  StepsOn(w, a, a2) /\ a2[w][2] \in DOMAIN T[a2[w][1]]
<1> DEFINE g == a[w][1]
           n == a[w][2]
<1>9. a \in [Pids -> Programs \X Nat] /\ w \in Pids
  BY PidFacts DEF Placed
<1>10. a[w] \in Programs \X Nat
  BY <1>9
<1>1. a \in [Pids -> Programs \X Nat] /\ a[w] = <<g, n>> /\ g \in Programs
  BY <1>9, <1>10
<1> USE PidFacts, ProgramFacts
<1>2. PICK m \in Onward(g, n) : a2 = [a EXCEPT ![w] = <<g, m>>]
  BY DEF Steps
<1>3. m \in Nat /\ m \in DOMAIN T[g] /\ (n = 1 => m = 2)
  BY <1>1, OnwardFacts
<1>8. <<g, m>> \notin {<<"Login", 7>>, <<"Shell", 4>>}
  BY <1>1, OnwardFacts
<1>4. a2[w] = <<g, m>> /\ Placed(a2) /\ \A p \in Pids : p # w => a2[p] = a[p]
  <2>1. g \in Programs /\ m \in Nat /\ w \in Pids
    BY <1>1, <1>3
  <2> HIDE DEF g
  <2> QED
    BY <1>1, <1>2, <2>1 DEF Placed
<1>5. w \in {Login, Shell} => a2[w] # Last(w)
  BY <1>8, <1>4 DEF Last
<1>6. a2[w][1] = g /\ a2[w][2] = m
  BY <1>4
<1>7. (n = 1 => a2[w][2] = 2) /\ a2[w][2] \in DOMAIN T[a2[w][1]]
  BY <1>3, <1>6
<1> QED
  BY <1>4, <1>5, <1>6, <1>7 DEF StepsOn

\* A process that makes a call in a scene, and which calls it may make.
Turn(w, rp, st, rq, a, c) ==
  \/ /\ rp = w /\ st[w] = "RUN"
     /\ c = "exit" => w \notin {Login, Shell}
     /\ c = "vfork" => w \in {Login, Shell}
     /\ c # "wait"
     /\ \/ Alone(w, rp, st, rq, a) /\ rq = << >>
        \/ Paired(w, rp, st, rq, a) /\ a[w][2] = 1 /\ c \in {"write", "get_rand"}
  \/ /\ w # Login /\ rp = Parent(w) /\ a[rp] = Last(rp) /\ st[rp] = "RUN"
     /\ Paired(w, rp, st, rq, a) /\ a[w][2] = 2
     /\ c = IF rp = Login THEN "exit" ELSE "wait"

LEMMA RunsScene ==
  ASSUME NEW T, Follows(T), NEW w, NEW rp \in Users, NEW st, NEW rq, NEW a, NEW pp,
         Scene(w, rp, st, rq, a, pp), a[rp][2] \in DOMAIN T[a[rp][1]]
  PROVE  Turn(w, rp, st, rq, a, Call(T, a, rp))
<1> USE PidFacts, ProgramFacts
<1> DEFINE g == a[rp][1]
           n == a[rp][2]
           s == Parent(w)
<1>1. w \in Users /\ Placed(a) /\ a[w][1] \in Program(w)
  BY DEF Scene
<1>2. a[rp] = <<g, n>> /\ g \in Programs
  BY <1>1 DEF Placed
<1>3. /\ n \in Nat /\ n >= 1
      /\ n = 1 => T[g][n] \in {"write", "get_rand"}
      /\ T[g][n] = "exit" <=>
           (<<g, n>> = <<"Login", 7>> \/ (g \in Commands /\ n + 1 \notin DOMAIN T[g]))
      /\ T[g][n] = "wait" <=> <<g, n>> = <<"Shell", 4>>
      /\ T[g][n] = "vfork" <=> <<g, n>> \in {<<"Login", 6>>, <<"Shell", 3>>}
  BY <1>2 DEF Follows
<1>7. Call(T, a, rp) = T[g][n]
  BY DEF Call
<1>4. CASE Alone(w, rp, st, rq, a)
  <2>1. rp = w /\ st[w] = "RUN" /\ rq = << >> /\ (w \in {Login, Shell} => <<g, n>> # Last(w))
    BY <1>2, <1>4 DEF Alone
  <2>2. CASE w = Login
    BY <1>7, <1>1, <1>3, <1>4, <2>1, <2>2 DEF Last, Turn
  <2>3. CASE w = Shell
    BY <1>7, <1>1, <1>3, <1>4, <2>1, <2>3 DEF Last, Turn
  <2>4. CASE w \notin {Login, Shell}
    BY <1>7, <1>1, <1>3, <1>4, <2>1, <2>4 DEF Commands, Turn
  <2> QED
    BY <2>2, <2>3, <2>4
<1>5. CASE Paired(w, rp, st, rq, a) /\ rp = w
  <2>1. a[w][2] = 1 /\ st[w] = "RUN"
    BY <1>1, <1>5 DEF Paired, First, Second
  <2> QED
    BY <1>7, <1>3, <1>5, <2>1 DEF Turn
<1>6. CASE Paired(w, rp, st, rq, a) /\ rp # w
  <2>1. w # Login /\ rp = s /\ a[w][2] = 2 /\ a[s] = Last(s) /\ st[s] = "RUN"
    BY <1>1, <1>6 DEF Paired, First, Second
  <2>2. T[g][n] = IF rp = Login THEN "exit" ELSE "wait"
    <3>1. <<g, n>> = Last(s)
      BY <1>2, <2>1
    <3>2. <<g, n>> = IF s = Login THEN <<"Login", 7>> ELSE <<"Shell", 4>>
      BY <3>1 DEF Last
    <3> QED
      BY <1>3, <2>1, <3>2
  <2> QED
    BY <1>7, <1>6, <2>1, <2>2 DEF Turn
<1> QED
  BY <1>4, <1>5, <1>6 DEF Scene

-----------------------------------------------------------------------------
\* A queue of at most one process takes another.
LEMMA EnQueShort ==
  ASSUME NEW x, NEW y
  PROVE  EnQue(<< >>, x) = <<x>> /\ EnQue(<<y>>, x) = <<y, x>>
<1>1. Len(<< >>) = 0 /\ Len(<<y>>) = 1
  OBVIOUS
<1>2. Append(<< >>, x) = <<x>>
  OBVIOUS
<1>3. Append(<<y>>, x) = <<y, x>>
  <2> DEFINE T == {x, y}
             r == Append(<<y>>, x)
  <2>1. <<y>> \in Seq(T) /\ <<y, x>> \in Seq(T) /\ Len(<<y, x>>) = 2 /\ x \in T
    OBVIOUS
  <2>2. r \in Seq(T) /\ Len(r) = 2 /\ r[1] = y /\ r[2] = x
    BY <1>1, <2>1, AppendProperties
  <2>3. \A i \in 1..2 : r[i] = <<y, x>>[i]
    BY <2>2
  <2>4. \A t \in Seq(T) : Len(t) = 2 /\ (\A i \in 1..2 : r[i] = t[i]) => r = t
    <3> HIDE DEF r, T
    <3> QED
      BY <2>2, SeqEqual
  <2> QED
    BY <2>1, <2>3, <2>4
<1>4. QUE_MAX # 0 /\ QUE_MAX # 1
  BY PidFacts
<1> QED
  BY <1>1, <1>2, <1>3, <1>4 DEF EnQue, QueFull

\* w calls the kernel and is queued again.
LEMMA SceneYields ==
  ASSUME NEW w, NEW st, NEW rq, NEW a, NEW pp, NEW a2,
         Scene(w, w, st, rq, a, pp), StepsOn(w, a, a2)
  PROVE  Scene(w, NONE, [st EXCEPT ![w] = "READY"], EnQue(rq, w), a2, pp)
<1> USE PidFacts
<1> DEFINE s == Parent(w)
           st2 == [st EXCEPT ![w] = "READY"]
<1>1. w \in Users /\ Cast(w, st) /\ Placed(a2) /\ a2[w][1] \in Program(w)
  BY DEF Scene, StepsOn
<1>2. /\ st2 \in [Pids -> States] /\ st2[IDLE] \in {"READY", "RUN"} /\ st2[w] = "READY"
      /\ \A p \in Users : p # w => st2[p] = st[p]
  BY <1>1 DEF Cast, States
<1>3. Cast(w, st2)
  <2> HIDE DEF st2
  <2> QED
    BY <1>1, <1>2, CastKept
<1>4. CASE Alone(w, w, st, rq, a)
  <2>1. EnQue(rq, w) = <<w>>
    BY <1>1, <1>4, EnQueShort DEF Alone
  <2>2. Alone(w, NONE, st2, <<w>>, a2)
    BY <1>1, <1>2, <1>4 DEF Alone, StepsOn
  <2> QED
    BY <1>1, <1>3, <2>1, <2>2 DEF Scene
<1>5. CASE Paired(w, w, st, rq, a)
  <2>1. /\ w # Login /\ a[w][2] = 1 /\ rq = <<s>> /\ st[s] = "READY"
        /\ a[s] = Last(s) /\ s # w /\ s \in Users
    BY <1>1, <1>5 DEF Paired, First, Second
  <2>2. EnQue(rq, w) = <<s, w>>
    BY <2>1, EnQueShort
  <2>3. a2[s] = Last(s) /\ a2[w][2] = 2
    BY <2>1 DEF StepsOn
  <2>4. Second(w, s, NONE, st2, <<s, w>>)
    BY <1>2, <2>1 DEF Second
  <2>5. Paired(w, NONE, st2, <<s, w>>, a2)
    BY <2>1, <2>3, <2>4 DEF Paired
  <2> QED
    BY <1>1, <1>3, <2>2, <2>5 DEF Scene
<1> QED
  BY <1>4, <1>5 DEF Scene

\* w calls the kernel and is blocked.
LEMMA SceneBlocks ==
  ASSUME NEW w, NEW st, NEW rq, NEW a, NEW pp, NEW a2, NEW k \in {"SLEEP", "IO_WAIT"},
         Scene(w, w, st, rq, a, pp), StepsOn(w, a, a2), k = "SLEEP" => a[w][2] # 1
  PROVE  Scene(w, NONE, [st EXCEPT ![w] = k], rq, a2, pp)
<1> USE PidFacts
<1> DEFINE s == Parent(w)
           st2 == [st EXCEPT ![w] = k]
<1>1. w \in Users /\ Cast(w, st) /\ Placed(a2) /\ a2[w][1] \in Program(w)
  BY DEF Scene, StepsOn
<1>2. /\ st2 \in [Pids -> States] /\ st2[IDLE] \in {"READY", "RUN"} /\ st2[w] = k
      /\ \A p \in Users : p # w => st2[p] = st[p]
  BY <1>1 DEF Cast, States
<1>3. Cast(w, st2)
  <2> HIDE DEF st2
  <2> QED
    BY <1>1, <1>2, CastKept
<1>4. CASE Alone(w, w, st, rq, a)
  <2>1. rq = << >>
    BY <1>1, <1>4 DEF Alone
  <2>2. Alone(w, NONE, st2, rq, a2)
    BY <1>1, <1>2, <1>4, <2>1 DEF Alone, StepsOn
  <2> QED
    BY <1>1, <1>3, <2>2 DEF Scene
<1>5. CASE Paired(w, w, st, rq, a)
  <2>1. /\ w # Login /\ a[w][2] = 1 /\ rq = <<s>> /\ st[s] = "READY"
        /\ a[s] = Last(s) /\ s # w /\ s \in Users
    BY <1>1, <1>5 DEF Paired, First, Second
  <2>2. k = "IO_WAIT"
    BY <2>1
  <2>3. a2[s] = Last(s) /\ a2[w][2] = 2
    BY <2>1 DEF StepsOn
  <2>4. Second(w, s, NONE, st2, rq)
    BY <1>2, <2>1, <2>2 DEF Second
  <2>5. Paired(w, NONE, st2, rq, a2)
    BY <2>1, <2>3, <2>4 DEF Paired
  <2> QED
    BY <1>1, <1>3, <2>5 DEF Scene
<1> QED
  BY <1>4, <1>5 DEF Scene

\* w is released, whoever runs.
LEMMA SceneWakes ==
  ASSUME NEW w, NEW rp, NEW st, NEW rq, NEW a, NEW pp,
         Scene(w, rp, st, rq, a, pp), st[w] \in {"SLEEP", "IO_WAIT"}
  PROVE  Scene(w, rp, [st EXCEPT ![w] = "READY"], EnQue(rq, w), a, pp)
<1> USE PidFacts
<1> DEFINE s == Parent(w)
           st2 == [st EXCEPT ![w] = "READY"]
<1>1. w \in Users /\ Cast(w, st)
  BY DEF Scene
<1>2. /\ st2 \in [Pids -> States] /\ st2[IDLE] \in {"READY", "RUN"} /\ st2[w] = "READY"
      /\ \A p \in Users : p # w => st2[p] = st[p]
  BY <1>1 DEF Cast, States
<1>3. Cast(w, st2)
  <2> HIDE DEF st2
  <2> QED
    BY <1>1, <1>2, CastKept
<1>4. CASE Alone(w, rp, st, rq, a)
  <2>1. rq = << >> /\ rp \in {NONE, IDLE} /\ EnQue(rq, w) = <<w>>
    BY <1>1, <1>4, EnQueShort DEF Alone
  <2>2. Alone(w, rp, st2, <<w>>, a)
    BY <1>1, <1>2, <1>4, <2>1 DEF Alone
  <2> QED
    BY <1>3, <2>1, <2>2 DEF Scene
<1>5. CASE Paired(w, rp, st, rq, a)
  <2>1. /\ w # Login /\ a[w][2] = 2 /\ s # w /\ s \in Users
        /\ \/ rp = s /\ st[s] = "RUN" /\ rq = << >>
           \/ rp = NONE /\ st[s] = "READY" /\ rq = <<s>>
    BY <1>1, <1>5 DEF Paired, First, Second
  <2>2. CASE rp = s /\ st[s] = "RUN" /\ rq = << >>
    <3>1. EnQue(rq, w) = <<w>>
      BY <2>2, EnQueShort
    <3>2. Second(w, s, rp, st2, <<w>>)
      BY <1>2, <2>1, <2>2 DEF Second
    <3> QED
      BY <1>3, <1>5, <2>1, <3>1, <3>2 DEF Paired, Scene
  <2>3. CASE rp = NONE /\ st[s] = "READY" /\ rq = <<s>>
    <3>1. EnQue(rq, w) = <<s, w>>
      BY <2>3, EnQueShort
    <3>2. Second(w, s, rp, st2, <<s, w>>)
      BY <1>2, <2>1, <2>3 DEF Second
    <3> QED
      BY <1>3, <1>5, <2>1, <3>1, <3>2 DEF Paired, Scene
  <2> QED
    BY <2>1, <2>2, <2>3
<1> QED
  BY <1>4, <1>5 DEF Scene

\* Login exits beside its Shell.
LEMMA SceneParentExits ==
  ASSUME NEW st, NEW rq, NEW a, NEW pp,
         Scene(Shell, Login, st, rq, a, pp), Paired(Shell, Login, st, rq, a)
  PROVE  Scene(Shell, NONE, [st EXCEPT ![Login] = "ZOMBIE"], rq, a, pp)
<1> USE PidFacts
<1> DEFINE st2 == [st EXCEPT ![Login] = "ZOMBIE"]
<1>1. Cast(Shell, st) /\ Parent(Shell) = Login
  BY DEF Scene, Parent
<1>2. /\ st2 \in [Pids -> States] /\ st2[IDLE] \in {"READY", "RUN"} /\ st2[Login] = "ZOMBIE"
      /\ \A p \in Users : p # Login => st2[p] = st[p]
  BY <1>1 DEF Cast, States
<1>3. Cast(Shell, st2)
  <2> HIDE DEF st2
  <2> QED
    BY <1>1, <1>2, CastKept
<1>4. /\ a[Shell][2] = 2
      /\ \/ st[Shell] = "READY" /\ rq = <<Shell>>
         \/ st[Shell] = "IO_WAIT" /\ rq = << >>
  BY <1>1 DEF Paired, First, Second
<1>5. a[Shell] # Last(Shell)
  BY <1>4 DEF Last
<1>6. Alone(Shell, NONE, st2, rq, a)
  BY <1>2, <1>4, <1>5 DEF Alone
<1> QED
  BY <1>3, <1>6 DEF Scene

\* Shell waits beside the command it has created.
LEMMA SceneParentWaits ==
  ASSUME NEW w, w \notin {Login, Shell}, NEW st, NEW rq, NEW a, NEW pp, NEW a2,
         Scene(w, Shell, st, rq, a, pp), Paired(w, Shell, st, rq, a),
         a2 = [a EXCEPT ![Shell] = <<"Shell", 5>>]
  PROVE  Scene(w, NONE, [st EXCEPT ![Shell] = "WAIT"], rq, a2, pp)
<1> USE PidFacts, ProgramFacts
<1> DEFINE st2 == [st EXCEPT ![Shell] = "WAIT"]
<1>1. w \in Users /\ Cast(w, st) /\ Parent(w) = Shell /\ Placed(a)
  BY DEF Scene, Parent
<1>2. /\ st2 \in [Pids -> States] /\ st2[IDLE] \in {"READY", "RUN"} /\ st2[Shell] = "WAIT"
      /\ \A p \in Users : p # Shell => st2[p] = st[p]
  BY <1>1 DEF Cast, States
<1>3. Cast(w, st2)
  <2> HIDE DEF st2
  <2> QED
    BY <1>1, <1>2, CastKept
<1>4. \/ st[w] = "READY" /\ rq = <<w>>
      \/ st[w] = "IO_WAIT" /\ rq = << >>
  BY <1>1 DEF Paired, First, Second
<1>5. Placed(a2) /\ a2[w] = a[w] /\ a2[Shell] = <<"Shell", 5>>
  <2>1. <<"Shell", 5>> \in Programs \X Nat
    OBVIOUS
  <2> QED
    BY <1>1, <2>1 DEF Placed
<1>6. Alone(w, NONE, st2, rq, a2)
  BY <1>1, <1>2, <1>4, <1>5 DEF Alone
<1> QED
  BY <1>1, <1>3, <1>5, <1>6 DEF Scene

\* A child f of w: it is queued, and w behind it.
LEMMA SceneForks ==
  ASSUME NEW w \in {Login, Shell}, NEW st, NEW a, NEW pp, NEW f \in Pids, NEW g, NEW a2,
         Scene(w, w, st, << >>, a, pp), Alone(w, w, st, << >>, a), st[f] = "AVAIL",
         w = Login => f = Shell, g \in Program(f),
         Placed(a2), a2[w] = Last(w), a2[f] = <<g, 1>>, pp \in [Pids -> Pids]
  PROVE  Scene(f, NONE, [[st EXCEPT ![f] = "READY"] EXCEPT ![w] = "READY"],
               EnQue(EnQue(<< >>, f), w), a2, [pp EXCEPT ![f] = w])
<1> USE PidFacts, ProgramFacts
<1> DEFINE st2 == [[st EXCEPT ![f] = "READY"] EXCEPT ![w] = "READY"]
           pp2 == [pp EXCEPT ![f] = w]
<1>1. Cast(w, st) /\ st \in [Pids -> States] /\ st[IDLE] \in {"READY", "RUN"} /\ st[w] = "RUN"
  BY DEF Scene, Cast, Alone
<1>2. f \in Users /\ f # w /\ f # Login
  <2>1. w = Shell => st[Login] = "ZOMBIE"
    BY DEF Alone
  <2> QED
    BY <1>1, <2>1
<1>3. Parent(f) = w
  BY <1>2 DEF Parent
<1>4. /\ st2 \in [Pids -> States] /\ st2[IDLE] \in {"READY", "RUN"}
      /\ st2[f] = "READY" /\ st2[w] = "READY" /\ \A p \in Users \ {f, w} : st2[p] = st[p]
  BY <1>1, <1>2 DEF States
<1>5. Cast(f, st2)
  <2>1. \A p \in Users \ {Login, Shell, f} : st2[p] = "AVAIL"
    BY <1>1, <1>4 DEF Cast
  <2>2. f \notin {Login, Shell} => st2[Login] = "ZOMBIE"
    BY <1>2, <1>4 DEF Alone
  <2> QED
    BY <1>2, <1>4, <2>1, <2>2 DEF Cast
<1>6. a2[f][1] \in Program(f) /\ a2[f][2] = 1
  OBVIOUS
<1>7. EnQue(EnQue(<< >>, f), w) = <<f, w>>
  BY EnQueShort
<1>8. Paired(f, NONE, st2, <<f, w>>, a2)
  <2>1. First(f, w, NONE, st2, <<f, w>>)
    BY <1>4 DEF First
  <2> QED
    BY <1>2, <1>3, <1>6, <2>1 DEF Paired
<1>9. pp2[Login] = IDLE /\ pp2[f] = w /\ pp2[Shell] = Login
  BY <1>2 DEF Scene, Parent
<1>10. Scene(f, NONE, st2, <<f, w>>, a2, pp2)
  <2> HIDE DEF st2, pp2
  <2> QED
    BY <1>2, <1>3, <1>5, <1>6, <1>8, <1>9 DEF Scene
<1> QED
  BY <1>7, <1>10

\* A command exits and Shell, which waits for it, goes on.
LEMMA SceneChildExits ==
  ASSUME NEW w, w \notin {Login, Shell}, NEW st, NEW a, NEW pp,
         Scene(w, w, st, << >>, a, pp), Alone(w, w, st, << >>, a)
  PROVE  Scene(Shell, NONE, [[st EXCEPT ![Shell] = "READY"] EXCEPT ![w] = "AVAIL"],
               EnQue(<< >>, Shell), a, pp)
<1> USE PidFacts, ProgramFacts
<1> DEFINE st2 == [[st EXCEPT ![Shell] = "READY"] EXCEPT ![w] = "AVAIL"]
<1>1. /\ w \in Users /\ Cast(w, st) /\ st \in [Pids -> States] /\ st[IDLE] \in {"READY", "RUN"}
      /\ st[Login] = "ZOMBIE" /\ a[Shell] = <<"Shell", 5>>
  BY DEF Scene, Cast, Alone
<1>2. /\ st2 \in [Pids -> States] /\ st2[IDLE] \in {"READY", "RUN"}
      /\ st2[Shell] = "READY" /\ st2[w] = "AVAIL" /\ \A p \in Users \ {Shell, w} : st2[p] = st[p]
  BY <1>1 DEF States
<1>3. Cast(Shell, st2)
  BY <1>1, <1>2 DEF Cast
<1>4. a[Shell] # Last(Shell)
  BY <1>1 DEF Last
<1>5. Alone(Shell, NONE, st2, <<Shell>>, a)
  BY <1>1, <1>2, <1>4 DEF Alone
<1>6. EnQue(<< >>, Shell) = <<Shell>>
  BY EnQueShort
<1>7. a[Shell][1] \in Program(Shell) /\ Parent(Shell) = Login
  BY <1>1 DEF Parent
<1>8. Placed(a) /\ pp[Login] = IDLE /\ pp[Shell] = Login
  BY DEF Scene
<1> QED
  BY <1>3, <1>5, <1>6, <1>7, <1>8 DEF Scene

-----------------------------------------------------------------------------
\* Nobody but w sleeps or writes, nobody but Login is a zombie.
LEMMA SceneStates ==
  ASSUME NEW w, NEW rp, NEW st, NEW rq, NEW a, NEW pp, Scene(w, rp, st, rq, a, pp)
  PROVE  /\ w \in Users /\ st \in [Pids -> States]
         /\ \A p \in Pids : st[p] \in {"SLEEP", "IO_WAIT"} => p = w
         /\ \A p \in Pids : st[p] = "ZOMBIE" => p = Login
         /\ st[w] \notin {"AVAIL", "ZOMBIE", "WAIT"}
         /\ \A p \in Pids : st[p] = "WAIT" => p = Shell /\ w \notin {Login, Shell}
         /\ \A p \in Users \ {Login, Shell, w} : st[p] = "AVAIL"
         /\ (w # Login => st[Shell] # "AVAIL") /\ (w = Login => st[Shell] = "AVAIL")
<1> USE PidFacts
<1> DEFINE s == Parent(w)
<1>1. /\ w \in Users /\ st \in [Pids -> States] /\ st[IDLE] \in {"READY", "RUN"}
      /\ \A p \in Users \ {Login, Shell, w} : st[p] = "AVAIL"
      /\ w = Login => st[Shell] = "AVAIL"
      /\ w \notin {Login, Shell} => st[Login] = "ZOMBIE"
  BY DEF Scene, Cast
<1>2. st[w] \in {"RUN", "READY", "SLEEP", "IO_WAIT"}
  BY DEF Scene, Alone, Paired, First, Second
<1>3. w = Shell => st[Login] \in {"ZOMBIE", "READY", "RUN"}
  BY DEF Scene, Alone, Paired, First, Second, Parent
<1>4. w \notin {Login, Shell} => st[Shell] \in {"WAIT", "READY", "RUN"}
  BY DEF Scene, Alone, Paired, First, Second, Parent
<1>5. \A p \in Pids : p \in {IDLE, Login, Shell, w} \/ p \in Users \ {Login, Shell, w}
  OBVIOUS
<1> QED
  BY <1>1, <1>2, <1>3, <1>4, <1>5

\* page[] without the pages of p; page[] and the spaces when f gets the pages A.
Freed(pg, p) == [n \in Pages |-> IF pg[n] = p THEN NONE ELSE pg[n]]
Given(pg, A, f) == [n \in Pages |-> IF n \in A THEN f ELSE pg[n]]
Moved(sp, A, f) == [sp EXCEPT ![f] = A]

\* The ready queue is short, and holds those who are READY.
LEMMA SceneQueue ==
  ASSUME NEW w, NEW rp, NEW st, NEW rq, NEW a, NEW pp, Scene(w, rp, st, rq, a, pp)
  PROVE  rq \in Seq(Pids) /\ Len(rq) <= 2 /\ Holds(rq, {p \in Users : st[p] = "READY"})
<1> USE PidFacts
<1> DEFINE s == Parent(w)
           R == {p \in Users : st[p] = "READY"}
<1>1. /\ w \in Users /\ (w # Login => s \in Users /\ s # w)
      /\ \A p \in Users \ {Login, Shell, w} : st[p] = "AVAIL"
      /\ w = Login => st[Shell] = "AVAIL"
      /\ w \notin {Login, Shell} => st[Login] = "ZOMBIE"
  BY DEF Scene, Cast
<1> SUFFICES rq \in Seq(Pids) /\ Len(rq) <= 2 /\ Holds(rq, R)
  OBVIOUS
<1>5. R \subseteq Users /\ \A p \in Users : p \in R <=> st[p] = "READY"
  OBVIOUS
<1> HIDE DEF R
<1>2. \A p \in Users : p \in R => p = w \/ (w # Login /\ p = s)
  BY <1>1, <1>5 DEF Parent
<1>3. CASE Alone(w, rp, st, rq, a)
  <2>1. w # Login => s \notin R
    BY <1>1, <1>3, <1>5 DEF Alone, Parent
  <2>2. \/ rq = << >> /\ R = {}
        \/ rq = <<w>> /\ R = {w}
    <3>1. R \subseteq {w}
      BY <1>2, <1>5, <2>1
    <3>2. \/ rq = << >> /\ w \notin R
          \/ rq = <<w>> /\ w \in R
      BY <1>1, <1>3, <1>5 DEF Alone
    <3> QED
      BY <3>1, <3>2
  <2>3. << >> \in Seq(Pids) /\ Len(<< >>) = 0 /\ Holds(<< >>, {})
    BY HoldsEmpty
  <2>4. <<w>> \in Seq(Pids) /\ Len(<<w>>) = 1 /\ Holds(<<w>>, {w})
    BY <1>1, HoldsOne
  <2>5. CASE rq = << >> /\ R = {}
    BY <2>3, <2>5
  <2>6. CASE rq = <<w>> /\ R = {w}
    BY <2>4, <2>6
  <2> QED
    BY <2>2, <2>5, <2>6
<1>4. CASE Paired(w, rp, st, rq, a)
  <2>1. w # Login /\ s \in Users /\ s # w
    BY <1>1, <1>4 DEF Paired
  <2>2. R \subseteq {w, s}
    BY <1>2, <1>5
  <2>3. \/ rq = << >> /\ w \notin R /\ s \notin R
        \/ rq = <<w>> /\ w \in R /\ s \notin R
        \/ rq = <<s>> /\ w \notin R /\ s \in R
        \/ rq = <<w, s>> /\ w \in R /\ s \in R
        \/ rq = <<s, w>> /\ w \in R /\ s \in R
    BY <1>1, <1>4, <1>5, <2>1 DEF Paired, First, Second
  <2>4. << >> \in Seq(Pids) /\ Len(<< >>) = 0 /\ Holds(<< >>, {})
    BY HoldsEmpty
  <2>5. \A x \in Users : <<x>> \in Seq(Pids) /\ Len(<<x>>) = 1 /\ Holds(<<x>>, {x})
    BY HoldsOne
  <2>6. ASSUME NEW x \in Users, NEW y \in Users, x # y
        PROVE  <<x, y>> \in Seq(Pids) /\ Len(<<x, y>>) = 2 /\ Holds(<<x, y>>, {x, y})
    <3>1. Append(<<x>>, y) = <<x, y>>
      <4>1. EnQue(<<x>>, y) = <<x, y>>
        BY EnQueShort
      <4>2. Len(<<x>>) # QUE_MAX
        BY <2>5
      <4> QED
        BY <4>1, <4>2 DEF EnQue, QueFull
    <3>2. Holds(Append(<<x>>, y), {x} \cup {y})
      BY <2>5, <2>6, HoldsAppend
    <3>3. <<x, y>> \in Seq(Pids) /\ Len(<<x, y>>) = 2 /\ {x} \cup {y} = {x, y}
      OBVIOUS
    <3> QED
      BY <3>1, <3>2, <3>3
  <2> HIDE DEF s
  <2>7. CASE rq = << >> /\ w \notin R /\ s \notin R
    <3>1. R = {}
      BY <2>2, <2>7
    <3> QED
      BY <2>4, <2>7, <3>1
  <2>8. CASE rq = <<w>> /\ w \in R /\ s \notin R
    <3>1. R = {w}
      BY <2>2, <2>8
    <3> QED
      BY <1>1, <2>5, <2>8, <3>1
  <2>9. CASE rq = <<s>> /\ w \notin R /\ s \in R
    <3>1. R = {s}
      BY <2>2, <2>9
    <3> QED
      BY <2>1, <2>5, <2>9, <3>1
  <2>10. CASE (rq = <<w, s>> \/ rq = <<s, w>>) /\ w \in R /\ s \in R
    <3>1. R = {w, s} /\ R = {s, w}
      BY <2>2, <2>10
    <3>2. Holds(<<w, s>>, R) /\ Holds(<<s, w>>, R)
      BY <1>1, <2>1, <2>6, <3>1
    <3>3. CASE rq = <<w, s>>
      BY <1>1, <2>1, <2>6, <3>2, <3>3
    <3>4. CASE rq = <<s, w>>
      BY <1>1, <2>1, <2>6, <3>2, <3>4
    <3> QED
      BY <2>10, <3>3, <3>4
  <2> QED
    BY <2>3, <2>7, <2>8, <2>9, <2>10
<1> QED
  BY <1>3, <1>4 DEF Scene

\* Nobody is created and nobody exits.
Same(st, st2) ==
  \A p \in Pids : (st2[p] = "AVAIL" <=> st[p] = "AVAIL") /\ (st2[p] = "ZOMBIE" <=> st[p] = "ZOMBIE")

LEMMA PoolKept ==
  ASSUME NEW w, NEW st, NEW aq, NEW st2, Pool(w, st, aq), Same(st, st2)
  PROVE  Pool(w, st2, aq)
<1>1. {p \in Pids : st2[p] = "AVAIL"} = {p \in Pids : st[p] = "AVAIL"}
  BY DEF Same
<1> QED
  BY <1>1 DEF Pool

LEMMA OwnedKept ==
  ASSUME NEW st, NEW pg, NEW sp, NEW st2, Owned(st, pg, sp), Same(st, st2)
  PROVE  Owned(st2, pg, sp)
<1>1. Alive(st2) = Alive(st)
  BY DEF Same, Alive
<1> QED
  BY <1>1 DEF Owned

LEMMA OwnedEnds ==
  ASSUME NEW st, NEW pg, NEW sp, NEW st2, NEW p \in Pids, Owned(st, pg, sp),
         Alive(st2) = Alive(st) \ {p}
  PROVE  Owned(st2, Freed(pg, p), sp)
<1> DEFINE pg2 == [n \in Pages |-> IF pg[n] = p THEN NONE ELSE pg[n]]
<1>1. pg2 \in [Pages -> Pids \cup {NONE}]
  BY DEF Owned
<1>2. \A q \in Alive(st2) : \A n \in Pages : pg2[n] = q <=> pg[n] = q
  <2>1. \A q \in Alive(st2) : q # p /\ q # NONE
    BY PidFacts DEF Alive
  <2> QED
    BY <2>1
<1>3. \A q \in Alive(st2) : {n \in Pages : pg2[n] = q} = sp[q]
  <2>1. \A q \in Alive(st2) : {n \in Pages : pg2[n] = q} = {n \in Pages : pg[n] = q}
    BY <1>2
  <2> HIDE DEF pg2
  <2> QED
    BY <2>1 DEF Owned
<1>4. \A n \in Pages : pg2[n] \in Alive(st2) \cup {NONE}
  BY DEF Owned
<1>5. Owned(st2, pg2, sp)
  BY <1>1, <1>3, <1>4 DEF Owned
<1> QED
  BY <1>5 DEF Freed

LEMMA OwnedStarts ==
  ASSUME NEW st, NEW pg, NEW sp, NEW st2, NEW f \in Pids, NEW A \in SUBSET Pages,
         Owned(st, pg, sp), f \notin Alive(st), Alive(st2) = Alive(st) \cup {f},
         \A n \in A : pg[n] = NONE
  PROVE  Owned(st2, Given(pg, A, f), Moved(sp, A, f))
<1> DEFINE pg2 == [n \in Pages |-> IF n \in A THEN f ELSE pg[n]]
           sp2 == [sp EXCEPT ![f] = A]
<1>1. pg2 \in [Pages -> Pids \cup {NONE}] /\ sp2 \in [Pids -> SUBSET Pages]
  BY DEF Owned
<1>2. \A n \in Pages : pg[n] # f
  BY PidFacts DEF Owned
<1>3. {n \in Pages : pg2[n] = f} = sp2[f]
  BY <1>2 DEF Owned
<1>4. ASSUME NEW q \in Alive(st), q # f
      PROVE  {n \in Pages : pg2[n] = q} = sp2[q]
  <2>1. q # NONE /\ q \in Pids
    BY PidFacts DEF Alive
  <2>2. \A n \in Pages : pg2[n] = q <=> pg[n] = q
    BY <1>4, <2>1
  <2>3. {n \in Pages : pg2[n] = q} = {n \in Pages : pg[n] = q}
    BY <2>2
  <2>4. sp2[q] = sp[q]
    BY <1>4, <2>1 DEF Owned
  <2> HIDE DEF pg2, sp2
  <2> QED
    BY <2>3, <2>4 DEF Owned
<1>5. \A q \in Alive(st2) : {n \in Pages : pg2[n] = q} = sp2[q]
  <2> HIDE DEF pg2, sp2
  <2> QED
    BY <1>3, <1>4
<1>6. \A n \in Pages : pg2[n] \in Alive(st2) \cup {NONE}
  BY DEF Owned
<1>7. Owned(st2, pg2, sp2)
  <2> HIDE DEF pg2, sp2
  <2> QED
    BY <1>1, <1>5, <1>6 DEF Owned
<1> QED
  BY <1>7 DEF Given, Moved

\* The first pid that Login gets is Shell.
LEMMA PoolStarts ==
  ASSUME NEW w, NEW st, NEW aq, Pool(w, st, aq), aq # << >>
  PROVE  /\ Head(aq) \in Pids /\ st[Head(aq)] = "AVAIL"
         /\ w = Login => Head(aq) = Shell
         /\ \A st2, f : f # Login /\ {p \in Pids : st2[p] = "AVAIL"} =
                            {p \in Pids : st[p] = "AVAIL"} \ {Head(aq)}
              => Pool(f, st2, Tail(aq))
<1>1. /\ Head(aq) \in {p \in Pids : st[p] = "AVAIL"} /\ Tail(aq) \in Seq(Pids)
      /\ Holds(Tail(aq), {p \in Pids : st[p] = "AVAIL"} \ {Head(aq)})
  BY HoldsTail DEF Pool
<1>2. ASSUME w = Login PROVE Head(aq) = Shell
  <2>1. aq = [n \in 1..(QUE_MAX - 2) |-> n + 1] /\ 1 \in 1..(QUE_MAX - 2)
    BY <1>2, PidFacts DEF Pool
  <2>2. aq[1] = 2
    BY <2>1
  <2>3. Head(aq) = aq[1]
    BY DEF Pool
  <2> QED
    BY <2>2, <2>3 DEF Shell
<1> QED
  BY <1>1, <1>2 DEF Pool

LEMMA PoolEnds ==
  ASSUME NEW w, NEW st, NEW aq, NEW st2, NEW x \in Pids, Pool(w, st, aq), st[x] # "AVAIL",
         {p \in Pids : st2[p] = "AVAIL"} = {p \in Pids : st[p] = "AVAIL"} \cup {x}
  PROVE  Pool(Shell, st2, EnQue(aq, x))
<1> DEFINE S == {p \in Pids : st[p] = "AVAIL"}
<1>1. aq \in Seq(Pids) /\ Holds(aq, S) /\ x \notin S /\ S \cup {x} \subseteq Pids
  BY DEF Pool
<1>2. QUE_MAX \in Nat /\ IsFiniteSet(Pids) /\ Cardinality(Pids) <= QUE_MAX
  BY PidFacts
<1>3. EnQue(aq, x) \in Seq(Pids) /\ Holds(EnQue(aq, x), S \cup {x})
  <2> HIDE DEF S
  <2> QED
    BY <1>1, <1>2, EnQueHolds
<1> QED
  BY <1>3, PidFacts DEF Pool

LEMMA CoreKept ==
  ASSUME NEW w, NEW rp, NEW st, NEW rq, NEW a, NEW pp, NEW aq, NEW pg, NEW sp,
         Core(w, rp, st, rq, a, pp, aq, pg, sp),
         NEW rp2, NEW st2, NEW rq2, NEW a2, Scene(w, rp2, st2, rq2, a2, pp), Same(st, st2)
  PROVE  Core(w, rp2, st2, rq2, a2, pp, aq, pg, sp)
BY PoolKept, OwnedKept DEF Core

\* Scheduler().
LEMMA CoreGoesOn ==
  ASSUME NEW w, NEW rp \in Pids \cup {NONE}, NEW st, NEW rq, NEW a, NEW pp, NEW aq, NEW pg, NEW sp,
         NEW ticks, Core(w, rp, st, rq, a, pp, aq, pg, sp), Scheduler(rp, st, rq, ticks),
         rp > IDLE => ticks \in 0..BURST
  PROVE  /\ Core(w, run_pid', state', ready_que', a, pp, aq, pg, sp)
         /\ run_pid' \in Pids /\ time_count' \in 0..BURST /\ Kept(st, state')
<1>1. Scene(w, rp, st, rq, a, pp)
  BY DEF Core
<1>2. /\ Scene(w, run_pid', state', ready_que', a, pp)
      /\ run_pid' \in Pids /\ time_count' \in 0..BURST /\ Kept(st, state')
  BY <1>1, SceneGoesOn
<1>3. Same(st, state')
  BY <1>2 DEF Kept, Idling, Same
<1> QED
  BY <1>2, <1>3, CoreKept

-----------------------------------------------------------------------------
\* The calls of both kernels, on tables that need not be the current ones.
LEMMA SceneRuns ==
  ASSUME NEW w, NEW st, NEW rq, NEW a, NEW pp, Scene(w, w, st, rq, a, pp)
  PROVE  w \in Users /\ st[w] = "RUN"
BY PidFacts DEF Scene, Alone, Paired, First, Second

LEMMA CoreYields ==
  ASSUME NEW w, NEW st, NEW rq, NEW a, NEW pp, NEW aq, NEW pg, NEW sp, NEW a2,
         Core(w, w, st, rq, a, pp, aq, pg, sp), StepsOn(w, a, a2)
  PROVE  Core(w, NONE, [st EXCEPT ![w] = "READY"], EnQue(rq, w), a2, pp, aq, pg, sp)
<1>1. Scene(w, w, st, rq, a, pp)
  BY DEF Core
<1>2. w \in Users /\ st[w] = "RUN" /\ st \in [Pids -> States]
  BY <1>1, SceneRuns, SceneStates
<1>3. Same(st, [st EXCEPT ![w] = "READY"])
  BY <1>2 DEF Same
<1>4. Scene(w, NONE, [st EXCEPT ![w] = "READY"], EnQue(rq, w), a2, pp)
  BY <1>1, SceneYields
<1> QED
  BY <1>3, <1>4, CoreKept

LEMMA CoreBlocks ==
  ASSUME NEW w, NEW st, NEW rq, NEW a, NEW pp, NEW aq, NEW pg, NEW sp, NEW a2,
         NEW k \in {"SLEEP", "IO_WAIT"},
         Core(w, w, st, rq, a, pp, aq, pg, sp), StepsOn(w, a, a2), k = "SLEEP" => a[w][2] # 1
  PROVE  Core(w, NONE, [st EXCEPT ![w] = k], rq, a2, pp, aq, pg, sp)
<1>1. Scene(w, w, st, rq, a, pp)
  BY DEF Core
<1>2. w \in Users /\ st[w] = "RUN" /\ st \in [Pids -> States]
  BY <1>1, SceneRuns, SceneStates
<1>3. Same(st, [st EXCEPT ![w] = k])
  BY <1>2 DEF Same
<1>4. Scene(w, NONE, [st EXCEPT ![w] = k], rq, a2, pp)
  BY <1>1, SceneBlocks
<1> QED
  BY <1>3, <1>4, CoreKept

LEMMA CoreWakes ==
  ASSUME NEW w, NEW rp, NEW st, NEW rq, NEW a, NEW pp, NEW aq, NEW pg, NEW sp,
         Core(w, rp, st, rq, a, pp, aq, pg, sp), st[w] \in {"SLEEP", "IO_WAIT"}
  PROVE  Core(w, rp, [st EXCEPT ![w] = "READY"], EnQue(rq, w), a, pp, aq, pg, sp)
<1>1. Scene(w, rp, st, rq, a, pp)
  BY DEF Core
<1>2. w \in Users /\ st \in [Pids -> States]
  BY <1>1, SceneStates
<1>3. Same(st, [st EXCEPT ![w] = "READY"])
  BY <1>2 DEF Same
<1>4. Scene(w, rp, [st EXCEPT ![w] = "READY"], EnQue(rq, w), a, pp)
  BY <1>1, SceneWakes
<1> QED
  BY <1>3, <1>4, CoreKept

\* A call that leaves family and memory alone is one of w.
LEMMA PlainCalls ==
  ASSUME NEW T, Follows(T), NEW w, NEW rp \in Users, NEW st, NEW rq, NEW a, NEW pp, NEW aq,
         NEW pg, NEW sp, Core(w, rp, st, rq, a, pp, aq, pg, sp), InText(T, a),
         Call(T, a, rp) \in {"write", "read", "sleep", "get_rand"},
         NEW a2, Steps(a, rp, a2) \/ (a2 = a /\ Call(T, a, rp) = "read")
  PROVE  /\ rp = w /\ st[w] = "RUN" /\ StepsOn(w, a, a2) /\ InText(T, a2)
         /\ Call(T, a, rp) \in {"read", "sleep"} => a[w][2] # 1
         /\ (rq = << >> \/ Call(T, a, rp) \in {"write", "get_rand"})
<1> USE PidFacts
<1>1. Scene(w, rp, st, rq, a, pp) /\ a[rp][2] \in DOMAIN T[a[rp][1]]
  BY DEF Core, InText
<1>2. /\ rp = w /\ st[w] = "RUN"
      /\ \/ Alone(w, rp, st, rq, a) /\ rq = << >>
         \/ Paired(w, rp, st, rq, a) /\ a[w][2] = 1 /\ Call(T, a, rp) \in {"write", "get_rand"}
  <2>1. Turn(w, rp, st, rq, a, Call(T, a, rp))
    BY <1>1, RunsScene
  <2> QED
    BY <2>1 DEF Turn
<1>3. w \in Users /\ Placed(a) /\ a[w][1] \in Program(w) /\ a[w][1] \in Programs
  BY <1>1, ProgramFacts DEF Scene
<1>4. a[w][2] = 1 => Call(T, a, w) \in {"write", "get_rand"}
  BY <1>1, <1>2, <1>3 DEF Follows, Call
<1>5. CASE Steps(a, rp, a2)
  <2>1. StepsOn(w, a, a2) /\ a2[w][2] \in DOMAIN T[a2[w][1]]
    BY <1>1, <1>2, <1>3, <1>5, StepsFurther DEF Call
  <2>2. InText(T, a2)
    BY <2>1 DEF InText, StepsOn
  <2> QED
    BY <1>2, <1>4, <2>1, <2>2
<1>6. CASE a2 = a /\ Call(T, a, rp) = "read"
  <2>1. Alone(w, rp, st, rq, a) /\ a[w][2] # 1
    BY <1>2, <1>4, <1>6
  <2>2. StepsOn(w, a, a)
    BY <1>3, <2>1 DEF StepsOn, Alone
  <2> QED
    BY <1>2, <1>4, <1>6, <2>2
<1> QED
  BY <1>5, <1>6

\* w, or rp, has created f, which starts g in the pages A; b is at[] for w.
Forked(T, w, rp, st, rq, a, pp, aq, pg, sp, b, g, A) ==
  LET f  == Head(aq)
      a2 == [b EXCEPT ![f] = <<g, 1>>]
  IN  /\ f \in Pids /\ st[f] = "AVAIL" /\ f # Login /\ rp = w /\ rq = << >>
      /\ w = Login => f = Shell
      /\ InText(T, a2) /\ a2[f] = <<g, 1>> /\ a2[w] = Last(w)
      /\ \A p \in Pids : p \notin {w, f} => a2[p] = a[p]
      /\ Core(f, NONE, [[st EXCEPT ![f] = "READY"] EXCEPT ![rp] = "READY"],
              EnQue(EnQue(rq, f), rp), a2, [pp EXCEPT ![f] = rp], Tail(aq),
              Given(pg, A, f), Moved(sp, A, f))

\* Login creates its Shell, or Shell a command.
LEMMA CoreForks ==
  ASSUME NEW T, Follows(T), NEW w, NEW rp \in Users, NEW st, NEW rq, NEW a, NEW pp, NEW aq,
         NEW pg, NEW sp, Core(w, rp, st, rq, a, pp, aq, pg, sp), InText(T, a),
         Call(T, a, rp) = "vfork", aq # << >>,
         NEW b, Steps(a, rp, b), NEW g \in Started(a[rp][1]),
         NEW A \in SUBSET Pages, \A n \in A : pg[n] = NONE
  PROVE  Forked(T, w, rp, st, rq, a, pp, aq, pg, sp, b, g, A)
<1> USE PidFacts, ProgramFacts
<1> DEFINE f  == Head(aq)
           a2 == [b EXCEPT ![f] = <<g, 1>>]
           st2 == [[st EXCEPT ![f] = "READY"] EXCEPT ![rp] = "READY"]
           pg2 == Given(pg, A, f)
           sp2 == Moved(sp, A, f)
<1>1. /\ Scene(w, rp, st, rq, a, pp) /\ Pool(w, st, aq) /\ Owned(st, pg, sp)
      /\ pp \in [Pids -> Pids] /\ a[rp][2] \in DOMAIN T[a[rp][1]]
  BY DEF Core, InText
<1>2. /\ rp = w /\ st[w] = "RUN" /\ w \in {Login, Shell}
      /\ Alone(w, rp, st, rq, a) /\ rq = << >>
  <2>1. Turn(w, rp, st, rq, a, Call(T, a, rp))
    BY <1>1, RunsScene
  <2> QED
    BY <2>1 DEF Turn
<1>3. /\ st \in [Pids -> States] /\ Placed(a) /\ a[w][1] \in Program(w)
      /\ w = Shell => st[Login] = "ZOMBIE"
  BY <1>1, <1>2 DEF Scene, Cast, Alone
<1>4. /\ f \in Pids /\ st[f] = "AVAIL" /\ (w = Login => f = Shell)
  BY <1>1, PoolStarts
<1>5. f # w /\ f # Login
  BY <1>2, <1>3, <1>4
<1>6. b[w] = Last(w) /\ Placed(b) /\ (\A p \in Pids : p # w => b[p] = a[p])
  <2> DEFINE h == a[w][1]
             n == a[w][2]
  <2>1. a \in [Pids -> Programs \X Nat] /\ a[w] = <<h, n>> /\ h \in Programs
    BY <1>2, <1>3 DEF Placed
  <2>2. PICK m \in Onward(h, n) : b = [a EXCEPT ![w] = <<h, m>>]
    BY <1>2 DEF Steps
  <2>3. n \in DOMAIN T[h] /\ T[h][n] = "vfork"
    BY <1>1, <1>2 DEF Call
  <2>4. m \in Nat
    BY <2>1, <2>3, OnwardFacts
  <2>5. <<h, m>> \in {<<"Login", 7>>, <<"Shell", 4>>}
    BY <2>1, <2>3, OnwardFacts, SMTT(30)
  <2>6. h = IF w = Login THEN "Login" ELSE "Shell"
    BY <1>2, <1>3
  <2>7. <<h, m>> = Last(w)
    BY <1>2, <2>5, <2>6 DEF Last
  <2>8. Last(w) \in Programs \X Nat
    BY <2>1, <2>4, <2>7
  <2>9. b = [a EXCEPT ![w] = Last(w)]
    BY <2>2, <2>7
  <2> QED
    BY <1>2, <2>1, <2>8, <2>9 DEF Placed
<1>7. g \in Program(f) /\ g \in Programs
  <2>1. CASE w = Login
    BY <1>3, <1>4, <2>1, <1>2 DEF Started
  <2>2. CASE w = Shell
    BY <1>3, <1>5, <2>2, <1>2 DEF Started, Program, Commands
  <2> QED
    BY <1>2, <2>1, <2>2
<1>8. /\ a2[f] = <<g, 1>> /\ a2[w] = Last(w) /\ Placed(a2)
      /\ (\A p \in Pids : p \notin {w, f} => a2[p] = a[p])
  <2>1. <<g, 1>> \in Programs \X Nat
    BY <1>7
  <2> QED
    BY <1>2, <1>4, <1>5, <1>6, <2>1 DEF Placed
<1>9. InText(T, a2)
  <2>1. a2[f][2] \in DOMAIN T[a2[f][1]]
    BY <1>7, <1>8 DEF Follows
  <2>2. a2[w][2] \in DOMAIN T[a2[w][1]]
    BY <1>2, <1>8 DEF Follows, Last
  <2> HIDE DEF a2
  <2> QED
    BY <1>8, <2>1, <2>2 DEF InText
<1>10. Scene(f, NONE, st2, EnQue(EnQue(rq, f), rp), a2, [pp EXCEPT ![f] = rp])
  <2> HIDE DEF a2, f
  <2> QED
    BY <1>1, <1>2, <1>4, <1>7, <1>8, SceneForks
<1>11. {p \in Pids : st2[p] = "AVAIL"} = {p \in Pids : st[p] = "AVAIL"} \ {f}
  <2> HIDE DEF f
  <2> QED
    BY <1>2, <1>3, <1>4, <1>5
<1>12. Pool(f, st2, Tail(aq))
  <2> HIDE DEF st2
  <2> QED
    BY <1>1, <1>5, <1>11, PoolStarts
<1>13. f \notin Alive(st) /\ Alive(st2) = Alive(st) \cup {f}
  <2> HIDE DEF f
  <2>1. st2[f] = "READY" /\ st2[w] = "READY" /\ \A p \in Pids \ {f, w} : st2[p] = st[p]
    BY <1>2, <1>3, <1>4, <1>5
  <2>2. f \in Pids /\ w \in Pids /\ st[f] = "AVAIL" /\ st[w] = "RUN"
    BY <1>2, <1>4
  <2> HIDE PidFacts, ProgramFacts DEF st2
  <2>3. \A p \in Pids : st2[p] \notin {"AVAIL", "ZOMBIE"} <=> st[p] \notin {"AVAIL", "ZOMBIE"} \/ p = f
    BY <2>1, <2>2
  <2> QED
    BY <2>2, <2>3 DEF Alive
<1>14. Owned(st2, pg2, sp2)
  <2> HIDE DEF f, st2
  <2> QED
    BY <1>1, <1>4, <1>13, OwnedStarts
<1>15. [pp EXCEPT ![f] = rp] \in [Pids -> Pids]
  BY <1>1
<1> HIDE DEF f, a2, st2, pg2, sp2
<1>16. Core(f, NONE, st2, EnQue(EnQue(rq, f), rp), a2, [pp EXCEPT ![f] = rp], Tail(aq), pg2, sp2)
  BY <1>10, <1>12, <1>14, <1>15 DEF Core
<1> QED
  BY <1>2, <1>4, <1>5, <1>8, <1>9, <1>16 DEF Forked, f, a2, st2, pg2, sp2

\* A command exits, which Shell waits for; or Login does, for which nobody waits.
LEMMA CoreExits ==
  ASSUME NEW T, Follows(T), NEW w, NEW rp \in Users, NEW st, NEW rq, NEW a, NEW pp, NEW aq,
         NEW pg, NEW sp, Core(w, rp, st, rq, a, pp, aq, pg, sp), InText(T, a),
         Call(T, a, rp) = "exit"
  PROVE  \/ /\ rp = w /\ w \notin {Login, Shell} /\ pp[rp] = Shell /\ st[Shell] = "WAIT"
            /\ rq = << >> /\ a[Shell] = <<"Shell", 5>>
            /\ Core(Shell, NONE, [[st EXCEPT ![Shell] = "READY"] EXCEPT ![rp] = "AVAIL"],
                    EnQue(rq, Shell), a, pp, EnQue(aq, rp), Freed(pg, rp), sp)
         \/ /\ rp = Login /\ w = Shell /\ st[pp[rp]] # "WAIT"
            /\ Core(Shell, NONE, [st EXCEPT ![rp] = "ZOMBIE"], rq, a, pp, aq, Freed(pg, rp), sp)
<1> USE PidFacts
<1>1. /\ Scene(w, rp, st, rq, a, pp) /\ Pool(w, st, aq) /\ Owned(st, pg, sp)
      /\ pp \in [Pids -> Pids] /\ a[rp][2] \in DOMAIN T[a[rp][1]]
  BY DEF Core, InText
<1>2. Turn(w, rp, st, rq, a, "exit")
  BY <1>1, RunsScene
<1>3. w \in Users /\ st \in [Pids -> States] /\ st[IDLE] \in {"READY", "RUN"} /\ pp[Login] = IDLE
  BY <1>1 DEF Scene, Cast
<1>4. CASE rp = w
  <2>1. /\ w \notin {Login, Shell} /\ st[w] = "RUN" /\ Alone(w, w, st, << >>, a) /\ rq = << >>
    <3>1. rp # Parent(w)
      BY <1>3, <1>4 DEF Parent
    <3> QED
      BY <1>2, <1>4, <3>1 DEF Turn
  <2>2. st[Shell] = "WAIT" /\ a[Shell] = <<"Shell", 5>> /\ pp[w] = Shell
    BY <1>1, <2>1 DEF Alone, Scene, Parent
  <2> DEFINE st2 == [[st EXCEPT ![Shell] = "READY"] EXCEPT ![w] = "AVAIL"]
  <2>3. Scene(Shell, NONE, st2, EnQue(<< >>, Shell), a, pp)
    BY <1>1, <1>4, <2>1, SceneChildExits
  <2>4. {p \in Pids : st2[p] = "AVAIL"} = {p \in Pids : st[p] = "AVAIL"} \cup {w}
    BY <1>3, <2>1, <2>2
  <2>5. Pool(Shell, st2, EnQue(aq, w))
    <3> HIDE DEF st2
    <3> QED
      BY <1>1, <1>3, <2>1, <2>4, PoolEnds
  <2>6. Alive(st2) = Alive(st) \ {w}
    BY <1>3, <2>1, <2>2 DEF Alive
  <2>7. Owned(st2, Freed(pg, w), sp)
    <3> HIDE DEF st2
    <3> QED
      BY <1>1, <1>3, <2>6, OwnedEnds
  <2>8. Core(Shell, NONE, st2, EnQue(<< >>, Shell), a, pp, EnQue(aq, w), Freed(pg, w), sp)
    <3> HIDE DEF st2
    <3> QED
      BY <1>1, <2>3, <2>5, <2>7 DEF Core
  <2> QED
    BY <1>4, <2>1, <2>2, <2>8
<1>5. CASE rp # w
  <2>1. w # Login /\ rp = Parent(w) /\ rp = Login /\ st[rp] = "RUN" /\ Paired(w, rp, st, rq, a)
    BY <1>2, <1>5 DEF Turn
  <2>2. w = Shell
    BY <1>3, <2>1 DEF Parent
  <2>3. st[pp[rp]] # "WAIT"
    BY <1>3, <2>1
  <2> DEFINE st2 == [st EXCEPT ![Login] = "ZOMBIE"]
  <2>4. Scene(Shell, NONE, st2, rq, a, pp)
    BY <1>1, <2>1, <2>2, SceneParentExits
  <2>5. {p \in Pids : st2[p] = "AVAIL"} = {p \in Pids : st[p] = "AVAIL"}
    BY <1>3, <2>1
  <2>6. Pool(Shell, st2, aq)
    <3> HIDE DEF st2
    <3> QED
      BY <1>1, <2>2, <2>5 DEF Pool
  <2>7. Alive(st2) = Alive(st) \ {Login}
    BY <1>3, <2>1 DEF Alive
  <2>8. Owned(st2, Freed(pg, Login), sp)
    <3> HIDE DEF st2
    <3> QED
      BY <1>1, <2>7, OwnedEnds
  <2>9. Core(Shell, NONE, st2, rq, a, pp, aq, Freed(pg, Login), sp)
    <3> HIDE DEF st2
    <3> QED
      BY <1>1, <2>4, <2>6, <2>8 DEF Core
  <2> QED
    BY <2>1, <2>2, <2>3, <2>9
<1> QED
  BY <1>4, <1>5

\* Shell comes to its wait before its child exits.
LEMMA CoreWaits ==
  ASSUME NEW T, Follows(T), NEW w, NEW rp \in Users, NEW st, NEW rq, NEW a, NEW pp, NEW aq,
         NEW pg, NEW sp, Core(w, rp, st, rq, a, pp, aq, pg, sp), InText(T, a),
         Call(T, a, rp) = "wait", NEW a2, Steps(a, rp, a2)
  PROVE  /\ rp = Shell /\ w \notin {Login, Shell} /\ InText(T, a2)
         /\ \A c \in Pids : ~(st[c] = "ZOMBIE" /\ pp[c] = rp)
         /\ Core(w, NONE, [st EXCEPT ![rp] = "WAIT"], rq, a2, pp, aq, pg, sp)
<1> USE PidFacts, ProgramFacts
<1>1. /\ Scene(w, rp, st, rq, a, pp) /\ pp \in [Pids -> Pids] /\ a[rp][2] \in DOMAIN T[a[rp][1]]
  BY DEF Core, InText
<1>2. Turn(w, rp, st, rq, a, "wait")
  BY <1>1, RunsScene
<1>3. w \in Users /\ st \in [Pids -> States] /\ pp[Login] = IDLE /\ Placed(a)
  BY <1>1 DEF Scene, Cast
<1>4. /\ w # Login /\ rp = Parent(w) /\ rp # Login /\ a[rp] = Last(rp) /\ st[rp] = "RUN"
      /\ Paired(w, rp, st, rq, a)
  BY <1>2 DEF Turn
<1>5. rp = Shell /\ w \notin {Login, Shell} /\ a[rp] = <<"Shell", 4>>
  BY <1>3, <1>4 DEF Parent, Last
<1>6. \A c \in Pids : ~(st[c] = "ZOMBIE" /\ pp[c] = rp)
  <2>1. \A c \in Pids : st[c] = "ZOMBIE" => c = Login
    BY <1>1, SceneStates
  <2> QED
    BY <1>3, <1>5, <2>1
<1>7. a2 = [a EXCEPT ![Shell] = <<"Shell", 5>>]
  <2>1. a[Shell][1] = "Shell" /\ a[Shell][2] = 4
    BY <1>5
  <2>2. PICK m \in Onward("Shell", 4) : a2 = [a EXCEPT ![Shell] = <<"Shell", m>>]
    BY <1>5, <2>1 DEF Steps
  <2>3. m = 5
    BY <2>2 DEF Onward
  <2> QED
    BY <2>2, <2>3
<1>8. InText(T, a2)
  <2>1. a2[Shell] = <<"Shell", 5>> /\ \A p \in Pids : p # Shell => a2[p] = a[p]
    BY <1>3, <1>7 DEF Placed
  <2>2. a2[Shell][2] \in DOMAIN T[a2[Shell][1]]
    BY <2>1 DEF Follows
  <2> QED
    BY <2>1, <2>2 DEF InText
<1>9. Scene(w, NONE, [st EXCEPT ![Shell] = "WAIT"], rq, a2, pp)
  <2> HIDE PidFacts, ProgramFacts
  <2>1. Scene(w, Shell, st, rq, a, pp) /\ Paired(w, Shell, st, rq, a) /\ w \notin {Login, Shell}
    BY <1>1, <1>4, <1>5
  <2> QED
    BY <1>7, <2>1, SceneParentWaits
<1>10. Same(st, [st EXCEPT ![Shell] = "WAIT"])
  BY <1>3, <1>4, <1>5 DEF Same
<1>11. Core(w, NONE, [st EXCEPT ![Shell] = "WAIT"], rq, a2, pp, aq, pg, sp)
  BY <1>9, <1>10, CoreKept
<1> QED
  BY <1>5, <1>6, <1>8, <1>11

-----------------------------------------------------------------------------
\* BootStrap.
LEMMA PoolInit ==
  /\ [n \in 1..(QUE_MAX - 2) |-> n + 1] \in Seq(Pids)
  /\ Holds([n \in 1..(QUE_MAX - 2) |-> n + 1], 2..(QUE_MAX - 1))
<1> DEFINE aq == [n \in 1..(QUE_MAX - 2) |-> n + 1]
           m == QUE_MAX - 2
<1>1. m \in Nat /\ \A n \in 1..m : n + 1 \in Pids
  BY PidFacts DEF Pids
<1>2. aq \in Seq(Pids) /\ Len(aq) = m /\ \A i \in 1..m : aq[i] = i + 1
  BY <1>1
<1> HIDE DEF aq
<1>3. \A i, j \in 1..m : aq[i] = aq[j] => i = j
  BY <1>2
<1>4. \A x \in 2..(QUE_MAX - 1) : x - 1 \in 1..m /\ aq[x - 1] = x
  BY <1>1, <1>2, PidFacts
<1>5. \A i \in 1..m : aq[i] \in 2..(QUE_MAX - 1)
  BY <1>1, <1>2, PidFacts
<1> HIDE DEF m
<1>6. 2..(QUE_MAX - 1) = {aq[i] : i \in 1..m}
  BY <1>4, <1>5
<1>7. Holds(aq, 2..(QUE_MAX - 1))
  <2> DEFINE U == 2..(QUE_MAX - 1)
  <2>1. aq \in Seq(Pids) /\ (\A i, j \in 1..Len(aq) : aq[i] = aq[j] => i = j)
        /\ U = {aq[i] : i \in 1..Len(aq)}
    BY <1>2, <1>3, <1>6
  <2> HIDE DEF U
  <2>2. Holds(aq, U)
    BY <2>1, HoldsCells, SMTT(30)
  <2> QED
    BY <2>2 DEF U
<1> QED
  BY <1>2, <1>7 DEF aq

\* BootStrap and the two calls of SpawnSR.
LEMMA CoreInit ==
  ASSUME NEW st, st = [p \in Pids |-> IF p \in {IDLE, Login} THEN "READY" ELSE "AVAIL"],
         NEW aq, aq = [n \in 1..(QUE_MAX - 2) |-> n + 1],
         NEW pg, pg = [n \in Pages |-> IF n \in {IDLE, Login} THEN n ELSE NONE],
         NEW sp, sp = [p \in Pids |-> IF p \in {IDLE, Login} THEN {p} ELSE {}]
  PROVE  Core(Login, IDLE, st, <<Login>>, [p \in Pids |-> <<"Login", 1>>],
              [p \in Pids |-> IDLE], aq, pg, sp)
<1> USE PidFacts, ProgramFacts
<1> DEFINE a == [p \in Pids |-> <<"Login", 1>>]
           pp == [p \in Pids |-> IDLE]
<1>1. /\ st \in [Pids -> States] /\ st[IDLE] = "READY" /\ st[Login] = "READY"
      /\ \A p \in Users : p # Login => st[p] = "AVAIL"
  BY DEF States
<1>2. Cast(Login, st)
  BY <1>1 DEF Cast
<1>3. Placed(a) /\ a[Login] = <<"Login", 1>>
  BY DEF Placed
<1>4. a[Login][1] \in Program(Login) /\ a[Login] # Last(Login)
  BY <1>3 DEF Last
<1>5. Alone(Login, IDLE, st, <<Login>>, a)
  BY <1>1, <1>4 DEF Alone
<1>6. Scene(Login, IDLE, st, <<Login>>, a, pp)
  BY <1>2, <1>3, <1>4, <1>5 DEF Scene
<1>7. Pool(Login, st, aq)
  <2>1. {p \in Pids : st[p] = "AVAIL"} = 2..(QUE_MAX - 1)
    BY DEF Pids, IDLE, Login
  <2> QED
    BY <2>1, PoolInit DEF Pool
<1>8. Owned(st, pg, sp)
  <2>1. PAGE_MAX \in Nat /\ SPACE \in Nat \ {0} /\ PAGE_MAX >= 2 * SPACE + 2
    BY TeletypeAssumption
  <2>2. IDLE \in Pages /\ Login \in Pages
    BY <2>1 DEF Pages, IDLE, Login
  <2>3. pg \in [Pages -> Pids \cup {NONE}] /\ sp \in [Pids -> SUBSET Pages]
    BY <2>2
  <2>4. Alive(st) = {IDLE, Login}
    BY <1>1 DEF Alive
  <2>5. \A p \in {IDLE, Login} : \A n \in Pages : pg[n] = p <=> n = p
    BY <2>2
  <2>6. \A p \in {IDLE, Login} : sp[p] = {p}
    OBVIOUS
  <2>7. \A p \in {IDLE, Login} : {n \in Pages : pg[n] = p} = {p}
    BY <2>2, <2>5
  <2>8. \A n \in Pages : pg[n] \in {IDLE, Login} \cup {NONE}
    OBVIOUS
  <2> QED
    BY <2>3, <2>4, <2>6, <2>7, <2>8 DEF Owned
<1>9. pp \in [Pids -> Pids]
  OBVIOUS
<1> QED
  BY <1>6, <1>7, <1>8, <1>9 DEF Core

LEMMA InTextInit ==
  ASSUME NEW T, Follows(T) PROVE InText(T, [p \in Pids |-> <<"Login", 1>>])
<1>1. 1 \in DOMAIN T["Login"]
  BY DEF Follows
<1> QED
  BY <1>1 DEF InText

-----------------------------------------------------------------------------
\* Phase 9.  A call's program counter.
LEMMA BehindSteps ==
  ASSUME at' \in Behind, Placed(at), run_pid \in Pids
  PROVE  Steps(at, run_pid, at')
<1>1. PICK n \in Onward(at[run_pid][1], at[run_pid][2]) : at' = [at EXCEPT ![run_pid][2] = n]
  BY DEF Behind, Place
<1>2. at[run_pid] \in Programs \X Nat
  BY DEF Placed
<1>3. [at[run_pid] EXCEPT ![2] = n] = <<at[run_pid][1], n>>
  BY <1>2
<1>4. [at EXCEPT ![run_pid][2] = n] = [at EXCEPT ![run_pid] = [at[run_pid] EXCEPT ![2] = n]]
  OBVIOUS
<1> QED
  BY <1>1, <1>3, <1>4 DEF Steps

LEMMA CallsRunning ==
  ASSUME NEW call, Calls(call), run_pid \in Pids
  PROVE  run_pid \in Users /\ Call(Text, at, run_pid) = call
BY PidFacts DEF Calls, Place, Call

LEMMA TeletypeInit == Init => IInv
<1> SUFFICES ASSUME Init PROVE IInv
  OBVIOUS
<1>1. Core(Login, run_pid, state, ready_que, at, ppid, avail_que, page, space)
  BY CoreInit DEF Init, Spawned
<1>2. 0 \in 0..BURST /\ 0 \in 0..NAP /\ 0 \in 0..AHEAD /\ 0 \in 0..(STR_MAX - 2) /\ 0 \in 0..TEXT_MAX
  BY TeletypeAssumption DEF TeletypeAssumption
<1>3. Kernel
  <2>1. run_pid \in Pids /\ time_count \in 0..BURST /\ wake_in \in [Pids -> 0..NAP]
    BY <1>2, PidFacts DEF Init
  <2> QED
    BY <1>1, <2>1, PidFacts DEF Kernel
<1>4. Line(state, tty, thr, txrdy)
  <2>1. \A p \in Pids : state[p] # "IO_WAIT"
    BY DEF Init
  <2>2. /\ tty \in [str : [of : Pids \cup {NONE}, left : 0..TEXT_MAX], wait_que : Seq(Pids)]
        /\ tty.wait_que = << >> /\ thr = FALSE /\ txrdy = TRUE
    BY <1>2 DEF Init, TTYinit
  <2> QED
    BY <2>1, <2>2 DEF Line, Waits
<1>5. InText(Text, at)
  BY TextFollows, InTextInit DEF Init
<1>6. keys \in 0..AHEAD /\ reader \in [echoes : BOOLEAN, index : 0..(STR_MAX - 2)]
  BY <1>2 DEF Init
<1> QED
  BY <1>3, <1>4, <1>5, <1>6 DEF IInv

\* KBSR and Scheduler(), after a service.
LEMMA KernelReturns ==
  ASSUME NEW w \in Users, NEW rp \in Pids \cup {NONE}, NEW st, NEW rq, NEW ticks,
         rp > IDLE => ticks \in 0..BURST, Dispatch(rp, st, rq, ticks),
         Core(w, rp, st, rq, at', ppid', avail_que', page', space'),
         wake_in' \in [Pids -> 0..NAP], keys \in 0..AHEAD
  PROVE  Kernel' /\ keys' \in 0..AHEAD /\ Kept(st, state')
<1>1. Scheduler(rp, st, rq, ticks) /\ KBSR
  BY DEF Dispatch
<1>2. /\ Core(w, run_pid', state', ready_que', at', ppid', avail_que', page', space')
      /\ run_pid' \in Pids /\ time_count' \in 0..BURST /\ Kept(st, state')
  BY <1>1, CoreGoesOn
<1>3. keys' \in 0..AHEAD
  BY <1>1, TeletypeAssumption DEF KBSR
<1> QED
  BY <1>2, <1>3 DEF Kernel

\* The line is left alone.
LEMMA LineKept ==
  ASSUME NEW st, Line(st, tty, thr, txrdy), UNCHANGED port, NEW st2,
         \A p \in Pids : st2[p] = "IO_WAIT" <=> st[p] = "IO_WAIT", Kept(st2, state')
  PROVE  Line(state', tty', thr', txrdy')
<1>1. \A p \in Pids : state'[p] = "IO_WAIT" <=> st[p] = "IO_WAIT"
  BY DEF Kept, Idling
<1>2. Waits(state', tty)
  BY <1>1 DEF Line, Waits
<1> QED
  BY <1>2 DEF Line, port

\* tty_t, after a character and after a string.
LEMMA LineRecords ==
  ASSUME NEW t \in [str : [of : Pids \cup {NONE}, left : 0..TEXT_MAX], wait_que : Seq(Pids)]
  PROVE  /\ t.str.left \in 0..TEXT_MAX
         /\ \A x \in 0..TEXT_MAX :
              LET r == [t EXCEPT !.str.left = x]
              IN  /\ r \in [str : [of : Pids \cup {NONE}, left : 0..TEXT_MAX], wait_que : Seq(Pids)]
                  /\ r.wait_que = t.wait_que /\ r.str.of = t.str.of
         /\ LET r == [t EXCEPT !.wait_que = << >>]
            IN  /\ r \in [str : [of : Pids \cup {NONE}, left : 0..TEXT_MAX], wait_que : Seq(Pids)]
                /\ r.wait_que = << >>
<1>1. t.str \in [of : Pids \cup {NONE}, left : 0..TEXT_MAX] /\ t.wait_que \in Seq(Pids)
  OBVIOUS
<1>2. << >> \in Seq(Pids)
  OBVIOUS
<1>3. ASSUME NEW x \in 0..TEXT_MAX
      PROVE  LET r == [t EXCEPT !.str.left = x]
             IN  /\ r \in [str : [of : Pids \cup {NONE}, left : 0..TEXT_MAX], wait_que : Seq(Pids)]
                 /\ r.wait_que = t.wait_que /\ r.str.of = t.str.of
  <2>1. [t.str EXCEPT !.left = x] \in [of : Pids \cup {NONE}, left : 0..TEXT_MAX]
    BY <1>1
  <2>2. [t.str EXCEPT !.left = x].of = t.str.of
    BY <1>1
  <2> QED
    BY <1>1, <2>1, <2>2
<1> QED
  BY <1>1, <1>2, <1>3

\* TTYSR, of an interrupt or of SysWrite, while no character is under way.
LEMMA Serves ==
  ASSUME NEW w \in Users, NEW rp \in Pids \cup {NONE}, NEW st, NEW rq, NEW ticks,
         rp > IDLE => ticks \in 0..BURST, NEW t, NEW pending \in BOOLEAN,
         TTYSR(rp, t, st, rq, pending, ticks), Waits(st, t), thr = FALSE,
         Core(w, rp, st, rq, at', ppid', avail_que', page', space'),
         wake_in' \in [Pids -> 0..NAP], keys \in 0..AHEAD
  PROVE  Kernel' /\ keys' \in 0..AHEAD /\ Line(state', tty', thr', txrdy')
<1> USE PidFacts
<1>1. CASE t.wait_que = << >>
  <2>1. /\ tty' = t /\ thr' = FALSE /\ txrdy' = pending /\ Dispatch(rp, st, rq, ticks)
    BY <1>1 DEF TTYSR, QueEmpty
  <2>2. Kernel' /\ keys' \in 0..AHEAD /\ Kept(st, state')
    BY <2>1, KernelReturns
  <2>3. \A p \in Pids : state'[p] # "IO_WAIT"
    BY <1>1, <2>2, SMTT(30) DEF Waits, Kept, Idling
  <2>4. Waits(state', t)
    BY <1>1, <2>3 DEF Waits
  <2> QED
    BY <1>1, <2>1, <2>2, <2>4 DEF Line
<1>2. CASE t.wait_que # << >>
  <2> DEFINE pid == t.str.of
  <2>1. /\ t.wait_que = <<pid>> /\ pid \in Pids
        /\ t \in [str : [of : Pids \cup {NONE}, left : 0..TEXT_MAX], wait_que : Seq(Pids)]
        /\ \A p \in Pids : st[p] = "IO_WAIT" <=> p = pid
    BY <1>2 DEF Waits
  <2>2. Head(t.wait_que) = pid /\ AfterDeQue(t.wait_que) = << >>
    BY <2>1 DEF AfterDeQue, QueEmpty
  <2>3. Scene(w, rp, st, rq, at', ppid')
    BY DEF Core
  <2>4. pid = w /\ st[w] = "IO_WAIT" /\ st \in [Pids -> States]
    <3>1. st \in [Pids -> States] /\ \A p \in Pids : st[p] \in {"SLEEP", "IO_WAIT"} => p = w
      BY <2>3, SceneStates
    <3> QED
      BY <2>1, <3>1
  <2>5. CASE t.str.left > 0 /\ thr' = TRUE
    <3>1. /\ tty' = [t EXCEPT !.str.left = IF @ = 0 THEN 0 ELSE @ - 1]
          /\ txrdy' = FALSE /\ Dispatch(rp, st, rq, ticks)
      BY <1>2, <2>2, <2>5 DEF TTYSR, QueEmpty
    <3>2. Kernel' /\ keys' \in 0..AHEAD /\ Kept(st, state')
      BY <3>1, KernelReturns
    <3>3. /\ tty' \in [str : [of : Pids \cup {NONE}, left : 0..TEXT_MAX], wait_que : Seq(Pids)]
          /\ tty'.wait_que = t.wait_que /\ tty'.str.of = pid
      <4>1. t.str.left \in 0..TEXT_MAX /\ TEXT_MAX \in Nat
        BY <2>1, LineRecords, TeletypeAssumption
      <4>2. t.str.left - 1 \in 0..TEXT_MAX /\ tty' = [t EXCEPT !.str.left = t.str.left - 1]
        BY <2>5, <3>1, <4>1
      <4> QED
        BY <2>1, <4>2, LineRecords
    <3>4. \A p \in Pids : state'[p] = "IO_WAIT" <=> p = pid
      BY <2>1, <3>2 DEF Kept, Idling
    <3>5. Waits(state', tty')
      BY <2>1, <3>3, <3>4 DEF Waits
    <3> QED
      BY <1>2, <2>5, <3>1, <3>2, <3>3, <3>5 DEF Line
  <2>6. CASE ~(t.str.left > 0 /\ thr' = TRUE)
    <3>1. /\ tty' = [t EXCEPT !.wait_que = << >>] /\ thr' = FALSE /\ txrdy' = pending
          /\ Dispatch(rp, [st EXCEPT ![pid] = "READY"], EnQue(rq, pid), ticks)
      BY <1>2, <2>2, <2>6 DEF TTYSR, QueEmpty
    <3>2. Core(w, rp, [st EXCEPT ![w] = "READY"], EnQue(rq, w), at', ppid', avail_que', page', space')
      BY <2>4, CoreWakes
    <3>3. Kernel' /\ keys' \in 0..AHEAD /\ Kept([st EXCEPT ![w] = "READY"], state')
      BY <2>4, <3>1, <3>2, KernelReturns
    <3>4. \A p \in Pids : state'[p] # "IO_WAIT"
      BY <2>1, <2>4, <3>3 DEF Kept, Idling
    <3>5. /\ tty' \in [str : [of : Pids \cup {NONE}, left : 0..TEXT_MAX], wait_que : Seq(Pids)]
          /\ tty'.wait_que = << >>
      BY <2>1, <3>1, LineRecords
    <3>6. Waits(state', tty')
      BY <3>4, <3>5 DEF Waits
    <3> QED
      BY <3>1, <3>3, <3>5, <3>6 DEF Line
  <2> QED
    BY <2>5, <2>6
<1> QED
  BY <1>1, <1>2

-----------------------------------------------------------------------------
\* What the steps of phase 9 start from.
Now(w) ==
  /\ w \in Users /\ Core(w, run_pid, state, ready_que, at, ppid, avail_que, page, space)
  /\ run_pid \in Pids /\ time_count \in 0..BURST /\ wake_in \in [Pids -> 0..NAP]
  /\ Line(state, tty, thr, txrdy) /\ InText(Text, at)
  /\ keys \in 0..AHEAD /\ reader \in [echoes : BOOLEAN, index : 0..(STR_MAX - 2)]
  /\ Placed(at)

LEMMA NowExists == ASSUME IInv PROVE \E w : Now(w)
<1>1. PICK w \in Users : Core(w, run_pid, state, ready_que, at, ppid, avail_que, page, space)
  BY DEF IInv, Kernel
<1>2. Placed(at)
  BY <1>1 DEF Core, Scene
<1> QED
  BY <1>1, <1>2 DEF IInv, Kernel, Now

\* Time passes for the sleepers.
LEMMA WakeTimes ==
  ASSUME wake_in \in [Pids -> 0..NAP],
         wake_in' = [p \in Pids |-> IF wake_in[p] = 0 THEN 0 ELSE wake_in[p] - 1]
  PROVE  wake_in' \in [Pids -> 0..NAP]
<1>1. NAP \in Nat
  BY TeletypeAssumption
<1>2. \A x \in 0..NAP : (IF x = 0 THEN 0 ELSE x - 1) \in 0..NAP
  BY <1>1
<1> QED
  BY <1>2

\* Those TimerSR wakes are w, or nobody.
LEMMA Woken ==
  ASSUME NEW w, NEW rp, NEW st, NEW rq, NEW a, NEW pp, NEW aq, NEW pg, NEW sp,
         Core(w, rp, st, rq, a, pp, aq, pg, sp), NEW W,
         W \subseteq {p \in Pids : st[p] = "SLEEP"}, NEW batch \in InOrder(W),
         NEW st2, st2 = [p \in Pids |-> IF p \in W THEN "READY" ELSE st[p]]
  PROVE  /\ Core(w, rp, st2, EnQueAll(rq, batch), a, pp, aq, pg, sp)
         /\ \A p \in Pids : st2[p] = "IO_WAIT" <=> st[p] = "IO_WAIT"
<1> USE PidFacts
<1>1. Scene(w, rp, st, rq, a, pp)
  BY DEF Core
<1>2. w \in Users /\ st \in [Pids -> States] /\ \A p \in Pids : st[p] \in {"SLEEP", "IO_WAIT"} => p = w
  BY <1>1, SceneStates
<1>3. rq \in Seq(Pids) /\ Len(rq) <= 2
  BY <1>1, SceneQueue
<1>4. W = {} \/ (W = {w} /\ st[w] = "SLEEP")
  BY <1>2
<1>5. IsFiniteSet(W) /\ W \subseteq Int
  BY <1>4, FS_Subset
<1>6. batch \in Seq(W) /\ Holds(batch, W)
  BY <1>5, InOrderHolds
<1>7. CASE W = {}
  <2>1. batch = << >>
    BY <1>6, <1>7, HoldsCells
  <2>2. EnQueAll(rq, batch) = rq
    <3>1. rq \o << >> = rq
      BY <1>3
    <3>2. Len(rq \o << >>) <= QUE_MAX
      BY <1>3, <3>1
    <3> QED
      BY <2>1, <3>1, <3>2 DEF EnQueAll
  <2>3. st2 = st
    BY <1>2, <1>7
  <2> QED
    BY <2>2, <2>3
<1>8. CASE W = {w} /\ st[w] = "SLEEP"
  <2>1. batch = <<w>>
    <3>1. batch \in [1..1 -> {w}]
      <4>1. Cardinality(W) = 1
        BY <1>8, FS_Singleton
      <4> QED
        BY <1>8, <4>1 DEF InOrder
    <3>2. batch \in Seq({w}) /\ Len(batch) = 1 /\ batch[1] = w
      <4>1. batch \in Seq({w}) /\ Len(batch) \in Nat /\ DOMAIN batch = 1..Len(batch)
        BY <1>6, <1>8, LenProperties
      <4>2. 1..Len(batch) = 1..1
        BY <3>1, <4>1
      <4> QED
        BY <3>1, <4>1, <4>2
    <3>3. <<w>> \in Seq({w}) /\ Len(<<w>>) = 1 /\ <<w>>[1] = w
      OBVIOUS
    <3>4. \A q \in Seq({w}) : Len(q) = 1 => q[1] = w
      OBVIOUS
    <3> QED
      BY <3>2, <3>3, SeqEqual
  <2>2. rq = << >>
    BY <1>1, <1>2, <1>8 DEF Scene, Alone, Paired, First, Second
  <2>3. EnQueAll(rq, batch) = EnQue(rq, w)
    <3>1. << >> \o <<w>> = <<w>> /\ Len(<<w>>) = 1
      OBVIOUS
    <3> QED
      BY <2>1, <2>2, <3>1, EnQueShort DEF EnQueAll
  <2>4. st2 = [st EXCEPT ![w] = "READY"]
    BY <1>2, <1>8
  <2>5. Core(w, rp, [st EXCEPT ![w] = "READY"], EnQue(rq, w), a, pp, aq, pg, sp)
    BY <1>8, CoreWakes
  <2>6. \A p \in Pids : st2[p] = "IO_WAIT" <=> st[p] = "IO_WAIT"
    BY <1>2, <1>8, <2>4
  <2> QED
    BY <2>3, <2>4, <2>5, <2>6
<1> QED
  BY <1>4, <1>7, <1>8

\* SysWrite finds nobody waiting, and no character under way.
LEMMA Writes ==
  ASSUME NEW w, Now(w), run_pid = w, state[w] = "RUN", StepsOn(w, at, at'), SysWrite,
         UNCHANGED <<family, wake_in>>
  PROVE  Kernel' /\ keys' \in 0..AHEAD /\ Line(state', tty', thr', txrdy')
<1>1. /\ w \in Users /\ Core(w, w, state, ready_que, at, ppid, avail_que, page, space)
      /\ wake_in' \in [Pids -> 0..NAP] /\ keys \in 0..AHEAD /\ Line(state, tty, thr, txrdy)
  BY DEF Now
<1> DEFINE st2 == [state EXCEPT ![w] = "IO_WAIT"]
<1>2. Core(w, NONE, st2, ready_que, at', ppid, avail_que, page, space)
  BY <1>1, CoreBlocks
<1>3. Core(w, NONE, st2, ready_que, at', ppid', avail_que', page', space')
  BY <1>2 DEF family
<1>4. state \in [Pids -> States] /\ \A p \in Pids : state[p] \in {"SLEEP", "IO_WAIT"} => p = w
  <2>1. Scene(w, w, state, ready_que, at, ppid)
    BY <1>1 DEF Core
  <2> QED
    BY <2>1, SceneStates
<1>5. tty.wait_que = << >> /\ thr = FALSE /\ txrdy \in BOOLEAN
  BY <1>1, <1>4, PidFacts DEF Line, Waits
<1>6. PICK n \in 1..TEXT_MAX :
        TTYSR(NONE, [str |-> [of |-> w, left |-> n], wait_que |-> <<w>>],
              st2, ready_que, txrdy, 0)
  BY <1>5, EnQueShort DEF SysWrite
<1> DEFINE t == [str |-> [of |-> w, left |-> n], wait_que |-> <<w>>]
<1>7. /\ t \in [str : [of : Pids \cup {NONE}, left : 0..TEXT_MAX], wait_que : Seq(Pids)]
      /\ t.wait_que = <<t.str.of>> /\ t.str.of = w
  BY <1>1, PidFacts
<1>8. \A p \in Pids : st2[p] = "IO_WAIT" <=> p = w
  BY <1>1, <1>4, PidFacts
<1>9. Waits(st2, t)
  <2> HIDE DEF t, st2
  <2> QED
    BY <1>1, <1>7, <1>8, PidFacts DEF Waits
<1> HIDE DEF t, st2
<1>10. TTYSR(NONE, t, st2, ready_que, txrdy, 0)
  BY <1>6 DEF t
<1>11. NONE \in Pids \cup {NONE} /\ (NONE > IDLE => 0 \in 0..BURST)
  BY PidFacts
<1> QED
  BY <1>1, <1>3, <1>5, <1>9, <1>10, <1>11, Serves

\* PlainCalls in the present state.
LEMMA WorksOn ==
  ASSUME NEW w, Core(w, run_pid, state, ready_que, at, ppid, avail_que, page, space),
         InText(Text, at), run_pid \in Users,
         Call(Text, at, run_pid) \in {"write", "read", "sleep", "get_rand"},
         Steps(at, run_pid, at') \/ (at' = at /\ Call(Text, at, run_pid) = "read")
  PROVE  /\ run_pid = w /\ state[w] = "RUN" /\ StepsOn(w, at, at') /\ InText(Text, at')
         /\ Call(Text, at, run_pid) \in {"read", "sleep"} => at[w][2] # 1
         /\ (ready_que = << >> \/ Call(Text, at, run_pid) \in {"write", "get_rand"})
BY TextFollows, PlainCalls, SMTT(30)

LEMMA ProgramWritesKeeps ==
  ASSUME NEW w, Now(w), ProgramWrites PROVE IInv'
<1>1. /\ Core(w, run_pid, state, ready_que, at, ppid, avail_que, page, space)
      /\ run_pid \in Pids /\ Placed(at) /\ InText(Text, at)
  BY DEF Now
<1>2. run_pid \in Users /\ Call(Text, at, run_pid) = "write" /\ Steps(at, run_pid, at')
  BY <1>1, CallsRunning, BehindSteps DEF ProgramWrites
<1>3. run_pid = w /\ state[w] = "RUN" /\ StepsOn(w, at, at') /\ InText(Text, at')
  BY <1>1, <1>2, WorksOn
<1>4. Kernel' /\ keys' \in 0..AHEAD /\ Line(state', tty', thr', txrdy')
  BY <1>3, Writes DEF ProgramWrites
<1>5. reader' \in [echoes : BOOLEAN, index : 0..(STR_MAX - 2)]
  BY DEF ProgramWrites, Now
<1> QED
  BY <1>3, <1>4, <1>5 DEF IInv

LEMMA ReaderEchoesKeeps ==
  ASSUME NEW w, Now(w), ReaderEchoes PROVE IInv'
<1>1. /\ Core(w, run_pid, state, ready_que, at, ppid, avail_que, page, space)
      /\ run_pid \in Pids /\ Placed(at) /\ InText(Text, at)
      /\ reader \in [echoes : BOOLEAN, index : 0..(STR_MAX - 2)]
  BY DEF Now
<1>2. run_pid \in Users /\ Call(Text, at, run_pid) = "read"
  BY <1>1, CallsRunning DEF ReaderEchoes
<1>3. Steps(at, run_pid, at') \/ (at' = at /\ Call(Text, at, run_pid) = "read")
  BY <1>1, <1>2, BehindSteps DEF ReaderEchoes
<1>4. run_pid = w /\ state[w] = "RUN" /\ StepsOn(w, at, at') /\ InText(Text, at')
  BY <1>1, <1>2, <1>3, WorksOn
<1>5. Kernel' /\ keys' \in 0..AHEAD /\ Line(state', tty', thr', txrdy')
  BY <1>4, Writes DEF ReaderEchoes
<1>6. reader' \in [echoes : BOOLEAN, index : 0..(STR_MAX - 2)]
  <2>1. STR_MAX \in Nat \ {0, 1} /\ reader.index \in 0..(STR_MAX - 2)
    BY <1>1, TeletypeAssumption
  <2>2. 0 \in 0..(STR_MAX - 2) /\ (reader.index + 1 # STR_MAX - 1 => reader.index + 1 \in 0..(STR_MAX - 2))
    BY <2>1
  <2>3. \/ reader' = [echoes |-> FALSE, index |-> 0]
        \/ reader.index + 1 # STR_MAX - 1 /\ reader' = [echoes |-> FALSE, index |-> reader.index + 1]
    BY DEF ReaderEchoes, LastOfLine
  <2>4. \A n \in 0..(STR_MAX - 2) :
          [echoes |-> FALSE, index |-> n] \in [echoes : BOOLEAN, index : 0..(STR_MAX - 2)]
    OBVIOUS
  <2>5. \E n \in 0..(STR_MAX - 2) : reader' = [echoes |-> FALSE, index |-> n]
    BY <2>2, <2>3
  <2> QED
    BY <2>4, <2>5
<1> QED
  BY <1>4, <1>5, <1>6 DEF IInv

LEMMA SysGetRandKeeps ==
  ASSUME NEW w, Now(w), SysGetRand PROVE IInv'
<1>1. /\ w \in Users /\ Core(w, run_pid, state, ready_que, at, ppid, avail_que, page, space)
      /\ run_pid \in Pids /\ Placed(at) /\ InText(Text, at)
      /\ wake_in' \in [Pids -> 0..NAP] /\ keys \in 0..AHEAD /\ Line(state, tty, thr, txrdy)
  BY DEF Now, SysGetRand
<1>2. run_pid \in Users /\ Call(Text, at, run_pid) = "get_rand" /\ Steps(at, run_pid, at')
  BY <1>1, CallsRunning, BehindSteps DEF SysGetRand
<1>11. Call(Text, at, run_pid) \in {"write", "read", "sleep", "get_rand"}
  BY <1>2
<1>3. run_pid = w /\ state[w] = "RUN" /\ StepsOn(w, at, at') /\ InText(Text, at')
  BY <1>1, <1>2, <1>11, WorksOn
<1> DEFINE st2 == [state EXCEPT ![w] = "READY"]
<1>4. Core(w, NONE, st2, EnQue(ready_que, w), at', ppid, avail_que, page, space)
  BY <1>1, <1>3, CoreYields
<1>5. Core(w, NONE, st2, EnQue(ready_que, w), at', ppid', avail_que', page', space')
  BY <1>4 DEF SysGetRand, family
<1>6. Dispatch(NONE, st2, EnQue(ready_que, w), 0) /\ UNCHANGED port
  BY <1>3 DEF SysGetRand, Demote
<1>7. \A p \in Pids : st2[p] = "IO_WAIT" <=> state[p] = "IO_WAIT"
  BY <1>1, <1>3, PidFacts, SceneStates DEF Core
<1> HIDE DEF st2
<1>8. Kernel' /\ keys' \in 0..AHEAD /\ Kept(st2, state')
  BY <1>1, <1>5, <1>6, PidFacts, KernelReturns
<1>9. Line(state', tty', thr', txrdy')
  BY <1>1, <1>6, <1>7, <1>8, LineKept
<1>10. reader' \in [echoes : BOOLEAN, index : 0..(STR_MAX - 2)]
  BY DEF SysGetRand, Now
<1> QED
  BY <1>3, <1>8, <1>9, <1>10 DEF IInv

\* sys_sleep, of ShellRoll and of a reader that finds no key.
LEMMA SleepKeeps ==
  ASSUME NEW w, Now(w), ReaderSleeps \/ ProgramSleeps PROVE IInv'
<1>1. /\ w \in Users /\ Core(w, run_pid, state, ready_que, at, ppid, avail_que, page, space)
      /\ run_pid \in Pids /\ Placed(at) /\ InText(Text, at) /\ wake_in \in [Pids -> 0..NAP]
      /\ keys \in 0..AHEAD /\ Line(state, tty, thr, txrdy)
      /\ reader \in [echoes : BOOLEAN, index : 0..(STR_MAX - 2)]
  BY DEF Now
<1>2. /\ run_pid \in Users /\ Call(Text, at, run_pid) \in {"read", "sleep"}
      /\ Steps(at, run_pid, at') \/ (at' = at /\ Call(Text, at, run_pid) = "read")
  BY <1>1, CallsRunning, BehindSteps DEF ReaderSleeps, ProgramSleeps, SysSleep
<1>3. /\ wake_in' = [wake_in EXCEPT ![run_pid] = NAP]
      /\ Leave([state EXCEPT ![run_pid] = "SLEEP"], ready_que)
      /\ UNCHANGED <<family, reader, port>>
  BY DEF ReaderSleeps, ProgramSleeps, SysSleep
<1>4. /\ run_pid = w /\ state[w] = "RUN" /\ StepsOn(w, at, at') /\ InText(Text, at')
      /\ at[w][2] # 1
  <2>1. Call(Text, at, run_pid) \in {"write", "read", "sleep", "get_rand"}
    BY <1>2
  <2> QED
    BY <1>1, <1>2, <2>1, WorksOn
<1> DEFINE st2 == [state EXCEPT ![w] = "SLEEP"]
<1>5. Core(w, NONE, st2, ready_que, at', ppid, avail_que, page, space)
  BY <1>1, <1>4, CoreBlocks
<1>6. Core(w, NONE, st2, ready_que, at', ppid', avail_que', page', space')
  BY <1>3, <1>5 DEF family
<1>7. Dispatch(NONE, st2, ready_que, 0) /\ UNCHANGED port
  BY <1>3, <1>4 DEF Leave
<1>8. wake_in' \in [Pids -> 0..NAP]
  BY <1>1, <1>3, TeletypeAssumption
<1>9. \A p \in Pids : st2[p] = "IO_WAIT" <=> state[p] = "IO_WAIT"
  BY <1>1, <1>4, PidFacts, SceneStates DEF Core
<1> HIDE DEF st2
<1>10. Kernel' /\ keys' \in 0..AHEAD /\ Kept(st2, state')
  BY <1>1, <1>6, <1>7, <1>8, PidFacts, KernelReturns
<1>11. Line(state', tty', thr', txrdy')
  BY <1>1, <1>7, <1>9, <1>10, LineKept
<1> QED
  BY <1>1, <1>3, <1>4, <1>10, <1>11 DEF IInv

LEMMA SysVForkKeeps ==
  ASSUME NEW w, Now(w), SysVFork PROVE IInv'
<1>1. /\ w \in Users /\ Core(w, run_pid, state, ready_que, at, ppid, avail_que, page, space)
      /\ run_pid \in Pids /\ Placed(at) /\ InText(Text, at)
      /\ wake_in' \in [Pids -> 0..NAP] /\ keys \in 0..AHEAD /\ Line(state, tty, thr, txrdy)
      /\ UNCHANGED port /\ reader' \in [echoes : BOOLEAN, index : 0..(STR_MAX - 2)]
  BY DEF Now, SysVFork
<1>2. run_pid \in Users /\ Call(Text, at, run_pid) = "vfork" /\ avail_que # << >>
  BY <1>1, CallsRunning DEF SysVFork, QueEmpty
<1> DEFINE f == Head(avail_que)
           rp == run_pid
           st2 == [[state EXCEPT ![f] = "READY"] EXCEPT ![rp] = "READY"]
           rq2 == EnQue(EnQue(ready_que, f), rp)
<1>3. PICK b \in Behind, g \in Started(at[rp][1]) : at' = [b EXCEPT ![f] = <<g, 1>>]
  BY DEF SysVFork, Place
<1>4. Steps(at, rp, b)
  <2>1. PICK n \in Onward(at[rp][1], at[rp][2]) : b = [at EXCEPT ![rp][2] = n]
    BY DEF Behind, Place
  <2>2. at[rp] \in Programs \X Nat
    BY <1>1 DEF Placed
  <2>3. [at[rp] EXCEPT ![2] = n] = <<at[rp][1], n>>
    BY <2>2
  <2>4. [at EXCEPT ![rp][2] = n] = [at EXCEPT ![rp] = [at[rp] EXCEPT ![2] = n]]
    OBVIOUS
  <2> QED
    BY <2>1, <2>3, <2>4 DEF Steps
<1>5. Allocated \in SUBSET Pages /\ \A n \in Allocated : page[n] = NONE
  BY DEF Allocated
<1>6. /\ ppid' = [ppid EXCEPT ![f] = rp] /\ avail_que' = Tail(avail_que)
      /\ page' = Given(page, Allocated, f) /\ space' = Moved(space, Allocated, f)
      /\ Dispatch(NONE, st2, rq2, 0)
  BY <1>2 DEF SysVFork, Demote, AfterDeQue, QueEmpty, Given, Moved
<1>7. /\ f \in Pids /\ state[f] = "AVAIL" /\ f # Login /\ rp = w
      /\ InText(Text, at')
      /\ Core(f, NONE, st2, rq2, at', ppid', avail_que', page', space')
  <2> HIDE DEF f, rp
  <2>1. /\ Core(w, rp, state, ready_que, at, ppid, avail_que, page, space)
        /\ rp \in Users /\ Call(Text, at, rp) = "vfork"
    BY <1>1, <1>2 DEF rp
  <2>2. LET a2 == [b EXCEPT ![f] = <<g, 1>>]
        IN  /\ f \in Pids /\ state[f] = "AVAIL" /\ f # Login /\ rp = w
            /\ InText(Text, a2)
            /\ Core(f, NONE, st2, rq2, a2, [ppid EXCEPT ![f] = rp], Tail(avail_que),
                    Given(page, Allocated, f), Moved(space, Allocated, f))
    <3>1. Steps(at, rp, b) /\ g \in Started(at[rp][1])
      BY <1>3, <1>4 DEF rp
    <3>2. Forked(Text, w, rp, state, ready_que, at, ppid, avail_que, page, space, b, g, Allocated)
      BY <1>1, <1>2, <1>5, <2>1, <3>1, TextFollows, CoreForks
    <3> QED
      BY <3>2 DEF Forked, f, st2, rq2
  <2> QED
    BY <1>3, <1>6, <2>2
<1>8. \A p \in Pids : st2[p] = "IO_WAIT" <=> state[p] = "IO_WAIT"
  <2>1. state \in [Pids -> States] /\ state[w] = "RUN"
    <3>1. Scene(w, w, state, ready_que, at, ppid)
      BY <1>1, <1>7 DEF Core
    <3> QED
      BY <3>1, SceneStates, SceneRuns
  <2> HIDE DEF f, rp
  <2> QED
    BY <1>7, <2>1
<1>9. f \in Users
  BY <1>7 DEF Core, Scene
<1> HIDE DEF st2, rq2, f, rp
<1>10. Kernel' /\ keys' \in 0..AHEAD /\ Kept(st2, state')
  BY <1>1, <1>6, <1>7, <1>9, PidFacts, KernelReturns
<1>11. Line(state', tty', thr', txrdy')
  BY <1>1, <1>8, <1>10, LineKept
<1> QED
  BY <1>1, <1>7, <1>10, <1>11 DEF IInv

LEMMA SysExitKeeps ==
  ASSUME NEW w, Now(w), SysExit PROVE IInv'
<1> DEFINE rp == run_pid
<1>1. /\ w \in Users /\ Core(w, rp, state, ready_que, at, ppid, avail_que, page, space)
      /\ rp \in Pids /\ Placed(at) /\ InText(Text, at)
      /\ wake_in' \in [Pids -> 0..NAP] /\ keys \in 0..AHEAD /\ Line(state, tty, thr, txrdy)
      /\ UNCHANGED port /\ reader' \in [echoes : BOOLEAN, index : 0..(STR_MAX - 2)]
      /\ UNCHANGED <<at, ppid, space>> /\ page' = Freed(page, rp)
  BY DEF Now, SysExit, Reclaimed, Freed
<1>2. rp \in Users /\ Call(Text, at, rp) = "exit"
  BY <1>1, CallsRunning DEF SysExit
<1>3. state \in [Pids -> States] /\ state[rp] # "IO_WAIT"
  <2>1. Scene(w, rp, state, ready_que, at, ppid)
    BY <1>1 DEF Core
  <2>2. state \in [Pids -> States]
    BY <2>1, SceneStates
  <2>3. Turn(w, rp, state, ready_que, at, "exit")
    BY <1>1, <1>2, <2>1, PidFacts, TextFollows, RunsScene DEF InText
  <2> QED
    BY <2>2, <2>3 DEF Turn
<1>4. Shell \in Users /\ NONE \in Pids \cup {NONE} /\ (NONE > IDLE => 0 \in 0..BURST)
  BY PidFacts
<1>5. CASE /\ rp = w /\ w \notin {Login, Shell} /\ ppid[rp] = Shell /\ state[Shell] = "WAIT"
           /\ ready_que = << >> /\ at[Shell] = <<"Shell", 5>>
           /\ Core(Shell, NONE, [[state EXCEPT ![Shell] = "READY"] EXCEPT ![rp] = "AVAIL"],
                   EnQue(ready_que, Shell), at, ppid, EnQue(avail_que, rp), Freed(page, rp), space)
  <2> DEFINE st2 == [[state EXCEPT ![Shell] = "READY"] EXCEPT ![rp] = "AVAIL"]
             rq2 == EnQue(ready_que, Shell)
  <2>1. Dispatch(NONE, st2, rq2, 0) /\ avail_que' = EnQue(avail_que, rp)
    BY <1>5 DEF SysExit, Leave
  <2>2. \A p \in Pids : st2[p] = "IO_WAIT" <=> state[p] = "IO_WAIT"
    BY <1>1, <1>3, <1>5, PidFacts
  <2> HIDE DEF st2, rq2, rp
  <2>3. Core(Shell, NONE, st2, rq2, at', ppid', avail_que', page', space')
    BY <1>1, <1>5, <2>1 DEF st2, rq2
  <2>4. Kernel' /\ keys' \in 0..AHEAD /\ Kept(st2, state')
    BY <1>1, <1>4, <2>1, <2>3, KernelReturns
  <2>5. Line(state', tty', thr', txrdy')
    BY <1>1, <2>2, <2>4, LineKept
  <2> QED
    BY <1>1, <2>4, <2>5 DEF IInv
<1>6. CASE /\ rp = Login /\ w = Shell /\ state[ppid[rp]] # "WAIT"
           /\ Core(Shell, NONE, [state EXCEPT ![rp] = "ZOMBIE"], ready_que, at, ppid,
                   avail_que, Freed(page, rp), space)
  <2> DEFINE st2 == [state EXCEPT ![rp] = "ZOMBIE"]
  <2>1. Dispatch(NONE, st2, ready_que, 0) /\ avail_que' = avail_que
    BY <1>6 DEF SysExit, Leave
  <2>2. \A p \in Pids : st2[p] = "IO_WAIT" <=> state[p] = "IO_WAIT"
    BY <1>1, <1>3, PidFacts
  <2> HIDE DEF st2, rp
  <2>3. Core(Shell, NONE, st2, ready_que, at', ppid', avail_que', page', space')
    BY <1>1, <1>6, <2>1 DEF st2
  <2>4. Kernel' /\ keys' \in 0..AHEAD /\ Kept(st2, state')
    BY <1>1, <1>4, <2>1, <2>3, KernelReturns
  <2>5. Line(state', tty', thr', txrdy')
    BY <1>1, <2>2, <2>4, LineKept
  <2> QED
    BY <1>1, <2>4, <2>5 DEF IInv
<1>7. \/ /\ rp = w /\ w \notin {Login, Shell} /\ ppid[rp] = Shell /\ state[Shell] = "WAIT"
         /\ ready_que = << >> /\ at[Shell] = <<"Shell", 5>>
         /\ Core(Shell, NONE, [[state EXCEPT ![Shell] = "READY"] EXCEPT ![rp] = "AVAIL"],
                 EnQue(ready_que, Shell), at, ppid, EnQue(avail_que, rp), Freed(page, rp), space)
      \/ /\ rp = Login /\ w = Shell /\ state[ppid[rp]] # "WAIT"
         /\ Core(Shell, NONE, [state EXCEPT ![rp] = "ZOMBIE"], ready_que, at, ppid,
                 avail_que, Freed(page, rp), space)
  <2> HIDE DEF rp
  <2> QED
    BY <1>1, <1>2, TextFollows, CoreExits
<1> QED
  BY <1>5, <1>6, <1>7

LEMMA SysWaitKeeps ==
  ASSUME NEW w, Now(w), SysWait PROVE IInv'
<1> DEFINE rp == run_pid
           st2 == [state EXCEPT ![rp] = "WAIT"]
<1>1. /\ w \in Users /\ Core(w, rp, state, ready_que, at, ppid, avail_que, page, space)
      /\ rp \in Pids /\ Placed(at) /\ InText(Text, at)
      /\ wake_in' \in [Pids -> 0..NAP] /\ keys \in 0..AHEAD /\ Line(state, tty, thr, txrdy)
      /\ UNCHANGED port /\ reader' \in [echoes : BOOLEAN, index : 0..(STR_MAX - 2)]
      /\ UNCHANGED <<ppid, space>>
  BY DEF Now, SysWait
<1>2. rp \in Users /\ Call(Text, at, rp) = "wait" /\ Steps(at, rp, at')
  BY <1>1, CallsRunning, BehindSteps DEF SysWait
<1>3. /\ rp = Shell /\ InText(Text, at')
      /\ \A c \in Pids : ~(state[c] = "ZOMBIE" /\ ppid[c] = rp)
      /\ Core(w, NONE, st2, ready_que, at', ppid, avail_que, page, space)
  <2> HIDE DEF rp
  <2> QED
    BY <1>1, <1>2, TextFollows, CoreWaits
<1>4. Zombies(rp) = {}
  BY <1>3 DEF Zombies
<1>5. Dispatch(NONE, st2, ready_que, 0) /\ UNCHANGED <<avail_que, page>>
  BY <1>4 DEF SysWait, Leave
<1>6. \A p \in Pids : st2[p] = "IO_WAIT" <=> state[p] = "IO_WAIT"
  <2>1. Scene(w, rp, state, ready_que, at, ppid)
    BY <1>1 DEF Core
  <2>2. state \in [Pids -> States]
    BY <2>1, SceneStates
  <2>3. Turn(w, rp, state, ready_que, at, "wait")
    BY <1>1, <1>2, <2>1, TextFollows, RunsScene DEF InText
  <2>4. state[rp] # "IO_WAIT"
    BY <2>3 DEF Turn
  <2> QED
    BY <2>2, <2>4
<1>7. NONE \in Pids \cup {NONE} /\ (NONE > IDLE => 0 \in 0..BURST)
  BY PidFacts
<1> HIDE DEF st2, rp
<1>8. Core(w, NONE, st2, ready_que, at', ppid', avail_que', page', space')
  BY <1>1, <1>3, <1>5
<1>9. Kernel' /\ keys' \in 0..AHEAD /\ Kept(st2, state')
  BY <1>1, <1>5, <1>7, <1>8, KernelReturns
<1>10. Line(state', tty', thr', txrdy')
  BY <1>1, <1>6, <1>9, LineKept
<1> QED
  BY <1>1, <1>3, <1>9, <1>10 DEF IInv

LEMMA TTYEventKeeps ==
  ASSUME NEW w, Now(w), TTYEvent PROVE IInv'
<1>1. /\ w \in Users /\ Core(w, run_pid, state, ready_que, at, ppid, avail_que, page, space)
      /\ run_pid \in Pids /\ time_count \in 0..BURST /\ InText(Text, at)
      /\ wake_in' \in [Pids -> 0..NAP] /\ keys \in 0..AHEAD /\ Line(state, tty, thr, txrdy)
      /\ txrdy /\ TTYSR(run_pid, tty, state, ready_que, FALSE, time_count)
      /\ UNCHANGED <<family, at>> /\ reader' \in [echoes : BOOLEAN, index : 0..(STR_MAX - 2)]
  BY DEF Now, TTYEvent
<1>2. Waits(state, tty) /\ thr = FALSE
  BY <1>1 DEF Line
<1>3. Core(w, run_pid, state, ready_que, at', ppid', avail_que', page', space')
  BY <1>1 DEF family
<1>4. Kernel' /\ keys' \in 0..AHEAD /\ Line(state', tty', thr', txrdy')
  BY <1>1, <1>2, <1>3, Serves
<1> QED
  BY <1>1, <1>4 DEF IInv

LEMMA TimerSRKeeps ==
  ASSUME NEW w, Now(w), TimerSR PROVE IInv'
<1> DEFINE W == {p \in Pids : state[p] = "SLEEP" /\ wake_in[p] = 1}
           st2 == [p \in Pids |-> IF p \in W THEN "READY" ELSE state[p]]
<1>1. /\ w \in Users /\ Core(w, run_pid, state, ready_que, at, ppid, avail_que, page, space)
      /\ run_pid \in Pids /\ time_count \in 0..BURST /\ InText(Text, at)
      /\ keys \in 0..AHEAD /\ Line(state, tty, thr, txrdy) /\ UNCHANGED <<family, at, reader, port>>
      /\ reader' \in [echoes : BOOLEAN, index : 0..(STR_MAX - 2)]
      /\ run_pid # IDLE => time_count < BURST
  BY DEF Now, TimerSR
<1>2. wake_in' \in [Pids -> 0..NAP]
  BY WakeTimes DEF Now, TimerSR
<1>3. PICK batch \in InOrder(W) :
        LET rq == EnQueAll(ready_que, batch)
        IN IF run_pid = IDLE THEN Dispatch(IDLE, st2, rq, 0)
           ELSE IF time_count + 1 = TIME_MAX THEN Demote(st2, rq)
           ELSE Dispatch(run_pid, st2, rq, time_count + 1)
  BY DEF TimerSR
<1> DEFINE rq2 == EnQueAll(ready_que, batch)
<1>4. /\ Core(w, run_pid, st2, rq2, at, ppid, avail_que, page, space)
      /\ \A p \in Pids : st2[p] = "IO_WAIT" <=> state[p] = "IO_WAIT"
  <2>1. W \subseteq {p \in Pids : state[p] = "SLEEP"}
    OBVIOUS
  <2> HIDE DEF W
  <2> QED
    BY <1>1, <2>1, Woken
<1>5. \E ticks : Dispatch(run_pid, st2, rq2, ticks) /\ (run_pid > IDLE => ticks \in 0..BURST)
  <2>1. BURST \in Nat /\ TIME_MAX \in Nat /\ BURST < TIME_MAX
    BY TeletypeAssumption
  <2>2. CASE run_pid = IDLE
    <3>1. Dispatch(run_pid, st2, rq2, 0)
      BY <1>3, <2>2
    <3> QED
      BY <2>2, <3>1, PidFacts
  <2>3. CASE run_pid # IDLE
    <3>1. time_count + 1 \in 0..BURST /\ time_count + 1 # TIME_MAX
      BY <1>1, <2>1, <2>3
    <3>2. Dispatch(run_pid, st2, rq2, time_count + 1)
      BY <1>3, <2>3, <3>1
    <3> QED
      BY <3>1, <3>2
  <2> QED
    BY <2>2, <2>3
<1> HIDE DEF W, st2, rq2
<1>6. Core(w, run_pid, st2, rq2, at', ppid', avail_que', page', space')
  BY <1>1, <1>4 DEF family
<1>7. Kernel' /\ keys' \in 0..AHEAD /\ Kept(st2, state')
  BY <1>1, <1>2, <1>5, <1>6, KernelReturns
<1>8. Line(state', tty', thr', txrdy')
  BY <1>1, <1>4, <1>7, LineKept
<1> QED
  BY <1>1, <1>7, <1>8 DEF IInv

\* A step that leaves the kernel's tables alone.
LEMMA KernelStays ==
  ASSUME NEW w, Now(w), UNCHANGED <<sched, family, wake_in, at>>
  PROVE  Kernel' /\ InText(Text, at')
<1>1. /\ w \in Users /\ Core(w, run_pid, state, ready_que, at, ppid, avail_que, page, space)
      /\ run_pid \in Pids /\ time_count \in 0..BURST /\ wake_in \in [Pids -> 0..NAP]
      /\ InText(Text, at)
  BY DEF Now
<1>2. Core(w, run_pid', state', ready_que', at', ppid', avail_que', page', space')
  BY <1>1 DEF sched, family
<1> QED
  BY <1>1, <1>2 DEF Kernel, sched

LEMMA OutsideKeeps ==
  ASSUME NEW w, Now(w), CharacterGoes \/ ReaderTakesKey \/ UNCHANGED vars PROVE IInv'
<1>1. /\ Line(state, tty, thr, txrdy) /\ keys \in 0..AHEAD
      /\ reader \in [echoes : BOOLEAN, index : 0..(STR_MAX - 2)]
  BY DEF Now
<1>2. UNCHANGED <<sched, family, wake_in, at>>
  BY DEF CharacterGoes, ReaderTakesKey, vars
<1>3. Kernel' /\ InText(Text, at') /\ state' = state
  BY <1>2, KernelStays DEF sched
<1>4. CASE CharacterGoes
  <2>1. tty.wait_que # << >>
    BY <1>1, <1>4 DEF CharacterGoes, Line
  <2>2. /\ thr' = FALSE /\ txrdy' = TRUE
        /\ UNCHANGED tty /\ UNCHANGED keys /\ UNCHANGED reader
    BY <1>4 DEF CharacterGoes
  <2>3. Line(state', tty', thr', txrdy')
    BY <1>1, <1>3, <2>1, <2>2 DEF Line
  <2> QED
    BY <1>1, <1>3, <2>2, <2>3 DEF IInv
<1>5. CASE ReaderTakesKey
  <2>1. /\ keys > 0 /\ keys' = keys - 1
        /\ reader' = [reader EXCEPT !.echoes = TRUE] /\ UNCHANGED port
    BY <1>5 DEF ReaderTakesKey
  <2>2. keys' \in 0..AHEAD
    BY <1>1, <2>1, TeletypeAssumption
  <2>3. reader' \in [echoes : BOOLEAN, index : 0..(STR_MAX - 2)]
    BY <1>1, <2>1
  <2>4. Line(state', tty', thr', txrdy')
    BY <1>1, <1>3, <2>1 DEF port
  <2> QED
    BY <1>3, <2>2, <2>3, <2>4 DEF IInv
<1>6. CASE UNCHANGED vars
  <2>1. UNCHANGED port /\ UNCHANGED keys /\ UNCHANGED reader
    BY <1>6 DEF vars
  <2>2. Line(state', tty', thr', txrdy')
    BY <1>1, <1>3, <2>1 DEF port
  <2> QED
    BY <1>1, <1>3, <2>1, <2>2 DEF IInv
<1> QED
  BY <1>4, <1>5, <1>6

LEMMA TeletypeNext == IInv /\ [Next]_vars => IInv'
<1> SUFFICES ASSUME IInv, [Next]_vars PROVE IInv'
  OBVIOUS
<1>1. PICK w : Now(w)
  BY NowExists
<1>2. CASE TimerSR
  BY <1>1, <1>2, TimerSRKeeps
<1>3. CASE TTYEvent
  BY <1>1, <1>3, TTYEventKeeps
<1>4. CASE CharacterGoes \/ ReaderTakesKey \/ UNCHANGED vars
  BY <1>1, <1>4, OutsideKeeps
<1>5. CASE ProgramWrites
  BY <1>1, <1>5, ProgramWritesKeeps
<1>6. CASE ReaderSleeps \/ ProgramSleeps
  BY <1>1, <1>6, SleepKeeps
<1>7. CASE SysGetRand
  BY <1>1, <1>7, SysGetRandKeeps
<1>8. CASE SysVFork
  BY <1>1, <1>8, SysVForkKeeps
<1>9. CASE SysExit
  BY <1>1, <1>9, SysExitKeeps
<1>10. CASE SysWait
  BY <1>1, <1>10, SysWaitKeeps
<1>11. CASE ReaderEchoes
  BY <1>1, <1>11, ReaderEchoesKeeps
<1> QED
  BY <1>2, <1>3, <1>4, <1>5, <1>6, <1>7, <1>8, <1>9, <1>10, <1>11 DEF Next, Runs


\* The queues of the scene: no pid is in two of them.
LEMMA QueuesApart ==
  ASSUME NEW w, NEW rp, NEW st, NEW rq, NEW a, NEW pp, Scene(w, rp, st, rq, a, pp),
         NEW aq, Pool(w, st, aq)
  PROVE  rq \o aq \in Seq(Pids) /\ Holds(rq \o aq, {p \in Users : st[p] \in {"READY", "AVAIL"}})
<1> DEFINE R == {p \in Users : st[p] = "READY"}
           A == {p \in Pids : st[p] = "AVAIL"}
<1>1. rq \in Seq(Pids) /\ Holds(rq, R)
  BY SceneQueue
<1>2. aq \in Seq(Pids) /\ Holds(aq, A)
  BY DEF Pool
<1>3. R \cap A = {}
  OBVIOUS
<1>4. R \cup A = {p \in Users : st[p] \in {"READY", "AVAIL"}}
  <2>1. st[IDLE] # "AVAIL"
    BY DEF Scene, Cast
  <2>2. Users \subseteq Pids /\ \A p \in Pids : p # IDLE => p \in Users
    BY PidFacts
  <2> QED
    BY <2>1, <2>2
<1> HIDE DEF R, A
<1> QED
  BY <1>1, <1>2, <1>3, <1>4, HoldsConcat

LEMMA TeletypeTypes == ASSUME IInv PROVE TypeOK
<1>1. /\ run_pid \in Pids /\ time_count \in 0..BURST /\ wake_in \in [Pids -> 0..NAP]
      /\ Line(state, tty, thr, txrdy) /\ InText(Text, at)
      /\ keys \in 0..AHEAD /\ reader \in [echoes : BOOLEAN, index : 0..(STR_MAX - 2)]
  BY DEF IInv, Kernel
<1>2. PICK w \in Users :
        Core(w, run_pid, state, ready_que, at, ppid, avail_que, page, space)
  BY DEF IInv, Kernel
<1>3. /\ Scene(w, run_pid, state, ready_que, at, ppid) /\ Pool(w, state, avail_que)
      /\ ppid \in [Pids -> Pids]
      /\ page \in [Pages -> Pids \cup {NONE}] /\ space \in [Pids -> SUBSET Pages]
  BY <1>2 DEF Core, Owned
<1>4. state \in [Pids -> States]
  BY <1>3, SceneStates
<1>5. /\ tty.str \in [of : Pids \cup {NONE}, left : 0..TEXT_MAX]
      /\ thr \in BOOLEAN /\ txrdy \in BOOLEAN
      /\ tty.wait_que \in Seq(Pids)
      /\ Holds(tty.wait_que, {p \in Pids : state[p] = "IO_WAIT"})
  <2>1. /\ tty.str \in [of : Pids \cup {NONE}, left : 0..TEXT_MAX]
        /\ thr \in BOOLEAN /\ txrdy \in BOOLEAN /\ tty.wait_que \in Seq(Pids)
    BY <1>1 DEF Line, Waits
  <2>2. CASE tty.wait_que = << >>
    <3>1. {p \in Pids : state[p] = "IO_WAIT"} = {}
      BY <1>1, <2>2 DEF Line, Waits
    <3> QED
      BY <2>1, <2>2, <3>1, HoldsEmpty
  <2>3. CASE tty.wait_que # << >>
    <3>1. tty.wait_que = <<tty.str.of>> /\ tty.str.of \in Pids
          /\ \A p \in Pids : state[p] = "IO_WAIT" <=> p = tty.str.of
      BY <1>1, <2>3 DEF Line, Waits
    <3>2. {p \in Pids : state[p] = "IO_WAIT"} = {tty.str.of}
      BY <3>1
    <3>3. Holds(<<tty.str.of>>, {tty.str.of})
      BY <3>1, HoldsOne
    <3> QED
      BY <2>1, <3>1, <3>2, <3>3
  <2> QED
    BY <2>2, <2>3
<1> DEFINE q == ready_que \o avail_que
           B == {p \in Users : state[p] \in {"READY", "AVAIL"}}
           W == {p \in Pids : state[p] = "IO_WAIT"}
<1>6. q \in Seq(Pids) /\ Holds(q, B)
  BY <1>3, QueuesApart
<1>7. B \cap W = {} /\ B \subseteq Pids /\ W \subseteq Pids
  BY PidFacts
<1>8. Holds(q \o tty.wait_que, B \cup W)
  <2> HIDE DEF q, B, W
  <2> QED
    BY <1>5, <1>6, <1>7, HoldsConcat DEF W
<1>9. /\ IsInjective(q \o tty.wait_que) /\ Range(q \o tty.wait_que) \subseteq Pids
  <2> HIDE DEF q, B, W
  <2> QED
    BY <1>7, <1>8 DEF Holds
<1>10. \A p \in Pids : at[p][2] \in DOMAIN Text[at[p][1]]
  BY <1>1 DEF InText
<1> QED
  BY <1>1, <1>3, <1>4, <1>5, <1>9, <1>10 DEF TypeOK, States

LEMMA TeletypeOneString == ASSUME IInv PROVE OneStringAtATime
<1>1. Line(state, tty, thr, txrdy)
  BY DEF IInv
<1>2. CASE tty.wait_que = << >>
  <2>1. {p \in Pids : state[p] = "IO_WAIT"} = {} /\ ~thr
    BY <1>1, <1>2 DEF Line, Waits
  <2>2. Range(tty.wait_que) = {}
    BY <1>2, HoldsEmpty DEF Holds
  <2> QED
    BY <1>2, <2>1, <2>2 DEF OneStringAtATime, QueEmpty
<1>3. CASE tty.wait_que # << >>
  <2>1. /\ tty.wait_que = <<tty.str.of>> /\ tty.str.of \in Pids /\ thr # txrdy
        /\ \A p \in Pids : state[p] = "IO_WAIT" <=> p = tty.str.of
    BY <1>1, <1>3 DEF Line, Waits
  <2>2. Range(<<tty.str.of>>) = {tty.str.of}
    BY <2>1, HoldsOne DEF Holds
  <2>3. {p \in Pids : state[p] = "IO_WAIT"} = {tty.str.of}
    BY <2>1
  <2>4. Range(tty.wait_que) = {p \in Pids : state[p] = "IO_WAIT"}
    BY <2>1, <2>2, <2>3
  <2> QED
    BY <1>3, <2>1, <2>4 DEF OneStringAtATime, QueEmpty
<1> QED
  BY <1>2, <1>3

\* Only Login is ever a zombie, and its parent is Idle.
LEMMA TeletypeSpaces == ASSUME IInv PROVE SpacesIntact
<1>1. PICK w \in Users :
        Core(w, run_pid, state, ready_que, at, ppid, avail_que, page, space)
  BY DEF IInv, Kernel
<1>2. /\ Scene(w, run_pid, state, ready_que, at, ppid) /\ Owned(state, page, space)
  BY <1>1 DEF Core
<1>3. Living = Alive(state)
  BY DEF Living, Alive
<1>4. \A p \in Pids : state[p] = "ZOMBIE" => p = Login
  BY <1>2, SceneStates
<1>5. ppid[Login] = IDLE
  BY <1>2 DEF Scene
<1>6. \A p \in Living \ {IDLE} : Zombies(p) = {}
  BY <1>4, <1>5 DEF Zombies, Living
<1> QED
  BY <1>2, <1>3, <1>6 DEF SpacesIntact, Owned

\* Phase 9 keeps its tables in order: their types hold in every state, the
\* reader's index stays inside its string, and no pid is in two queues.
THEOREM TeletypeTypeCorrect == Spec => []TypeOK
<1>1. IInv => TypeOK
  BY TeletypeTypes
<1> QED
  BY <1>1, TeletypeInit, TeletypeNext, PTL DEF Spec

\* The one string pointer of tty_t suffices for the programs of phase 9: at most
\* one process writes, the pointer is its own, and while it waits exactly one of
\* a character and an interrupt is under way.
THEOREM OneStringCorrect == Spec => []OneStringAtATime
<1>1. IInv => OneStringAtATime
  BY TeletypeOneString
<1> QED
  BY <1>1, TeletypeInit, TeletypeNext, PTL DEF Spec

\* SysVFork, SysExit and SysWait of phase 9 hand out and take back whole spaces:
\* a living process owns exactly the pages it runs in, the others are free, and
\* no living process leaves a zombie uncollected.
THEOREM TeletypeSpacesCorrect == Spec => []SpacesIntact
<1>1. IInv => SpacesIntact
  BY TeletypeSpaces
<1> QED
  BY <1>1, TeletypeInit, TeletypeNext, PTL DEF Spec

-----------------------------------------------------------------------------
\* Phase 8.  The buffer of the keyboard.  Keys are counted modulo KEY_MOD, and
\* there is always room for AHEAD + 1 of them.
LEMMA VConstants ==
  ASSUME V!VirtualShellAssumption
  PROVE  /\ QUE_MAX \in Nat /\ STR_MAX \in Nat /\ STR_MAX >= 2 /\ AHEAD \in Nat /\ AHEAD < QUE_MAX
         /\ KEY_MOD \in Nat /\ KEY_MOD > AHEAD + 1 /\ V!Keys = 1..KEY_MOD
BY DEF V!VirtualShellAssumption, V!Keys

LEMMA Turns ==
  ASSUME NEW M \in Nat, M > 0, NEW x \in 0..(2 * M - 1)
  PROVE  x % M = IF x < M THEN x ELSE x - M
<1>1. CASE x < M
  BY <1>1
<1>2. CASE x >= M
  <2>1. (x - M) \in 0..(M - 1)
    BY <1>2
  <2>2. (x - M) % M = x - M
    BY <2>1
  <2>3. x % M = (x - M) % M
    BY <1>2, SMTT(30)
  <2> QED
    BY <1>2, <2>2, <2>3
<1> QED
  BY <1>1, <1>2

\* The key behind the n-th one after k, and the n-th one after the next.
LEMMA AfterNext ==
  ASSUME V!VirtualShellAssumption, NEW k \in V!Keys, NEW n \in 0..AHEAD
  PROVE  /\ V!After(k, n) \in V!Keys /\ V!After(k, n + 1) \in V!Keys
         /\ V!After(V!After(k, n), 1) = V!After(k, n + 1)
         /\ V!After(V!After(k, 1), n) = V!After(k, n + 1)
         /\ V!After(k, 0) = k
<1> DEFINE M == KEY_MOD
           R(x) == IF x < M THEN x ELSE x - M
<1>1. /\ M \in Nat /\ M > AHEAD + 1 /\ AHEAD \in Nat /\ k \in 1..M
  BY VConstants
<1>2. \A x \in 0..(2 * M - 1) : x % M = R(x)
  BY <1>1, Turns
<1> HIDE DEF M
<1>3. \A j \in 1..M : \A m \in 0..(AHEAD + 1) : V!After(j, m) = R(j + m - 1) + 1
  <2>1. ASSUME NEW j \in 1..M, NEW m \in 0..(AHEAD + 1)
        PROVE  V!After(j, m) = R(j + m - 1) + 1
    <3>1. j + m - 1 \in 0..(2 * M - 1)
      BY <1>1
    <3>2. V!After(j, m) = ((j + m - 1) % M) + 1
      BY DEF V!After, M
    <3> QED
      BY <1>2, <3>1, <3>2
  <2> QED
    BY <2>1
<1>4. \A j \in 1..M : \A m \in 0..(AHEAD + 1) : V!After(j, m) \in 1..M
  BY <1>1, <1>3
<1>5. V!Keys = 1..M
  BY VConstants DEF M
<1>6. V!After(k, n) = R(k + n - 1) + 1 /\ V!After(k, n) \in 1..M
  BY <1>1, <1>3, <1>4
<1>7. V!After(k, n + 1) = R(k + n) + 1 /\ V!After(k, n + 1) \in 1..M
  BY <1>1, <1>3, <1>4
<1>8. V!After(k, 1) = R(k) + 1 /\ V!After(k, 1) \in 1..M
  BY <1>1, <1>3, <1>4
<1>9. V!After(V!After(k, n), 1) = R(V!After(k, n)) + 1
  BY <1>1, <1>3, <1>6
<1>10. V!After(V!After(k, 1), n) = R(V!After(k, 1) + n - 1) + 1
  BY <1>1, <1>3, <1>8
<1>11. V!After(k, 0) = R(k - 1) + 1
  BY <1>1, <1>3
<1>12. V!After(V!After(k, n), 1) = V!After(k, n + 1)
  <2>1. R(R(k + n - 1) + 1) = R(k + n)
    BY <1>1
  <2> QED
    BY <1>6, <1>7, <1>9, <2>1
<1>13. V!After(V!After(k, 1), n) = V!After(k, n + 1)
  <2>1. R(R(k) + 1 + n - 1) = R(k + n)
    BY <1>1
  <2> QED
    BY <1>7, <1>8, <1>10, <2>1
<1>14. V!After(k, 0) = k
  BY <1>1, <1>11
<1> QED
  BY <1>5, <1>6, <1>7, <1>12, <1>13, <1>14

\* KBSR, while the reader is at rd: the next access of the reader, or the one it
\* has just made.
LEMMA KeyComes ==
  ASSUME V!VirtualShellAssumption, NEW rd \in Readers, NEW sn \in V!Keys,
         kb \in Buffers, Within(rd, kb), typed \in V!Keys, raced \in BOOLEAN,
         ~raced => Ordered(rd, sn, kb, typed), V!KBSR,
         rd.step \in {"lower", "clear"} => reader.step = rd.step
  PROVE  /\ kb' \in Buffers /\ Within(rd, kb') /\ typed' \in V!Keys /\ raced' \in BOOLEAN
         /\ ~raced' => Ordered(rd, sn, kb', typed')
<1>1. CASE UNCHANGED <<kb, typed, raced>>
  BY <1>1
<1>2. CASE ~UNCHANGED <<kb, typed, raced>>
  <2> DEFINE t == kb.tail
  <2>1. /\ t < AHEAD
        /\ typed' = (IF raced THEN typed ELSE V!After(typed, 1))
        /\ kb' = V!Added(kb, typed')
        /\ raced' = (raced \/ reader.step \in {"lower", "clear"})
    BY <1>2 DEF V!KBSR, V!keys
  <2>2. /\ AHEAD \in Nat /\ AHEAD < QUE_MAX /\ QUE_MAX \in Nat /\ t \in 0..AHEAD
        /\ kb.que \in [0..(QUE_MAX - 1) -> V!Keys \cup {0, NONE}]
    BY VConstants DEF Buffers
  <2>3. typed' \in V!Keys
    <3>1. V!After(typed, 1) \in V!Keys
      BY <2>2, AfterNext
    <3> QED
      BY <2>1, <3>1
  <2>4. kb'.que = [kb.que EXCEPT ![t] = typed'] /\ kb'.tail = t + 1 /\ kb' \in Buffers
    BY <2>1, <2>2, <2>3 DEF V!Added, Buffers
  <2>5. /\ \A n \in 0..(t - 1) : kb'.que[n] = kb.que[n]
        /\ kb'.que[t] = typed'
    BY <2>2, <2>4
  <2>6. Within(rd, kb')
    <3>1. rd.i \in Int
      BY <2>2 DEF Readers
    <3> QED
      BY <2>2, <2>4, <3>1 DEF Within
  <2>7. raced' \in BOOLEAN
    BY <2>1
  <2>8. ASSUME ~raced' PROVE Ordered(rd, sn, kb', typed')
    <3>1. /\ ~raced /\ rd.step \notin {"lower", "clear"} /\ Ordered(rd, sn, kb, typed)
          /\ typed' = V!After(typed, 1)
      BY <2>1, <2>8
    <3>2. /\ V!After(V!After(sn, t), 1) = V!After(sn, t + 1)
          /\ V!After(V!After(sn, t + 1), 1) = V!After(sn, t + 2)
      <4>1. t \in 0..AHEAD /\ t + 1 \in 0..AHEAD /\ (t + 1) + 1 = t + 2
        BY <2>1, <2>2
      <4>2. V!After(V!After(sn, t + 1), 1) = V!After(sn, (t + 1) + 1)
        BY <4>1, AfterNext
      <4> QED
        BY <4>1, <4>2, AfterNext
    <3>3. rd.step \in {"look", "shift", "aim", "echo"} /\ rd.i \in Int
      BY <2>2, <3>1 DEF Readers
    <3>4. CASE rd.step = "look"
      <4>1. typed' = V!After(sn, t + 1)
        BY <3>1, <3>2, <3>4 DEF Ordered
      <4>2. \A n \in 0..((t + 1) - 1) : kb'.que[n] = V!After(sn, n + 1)
        BY <2>2, <2>5, <3>1, <3>4, <4>1 DEF Ordered
      <4> QED
        BY <2>4, <3>4, <4>1, <4>2 DEF Ordered
    <3>5. CASE rd.step \in {"aim", "echo"}
      <4>1. typed' = V!After(sn, t + 2) /\ (t + 1) + 1 = t + 2
        <5>1. typed = V!After(sn, t + 1)
          BY <3>1, <3>5 DEF Ordered
        <5> QED
          BY <2>2, <3>1, <3>2, <5>1
      <4>2. ASSUME NEW n \in 0..((t + 1) - 1) PROVE kb'.que[n] = V!After(sn, n + 2)
        <5>1. n = t \/ n \in 0..(t - 1)
          BY <2>2
        <5>2. \A m \in 0..(t - 1) : kb.que[m] = V!After(sn, m + 2)
          BY <3>1, <3>5 DEF Ordered
        <5> QED
          BY <2>5, <4>1, <5>1, <5>2
      <4>3. rd.head = V!After(sn, 1)
        BY <3>1, <3>5 DEF Ordered
      <4> QED
        BY <2>4, <3>5, <4>1, <4>2, <4>3 DEF Ordered
    <3>6. CASE rd.step = "shift"
      <4>1. typed' = V!After(sn, t + 1)
        BY <3>1, <3>2, <3>6 DEF Ordered
      <4>2. rd.i <= t - 1
        BY <3>6 DEF Within
      <4>3. \A n \in 0..((t + 1) - 1) :
              kb'.que[n] = IF n < rd.i THEN V!After(sn, n + 2) ELSE V!After(sn, n + 1)
        BY <2>2, <2>5, <3>1, <3>3, <3>6, <4>1, <4>2 DEF Ordered
      <4>4. rd.head = V!After(sn, 1)
        BY <3>1, <3>6 DEF Ordered
      <4> QED
        BY <2>4, <3>6, <4>1, <4>3, <4>4 DEF Ordered
    <3> QED
      BY <3>3, <3>4, <3>5, <3>6
  <2> QED
    BY <2>3, <2>4, <2>6, <2>7, <2>8
<1> QED
  BY <1>1, <1>2

\* DeQue, access by access; nothing else moves.
LEMMA DeQueKeeps ==
  ASSUME V!VirtualShellAssumption, VBuffer,
         V!TakeHead \/ V!Shift \/ V!Lower \/ V!Aim \/ V!Clear
  PROVE  VBuffer'
<1> DEFINE t == kb.tail
           F(n) == V!After(seen, n)
<1>1. /\ kb \in Buffers /\ reader \in Readers /\ Within(reader, kb)
      /\ typed \in V!Keys /\ seen \in V!Keys /\ raced \in BOOLEAN
      /\ ~raced => Ordered(reader, seen, kb, typed)
      /\ UNCHANGED <<typed, raced, seen>>
  BY DEF VBuffer, V!TakeHead, V!Shift, V!Lower, V!Aim, V!Clear, V!InProcess
<1>2. /\ AHEAD \in Nat /\ AHEAD < QUE_MAX /\ QUE_MAX \in Nat /\ t \in 0..AHEAD
      /\ kb.que \in [0..(QUE_MAX - 1) -> V!Keys \cup {0, NONE}]
      /\ reader.i \in 0..(QUE_MAX - 1) /\ reader.aim \in 0..(QUE_MAX - 1)
      /\ reader.head \in V!Keys \cup {0, NONE} /\ reader.index \in 0..(STR_MAX - 2)
  BY <1>1, VConstants DEF Buffers, Readers
<1>9. /\ t \in Int /\ t >= 0 /\ t <= AHEAD /\ AHEAD \in Int /\ QUE_MAX \in Int /\ AHEAD < QUE_MAX
      /\ reader.i \in Int /\ reader.i >= 0
  BY <1>2
<1> SUFFICES /\ kb' \in Buffers /\ reader' \in Readers /\ Within(reader', kb')
             /\ ~raced => Ordered(reader', seen, kb', typed)
  BY <1>1 DEF VBuffer
<1>3. CASE V!TakeHead
  <2>1. /\ reader.step = "look" /\ t # 0 /\ kb' = kb
        /\ reader' = [reader EXCEPT !.step = "shift", !.i = 0, !.head = kb.que[0]]
    BY <1>3 DEF V!TakeHead, V!Reading
  <2>2. kb.que[0] \in V!Keys \cup {0, NONE} /\ 0 \in 0..(QUE_MAX - 1) /\ t >= 1
    <3>1. 0 \in 0..(QUE_MAX - 1) /\ t >= 1
      BY <1>9, <2>1
    <3> QED
      BY <1>2, <3>1
  <2>3. /\ reader' \in Readers /\ reader'.step = "shift" /\ reader'.i = 0
        /\ reader'.head = kb.que[0]
    BY <1>1, <2>1, <2>2 DEF Readers
  <2>4. Within(reader', kb')
    BY <1>2, <2>1, <2>2, <2>3, SMTT(30) DEF Within
  <2>5. ASSUME ~raced PROVE Ordered(reader', seen, kb', typed)
    <3>1. typed = F(t) /\ \A n \in 0..(t - 1) : kb.que[n] = F(n + 1)
      BY <1>1, <2>1, <2>5 DEF Ordered
    <3>2. kb.que[0] = F(0 + 1) /\ 0 + 1 = 1
      BY <1>2, <2>2, <3>1
    <3>3. \A n \in 0..(t - 1) : ~(n < 0)
      BY <1>2
    <3> QED
      BY <2>1, <2>3, <3>1, <3>2, <3>3 DEF Ordered
  <2> QED
    BY <1>1, <2>1, <2>3, <2>4, <2>5
<1>4. CASE V!Shift /\ reader.i < t - 1
  <2> DEFINE i == reader.i
  <2>1. /\ reader.step = "shift"
        /\ kb' = [kb EXCEPT !.que[i] = kb.que[i + 1]]
        /\ reader' = [reader EXCEPT !.i = i + 1]
    <3>1. ~(i >= t - 1)
      BY <1>4, <1>9
    <3> QED
      BY <1>4, <3>1 DEF V!Shift, V!Reading
  <2>2. i \in 0..(QUE_MAX - 1) /\ i + 1 \in 0..(QUE_MAX - 1) /\ i + 1 <= t - 1 /\ i + 1 \in 0..(t - 1)
    BY <1>2, <1>4
  <2>3. kb.que[i + 1] \in V!Keys \cup {0, NONE}
    BY <1>2, <2>2
  <2>4. /\ kb' \in Buffers /\ kb'.tail = t /\ kb'.que = [kb.que EXCEPT ![i] = kb.que[i + 1]]
    BY <1>1, <2>1, <2>2, <2>3 DEF Buffers
  <2>5. /\ reader' \in Readers /\ reader'.step = "shift" /\ reader'.i = i + 1
        /\ reader'.head = reader.head
    BY <1>1, <2>1, <2>2 DEF Readers
  <2>6. Within(reader', kb')
    BY <2>2, <2>4, <2>5 DEF Within
  <2>7. ASSUME ~raced PROVE Ordered(reader', seen, kb', typed)
    <3>1. /\ typed = F(t) /\ reader.head = F(1)
          /\ \A n \in 0..(t - 1) : kb.que[n] = IF n < i THEN F(n + 2) ELSE F(n + 1)
      BY <1>1, <2>1, <2>7 DEF Ordered
    <3>2. kb.que[i + 1] = F(i + 2)
      <4>1. kb.que[i + 1] = F((i + 1) + 1) /\ (i + 1) + 1 = i + 2
        BY <2>2, <3>1
      <4> QED
        BY <4>1
    <3>3. \A n \in 0..(t - 1) : kb'.que[n] = IF n = i THEN kb.que[i + 1] ELSE kb.que[n]
      BY <1>2, <2>2, <2>4
    <3> HIDE DEF F
    <3>4. \A n \in 0..(t - 1) : kb'.que[n] = IF n < i + 1 THEN F(n + 2) ELSE F(n + 1)
      BY <2>2, <3>1, <3>2, <3>3
    <3> QED
      BY <2>4, <2>5, <3>1, <3>4 DEF Ordered, F
  <2> QED
    BY <2>4, <2>5, <2>6, <2>7
<1>5. CASE V!Shift /\ ~(reader.i < t - 1)
  <2>1. /\ reader.step = "shift" /\ kb' = kb
        /\ reader' = [reader EXCEPT !.step = "lower", !.i = 0]
    BY <1>2, <1>5 DEF V!Shift, V!Reading
  <2>2. reader.i = t - 1
    <3>1. reader.i <= t - 1
      BY <1>1, <2>1 DEF Within
    <3> QED
      BY <1>5, <1>9, <3>1
  <2>3. 0 \in 0..(QUE_MAX - 1) /\ t >= 1
    BY <1>2, <2>2
  <2>4. reader' \in Readers /\ reader'.step = "lower" /\ reader'.head = reader.head
    BY <1>1, <2>1, <2>3 DEF Readers
  <2>5. Within(reader', kb')
    BY <2>1, <2>3, <2>4 DEF Within
  <2>6. ASSUME ~raced PROVE Ordered(reader', seen, kb', typed)
    <3>1. /\ typed = F(t) /\ reader.head = F(1)
          /\ \A n \in 0..(t - 1) : kb.que[n] = IF n < reader.i THEN F(n + 2) ELSE F(n + 1)
      BY <1>1, <2>1, <2>6 DEF Ordered
    <3> HIDE DEF F
    <3>2. \A n \in 0..(t - 2) : n \in 0..(t - 1) /\ n < reader.i
      BY <1>9, <2>2
    <3>3. \A n \in 0..(t - 2) : kb.que[n] = F(n + 2)
      BY <3>1, <3>2
    <3> QED
      BY <2>1, <2>4, <3>1, <3>3 DEF Ordered, F
  <2> QED
    BY <1>1, <2>1, <2>4, <2>5, <2>6
<1>6. CASE V!Lower
  <2>1. /\ reader.step = "lower" /\ kb' = [kb EXCEPT !.tail = t - 1]
        /\ reader' = [reader EXCEPT !.step = "aim"]
    BY <1>6 DEF V!Lower, V!Reading
  <2>2. t >= 1 /\ t - 1 \in 0..AHEAD
    <3>1. t >= 1
      BY <1>1, <2>1 DEF Within
    <3> QED
      BY <1>9, <3>1
  <2>3. kb' \in Buffers /\ kb'.tail = t - 1 /\ kb'.que = kb.que
    BY <1>1, <2>1, <2>2 DEF Buffers
  <2>4. reader' \in Readers /\ reader'.step = "aim" /\ reader'.head = reader.head
    BY <1>1, <2>1 DEF Readers
  <2>5. Within(reader', kb')
    BY <2>4 DEF Within
  <2>6. ASSUME ~raced PROVE Ordered(reader', seen, kb', typed)
    <3>1. /\ typed = F(t) /\ reader.head = F(1)
          /\ \A n \in 0..(t - 2) : kb.que[n] = F(n + 2)
      BY <1>1, <2>1, <2>6 DEF Ordered
    <3>2. (t - 1) + 1 = t /\ (t - 1) - 1 = t - 2
      BY <1>2
    <3> QED
      BY <2>3, <2>4, <3>1, <3>2 DEF Ordered
  <2> QED
    BY <2>3, <2>4, <2>5, <2>6
<1>7. CASE V!Aim
  <2>1. /\ reader.step = "aim" /\ kb' = kb
        /\ reader' = [reader EXCEPT !.step = "clear", !.aim = t]
    BY <1>7 DEF V!Aim, V!Reading
  <2>2. t \in 0..(QUE_MAX - 1)
    BY <1>2
  <2>3. /\ reader' \in Readers /\ reader'.step = "clear" /\ reader'.head = reader.head
        /\ reader'.aim = t
    BY <1>1, <2>1, <2>2 DEF Readers
  <2>4. Within(reader', kb')
    BY <2>3 DEF Within
  <2>5. ASSUME ~raced PROVE Ordered(reader', seen, kb', typed)
    BY <1>1, <2>1, <2>3, <2>5 DEF Ordered
  <2> QED
    BY <1>1, <2>1, <2>3, <2>4, <2>5
<1>8. CASE V!Clear
  <2> DEFINE m == reader.aim
  <2>1. /\ reader.step = "clear" /\ kb' = [kb EXCEPT !.que[m] = V!NONE]
        /\ reader' = [reader EXCEPT !.step = "echo", !.aim = 0]
    BY <1>8 DEF V!Clear, V!Reading
  <2>2. V!NONE = NONE /\ 0 \in 0..(QUE_MAX - 1)
    BY <1>2 DEF V!NONE, NONE
  <2>3. kb' \in Buffers /\ kb'.tail = t /\ kb'.que = [kb.que EXCEPT ![m] = NONE]
    BY <1>1, <1>2, <2>1, <2>2 DEF Buffers
  <2>4. reader' \in Readers /\ reader'.step = "echo" /\ reader'.head = reader.head
    BY <1>1, <2>1, <2>2 DEF Readers
  <2>5. Within(reader', kb')
    BY <2>4 DEF Within
  <2>6. ASSUME ~raced PROVE Ordered(reader', seen, kb', typed)
    <3>1. /\ typed = F(t + 1) /\ reader.head = F(1) /\ m = t
          /\ \A n \in 0..(t - 1) : kb.que[n] = F(n + 2)
      BY <1>1, <2>1, <2>6 DEF Ordered
    <3>2. \A n \in 0..(t - 1) : kb'.que[n] = kb.que[n]
      BY <1>2, <2>3, <3>1, SMTT(30)
    <3> QED
      BY <2>3, <2>4, <3>1, <3>2 DEF Ordered
  <2> QED
    BY <2>3, <2>4, <2>5, <2>6
<1> QED
  BY <1>3, <1>4, <1>5, <1>6, <1>7, <1>8

\* The key has been taken: the next one is counted from it.
LEMMA EchoKeeps ==
  ASSUME V!VirtualShellAssumption, VBuffer, V!SysWriteEcho PROVE VBuffer'
<1> DEFINE t == kb.tail
<1>1. /\ kb \in Buffers /\ reader \in Readers /\ Within(reader, kb)
      /\ typed \in V!Keys /\ seen \in V!Keys /\ raced \in BOOLEAN
      /\ ~raced => Ordered(reader, seen, kb, typed)
  BY DEF VBuffer
<1>2. /\ reader.step = "echo" /\ seen' = (IF raced THEN seen ELSE reader.head) /\ V!KBSR
      /\ \/ reader' = [reader EXCEPT !.step = "look", !.head = 0, !.index = 0]
         \/ /\ ~V!LastOfLine(reader.index + 1)
            /\ reader' = [reader EXCEPT !.step = "look", !.head = 0, !.index = reader.index + 1]
  BY DEF V!SysWriteEcho, V!Reading
<1>3. /\ AHEAD \in Nat /\ t \in 0..AHEAD /\ STR_MAX \in Nat /\ STR_MAX >= 2
      /\ reader.index \in 0..(STR_MAX - 2)
  BY <1>1, VConstants DEF Buffers, Readers
<1>4. reader' \in Readers /\ reader'.step = "look"
  <2>1. CASE reader' = [reader EXCEPT !.step = "look", !.head = 0, !.index = 0]
    <3>1. 0 \in 0..(STR_MAX - 2)
      BY <1>3
    <3> QED
      BY <1>1, <2>1, <3>1 DEF Readers
  <2>2. CASE /\ ~V!LastOfLine(reader.index + 1)
             /\ reader' = [reader EXCEPT !.step = "look", !.head = 0, !.index = reader.index + 1]
    <3>1. reader.index + 1 \in 0..(STR_MAX - 2)
      BY <1>3, <2>2 DEF V!LastOfLine
    <3> QED
      BY <1>1, <2>2, <3>1 DEF Readers
  <2> QED
    BY <1>2, <2>1, <2>2
<1>5. Within(reader', kb)
  BY <1>4 DEF Within
<1>6. seen' \in V!Keys
  <2>1. CASE raced
    BY <1>1, <1>2, <2>1
  <2>2. CASE ~raced
    <3>1. reader.head = V!After(seen, 1)
      BY <1>1, <1>2, <2>2 DEF Ordered
    <3>2. 0 \in 0..AHEAD /\ 0 + 1 = 1
      BY <1>3
    <3>3. V!After(seen, 0 + 1) \in V!Keys
      BY <1>1, <3>2, AfterNext
    <3> QED
      BY <1>2, <2>2, <3>1, <3>2, <3>3
  <2> QED
    BY <2>1, <2>2
<1>7. ASSUME ~raced PROVE Ordered(reader', seen', kb, typed)
  <2>1. /\ seen' = V!After(seen, 1) /\ typed = V!After(seen, t + 1)
        /\ \A n \in 0..(t - 1) : kb.que[n] = V!After(seen, n + 2)
    BY <1>1, <1>2, <1>7 DEF Ordered
  <2>2. \A n \in 0..AHEAD : V!After(seen', n) = V!After(seen, n + 1)
    BY <1>1, <2>1, AfterNext
  <2>3. typed = V!After(seen', t)
    BY <1>3, <2>1, <2>2
  <2>4. ASSUME NEW n \in 0..(t - 1) PROVE kb.que[n] = V!After(seen', n + 1)
    <3>1. n + 1 \in 0..AHEAD /\ (n + 1) + 1 = n + 2
      BY <1>3
    <3>2. V!After(seen', n + 1) = V!After(seen, (n + 1) + 1)
      BY <2>2, <3>1
    <3> QED
      BY <2>1, <3>1, <3>2
  <2> QED
    BY <1>4, <2>3, <2>4 DEF Ordered
<1>8. /\ kb' \in Buffers /\ Within(reader', kb') /\ typed' \in V!Keys /\ raced' \in BOOLEAN
      /\ ~raced' => Ordered(reader', seen', kb', typed')
  BY <1>1, <1>2, <1>4, <1>5, <1>6, <1>7, KeyComes
<1> QED
  BY <1>4, <1>6, <1>8 DEF VBuffer

LEMMA BufferNext ==
  ASSUME V!VirtualShellAssumption, VBuffer, V!Next \/ UNCHANGED V!vars PROVE VBuffer'
<1>1. /\ kb \in Buffers /\ reader \in Readers /\ Within(reader, kb)
      /\ typed \in V!Keys /\ seen \in V!Keys /\ raced \in BOOLEAN
      /\ ~raced => Ordered(reader, seen, kb, typed)
  BY DEF VBuffer
<1>2. CASE V!KBSR /\ UNCHANGED <<reader, seen>>
  <2>1. /\ kb' \in Buffers /\ Within(reader, kb') /\ typed' \in V!Keys /\ raced' \in BOOLEAN
        /\ ~raced' => Ordered(reader, seen, kb', typed')
    BY <1>1, <1>2, KeyComes
  <2> QED
    BY <1>1, <1>2, <2>1 DEF VBuffer
<1>3. CASE V!TakeHead \/ V!Shift \/ V!Lower \/ V!Aim \/ V!Clear
  BY <1>3, DeQueKeeps
<1>4. CASE V!SysWriteEcho
  BY <1>4, EchoKeeps
<1>5. CASE UNCHANGED V!vars
  BY <1>1, <1>5 DEF V!vars, V!keys, VBuffer
<1>6. ASSUME \/ V!TimerSR \/ V!SysSleep \/ V!SysWrite \/ V!SysGetRand
             \/ V!SysVFork \/ V!SysExit \/ V!SysWait
      PROVE  V!KBSR /\ UNCHANGED <<reader, seen>>
  BY <1>6 DEF V!TimerSR, V!SysSleep, V!SysWrite, V!SysGetRand, V!SysVFork, V!SysExit, V!SysWait
<1> QED
  BY <1>2, <1>3, <1>4, <1>5, <1>6 DEF V!Next, V!Runs, V!sys_read

-----------------------------------------------------------------------------
\* The kernel of phase 8 is that of phase 9, but for KBSR, which is a step of
\* its own here, and the terminal.
LEMMA VSame ==
  /\ V!IDLE = IDLE /\ V!Login = Login /\ V!Shell = Shell /\ V!Pids = Pids /\ V!Pages = Pages
  /\ V!NONE = NONE
  /\ \A q : (V!QueEmpty(q) <=> QueEmpty(q)) /\ V!AfterDeQue(q) = AfterDeQue(q)
  /\ \A q, p : V!EnQue(q, p) = EnQue(q, p)
  /\ \A q, b : V!EnQueAll(q, b) = EnQueAll(q, b)
  /\ \A S : V!InOrder(S) = InOrder(S)
  /\ \A g, n : V!Onward(g, n) = Onward(g, n)
  /\ \A g : V!Started(g) = Started(g)
<1>1. /\ V!IDLE = IDLE /\ V!Login = Login /\ V!Shell = Shell /\ V!Pids = Pids /\ V!Pages = Pages
      /\ V!NONE = NONE
  BY DEF V!IDLE, V!Login, V!Shell, V!Pids, V!Pages, V!NONE, IDLE, Login, Shell, Pids, Pages, NONE
<1>2. \A q : (V!QueEmpty(q) <=> QueEmpty(q)) /\ V!AfterDeQue(q) = AfterDeQue(q)
  BY DEF V!QueEmpty, QueEmpty, V!AfterDeQue, AfterDeQue
<1>3. \A q, p : V!EnQue(q, p) = EnQue(q, p)
  BY DEF V!EnQue, EnQue, V!QueFull, QueFull
<1>4. \A q, b : V!EnQueAll(q, b) = EnQueAll(q, b)
  BY DEF V!EnQueAll, EnQueAll
<1>5. \A S : V!InOrder(S) = InOrder(S)
  <2>1. \A S : V!Cardinality(S) = Cardinality(S)
    BY DEF V!Cardinality, Cardinality
  <2> QED
    BY <2>1 DEF V!InOrder, InOrder
<1>6. \A g, n : V!Onward(g, n) = Onward(g, n)
  BY DEF V!Onward, Onward
<1>7. \A g : V!Started(g) = Started(g)
  BY DEF V!Started, Started
<1> QED
  BY <1>1, <1>2, <1>3, <1>4, <1>5, <1>6, <1>7

LEMMA VSchedules ==
  ASSUME NEW rp, NEW st, NEW rq, NEW ticks, V!Scheduler(rp, st, rq, ticks)
  PROVE  Scheduler(rp, st, rq, ticks)
<1>1. V!IDLE = IDLE /\ (V!QueEmpty(rq) <=> QueEmpty(rq)) /\ V!AfterDeQue(rq) = AfterDeQue(rq)
  BY VSame
<1> QED
  BY <1>1 DEF V!Scheduler, Scheduler

LEMMA VEnds ==
  ASSUME NEW st, NEW rq
  PROVE  /\ V!Demote(st, rq) => Scheduler(NONE, [st EXCEPT ![run_pid] = "READY"], EnQue(rq, run_pid), 0)
         /\ V!Leave(st, rq) => Scheduler(NONE, st, rq, 0)
<1>1. V!NONE = NONE /\ V!EnQue(rq, run_pid) = EnQue(rq, run_pid)
  BY VSame
<1> QED
  BY <1>1, VSchedules DEF V!Demote, V!Leave

LEMMA VCalls ==
  ASSUME NEW call, V!Calls(call), run_pid \in Pids, Placed(at)
  PROVE  /\ run_pid \in Users /\ Call(V!Text, at, run_pid) = call
         /\ at' \in V!Behind => Steps(at, run_pid, at')
<1>1. run_pid \in Users /\ Call(V!Text, at, run_pid) = call
  BY PidFacts, VSame DEF V!Calls, V!Place, Call
<1>2. V!Behind = Behind
  BY VSame DEF V!Behind, V!Place, Behind, Place
<1> QED
  BY <1>1, <1>2, BehindSteps

\* Scheduler(), after a service.
LEMMA VReturns ==
  ASSUME NEW w \in Users, NEW rp \in Pids \cup {NONE}, NEW st, NEW rq, NEW ticks,
         rp > IDLE => ticks \in 0..BURST, Scheduler(rp, st, rq, ticks),
         Core(w, rp, st, rq, at', ppid', avail_que', page', space'),
         wake_in' \in [Pids -> 0..NAP], \A p \in Pids : st[p] # "IO_WAIT"
  PROVE  /\ Kernel' /\ Kept(st, state') /\ (\A p \in Pids : state'[p] # "IO_WAIT")
         /\ Scene(w, run_pid', state', ready_que', at', ppid')
<1>1. /\ Core(w, run_pid', state', ready_que', at', ppid', avail_que', page', space')
      /\ run_pid' \in Pids /\ time_count' \in 0..BURST /\ Kept(st, state')
  BY CoreGoesOn
<1>2. Kernel'
  BY <1>1 DEF Kernel
<1>3. \A p \in Pids : state'[p] # "IO_WAIT"
  BY <1>1 DEF Kept, Idling
<1> QED
  BY <1>1, <1>2, <1>3 DEF Core

\* While Shell gives a report, it works and is alone.
LEMMA Reporter ==
  ASSUME NEW w, NEW rp, NEW st, NEW rq, NEW a, NEW pp, Scene(w, rp, st, rq, a, pp),
         st[Shell] \notin {"AVAIL", "WAIT"}, a[Shell][2] \in 5..10
  PROVE  w = Shell
<1>1. w # Login
  BY PidFacts DEF Scene, Cast
<1>2. ASSUME w \notin {Login, Shell} PROVE FALSE
  <2>1. Paired(w, rp, st, rq, a)
    BY <1>2 DEF Scene, Alone
  <2>2. a[Shell] = <<"Shell", 4>>
    BY <1>2, <2>1, PidFacts DEF Paired, Parent, Last
  <2> QED
    BY <2>2
<1> QED
  BY <1>1, <1>2

\* A service that has nothing to do with the report.
LEMMA ReportKept ==
  ASSUME VReport, UNCHANGED <<ppid, report, sum>>,
         \A p \in Pids : \A s \in {"AVAIL", "WAIT"} : state'[p] = s <=> state[p] = s,
         at'[Shell][2] \in 5..10 => at[Shell][2] \in 5..10
  PROVE  VReport'
<1>1. Shell \in Pids /\ Users \subseteq Pids
  BY PidFacts
<1> QED
  BY <1>1 DEF VReport

\* There is nothing to report.
LEMMA NoReport ==
  ASSUME NEW w, w # Shell, Scene(w, run_pid', state', ready_que', at', ppid')
  PROVE  VReport'
<1>1. ~(state'[Shell] \notin {"AVAIL", "WAIT"} /\ at'[Shell][2] \in 5..10)
  BY Reporter
<1> QED
  BY <1>1 DEF VReport

\* A call other than sys_wait does not begin a report.
LEMMA ShellStepsOn ==
  ASSUME NEW T, Follows(T), NEW w \in Users, NEW a, Placed(a), InText(T, a),
         a[w][1] \in Program(w), Call(T, a, w) # "wait", NEW a2,
         Steps(a, w, a2) \/ a2 = a, a2[Shell][2] \in 5..10
  PROVE  a[Shell][2] \in 5..10
<1> USE PidFacts, ProgramFacts
<1>1. a \in [Pids -> Programs \X Nat]
  BY DEF Placed
<1>2. CASE a2 = a
  BY <1>2
<1>3. CASE w # Shell /\ Steps(a, w, a2)
  BY <1>1, <1>3 DEF Steps
<1>4. CASE w = Shell /\ Steps(a, w, a2)
  <2> DEFINE n == a[Shell][2]
  <2>1. a[Shell] = <<"Shell", n>> /\ n \in Nat /\ a[Shell][1] = "Shell"
    BY <1>1, <1>4
  <2>2. n \in DOMAIN T["Shell"] /\ n >= 1 /\ n # 4
    <3>1. n \in DOMAIN T["Shell"] /\ T["Shell"][n] # "wait"
      BY <1>4, <2>1 DEF InText, Call
    <3>2. n >= 1 /\ (n = 4 => T["Shell"][n] = "wait")
      BY <3>1 DEF Follows
    <3> QED
      BY <3>1, <3>2
  <2>3. PICK m \in Onward("Shell", n) : a2 = [a EXCEPT ![Shell] = <<"Shell", m>>]
    BY <1>4, <2>1 DEF Steps
  <2>4. a2[Shell][2] = m
    BY <1>1, <2>3
  <2> HIDE DEF n
  <2>5. m = n + 1 \/ m \in {3, 11, 1}
    BY <2>3 DEF Onward
  <2> QED
    BY <2>1, <2>2, <2>4, <2>5 DEF n
<1> QED
  BY <1>2, <1>3, <1>4

VNow(w) ==
  /\ w \in Users /\ Core(w, run_pid, state, ready_que, at, ppid, avail_que, page, space)
  /\ Scene(w, run_pid, state, ready_que, at, ppid) /\ Placed(at) /\ at[w][1] \in Program(w)
  /\ state \in [Pids -> States]
  /\ run_pid \in Pids /\ time_count \in 0..BURST /\ wake_in \in [Pids -> 0..NAP]
  /\ (\A p \in Pids : state[p] # "IO_WAIT") /\ InText(V!Text, at) /\ at[IDLE][1] = "Login"
  /\ sum \in [Pids -> {0} \cup Sums] /\ report \in [Pids -> Pids \X ({0} \cup Sums)]
  /\ VReport

LEMMA VNowExists == ASSUME VTables PROVE \E w : VNow(w)
<1>1. PICK w \in Users : Core(w, run_pid, state, ready_que, at, ppid, avail_que, page, space)
  BY DEF VTables, Kernel
<1>2. /\ Scene(w, run_pid, state, ready_que, at, ppid) /\ Placed(at) /\ at[w][1] \in Program(w)
  BY <1>1 DEF Core, Scene
<1>3. state \in [Pids -> States]
  BY <1>2, SceneStates
<1> QED
  BY <1>1, <1>2, <1>3 DEF VTables, Kernel, VNow

\* A service of w that leaves the tables of the family alone: w goes on or does
\* not, and the others are as before.
LEMMA VServes ==
  ASSUME NEW w, VNow(w), NEW rp \in Pids \cup {NONE}, NEW st, NEW rq, NEW ticks,
         rp > IDLE => ticks \in 0..BURST, Scheduler(rp, st, rq, ticks),
         Core(w, rp, st, rq, at', ppid, avail_que, page, space),
         UNCHANGED <<ppid, avail_que, page, space, report>>,
         wake_in' \in [Pids -> 0..NAP],
         \A p \in Pids : st[p] # "IO_WAIT",
         \A p \in Pids : \A s \in {"AVAIL", "WAIT"} : st[p] = s <=> state[p] = s,
         InText(V!Text, at'), at'[IDLE] = at[IDLE],
         sum' = sum \/ (w # Shell /\ sum' \in [Pids -> {0} \cup Sums]),
         at'[Shell][2] \in 5..10 => at[Shell][2] \in 5..10
  PROVE  VTables'
<1>1. w \in Users
  BY DEF VNow
<1>2. Core(w, rp, st, rq, at', ppid', avail_que', page', space')
  OBVIOUS
<1>3. /\ Kernel' /\ Kept(st, state') /\ (\A p \in Pids : state'[p] # "IO_WAIT")
      /\ Scene(w, run_pid', state', ready_que', at', ppid')
  BY <1>1, <1>2, VReturns
<1>4. \A p \in Pids : \A s \in {"AVAIL", "WAIT"} : state'[p] = s <=> state[p] = s
  <2>1. \A p \in Pids : \A s \in {"AVAIL", "WAIT"} : state'[p] = s <=> st[p] = s
    BY <1>3 DEF Kept, Idling
  <2> QED
    BY <2>1
<1>5. VReport'
  <2>1. CASE w # Shell
    BY <1>3, <2>1, NoReport
  <2>2. CASE w = Shell
    <3>1. VReport /\ UNCHANGED <<ppid, report, sum>>
      BY <2>2 DEF VNow
    <3> QED
      BY <1>4, <3>1, ReportKept
  <2> QED
    BY <2>1, <2>2
<1>6. /\ at'[IDLE][1] = "Login" /\ sum' \in [Pids -> {0} \cup Sums]
      /\ report' \in [Pids -> Pids \X ({0} \cup Sums)]
  BY DEF VNow
<1> QED
  BY <1>3, <1>5, <1>6 DEF VTables

\* Idle does not go on.
LEMMA IdleStays ==
  ASSUME NEW w \in Users, NEW a, NEW a2, StepsOn(w, a, a2) \/ a2 = a PROVE a2[IDLE] = a[IDLE]
BY PidFacts DEF StepsOn

\* PlainCalls in the present state.
LEMMA VWorksOn ==
  ASSUME NEW w, Core(w, run_pid, state, ready_que, at, ppid, avail_que, page, space),
         InText(V!Text, at), run_pid \in Users,
         Call(V!Text, at, run_pid) \in {"write", "read", "sleep", "get_rand"},
         Steps(at, run_pid, at') \/ (at' = at /\ Call(V!Text, at, run_pid) = "read")
  PROVE  /\ run_pid = w /\ state[w] = "RUN" /\ StepsOn(w, at, at') /\ InText(V!Text, at')
         /\ Call(V!Text, at, run_pid) \in {"read", "sleep"} => at[w][2] # 1
         /\ (ready_que = << >> \/ Call(V!Text, at, run_pid) \in {"write", "get_rand"})
BY VTextFollows, PlainCalls, SMTT(30)

\* sys_write, of a string or a key, and sys_get_rand: the caller yields.
LEMMA VYields ==
  ASSUME NEW w, VNow(w), run_pid \in Users, NEW call \in {"write", "read", "get_rand"},
         Call(V!Text, at, run_pid) = call,
         Steps(at, run_pid, at') \/ (at' = at /\ call = "read"),
         V!Demote(state, ready_que),
         UNCHANGED <<avail_que, ppid, wake_in, page, space, report>>,
         sum' = sum \/ (call = "get_rand" /\ sum' \in [Pids -> {0} \cup Sums])
  PROVE  VTables'
<1>1. /\ w \in Users /\ Core(w, run_pid, state, ready_que, at, ppid, avail_que, page, space)
      /\ InText(V!Text, at) /\ Placed(at) /\ state \in [Pids -> States] /\ at[w][1] \in Program(w)
      /\ wake_in \in [Pids -> 0..NAP] /\ \A p \in Pids : state[p] # "IO_WAIT"
  BY DEF VNow
<1>2. /\ run_pid = w /\ state[w] = "RUN" /\ StepsOn(w, at, at') /\ InText(V!Text, at')
  <2>1. Call(V!Text, at, run_pid) \in {"write", "read", "sleep", "get_rand"}
    OBVIOUS
  <2> QED
    BY <1>1, <2>1, VWorksOn
<1> DEFINE st2 == [state EXCEPT ![w] = "READY"]
<1>3. Core(w, NONE, st2, EnQue(ready_que, w), at', ppid, avail_que, page, space)
  BY <1>1, <1>2, CoreYields
<1>4. Scheduler(NONE, st2, EnQue(ready_que, w), 0)
  BY <1>2, VEnds
<1>5. /\ \A p \in Pids : st2[p] # "IO_WAIT"
      /\ \A p \in Pids : \A s \in {"AVAIL", "WAIT"} : st2[p] = s <=> state[p] = s
  BY <1>1, <1>2
<1>6. at'[IDLE] = at[IDLE]
  BY <1>1, <1>2, IdleStays
<1>7. at'[Shell][2] \in 5..10 => at[Shell][2] \in 5..10
  <2>1. Call(V!Text, at, w) # "wait"
    BY <1>2
  <2> QED
    BY <1>1, <1>2, <2>1, VTextFollows, ShellStepsOn
<1>8. sum' = sum \/ (w # Shell /\ sum' \in [Pids -> {0} \cup Sums])
  <2>1. ASSUME call = "get_rand" PROVE w # Shell
    <3>1. at[w][1] \in Programs /\ at[w][2] \in DOMAIN V!Text[at[w][1]]
      BY <1>1, ProgramFacts, PidFacts DEF InText
    <3>2. at[w][1] \in Commands
      BY <1>2, <2>1, <3>1, VTextFollows DEF Follows, Call
    <3> QED
      BY <1>1, <3>2, ProgramFacts
  <2> QED
    BY <2>1
<1>9. NONE \in Pids \cup {NONE} /\ (NONE > IDLE => 0 \in 0..BURST) /\ wake_in' \in [Pids -> 0..NAP]
  BY <1>1, PidFacts
<1> HIDE DEF st2
<1> QED
  BY <1>2, <1>3, <1>4, <1>5, <1>6, <1>7, <1>8, <1>9, VServes

LEMMA VWritesKeeps ==
  ASSUME NEW w, VNow(w), V!SysWrite \/ V!SysGetRand \/ V!SysWriteEcho PROVE VTables'
<1>1. run_pid \in Pids /\ Placed(at) /\ sum \in [Pids -> {0} \cup Sums]
  BY DEF VNow
<1>2. CASE V!SysWrite
  <2>1. /\ run_pid \in Users /\ Call(V!Text, at, run_pid) = "write" /\ Steps(at, run_pid, at')
    BY <1>1, <1>2, VCalls DEF V!SysWrite
  <2>2. /\ V!Demote(state, ready_que) /\ sum' = sum
        /\ UNCHANGED <<avail_que, ppid, wake_in, page, space, report>>
    BY <1>2 DEF V!SysWrite, V!memory
  <2> QED
    BY <2>1, <2>2, VYields
<1>3. CASE V!SysGetRand
  <2>1. /\ run_pid \in Users /\ Call(V!Text, at, run_pid) = "get_rand" /\ Steps(at, run_pid, at')
    BY <1>1, <1>3, VCalls DEF V!SysGetRand
  <2>2. /\ V!Demote(state, ready_que)
        /\ UNCHANGED <<avail_que, ppid, wake_in, page, space, report>>
    BY <1>3 DEF V!SysGetRand, V!memory
  <2>3. sum' \in [Pids -> {0} \cup Sums]
    BY <1>1, <1>3 DEF V!SysGetRand
  <2> QED
    BY <2>1, <2>2, <2>3, VYields
<1>4. CASE V!SysWriteEcho
  <2>1. /\ run_pid \in Users /\ Call(V!Text, at, run_pid) = "read"
        /\ Steps(at, run_pid, at') \/ at' = at
    BY <1>1, <1>4, VCalls DEF V!SysWriteEcho, V!Reading
  <2>2. /\ V!Demote(state, ready_que) /\ sum' = sum
        /\ UNCHANGED <<avail_que, ppid, wake_in, page, space, report>>
    BY <1>4 DEF V!SysWriteEcho, V!memory
  <2> QED
    BY <2>1, <2>2, VYields
<1> QED
  BY <1>2, <1>3, <1>4

LEMMA VSleepKeeps ==
  ASSUME NEW w, VNow(w), V!SysSleep PROVE VTables'
<1>1. /\ w \in Users /\ Core(w, run_pid, state, ready_que, at, ppid, avail_que, page, space)
      /\ InText(V!Text, at) /\ Placed(at) /\ state \in [Pids -> States] /\ at[w][1] \in Program(w)
      /\ run_pid \in Pids /\ wake_in \in [Pids -> 0..NAP] /\ \A p \in Pids : state[p] # "IO_WAIT"
  BY DEF VNow
<1>2. /\ run_pid \in Users /\ Call(V!Text, at, run_pid) = "read"
      /\ wake_in' = [wake_in EXCEPT ![run_pid] = NAP]
      /\ V!Leave([state EXCEPT ![run_pid] = "SLEEP"], ready_que)
      /\ UNCHANGED <<avail_que, ppid, page, space, sum, report>>
  BY <1>1, VCalls DEF V!SysSleep, V!Reading, V!memory, V!program
<1>10. at' = at
  BY DEF V!SysSleep, V!program
<1>3. /\ run_pid = w /\ state[w] = "RUN" /\ StepsOn(w, at, at') /\ at[w][2] # 1
  <2>1. /\ Call(V!Text, at, run_pid) \in {"write", "read", "sleep", "get_rand"}
        /\ Steps(at, run_pid, at') \/ (at' = at /\ Call(V!Text, at, run_pid) = "read")
    BY <1>2, <1>10
  <2> QED
    BY <1>1, <1>2, <2>1, VWorksOn
<1> DEFINE st2 == [state EXCEPT ![w] = "SLEEP"]
<1>4. Core(w, NONE, st2, ready_que, at', ppid, avail_que, page, space)
  BY <1>1, <1>3, CoreBlocks
<1>5. Scheduler(NONE, st2, ready_que, 0)
  BY <1>2, <1>3, VEnds
<1>6. /\ \A p \in Pids : st2[p] # "IO_WAIT"
      /\ \A p \in Pids : \A s \in {"AVAIL", "WAIT"} : st2[p] = s <=> state[p] = s
  BY <1>1, <1>3
<1>7. wake_in' \in [Pids -> 0..NAP]
  BY <1>1, <1>2, TeletypeAssumption
<1>8. NONE \in Pids \cup {NONE} /\ (NONE > IDLE => 0 \in 0..BURST) /\ InText(V!Text, at')
  BY <1>1, <1>10, PidFacts
<1>9. /\ at'[IDLE] = at[IDLE] /\ (at'[Shell][2] \in 5..10 => at[Shell][2] \in 5..10)
  BY <1>10
<1> HIDE DEF st2
<1> QED
  BY <1>2, <1>4, <1>5, <1>6, <1>7, <1>8, <1>9, VServes

LEMMA VTimerSRKeeps ==
  ASSUME NEW w, VNow(w), V!VirtualShellAssumption, V!TimerSR PROVE VTables'
<1> DEFINE W == {p \in Pids : state[p] = "SLEEP" /\ wake_in[p] = 1}
           st2 == [p \in Pids |-> IF p \in W THEN "READY" ELSE state[p]]
<1>1. /\ w \in Users /\ Core(w, run_pid, state, ready_que, at, ppid, avail_que, page, space)
      /\ run_pid \in Pids /\ time_count \in 0..BURST /\ InText(V!Text, at)
      /\ \A p \in Pids : state[p] # "IO_WAIT"
      /\ UNCHANGED <<avail_que, ppid, page, space, at, sum, report>>
      /\ run_pid # IDLE => time_count < BURST
  BY VSame DEF VNow, V!TimerSR, V!memory, V!program
<1>2. wake_in' \in [Pids -> 0..NAP]
  <2>1. wake_in \in [Pids -> 0..NAP]
    BY DEF VNow
  <2>2. wake_in' = [p \in Pids |-> IF wake_in[p] = 0 THEN 0 ELSE wake_in[p] - 1]
    BY VSame DEF V!TimerSR
  <2> QED
    BY <2>1, <2>2, WakeTimes
<1>3. PICK batch \in InOrder(W) :
        LET rq == EnQueAll(ready_que, batch)
        IN IF run_pid = IDLE THEN V!Scheduler(IDLE, st2, rq, 0)
           ELSE IF time_count + 1 = TIME_MAX THEN V!Demote(st2, rq)
           ELSE V!Scheduler(run_pid, st2, rq, time_count + 1)
  BY VSame DEF V!TimerSR
<1> DEFINE rq2 == EnQueAll(ready_que, batch)
<1>4. /\ Core(w, run_pid, st2, rq2, at, ppid, avail_que, page, space)
      /\ \A p \in Pids : st2[p] = "IO_WAIT" <=> state[p] = "IO_WAIT"
  <2>1. W \subseteq {p \in Pids : state[p] = "SLEEP"}
    OBVIOUS
  <2> HIDE DEF W
  <2> QED
    BY <1>1, <2>1, Woken
<1>5. \E ticks : Scheduler(run_pid, st2, rq2, ticks) /\ (run_pid > IDLE => ticks \in 0..BURST)
  <2>1. BURST \in Nat /\ TIME_MAX \in Nat /\ BURST < TIME_MAX
    BY TeletypeAssumption
  <2>2. CASE run_pid = IDLE
    <3>1. V!Scheduler(run_pid, st2, rq2, 0)
      BY <1>3, <2>2
    <3>2. Scheduler(run_pid, st2, rq2, 0)
      BY <3>1, VSchedules
    <3> QED
      BY <2>2, <3>2, PidFacts
  <2>3. CASE run_pid # IDLE
    <3>1. time_count + 1 \in 0..BURST /\ time_count + 1 # TIME_MAX
      BY <1>1, <2>1, <2>3
    <3>2. V!Scheduler(run_pid, st2, rq2, time_count + 1)
      BY <1>3, <2>3, <3>1
    <3>3. Scheduler(run_pid, st2, rq2, time_count + 1)
      BY <3>2, VSchedules
    <3> QED
      BY <3>1, <3>3
  <2> QED
    BY <2>2, <2>3
<1>6. \A p \in Pids : \A s \in {"AVAIL", "WAIT"} : st2[p] = s <=> state[p] = s
  OBVIOUS
<1>7. \A p \in Pids : st2[p] # "IO_WAIT"
  BY <1>1, <1>4
<1> HIDE DEF W, st2, rq2
<1>8. /\ InText(V!Text, at') /\ at'[IDLE] = at[IDLE] /\ sum' = sum
      /\ (at'[Shell][2] \in 5..10 => at[Shell][2] \in 5..10)
      /\ Core(w, run_pid, st2, rq2, at', ppid, avail_que, page, space)
  BY <1>1, <1>4
<1> QED
  BY <1>1, <1>2, <1>5, <1>6, <1>7, <1>8, VServes

LEMMA VForkKeeps ==
  ASSUME NEW w, VNow(w), V!SysVFork PROVE VTables'
<1> DEFINE f == Head(avail_que)
           rp == run_pid
           st2 == [[state EXCEPT ![f] = "READY"] EXCEPT ![rp] = "READY"]
           rq2 == EnQue(EnQue(ready_que, f), rp)
<1>1. /\ w \in Users /\ Core(w, run_pid, state, ready_que, at, ppid, avail_que, page, space)
      /\ run_pid \in Pids /\ Placed(at) /\ InText(V!Text, at) /\ at[IDLE][1] = "Login"
      /\ state \in [Pids -> States] /\ \A p \in Pids : state[p] # "IO_WAIT"
      /\ wake_in' \in [Pids -> 0..NAP]
      /\ sum \in [Pids -> {0} \cup Sums] /\ report \in [Pids -> Pids \X ({0} \cup Sums)]
  BY DEF VNow, V!SysVFork
<1>2. run_pid \in Users /\ Call(V!Text, at, run_pid) = "vfork" /\ avail_que # << >>
  BY <1>1, VCalls, VSame DEF V!SysVFork, QueEmpty
<1>3. PICK b \in Behind, g \in Started(at[rp][1]) : at' = [b EXCEPT ![f] = <<g, 1>>]
  <2>1. V!Behind = Behind /\ V!Place = at[rp]
    BY VSame DEF V!Behind, V!Place, Behind, Place
  <2>2. V!Started(V!Place[1]) = Started(at[rp][1])
    BY <2>1, VSame
  <2>3. PICK b \in V!Behind, g \in V!Started(V!Place[1]) : at' = [b EXCEPT ![f] = <<g, 1>>]
    BY DEF V!SysVFork
  <2>4. b \in Behind /\ g \in Started(at[rp][1])
    BY <2>1, <2>2
  <2> HIDE DEF f, rp
  <2> QED
    BY <2>3, <2>4
<1>4. Steps(at, rp, b)
  <2>1. PICK n \in Onward(at[rp][1], at[rp][2]) : b = [at EXCEPT ![rp][2] = n]
    BY DEF Behind, Place
  <2>2. at[rp] \in Programs \X Nat
    BY <1>1 DEF Placed
  <2>3. [at[rp] EXCEPT ![2] = n] = <<at[rp][1], n>>
    BY <2>2
  <2>4. [at EXCEPT ![rp][2] = n] = [at EXCEPT ![rp] = [at[rp] EXCEPT ![2] = n]]
    OBVIOUS
  <2> QED
    BY <2>1, <2>3, <2>4 DEF Steps
<1> DEFINE A == V!Allocated
<1>5. A \in SUBSET Pages /\ \A n \in A : page[n] = NONE
  BY VSame DEF V!Allocated
<1>6. /\ ppid' = [ppid EXCEPT ![f] = rp] /\ avail_que' = Tail(avail_que)
      /\ page' = Given(page, A, f) /\ space' = Moved(space, A, f)
      /\ sum' = [sum EXCEPT ![f] = 0] /\ report' = [report EXCEPT ![f] = <<0, 0>>]
  <2>1. V!Pages = Pages /\ V!AfterDeQue(avail_que) = AfterDeQue(avail_que)
    BY VSame
  <2>2. avail_que' = Tail(avail_que)
    BY <1>2, <2>1 DEF V!SysVFork, AfterDeQue, QueEmpty
  <2>3. page' = Given(page, A, f)
    BY <2>1 DEF V!SysVFork, Given
  <2>4. ppid' = [ppid EXCEPT ![f] = rp] /\ space' = Moved(space, A, f)
    BY DEF V!SysVFork, Moved
  <2>5. sum' = [sum EXCEPT ![f] = 0] /\ report' = [report EXCEPT ![f] = <<0, 0>>]
    BY DEF V!SysVFork
  <2> QED
    BY <2>2, <2>3, <2>4, <2>5
<1>7. Scheduler(NONE, st2, rq2, 0)
  <2>1. V!Demote([state EXCEPT ![f] = "READY"], EnQue(ready_que, f))
    BY VSame DEF V!SysVFork
  <2> QED
    BY <2>1, VEnds
<1> HIDE DEF A
<1>8. /\ f \in Pids /\ f # Login /\ f # IDLE /\ rp = w /\ InText(V!Text, at')
      /\ at'[f] = <<g, 1>> /\ at'[IDLE] = at[IDLE]
      /\ Core(f, NONE, st2, rq2, at', ppid', avail_que', page', space')
  <2> HIDE DEF f, rp
  <2>1. /\ Core(w, rp, state, ready_que, at, ppid, avail_que, page, space)
        /\ rp \in Users /\ Call(V!Text, at, rp) = "vfork"
    BY <1>1, <1>2 DEF rp
  <2>2. LET a2 == [b EXCEPT ![f] = <<g, 1>>]
        IN  /\ f \in Pids /\ f # Login /\ rp = w
            /\ InText(V!Text, a2) /\ a2[f] = <<g, 1>>
            /\ \A p \in Pids : p \notin {w, f} => a2[p] = at[p]
            /\ Core(f, NONE, st2, rq2, a2, [ppid EXCEPT ![f] = rp], Tail(avail_que),
                    Given(page, A, f), Moved(space, A, f))
    <3>1. Steps(at, rp, b) /\ g \in Started(at[rp][1])
      BY <1>3, <1>4 DEF rp
    <3>2. Forked(V!Text, w, rp, state, ready_que, at, ppid, avail_que, page, space, b, g, A)
      BY <1>1, <1>2, <1>5, <2>1, <3>1, VTextFollows, CoreForks
    <3> QED
      BY <3>2 DEF Forked, f, st2, rq2
  <2>3. f \in Users
    BY <2>2 DEF Core, Scene
  <2>4. IDLE \in Pids /\ IDLE \notin {w, f}
    BY <1>1, <2>3, PidFacts
  <2> QED
    BY <1>3, <1>6, <2>2, <2>4
<1>9. f \in Users /\ \A p \in Pids : st2[p] # "IO_WAIT"
  <2>1. f \in Users
    BY <1>8, PidFacts
  <2> HIDE DEF f, rp
  <2> QED
    BY <1>1, <2>1
<1>10. /\ sum' \in [Pids -> {0} \cup Sums] /\ report' \in [Pids -> Pids \X ({0} \cup Sums)]
       /\ at'[IDLE][1] = "Login"
  <2>1. <<0, 0>> \in Pids \X ({0} \cup Sums)
    BY PidFacts DEF IDLE
  <2> HIDE DEF f
  <2> QED
    BY <1>1, <1>6, <1>8, <2>1
<1> HIDE DEF st2, rq2, f, rp
<1>11. NONE \in Pids \cup {NONE} /\ (NONE > IDLE => 0 \in 0..BURST)
  BY PidFacts
<1>12. /\ Kernel' /\ (\A p \in Pids : state'[p] # "IO_WAIT")
       /\ Scene(f, run_pid', state', ready_que', at', ppid')
  BY <1>1, <1>7, <1>8, <1>9, <1>11, VReturns
<1>13. VReport'
  <2>1. CASE f # Shell
    BY <1>12, <2>1, NoReport
  <2>2. CASE f = Shell
    BY <1>8, <2>2 DEF VReport
  <2> QED
    BY <2>1, <2>2
<1> QED
  BY <1>8, <1>10, <1>12, <1>13 DEF VTables

LEMMA VExitKeeps ==
  ASSUME NEW w, VNow(w), V!SysExit PROVE VTables'
<1> DEFINE rp == run_pid
<1>1. /\ w \in Users /\ Core(w, rp, state, ready_que, at, ppid, avail_que, page, space)
      /\ rp \in Pids /\ Placed(at) /\ InText(V!Text, at) /\ state \in [Pids -> States]
      /\ \A p \in Pids : state[p] # "IO_WAIT"
      /\ sum \in [Pids -> {0} \cup Sums] /\ report \in [Pids -> Pids \X ({0} \cup Sums)]
      /\ VReport /\ at[IDLE][1] = "Login"
  BY DEF VNow
<1>2. rp \in Users /\ Call(V!Text, at, rp) = "exit"
  BY <1>1, VCalls DEF V!SysExit
<1>3. /\ UNCHANGED <<at, ppid, space, sum>> /\ wake_in' \in [Pids -> 0..NAP]
      /\ page' = Freed(page, rp)
  <2>1. V!Pages = Pages /\ V!NONE = NONE
    BY VSame
  <2>2. page' = Freed(page, rp)
    BY <2>1 DEF V!SysExit, V!Reclaimed, Freed
  <2> QED
    BY <2>2 DEF VNow, V!SysExit
<1>4. /\ Shell \in Users /\ Login \in Users /\ Shell # Login /\ Users \subseteq Pids
      /\ NONE \in Pids \cup {NONE} /\ (NONE > IDLE => 0 \in 0..BURST)
  BY PidFacts
<1>5. CASE /\ rp = w /\ w \notin {Login, Shell} /\ ppid[rp] = Shell /\ state[Shell] = "WAIT"
           /\ ready_que = << >> /\ at[Shell] = <<"Shell", 5>>
           /\ Core(Shell, NONE, [[state EXCEPT ![Shell] = "READY"] EXCEPT ![rp] = "AVAIL"],
                   EnQue(ready_que, Shell), at, ppid, EnQue(avail_que, rp), Freed(page, rp), space)
  <2> DEFINE st2 == [[state EXCEPT ![Shell] = "READY"] EXCEPT ![rp] = "AVAIL"]
             rq2 == EnQue(ready_que, Shell)
  <2>1. /\ V!Leave(st2, rq2) /\ avail_que' = EnQue(avail_que, rp)
        /\ report' = [report EXCEPT ![Shell] = <<rp, sum[rp]>>]
    <3>1. /\ V!EnQue(ready_que, Shell) = rq2 /\ V!EnQue(avail_que, rp) = EnQue(avail_que, rp)
      BY VSame
    <3> QED
      BY <1>5, <3>1 DEF V!SysExit
  <2>2. Scheduler(NONE, st2, rq2, 0)
    BY <2>1, VEnds
  <2>3. \A p \in Pids : st2[p] # "IO_WAIT"
    BY <1>1, <1>2, <1>4
  <2>4. st2[rp] = "AVAIL"
    BY <1>1
  <2> HIDE DEF st2, rq2
  <2>5. Core(Shell, NONE, st2, rq2, at', ppid', avail_que', page', space')
    BY <1>3, <1>5, <2>1 DEF st2, rq2
  <2>6. /\ Kernel' /\ Kept(st2, state') /\ (\A p \in Pids : state'[p] # "IO_WAIT")
    BY <1>3, <1>4, <2>2, <2>3, <2>5, VReturns
  <2>7. state'[rp] = "AVAIL"
    BY <1>1, <2>4, <2>6 DEF Kept, Idling
  <2> HIDE DEF rp
  <2>8. <<rp, sum[rp]>> \in Pids \X ({0} \cup Sums)
    BY <1>1
  <2>9. report' \in [Pids -> Pids \X ({0} \cup Sums)] /\ report'[Shell] = <<rp, sum[rp]>>
    BY <1>1, <1>4, <2>1, <2>8
  <2>10. VReport'
    BY <1>2, <1>3, <1>5, <2>7, <2>9 DEF VReport
  <2> QED
    BY <1>1, <1>3, <2>6, <2>9, <2>10 DEF VTables, InText
<1>6. CASE /\ rp = Login /\ w = Shell /\ state[ppid[rp]] # "WAIT"
           /\ Core(Shell, NONE, [state EXCEPT ![rp] = "ZOMBIE"], ready_que, at, ppid,
                   avail_que, Freed(page, rp), space)
  <2> DEFINE st2 == [state EXCEPT ![rp] = "ZOMBIE"]
  <2>1. V!Leave(st2, ready_que) /\ UNCHANGED <<report, avail_que>>
    BY <1>6 DEF V!SysExit
  <2>2. Scheduler(NONE, st2, ready_que, 0)
    BY <2>1, VEnds
  <2>3. state[rp] \notin {"AVAIL", "WAIT"}
    <3>1. Turn(w, rp, state, ready_que, at, "exit")
      <4>1. Scene(w, rp, state, ready_que, at, ppid) /\ at[rp][2] \in DOMAIN V!Text[at[rp][1]]
        BY <1>1 DEF Core, InText
      <4> QED
        BY <1>2, <4>1, VTextFollows, RunsScene
    <3> QED
      BY <3>1 DEF Turn
  <2>4. /\ \A p \in Pids : st2[p] # "IO_WAIT"
        /\ \A p \in Pids : \A s \in {"AVAIL", "WAIT"} : st2[p] = s <=> state[p] = s
    BY <1>1, <2>3
  <2> HIDE DEF st2, rp
  <2>5. Core(Shell, NONE, st2, ready_que, at', ppid', avail_que', page', space')
    BY <1>3, <1>6, <2>1 DEF st2
  <2>6. /\ Kernel' /\ Kept(st2, state') /\ (\A p \in Pids : state'[p] # "IO_WAIT")
    BY <1>3, <1>4, <2>2, <2>4, <2>5, VReturns
  <2>7. \A p \in Pids : \A s \in {"AVAIL", "WAIT"} : state'[p] = s <=> state[p] = s
    <3>1. \A p \in Pids : \A s \in {"AVAIL", "WAIT"} : state'[p] = s <=> st2[p] = s
      BY <2>6 DEF Kept, Idling
    <3> QED
      BY <2>4, <3>1
  <2>8. UNCHANGED <<ppid, report, sum>> /\ (at'[Shell][2] \in 5..10 => at[Shell][2] \in 5..10)
    BY <1>3, <2>1
  <2>9. VReport'
    BY <1>1, <2>7, <2>8, ReportKept
  <2> QED
    BY <1>1, <1>3, <2>1, <2>6, <2>9 DEF VTables, InText
<1>7. \/ /\ rp = w /\ w \notin {Login, Shell} /\ ppid[rp] = Shell /\ state[Shell] = "WAIT"
         /\ ready_que = << >> /\ at[Shell] = <<"Shell", 5>>
         /\ Core(Shell, NONE, [[state EXCEPT ![Shell] = "READY"] EXCEPT ![rp] = "AVAIL"],
                 EnQue(ready_que, Shell), at, ppid, EnQue(avail_que, rp), Freed(page, rp), space)
      \/ /\ rp = Login /\ w = Shell /\ state[ppid[rp]] # "WAIT"
         /\ Core(Shell, NONE, [state EXCEPT ![rp] = "ZOMBIE"], ready_que, at, ppid,
                 avail_que, Freed(page, rp), space)
  <2> HIDE DEF rp
  <2> QED
    BY <1>1, <1>2, VTextFollows, CoreExits
<1> QED
  BY <1>5, <1>6, <1>7

LEMMA VWaitKeeps ==
  ASSUME NEW w, VNow(w), V!SysWait PROVE VTables'
<1> DEFINE rp == run_pid
           st2 == [state EXCEPT ![rp] = "WAIT"]
<1>1. /\ w \in Users /\ Core(w, rp, state, ready_que, at, ppid, avail_que, page, space)
      /\ rp \in Pids /\ Placed(at) /\ InText(V!Text, at) /\ state \in [Pids -> States]
      /\ \A p \in Pids : state[p] # "IO_WAIT"
      /\ sum \in [Pids -> {0} \cup Sums] /\ report \in [Pids -> Pids \X ({0} \cup Sums)]
      /\ at[IDLE][1] = "Login" /\ wake_in \in [Pids -> 0..NAP]
  BY DEF VNow
<1>2. rp \in Users /\ Call(V!Text, at, rp) = "wait" /\ Steps(at, rp, at')
  BY <1>1, VCalls DEF V!SysWait
<1>3. /\ rp = Shell /\ InText(V!Text, at')
      /\ \A c \in Pids : ~(state[c] = "ZOMBIE" /\ ppid[c] = rp)
      /\ Core(w, NONE, st2, ready_que, at', ppid, avail_que, page, space)
  <2> HIDE DEF rp
  <2> QED
    BY <1>1, <1>2, VTextFollows, CoreWaits
<1>4. V!Zombies(rp) = {}
  BY <1>3, VSame DEF V!Zombies
<1>5. /\ V!Leave(st2, ready_que) /\ UNCHANGED <<avail_que, page, report>>
      /\ UNCHANGED <<ppid, wake_in, space, sum>>
  BY <1>4 DEF V!SysWait
<1>6. Scheduler(NONE, st2, ready_que, 0)
  BY <1>5, VEnds
<1>7. \A p \in Pids : st2[p] # "IO_WAIT"
  BY <1>1
<1>8. st2[Shell] = "WAIT"
  BY <1>1, <1>3
<1>9. NONE \in Pids \cup {NONE} /\ (NONE > IDLE => 0 \in 0..BURST) /\ Shell \in Pids
  BY PidFacts
<1>10. at'[IDLE] = at[IDLE]
  BY <1>2, PidFacts DEF Steps
<1> HIDE DEF st2, rp
<1>11. Core(w, NONE, st2, ready_que, at', ppid', avail_que', page', space')
  BY <1>3, <1>5
<1>12. /\ Kernel' /\ Kept(st2, state') /\ (\A p \in Pids : state'[p] # "IO_WAIT")
  BY <1>1, <1>5, <1>6, <1>7, <1>9, <1>11, VReturns
<1>13. state'[Shell] = "WAIT"
  BY <1>8, <1>9, <1>12 DEF Kept, Idling
<1>14. VReport'
  BY <1>13 DEF VReport
<1> QED
  BY <1>1, <1>3, <1>5, <1>10, <1>12, <1>14 DEF VTables

\* A step that leaves the tables alone: an access of DeQue.
LEMMA VTablesStay ==
  ASSUME VTables,
         UNCHANGED <<V!sched, avail_que, ppid, wake_in, V!memory, V!program>>
  PROVE  VTables'
<1>1. PICK w : VNow(w)
  BY VNowExists
<1>2. /\ w \in Users /\ Core(w, run_pid, state, ready_que, at, ppid, avail_que, page, space)
      /\ run_pid \in Pids /\ time_count \in 0..BURST /\ wake_in \in [Pids -> 0..NAP]
  BY <1>1 DEF VNow
<1>3. /\ UNCHANGED <<run_pid, state, ready_que, time_count, avail_que, ppid, wake_in, page, space>>
      /\ UNCHANGED <<at, sum, report>>
  BY DEF V!sched, V!memory, V!program
<1>4. Core(w, run_pid', state', ready_que', at', ppid', avail_que', page', space')
  BY <1>2, <1>3
<1>5. Kernel'
  BY <1>2, <1>3, <1>4 DEF Kernel
<1>6. VReport'
  BY <1>3 DEF VTables, VReport
<1> QED
  BY <1>3, <1>5, <1>6 DEF VTables, InText

LEMMA TablesNext ==
  ASSUME V!VirtualShellAssumption, VTables, V!Next \/ UNCHANGED V!vars PROVE VTables'
<1>1. PICK w : VNow(w)
  BY VNowExists
<1>2. CASE V!TimerSR
  BY <1>1, <1>2, VTimerSRKeeps
<1>3. CASE V!SysWrite \/ V!SysGetRand \/ V!SysWriteEcho
  BY <1>1, <1>3, VWritesKeeps
<1>4. CASE V!SysSleep
  BY <1>1, <1>4, VSleepKeeps
<1>5. CASE V!SysVFork
  BY <1>1, <1>5, VForkKeeps
<1>6. CASE V!SysExit
  BY <1>1, <1>6, VExitKeeps
<1>7. CASE V!SysWait
  BY <1>1, <1>7, VWaitKeeps
<1>8. CASE V!TakeHead \/ V!Shift \/ V!Lower \/ V!Aim \/ V!Clear
  BY <1>8, VTablesStay DEF V!TakeHead, V!Shift, V!Lower, V!Aim, V!Clear, V!InProcess
<1>9. CASE UNCHANGED V!vars
  BY <1>9, VTablesStay DEF V!vars
<1> QED
  BY <1>2, <1>3, <1>4, <1>5, <1>6, <1>7, <1>8, <1>9 DEF V!Next, V!Runs, V!sys_read

LEMMA VTablesInit == ASSUME V!VirtualShellAssumption, V!Init PROVE VTables
<1>1. /\ V!Spawned = {IDLE, Login} /\ V!Pids = Pids /\ V!Pages = Pages /\ V!NONE = NONE
      /\ V!IDLE = IDLE /\ V!Login = Login
  BY VSame DEF V!Spawned
<1>2. /\ run_pid = IDLE /\ time_count = 0 /\ ready_que = <<Login>>
      /\ state = [p \in Pids |-> IF p \in {IDLE, Login} THEN "READY" ELSE "AVAIL"]
      /\ avail_que = [n \in 1..(QUE_MAX - 2) |-> n + 1]
      /\ ppid = [p \in Pids |-> IDLE] /\ wake_in = [p \in Pids |-> 0]
      /\ page = [n \in Pages |-> IF n \in {IDLE, Login} THEN n ELSE NONE]
      /\ space = [p \in Pids |-> IF p \in {IDLE, Login} THEN {p} ELSE {}]
      /\ at = [p \in Pids |-> <<"Login", 1>>] /\ sum = [p \in Pids |-> 0]
      /\ report = [p \in Pids |-> <<0, 0>>]
  BY <1>1 DEF V!Init
<1>3. Core(Login, run_pid, state, ready_que, at, ppid, avail_que, page, space)
  BY <1>2, CoreInit
<1>4. 0 \in 0..BURST /\ 0 \in 0..NAP
  BY TeletypeAssumption DEF TeletypeAssumption
<1>5. Kernel
  BY <1>2, <1>3, <1>4, PidFacts DEF Kernel
<1>6. (\A p \in Pids : state[p] # "IO_WAIT") /\ at[IDLE][1] = "Login"
  BY <1>2, PidFacts
<1>7. InText(V!Text, at)
  BY <1>2, VTextFollows, InTextInit
<1>8. sum \in [Pids -> {0} \cup Sums] /\ report \in [Pids -> Pids \X ({0} \cup Sums)]
  <2>1. <<0, 0>> \in Pids \X ({0} \cup Sums)
    BY PidFacts DEF IDLE
  <2> QED
    BY <1>2, <2>1
<1>9. VReport
  <2>1. state[Shell] = "AVAIL"
    BY <1>2, PidFacts
  <2> QED
    BY <2>1 DEF VReport
<1> QED
  BY <1>5, <1>6, <1>7, <1>8, <1>9 DEF VTables

LEMMA VBufferInit == ASSUME V!VirtualShellAssumption, V!Init PROVE VBuffer
<1>1. /\ kb = [que |-> [n \in 0..(QUE_MAX - 1) |-> 0], tail |-> 0]
      /\ reader = [step |-> "look", i |-> 0, aim |-> 0, head |-> 0, index |-> 0]
      /\ typed = KEY_MOD /\ seen = KEY_MOD /\ raced = FALSE
  BY DEF V!Init
<1>2. /\ QUE_MAX \in Nat /\ AHEAD \in Nat /\ AHEAD < QUE_MAX /\ STR_MAX \in Nat /\ STR_MAX >= 2
      /\ KEY_MOD \in Nat /\ KEY_MOD > AHEAD + 1 /\ V!Keys = 1..KEY_MOD
  BY VConstants
<1>3. 0 \in 0..AHEAD /\ 0 \in 0..(QUE_MAX - 1) /\ 0 \in 0..(STR_MAX - 2) /\ KEY_MOD \in V!Keys
  BY <1>2
<1>4. kb \in Buffers /\ reader \in Readers /\ kb.tail = 0 /\ reader.step = "look"
  BY <1>1, <1>3 DEF Buffers, Readers
<1>5. Within(reader, kb)
  BY <1>4 DEF Within
<1>6. V!After(seen, 0) = seen
  BY <1>1, <1>3, AfterNext
<1>7. 0..(0 - 1) = {}
  OBVIOUS
<1>8. Ordered(reader, seen, kb, typed)
  BY <1>1, <1>4, <1>6, <1>7 DEF Ordered
<1> QED
  BY <1>1, <1>3, <1>4, <1>5, <1>8 DEF VBuffer

LEMMA VTypes == ASSUME VInv PROVE V!TypeOK
<1>1. /\ run_pid \in Pids /\ time_count \in 0..BURST /\ wake_in \in [Pids -> 0..NAP]
      /\ (\A p \in Pids : state[p] # "IO_WAIT") /\ InText(V!Text, at)
      /\ sum \in [Pids -> {0} \cup Sums] /\ report \in [Pids -> Pids \X ({0} \cup Sums)]
  BY DEF VInv, VTables, Kernel
<1>2. /\ kb \in Buffers /\ reader \in Readers
      /\ typed \in V!Keys /\ seen \in V!Keys /\ raced \in BOOLEAN
  BY DEF VInv, VBuffer
<1>3. PICK w \in Users :
        Core(w, run_pid, state, ready_que, at, ppid, avail_que, page, space)
  BY DEF VInv, VTables, Kernel
<1>4. /\ Scene(w, run_pid, state, ready_que, at, ppid) /\ Pool(w, state, avail_que)
      /\ ppid \in [Pids -> Pids]
      /\ page \in [Pages -> Pids \cup {NONE}] /\ space \in [Pids -> SUBSET Pages]
  BY <1>3 DEF Core, Owned
<1>5. state \in [Pids -> {"AVAIL", "READY", "RUN", "SLEEP", "WAIT", "ZOMBIE"}]
  <2>1. state \in [Pids -> States]
    BY <1>4, SceneStates
  <2> QED
    BY <1>1, <2>1 DEF States
<1>6. /\ V!IsInjective(ready_que \o avail_que) /\ V!Range(ready_que \o avail_que) \subseteq Pids
  <2> DEFINE q == ready_que \o avail_que
  <2>1. V!IsInjective(q) <=> IsInjective(q)
    BY DEF V!IsInjective, IsInjective
  <2>2. V!Range(q) = Range(q)
    BY DEF V!Range, Range
  <2>3. Holds(q, {p \in Users : state[p] \in {"READY", "AVAIL"}})
    BY <1>4, QueuesApart
  <2>4. {p \in Users : state[p] \in {"READY", "AVAIL"}} \subseteq Pids
    BY PidFacts
  <2> HIDE DEF q
  <2>5. V!IsInjective(q) /\ V!Range(q) \subseteq Pids
    BY <2>1, <2>2, <2>3, <2>4 DEF Holds
  <2> QED
    BY <2>5 DEF q
<1>7. \A p \in Pids : at[p][2] \in DOMAIN V!Text[at[p][1]]
  BY <1>1 DEF InText
<1>8. /\ kb.que \in [0..(QUE_MAX - 1) -> V!Keys \cup {0, NONE}] /\ kb.tail \in 0..AHEAD
      /\ reader.step \in {"look", "shift", "lower", "aim", "clear", "echo"}
      /\ {reader.i, reader.aim} \subseteq 0..(QUE_MAX - 1) /\ reader.index \in 0..(STR_MAX - 2)
      /\ {typed, seen} \subseteq V!Keys \cup {NONE} /\ raced \in BOOLEAN
  BY <1>2 DEF Buffers, Readers
<1>9. V!Pids = Pids /\ V!Pages = Pages /\ V!NONE = NONE
  BY VSame
<1> QED
  BY <1>1, <1>4, <1>5, <1>6, <1>7, <1>8, <1>9 DEF V!TypeOK

LEMMA VKeys == ASSUME V!VirtualShellAssumption, VInv PROVE V!KeysInOrder
<1> DEFINE t == kb.tail
           s == [n \in 1..t |-> kb.que[n - 1]]
<1>1. /\ kb \in Buffers /\ (~raced => Ordered(reader, seen, kb, typed))
  BY DEF VInv, VBuffer
<1>2. t \in Nat /\ kb.que \in [0..(QUE_MAX - 1) -> V!Keys \cup {0, NONE}] /\ t < QUE_MAX /\ QUE_MAX \in Nat
  BY <1>1, VConstants DEF Buffers
<1>3. s \in Seq(V!Keys \cup {0, NONE}) /\ Len(s) = t /\ \A n \in 1..t : s[n] = kb.que[n - 1]
  <2> DEFINE K == V!Keys \cup {0, NONE}
  <2>1. t \in Nat
    BY <1>2
  <2>2. ASSUME NEW n \in 1..t PROVE kb.que[n - 1] \in K
    <3>1. n - 1 \in 0..(QUE_MAX - 1)
      BY <1>2
    <3> QED
      BY <1>2, <3>1
  <2> HIDE DEF t, K
  <2>3. s \in Seq(K) /\ Len(s) = t /\ \A n \in 1..t : s[n] = kb.que[n - 1]
    BY <2>1, <2>2
  <2> QED
    BY <2>3 DEF K
<1> HIDE DEF s
<1>4. ASSUME ~raced, reader.step = "look"
      PROVE  LET pending == << >> \o s
             IN  /\ \A n \in DOMAIN pending : pending[n] = V!After(seen, n)
                 /\ typed = V!After(seen, Len(pending))
  <2>1. typed = V!After(seen, t) /\ \A n \in 0..(t - 1) : kb.que[n] = V!After(seen, n + 1)
    BY <1>1, <1>4 DEF Ordered
  <2>2. << >> \o s = s /\ DOMAIN s = 1..t
    BY <1>3
  <2>3. ASSUME NEW n \in 1..t PROVE s[n] = V!After(seen, n)
    <3>1. n - 1 \in 0..(t - 1) /\ (n - 1) + 1 = n
      BY <1>2
    <3>2. kb.que[n - 1] = V!After(seen, (n - 1) + 1)
      BY <2>1, <3>1
    <3> QED
      BY <1>3, <3>1, <3>2
  <2> QED
    BY <1>3, <2>1, <2>2, <2>3
<1>5. ASSUME ~raced, reader.step = "echo"
      PROVE  LET pending == <<reader.head>> \o s
             IN  /\ \A n \in DOMAIN pending : pending[n] = V!After(seen, n)
                 /\ typed = V!After(seen, Len(pending))
  <2> DEFINE h == reader.head
             q == <<h>> \o s
  <2>1. /\ h = V!After(seen, 1) /\ typed = V!After(seen, t + 1)
        /\ \A n \in 0..(t - 1) : kb.que[n] = V!After(seen, n + 2)
    BY <1>1, <1>5 DEF Ordered
  <2>2. h \in V!Keys \cup {0, NONE}
    BY DEF VInv, VBuffer, Readers
  <2> HIDE DEF h
  <2>3. <<h>> \in Seq(V!Keys \cup {0, NONE}) /\ Len(<<h>>) = 1 /\ <<h>>[1] = h
    BY <2>2
  <2>4. /\ Len(q) = t + 1 /\ DOMAIN q = 1..(t + 1) /\ q[1] = h
        /\ \A n \in 2..(t + 1) : q[n] = s[n - 1]
    BY <1>2, <1>3, <2>3
  <2>5. ASSUME NEW n \in 1..(t + 1) PROVE q[n] = V!After(seen, n)
    <3>1. CASE n = 1
      BY <2>1, <2>4, <3>1
    <3>2. CASE n # 1
      <4>1. n \in 2..(t + 1) /\ n - 1 \in 1..t /\ n - 2 \in 0..(t - 1)
            /\ (n - 1) - 1 = n - 2 /\ (n - 2) + 2 = n
        BY <1>2, <3>2, SMTT(30)
      <4>2. q[n] = kb.que[n - 2]
        BY <1>3, <2>4, <4>1
      <4>3. kb.que[n - 2] = V!After(seen, (n - 2) + 2)
        BY <2>1, <4>1
      <4> QED
        BY <4>1, <4>2, <4>3
    <3> QED
      BY <3>1, <3>2
  <2> HIDE DEF q
  <2>6. (\A n \in DOMAIN q : q[n] = V!After(seen, n)) /\ typed = V!After(seen, Len(q))
    BY <2>1, <2>4, <2>5
  <2> QED
    BY <2>6 DEF q, h
<1> QED
  BY <1>4, <1>5 DEF V!KeysInOrder, s

LEMMA VSpaces == ASSUME VInv PROVE V!SpacesIntact
<1>1. PICK w \in Users : Owned(state, page, space)
  BY DEF VInv, VTables, Kernel, Core
<1>2. V!Living = Alive(state) /\ V!Pages = Pages /\ V!NONE = NONE
  BY VSame DEF V!Living, Alive
<1> QED
  BY <1>1, <1>2 DEF V!SpacesIntact, Owned

\* Nobody but Shell runs Shell's program.
LEMMA VReporter == ASSUME VInv PROVE V!ReportIsRight
<1>1. PICK w \in Users : Scene(w, run_pid, state, ready_que, at, ppid)
  BY DEF VInv, VTables, Kernel, Core
<1>2. /\ at[IDLE][1] = "Login" /\ VReport
  BY DEF VInv, VTables
<1>3. ASSUME NEW p \in Pids, state[p] \notin {"AVAIL", "ZOMBIE"}, at[p][1] = "Shell"
      PROVE  p = Shell
  <2>1. CASE p = w
    <3>1. at[w][1] \in Program(w)
      BY <1>1 DEF Scene
    <3> QED
      BY <1>3, <2>1, <3>1 DEF Program, Commands
  <2>2. CASE p # w /\ p \in Users
    <3>1. p \in {Login, Shell}
      BY <1>1, <1>3, <2>2, SceneStates
    <3>2. ASSUME p = Login PROVE FALSE
      <4>1. w = Shell
        BY <1>1, <1>3, <2>2, <3>2 DEF Scene, Cast
      <4>2. Paired(w, run_pid, state, ready_que, at)
        BY <1>1, <1>3, <3>2, <4>1 DEF Scene, Alone
      <4>3. at[Login] = <<"Login", 7>>
        BY <4>1, <4>2 DEF Paired, Parent, Last
      <4> QED
        BY <1>3, <3>2, <4>3
    <3> QED
      BY <3>1, <3>2
  <2> QED
    BY <1>2, <1>3, <2>1, <2>2, PidFacts
<1>4. V!IDLE = IDLE /\ V!Pids = Pids
  BY VSame
<1>5. ASSUME NEW p \in V!Living, state[p] # "WAIT", at[p] \in {<<"Shell", n>> : n \in 5..10}
      PROVE  LET c == report[p][1]
             IN c # IDLE /\ ppid[c] = p /\ state[c] = "AVAIL" /\ report[p][2] = sum[c]
  <2>1. /\ p \in Pids /\ state[p] \notin {"AVAIL", "ZOMBIE"}
        /\ at[p][1] = "Shell" /\ at[p][2] \in 5..10
    BY <1>4, <1>5 DEF V!Living
  <2>2. p = Shell
    BY <1>3, <2>1
  <2> QED
    BY <1>2, <1>5, <2>1, <2>2, PidFacts DEF VReport
<1> QED
  BY <1>4, <1>5 DEF V!ReportIsRight

\* VInv is inductive.  VirtualShellProofs.tla draws the conclusions.
LEMMA VInitial == ASSUME V!VirtualShellAssumption, V!Init PROVE VInv
BY VTablesInit, VBufferInit DEF VInv

LEMMA VStep == ASSUME V!VirtualShellAssumption, VInv, [V!Next]_(V!vars) PROVE VInv'
BY TablesNext, BufferNext DEF VInv
=============================================================================
