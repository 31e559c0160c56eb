---------------------------- MODULE KernelProofs ----------------------------
(***************************************************************************)
(* For every number of processes, queue capacity, time slice, clock width  *)
(* and every use of the services: the process table and the queues of      *)
(* Kernel.tla agree.  The inductive invariant is the conjunction of the    *)
(* invariants TLC checks and of the fact that a pid no queue ever held     *)
(* stays free.                                                             *)
(*                                                                         *)
(* An action is followed in the order of the code: the service routine     *)
(* moves processes between states and queues, one lemma per kind of move,  *)
(* and SchedulerLemma takes the tables so obtained through Scheduler().    *)
(***************************************************************************)
EXTENDS Kernel, QueueArray, QueueProofs

\* The users a table st has in state s.
In(st, s) == {p \in Users : st[p] = s}

Parked == States \ {"READY", "RUN"}

\* The table after one process, or a set of processes, changed state.
Put(st, p, s) == [st EXCEPT ![p] = s]
Wake(st, B) == [p \in Pids |-> IF p \in B THEN "READY" ELSE st[p]]

\* The tables agree on who wants the CPU while run_pid is rp.
Lined(rp, st, rq) ==
  /\ st \in [Pids -> States] /\ rq \in Seq(Pids)
  /\ Holds(rq, In(st, "READY"))
  /\ rp > IDLE => In(st, "RUN") = {rp} /\ st[IDLE] = "READY"
  /\ rp <= IDLE => In(st, "RUN") = {} /\ st[IDLE] \in {"READY", "RUN"}
  /\ \A p \in Pids \ Users : st[p] \in {"READY", "RUN", "AVAIL"}

CpuInv ==
  /\ run_pid \in Pids /\ time_count \in 0..(TIME_MAX - 1)
  /\ Lined(run_pid, state, ready_que)

\* Two queues hold a set between them.
Share(q1, q2, S) ==
  /\ q1 \in Seq(Pids) /\ q2 \in Seq(Pids)
  /\ Holds(q1, Range(q1)) /\ Holds(q2, Range(q2))
  /\ Range(q1) \cap Range(q2) = {} /\ Range(q1) \cup Range(q2) = S

QueuesInv ==
  /\ avail_que \in Seq(Pids) /\ suspend_que \in Seq(Pids)
  /\ Holds(avail_que, In(state, "AVAIL"))
  /\ Holds(suspend_que, In(state, "SUSPEND"))
  /\ Share(dsp_wait_que, kb_wait_que, In(state, "IO_WAIT"))

DataInv ==
  /\ ppid \in [Pids -> Pids]
  /\ wake_time \in [Pids -> 0..(TIME_MOD - 1)] /\ sys_time_count \in 0..(TIME_MOD - 1)
  /\ lock \in {"LOCKED", "UNLOCKED"}
  /\ lock = "UNLOCKED" => suspend_que = << >>

IInv == CpuInv /\ QueuesInv /\ DataInv

-----------------------------------------------------------------------------
LEMMA PidFacts ==
  /\ PROC_MAX \in Nat /\ QUE_MAX \in Nat /\ QUE_MAX >= 2
  /\ IDLE \in Pids /\ IDLE \notin Users /\ Users \subseteq Pids /\ Pids \subseteq Int
  /\ IsFiniteSet(Users) /\ Cardinality(Users) <= QUE_MAX
  /\ IsFiniteSet(Pids)
  /\ \A p \in Pids : p > IDLE <=> p # IDLE
  /\ ~(NONE > IDLE) /\ NONE <= IDLE /\ NONE \notin Pids
<1>1. PROC_MAX \in Nat /\ QUE_MAX \in Nat /\ QUE_MAX >= 2 /\ QUE_MAX <= PROC_MAX
  BY QueueAssumption
<1>2. IsFiniteSet(Users) /\ Cardinality(Users) <= QUE_MAX
  BY <1>1, FS_Interval DEF Users
<1>3. IsFiniteSet(Pids)
  BY <1>1, FS_Interval DEF Pids
<1> QED
  BY <1>1, <1>2, <1>3 DEF Pids, Users, IDLE, NONE

\* Scheduler() hands the CPU over and parks nobody.
LEMMA SchedulerLemma ==
  ASSUME NEW rp \in Pids \cup {NONE}, NEW st, NEW rq, NEW ticks,
         Lined(rp, st, rq), rp > IDLE => ticks \in 0..(TIME_MAX - 1),
         Scheduler(rp, st, rq, ticks)
  PROVE  CpuInv' /\ \A s \in Parked : In(state', s) = In(st, s)
<1> USE PidFacts
<1>0. TIME_MAX \in Nat \ {0}
  BY TimeAssumption
<1>1. CASE rp > IDLE
  <2>1. rp \in Pids
    BY <1>1
  <2>2. run_pid' = rp /\ state' = st /\ ready_que' = rq /\ time_count' = ticks
    BY <1>1, <2>1 DEF Scheduler, Pids, IDLE
  <2> QED
    BY <1>1, <2>1, <2>2 DEF CpuInv
<1>2. CASE rp <= IDLE /\ QueEmpty(rq)
  <2>1. /\ run_pid' = IDLE /\ state' = [st EXCEPT ![IDLE] = "RUN"]
        /\ ready_que' = rq /\ time_count' = 0
    BY <1>2 DEF Scheduler, QueEmpty, Pids, IDLE, NONE
  <2>2. state' \in [Pids -> States] /\ rq \in Seq(Pids)
    BY <2>1 DEF Lined, States
  <2>3. \A s : In(state', s) = In(st, s)
    BY <2>1 DEF In, Lined
  <2>4. state'[IDLE] = "RUN" /\ \A p \in Pids \ Users : state'[p] \in {"READY", "RUN", "AVAIL"}
    BY <2>1 DEF Lined
  <2>5. Lined(IDLE, state', rq)
    BY <1>2, <2>2, <2>3, <2>4 DEF Lined, IDLE
  <2>6. 0 \in 0..(TIME_MAX - 1)
    BY <1>0
  <2>7. Lined(run_pid, state, ready_que)'
    BY <2>1, <2>5 DEF Lined
  <2> QED
    BY <2>1, <2>3, <2>6, <2>7 DEF CpuInv
<1>3. CASE rp <= IDLE /\ ~QueEmpty(rq)
  <2> DEFINE h == Head(rq)
  <2>1. /\ run_pid' = h /\ state' = [st EXCEPT ![IDLE] = "READY", ![h] = "RUN"]
        /\ ready_que' = Tail(rq) /\ time_count' = 0
    BY <1>3 DEF Scheduler, AfterDeQue, Pids, IDLE, NONE
  <2>2. /\ h \in In(st, "READY") /\ Tail(rq) \in Seq(Pids)
        /\ Holds(Tail(rq), In(st, "READY") \ {h})
    BY <1>3, HoldsTail DEF Lined, QueEmpty
  <2>3. h \in Users /\ h \in Pids /\ h # IDLE /\ st[h] = "READY"
    BY <2>2 DEF In
  <2>4. state' \in [Pids -> States]
    BY <2>1, <2>3 DEF Lined, States
  <2>5. In(state', "READY") = In(st, "READY") \ {h}
    BY <2>1, <2>3 DEF In, Lined
  <2>6. In(state', "RUN") = {h} /\ state'[IDLE] = "READY"
    BY <1>3, <2>1, <2>3 DEF In, Lined
  <2>7. \A s \in Parked : In(state', s) = In(st, s)
    BY <2>1, <2>3 DEF In, Lined, Parked
  <2>8. \A p \in Pids \ Users : state'[p] \in {"READY", "RUN", "AVAIL"}
    BY <2>1, <2>3 DEF Lined
  <2>9. h > IDLE /\ ~(h <= IDLE)
    BY <2>3 DEF Pids, IDLE
  <2>10. Lined(h, state', Tail(rq))
    BY <2>2, <2>4, <2>5, <2>6, <2>8, <2>9 DEF Lined
  <2>11. 0 \in 0..(TIME_MAX - 1)
    BY <1>0
  <2>12. Lined(run_pid, state, ready_que)'
    BY <2>1, <2>10 DEF Lined
  <2> QED
    BY <2>1, <2>3, <2>7, <2>11, <2>12 DEF CpuInv
<1> QED
  BY <1>1, <1>2, <1>3 DEF Scheduler

\* A parked user becomes ready: everyone's wake-up.
LEMMA WakeLemma ==
  ASSUME NEW rp, NEW st, NEW rq, Lined(rp, st, rq),
         NEW p \in Users, NEW w \in Parked, st[p] = w
  PROVE  /\ Lined(rp, Put(st, p, "READY"), EnQue(rq, p))
         /\ In(Put(st, p, "READY"), w) = In(st, w) \ {p}
         /\ \A s \in Parked \ {w} : In(Put(st, p, "READY"), s) = In(st, s)
         /\ \A q \in Pids : q # p => Put(st, p, "READY")[q] = st[q]
<1> USE PidFacts
<1> DEFINE st2 == Put(st, p, "READY")
<1> USE DEF Put
<1>1. p \in Pids /\ p # IDLE /\ st[p] \notin {"READY", "RUN"} /\ st \in [Pids -> States]
  BY DEF Lined, Parked
<1>2. In(st2, "READY") = In(st, "READY") \cup {p} /\ p \notin In(st, "READY")
  BY <1>1 DEF In
<1>3. EnQue(rq, p) \in Seq(Pids) /\ Holds(EnQue(rq, p), In(st2, "READY"))
  <2>1. In(st, "READY") \cup {p} \subseteq Users
    BY DEF In
  <2>2. rq \in Seq(Pids) /\ Holds(rq, In(st, "READY"))
    BY DEF Lined
  <2>3. /\ EnQue(rq, p) \in Seq(Pids)
        /\ Holds(EnQue(rq, p), In(st, "READY") \cup {p})
    BY <1>1, <1>2, <2>1, <2>2, EnQueHolds
  <2> QED
    BY <1>2, <2>3
<1>4. st2 \in [Pids -> States] /\ st2[IDLE] = st[IDLE]
  BY <1>1 DEF States
<1>5. In(st2, "RUN") = In(st, "RUN")
  BY <1>1 DEF In
<1>6. \A q \in Pids \ Users : st2[q] = st[q]
  BY <1>1
<1>7. Lined(rp, st2, EnQue(rq, p))
  BY <1>3, <1>4, <1>5, <1>6 DEF Lined
<1>8. In(st2, w) = In(st, w) \ {p}
  BY <1>1 DEF In
<1>9. \A s \in Parked \ {w} : In(st2, s) = In(st, s)
  BY <1>1 DEF In, Parked
<1>10. \A q \in Pids : q # p => st2[q] = st[q]
  BY <1>1
<1> QED
  BY <1>7, <1>8, <1>9, <1>10

\* A set of sleepers becomes ready, in the order of the pcb array.
LEMMA WakeAllLemma ==
  ASSUME NEW rp, NEW st, NEW rq, Lined(rp, st, rq),
         NEW B \in SUBSET Pids, \A p \in B : st[p] = "SLEEP",
         NEW batch \in InOrder(B)
  PROVE  /\ Lined(rp, Wake(st, B), EnQueAll(rq, batch))
         /\ \A s \in Parked \ {"SLEEP"} : In(Wake(st, B), s) = In(st, s)
         /\ \A q \in Pids : st[q] # "SLEEP" => Wake(st, B)[q] = st[q]
<1> USE PidFacts
<1> DEFINE st2 == Wake(st, B)
<1> USE DEF Wake
<1>1. B \subseteq Users /\ st \in [Pids -> States]
  BY DEF Lined
<1>2. batch \in Seq(B) /\ Holds(batch, B)
  <2>1. IsFiniteSet(B) /\ B \subseteq Int
    BY FS_Subset
  <2> QED
    BY <2>1, InOrderHolds
<1>3. batch \in Seq(Pids)
  BY <1>2, SeqMonotonic
<1>4. In(st2, "READY") = In(st, "READY") \cup B /\ In(st, "READY") \cap B = {}
  BY <1>1 DEF In
<1>5. EnQueAll(rq, batch) \in Seq(Pids) /\ Holds(EnQueAll(rq, batch), In(st2, "READY"))
  <2>1. In(st, "READY") \cup B \subseteq Users
    BY <1>1 DEF In
  <2>2. rq \in Seq(Pids) /\ Holds(rq, In(st, "READY"))
    BY DEF Lined
  <2>3. /\ EnQueAll(rq, batch) \in Seq(Pids)
        /\ Holds(EnQueAll(rq, batch), In(st, "READY") \cup B)
    BY <1>2, <1>3, <1>4, <2>1, <2>2, EnQueAllHolds
  <2> QED
    BY <1>4, <2>3
<1>6. st2 \in [Pids -> States] /\ st2[IDLE] = st[IDLE]
  BY <1>1 DEF States
<1>7. In(st2, "RUN") = In(st, "RUN")
  BY <1>1 DEF In
<1>8. \A q \in Pids \ Users : st2[q] = st[q]
  BY <1>1
<1>9. Lined(rp, st2, EnQueAll(rq, batch))
  BY <1>5, <1>6, <1>7, <1>8 DEF Lined
<1>10. \A s \in Parked \ {"SLEEP"} : In(st2, s) = In(st, s)
  BY <1>1 DEF In, Parked
<1>11. \A q \in Pids : st[q] # "SLEEP" => st2[q] = st[q]
  OBVIOUS
<1> QED
  BY <1>9, <1>10, <1>11

\* The running process is parked in state s.
LEMMA LeaveLemma ==
  ASSUME NEW r \in Pids, r # IDLE, NEW st, NEW rq, Lined(r, st, rq), NEW s \in Parked
  PROVE  /\ Lined(NONE, Put(st, r, s), rq)
         /\ r \in Users /\ r \notin In(st, s) /\ In(Put(st, r, s), s) = In(st, s) \cup {r}
         /\ \A t \in Parked \ {s} : In(Put(st, r, s), t) = In(st, t)
<1> USE PidFacts
<1> DEFINE st2 == Put(st, r, s)
<1> USE DEF Put
<1>1. /\ r \in Users /\ st[r] = "RUN" /\ st[IDLE] = "READY" /\ st \in [Pids -> States]
      /\ In(st, "RUN") = {r}
  BY DEF Lined, In
<1>2. st2 \in [Pids -> States] /\ st2[IDLE] = "READY"
  BY <1>1 DEF States, Parked
<1>3. In(st2, "READY") = In(st, "READY") /\ In(st2, "RUN") = {}
  BY <1>1 DEF In, Parked
<1>4. \A q \in Pids \ Users : st2[q] = st[q]
  BY <1>1
<1>5. Lined(NONE, st2, rq)
  BY <1>2, <1>3, <1>4 DEF Lined
<1>6. r \notin In(st, s) /\ In(st2, s) = In(st, s) \cup {r}
  BY <1>1 DEF In, Parked
<1>7. \A t \in Parked \ {s} : In(st2, t) = In(st, t)
  BY <1>1 DEF In, Parked
<1> QED
  BY <1>1, <1>5, <1>6, <1>7

\* The running process joins the ready queue.
LEMMA DemoteLemma ==
  ASSUME NEW r \in Pids, r # IDLE, NEW st, NEW rq, Lined(r, st, rq)
  PROVE  /\ Lined(NONE, Put(st, r, "READY"), EnQue(rq, r))
         /\ \A t \in Parked : In(Put(st, r, "READY"), t) = In(st, t)
<1> USE PidFacts
<1> DEFINE st2 == Put(st, r, "READY")
<1> USE DEF Put
<1>1. /\ r \in Users /\ st[r] = "RUN" /\ st[IDLE] = "READY" /\ st \in [Pids -> States]
      /\ In(st, "RUN") = {r}
  BY DEF Lined, In
<1>2. st2 \in [Pids -> States] /\ st2[IDLE] = "READY"
  BY <1>1 DEF States
<1>3. /\ In(st2, "READY") = In(st, "READY") \cup {r} /\ r \notin In(st, "READY")
      /\ In(st2, "RUN") = {}
  BY <1>1 DEF In
<1>4. EnQue(rq, r) \in Seq(Pids) /\ Holds(EnQue(rq, r), In(st2, "READY"))
  <2>1. In(st, "READY") \cup {r} \subseteq Users
    BY <1>1 DEF In
  <2>2. rq \in Seq(Pids) /\ Holds(rq, In(st, "READY"))
    BY DEF Lined
  <2>3. /\ EnQue(rq, r) \in Seq(Pids)
        /\ Holds(EnQue(rq, r), In(st, "READY") \cup {r})
    BY <1>1, <1>3, <2>1, <2>2, EnQueHolds
  <2> QED
    BY <1>3, <2>3
<1>5. \A q \in Pids \ Users : st2[q] = st[q]
  BY <1>1
<1>6. Lined(NONE, st2, EnQue(rq, r))
  BY <1>2, <1>3, <1>4, <1>5 DEF Lined
<1>7. \A t \in Parked : In(st2, t) = In(st, t)
  BY <1>1 DEF In, Parked
<1> QED
  BY <1>6, <1>7

-----------------------------------------------------------------------------
\* The two ways in which a system call ends.
LEMMA DemoteStep ==
  ASSUME run_pid \in Pids, run_pid # IDLE, NEW st, NEW rq, Lined(run_pid, st, rq),
         Demote(st, rq)
  PROVE  CpuInv' /\ \A s \in Parked : In(state', s) = In(st, s)
<1> DEFINE st2 == Put(st, run_pid, "READY")
<1>1. Lined(NONE, st2, EnQue(rq, run_pid)) /\ \A s \in Parked : In(st2, s) = In(st, s)
  BY DemoteLemma
<1>2. Scheduler(NONE, st2, EnQue(rq, run_pid), 0)
  BY DEF Demote, Put
<1>3. CpuInv' /\ \A s \in Parked : In(state', s) = In(st2, s)
  BY <1>1, <1>2, SchedulerLemma, PidFacts
<1> QED
  BY <1>1, <1>3

LEMMA LeaveStep ==
  ASSUME NEW st, NEW rq, Lined(NONE, st, rq), Leave(st, rq)
  PROVE  CpuInv' /\ \A s \in Parked : In(state', s) = In(st, s)
<1>1. Scheduler(NONE, st, rq, 0)
  BY DEF Leave
<1> QED
  BY <1>1, SchedulerLemma, PidFacts

\* An action that parks and releases nobody in the four queues keeps them.
LEMMA QueuesKept ==
  ASSUME QueuesInv, UNCHANGED <<avail_que, suspend_que, dsp_wait_que, kb_wait_que>>,
         \A s \in {"AVAIL", "SUSPEND", "IO_WAIT"} : In(state', s) = In(state, s)
  PROVE  QueuesInv'
BY DEF QueuesInv

LEMMA InitHolds == Init => IInv
<1> SUFFICES ASSUME Init PROVE IInv
  OBVIOUS
<1> USE PidFacts
<1>1. /\ TIME_MAX \in Nat \ {0} /\ TIME_MOD \in Nat \ {0, 1}
      /\ 0 \in 0..(TIME_MAX - 1) /\ 0 \in 0..(TIME_MOD - 1)
  BY TimeAssumption
<1>2. 1 \in Users /\ 1 \in Pids /\ 0 \in Pids /\ 0 \notin Users
  BY DEF Users, Pids
<1>3. << >> \in Seq(Pids) /\ Holds(<< >>, {}) /\ Range(<< >>) = {}
  <2>1. Holds(<< >>, {}) /\ << >> \in Seq(Pids)
    BY HoldsEmpty, EmptySeq
  <2> QED
    BY <2>1 DEF Holds
<1>4. Lined(IDLE, state, ready_que)
  <2>1. In(state, "READY") = {1} /\ In(state, "RUN") = {}
    BY <1>2 DEF Init, In
  <2>2. <<1>> = Append(<< >>, 1)
    OBVIOUS
  <2>3. Append(<< >>, 1) \in Seq(Pids) /\ Holds(Append(<< >>, 1), {} \cup {1})
    BY <1>2, <1>3, HoldsAppend
  <2>4. ready_que \in Seq(Pids) /\ Holds(ready_que, {1})
    BY <2>2, <2>3 DEF Init
  <2>5. state \in [Pids -> States]
    BY DEF Init, States
  <2>6. state[IDLE] = "READY" /\ \A p \in Pids \ Users : state[p] \in {"READY", "AVAIL"}
    BY DEF Init, IDLE
  <2> QED
    BY <2>1, <2>4, <2>5, <2>6 DEF Lined, IDLE
<1>5. CpuInv
  BY <1>1, <1>4 DEF Init, CpuInv
<1>6. avail_que \in Seq(Pids) /\ Holds(avail_que, In(state, "AVAIL"))
  <2> DEFINE n == QUE_MAX - 2
  <2>1. n \in Nat /\ \A i \in 1..n : i + 1 \in Pids
    BY QueueAssumption DEF Pids
  <2>2. avail_que \in [1..n -> Pids]
    BY <2>1 DEF Init
  <2>3. avail_que \in Seq(Pids)
    BY <2>1, <2>2, SeqDef
  <2>4. IsInjective(avail_que)
    BY <2>1 DEF Init, IsInjective
  <2>5. In(state, "AVAIL") = 2..(QUE_MAX - 1)
    BY QueueAssumption DEF Init, In, Users, Pids
  <2>6. Range(avail_que) = {i + 1 : i \in 1..n}
    BY DEF Init, Range
  <2>7. {i + 1 : i \in 1..n} = 2..(QUE_MAX - 1)
    <3>1. ASSUME NEW p \in 2..(QUE_MAX - 1)
          PROVE  p \in {i + 1 : i \in 1..n}
      <4>1. p - 1 \in 1..n /\ p = (p - 1) + 1
        BY <2>1
      <4> QED
        BY <4>1
    <3>2. ASSUME NEW i \in 1..n
          PROVE  i + 1 \in 2..(QUE_MAX - 1)
      BY <2>1
    <3> QED
      BY <3>1, <3>2
  <2> QED
    BY <2>3, <2>4, <2>5, <2>6, <2>7 DEF Holds
<1>7. In(state, "SUSPEND") = {} /\ In(state, "IO_WAIT") = {}
  BY DEF Init, In
<1>8. QueuesInv
  BY <1>3, <1>6, <1>7 DEF Init, QueuesInv, Share
<1>9. DataInv
  BY <1>1, <1>2 DEF Init, DataInv
<1> QED
  BY <1>5, <1>8, <1>9 DEF IInv

\* EnQue and DeQue of a queue of users.
LEMMA EnQueUser ==
  ASSUME NEW q \in Seq(Pids), NEW S \in SUBSET Users, Holds(q, S), NEW x \in Users, x \notin S
  PROVE  EnQue(q, x) \in Seq(Pids) /\ Holds(EnQue(q, x), S \cup {x})
<1>1. x \in Pids /\ S \cup {x} \subseteq Users
  BY PidFacts
<1> QED
  BY <1>1, PidFacts, EnQueHolds

LEMMA DeQueUser ==
  ASSUME NEW q \in Seq(Pids), NEW S, Holds(q, S), ~QueEmpty(q)
  PROVE  /\ Head(q) \in S
         /\ AfterDeQue(q) \in Seq(Pids) /\ Holds(AfterDeQue(q), S \ {Head(q)})
BY HoldsTail DEF QueEmpty, AfterDeQue

LEMMA TimerStep ==
  ASSUME IInv, TimerSR
  PROVE  IInv'
<1> USE PidFacts
<1> DEFINE now == (sys_time_count + 1) % TIME_MOD
           st == Wake(state, Woken(now))
<1>1. TIME_MAX \in Nat \ {0} /\ TIME_MOD \in Nat \ {0, 1}
  BY TimeAssumption
<1>2. PICK batch \in InOrder(Woken(now)) :
        IF run_pid # IDLE /\ time_count + 1 = TIME_MAX
        THEN Demote(st, EnQueAll(ready_que, batch))
        ELSE Scheduler(run_pid, st, EnQueAll(ready_que, batch), time_count + 1)
  BY DEF TimerSR, Wake
<1> DEFINE rq == EnQueAll(ready_que, batch)
<1>3. /\ Lined(run_pid, st, rq)
      /\ \A s \in Parked \ {"SLEEP"} : In(st, s) = In(state, s)
  <2>1. Woken(now) \in SUBSET Pids /\ \A p \in Woken(now) : state[p] = "SLEEP"
    BY DEF Woken
  <2>2. Lined(run_pid, state, ready_que)
    BY DEF IInv, CpuInv
  <2> QED
    BY <2>1, <2>2, WakeAllLemma
<1>4. run_pid \in Pids /\ time_count \in 0..(TIME_MAX - 1)
  BY DEF IInv, CpuInv
<1>5. CpuInv' /\ \A s \in Parked : In(state', s) = In(st, s)
  <2>1. CASE run_pid # IDLE /\ time_count + 1 = TIME_MAX
    <3>1. Demote(st, rq)
      BY <1>2, <2>1
    <3> QED
      BY <2>1, <3>1, <1>3, <1>4, DemoteStep
  <2>2. CASE ~(run_pid # IDLE /\ time_count + 1 = TIME_MAX)
    <3>1. Scheduler(run_pid, st, rq, time_count + 1)
      BY <1>2, <2>2
    <3>2. run_pid > IDLE => time_count + 1 \in 0..(TIME_MAX - 1)
      BY <1>1, <1>4, <2>2
    <3> QED
      BY <3>1, <3>2, <1>3, <1>4, SchedulerLemma
  <2> QED
    BY <2>1, <2>2
<1>6. QueuesInv'
  <2>1. UNCHANGED <<avail_que, suspend_que, dsp_wait_que, kb_wait_que>>
    BY DEF TimerSR, family, video_mutex, tty
  <2>2. \A s \in {"AVAIL", "SUSPEND", "IO_WAIT"} : In(state', s) = In(state, s)
    BY <1>3, <1>5 DEF Parked, States
  <2> QED
    BY <2>1, <2>2, QueuesKept DEF IInv
<1>7. DataInv'
  <2>1. sys_time_count' \in 0..(TIME_MOD - 1)
    BY <1>1 DEF TimerSR, IInv, DataInv
  <2>2. UNCHANGED <<wake_time, ppid, lock, suspend_que>>
    BY DEF TimerSR, family, video_mutex
  <2> QED
    BY <2>1, <2>2 DEF IInv, DataInv
<1> QED
  BY <1>5, <1>6, <1>7 DEF IInv

\* What a system call finds, and that an action which keeps clock, family,
\* mutex and terminal and parks nobody there is done.
LEMMA CallerFacts ==
  ASSUME IInv, run_pid # IDLE
  PROVE  /\ run_pid \in Pids /\ run_pid \in Users /\ state[run_pid] = "RUN"
         /\ Lined(run_pid, state, ready_que)
         /\ state \in [Pids -> States]
<1>1. run_pid \in Pids /\ Lined(run_pid, state, ready_que) /\ run_pid > IDLE
  BY PidFacts DEF IInv, CpuInv
<1> QED
  BY <1>1 DEF Lined, In

LEMMA SysInfoStep ==
  ASSUME IInv, SysInfo
  PROVE  IInv'
<1>1. run_pid # IDLE /\ Demote(state, ready_que)
  BY DEF SysInfo, Calls
<1>2. CpuInv' /\ \A s \in Parked : In(state', s) = In(state, s)
  BY <1>1, CallerFacts, DemoteStep
<1>3. UNCHANGED <<wake_time, sys_time_count, ppid, avail_que, lock, suspend_que,
                  dsp_wait_que, kb_wait_que>>
  BY DEF SysInfo, clock, family, video_mutex, tty
<1>4. QueuesInv'
  <2>1. \A s \in {"AVAIL", "SUSPEND", "IO_WAIT"} : In(state', s) = In(state, s)
    BY <1>2 DEF Parked, States
  <2> QED
    BY <1>3, <2>1, QueuesKept DEF IInv
<1>5. DataInv'
  BY <1>3 DEF IInv, DataInv
<1> QED
  BY <1>2, <1>4, <1>5 DEF IInv

LEMMA SysSleepStep ==
  ASSUME IInv, SysSleep
  PROVE  IInv'
<1> DEFINE st == Put(state, run_pid, "SLEEP")
<1>1. run_pid # IDLE /\ Leave(st, ready_que)
  BY DEF SysSleep, Calls, Put
<1>2. /\ Lined(NONE, st, ready_que)
      /\ \A t \in Parked \ {"SLEEP"} : In(st, t) = In(state, t)
  <2>1. "SLEEP" \in Parked
    BY DEF Parked, States
  <2>2. run_pid \in Pids /\ Lined(run_pid, state, ready_que)
    BY <1>1, CallerFacts
  <2> QED
    BY <1>1, <2>1, <2>2, LeaveLemma
<1>3. CpuInv' /\ \A s \in Parked : In(state', s) = In(st, s)
  BY <1>1, <1>2, LeaveStep
<1>4. UNCHANGED <<sys_time_count, ppid, avail_que, lock, suspend_que,
                  dsp_wait_que, kb_wait_que>>
  BY DEF SysSleep, family, video_mutex, tty
<1>5. QueuesInv'
  <2>1. \A s \in {"AVAIL", "SUSPEND", "IO_WAIT"} : In(state', s) = In(state, s)
    BY <1>2, <1>3 DEF Parked, States
  <2> QED
    BY <1>4, <2>1, QueuesKept DEF IInv
<1>6. wake_time' \in [Pids -> 0..(TIME_MOD - 1)]
  <2>1. PICK n \in SleepArgs :
          wake_time' = [wake_time EXCEPT ![run_pid] = (sys_time_count + n * SLEEP_UNIT) % TIME_MOD]
    BY DEF SysSleep
  <2>2. n * SLEEP_UNIT \in Int
    BY TimeAssumption
  <2>3. (sys_time_count + n * SLEEP_UNIT) \in Int
    BY <2>2, TimeAssumption DEF IInv, DataInv
  <2>4. \A x \in Int : x % TIME_MOD \in 0..(TIME_MOD - 1)
    BY TimeAssumption
  <2> QED
    BY <2>1, <2>3, <2>4 DEF IInv, DataInv
<1>7. DataInv'
  BY <1>4, <1>6 DEF IInv, DataInv
<1> QED
  BY <1>3, <1>5, <1>7 DEF IInv

\* A parked user changes its state and stays parked.
LEMMA MoveLemma ==
  ASSUME NEW rp, NEW st, NEW rq, Lined(rp, st, rq),
         NEW p \in Users, st[p] \in Parked, NEW s \in Parked, s # st[p]
  PROVE  /\ Lined(rp, Put(st, p, s), rq)
         /\ p \notin In(st, s) /\ In(Put(st, p, s), s) = In(st, s) \cup {p}
         /\ \A t \in Parked \ {s, st[p]} : In(Put(st, p, s), t) = In(st, t)
<1> USE PidFacts
<1> DEFINE st2 == Put(st, p, s)
<1> USE DEF Put
<1>1. p \in Pids /\ p # IDLE /\ st[p] \notin {"READY", "RUN"} /\ st \in [Pids -> States]
  BY DEF Lined, Parked
<1>2. st2 \in [Pids -> States] /\ st2[IDLE] = st[IDLE]
  BY <1>1 DEF Parked
<1>3. In(st2, "READY") = In(st, "READY") /\ In(st2, "RUN") = In(st, "RUN")
  BY <1>1 DEF In, Parked
<1>4. \A q \in Pids \ Users : st2[q] = st[q]
  BY <1>1
<1>5. Lined(rp, st2, rq)
  BY <1>2, <1>3, <1>4 DEF Lined
<1>6. p \notin In(st, s) /\ In(st2, s) = In(st, s) \cup {p}
  BY <1>1 DEF In, Parked
<1>7. \A t \in Parked \ {s, st[p]} : In(st2, t) = In(st, t)
  BY <1>1 DEF In, Parked
<1> QED
  BY <1>5, <1>6, <1>7

\* States the queues are about, for citing.
LEMMA ParkedStates ==
  /\ \A s \in {"AVAIL", "SLEEP", "SUSPEND", "WAIT", "ZOMBIE", "IO_WAIT"} : s \in Parked
  /\ \A st, s : In(st, s) \in SUBSET Users
BY DEF Parked, States, In

LEMMA NewProcessStep ==
  ASSUME IInv, run_pid # IDLE, NewProcess,
         UNCHANGED <<sys_time_count, video_mutex, tty>>
  PROVE  IInv'
<1> USE PidFacts
<1>1. UNCHANGED <<sys_time_count, lock, suspend_que, dsp_wait_que, kb_wait_que>>
  BY DEF video_mutex, tty
<1>2. /\ run_pid \in Pids /\ run_pid \in Users /\ Lined(run_pid, state, ready_que)
      /\ state \in [Pids -> States]
  BY CallerFacts
<1>3. QueuesInv /\ DataInv
  BY DEF IInv
<1>4. CASE QueEmpty(avail_que) /\ Demote(state, ready_que) /\ UNCHANGED <<wake_time, family>>
  <2>1. CpuInv' /\ \A s \in Parked : In(state', s) = In(state, s)
    BY <1>2, <1>4, DemoteStep
  <2>2. UNCHANGED <<wake_time, ppid, avail_que>>
    BY <1>4 DEF family
  <2>3. \A s \in {"AVAIL", "SUSPEND", "IO_WAIT"} : In(state', s) = In(state, s)
    BY <2>1, ParkedStates
  <2>4. QueuesInv'
    BY <1>1, <1>3, <2>2, <2>3, QueuesKept
  <2>5. DataInv'
    BY <1>1, <1>3, <2>2 DEF DataInv
  <2> QED
    BY <2>1, <2>4, <2>5 DEF IInv
<1>5. CASE ~QueEmpty(avail_que)
  <2> DEFINE pidF == Head(avail_que)
             st == Put(state, pidF, "READY")
  <2>1. /\ ppid' = [ppid EXCEPT ![pidF] = run_pid]
        /\ wake_time' = [wake_time EXCEPT ![pidF] = wake_time[run_pid]]
        /\ Demote(st, EnQue(ready_que, pidF))
        /\ avail_que' = AfterDeQue(avail_que)
    BY <1>5 DEF NewProcess, Put
  <2>2. /\ pidF \in In(state, "AVAIL")
        /\ avail_que' \in Seq(Pids) /\ Holds(avail_que', In(state, "AVAIL") \ {pidF})
    BY <1>3, <1>5, <2>1, DeQueUser DEF QueuesInv
  <2>3. pidF \in Users /\ state[pidF] = "AVAIL" /\ state[pidF] \in Parked
    BY <2>2, ParkedStates DEF In
  <2>4. /\ Lined(run_pid, st, EnQue(ready_que, pidF))
        /\ In(st, "AVAIL") = In(state, "AVAIL") \ {pidF}
        /\ \A s \in Parked \ {"AVAIL"} : In(st, s) = In(state, s)
    <3>1. "AVAIL" \in Parked /\ pidF \in Users /\ state[pidF] = "AVAIL"
      BY <2>3
    <3>2. Lined(run_pid, state, ready_que)
      BY <1>2
    <3> HIDE DEF pidF
    <3> QED
      BY ONLY <3>1, <3>2, WakeLemma
  <2>5. CpuInv' /\ \A s \in Parked : In(state', s) = In(st, s)
    BY <1>2, <2>1, <2>4, DemoteStep
  <2>6. /\ In(state', "AVAIL") = In(state, "AVAIL") \ {pidF}
        /\ In(state', "SUSPEND") = In(state, "SUSPEND")
        /\ In(state', "IO_WAIT") = In(state, "IO_WAIT")
    BY <2>4, <2>5, ParkedStates
  <2>7. QueuesInv'
    BY <1>1, <1>3, <2>2, <2>6 DEF QueuesInv
  <2>8. DataInv'
    BY <1>1, <1>2, <1>3, <2>1 DEF DataInv
  <2> QED
    BY <2>5, <2>7, <2>8 DEF IInv
<1> QED
  BY <1>4, <1>5 DEF NewProcess

LEMMA SysExitStep ==
  ASSUME IInv, SysExit
  PROVE  IInv'
<1> USE PidFacts
<1> DEFINE parent == ppid[run_pid]
<1>1. run_pid # IDLE
      /\ UNCHANGED <<ppid, wake_time, sys_time_count, lock, suspend_que, dsp_wait_que, kb_wait_que>>
  BY DEF SysExit, Calls, clock, video_mutex, tty
<1>2. /\ run_pid \in Pids /\ run_pid \in Users /\ state[run_pid] = "RUN"
      /\ Lined(run_pid, state, ready_que) /\ state \in [Pids -> States]
  BY <1>1, CallerFacts
<1>3. QueuesInv /\ DataInv /\ parent \in Pids
  BY <1>2 DEF IInv, DataInv
<1>4. DataInv'
  BY <1>1, <1>3 DEF DataInv
<1>5. CASE state[parent] = "WAIT"
  <2> DEFINE st1 == Put(state, parent, "READY")
             st2 == Put(st1, run_pid, "AVAIL")
  <2>1. /\ Leave(st2, EnQue(ready_que, parent))
        /\ avail_que' = EnQue(avail_que, run_pid)
    BY <1>5 DEF SysExit, Put
  <2>2. parent \in Users /\ "WAIT" \in Parked
    BY <1>2, <1>3, <1>5, ParkedStates DEF Lined
  <2> HIDE DEF parent
  <2>3. /\ Lined(run_pid, st1, EnQue(ready_que, parent))
        /\ \A s \in Parked \ {"WAIT"} : In(st1, s) = In(state, s)
    BY <1>2, <1>5, <2>2, WakeLemma
  <2>4. /\ Lined(NONE, st2, EnQue(ready_que, parent))
        /\ run_pid \notin In(st1, "AVAIL") /\ In(st2, "AVAIL") = In(st1, "AVAIL") \cup {run_pid}
        /\ \A t \in Parked \ {"AVAIL"} : In(st2, t) = In(st1, t)
    BY <1>1, <1>2, <2>3, ParkedStates, LeaveLemma
  <2>5. CpuInv' /\ \A s \in Parked : In(state', s) = In(st2, s)
    BY <2>1, <2>4, LeaveStep
  <2>6. /\ In(state', "AVAIL") = In(state, "AVAIL") \cup {run_pid}
        /\ run_pid \notin In(state, "AVAIL")
        /\ In(state', "SUSPEND") = In(state, "SUSPEND")
        /\ In(state', "IO_WAIT") = In(state, "IO_WAIT")
    BY <2>3, <2>4, <2>5, ParkedStates
  <2>7. avail_que' \in Seq(Pids) /\ Holds(avail_que', In(state', "AVAIL"))
    <3>1. /\ avail_que \in Seq(Pids) /\ Holds(avail_que, In(state, "AVAIL"))
          /\ In(state, "AVAIL") \in SUBSET Users
      BY <1>3, ParkedStates DEF QueuesInv
    <3>2. /\ EnQue(avail_que, run_pid) \in Seq(Pids)
          /\ Holds(EnQue(avail_que, run_pid), In(state, "AVAIL") \cup {run_pid})
      BY <1>2, <2>6, <3>1, EnQueUser
    <3> QED
      BY <2>1, <2>6, <3>2
  <2>8. QueuesInv'
    BY <1>1, <1>3, <2>6, <2>7 DEF QueuesInv
  <2> QED
    BY <1>4, <2>5, <2>8 DEF IInv
<1>6. CASE state[parent] # "WAIT"
  <2> DEFINE st == Put(state, run_pid, "ZOMBIE")
  <2>1. Leave(st, ready_que) /\ avail_que' = avail_que
    BY <1>6 DEF SysExit, Put
  <2>2. /\ Lined(NONE, st, ready_que)
        /\ \A t \in Parked \ {"ZOMBIE"} : In(st, t) = In(state, t)
    BY <1>1, <1>2, ParkedStates, LeaveLemma
  <2>3. CpuInv' /\ \A s \in Parked : In(state', s) = In(st, s)
    BY <2>1, <2>2, LeaveStep
  <2>4. \A s \in {"AVAIL", "SUSPEND", "IO_WAIT"} : In(state', s) = In(state, s)
    BY <2>2, <2>3, ParkedStates
  <2>5. QueuesInv'
    BY <1>1, <1>3, <2>1, <2>4, QueuesKept
  <2> QED
    BY <1>4, <2>3, <2>5 DEF IInv
<1> QED
  BY <1>5, <1>6

LEMMA SysWaitStep ==
  ASSUME IInv, SysWait
  PROVE  IInv'
<1> USE PidFacts
<1>1. run_pid # IDLE
      /\ UNCHANGED <<ppid, wake_time, sys_time_count, lock, suspend_que, dsp_wait_que, kb_wait_que>>
  BY DEF SysWait, Calls, clock, video_mutex, tty
<1>2. /\ run_pid \in Pids /\ run_pid \in Users
      /\ Lined(run_pid, state, ready_que) /\ state \in [Pids -> States]
  BY <1>1, CallerFacts
<1>3. QueuesInv /\ DataInv
  BY DEF IInv
<1>4. DataInv'
  BY <1>1, <1>3 DEF DataInv
<1>5. CASE Leave(Put(state, run_pid, "WAIT"), ready_que) /\ UNCHANGED avail_que
  <2> DEFINE st == Put(state, run_pid, "WAIT")
  <2>1. /\ Lined(NONE, st, ready_que)
        /\ \A t \in Parked \ {"WAIT"} : In(st, t) = In(state, t)
    BY <1>1, <1>2, ParkedStates, LeaveLemma
  <2>2. CpuInv' /\ \A s \in Parked : In(state', s) = In(st, s)
    BY <1>5, <2>1, LeaveStep
  <2>3. \A s \in {"AVAIL", "SUSPEND", "IO_WAIT"} : In(state', s) = In(state, s)
    BY <2>1, <2>2, ParkedStates
  <2>4. QueuesInv'
    BY <1>1, <1>3, <1>5, <2>3, QueuesKept
  <2> QED
    BY <1>4, <2>2, <2>4 DEF IInv
<1>6. ASSUME NEW c \in Zombies(run_pid), avail_que' = EnQue(avail_que, c),
             Demote(Put(state, c, "AVAIL"), ready_que)
      PROVE  IInv'
  <2> DEFINE st == Put(state, c, "AVAIL")
  <2>1. c \in Users /\ state[c] = "ZOMBIE" /\ state[c] \in Parked
    BY <1>2, ParkedStates DEF Zombies, Lined
  <2>2. /\ Lined(run_pid, st, ready_que)
        /\ c \notin In(state, "AVAIL") /\ In(st, "AVAIL") = In(state, "AVAIL") \cup {c}
        /\ \A t \in Parked \ {"AVAIL", "ZOMBIE"} : In(st, t) = In(state, t)
    BY <1>2, <2>1, ParkedStates, MoveLemma
  <2>3. CpuInv' /\ \A s \in Parked : In(state', s) = In(st, s)
    BY <1>1, <1>2, <1>6, <2>2, DemoteStep
  <2>4. /\ In(state', "AVAIL") = In(state, "AVAIL") \cup {c}
        /\ In(state', "SUSPEND") = In(state, "SUSPEND")
        /\ In(state', "IO_WAIT") = In(state, "IO_WAIT")
    BY <2>2, <2>3, ParkedStates
  <2>5. avail_que' \in Seq(Pids) /\ Holds(avail_que', In(state', "AVAIL"))
    <3>1. /\ avail_que \in Seq(Pids) /\ Holds(avail_que, In(state, "AVAIL"))
          /\ In(state, "AVAIL") \in SUBSET Users
      BY <1>3, ParkedStates DEF QueuesInv
    <3>2. /\ EnQue(avail_que, c) \in Seq(Pids)
          /\ Holds(EnQue(avail_que, c), In(state, "AVAIL") \cup {c})
      BY <2>1, <2>2, <3>1, EnQueUser
    <3> QED
      BY <1>6, <2>4, <3>2
  <2>6. QueuesInv'
    BY <1>1, <1>3, <2>4, <2>5 DEF QueuesInv
  <2> QED
    BY <1>4, <2>3, <2>6 DEF IInv
<1> QED
  BY <1>5, <1>6 DEF SysWait, Put

LEMMA SysKillStep ==
  ASSUME IInv, SysKill
  PROVE  IInv'
<1> DEFINE woken == {c \in Pids : ppid[c] = run_pid /\ state[c] = "SLEEP"}
           st == Wake(state, woken)
<1>1. /\ run_pid # IDLE
      /\ UNCHANGED <<wake_time, sys_time_count, ppid, avail_que, lock, suspend_que,
                     dsp_wait_que, kb_wait_que>>
  BY DEF SysKill, Calls, clock, family, video_mutex, tty
<1>2. run_pid \in Pids /\ Lined(run_pid, state, ready_que) /\ QueuesInv /\ DataInv
  BY <1>1, CallerFacts DEF IInv
<1>3. PICK batch \in InOrder(woken) : Demote(st, EnQueAll(ready_que, batch))
  BY DEF SysKill, Wake
<1>4. /\ Lined(run_pid, st, EnQueAll(ready_que, batch))
      /\ \A s \in Parked \ {"SLEEP"} : In(st, s) = In(state, s)
  <2>1. woken \in SUBSET Pids /\ \A p \in woken : state[p] = "SLEEP"
    OBVIOUS
  <2> QED
    BY <1>2, <2>1, WakeAllLemma
<1>5. CpuInv' /\ \A s \in Parked : In(state', s) = In(st, s)
  BY <1>1, <1>2, <1>3, <1>4, DemoteStep
<1>6. \A s \in {"AVAIL", "SUSPEND", "IO_WAIT"} : In(state', s) = In(state, s)
  BY <1>4, <1>5, ParkedStates
<1>7. QueuesInv'
  BY <1>1, <1>2, <1>6, QueuesKept
<1>8. DataInv'
  BY <1>1, <1>2 DEF DataInv
<1> QED
  BY <1>5, <1>7, <1>8 DEF IInv

LEMMA SysLockMutexStep ==
  ASSUME IInv, SysLockMutex
  PROVE  IInv'
<1>1. /\ run_pid # IDLE
      /\ UNCHANGED <<wake_time, sys_time_count, ppid, avail_que, dsp_wait_que, kb_wait_que>>
  BY DEF SysLockMutex, Calls, clock, family, tty
<1>2. run_pid \in Pids /\ run_pid \in Users /\ Lined(run_pid, state, ready_que)
  BY <1>1, CallerFacts
<1>3. QueuesInv /\ DataInv
  BY DEF IInv
<1>4. CASE lock' = "LOCKED" /\ Demote(state, ready_que) /\ UNCHANGED suspend_que
  <2>1. CpuInv' /\ \A s \in Parked : In(state', s) = In(state, s)
    BY <1>1, <1>2, <1>4, DemoteStep
  <2>2. \A s \in {"AVAIL", "SUSPEND", "IO_WAIT"} : In(state', s) = In(state, s)
    BY <2>1, ParkedStates
  <2>3. QueuesInv'
    BY <1>1, <1>3, <1>4, <2>2, QueuesKept
  <2>4. DataInv'
    BY <1>1, <1>3, <1>4 DEF DataInv
  <2> QED
    BY <2>1, <2>3, <2>4 DEF IInv
<1>5. CASE /\ lock = "LOCKED" /\ lock' = lock
           /\ suspend_que' = EnQue(suspend_que, run_pid)
           /\ Leave(Put(state, run_pid, "SUSPEND"), ready_que)
  <2> DEFINE st == Put(state, run_pid, "SUSPEND")
  <2>1. /\ Lined(NONE, st, ready_que)
        /\ run_pid \notin In(state, "SUSPEND")
        /\ In(st, "SUSPEND") = In(state, "SUSPEND") \cup {run_pid}
        /\ \A t \in Parked \ {"SUSPEND"} : In(st, t) = In(state, t)
    BY <1>1, <1>2, ParkedStates, LeaveLemma
  <2>2. CpuInv' /\ \A s \in Parked : In(state', s) = In(st, s)
    BY <1>5, <2>1, LeaveStep
  <2>3. /\ In(state', "AVAIL") = In(state, "AVAIL")
        /\ In(state', "SUSPEND") = In(state, "SUSPEND") \cup {run_pid}
        /\ In(state', "IO_WAIT") = In(state, "IO_WAIT")
    BY <2>1, <2>2, ParkedStates
  <2>4. suspend_que' \in Seq(Pids) /\ Holds(suspend_que', In(state', "SUSPEND"))
    <3>1. /\ suspend_que \in Seq(Pids) /\ Holds(suspend_que, In(state, "SUSPEND"))
          /\ In(state, "SUSPEND") \in SUBSET Users
      BY <1>3, ParkedStates DEF QueuesInv
    <3>2. /\ EnQue(suspend_que, run_pid) \in Seq(Pids)
          /\ Holds(EnQue(suspend_que, run_pid), In(state, "SUSPEND") \cup {run_pid})
      BY <1>2, <2>1, <3>1, EnQueUser
    <3> QED
      BY <1>5, <2>3, <3>2
  <2>5. QueuesInv'
    BY <1>1, <1>3, <2>3, <2>4 DEF QueuesInv
  <2>6. DataInv'
    BY <1>1, <1>3, <1>5 DEF DataInv
  <2> QED
    BY <2>2, <2>5, <2>6 DEF IInv
<1> QED
  BY <1>4, <1>5 DEF SysLockMutex, Put

LEMMA SysUnlockMutexStep ==
  ASSUME IInv, SysUnlockMutex
  PROVE  IInv'
<1> USE PidFacts
<1>1. /\ run_pid # IDLE
      /\ UNCHANGED <<wake_time, sys_time_count, ppid, avail_que, dsp_wait_que, kb_wait_que>>
  BY DEF SysUnlockMutex, Calls, clock, family, tty
<1>2. run_pid \in Pids /\ Lined(run_pid, state, ready_que)
  BY <1>1, CallerFacts
<1>3. QueuesInv /\ DataInv
  BY DEF IInv
<1> DEFINE released == Head(suspend_que)
           st == Put(state, released, "READY")
<1>4. CASE /\ ~QueEmpty(suspend_que)
           /\ suspend_que' = AfterDeQue(suspend_que)
           /\ Demote(st, EnQue(ready_que, released))
           /\ UNCHANGED lock
  <2>1. /\ released \in In(state, "SUSPEND")
        /\ suspend_que' \in Seq(Pids)
        /\ Holds(suspend_que', In(state, "SUSPEND") \ {released})
    BY <1>3, <1>4, DeQueUser DEF QueuesInv
  <2>2. released \in Users /\ state[released] = "SUSPEND" /\ "SUSPEND" \in Parked
    BY <2>1, ParkedStates DEF In
  <2> HIDE DEF released
  <2>3. /\ Lined(run_pid, st, EnQue(ready_que, released))
        /\ In(st, "SUSPEND") = In(state, "SUSPEND") \ {released}
        /\ \A s \in Parked \ {"SUSPEND"} : In(st, s) = In(state, s)
    BY <1>2, <2>2, WakeLemma
  <2>4. CpuInv' /\ \A s \in Parked : In(state', s) = In(st, s)
    BY <1>1, <1>2, <1>4, <2>3, DemoteStep
  <2>5. /\ In(state', "AVAIL") = In(state, "AVAIL")
        /\ In(state', "SUSPEND") = In(state, "SUSPEND") \ {released}
        /\ In(state', "IO_WAIT") = In(state, "IO_WAIT")
    BY <2>3, <2>4, ParkedStates
  <2>6. QueuesInv'
    BY <1>1, <1>3, <2>1, <2>5 DEF QueuesInv
  <2>7. lock # "UNLOCKED"
    BY <1>3, <1>4 DEF DataInv, QueEmpty
  <2>8. DataInv'
    BY <1>1, <1>3, <1>4, <2>7 DEF DataInv
  <2> QED
    BY <2>4, <2>6, <2>8 DEF IInv
<1>5. CASE /\ QueEmpty(suspend_que) /\ lock' = "UNLOCKED"
           /\ Demote(state, ready_que) /\ UNCHANGED suspend_que
  <2>1. CpuInv' /\ \A s \in Parked : In(state', s) = In(state, s)
    BY <1>1, <1>2, <1>5, DemoteStep
  <2>2. \A s \in {"AVAIL", "SUSPEND", "IO_WAIT"} : In(state', s) = In(state, s)
    BY <2>1, ParkedStates
  <2>3. QueuesInv'
    BY <1>1, <1>3, <1>5, <2>2, QueuesKept
  <2>4. DataInv'
    BY <1>1, <1>3, <1>5 DEF DataInv, QueEmpty
  <2> QED
    BY <2>1, <2>3, <2>4 DEF IInv
<1> QED
  BY <1>4, <1>5 DEF SysUnlockMutex, Put

\* One of the two terminal queues grows, or gives up its head.
LEMMA ShareSwap ==
  ASSUME NEW q1, NEW q2, NEW S, Share(q1, q2, S)
  PROVE  Share(q2, q1, S)
BY DEF Share

LEMMA ShareEnQue ==
  ASSUME NEW q1, NEW q2, NEW S \in SUBSET Users, Share(q1, q2, S), NEW x \in Users, x \notin S
  PROVE  Share(EnQue(q1, x), q2, S \cup {x})
<1>1. Range(q1) \in SUBSET Users /\ x \notin Range(q1) /\ x \notin Range(q2)
  BY DEF Share
<1>2. EnQue(q1, x) \in Seq(Pids) /\ Holds(EnQue(q1, x), Range(q1) \cup {x})
  BY <1>1, EnQueUser DEF Share
<1>3. Range(EnQue(q1, x)) = Range(q1) \cup {x}
  BY <1>2 DEF Holds
<1> QED
  BY <1>1, <1>2, <1>3 DEF Share

LEMMA ShareDeQue ==
  ASSUME NEW q1, NEW q2, NEW S, Share(q1, q2, S), ~QueEmpty(q1)
  PROVE  Head(q1) \in S /\ Share(AfterDeQue(q1), q2, S \ {Head(q1)})
<1>1. /\ Head(q1) \in Range(q1) /\ AfterDeQue(q1) \in Seq(Pids)
      /\ Holds(AfterDeQue(q1), Range(q1) \ {Head(q1)})
  BY DeQueUser DEF Share
<1>2. Range(AfterDeQue(q1)) = Range(q1) \ {Head(q1)}
  BY <1>1 DEF Holds
<1> QED
  BY <1>1, <1>2 DEF Share

\* A process that waits for the terminal is released while rp has the CPU.
LEMMA ReleaseLemma ==
  ASSUME NEW rp, NEW st, NEW rq, Lined(rp, st, rq),
         NEW q1, NEW q2, Share(q1, q2, In(st, "IO_WAIT")), ~QueEmpty(q1)
  PROVE  LET h == Head(q1)
         IN  /\ Lined(rp, Put(st, h, "READY"), EnQue(rq, h))
             /\ Share(AfterDeQue(q1), q2, In(Put(st, h, "READY"), "IO_WAIT"))
             /\ \A s \in Parked \ {"IO_WAIT"} : In(Put(st, h, "READY"), s) = In(st, s)
<1> DEFINE h == Head(q1)
<1>1. h \in In(st, "IO_WAIT") /\ Share(AfterDeQue(q1), q2, In(st, "IO_WAIT") \ {h})
  BY ShareDeQue
<1>2. h \in Users /\ st[h] = "IO_WAIT" /\ "IO_WAIT" \in Parked
  BY <1>1, ParkedStates DEF In
<1> HIDE DEF h
<1>3. /\ Lined(rp, Put(st, h, "READY"), EnQue(rq, h))
      /\ In(Put(st, h, "READY"), "IO_WAIT") = In(st, "IO_WAIT") \ {h}
      /\ \A s \in Parked \ {"IO_WAIT"} : In(Put(st, h, "READY"), s) = In(st, s)
  BY <1>2, WakeLemma
<1>4. Share(AfterDeQue(q1), q2, In(Put(st, h, "READY"), "IO_WAIT"))
  BY <1>1, <1>3
<1> QED
  BY <1>3, <1>4 DEF h

\* The caller starts to wait for the terminal.
LEMMA IoWaitLemma ==
  ASSUME IInv, run_pid # IDLE
  PROVE  LET st == Put(state, run_pid, "IO_WAIT")
         IN  /\ Lined(NONE, st, ready_que)
             /\ Share(EnQue(dsp_wait_que, run_pid), kb_wait_que, In(st, "IO_WAIT"))
             /\ Share(dsp_wait_que, EnQue(kb_wait_que, run_pid), In(st, "IO_WAIT"))
             /\ \A t \in Parked \ {"IO_WAIT"} : In(st, t) = In(state, t)
<1> DEFINE st == Put(state, run_pid, "IO_WAIT")
<1>1. run_pid \in Pids /\ run_pid \in Users /\ Lined(run_pid, state, ready_que)
  BY CallerFacts
<1>2. /\ Lined(NONE, st, ready_que)
      /\ run_pid \notin In(state, "IO_WAIT")
      /\ In(st, "IO_WAIT") = In(state, "IO_WAIT") \cup {run_pid}
      /\ \A t \in Parked \ {"IO_WAIT"} : In(st, t) = In(state, t)
  BY <1>1, ParkedStates, LeaveLemma
<1>3. Share(dsp_wait_que, kb_wait_que, In(state, "IO_WAIT")) /\ In(state, "IO_WAIT") \in SUBSET Users
  BY ParkedStates DEF IInv, QueuesInv
<1>4. Share(EnQue(dsp_wait_que, run_pid), kb_wait_que, In(st, "IO_WAIT"))
  BY <1>1, <1>2, <1>3, ShareEnQue
<1>5. Share(EnQue(kb_wait_que, run_pid), dsp_wait_que, In(st, "IO_WAIT"))
  BY <1>1, <1>2, <1>3, ShareSwap, ShareEnQue
<1>6. Share(dsp_wait_que, EnQue(kb_wait_que, run_pid), In(st, "IO_WAIT"))
  BY <1>5, ShareSwap
<1> QED
  BY <1>2, <1>4, <1>6

\* What remains once the CPU part and the terminal queues are settled.
LEMMA TtyRest ==
  ASSUME IInv, NEW st, CpuInv', \A s \in Parked : In(state', s) = In(st, s),
         \A s \in Parked \ {"IO_WAIT"} : In(st, s) = In(state, s),
         Share(dsp_wait_que', kb_wait_que', In(st, "IO_WAIT")),
         UNCHANGED <<clock, family, video_mutex>>
  PROVE  IInv'
<1>1. UNCHANGED <<wake_time, sys_time_count, ppid, avail_que, lock, suspend_que>>
  BY DEF clock, family, video_mutex
<1>2. /\ In(state', "AVAIL") = In(state, "AVAIL")
      /\ In(state', "SUSPEND") = In(state, "SUSPEND")
      /\ In(state', "IO_WAIT") = In(st, "IO_WAIT")
  BY ParkedStates
<1>3. QueuesInv'
  BY <1>1, <1>2 DEF IInv, QueuesInv
<1>4. DataInv'
  BY <1>1 DEF IInv, DataInv
<1> QED
  BY <1>3, <1>4 DEF IInv

LEMMA SysWriteStep ==
  ASSUME IInv, SysWrite
  PROVE  IInv'
<1> DEFINE waiting == EnQue(dsp_wait_que, run_pid)
           st == Put(state, run_pid, "IO_WAIT")
           h == Head(waiting)
<1>1. run_pid # IDLE /\ UNCHANGED <<clock, family, video_mutex>> /\ kb_wait_que' = kb_wait_que
  BY DEF SysWrite, Calls
<1>2. /\ Lined(NONE, st, ready_que) /\ Share(waiting, kb_wait_que, In(st, "IO_WAIT"))
      /\ \A t \in Parked \ {"IO_WAIT"} : In(st, t) = In(state, t)
  BY <1>1, IoWaitLemma
<1>3. CASE dsp_wait_que' = waiting /\ Leave(st, ready_que)
  <2>1. CpuInv' /\ \A s \in Parked : In(state', s) = In(st, s)
    BY <1>2, <1>3, LeaveStep
  <2> QED
    BY <1>1, <1>2, <1>3, <2>1, TtyRest
<1>4. CASE /\ dsp_wait_que' = AfterDeQue(waiting)
           /\ Leave(Put(st, h, "READY"), EnQue(ready_que, h))
  <2> DEFINE st2 == Put(st, h, "READY")
  <2>1. ~QueEmpty(waiting)
    <3>1. run_pid \in Range(waiting)
      <4>1. run_pid \in In(st, "IO_WAIT") /\ run_pid \notin Range(kb_wait_que)
        <5>1. /\ run_pid \in Pids /\ run_pid \in Users /\ state[run_pid] = "RUN"
              /\ state \in [Pids -> States]
          BY <1>1, CallerFacts
        <5>2. run_pid \in In(st, "IO_WAIT") /\ run_pid \notin In(state, "IO_WAIT")
          BY <5>1, PidFacts DEF In, Put
        <5>3. Range(kb_wait_que) \subseteq In(state, "IO_WAIT")
          BY DEF IInv, QueuesInv, Share
        <5> QED
          BY <5>2, <5>3
      <4> QED
        BY <4>1, <1>2 DEF Share
    <3>2. Range(<< >>) = {}
      BY HoldsEmpty DEF Holds
    <3> QED
      BY <3>1, <3>2 DEF QueEmpty
  <2>2. /\ Lined(NONE, st2, EnQue(ready_que, h))
        /\ Share(AfterDeQue(waiting), kb_wait_que, In(st2, "IO_WAIT"))
        /\ \A s \in Parked \ {"IO_WAIT"} : In(st2, s) = In(st, s)
    BY <1>2, <2>1, ReleaseLemma
  <2>3. CpuInv' /\ \A s \in Parked : In(state', s) = In(st2, s)
    BY <1>4, <2>2, LeaveStep
  <2>4. \A s \in Parked \ {"IO_WAIT"} : In(st2, s) = In(state, s)
    BY <1>2, <2>2
  <2> QED
    BY <1>1, <1>4, <2>2, <2>3, <2>4, TtyRest
<1> QED
  BY <1>3, <1>4 DEF SysWrite, Put

LEMMA SysReadStep ==
  ASSUME IInv, SysRead
  PROVE  IInv'
<1> DEFINE st == Put(state, run_pid, "IO_WAIT")
<1>1. /\ run_pid # IDLE /\ UNCHANGED <<clock, family, video_mutex>>
      /\ dsp_wait_que' = dsp_wait_que /\ kb_wait_que' = EnQue(kb_wait_que, run_pid)
      /\ Leave(st, ready_que)
  BY DEF SysRead, Calls, Put
<1>2. /\ Lined(NONE, st, ready_que)
      /\ Share(dsp_wait_que', kb_wait_que', In(st, "IO_WAIT"))
      /\ \A t \in Parked \ {"IO_WAIT"} : In(st, t) = In(state, t)
  BY <1>1, IoWaitLemma
<1>3. CpuInv' /\ \A s \in Parked : In(state', s) = In(st, s)
  BY <1>1, <1>2, LeaveStep
<1> QED
  BY <1>1, <1>2, <1>3, TtyRest

LEMMA TTYStep ==
  ASSUME IInv, TTYSR
  PROVE  IInv'
<1>1. UNCHANGED <<clock, family, video_mutex>>
  BY DEF TTYSR
<1>2. /\ run_pid \in Pids \cup {NONE} /\ time_count \in 0..(TIME_MAX - 1)
      /\ Lined(run_pid, state, ready_que)
      /\ Share(dsp_wait_que, kb_wait_que, In(state, "IO_WAIT"))
      /\ Share(kb_wait_que, dsp_wait_que, In(state, "IO_WAIT"))
  BY ShareSwap DEF IInv, CpuInv, QueuesInv
<1>3. CASE Scheduler(run_pid, state, ready_que, time_count) /\ UNCHANGED tty
  <2>1. CpuInv' /\ \A s \in Parked : In(state', s) = In(state, s)
    BY <1>2, <1>3, SchedulerLemma
  <2>2. Share(dsp_wait_que', kb_wait_que', In(state, "IO_WAIT"))
    BY <1>2, <1>3 DEF tty
  <2> QED
    BY <1>1, <2>1, <2>2, TtyRest
<1>4. ASSUME NEW q1, NEW q2, ~QueEmpty(q1), Share(q1, q2, In(state, "IO_WAIT")),
             Scheduler(run_pid, Put(state, Head(q1), "READY"), EnQue(ready_que, Head(q1)), time_count),
             \/ dsp_wait_que' = AfterDeQue(q1) /\ kb_wait_que' = q2
             \/ kb_wait_que' = AfterDeQue(q1) /\ dsp_wait_que' = q2
      PROVE  IInv'
  <2> DEFINE h == Head(q1)
             st == Put(state, h, "READY")
  <2>1. /\ Lined(run_pid, st, EnQue(ready_que, h))
        /\ Share(AfterDeQue(q1), q2, In(st, "IO_WAIT"))
        /\ \A s \in Parked \ {"IO_WAIT"} : In(st, s) = In(state, s)
    BY <1>2, <1>4, ReleaseLemma
  <2>2. CpuInv' /\ \A s \in Parked : In(state', s) = In(st, s)
    BY <1>2, <1>4, <2>1, SchedulerLemma
  <2>3. Share(dsp_wait_que', kb_wait_que', In(st, "IO_WAIT"))
    BY <1>4, <2>1, ShareSwap
  <2> QED
    BY <1>1, <2>1, <2>2, <2>3, TtyRest
<1> QED
  BY <1>2, <1>3, <1>4 DEF TTYSR, Put

-----------------------------------------------------------------------------
LEMMA StepHolds == IInv /\ [Next]_vars => IInv'
<1> SUFFICES ASSUME IInv, [Next]_vars PROVE IInv'
  OBVIOUS
<1>1. CASE TimerSR
  BY <1>1, TimerStep
<1>2. CASE TTYSR
  BY <1>2, TTYStep
<1>3. CASE SysInfo
  BY <1>3, SysInfoStep
<1>4. CASE SysSleep
  BY <1>4, SysSleepStep
<1>5. CASE SysFork
  BY <1>5, NewProcessStep DEF SysFork, Calls
<1>6. CASE SysVFork
  BY <1>6, NewProcessStep DEF SysVFork, Calls
<1>7. CASE SysExit
  BY <1>7, SysExitStep
<1>8. CASE SysWait
  BY <1>8, SysWaitStep
<1>9. CASE SysKill
  BY <1>9, SysKillStep
<1>10. CASE SysLockMutex
  BY <1>10, SysLockMutexStep
<1>11. CASE SysUnlockMutex
  BY <1>11, SysUnlockMutexStep
<1>12. CASE SysWrite
  BY <1>12, SysWriteStep
<1>13. CASE SysRead
  BY <1>13, SysReadStep
<1>14. CASE UNCHANGED vars
  BY <1>14 DEF vars, cpu, clock, family, video_mutex, tty, IInv, CpuInv, QueuesInv, DataInv
<1> QED
  BY <1>1, <1>2, <1>3, <1>4, <1>5, <1>6, <1>7, <1>8, <1>9, <1>10, <1>11, <1>12, <1>13,
     <1>14 DEF Next

\* The inductive invariant says what the checked invariants say.
LEMMA InvImplies == IInv => TypeOK /\ QueuesMatchStates /\ OneRunner /\ NoLostMutexWaiter
<1> SUFFICES ASSUME IInv PROVE TypeOK /\ QueuesMatchStates /\ OneRunner /\ NoLostMutexWaiter
  OBVIOUS
<1>1. CpuInv /\ QueuesInv /\ DataInv /\ Lined(run_pid, state, ready_que)
  BY DEF IInv, CpuInv
<1>2. \A s : In(state, s) = InState(s)
  BY DEF In, InState
<1>3. TypeOK
  BY <1>1 DEF TypeOK, CpuInv, QueuesInv, DataInv, Lined, Share
<1>4. QueuesMatchStates
  BY <1>1, <1>2 DEF QueuesMatchStates, QueuesInv, Lined, Share, Holds
<1>5. OneRunner
  <2>1. run_pid \in Pids /\ (run_pid > IDLE <=> run_pid # IDLE)
    BY <1>1, PidFacts DEF CpuInv
  <2>2. CASE run_pid # IDLE
    BY <1>1, <1>2, <2>1, <2>2 DEF OneRunner, Lined
  <2>3. CASE run_pid = IDLE
    BY <1>1, <1>2, <2>1, <2>3 DEF OneRunner, Lined, IDLE
  <2> QED
    BY <2>2, <2>3
<1>6. NoLostMutexWaiter
  BY <1>1 DEF NoLostMutexWaiter, DataInv, QueEmpty
<1> QED
  BY <1>3, <1>4, <1>5, <1>6

LEMMA Invariance == Spec => []IInv
<1>1. Init => IInv
  BY InitHolds
<1>2. IInv /\ [Next]_vars => IInv'
  BY StepHolds
<1> QED
  BY <1>1, <1>2, PTL DEF Spec

\* Every variable of the kernel keeps its type: run_pid, the queues and the
\* parents always name entries of the process table.
THEOREM TypeCorrect == Spec => []TypeOK
BY Invariance, InvImplies, PTL

\* Every process is in exactly the queue its state calls for, once, whatever
\* the programs call and whenever the interrupts come.
THEOREM QueuesCorrect == Spec => []QueuesMatchStates
BY Invariance, InvImplies, PTL

\* At most one process runs and run_pid names it.
THEOREM OneRunnerCorrect == Spec => []OneRunner
BY Invariance, InvImplies, PTL

\* A free mutex has no waiters.
THEOREM MutexCorrect == Spec => []NoLostMutexWaiter
BY Invariance, InvImplies, PTL
-----------------------------------------------------------------------------
(***************************************************************************)
(* What the kernel of Kernel.tla promises its processes, for every number  *)
(* of processes and every use of the services: a parent that waits misses  *)
(* no exit, a pid is freed only after its exit was delivered, a sleeper    *)
(* never finds its wake time passed, and the scheduler is a round robin.   *)
(*                                                                         *)
(* The first three need little of Scheduler(): whoever is parked after it  *)
(* was parked before it, in the same state (SettleLemma).  What an action  *)
(* does to the parked processes is then what its service routine does.     *)
(***************************************************************************)

\* Whoever is parked now was in that state in the table st.
Settled(st) == \A p \in Pids : state'[p] \in Parked => st[p] = state'[p]

LEMMA SettleLemma ==
  ASSUME NEW rp, NEW st \in [Pids -> States], NEW rq, NEW ticks,
         Scheduler(rp, st, rq, ticks)
  PROVE  Settled(st)
<1>1. CASE state' = st
  BY <1>1 DEF Settled
<1>2. CASE state' = [st EXCEPT ![IDLE] = "RUN"]
  BY <1>2 DEF Settled, Parked
<1>3. ASSUME NEW h, state' = [st EXCEPT ![IDLE] = "READY", ![h] = "RUN"]
      PROVE  Settled(st)
  BY <1>3 DEF Settled, Parked
<1> QED
  BY <1>1, <1>2, <1>3 DEF Scheduler

LEMMA LeaveSettles ==
  ASSUME NEW st \in [Pids -> States], NEW rq, Leave(st, rq)
  PROVE  Settled(st)
BY SettleLemma DEF Leave

LEMMA DemoteSettles ==
  ASSUME NEW st \in [Pids -> States], NEW rq, Demote(st, rq)
  PROVE  Settled(st)
<1> DEFINE st2 == [st EXCEPT ![run_pid] = "READY"]
<1>1. st2 \in [Pids -> States]
  BY DEF States
<1>2. Settled(st2)
  BY <1>1, SettleLemma DEF Demote
<1> QED
  BY <1>1, <1>2 DEF Settled, Parked

LEMMA TableType ==
  ASSUME IInv
  PROVE  /\ state \in [Pids -> States] /\ ppid \in [Pids -> Pids] /\ run_pid \in Pids
         /\ run_pid # IDLE => run_pid \in Users /\ state[run_pid] = "RUN"
BY CallerFacts DEF IInv, CpuInv, DataInv, Lined

\* The states in which the promises below are about a process.  No action but
\* SysSleep, SysExit and SysWait brings a process into one of them.
Promised == {"AVAIL", "SLEEP", "WAIT", "ZOMBIE"}

Quiet == \A p \in Pids : state'[p] \in Promised => state[p] = state'[p]

LEMMA PromisedParked == Promised \subseteq Parked
BY DEF Promised, Parked, States

LEMMA SettledQuiet ==
  ASSUME NEW st \in [Pids -> States], Settled(st),
         \A p \in Pids : st[p] \in Promised => state[p] = st[p]
  PROVE  Quiet
BY PromisedParked DEF Settled, Quiet

\* An action that makes one process, or a set of them, ready.
LEMMA PutQuiet ==
  ASSUME IInv, NEW p, NEW s \in States \ Promised
  PROVE  /\ Put(state, p, s) \in [Pids -> States]
         /\ \A q \in Pids : Put(state, p, s)[q] \in Promised => state[q] = Put(state, p, s)[q]
BY TableType DEF Put, Promised

LEMMA WakeQuiet ==
  ASSUME IInv, NEW B
  PROVE  /\ Wake(state, B) \in [Pids -> States]
         /\ \A q \in Pids : Wake(state, B)[q] \in Promised => state[q] = Wake(state, B)[q] /\ q \notin B
BY TableType DEF Wake, Promised, States

LEMMA KeepQuiet ==
  ASSUME IInv
  PROVE  /\ state \in [Pids -> States]
         /\ \A q \in Pids : state[q] \in Promised => state[q] = state[q]
BY TableType

LEMMA ReadyNotPromised == {"READY", "SUSPEND", "IO_WAIT"} \subseteq States \ Promised
BY DEF States, Promised

-----------------------------------------------------------------------------
\* The actions that bring nobody into a promised state.
QuietAction ==
  \/ TimerSR \/ TTYSR \/ SysInfo \/ SysFork \/ SysVFork \/ SysKill
  \/ SysLockMutex \/ SysUnlockMutex \/ SysWrite \/ SysRead

LEMMA NewProcessQuiet ==
  ASSUME IInv, NewProcess
  PROVE  Quiet
<1>1. CASE Demote(state, ready_que)
  BY <1>1, KeepQuiet, DemoteSettles, SettledQuiet
<1>2. ASSUME NEW p, NEW rq, Demote(Put(state, p, "READY"), rq)
      PROVE  Quiet
  <2> DEFINE st == Put(state, p, "READY")
  <2>1. st \in [Pids -> States] /\ \A q \in Pids : st[q] \in Promised => state[q] = st[q]
    BY PutQuiet, ReadyNotPromised
  <2> HIDE DEF st
  <2> QED
    BY <1>2, <2>1, DemoteSettles, SettledQuiet DEF st
<1> QED
  BY <1>1, <1>2 DEF NewProcess, Put

\* The tables the quiet actions hand to Scheduler().
LEMMA PutThenQuiet ==
  ASSUME IInv, NEW p, NEW s \in {"READY", "SUSPEND", "IO_WAIT"}, NEW rp, NEW rq, NEW ticks,
         \/ Scheduler(rp, Put(state, p, s), rq, ticks)
         \/ Leave(Put(state, p, s), rq)
         \/ Demote(Put(state, p, s), rq)
  PROVE  Quiet
<1> DEFINE st == Put(state, p, s)
<1>1. st \in [Pids -> States] /\ \A q \in Pids : st[q] \in Promised => state[q] = st[q]
  BY PutQuiet, ReadyNotPromised
<1>2. Scheduler(rp, st, rq, ticks) \/ Leave(st, rq) \/ Demote(st, rq)
  OBVIOUS
<1> HIDE DEF st
<1>3. Settled(st)
  BY <1>1, <1>2, SettleLemma, LeaveSettles, DemoteSettles
<1> QED
  BY <1>1, <1>3, SettledQuiet

LEMMA KeepThenQuiet ==
  ASSUME IInv, NEW rp, NEW rq, NEW ticks,
         Scheduler(rp, state, rq, ticks) \/ Demote(state, rq)
  PROVE  Quiet
BY KeepQuiet, SettleLemma, DemoteSettles, SettledQuiet

\* The sleepers that are woken do not sleep any more.
LEMMA WakeThenQuiet ==
  ASSUME IInv, NEW B, NEW rp, NEW rq, NEW ticks,
         Scheduler(rp, Wake(state, B), rq, ticks) \/ Demote(Wake(state, B), rq)
  PROVE  Quiet /\ \A p \in Pids : state'[p] = "SLEEP" => p \notin B
<1> DEFINE st == Wake(state, B)
<1>1. /\ st \in [Pids -> States]
      /\ \A q \in Pids : st[q] \in Promised => state[q] = st[q] /\ q \notin B
  BY WakeQuiet
<1>2. Scheduler(rp, st, rq, ticks) \/ Demote(st, rq)
  OBVIOUS
<1> HIDE DEF st
<1>3. Settled(st)
  BY <1>1, <1>2, SettleLemma, DemoteSettles
<1>4. Quiet
  BY <1>1, <1>3, SettledQuiet
<1>5. \A p \in Pids : state'[p] = "SLEEP" => st[p] = "SLEEP"
  BY <1>3, PromisedParked DEF Settled, Promised
<1> QED
  BY <1>1, <1>4, <1>5 DEF Promised

LEMMA TimerQuiet ==
  ASSUME IInv, TimerSR
  PROVE  /\ Quiet /\ UNCHANGED <<wake_time, ppid>>
         /\ sys_time_count' = (sys_time_count + 1) % TIME_MOD
         /\ \A p \in Pids : state'[p] = "SLEEP" => wake_time[p] # sys_time_count'
<1> DEFINE now == (sys_time_count + 1) % TIME_MOD
           st == Wake(state, Woken(now))
<1>1. PICK batch \in InOrder(Woken(now)) :
        IF run_pid # IDLE /\ time_count + 1 = TIME_MAX
        THEN Demote(st, EnQueAll(ready_que, batch))
        ELSE Scheduler(run_pid, st, EnQueAll(ready_que, batch), time_count + 1)
  BY DEF TimerSR, Wake
<1>2. \/ Scheduler(run_pid, st, EnQueAll(ready_que, batch), time_count + 1)
      \/ Demote(st, EnQueAll(ready_que, batch))
  BY <1>1
<1>3. Quiet /\ \A p \in Pids : state'[p] = "SLEEP" => p \notin Woken(now)
  BY <1>2, WakeThenQuiet
<1>4. \A p \in Pids : state'[p] = "SLEEP" => state[p] = "SLEEP"
  BY <1>3 DEF Quiet, Promised
<1>5. sys_time_count' = now /\ UNCHANGED <<wake_time, ppid>>
  BY DEF TimerSR, family
<1> QED
  BY <1>3, <1>4, <1>5 DEF Woken

LEMMA KillQuiet ==
  ASSUME IInv, SysKill
  PROVE  Quiet
<1> DEFINE woken == {c \in Pids : ppid[c] = run_pid /\ state[c] = "SLEEP"}
<1>1. PICK batch \in InOrder(woken) : Demote(Wake(state, woken), EnQueAll(ready_que, batch))
  BY DEF SysKill, Wake
<1> HIDE DEF woken
<1> QED
  BY <1>1, WakeThenQuiet

LEMMA WriteQuiet ==
  ASSUME IInv, SysWrite
  PROVE  Quiet
<1> DEFINE st == Put(state, run_pid, "IO_WAIT")
<1>1. CASE Leave(st, ready_que)
  BY <1>1, PutThenQuiet
<1>2. ASSUME NEW h, NEW rq, Leave(Put(st, h, "READY"), rq)
      PROVE  Quiet
  <2> DEFINE st2 == Put(st, h, "READY")
  <2>1. st \in [Pids -> States] /\ \A q \in Pids : st[q] \in Promised => state[q] = st[q]
    BY PutQuiet, ReadyNotPromised
  <2> HIDE DEF st
  <2>2. st2 \in [Pids -> States] /\ \A q \in Pids : st2[q] \in Promised => state[q] = st2[q]
    BY <2>1 DEF Put, Promised, States
  <2> HIDE DEF st2
  <2>3. Settled(st2)
    BY <1>2, <2>2, LeaveSettles DEF st2
  <2> QED
    BY <2>2, <2>3, SettledQuiet
<1> QED
  BY <1>1, <1>2 DEF SysWrite, Put

LEMMA QuietLemma ==
  ASSUME IInv, QuietAction
  PROVE  Quiet
<1>1. CASE TimerSR
  BY <1>1, TimerQuiet
<1>2. CASE TTYSR
  BY <1>2, KeepThenQuiet, PutThenQuiet DEF TTYSR, Put
<1>3. CASE SysInfo
  BY <1>3, KeepThenQuiet DEF SysInfo
<1>4. CASE SysFork \/ SysVFork
  BY <1>4, NewProcessQuiet DEF SysFork, SysVFork
<1>5. CASE SysKill
  BY <1>5, KillQuiet
<1>6. CASE SysLockMutex
  BY <1>6, KeepThenQuiet, PutThenQuiet DEF SysLockMutex, Put
<1>7. CASE SysUnlockMutex
  BY <1>7, KeepThenQuiet, PutThenQuiet DEF SysUnlockMutex, Put
<1>8. CASE SysWrite
  BY <1>8, WriteQuiet
<1>9. CASE SysRead
  BY <1>9, PutThenQuiet DEF SysRead, Put
<1> QED
  BY <1>1, <1>2, <1>3, <1>4, <1>5, <1>6, <1>7, <1>8, <1>9 DEF QuietAction

-----------------------------------------------------------------------------
\* Who enters a promised state in the other three actions.
LEMMA SleepMoves ==
  ASSUME IInv, SysSleep
  PROVE  /\ \A p \in Pids : state'[p] \in Promised =>
              \/ state[p] = state'[p] /\ p # run_pid
              \/ p = run_pid /\ state'[p] = "SLEEP"
         /\ UNCHANGED <<ppid, sys_time_count>>
<1> DEFINE st == Put(state, run_pid, "SLEEP")
<1>1. Leave(st, ready_que) /\ UNCHANGED <<ppid, sys_time_count>>
  BY DEF SysSleep, Put, family
<1>2. /\ st \in [Pids -> States]
      /\ \A p \in Pids : st[p] = IF p = run_pid THEN "SLEEP" ELSE state[p]
  BY TableType DEF Put, States
<1> HIDE DEF st
<1>3. Settled(st)
  BY <1>1, <1>2, LeaveSettles
<1> QED
  BY <1>1, <1>2, <1>3, PromisedParked DEF Settled

\* A process that exits frees its pid or becomes a zombie, as its parent
\* waits or not.
LEMMA ExitMoves ==
  ASSUME IInv, SysExit
  PROVE  /\ \A p \in Pids : state'[p] \in Promised =>
              \/ state[p] = state'[p] /\ p # run_pid
              \/ p = run_pid /\ state'[p] = "ZOMBIE" /\ state[ppid[p]] # "WAIT"
              \/ /\ p = run_pid /\ state'[p] = "AVAIL" /\ state[ppid[p]] = "WAIT"
                 /\ state'[ppid[p]] # "WAIT"
         /\ UNCHANGED <<ppid, wake_time, sys_time_count>>
<1> DEFINE parent == ppid[run_pid]
<1>1. /\ UNCHANGED <<ppid, wake_time, sys_time_count>> /\ run_pid # IDLE
      /\ state \in [Pids -> States] /\ parent \in Pids
      /\ run_pid \in Pids /\ state[run_pid] = "RUN"
  BY TableType DEF SysExit, clock, Calls
<1>2. CASE state[parent] = "WAIT"
  <2> DEFINE st == Put(Put(state, parent, "READY"), run_pid, "AVAIL")
  <2>1. Leave(st, EnQue(ready_que, parent))
    BY <1>2 DEF SysExit, Put
  <2>2. /\ st \in [Pids -> States] /\ parent # run_pid /\ st[parent] = "READY"
        /\ \A p \in Pids : st[p] = IF p = run_pid THEN "AVAIL"
                                   ELSE IF p = parent THEN "READY" ELSE state[p]
    BY <1>1, <1>2 DEF Put, States
  <2> HIDE DEF st
  <2>3. Settled(st)
    BY <2>1, <2>2, LeaveSettles
  <2>4. state'[parent] # "WAIT"
    BY <1>1, <2>2, <2>3, PromisedParked DEF Settled, Promised
  <2> QED
    BY <1>1, <1>2, <2>2, <2>3, <2>4, PromisedParked DEF Settled, Promised
<1>3. CASE state[parent] # "WAIT"
  <2> DEFINE st == Put(state, run_pid, "ZOMBIE")
  <2>1. Leave(st, ready_que)
    BY <1>3 DEF SysExit, Put
  <2>2. /\ st \in [Pids -> States]
        /\ \A p \in Pids : st[p] = IF p = run_pid THEN "ZOMBIE" ELSE state[p]
    BY <1>1 DEF Put, States
  <2> HIDE DEF st
  <2>3. Settled(st)
    BY <2>1, <2>2, LeaveSettles
  <2> QED
    BY <1>1, <1>3, <2>2, <2>3, PromisedParked DEF Settled
<1> QED
  BY <1>2, <1>3

\* A process that waits takes a zombie of its own, or blocks when it has none.
LEMMA WaitMoves ==
  ASSUME IInv, SysWait
  PROVE  /\ \A p \in Pids : state'[p] \in Promised =>
              \/ state[p] = state'[p] /\ p # run_pid
              \/ p = run_pid /\ state'[p] = "WAIT" /\ Zombies(p) = {}
              \/ /\ p \in Zombies(run_pid) /\ state'[p] = "AVAIL"
                 /\ state'[run_pid] # "WAIT"
         /\ UNCHANGED <<ppid, wake_time, sys_time_count>>
<1>1. /\ UNCHANGED <<ppid, wake_time, sys_time_count>> /\ run_pid # IDLE
      /\ state \in [Pids -> States] /\ run_pid \in Pids /\ state[run_pid] = "RUN"
  BY TableType DEF SysWait, clock, Calls
<1>2. CASE Zombies(run_pid) = {} /\ Leave(Put(state, run_pid, "WAIT"), ready_que)
  <2> DEFINE st == Put(state, run_pid, "WAIT")
  <2>1. /\ st \in [Pids -> States]
        /\ \A p \in Pids : st[p] = IF p = run_pid THEN "WAIT" ELSE state[p]
    BY <1>1 DEF Put, States
  <2> HIDE DEF st
  <2>2. Settled(st)
    BY <1>2, <2>1, LeaveSettles DEF st
  <2> QED
    BY <1>1, <1>2, <2>1, <2>2, PromisedParked DEF Settled
<1>3. ASSUME NEW c \in Zombies(run_pid), Demote(Put(state, c, "AVAIL"), ready_que)
      PROVE  \A p \in Pids : state'[p] \in Promised =>
               \/ state[p] = state'[p] /\ p # run_pid
               \/ p \in Zombies(run_pid) /\ state'[p] = "AVAIL" /\ state'[run_pid] # "WAIT"
  <2> DEFINE st == Put(state, c, "AVAIL")
  <2>1. /\ st \in [Pids -> States] /\ c # run_pid
        /\ \A p \in Pids : st[p] = IF p = c THEN "AVAIL" ELSE state[p]
    BY <1>1, <1>3 DEF Put, States, Zombies
  <2> HIDE DEF st
  <2>2. Settled(st)
    BY <1>3, <2>1, DemoteSettles DEF st
  <2>3. state'[run_pid] \notin Promised
    BY <1>1, <2>1, <2>2, PromisedParked DEF Settled, Promised
  <2> QED
    BY <1>1, <1>3, <2>1, <2>2, <2>3, PromisedParked DEF Settled, Promised
<1> QED
  BY <1>1, <1>2, <1>3 DEF SysWait, Put

LEMMA StepKinds ==
  ASSUME [Next]_vars
  PROVE  QuietAction \/ SysSleep \/ SysExit \/ SysWait \/ UNCHANGED vars
BY DEF Next, QuietAction

-----------------------------------------------------------------------------
\* A pid becomes free only when its exit was delivered: its parent waited and
\* is woken by the exit, or the caller of sys_wait is its parent and found it
\* a zombie.  The step needs the tables of IInv and nothing else of the past.
THEOREM ReapedCorrect == Spec => ReapedOnce
<1> DEFINE Reaped ==
      \A p \in Users : state[p] # "AVAIL" /\ state'[p] = "AVAIL" =>
        \/ p = run_pid /\ state[ppid[p]] = "WAIT" /\ state'[ppid[p]] # "WAIT"
        \/ state[p] = "ZOMBIE" /\ ppid[p] = run_pid /\ state'[run_pid] # "WAIT"
<1>1. IInv /\ [Next]_vars => [Reaped]_vars
  <2> SUFFICES ASSUME IInv, [Next]_vars PROVE Reaped
    OBVIOUS
  <2>1. "AVAIL" \in Promised /\ Users \subseteq Pids
    BY PidFacts DEF Promised
  <2>2. CASE QuietAction
    BY <2>1, <2>2, QuietLemma DEF Quiet
  <2>3. CASE SysSleep
    BY <2>1, <2>3, SleepMoves
  <2>4. CASE SysExit
    BY <2>1, <2>4, ExitMoves
  <2>5. CASE SysWait
    BY <2>1, <2>5, WaitMoves DEF Zombies
  <2>6. CASE UNCHANGED vars
    BY <2>6 DEF vars, cpu
  <2> QED
    BY <2>2, <2>3, <2>4, <2>5, <2>6, StepKinds
<1>2. Spec => [][Reaped]_vars
  BY <1>1, Invariance, PTL DEF Spec
<1> QED
  BY <1>2 DEF ReapedOnce

-----------------------------------------------------------------------------
\* Only fork writes ppid and, besides sleep, wake_time, and only of the pid it
\* takes from avail_que.
LEMMA ForkWrites ==
  ASSUME IInv, SysFork \/ SysVFork
  PROVE  /\ sys_time_count' = sys_time_count
          /\ \A p \in Pids : state'[p] \in {"WAIT", "ZOMBIE", "SLEEP"} =>
              ppid'[p] = ppid[p] /\ wake_time'[p] = wake_time[p]
<1> USE PidFacts
<1>1. run_pid # IDLE /\ NewProcess /\ UNCHANGED sys_time_count
  BY DEF SysFork, SysVFork, Calls
<1>2. state \in [Pids -> States] /\ ppid \in [Pids -> Pids] /\ wake_time \in [Pids -> 0..(TIME_MOD - 1)]
  BY TableType DEF IInv, DataInv
<1>3. CASE UNCHANGED <<wake_time, family>>
  BY <1>1, <1>3 DEF family
<1>4. CASE ~QueEmpty(avail_que)
  <2> DEFINE pidF == Head(avail_que)
             st == Put(state, pidF, "READY")
  <2>1. /\ ppid' = [ppid EXCEPT ![pidF] = run_pid]
        /\ wake_time' = [wake_time EXCEPT ![pidF] = wake_time[run_pid]]
        /\ Demote(st, EnQue(ready_que, pidF))
    BY <1>1, <1>4 DEF NewProcess, Put
  <2>2. pidF \in Pids
    <3>1. avail_que \in Seq(Pids) /\ Holds(avail_que, In(state, "AVAIL"))
      BY DEF IInv, QueuesInv
    <3>2. pidF \in In(state, "AVAIL")
      BY <1>4, <3>1, DeQueUser
    <3> QED
      BY <3>2 DEF In
  <2> HIDE DEF pidF
  <2>3. st \in [Pids -> States] /\ st[pidF] = "READY"
    BY <1>2, <2>2 DEF Put, States
  <2> HIDE DEF st
  <2>4. state'[pidF] \notin Parked
    BY <2>1, <2>2, <2>3, DemoteSettles DEF Settled, Parked
  <2>5. \A p \in Pids : p # pidF => ppid'[p] = ppid[p] /\ wake_time'[p] = wake_time[p]
    BY <1>2, <2>1
  <2> QED
    BY <1>1, <2>2, <2>4, <2>5, ParkedStates
<1> QED
  BY <1>1, <1>3, <1>4 DEF NewProcess

\* A waiting parent has no zombie: SysWait looks before it blocks, and SysExit
\* looks at the parent before it leaves a zombie.  With IInv this is inductive.
LEMMA WaiterStep ==
  ASSUME IInv, WaiterHasNoZombie, [Next]_vars
  PROVE  WaiterHasNoZombie'
<1> SUFFICES ASSUME NEW p \in Users, state'[p] = "WAIT",
                    NEW c \in Pids, state'[c] = "ZOMBIE", ppid'[c] = p
             PROVE  FALSE
  BY DEF WaiterHasNoZombie, InState, Zombies
<1> USE PidFacts
<1>1. ASSUME state[p] = "WAIT", state[c] = "ZOMBIE", ppid[c] = p
      PROVE  FALSE
  BY <1>1 DEF WaiterHasNoZombie, InState, Zombies
<1>2. "WAIT" \in Promised /\ "ZOMBIE" \in Promised
  BY DEF Promised
<1>3. CASE QuietAction
  <2>1. state[p] = "WAIT" /\ state[c] = "ZOMBIE"
    BY <1>2, <1>3, QuietLemma DEF Quiet
  <2>2. ppid'[c] = ppid[c]
    <3>1. CASE SysFork \/ SysVFork
      BY <3>1, ForkWrites
    <3>2. CASE ~(SysFork \/ SysVFork)
      BY <1>3, <3>2 DEF QuietAction, TimerSR, TTYSR, SysInfo, SysKill, SysLockMutex,
                        SysUnlockMutex, SysWrite, SysRead, family
    <3> QED
      BY <3>1, <3>2
  <2> QED
    BY <1>1, <2>1, <2>2
<1>4. CASE SysSleep
  BY <1>1, <1>2, <1>4, SleepMoves
<1>5. CASE SysExit
  <2>1. ppid[c] = p /\ state[p] = "WAIT"
    BY <1>2, <1>5, ExitMoves
  <2> QED
    BY <1>1, <1>2, <1>5, <2>1, ExitMoves
<1>6. CASE SysWait
  <2>1. ppid[c] = p /\ state[c] = "ZOMBIE"
    BY <1>2, <1>6, WaitMoves
  <2>2. state[p] = "WAIT" \/ Zombies(p) = {}
    BY <1>2, <1>6, WaitMoves
  <2> QED
    BY <1>1, <2>1, <2>2 DEF Zombies
<1>7. CASE UNCHANGED vars
  BY <1>1, <1>7 DEF vars, cpu, family
<1> QED
  BY <1>3, <1>4, <1>5, <1>6, <1>7, StepKinds

\* A process blocked in sys_wait has no child that has already exited, so no
\* exit is missed and the parent's wait always ends with the next exit.
THEOREM WaiterCorrect == Spec => []WaiterHasNoZombie
<1>1. Init => WaiterHasNoZombie
  <2>1. Init => \A p \in Users : state[p] # "WAIT"
    BY PidFacts DEF Init
  <2> QED
    BY <2>1 DEF WaiterHasNoZombie, InState
<1>2. IInv /\ WaiterHasNoZombie /\ [Next]_vars => WaiterHasNoZombie'
  BY WaiterStep
<1> QED
  BY <1>1, <1>2, Invariance, PTL DEF Spec

-----------------------------------------------------------------------------
\* How far w lies ahead of t on a clock of TIME_MOD ticks.
LEMMA ClockFacts ==
  /\ TIME_MOD \in Nat /\ TIME_MOD >= 2
  /\ \A w, t \in 0..(TIME_MOD - 1) :
       (w - t) % TIME_MOD = IF w >= t THEN w - t ELSE w - t + TIME_MOD
  /\ \A t \in 0..(TIME_MOD - 1) :
       (t + 1) % TIME_MOD = IF t + 1 = TIME_MOD THEN 0 ELSE t + 1
  /\ \A t \in 0..(TIME_MOD - 1), k \in 1..(TIME_MOD - 1) :
       (t + k) % TIME_MOD = IF t + k < TIME_MOD THEN t + k ELSE t + k - TIME_MOD
BY TimeAssumption

\* The wake time w, seen at time t, lies ahead by at most k ticks.
Ahead(w, t, k) == (w - t) % TIME_MOD \in 1..k

LEMMA SleepSet ==
  ASSUME NEW t \in 0..(TIME_MOD - 1), NEW k \in 1..(TIME_MOD - 1)
  PROVE  Ahead((t + k) % TIME_MOD, t, k)
<1> DEFINE w == (t + k) % TIME_MOD
<1>1. w = IF t + k < TIME_MOD THEN t + k ELSE t + k - TIME_MOD
  BY ClockFacts
<1>2. w \in 0..(TIME_MOD - 1)
  BY <1>1, ClockFacts
<1> HIDE DEF w
<1> DEFINE d == (w - t) % TIME_MOD
<1>3. d = IF w >= t THEN w - t ELSE w - t + TIME_MOD
  BY <1>2, ClockFacts
<1>4. TIME_MOD \in Nat
  BY TimeAssumption
<1> HIDE DEF d
<1>5. d = k
  BY <1>1, <1>2, <1>3, <1>4
<1>6. d \in 1..k
  BY <1>4, <1>5
<1> QED
  BY <1>6 DEF Ahead, w, d

\* The clock ticks past nobody: the one whose time has come is woken.
LEMMA SleepTicks ==
  ASSUME NEW t \in 0..(TIME_MOD - 1), NEW w \in 0..(TIME_MOD - 1), NEW k \in Int,
         Ahead(w, t, k), w # (t + 1) % TIME_MOD
  PROVE  Ahead(w, (t + 1) % TIME_MOD, k)
<1> DEFINE u == (t + 1) % TIME_MOD
<1>1. u = IF t + 1 = TIME_MOD THEN 0 ELSE t + 1
  BY ClockFacts
<1>2. u \in 0..(TIME_MOD - 1) /\ w # u
  BY <1>1, ClockFacts
<1> HIDE DEF u
<1> DEFINE d == (w - t) % TIME_MOD
           e == (w - u) % TIME_MOD
<1>3. d = IF w >= t THEN w - t ELSE w - t + TIME_MOD
  BY ClockFacts
<1>4. e = IF w >= u THEN w - u ELSE w - u + TIME_MOD
  BY <1>2, ClockFacts
<1>5. d \in 1..k
  BY DEF Ahead
<1>6. TIME_MOD \in Nat
  BY TimeAssumption
<1> HIDE DEF d, e
<1>7. CASE t + 1 = TIME_MOD
  <2>1. u = 0 /\ t = TIME_MOD - 1
    BY <1>1, <1>6, <1>7
  <2>2. e = d - 1 /\ d # 1
    BY <2>1, <1>2, <1>3, <1>4, <1>5, <1>6
  <2>3. e \in 1..k
    BY <2>2, <1>5
  <2> QED
    BY <2>3 DEF Ahead, u, e
<1>8. CASE t + 1 # TIME_MOD
  <2>1. u = t + 1
    BY <1>1, <1>8
  <2>2. e = d - 1 /\ d # 1
    BY <2>1, <1>2, <1>3, <1>4, <1>5, <1>6
  <2>3. e \in 1..k
    BY <2>2, <1>5
  <2> QED
    BY <2>3 DEF Ahead, u, e
<1> QED
  BY <1>7, <1>8

LEMMA SleeperStep ==
  ASSUME IInv, SleepersWillWake, [Next]_vars
  PROVE  SleepersWillWake'
<1> USE PidFacts
<1> SUFFICES ASSUME NEW p \in Users, state'[p] = "SLEEP"
             PROVE  \E n \in SleepArgs : Ahead(wake_time'[p], sys_time_count', n * SLEEP_UNIT)
  BY DEF SleepersWillWake, InState, Ahead
<1>1. "SLEEP" \in Promised /\ p \in Pids
  BY DEF Promised
<1>2. ASSUME state[p] = "SLEEP"
      PROVE  \E n \in SleepArgs : Ahead(wake_time[p], sys_time_count, n * SLEEP_UNIT)
  BY <1>2 DEF SleepersWillWake, InState, Ahead
<1>3. wake_time \in [Pids -> 0..(TIME_MOD - 1)] /\ sys_time_count \in 0..(TIME_MOD - 1)
  BY DEF IInv, DataInv
<1>4. \A n \in SleepArgs : n * SLEEP_UNIT \in 1..(TIME_MOD - 1) /\ n * SLEEP_UNIT \in Int
  BY SleepAssumption, TimeAssumption
<1>5. ASSUME state[p] = "SLEEP", wake_time'[p] = wake_time[p], sys_time_count' = sys_time_count
      PROVE  \E n \in SleepArgs : Ahead(wake_time'[p], sys_time_count', n * SLEEP_UNIT)
  BY <1>2, <1>5
<1>6. CASE TimerSR
  <2> DEFINE t == sys_time_count
             w == wake_time[p]
  <2>1. /\ state[p] = "SLEEP" /\ wake_time'[p] = w
        /\ sys_time_count' = (t + 1) % TIME_MOD /\ w # (t + 1) % TIME_MOD
    BY <1>1, <1>6, TimerQuiet DEF Quiet
  <2>2. PICK n \in SleepArgs : Ahead(w, t, n * SLEEP_UNIT)
    BY <1>2, <2>1
  <2> DEFINE k == n * SLEEP_UNIT
  <2>3. k \in Int /\ w \in 0..(TIME_MOD - 1) /\ t \in 0..(TIME_MOD - 1) /\ Ahead(w, t, k)
    BY <1>1, <1>3, <1>4, <2>2
  <2> HIDE DEF k, w, t
  <2>4. Ahead(w, (t + 1) % TIME_MOD, k)
    BY <2>1, <2>3, SleepTicks
  <2> QED
    BY <2>1, <2>4 DEF k, w, t
<1>7. CASE QuietAction /\ ~TimerSR
  <2>1. state[p] = "SLEEP"
    BY <1>1, <1>7, QuietLemma DEF Quiet
  <2>2. wake_time'[p] = wake_time[p] /\ sys_time_count' = sys_time_count
    <3>1. CASE SysFork \/ SysVFork
      BY <1>1, <3>1, ForkWrites
    <3>2. CASE ~(SysFork \/ SysVFork)
      BY <1>7, <3>2 DEF QuietAction, TTYSR, SysInfo, SysKill, SysLockMutex,
                        SysUnlockMutex, SysWrite, SysRead, clock
    <3> QED
      BY <3>1, <3>2
  <2> QED
    BY <1>5, <2>1, <2>2
<1>8. CASE SysSleep
  <2>1. PICK n \in SleepArgs :
          wake_time' = [wake_time EXCEPT ![run_pid] = (sys_time_count + n * SLEEP_UNIT) % TIME_MOD]
    BY <1>8 DEF SysSleep
  <2>2. sys_time_count' = sys_time_count
    BY <1>8, SleepMoves
  <2>3. CASE p = run_pid
    <3> DEFINE k == n * SLEEP_UNIT
    <3>1. k \in 1..(TIME_MOD - 1)
      BY <1>4
    <3>2. wake_time'[p] = (sys_time_count + k) % TIME_MOD
      BY <1>1, <1>3, <2>1, <2>3
    <3> HIDE DEF k
    <3>3. Ahead(wake_time'[p], sys_time_count', k)
      BY <1>3, <2>2, <3>1, <3>2, SleepSet
    <3> QED
      BY <3>3 DEF k
  <2>4. CASE p # run_pid
    <3>1. state[p] = "SLEEP"
      BY <1>1, <1>8, <2>4, SleepMoves
    <3>2. wake_time'[p] = wake_time[p]
      BY <1>1, <1>3, <2>1, <2>4
    <3> QED
      BY <1>5, <2>2, <3>1, <3>2
  <2> QED
    BY <2>3, <2>4
<1>9. CASE SysExit
  BY <1>1, <1>5, <1>9, ExitMoves
<1>10. CASE SysWait
  BY <1>1, <1>5, <1>10, WaitMoves
<1>11. CASE UNCHANGED vars
  BY <1>5, <1>11 DEF vars, cpu, clock
<1> QED
  BY <1>6, <1>7, <1>8, <1>9, <1>10, <1>11, StepKinds

\* A sleeper's wake time always lies ahead, by no more than the longest sleep:
\* TimerSR, which compares for equality, never passes it.  The clock may wrap
\* in between; SleepAssumption keeps a sleep shorter than its turn.
THEOREM SleepersCorrect == Spec => []SleepersWillWake
<1>1. Init => SleepersWillWake
  <2>1. Init => \A p \in Users : state[p] # "SLEEP"
    BY PidFacts DEF Init
  <2> QED
    BY <2>1 DEF SleepersWillWake, InState
<1>2. IInv /\ SleepersWillWake /\ [Next]_vars => SleepersWillWake'
  BY SleeperStep
<1> QED
  BY <1>1, <1>2, Invariance, PTL DEF Spec

-----------------------------------------------------------------------------
\* The refinement of RoundRobin.  A service routine hands Scheduler() a line to
\* which newcomers may have been added behind everyone who was there.
Newcomers(a) ==
  /\ a \in Seq(Pids) /\ Holds(a, Range(a))
  /\ Range(a) \subseteq Users \ (In(state, "READY") \cup {run_pid})

Arrived(rq) == \E a : Newcomers(a) /\ rq = ready_que \o a

LEMMA LineFacts ==
  ASSUME IInv
  PROVE  /\ ready_que \in Seq(Pids) /\ Holds(ready_que, In(state, "READY"))
         /\ Range(ready_que) = In(state, "READY")
         /\ run_pid \in Pids /\ run_pid \notin In(state, "READY")
<1>1. Lined(run_pid, state, ready_que) /\ run_pid \in Pids
  BY DEF IInv, CpuInv
<1>2. run_pid \notin In(state, "READY")
  <2>1. CASE run_pid = IDLE
    BY <2>1, PidFacts DEF In
  <2>2. CASE run_pid # IDLE
    BY <2>2, CallerFacts DEF In
  <2> QED
    BY <2>1, <2>2
<1> QED
  BY <1>1, <1>2 DEF Lined, Holds

\* No queue of users ever lacks room.
LEMMA EnQueRoom ==
  ASSUME NEW q \in Seq(Pids), NEW S \in SUBSET Users, Holds(q, S), NEW x \in Users, x \notin S
  PROVE  EnQue(q, x) = Append(q, x)
<1>1. x \in Pids /\ S \cup {x} \subseteq Users
  BY PidFacts
<1>2. Append(q, x) \in Seq(Pids) /\ Holds(Append(q, x), S \cup {x})
  BY <1>1, HoldsAppend
<1>3. Len(Append(q, x)) <= Cardinality(Users)
  BY <1>1, <1>2, PidFacts, HoldsLength
<1>4. Len(Append(q, x)) = Len(q) + 1 /\ Len(q) \in Nat /\ Cardinality(Users) \in Nat
  BY <1>1, PidFacts, AppendProperties, LenProperties, FS_CardinalityType
<1>5. ~QueFull(q)
  BY <1>3, <1>4, PidFacts DEF QueFull
<1> QED
  BY <1>5 DEF EnQue

LEMMA EnQueAllRoom ==
  ASSUME NEW q \in Seq(Pids), NEW S \in SUBSET Users, Holds(q, S),
         NEW b \in Seq(Pids), NEW B \in SUBSET Users, Holds(b, B), S \cap B = {}
  PROVE  EnQueAll(q, b) = q \o b
<1>1. q \o b \in Seq(Pids) /\ Holds(q \o b, S \cup B)
  BY HoldsConcat
<1>2. Len(q \o b) <= Cardinality(Users)
  BY <1>1, PidFacts, HoldsLength
<1>3. Len(q \o b) <= QUE_MAX
  BY <1>1, <1>2, PidFacts, LenProperties, FS_CardinalityType
<1> QED
  BY <1>3 DEF EnQueAll

LEMMA SameCount == \A S : RR!Cardinality(S) = Cardinality(S)
BY DEF RR!Cardinality, Cardinality

\* Newcomers form one of the arrivals of the abstract line.
LEMMA NewcomersArrive ==
  ASSUME IInv, NEW a, Newcomers(a)
  PROVE  a \in RR!Arrivals
<1> DEFINE absent == Users \ (RR!Range(ready_que) \cup {run_pid})
           n == Len(a)
<1>1. absent = Users \ (In(state, "READY") \cup {run_pid})
  BY LineFacts DEF RR!Range, Range
<1>2. a \in Seq(Pids) /\ Holds(a, Range(a)) /\ Range(a) \subseteq absent
  BY <1>1 DEF Newcomers
<1>3. IsFiniteSet(absent)
  <2>1. absent \subseteq Users
    OBVIOUS
  <2> QED
    BY <2>1, PidFacts, FS_Subset
<1> HIDE DEF absent
<1>4. n <= Cardinality(absent)
  BY <1>2, <1>3, HoldsLength
<1>5. n \in Nat /\ DOMAIN a = 1..n
  BY <1>2, LenProperties
<1>6. n \in 0..Cardinality(absent)
  BY <1>3, <1>4, <1>5, FS_CardinalityType
<1>7. a \in [1..n -> absent]
  <2>1. \A i \in 1..n : a[i] \in Range(a)
    BY <1>5 DEF Range
  <2>2. a = [i \in 1..n |-> a[i]]
    BY <1>2, LenProperties
  <2> QED
    BY <1>2, <2>1, <2>2
<1>8. RR!IsInjective(a)
  BY <1>2 DEF Holds, IsInjective, RR!IsInjective
<1>9. a \in {b \in UNION {[1..m -> absent] : m \in 0..Cardinality(absent)} : RR!IsInjective(b)}
  BY <1>6, <1>7, <1>8
<1> QED
  BY <1>9, SameCount DEF RR!Arrivals, absent

LEMMA NoArrival ==
  ASSUME IInv
  PROVE  Newcomers(<< >>) /\ ready_que \o << >> = ready_que
<1>1. << >> \in Seq(Pids) /\ Holds(<< >>, {})
  BY HoldsEmpty, EmptySeq
<1> QED
  BY <1>1, LineFacts, ConcatEmptySeq DEF Newcomers, Holds

LEMMA OneArrival ==
  ASSUME IInv, NEW x \in Users, x \notin In(state, "READY"), x # run_pid
  PROVE  Arrived(EnQue(ready_que, x))
<1> USE PidFacts
<1>1. <<x>> \in Seq(Pids) /\ Holds(<<x>>, {x})
  BY HoldsOne
<1>2. EnQue(ready_que, x) = Append(ready_que, x)
  <2>1. In(state, "READY") \in SUBSET Users
    BY DEF In
  <2> QED
    BY <2>1, LineFacts, EnQueRoom
<1>3. Append(ready_que, x) = ready_que \o <<x>>
  BY LineFacts, AppendIsConcat
<1> QED
  BY <1>1, <1>2, <1>3 DEF Arrived, Newcomers, Holds

LEMMA BatchArrival ==
  ASSUME IInv, NEW B \in SUBSET Pids, \A p \in B : state[p] = "SLEEP",
         NEW batch \in InOrder(B)
  PROVE  Arrived(EnQueAll(ready_que, batch))
<1> USE PidFacts
<1>1. B \subseteq Users /\ run_pid \notin B /\ In(state, "READY") \cap B = {}
  <2>1. Lined(run_pid, state, ready_que)
    BY DEF IInv, CpuInv
  <2>2. B \subseteq Users
    BY <2>1 DEF Lined
  <2>3. run_pid \notin B
    BY <2>2, TableType
  <2> QED
    BY <2>2, <2>3 DEF In
<1>2. batch \in Seq(B) /\ Holds(batch, B)
  <2>1. IsFiniteSet(B) /\ B \subseteq Int
    BY FS_Subset
  <2> QED
    BY <2>1, InOrderHolds
<1>3. batch \in Seq(Pids)
  BY <1>2, SeqMonotonic
<1>4. EnQueAll(ready_que, batch) = ready_que \o batch
  <2>1. In(state, "READY") \in SUBSET Users
    BY DEF In
  <2> QED
    BY <1>1, <1>2, <1>3, <2>1, LineFacts, EnQueAllRoom
<1> QED
  BY <1>1, <1>2, <1>3, <1>4 DEF Arrived, Newcomers, Holds

\* Scheduler() with nobody on the CPU, or only Idle, dispatches the head.
LEMMA Dispatches ==
  ASSUME NEW rp \in {NONE, IDLE}, NEW st, NEW rq, NEW ticks, Scheduler(rp, st, rq, ticks)
  PROVE  RR!Dispatch(rq)
<1>1. ~(rp > IDLE)
  BY DEF NONE, IDLE
<1>2. CASE QueEmpty(rq) /\ run_pid' = IDLE /\ ready_que' = rq
  BY <1>2 DEF QueEmpty, RR!Dispatch
<1>3. CASE ~QueEmpty(rq) /\ run_pid' = Head(rq) /\ ready_que' = AfterDeQue(rq)
  BY <1>3 DEF QueEmpty, AfterDeQue, RR!Dispatch
<1> QED
  BY <1>1, <1>2, <1>3 DEF Scheduler

LEMMA LeaveReleases ==
  ASSUME IInv, NEW st, NEW rq, Arrived(rq), Leave(st, rq)
  PROVE  RR!Next
<1>1. PICK a : Newcomers(a) /\ rq = ready_que \o a
  BY DEF Arrived
<1>2. RR!Dispatch(ready_que \o a) /\ a \in RR!Arrivals
  BY <1>1, Dispatches, NewcomersArrive DEF Leave
<1> QED
  BY <1>2 DEF RR!Release, RR!Next

LEMMA DemoteYields ==
  ASSUME IInv, run_pid # IDLE, NEW st, NEW rq, Arrived(rq), Demote(st, rq)
  PROVE  RR!Next
<1>1. PICK a : Newcomers(a) /\ rq = ready_que \o a
  BY DEF Arrived
<1>2. EnQue(rq, run_pid) = Append(rq, run_pid)
  <2> DEFINE S == In(state, "READY") \cup Range(a)
  <2>1. /\ ready_que \in Seq(Pids) /\ Holds(ready_que, In(state, "READY"))
        /\ a \in Seq(Pids) /\ Holds(a, Range(a)) /\ In(state, "READY") \cap Range(a) = {}
    BY <1>1, LineFacts DEF Newcomers
  <2>2. rq \in Seq(Pids) /\ Holds(rq, S)
    BY <1>1, <2>1, HoldsConcat
  <2>3. S \in SUBSET Users /\ run_pid \in Users /\ run_pid \notin S
    BY <1>1, LineFacts, TableType DEF Newcomers, In
  <2> HIDE DEF S
  <2> QED
    BY <2>2, <2>3, EnQueRoom
<1>3. RR!Dispatch(EnQue(rq, run_pid))
  BY Dispatches DEF Demote
<1>4. RR!Dispatch(Append(ready_que \o a, run_pid)) /\ a \in RR!Arrivals
  BY <1>1, <1>2, <1>3, NewcomersArrive
<1> QED
  BY <1>4 DEF RR!Yield, RR!Next

LEMMA SchedulerContinues ==
  ASSUME IInv, NEW st, NEW rq, NEW ticks, Arrived(rq), Scheduler(run_pid, st, rq, ticks)
  PROVE  RR!Next
<1>1. PICK a : Newcomers(a) /\ rq = ready_que \o a
  BY DEF Arrived
<1>2. a \in RR!Arrivals
  BY <1>1, NewcomersArrive
<1>3. CASE run_pid = IDLE
  <2>1. RR!Dispatch(ready_que \o a)
    BY <1>1, <1>3, Dispatches
  <2> QED
    BY <1>2, <2>1 DEF RR!Release, RR!Next
<1>4. CASE run_pid # IDLE
  <2>1. ~(run_pid <= IDLE)
    BY <1>4, LineFacts DEF Pids, IDLE
  <2>2. run_pid' = run_pid /\ ready_que' = ready_que \o a
    BY <1>1, <2>1 DEF Scheduler
  <2> QED
    BY <1>2, <1>4, <2>2 DEF RR!Continue, RR!Next
<1> QED
  BY <1>3, <1>4

LEMMA NobodyArrives ==
  ASSUME IInv
  PROVE  Arrived(ready_que)
BY NoArrival DEF Arrived

\* One process that was parked becomes ready.
LEMMA ParkedArrives ==
  ASSUME IInv, NEW x \in Users, state[x] \in Parked
  PROVE  Arrived(EnQue(ready_que, x))
<1>1. x \notin In(state, "READY") /\ x # run_pid
  BY TableType, PidFacts DEF In, Parked
<1> QED
  BY <1>1, OneArrival

LEMMA HeadArrives ==
  ASSUME IInv, NEW q \in Seq(Pids), NEW s \in Parked, NEW S \in SUBSET In(state, s),
         Holds(q, S), ~QueEmpty(q)
  PROVE  Arrived(EnQue(ready_que, Head(q)))
<1> DEFINE x == Head(q)
<1>1. x \in S
  BY DeQueUser
<1> HIDE DEF x
<1>2. x \in Users /\ state[x] \in Parked
  BY <1>1 DEF In
<1>3. Arrived(EnQue(ready_que, x))
  BY <1>2, ParkedArrives
<1> QED
  BY <1>3 DEF x

LEMMA TimerRobin ==
  ASSUME IInv, TimerSR
  PROVE  RR!Next
<1> DEFINE now == (sys_time_count + 1) % TIME_MOD
           st == Wake(state, Woken(now))
<1>1. PICK batch \in InOrder(Woken(now)) :
        IF run_pid # IDLE /\ time_count + 1 = TIME_MAX
        THEN Demote(st, EnQueAll(ready_que, batch))
        ELSE Scheduler(run_pid, st, EnQueAll(ready_que, batch), time_count + 1)
  BY DEF TimerSR, Wake
<1> DEFINE rq == EnQueAll(ready_que, batch)
<1>2. Arrived(rq)
  <2>1. Woken(now) \in SUBSET Pids /\ \A p \in Woken(now) : state[p] = "SLEEP"
    BY DEF Woken
  <2> QED
    BY <2>1, BatchArrival
<1>3. \/ run_pid # IDLE /\ Demote(st, rq)
      \/ Scheduler(run_pid, st, rq, time_count + 1)
  BY <1>1
<1> HIDE DEF st, rq
<1> QED
  BY <1>2, <1>3, DemoteYields, SchedulerContinues

LEMMA TTYRobin ==
  ASSUME IInv, TTYSR
  PROVE  RR!Next
<1>1. /\ dsp_wait_que \in Seq(Pids) /\ Holds(dsp_wait_que, Range(dsp_wait_que))
      /\ kb_wait_que \in Seq(Pids) /\ Holds(kb_wait_que, Range(kb_wait_que))
      /\ Range(dsp_wait_que) \in SUBSET In(state, "IO_WAIT")
      /\ Range(kb_wait_que) \in SUBSET In(state, "IO_WAIT")
      /\ "IO_WAIT" \in Parked
  BY ParkedStates DEF IInv, QueuesInv, Share
<1>2. CASE Scheduler(run_pid, state, ready_que, time_count)
  BY <1>2, NobodyArrives, SchedulerContinues
<1>3. ASSUME NEW q \in {dsp_wait_que, kb_wait_que}, ~QueEmpty(q), NEW st,
             Scheduler(run_pid, st, EnQue(ready_que, Head(q)), time_count)
      PROVE  RR!Next
  <2>1. Arrived(EnQue(ready_que, Head(q)))
    BY <1>1, <1>3, HeadArrives
  <2> QED
    BY <1>3, <2>1, SchedulerContinues
<1> QED
  BY <1>2, <1>3 DEF TTYSR

LEMMA NewProcessRobin ==
  ASSUME IInv, run_pid # IDLE, NewProcess
  PROVE  RR!Next
<1>1. CASE Demote(state, ready_que)
  BY <1>1, NobodyArrives, DemoteYields
<1>2. CASE ~QueEmpty(avail_que)
  <2>1. /\ avail_que \in Seq(Pids) /\ Holds(avail_que, In(state, "AVAIL"))
        /\ "AVAIL" \in Parked
    BY ParkedStates DEF IInv, QueuesInv
  <2>2. Arrived(EnQue(ready_que, Head(avail_que)))
    BY <1>2, <2>1, HeadArrives
  <2>3. \E st : Demote(st, EnQue(ready_que, Head(avail_que)))
    BY <1>2 DEF NewProcess
  <2> QED
    BY <2>2, <2>3, DemoteYields
<1> QED
  BY <1>1, <1>2 DEF NewProcess

LEMMA ExitRobin ==
  ASSUME IInv, SysExit
  PROVE  RR!Next
<1> DEFINE parent == ppid[run_pid]
<1>1. CASE state[parent] = "WAIT"
  <2>1. \E st : Leave(st, EnQue(ready_que, parent))
    BY <1>1 DEF SysExit
  <2>2. parent \in Pids
    BY TableType
  <2> HIDE DEF parent
  <2>3. parent \in Users /\ state[parent] \in Parked
    BY <1>1, <2>2, ParkedStates DEF IInv, CpuInv, Lined
  <2> QED
    BY <2>1, <2>3, ParkedArrives, LeaveReleases
<1>2. CASE state[parent] # "WAIT"
  <2>1. \E st : Leave(st, ready_que)
    BY <1>2 DEF SysExit
  <2> QED
    BY <2>1, NobodyArrives, LeaveReleases
<1> QED
  BY <1>1, <1>2

LEMMA WaitRobin ==
  ASSUME IInv, SysWait
  PROVE  RR!Next
<1>1. run_pid # IDLE /\ \E st : Leave(st, ready_que) \/ Demote(st, ready_que)
  BY DEF SysWait, Calls
<1> QED
  BY <1>1, NobodyArrives, LeaveReleases, DemoteYields

LEMMA KillRobin ==
  ASSUME IInv, SysKill
  PROVE  RR!Next
<1> DEFINE woken == {c \in Pids : ppid[c] = run_pid /\ state[c] = "SLEEP"}
<1>1. run_pid # IDLE
  BY DEF SysKill, Calls
<1>2. PICK batch \in InOrder(woken) : \E st : Demote(st, EnQueAll(ready_que, batch))
  BY DEF SysKill
<1>3. woken \in SUBSET Pids /\ \A p \in woken : state[p] = "SLEEP"
  OBVIOUS
<1> HIDE DEF woken
<1>4. Arrived(EnQueAll(ready_que, batch))
  BY <1>3, BatchArrival
<1> QED
  BY <1>1, <1>2, <1>4, DemoteYields

LEMMA MutexRobin ==
  ASSUME IInv, SysLockMutex \/ SysUnlockMutex
  PROVE  RR!Next
<1>1. run_pid # IDLE
  BY DEF SysLockMutex, SysUnlockMutex, Calls
<1>2. CASE \E st : Leave(st, ready_que) \/ Demote(st, ready_que)
  BY <1>1, <1>2, NobodyArrives, LeaveReleases, DemoteYields
<1>3. CASE ~QueEmpty(suspend_que) /\ \E st : Demote(st, EnQue(ready_que, Head(suspend_que)))
  <2>1. /\ suspend_que \in Seq(Pids) /\ Holds(suspend_que, In(state, "SUSPEND"))
        /\ "SUSPEND" \in Parked
    BY ParkedStates DEF IInv, QueuesInv
  <2>2. Arrived(EnQue(ready_que, Head(suspend_que)))
    BY <1>3, <2>1, HeadArrives
  <2> QED
    BY <1>1, <1>3, <2>2, DemoteYields
<1> QED
  BY <1>2, <1>3 DEF SysLockMutex, SysUnlockMutex

\* The writer that is released at once is the caller, which then yields, or
\* one that waited before it, which arrives while the caller stays behind.
LEMMA WriteRobin ==
  ASSUME IInv, SysWrite
  PROVE  RR!Next
<1> DEFINE waiting == EnQue(dsp_wait_que, run_pid)
           h == Head(waiting)
<1>1. /\ run_pid # IDLE /\ run_pid \in Users /\ run_pid \notin In(state, "READY")
      /\ run_pid \notin In(state, "IO_WAIT")
  BY TableType DEF SysWrite, Calls, In
<1>2. /\ dsp_wait_que \in Seq(Pids) /\ Holds(dsp_wait_que, Range(dsp_wait_que))
      /\ Range(dsp_wait_que) \subseteq In(state, "IO_WAIT") /\ In(state, "IO_WAIT") \subseteq Users
  BY DEF IInv, QueuesInv, Share, In
<1>3. h \in Range(dsp_wait_que) \cup {run_pid}
  <2> DEFINE S == Range(dsp_wait_que)
  <2>1. S \in SUBSET Users /\ run_pid \notin S /\ Holds(dsp_wait_que, S)
    BY <1>1, <1>2
  <2> HIDE DEF S
  <2>2. waiting \in Seq(Pids) /\ Holds(waiting, S \cup {run_pid}) /\ waiting = Append(dsp_wait_que, run_pid)
    BY <1>1, <1>2, <2>1, EnQueUser, EnQueRoom
  <2>3. ~QueEmpty(waiting)
    BY <1>2, <2>2, AppendProperties DEF QueEmpty
  <2> HIDE DEF waiting
  <2> QED
    BY <2>2, <2>3, DeQueUser DEF S
<1>4. CASE \E st : Leave(st, ready_que)
  BY <1>4, NobodyArrives, LeaveReleases
<1>5. ASSUME NEW st, Leave(st, EnQue(ready_que, h)), h = run_pid
      PROVE  RR!Next
  <2>1. EnQue(ready_que, run_pid) = Append(ready_que, run_pid)
    <3>1. In(state, "READY") \in SUBSET Users
      BY DEF In
    <3> QED
      BY <1>1, <3>1, LineFacts, EnQueRoom
  <2>2. RR!Dispatch(Append(ready_que, run_pid))
    BY <1>5, <2>1, Dispatches DEF Leave
  <2>3. << >> \in RR!Arrivals /\ ready_que \o << >> = ready_que
    BY NoArrival, NewcomersArrive
  <2> QED
    BY <1>1, <2>2, <2>3 DEF RR!Yield, RR!Next
<1>6. ASSUME NEW st, Leave(st, EnQue(ready_que, h)), h # run_pid
      PROVE  RR!Next
  <2> HIDE DEF h
  <2>1. h \in Users /\ state[h] \in Parked
    BY <1>2, <1>3, <1>6, ParkedStates DEF In
  <2> QED
    BY <1>6, <2>1, ParkedArrives, LeaveReleases
<1> QED
  BY <1>4, <1>5, <1>6 DEF SysWrite

\* Every step of the kernel is a step of the round robin, or leaves the CPU
\* and the line as they are.
LEMMA RobinStep ==
  ASSUME IInv, [Next]_vars
  PROVE  [RR!Next]_<<run_pid, ready_que>>
<1>1. CASE TimerSR
  BY <1>1, TimerRobin
<1>2. CASE TTYSR
  BY <1>2, TTYRobin
<1>3. CASE SysInfo
  BY <1>3, NobodyArrives, DemoteYields DEF SysInfo, Calls
<1>4. CASE SysSleep
  BY <1>4, NobodyArrives, LeaveReleases DEF SysSleep
<1>5. CASE SysFork \/ SysVFork
  BY <1>5, NewProcessRobin DEF SysFork, SysVFork, Calls
<1>6. CASE SysExit
  BY <1>6, ExitRobin
<1>7. CASE SysWait
  BY <1>7, WaitRobin
<1>8. CASE SysKill
  BY <1>8, KillRobin
<1>9. CASE SysLockMutex \/ SysUnlockMutex
  BY <1>9, MutexRobin
<1>10. CASE SysWrite
  BY <1>10, WriteRobin
<1>11. CASE SysRead
  BY <1>11, NobodyArrives, LeaveReleases DEF SysRead
<1>12. CASE UNCHANGED vars
  BY <1>12 DEF vars, cpu
<1> QED
  BY <1>1, <1>2, <1>3, <1>4, <1>5, <1>6, <1>7, <1>8, <1>9, <1>10, <1>11, <1>12 DEF Next

\* The kernel's scheduler implements the round robin over one line: the CPU
\* goes to the process that has waited longest and to Idle only when nobody
\* waits, and whoever is woken while the CPU changes hands joins the line
\* behind those already in it, and before the caller.
THEOREM RoundRobinCorrect == Spec => RoundRobinScheduling
<1>1. Init => RR!Init
  BY DEF Init, RR!Init
<1>2. IInv /\ [Next]_vars => [RR!Next]_<<run_pid, ready_que>>
  BY RobinStep
<1>3. Spec => RR!Spec
  BY <1>1, <1>2, Invariance, PTL DEF Spec, RR!Spec
<1> QED
  BY <1>3 DEF RoundRobinScheduling

-----------------------------------------------------------------------------
(***************************************************************************)
(* The array of QueueArray.tla implements the queue of QueueSpec.tla, for  *)
(* every capacity and every set of numbers, so that a que_t of the kernel  *)
(* may be taken for a sequence, as above.  ArrayTypeOK is not inductive:   *)
(* that DeQue returns a number needs that the cells below tail hold        *)
(* numbers, which is what Filled adds; what lies behind tail does not      *)
(* matter.                                                                 *)
(***************************************************************************)
Filled == \A i \in 0..(tail - 1) : que[i] \in Nums

ArrayInv == ArrayTypeOK /\ Filled

LEMMA ArrayInvInit == ArrayInit => ArrayInv
BY QueueArrayAssumption DEF ArrayInit, ArrayInv, ArrayTypeOK, Filled, NONE

LEMMA InvEnQue == ASSUME ArrayInv, EnQueCall PROVE ArrayInv'
<1> USE QueueArrayAssumption DEF ArrayInv, ArrayTypeOK, Filled, NONE
<1>1. PICK num \in Nums :
        \/ tail = QUE_MAX /\ UNCHANGED <<que, tail>>
        \/ tail # QUE_MAX /\ que' = [que EXCEPT ![tail] = num] /\ tail' = tail + 1
  BY DEF EnQueCall
<1>2. result' = NONE
  BY DEF EnQueCall
<1>3. CASE tail = QUE_MAX /\ UNCHANGED <<que, tail>>
  BY <1>2, <1>3
<1>4. CASE tail # QUE_MAX /\ que' = [que EXCEPT ![tail] = num] /\ tail' = tail + 1
  <2>1. tail' \in 0..QUE_MAX /\ tail \in 0..(QUE_MAX - 1)
    BY <1>4
  <2>2. que' \in [0..(QUE_MAX - 1) -> Nums \cup {0, NONE}]
    BY <1>4
  <2>3. \A i \in 0..(tail' - 1) : que'[i] \in Nums
    BY <1>4, <2>1
  <2> QED
    BY <1>2, <2>1, <2>2, <2>3
<1> QED
  BY <1>1, <1>3, <1>4

LEMMA InvDeQue == ASSUME ArrayInv, DeQueCall PROVE ArrayInv'
<1> USE QueueArrayAssumption DEF ArrayInv, ArrayTypeOK, Filled, NONE
<1>1. CASE tail = 0
  BY <1>1 DEF DeQueCall
<1>2. CASE tail # 0
  <2>1. result' = que[0] /\ tail' = tail - 1 /\ que' = [Moved(que, tail) EXCEPT ![tail - 1] = NONE]
    BY <1>2 DEF DeQueCall
  <2>2. result' \in Nums /\ tail' \in 0..QUE_MAX
    BY <1>2, <2>1
  <2>3. Moved(que, tail) \in [0..(QUE_MAX - 1) -> Nums \cup {0, NONE}]
    BY DEF Moved
  <2>4. \A i \in 0..(tail - 2) : Moved(que, tail)[i] \in Nums
    BY <1>2 DEF Moved
  <2>5. que' \in [0..(QUE_MAX - 1) -> Nums \cup {0, NONE}]
    BY <2>1, <2>3
  <2>6. \A i \in 0..(tail' - 1) : que'[i] \in Nums
    BY <1>2, <2>1, <2>3, <2>4
  <2> QED
    BY <2>2, <2>5, <2>6
<1> QED
  BY <1>1, <1>2

LEMMA ArrayInvStep == ArrayInv /\ [ArrayNext]_arrayVars => ArrayInv'
<1> SUFFICES ASSUME ArrayInv, [ArrayNext]_arrayVars PROVE ArrayInv'
  OBVIOUS
<1>1. CASE UNCHANGED arrayVars
  BY <1>1 DEF arrayVars, ArrayInv, ArrayTypeOK, Filled
<1> QED
  BY <1>1, InvEnQue, InvDeQue DEF ArrayNext

\* The array stands for a sequence of numbers of length tail.
LEMMA QueuedIsSequence ==
  ASSUME ArrayInv
  PROVE  /\ Queued \in Seq(Nums) /\ Len(Queued) = tail
         /\ \A i \in 1..tail : Queued[i] = que[i - 1]
<1>1. tail \in Nat /\ \A i \in 1..tail : que[i - 1] \in Nums
  BY QueueArrayAssumption DEF ArrayInv, ArrayTypeOK, Filled
<1>2. Queued \in [1..tail -> Nums]
  BY <1>1 DEF Queued
<1> QED
  BY <1>1, <1>2 DEF Queued

\* EnQue on the array is EnQue on the sequence.
LEMMA EnQueRefined == ASSUME ArrayInv, ArrayInv', EnQueCall PROVE QS!Enter
<1> USE QueueArrayAssumption
<1>1. PICK num \in Nums :
        \/ tail = QUE_MAX /\ UNCHANGED <<que, tail>>
        \/ tail # QUE_MAX /\ que' = [que EXCEPT ![tail] = num] /\ tail' = tail + 1
  BY DEF EnQueCall
<1>2. result' = NONE
  BY DEF EnQueCall
<1>3. tail \in 0..QUE_MAX /\ que \in [0..(QUE_MAX - 1) -> Nums \cup {0, NONE}]
  BY DEF ArrayInv, ArrayTypeOK
<1>4. CASE tail = QUE_MAX /\ UNCHANGED <<que, tail>>
  <2>1. Queued' = Queued /\ Len(Queued) = QUE_MAX
    BY <1>4, QueuedIsSequence DEF Queued
  <2> QED
    BY <1>1, <1>2, <2>1 DEF QS!Enter, QS!EnQue, QS!QueFull, QS!NONE, NONE
<1>5. CASE tail # QUE_MAX /\ que' = [que EXCEPT ![tail] = num] /\ tail' = tail + 1
  <2>1. /\ Queued \in Seq(Nums) /\ Len(Queued) = tail
        /\ \A i \in 1..tail : Queued[i] = que[i - 1]
    BY QueuedIsSequence
  <2>2. Queued' = [i \in 1..(tail + 1) |-> que'[i - 1]]
    BY <1>5 DEF Queued
  <2>3. \A i \in 1..(tail + 1) : que'[i - 1] = IF i = tail + 1 THEN num ELSE Queued[i]
    BY <1>3, <1>5, <2>1
  <2>4. Append(Queued, num) = [i \in 1..(tail + 1) |-> IF i = tail + 1 THEN num ELSE Queued[i]]
    BY <1>3, <2>1
  <2>5. Queued' = Append(Queued, num)
    BY <2>2, <2>3, <2>4
  <2> QED
    BY <1>1, <1>2, <1>5, <2>1, <2>5 DEF QS!Enter, QS!EnQue, QS!QueFull, QS!NONE, NONE
<1> QED
  BY <1>1, <1>4, <1>5

\* DeQue on the array is DeQue on the sequence.
LEMMA DeQueRefined == ASSUME ArrayInv, ArrayInv', DeQueCall PROVE QS!Leave
<1> USE QueueArrayAssumption
<1>1. tail \in 0..QUE_MAX /\ que \in [0..(QUE_MAX - 1) -> Nums \cup {0, NONE}]
  BY DEF ArrayInv, ArrayTypeOK
<1>2. /\ Queued \in Seq(Nums) /\ Len(Queued) = tail
      /\ \A i \in 1..tail : Queued[i] = que[i - 1]
  BY QueuedIsSequence
<1>3. CASE tail = 0
  <2>1. Queued = << >>
    BY <1>2, <1>3
  <2>2. Queued' = Queued /\ result' = NONE
    BY <1>3 DEF DeQueCall, Queued
  <2> QED
    BY <2>1, <2>2 DEF QS!Leave, QS!AfterDeQue, QS!Dequeued, QS!QueEmpty, QS!NONE, NONE
<1>4. CASE tail # 0
  <2>1. result' = que[0] /\ tail' = tail - 1 /\ que' = [Moved(que, tail) EXCEPT ![tail - 1] = NONE]
    BY <1>4 DEF DeQueCall
  <2>2. Queued # << >> /\ result' = Head(Queued)
    BY <1>1, <1>2, <1>4, <2>1
  <2>3. \A i \in 1..(tail - 1) : que'[i - 1] = que[i]
    BY <1>1, <1>4, <2>1 DEF Moved
  <2>4. /\ Tail(Queued) \in Seq(Nums) /\ Len(Tail(Queued)) = tail - 1
        /\ \A i \in 1..(tail - 1) : Tail(Queued)[i] = Queued[i + 1]
    BY <1>2, <2>2, HeadTailProperties
  <2>5. /\ Queued' \in Seq(Nums) /\ Len(Queued') = tail - 1
        /\ \A i \in 1..(tail - 1) : Queued'[i] = que'[i - 1]
    <3>1. tail' = tail - 1 /\ tail' \in Nat /\ \A i \in 1..tail' : que'[i - 1] \in Nums
      BY <2>1 DEF ArrayInv, ArrayTypeOK, Filled
    <3>2. Queued' = [i \in 1..tail' |-> que'[i - 1]] /\ Queued' \in [1..tail' -> Nums]
      BY <3>1 DEF Queued
    <3> QED
      BY <3>1, <3>2
  <2>6. \A i \in 1..(tail - 1) : Queued'[i] = Tail(Queued)[i]
    BY <1>1, <1>2, <2>3, <2>4, <2>5
  <2>7. Queued' = Tail(Queued)
    BY <2>4, <2>5, <2>6, SeqEqual
  <2> QED
    BY <2>2, <2>7 DEF QS!Leave, QS!AfterDeQue, QS!Dequeued, QS!QueEmpty
<1> QED
  BY <1>3, <1>4

\* The array implements the queue: it starts empty and each call is a call of
\* the queue.
THEOREM ArrayImplementsQueue == ArraySpec => ImplementsQueue
<1>1. ArrayInit => QS!Init
  <2> SUFFICES ASSUME ArrayInit PROVE QS!Init
    OBVIOUS
  <2>1. Queued = << >>
    BY DEF ArrayInit, Queued
  <2> QED
    BY <2>1 DEF ArrayInit, QS!Init, QS!NONE, NONE
<1>2. ArrayInv /\ ArrayInv' /\ [ArrayNext]_arrayVars => [QS!Enter \/ QS!Leave]_<<Queued, result>>
  <2> SUFFICES ASSUME ArrayInv, ArrayInv', [ArrayNext]_arrayVars
               PROVE  [QS!Enter \/ QS!Leave]_<<Queued, result>>
    OBVIOUS
  <2>1. CASE UNCHANGED arrayVars
    BY <2>1 DEF arrayVars, Queued
  <2> QED
    BY <2>1, EnQueRefined, DeQueRefined DEF ArrayNext
<1> QED
  BY <1>1, <1>2, ArrayInvInit, ArrayInvStep, PTL DEF ArraySpec, ImplementsQueue, QS!Spec

\* What a que_t holds and what its calls return are numbers that were queued,
\* or NONE.
THEOREM ArrayTypeCorrect == ArraySpec => []ArrayTypeOK
<1>1. ArrayInv => ArrayTypeOK
  BY DEF ArrayInv
<1> QED
  BY <1>1, ArrayInvInit, ArrayInvStep, PTL DEF ArraySpec
=============================================================================
