---------------------------- MODULE MemoryProofs ----------------------------
(***************************************************************************)
(* For every number of processes and pages and every size of a space: the  *)
(* page table, the lists of pages and the contents of pages in Memory.tla  *)
(* agree.  SpacesIntact alone is not inductive: that the pages given to a  *)
(* new process are all it owns needs that its pid owned none before, which *)
(* is NoPageLeaks and that a pid in avail_que belongs to nobody.           *)
(***************************************************************************)
EXTENDS Memory, QueueProofs

\* The pids to be given out are those of no process, each in the queue once.
PidsFree ==
  /\ Holds(avail_que, Range(avail_que))
  /\ \A p \in Range(avail_que) : state[p] = "AVAIL"

IInv == TypeOK /\ PidsFree /\ SpacesIntact /\ NoPageLeaks

-----------------------------------------------------------------------------
LEMMA Constants ==
  /\ PROC_MAX \in Nat /\ QUE_MAX \in Nat /\ QUE_MAX >= 2 /\ QUE_MAX <= PROC_MAX
  /\ IDLE \in Pids /\ Login \in Pids /\ IDLE # Login
  /\ SPACE \in Nat \ {0} /\ IsFiniteSet(Pages) /\ Pages \subseteq Int
  /\ IDLE \in Pages /\ Login \in Pages
  /\ NONE \notin Pids
<1>1. /\ PROC_MAX \in Nat /\ QUE_MAX \in Nat /\ QUE_MAX >= 2 /\ QUE_MAX <= PROC_MAX
      /\ PAGE_MAX \in Nat \ {0, 1} /\ SPACE \in Nat \ {0}
  BY MemoryAssumption
<1>2. IsFiniteSet(Pages)
  BY <1>1, FS_Interval DEF Pages
<1> QED
  BY <1>1, <1>2 DEF Pids, Pages, IDLE, Login, NONE

\* The loop over page[] finds n free pages when there are as many.
LEMMA FirstPagesLemma ==
  ASSUME NEW S \in SUBSET Pages, NEW n \in Nat, n <= Cardinality(S)
  PROVE  /\ FirstPages(n, S) \in Seq(Pages) /\ Len(FirstPages(n, S)) = n
         /\ Range(FirstPages(n, S)) \subseteq S
<1> DEFINE T == {i \in S : Cardinality({j \in S : j < i}) < n}
           s == FirstPages(n, S)
<1>1. IsFiniteSet(S) /\ S \subseteq Int
  BY Constants, FS_Subset
<1>2. IsFiniteSet(T) /\ Cardinality(T) = n
  BY <1>1, FirstMembers
<1>3. T \subseteq S /\ T \subseteq Int /\ T \subseteq Pages
  BY <1>1
<1>4. s \in InOrder(T)
  <2>1. s = CHOOSE b \in InOrder(T) : TRUE
    BY DEF FirstPages
  <2> HIDE DEF T, s
  <2>2. \E b : b \in InOrder(T)
    BY <1>2, <1>3, InOrderExists
  <2> QED
    BY <2>1, <2>2
<1> HIDE DEF T, s
<1>5. s \in Seq(T) /\ Holds(s, T)
  BY <1>2, <1>3, <1>4, InOrderHolds
<1>6. s \in [1..n -> T]
  BY <1>2, <1>4 DEF InOrder
<1>7. Len(s) = n
  BY <1>5, <1>6, LenProperties
<1>8. s \in Seq(Pages) /\ Range(s) = T
  BY <1>3, <1>5, SeqMonotonic DEF Holds
<1> QED
  BY <1>3, <1>7, <1>8 DEF s

LEMMA InitHolds == Init => IInv
<1> SUFFICES ASSUME Init PROVE IInv
  OBVIOUS
<1> USE Constants
<1>1. /\ state \in [Pids -> {"AVAIL", "ALIVE", "WAIT", "ZOMBIE"}] /\ ppid \in [Pids -> Pids]
      /\ page \in [Pages -> Pids \cup {NONE}] /\ mem \in [Pages -> Pids \cup {NONE}]
  BY DEF Init
<1>2. Living = {IDLE, Login}
  BY DEF Init, Living
<1>3. /\ space \in [Pids -> Seq(Pages)]
      /\ space[IDLE] = <<IDLE>> /\ space[Login] = <<Login>>
      /\ \A p \in {IDLE, Login} : Len(space[p]) = 1 /\ Range(space[p]) = {p}
  <2>1. ASSUME NEW p \in {IDLE, Login}
        PROVE  <<p>> \in Seq(Pages) /\ Len(<<p>>) = 1 /\ Range(<<p>>) = {p}
    BY HoldsOne DEF Holds
  <2>2. << >> \in Seq(Pages)
    BY EmptySeq
  <2> QED
    BY <2>1, <2>2 DEF Init
<1>4. avail_que \in Seq(Pids) /\ PidsFree
  <2> DEFINE n == QUE_MAX - 2
  <2>1. n \in Nat /\ \A i \in 1..n : i + 1 \in Pids /\ i + 1 \notin {IDLE, Login}
    BY DEF Pids, IDLE, Login
  <2>2. avail_que = [i \in 1..n |-> i + 1]
    BY DEF Init
  <2>3. avail_que \in Seq(Pids)
    BY <2>1, <2>2, SeqDef
  <2>4. IsInjective(avail_que)
    BY <2>1, <2>2 DEF IsInjective
  <2>5. \A p \in Range(avail_que) : p \in Pids \ {IDLE, Login}
    BY <2>1, <2>2 DEF Range
  <2>6. \A p \in Range(avail_que) : state[p] = "AVAIL"
    BY <2>5 DEF Init
  <2> QED
    BY <2>3, <2>4, <2>6 DEF PidsFree, Holds
<1>5. TypeOK
  BY <1>1, <1>2, <1>3, <1>4 DEF TypeOK
<1>6. SpacesIntact /\ NoPageLeaks
  <2>1. \A i \in Pages : page[i] = IF i \in {IDLE, Login} THEN i ELSE NONE
    BY DEF Init
  <2>2. mem = page
    BY DEF Init
  <2>3. \A p \in {IDLE, Login} : {i \in Pages : page[i] = p} = {p}
    BY <2>1
  <2> QED
    BY <1>2, <1>3, <2>1, <2>2, <2>3 DEF SpacesIntact, NoPageLeaks
<1> QED
  BY <1>4, <1>5, <1>6 DEF IInv

-----------------------------------------------------------------------------
LEMMA SysVForkStep ==
  ASSUME IInv, NEW p \in Pids, SysVFork(p)
  PROVE  IInv'
<1> USE Constants
<1> DEFINE pidF == Head(avail_que)
           pages == FirstPages(SPACE, FreePages)
<1>1. /\ Calls(p) /\ avail_que # << >>
      /\ state' = [state EXCEPT ![pidF] = "ALIVE"]
      /\ ppid' = [ppid EXCEPT ![pidF] = p]
      /\ space' = [space EXCEPT ![pidF] = pages]
      /\ page' = [i \in Pages |-> IF i \in Range(pages) THEN pidF ELSE page[i]]
      /\ mem' = [i \in Pages |-> IF i \in Range(pages) THEN pidF ELSE mem[i]]
      /\ avail_que' = Tail(avail_que)
      /\ SPACE <= Cardinality(FreePages)
  BY FS_Subset, FS_CardinalityType DEF SysVFork, QueEmpty, AfterDeQue, FreePages
<1>2. TypeOK /\ PidsFree /\ SpacesIntact /\ NoPageLeaks
  BY DEF IInv
<1>3. /\ pages \in Seq(Pages) /\ Len(pages) = SPACE
      /\ Range(pages) \subseteq Pages /\ \A i \in Range(pages) : page[i] = NONE
  <2>1. FreePages \in SUBSET Pages
    BY DEF FreePages
  <2>2. pages \in Seq(Pages) /\ Len(pages) = SPACE /\ Range(pages) \subseteq FreePages
    BY <1>1, <2>1, FirstPagesLemma
  <2> QED
    BY <2>2 DEF FreePages
<1>4. /\ pidF \in Pids /\ state[pidF] = "AVAIL" /\ avail_que' \in Seq(Pids)
      /\ Holds(avail_que', Range(avail_que) \ {pidF})
  BY <1>1, <1>2, HoldsTail DEF PidsFree, TypeOK
<1> HIDE DEF pidF, pages
<1>5. PidsFree'
  <2>1. Range(avail_que') = Range(avail_que) \ {pidF}
    BY <1>4 DEF Holds
  <2>2. \A q \in Range(avail_que') : q \in Pids /\ state'[q] = "AVAIL"
    <3>1. \A q \in Range(avail_que) : q \in Pids
      BY <1>2, RangeOfSeq DEF TypeOK
    <3> QED
      BY <1>1, <1>2, <2>1, <3>1 DEF PidsFree, TypeOK
  <2> QED
    BY <1>4, <2>1, <2>2 DEF PidsFree
<1>6. /\ state' \in [Pids -> {"AVAIL", "ALIVE", "WAIT", "ZOMBIE"}] /\ ppid' \in [Pids -> Pids]
      /\ page' \in [Pages -> Pids \cup {NONE}] /\ mem' \in [Pages -> Pids \cup {NONE}]
      /\ space' \in [Pids -> Seq(Pages)]
      /\ space'[pidF] = pages /\ \A q \in Pids \ {pidF} : space'[q] = space[q]
  BY <1>1, <1>2, <1>3, <1>4 DEF TypeOK
<1>7. /\ Living' = Living \cup {pidF} /\ pidF \notin Living
  BY <1>1, <1>2, <1>4 DEF Living, TypeOK
<1>8. TypeOK'
  <2>1. ASSUME NEW q \in Living'
        PROVE  Len(space'[q]) = IF q \in {IDLE, Login} /\ space'[q] = <<q>> THEN 1 ELSE SPACE
    <3>1. CASE q = pidF
      <4>1. Len(<<q>>) = 1
        OBVIOUS
      <4> QED
        BY <1>3, <1>6, <3>1, <4>1
    <3>2. CASE q # pidF
      BY <1>2, <1>6, <1>7, <3>2 DEF TypeOK, Living
    <3> QED
      BY <3>1, <3>2
  <2> QED
    BY <1>4, <1>6, <2>1 DEF TypeOK
<1>9. SpacesIntact'
  <2> SUFFICES ASSUME NEW q \in Living'
               PROVE  /\ {i \in Pages : page'[i] = q} = Range(space'[q])
                      /\ \A i \in Range(space'[q]) : mem'[i] = q
    BY DEF SpacesIntact
  <2>1. CASE q = pidF
    <3>1. \A i \in Pages : page[i] # pidF
      BY <1>2, <1>4, <1>7 DEF NoPageLeaks
    <3>2. space'[q] = pages
      BY <1>6, <2>1
    <3>3. \A i \in Pages : page'[i] = q <=> i \in Range(pages)
      BY <1>1, <2>1, <3>1
    <3>4. \A i \in Range(pages) : i \in Pages /\ mem'[i] = q
      BY <1>1, <1>3, <2>1
    <3> QED
      BY <3>2, <3>3, <3>4
  <2>2. CASE q # pidF
    <3>1. /\ q \in Living /\ q \in Pids /\ space'[q] = space[q]
          /\ {i \in Pages : page[i] = q} = Range(space[q])
          /\ \A i \in Range(space[q]) : mem[i] = q
      BY <1>2, <1>6, <1>7, <2>2 DEF SpacesIntact, Living
    <3>2. \A i \in Range(pages) : page[i] # q
      BY <1>3, <3>1
    <3>3. {i \in Pages : page'[i] = q} = {i \in Pages : page[i] = q}
      BY <1>1, <2>2, <3>2
    <3>4. \A i \in Range(space[q]) : i \in Pages /\ i \notin Range(pages)
      BY <3>1, <3>2
    <3> QED
      BY <1>1, <3>1, <3>3, <3>4
  <2> QED
    BY <2>1, <2>2
<1>10. NoPageLeaks'
  BY <1>1, <1>2, <1>7 DEF NoPageLeaks
<1> QED
  BY <1>5, <1>8, <1>9, <1>10 DEF IInv

\* A process c ends for good, or becomes a zombie, and its pages are given
\* back; w, if it waited, goes on.  Everybody else stays as alive as before.
LEMMA EndLemma ==
  ASSUME IInv, NEW c \in Pids, UNCHANGED <<ppid, mem, space>>,
         page' = Reclaimed(c),
         state' \in [Pids -> {"AVAIL", "ALIVE", "WAIT", "ZOMBIE"}],
         Living' = Living \ {c}
  PROVE  /\ page' \in [Pages -> Pids \cup {NONE}] /\ SpacesIntact' /\ NoPageLeaks'
         /\ \A q \in Living' :
              Len(space'[q]) = IF q \in {IDLE, Login} /\ space'[q] = <<q>> THEN 1 ELSE SPACE
<1> USE Constants
<1>1. TypeOK /\ SpacesIntact /\ NoPageLeaks
  BY DEF IInv
<1>2. \A i \in Pages : page'[i] = IF page[i] = c THEN NONE ELSE page[i]
  BY DEF Reclaimed
<1>3. page' \in [Pages -> Pids \cup {NONE}]
  BY <1>1 DEF Reclaimed, TypeOK
<1>4. NoPageLeaks'
  BY <1>1, <1>2 DEF NoPageLeaks
<1>5. SpacesIntact'
  <2> SUFFICES ASSUME NEW q \in Living'
               PROVE  /\ {i \in Pages : page'[i] = q} = Range(space[q])
                      /\ \A i \in Range(space[q]) : mem[i] = q
    BY DEF SpacesIntact
  <2>1. q \in Living /\ q # c /\ q # NONE
    BY DEF Living
  <2>2. {i \in Pages : page'[i] = q} = {i \in Pages : page[i] = q}
    BY <1>2, <2>1
  <2> QED
    BY <1>1, <2>1, <2>2 DEF SpacesIntact
<1>6. \A q \in Living' :
        Len(space'[q]) = IF q \in {IDLE, Login} /\ space'[q] = <<q>> THEN 1 ELSE SPACE
  BY <1>1 DEF TypeOK
<1> QED
  BY <1>3, <1>4, <1>5, <1>6

\* A pid comes back to avail_que when its process has just become AVAIL.
LEMMA PidReturns ==
  ASSUME IInv, NEW c \in Pids, state[c] # "AVAIL", state'[c] = "AVAIL",
         \A q \in Pids : state[q] = "AVAIL" => state'[q] = "AVAIL",
         avail_que' = EnQue(avail_que, c)
  PROVE  avail_que' \in Seq(Pids) /\ PidsFree'
<1>1. /\ avail_que \in Seq(Pids) /\ Holds(avail_que, Range(avail_que))
      /\ \A q \in Range(avail_que) : q \in Pids /\ state[q] = "AVAIL"
  BY RangeOfSeq DEF IInv, PidsFree, TypeOK
<1>2. CASE QueFull(avail_que)
  <2>1. avail_que' = avail_que
    BY <1>2 DEF EnQue
  <2> QED
    BY <1>1, <2>1 DEF PidsFree
<1>3. CASE ~QueFull(avail_que)
  <2>1. avail_que' = Append(avail_que, c)
    BY <1>3 DEF EnQue
  <2>2. c \notin Range(avail_que)
    BY <1>1
  <2>3. /\ Append(avail_que, c) \in Seq(Pids)
        /\ Holds(Append(avail_que, c), Range(avail_que) \cup {c})
    BY <1>1, <2>2, HoldsAppend
  <2>4. Range(avail_que') = Range(avail_que) \cup {c}
    BY <2>1, <2>3 DEF Holds
  <2> QED
    BY <1>1, <2>1, <2>3, <2>4 DEF PidsFree
<1> QED
  BY <1>2, <1>3

\* No pid comes back, and none that is queued is taken.
LEMMA PidsStay ==
  ASSUME IInv, UNCHANGED avail_que, \A q \in Pids : state[q] = "AVAIL" => state'[q] = "AVAIL"
  PROVE  PidsFree'
<1>1. \A q \in Range(avail_que) : q \in Pids /\ state[q] = "AVAIL"
  BY RangeOfSeq DEF IInv, PidsFree, TypeOK
<1> QED
  BY <1>1 DEF IInv, PidsFree

LEMMA SysExitStep ==
  ASSUME IInv, NEW p \in Pids, SysExit(p)
  PROVE  IInv'
<1>1. /\ state[p] = "ALIVE" /\ page' = Reclaimed(p) /\ UNCHANGED <<ppid, mem, space>>
      /\ TypeOK /\ ppid[p] \in Pids
  BY DEF SysExit, Calls, IInv, TypeOK
<1>2. CASE /\ state[ppid[p]] = "WAIT"
           /\ state' = [state EXCEPT ![ppid[p]] = "ALIVE", ![p] = "AVAIL"]
           /\ avail_que' = EnQue(avail_que, p)
  <2>1. /\ state' \in [Pids -> {"AVAIL", "ALIVE", "WAIT", "ZOMBIE"}]
        /\ state'[p] = "AVAIL" /\ Living' = Living \ {p}
        /\ \A q \in Pids : state[q] = "AVAIL" => state'[q] = "AVAIL"
    BY <1>1, <1>2 DEF TypeOK, Living
  <2>2. avail_que' \in Seq(Pids) /\ PidsFree'
    BY <1>1, <1>2, <2>1, PidReturns
  <2> QED
    BY <1>1, <2>1, <2>2, EndLemma DEF IInv, TypeOK
<1>3. CASE /\ state' = [state EXCEPT ![p] = "ZOMBIE"]
           /\ UNCHANGED avail_que
  <2>1. /\ state' \in [Pids -> {"AVAIL", "ALIVE", "WAIT", "ZOMBIE"}]
        /\ Living' = Living \ {p}
        /\ \A q \in Pids : state[q] = "AVAIL" => state'[q] = "AVAIL"
    BY <1>1, <1>3 DEF TypeOK, Living
  <2>2. PidsFree'
    BY <1>3, <2>1, PidsStay
  <2> QED
    BY <1>1, <1>3, <2>1, <2>2, EndLemma DEF IInv, TypeOK
<1> QED
  BY <1>2, <1>3 DEF SysExit

LEMMA SysWaitStep ==
  ASSUME IInv, NEW p \in Pids, SysWait(p)
  PROVE  IInv'
<1>1. /\ state[p] = "ALIVE" /\ UNCHANGED <<ppid, mem, space>>
      /\ TypeOK /\ PidsFree /\ SpacesIntact /\ NoPageLeaks
  BY DEF SysWait, Calls, IInv
<1>2. CASE state' = [state EXCEPT ![p] = "WAIT"] /\ UNCHANGED <<avail_que, page>>
  <2>1. /\ state' \in [Pids -> {"AVAIL", "ALIVE", "WAIT", "ZOMBIE"}]
        /\ Living' = Living
        /\ \A q \in Pids : state[q] = "AVAIL" => state'[q] = "AVAIL"
    BY <1>1, <1>2 DEF TypeOK, Living
  <2>2. PidsFree'
    BY <1>2, <2>1, PidsStay
  <2>3. SpacesIntact' /\ NoPageLeaks'
    BY <1>1, <1>2, <2>1 DEF SpacesIntact, NoPageLeaks
  <2>4. TypeOK'
    BY <1>1, <1>2, <2>1 DEF TypeOK
  <2> QED
    BY <2>2, <2>3, <2>4 DEF IInv
<1>3. ASSUME NEW c \in Zombies(p), state' = [state EXCEPT ![c] = "AVAIL"],
             avail_que' = EnQue(avail_que, c), page' = Reclaimed(c)
      PROVE  IInv'
  <2>1. /\ c \in Pids /\ state[c] = "ZOMBIE"
        /\ state' \in [Pids -> {"AVAIL", "ALIVE", "WAIT", "ZOMBIE"}]
        /\ state'[c] = "AVAIL" /\ Living' = Living \ {c}
        /\ \A q \in Pids : state[q] = "AVAIL" => state'[q] = "AVAIL"
    BY <1>1, <1>3 DEF Zombies, TypeOK, Living
  <2>2. avail_que' \in Seq(Pids) /\ PidsFree'
    BY <1>3, <2>1, PidReturns
  <2> QED
    BY <1>1, <1>3, <2>1, <2>2, EndLemma DEF IInv, TypeOK
<1> QED
  BY <1>2, <1>3 DEF SysWait

LEMMA StepHolds == IInv /\ [Next]_vars => IInv'
<1> SUFFICES ASSUME IInv, [Next]_vars PROVE IInv'
  OBVIOUS
<1>1. CASE UNCHANGED vars
  BY <1>1 DEF vars, IInv, TypeOK, PidsFree, SpacesIntact, NoPageLeaks, Living
<1> QED
  BY <1>1, SysVForkStep, SysExitStep, SysWaitStep DEF Next

LEMMA Invariance == Spec => []IInv
BY InitHolds, StepHolds, PTL DEF Spec

\* The page table names processes, and a living process has as many pages as a
\* space needs, or the one page of its pid if it was spawned.
THEOREM MemoryTypeCorrect == Spec => []TypeOK
<1>1. IInv => TypeOK
  BY DEF IInv
<1> QED
  BY <1>1, Invariance, PTL

\* A living process owns the pages of its space and no others, and they hold
\* its data, whoever was created, exited or was collected meanwhile.
THEOREM SpacesCorrect == Spec => []SpacesIntact
<1>1. IInv => SpacesIntact
  BY DEF IInv
<1> QED
  BY <1>1, Invariance, PTL

\* No page stays with a process that has ended.
THEOREM NoLeaksCorrect == Spec => []NoPageLeaks
<1>1. IInv => NoPageLeaks
  BY DEF IInv
<1> QED
  BY <1>1, Invariance, PTL
=============================================================================
