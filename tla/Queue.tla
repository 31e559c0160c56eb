------------------------------- MODULE Queue -------------------------------
(***************************************************************************)
(* The process queues of pA/tools.c (que_t, EnQue, DeQue, QueEmpty,        *)
(* QueFull), as the other modules see them: a sequence of at most QUE_MAX  *)
(* numbers, head first.  QueArray.tla models the array behind it and shows *)
(* that it implements these operators.                                     *)
(***************************************************************************)
EXTENDS Integers, Sequences, FiniteSets, Functions

CONSTANT QUE_MAX        \* capacity of a que_t (20 in const-type.h)

NONE == -1              \* "none selected" of const-type.h

QueEmpty(q) == q = << >>
QueFull(q) == Len(q) = QUE_MAX

\* EnQue into a full queue prints "Panic: queue is full" and stops in the
\* debugger; when the debugger continues, the number has been dropped.
EnQue(q, num) == IF QueFull(q) THEN q ELSE Append(q, num)

\* EnQue called once for each element of nums, in order.
EnQueAll(q, nums) ==
  IF Len(q \o nums) <= QUE_MAX THEN q \o nums ELSE SubSeq(q \o nums, 1, QUE_MAX)

\* The number DeQue returns, and the queue it leaves.
Dequeued(q) == IF QueEmpty(q) THEN NONE ELSE Head(q)
AfterDeQue(q) == IF QueEmpty(q) THEN q ELSE Tail(q)

\* A queue holds a set: every member once and nothing else.
Holds(q, S) == IsInjective(q) /\ Range(q) = S

\* The order in which a loop over the pcb array visits a set of pids.
InOrder(S) ==
  {b \in [1..Cardinality(S) -> S] : \A i, j \in DOMAIN b : i < j => b[i] < b[j]}
=============================================================================
