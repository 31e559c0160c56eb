----------------------------- MODULE QueueArray -----------------------------
(***************************************************************************)
(* que_t of pA/const-type.h and EnQue, DeQue of pA/tools.c as they are     *)
(* written: an array filled from index 0 and the index of the first free   *)
(* cell.  DeQue moves every number down by one, cell by cell.  The kernel  *)
(* calls them with interrupts off, so a call is one action.                *)
(***************************************************************************)
EXTENDS Queue

CONSTANT Nums       \* the numbers that are queued

ASSUME QueueArrayAssumption == QUE_MAX \in Nat \ {0} /\ Nums \subseteq Nat

VARIABLES que, tail, result

arrayVars == <<que, tail, result>>

\* A que_t is cleared with Bzero.
ArrayInit == que = [i \in 0..(QUE_MAX - 1) |-> 0] /\ tail = 0 /\ result = NONE

\* Mutant of EnQueCall: tail is advanced first.
EnQueCallAfterTail ==
  /\ result' = NONE
  /\ \E num \in Nums :
       IF tail = QUE_MAX THEN UNCHANGED <<que, tail>>
       ELSE tail' = tail + 1 /\ que' = [que EXCEPT ![(tail + 1) % QUE_MAX] = num]

\* A full queue: the debugger; the number is not queued.
EnQueCall ==
  /\ result' = NONE
  /\ \E num \in Nums :
       \/ tail = QUE_MAX /\ UNCHANGED <<que, tail>>
       \/ tail # QUE_MAX /\ que' = [que EXCEPT ![tail] = num] /\ tail' = tail + 1

\* Mutant of Moved: the loop stops one cell early.
MovedButLast(array, t) ==
  [i \in 0..(QUE_MAX - 1) |-> IF i < t - 2 THEN array[i + 1] ELSE array[i]]

\* for(i = 0; i < tail-1; i++) que[i] = que[i+1]: each cell takes the next one's
\* number, which the loop has not overwritten yet.
Moved(array, t) ==
  [i \in 0..(QUE_MAX - 1) |-> IF i < t - 1 THEN array[i + 1] ELSE array[i]]

DeQueCall ==
  \/ tail = 0 /\ result' = NONE /\ UNCHANGED <<que, tail>>
  \/ /\ tail # 0
     /\ result' = que[0] /\ tail' = tail - 1
     /\ que' = [Moved(que, tail) EXCEPT ![tail - 1] = NONE]

ArrayNext == EnQueCall \/ DeQueCall

ArraySpec == ArrayInit /\ [][ArrayNext]_arrayVars

-----------------------------------------------------------------------------
ArrayTypeOK ==
  /\ que \in [0..(QUE_MAX - 1) -> Nums \cup {0, NONE}]
  /\ tail \in 0..QUE_MAX /\ result \in Nums \cup {NONE}

\* The queue the array stands for.
Queued == [i \in 1..tail |-> que[i - 1]]

\* The array implements the queue the kernel's other models use: what DeQue
\* returns is what was queued first, a full queue keeps what it has, and a cell
\* behind tail never comes back.
QS == INSTANCE QueueSpec WITH q <- Queued
ImplementsQueue == QS!Spec
=============================================================================
