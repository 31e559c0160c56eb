----------------------------- MODULE QueueSpec -----------------------------
(***************************************************************************)
(* What a que_t promises its users: a first-in first-out queue with the    *)
(* operators of Queue.tla.  result is what the last call returned.         *)
(***************************************************************************)
EXTENDS Queue

CONSTANT Nums       \* the numbers that are queued

VARIABLES q, result

Init == q = << >> /\ result = NONE

Enter == \E num \in Nums : q' = EnQue(q, num) /\ result' = NONE
Leave == q' = AfterDeQue(q) /\ result' = Dequeued(q)

Spec == Init /\ [][Enter \/ Leave]_<<q, result>>
=============================================================================
