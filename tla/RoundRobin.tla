----------------------------- MODULE RoundRobin -----------------------------
(***************************************************************************)
(* What the scheduler promises, with nothing of how: one process runs, the *)
(* others that want the CPU wait in one line, in the order in which they   *)
(* came to want it; the CPU goes to the head of the line and only to it,   *)
(* and to the idle process exactly when nobody waits.  A process that      *)
(* joins while the CPU is being given up joins behind everyone who was     *)
(* already there.                                                          *)
(***************************************************************************)
EXTENDS Integers, Sequences, FiniteSets, Functions

CONSTANTS Proc,     \* the processes, without the idle one
          Idle,     \* the idle process
          First     \* the process that waits when the system starts

VARIABLES current, line

Init == current = Idle /\ line = <<First>>

\* The lines that newcomers can form: processes that neither run nor wait,
\* each once.
Arrivals ==
  LET absent == Proc \ (Range(line) \cup {current})
  IN {a \in UNION {[1..n -> absent] : n \in 0..Cardinality(absent)} : IsInjective(a)}

Dispatch(waiting) ==
  \/ waiting = << >> /\ current' = Idle /\ line' = << >>
  \/ waiting # << >> /\ current' = Head(waiting) /\ line' = Tail(waiting)

\* The running process goes on.
Continue == \E a \in Arrivals : current # Idle /\ current' = current /\ line' = line \o a

\* It gives the CPU up and joins the line behind the newcomers.
Yield == \E a \in Arrivals : current # Idle /\ Dispatch(Append(line \o a, current))

\* It gives the CPU up and does not join; or the idle process is relieved.
Release == \E a \in Arrivals : Dispatch(line \o a)

Next == Continue \/ Yield \/ Release

Spec == Init /\ [][Next]_<<current, line>>
=============================================================================
