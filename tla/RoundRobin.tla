----------------------------- MODULE RoundRobin -----------------------------
(***************************************************************************)
(* What the scheduler promises, without its lists, counters and thread     *)
(* records: the processor is given to the N threads in the order in which  *)
(* they were created, each one in turn, forever, and nobody is skipped.    *)
(* (README.md of the kernel: "on sauvegarde son contexte et on permute sur *)
(* la tache suivante".)                                                    *)
(***************************************************************************)
EXTENDS Integers

CONSTANT N      \* number of threads

VARIABLE turn   \* 0 before the first switch, then the thread that runs

Init == turn = 0

\* The first interrupt of the clock that finds a thread starts the first one.
First ==
    /\ turn = 0
    /\ turn' = 1

\* Every later switch goes to the next thread in creation order.
Rotate ==
    /\ turn # 0
    /\ turn' = (turn % N) + 1

Next == First \/ Rotate

Spec == Init /\ [][Next]_turn /\ WF_turn(Next)
=============================================================================
