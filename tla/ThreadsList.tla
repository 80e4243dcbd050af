---------------------------- MODULE ThreadsList -----------------------------
(* The threads of gThreadsList (kernel/user/thread.h), which KernelInit     *)
(* fills with the programs that it loads.                                   *)
EXTENDS Integers

CONSTANT NThreads       \* how many there are once KernelInit has loaded

ASSUME NThreadsAssumption == NThreads \in Nat \ {0}
=============================================================================
