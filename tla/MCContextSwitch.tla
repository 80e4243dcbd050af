-------------------------- MODULE MCContextSwitch ---------------------------
(* Three threads, one of which may go astray, and two values: 0 stands for *)
(* 0x0020.                                                                 *)
EXTENDS ContextSwitch

MCValues == {0, 1}
=============================================================================
