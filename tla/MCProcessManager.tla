-------------------------- MODULE MCProcessManager --------------------------
(* Three programs; they wait for every pid there is, for one there is not, *)
(* and for a negative one.                                                 *)
EXTENDS ProcessManager

MCPids == -1..NPrograms
=============================================================================
