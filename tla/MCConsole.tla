----------------------------- MODULE MCConsole ------------------------------
(* Two threads scan the console; a line of more than two keys runs over    *)
(* the buffer.                                                             *)
EXTENDS Console
=============================================================================
