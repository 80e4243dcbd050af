---------------------------- MODULE MCInterrupts ----------------------------
(* Two programs, with the clock, the keyboard and the serial port.          *)
EXTENDS Interrupts

MCIrqs == {0, 1, 4}
=============================================================================
