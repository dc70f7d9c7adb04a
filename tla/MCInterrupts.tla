---------------------------- MODULE MCInterrupts ----------------------------
(* Small instances of the interrupt queue for TLC.                         *)
EXTENDS Interrupts

CONSTANTS s1, s2, timer
=============================================================================
