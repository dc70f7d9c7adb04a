------------------------------- MODULE MCTrace -------------------------------
(* Small instances of the trace buffer for TLC.                            *)
EXTENDS Trace

CONSTANTS car, eval, form, t1
=============================================================================
