---------------------------- MODULE MCKeypadLed ----------------------------
(* Five seconds are Hold ticks here; a press may come in any of them.      *)
EXTENDS KeypadLed
=============================================================================
