---------------------------- MODULE MCKeypadDxe ----------------------------
(* KeypadDxe with two clients and queues small enough to overflow.         *)
EXTENDS KeypadDxe
=============================================================================
