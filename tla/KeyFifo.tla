------------------------------ MODULE KeyFifo ------------------------------
(***************************************************************************)
(* What a keypad key queue promises its clients: a FIFO of keystrokes that *)
(* never refuses a new keystroke and, when it already holds Capacity of    *)
(* them, forgets the oldest one to make room.                              *)
(*                                                                         *)
(* EfiKeyQueue shows that the ring buffer implements this specification;   *)
(* KeypadDxe uses a sequence of at most Capacity keystrokes in its place.  *)
(***************************************************************************)
EXTENDS Naturals, Sequences

CONSTANTS Keys,      \* the keystrokes that can be queued
          NotReady,  \* what a pop of an empty queue answers
          Capacity   \* how many keystrokes the queue holds at most, at least one

VARIABLES pending,   \* the queued keystrokes, oldest first
          last       \* the last operation and the keystroke it was about

vars == <<pending, last>>

Pushed(s, k) == Append(IF Len(s) = Capacity THEN Tail(s) ELSE s, k)

Init == pending = << >> /\ last = <<"clear", NotReady>>

Push(k) == pending' = Pushed(pending, k) /\ last' = <<"push", k>>

Pop ==
  /\ pending # << >>
  /\ last' = <<"pop", Head(pending)>>
  /\ pending' = Tail(pending)

PopEmpty ==
  /\ pending = << >>
  /\ last' = <<"pop", NotReady>>
  /\ UNCHANGED pending

Clear == pending' = << >> /\ last' = <<"clear", NotReady>>

Next == (\E k \in Keys : Push(k)) \/ Pop \/ PopEmpty \/ Clear

Spec == Init /\ [][Next]_vars
=============================================================================
