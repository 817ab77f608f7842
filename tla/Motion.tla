------------------------------- MODULE Motion -------------------------------
(* How a unit moves (game/movement.c), as far as those who send it somewhere *)
(* can tell: it stands (ARRIVED), waits to go on, or is in one of the states *)
(* in which it moves.  What starts and ends a motion queues an event for the *)
(* unit, which is delivered later.  A unit is a record with the fields      *)
(* motion and inbox, to which its owner adds fields of its own.              *)
EXTENDS Sequences

Queue(w, event) == [w EXCEPT !.inbox = Append(@, event)]
Still(w) == w.motion = "arrived"

FinishMoving(w, motion) == [Queue(w, "MOTION_END") EXCEPT !.motion = motion]

StopMoving(w) ==
  IF w.motion = "moving" THEN FinishMoving(w, "arrived")
  ELSE [w EXCEPT !.motion = "arrived"]

StartMoving(w) ==
  IF w.motion = "moving" THEN w ELSE [Queue(w, "MOTION_START") EXCEPT !.motion = "moving"]

SurroundEntity(w) == StartMoving(StopMoving(w))
=============================================================================
