------------------------------ MODULE MCSched ------------------------------
(* Instances of Sched for TLC: three tasks that exchange messages, and two  *)
(* that make every kind of request.                                         *)
EXTENDS SchedInv, TLC

Symmetry == Permutations(Tasks)

\* What most callers of Sched_Create pass: pinned or not, with no future.
CreatedKinds == [pin : BOOLEAN, det : {TRUE}, fut : {FALSE}]

\* ... and those whose caller waits for them or for their future.
AllKinds == CreatedKinds \cup [pin : BOOLEAN, det : BOOLEAN, fut : {TRUE}]
=============================================================================
