---------------------------- MODULE MCSchedFrame ----------------------------
(* Three workers, three tasks of which one is pinned to the main thread. *)
EXTENDS SchedFrame

CONSTANTS w1, w2, w3, t1, t2, t3

MCWorkers == {w1, w2, w3}
MCTasks == {t1, t2, t3}
MCPinned == {t3}
=============================================================================
