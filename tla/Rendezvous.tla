----------------------------- MODULE Rendezvous -----------------------------
(***************************************************************************)
(* What the message requests of the scheduler promise to tasks (task.h:    *)
(* Task_Send, Task_Receive, Task_Reply), with no threads, ready queues or  *)
(* locks.  A sender is blocked from its send until the reply of the very   *)
(* task that received its message; a receiver gets the messages sent to it *)
(* one at a time and in the order they were sent; nothing is received      *)
(* twice, and nothing is lost short of a reset of the whole scheduler.     *)
(***************************************************************************)
EXTENDS Sequences, Naturals

CONSTANT Tasks

VARIABLES
  pending,    \* the senders whose message to a task it has not received, in order
  receiving,  \* the tasks blocked in a receive
  owed        \* the senders a task has received from and not replied to

vars == <<pending, receiving, owed>>

InSeq(t, s) == \E i \in DOMAIN s : s[i] = t

\* A task that is in none of these takes part in no exchange.
Uncommitted(t) ==
  /\ t \notin receiving
  /\ \A r \in Tasks : ~InSeq(t, pending[r]) /\ t \notin owed[r]

Init == /\ pending = [t \in Tasks |-> <<>>]
        /\ receiving = {}
        /\ owed = [t \in Tasks |-> {}]

Send(s, r) ==
  /\ s # r
  /\ Uncommitted(s)
  /\ IF r \in receiving
     THEN /\ receiving' = receiving \ {r}
          /\ owed' = [owed EXCEPT ![r] = @ \cup {s}]
          /\ pending' = pending
     ELSE /\ pending' = [pending EXCEPT ![r] = Append(@, s)]
          /\ UNCHANGED <<receiving, owed>>

Receive(r) ==
  /\ Uncommitted(r)
  /\ IF pending[r] = <<>>
     THEN /\ receiving' = receiving \cup {r}
          /\ UNCHANGED <<pending, owed>>
     ELSE /\ owed' = [owed EXCEPT ![r] = @ \cup {Head(pending[r])}]
          /\ pending' = [pending EXCEPT ![r] = Tail(@)]
          /\ receiving' = receiving

Reply(r, s) ==
  /\ Uncommitted(r)
  /\ s \in owed[r]
  /\ owed' = [owed EXCEPT ![r] = @ \ {s}]
  /\ UNCHANGED <<pending, receiving>>

\* A slot is given to a new task: it owes nothing.  What was sent to the slot
\* and not received is still queued there.
Reborn(t) ==
  /\ Uncommitted(t)
  /\ owed' = [owed EXCEPT ![t] = {}]
  /\ UNCHANGED <<pending, receiving>>

Reset ==
  /\ pending' = [t \in Tasks |-> <<>>]
  /\ receiving' = {}
  /\ owed' = [t \in Tasks |-> {}]

Next ==
  \/ \E s, r \in Tasks : Send(s, r) \/ Reply(r, s)
  \/ \E t \in Tasks : Receive(t) \/ Reborn(t)
  \/ Reset

Spec == Init /\ [][Next]_vars
=============================================================================
