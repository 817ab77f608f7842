------------------------------- MODULE Sched -------------------------------
(***************************************************************************)
(* The fiber scheduler of src/src/sched.c: tasks (fibers) that run until   *)
(* their next request, the main thread and the worker threads that run     *)
(* them and service those requests, and the operations the main thread     *)
(* performs from outside a task (events, synchronous runs, creation,       *)
(* clearing the session state).                                            *)
(*                                                                         *)
(* A thread that has run a task up to its request services that request    *)
(* under s_request_lock.  The service is split in two, because the task is *)
(* back in the ready queue before the servicing thread is done with it:    *)
(*   Service...     the switch of sched_task_service_request, up to the    *)
(*                  sched_reactivate of the requesting task;               *)
(*   Post...        what follows: the release of the event argument, the   *)
(*                  stores through the task pointer, and the unlock.       *)
(*                                                                         *)
(* Task bodies are arbitrary: any request, at any time, within the         *)
(* contract stated by the guards of the Request actions.  Requests bounds  *)
(* the kinds of request the bodies of one model make.                      *)
(*                                                                         *)
(* Abstractions: priorities (any queued task may be popped), messages,     *)
(* replies and return values, the stack of a task, the order of free slots *)
(* and of the waiters of one event.                                        *)
(***************************************************************************)
EXTENDS Integers, Sequences, FiniteSets

CONSTANTS
  Tasks,        \* the tids: indices of s_tasks (MAX_TASKS of them)
  Workers,      \* the worker threads (s_nworkers of them)
  Main,         \* g_main_thread_id
  NoThread,     \* owner of a free s_request_lock
  NoTask,       \* NULL_TID
  Events,       \* event numbers
  NoEvent,      \* in requests that name none
  OwnedEvents,  \* those whose argument sched_retain_arg copies for the task
  Requests,     \* kinds of request the task bodies of this model make
  Kinds         \* flags, and presence of a future, of the tasks they create

Threads == Workers \cup {Main}

\* Requests that only return a value to the task: every one reactivates it.
SelfRequests == {"MY_TID", "MY_PARENT_TID", "YIELD"}

AllRequests == SelfRequests \cup
  {"CREATE", "SEND", "RECEIVE", "REPLY", "AWAIT_EVENT", "SET_DESTRUCTOR",
   "WAIT", "FREE", "RUN_SYNC"}

ASSUME SchedAssumption ==
  /\ IsFiniteSet(Tasks)
  /\ Main \notin Workers
  /\ NoThread \notin Threads
  /\ NoTask \notin Tasks
  /\ NoEvent \notin Events
  /\ OwnedEvents \subseteq Events
  /\ Requests \subseteq AllRequests
  /\ Kinds \subseteq [pin : BOOLEAN, det : BOOLEAN, fut : BOOLEAN]

States == {"ACTIVE", "READY", "SEND_BLOCKED", "RECV_BLOCKED",
           "REPLY_BLOCKED", "EVENT_BLOCKED", "ZOMBIE"}

\* struct request: kind, the tid it names, the event it names.
Request == [type : AllRequests, to : Tasks \cup {NoTask},
            event : Events \cup {NoEvent}]

Req(type, to) == [type |-> type, to |-> to, event |-> NoEvent]

VARIABLES
  (* struct task, one field per variable *)
  state,       \* task->state
  pinned,      \* TASK_MAIN_THREAD_PINNED in task->flags
  detached,    \* TASK_DETACHED in task->flags
  parent,      \* task->parent_tid
  req,         \* task->req
  earg,        \* "held": task->erelease set; "freed": released, not yet NULL
  dtor,        \* task->destructor: "none", "set", "ran" (its call has been made)
  future,      \* status of task->future
  (* the scheduler *)
  free,        \* the slots on the list at s_freehead
  nfree,       \* s_nfree
  ready,       \* entries of the task in s_ready_queue_main (if pinned) or s_ready_queue
  msgq,        \* s_msg_queues
  eventq,      \* s_event_queues
  waited,      \* s_parent_waiting
  lock,        \* owner of s_request_lock
  (* the threads *)
  pc, cur,     \* what a thread is doing, and with which task
  nest,        \* main's C stack: the tasks whose RUN_SYNC requests it is inside, innermost last
  mainOp,      \* main's outermost frame: "none", "event", "sync"
  torun,       \* Sched_HandleEvent's local queue
  (* what a task body remembers *)
  received,    \* senders it has received from and not replied to
  children     \* tids of the children it has created and not waited for

taskVars   == <<state, pinned, detached, parent, req, earg, dtor, future>>
schedVars  == <<free, nfree, ready, msgq, eventq, waited, lock>>
threadVars == <<pc, cur, nest, mainOp, torun>>
bodyVars   == <<received, children>>
vars == <<taskVars, schedVars, threadVars, bodyVars>>
-----------------------------------------------------------------------------
(* Helpers *)

\* sched_reactivate for every task of S, on top of the states st.
Reactivate(S, st) ==
  /\ state' = [t \in Tasks |-> IF t \in S THEN "READY" ELSE st[t]]
  /\ ready' = [t \in Tasks |-> IF t \in S THEN ready[t] + 1 ELSE ready[t]]

\* The status of the task's future when the task is created.
FutureAtStart(t, kind) == IF kind.fut THEN "incomplete" ELSE "none"

\* sched_task_alloc and sched_task_init of slot t, which is then reactivated
\* together with the tasks of S.
Spawn(t, kind, par, S) ==
  /\ free' = free \ {t}
  /\ nfree' = nfree - 1
  /\ pinned' = [pinned EXCEPT ![t] = kind.pin]
  /\ detached' = [detached EXCEPT ![t] = kind.det]
  /\ parent' = [parent EXCEPT ![t] = par]
  /\ earg' = [earg EXCEPT ![t] = "none"]
  /\ dtor' = [dtor EXCEPT ![t] = "none"]
  /\ future' = [future EXCEPT ![t] = FutureAtStart(t, kind)]
  /\ received' = [received EXCEPT ![t] = {}]
  /\ Reactivate(S \cup {t}, state)

\* sched_task_free
Free(t) == /\ free' = free \cup {t}
           /\ nfree' = nfree + 1

\* The task a thread is running, if its body is what runs.
Runs(thr, t) == pc[thr] = "running" /\ cur[thr] = t

\* SDL mutexes are recursive.
CanLock(thr) == lock \in {NoThread, thr}

\* pq_size of a queue the task is in; pq_remove finds it there.
Queued(t) == ready[t] > 0

\* A worker thread only looks at the general queue.
MayPopAny(thr, t) == TRUE
MayPop(thr, t) == thr # Main => ~pinned[t]

\* The receiver is blocked in its receive and can be handed the message.
DeliverableIfReady(to) == state[to] \in {"SEND_BLOCKED", "READY"}
Deliverable(to) == state[to] = "SEND_BLOCKED"

\* queue_tid_push of a sender
EnqueueFirst(q, s) == <<s>> \o q
Enqueue(q, s) == Append(q, s)

\* The states once a sender's message has been received.
StillQueued(s) == state
AwaitsReply(s) == [state EXCEPT ![s] = "REPLY_BLOCKED"]

\* The child has exited: its parent can have its slot freed.
CollectableIfActive(c) == state[c] \in {"ZOMBIE", "ACTIVE"}
Collectable(c) == state[c] = "ZOMBIE"

\* Whom the exit of a task that is not detached wakes up.
ParentWaits(t) == waited[t]

\* task->erelease = NULL, task->earg = NULL
ArgKept(t) == earg
ArgCleared(t) == [earg EXCEPT ![t] = "none"]
-----------------------------------------------------------------------------
(* Running tasks *)

\* The pop of worker_wait_task_or_quiesce, Sched_Tick, Sched_Flush and
\* Sched_CreateBlocking: a worker only sees the general queue.
Pop(thr, t) ==
  /\ pc[thr] = "idle"
  /\ thr = Main => mainOp = "none"
  /\ Queued(t)
  /\ MayPop(thr, t)
  /\ ready' = [ready EXCEPT ![t] = @ - 1]
  /\ pc' = [pc EXCEPT ![thr] = "popped"]
  /\ cur' = [cur EXCEPT ![thr] = t]
  /\ UNCHANGED <<taskVars, free, nfree, msgq, eventq, waited, lock,
                 nest, mainOp, torun, bodyVars>>

\* sched_task_run, up to the switch into the task.
Run(thr) ==
  /\ pc[thr] = "popped"
  /\ state' = [state EXCEPT ![cur[thr]] = "ACTIVE"]
  /\ pc' = [pc EXCEPT ![thr] = "running"]
  /\ UNCHANGED <<pinned, detached, parent, req, earg, dtor, future, schedVars,
                 cur, nest, mainOp, torun, bodyVars>>
-----------------------------------------------------------------------------
(* Requests: the body stores its request and switches back to its thread. *)

\* Sched_Request
Issue(thr, t, r) ==
  /\ Runs(thr, t)
  /\ r.type \in Requests
  /\ req' = [req EXCEPT ![t] = r]
  /\ pc' = [pc EXCEPT ![thr] = "switched"]
  /\ UNCHANGED <<state, pinned, detached, parent, earg, dtor, future,
                 free, nfree, msgq, eventq, waited, lock,
                 cur, nest, mainOp, torun>>

RequestSelf(thr, t) ==
  /\ \E k \in SelfRequests \cup {"CREATE", "RECEIVE"} : Issue(thr, t, Req(k, NoTask))
  /\ UNCHANGED <<ready, bodyVars>>

\* Only the two services set a destructor, and neither of them sends, waits or
\* awaits an event.
RequestSetDestructor(thr, t) ==
  /\ Issue(thr, t, Req("SET_DESTRUCTOR", NoTask))
  /\ UNCHANGED <<ready, bodyVars>>

\* A body sends to a tid it believes to be alive, never to itself.
RequestSend(thr, t) ==
  /\ dtor[t] = "none"
  /\ \E to \in Tasks \ ({t} \cup free) : Issue(thr, t, Req("SEND", to))
  /\ UNCHANGED <<ready, bodyVars>>

\* A body replies to what it has received, once.
RequestReply(thr, t) ==
  \E to \in received[t] :
    /\ Issue(thr, t, Req("REPLY", to))
    /\ received' = [received EXCEPT ![t] = @ \ {to}]
    /\ UNCHANGED <<ready, children>>

\* Only main-thread tasks await events whose argument they will own
\* (the tick notifier, which is not pinned, awaits one whose argument is NULL).
RequestAwaitEvent(thr, t) ==
  /\ dtor[t] = "none"
  /\ \E e \in Events :
       /\ e \in OwnedEvents => pinned[t]
       /\ Issue(thr, t, [type |-> "AWAIT_EVENT", to |-> NoTask, event |-> e])
  /\ UNCHANGED <<ready, bodyVars>>

\* A body waits for a tid once; for one that is not its child the wait fails.
\* Only main-thread tasks wait (see PostDone), and none that has a destructor.
RequestWait(thr, t) ==
  /\ pinned[t]
  /\ dtor[t] = "none"
  /\ \E c \in Tasks \ {t} :
       /\ parent[c] = t /\ ~detached[c] => c \in children[t]
       /\ Issue(thr, t, Req("WAIT", c))
       /\ children' = [children EXCEPT ![t] = @ \ {c}]
  /\ UNCHANGED <<ready, received>>

\* The body returns: sched_task_exit, on the task's own stack and unlocked.
Exit(thr, t) ==
  /\ Runs(thr, t)
  /\ "FREE" \in Requests
  /\ future' = [future EXCEPT ![t] = IF @ = "none" THEN @ ELSE "complete"]
  /\ dtor' = [dtor EXCEPT ![t] = IF @ = "none" THEN @ ELSE "ran"]
  /\ earg' = [earg EXCEPT ![t] = "none"]
  /\ req' = [req EXCEPT ![t] = Req("FREE", NoTask)]
  /\ pc' = [pc EXCEPT ![thr] = "switched"]
  /\ UNCHANGED <<state, pinned, detached, parent, schedVars,
                 cur, nest, mainOp, torun, bodyVars>>

\* Sched_RunSync called by a task: the target is claimed (taken off its ready
\* queue) under the locks, and then run by a _SCHED_REQ_RUN_SYNC request.
RequestRunSync(t, target) ==
  /\ CanLock(Main)
  /\ detached[target]
  /\ state[target] = "READY"
  /\ Queued(target)
  /\ Issue(Main, t, Req("RUN_SYNC", target))
  /\ ready' = [ready EXCEPT ![target] = @ - 1]
  /\ UNCHANGED bodyVars
-----------------------------------------------------------------------------
(* sched_task_service_request: take s_request_lock, perform the request. *)

Service(thr, t, type) ==
  /\ pc[thr] = "switched"
  /\ cur[thr] = t
  /\ req[t].type = type
  /\ CanLock(thr)
  /\ lock' = thr
  /\ req' = req

\* The switch is left: what follows is the Post part.
Served(thr) ==
  /\ pc' = [pc EXCEPT ![thr] = "serviced"]
  /\ UNCHANGED <<cur, nest, mainOp, torun>>

ServiceSelf(thr, t) ==
  /\ \E k \in SelfRequests : Service(thr, t, k)
  /\ Served(thr)
  /\ Reactivate({t}, state)
  /\ UNCHANGED <<pinned, detached, parent, earg, dtor, future, free, nfree,
                 msgq, eventq, waited, bodyVars>>

ServiceSetDestructor(thr, t) ==
  /\ Service(thr, t, "SET_DESTRUCTOR")
  /\ Served(thr)
  /\ dtor' = [dtor EXCEPT ![t] = "set"]
  /\ Reactivate({t}, state)
  /\ UNCHANGED <<pinned, detached, parent, earg, future, free, nfree,
                 msgq, eventq, waited, bodyVars>>

\* sched_create: a new child, or NULL_TID when there is no free slot.
ServiceCreate(thr, t) ==
  /\ Service(thr, t, "CREATE")
  /\ Served(thr)
  /\ \/ \E c \in free, kind \in Kinds :
          /\ Spawn(c, kind, t, {t})
          /\ children' = [children EXCEPT ![t] = IF kind.det THEN @ ELSE @ \cup {c},
                                          ![c] = {}]
     \/ /\ free = {}
        /\ Reactivate({t}, state)
        /\ UNCHANGED <<free, nfree, pinned, detached, parent, earg, dtor,
                       future, bodyVars>>
  /\ UNCHANGED <<msgq, eventq, waited>>

\* sched_send: to a receiver blocked on receive, or into its queue.
ServiceSend(thr, t) ==
  LET to == req[t].to IN
  /\ Service(thr, t, "SEND")
  /\ Served(thr)
  /\ \/ /\ Deliverable(to)
        /\ Reactivate({to}, AwaitsReply(t))
        /\ received' = [received EXCEPT ![to] = @ \cup {t}]
        /\ msgq' = msgq
     \/ /\ ~Deliverable(to)
        /\ state' = [state EXCEPT ![t] = "RECV_BLOCKED"]
        /\ msgq' = [msgq EXCEPT ![to] = Enqueue(@, t)]
        /\ UNCHANGED <<ready, received>>
  /\ UNCHANGED <<pinned, detached, parent, earg, dtor, future, free, nfree,
                 eventq, waited, children>>

\* sched_receive: the first queued sender, or block.
ServiceReceive(thr, t) ==
  /\ Service(thr, t, "RECEIVE")
  /\ Served(thr)
  /\ \/ /\ msgq[t] # <<>>
        /\ Reactivate({t}, AwaitsReply(Head(msgq[t])))
        /\ received' = [received EXCEPT ![t] = @ \cup {Head(msgq[t])}]
        /\ msgq' = [msgq EXCEPT ![t] = Tail(@)]
     \/ /\ msgq[t] = <<>>
        /\ state' = [state EXCEPT ![t] = "SEND_BLOCKED"]
        /\ UNCHANGED <<ready, received, msgq>>
  /\ UNCHANGED <<pinned, detached, parent, earg, dtor, future, free, nfree,
                 eventq, waited, children>>

\* sched_reply: both the sender and the replier become ready.
ServiceReply(thr, t) ==
  /\ Service(thr, t, "REPLY")
  /\ Served(thr)
  /\ Reactivate({t, req[t].to}, state)
  /\ UNCHANGED <<pinned, detached, parent, earg, dtor, future, free, nfree,
                 msgq, eventq, waited, bodyVars>>

\* sched_await_event
ServiceAwaitEvent(thr, t) ==
  /\ Service(thr, t, "AWAIT_EVENT")
  /\ Served(thr)
  /\ state' = [state EXCEPT ![t] = "EVENT_BLOCKED"]
  /\ eventq' = [eventq EXCEPT ![req[t].event] = @ \cup {t}]
  /\ UNCHANGED <<pinned, detached, parent, earg, dtor, future, free, nfree,
                 ready, msgq, waited, bodyVars>>

\* sched_wait: a failed wait reactivates nobody.
ServiceWait(thr, t) ==
  LET c == req[t].to
      mine == parent[c] = t /\ ~detached[c] IN
  /\ Service(thr, t, "WAIT")
  /\ Served(thr)
  /\ \/ /\ ~mine
        /\ UNCHANGED <<state, ready, free, nfree, waited>>
     \/ /\ mine /\ Collectable(c)
        /\ Free(c)
        /\ Reactivate({t}, state)
        /\ waited' = waited
     \/ /\ mine /\ ~Collectable(c)
        /\ waited' = [waited EXCEPT ![c] = TRUE]
        /\ UNCHANGED <<state, ready, free, nfree>>
  /\ UNCHANGED <<pinned, detached, parent, earg, dtor, future, msgq, eventq,
                 bodyVars>>

\* _SCHED_REQ_FREE, issued by sched_task_exit.
ServiceFree(thr, t) ==
  /\ Service(thr, t, "FREE")
  /\ Served(thr)
  /\ \/ /\ detached[t]
        /\ Free(t)
        /\ UNCHANGED <<state, ready, waited>>
     \/ /\ ~detached[t] /\ ParentWaits(t)
        /\ waited' = [waited EXCEPT ![t] = FALSE]
        /\ Reactivate({parent[t]}, state)
        /\ Free(t)
     \/ /\ ~detached[t] /\ ~ParentWaits(t)
        /\ state' = [state EXCEPT ![t] = "ZOMBIE"]
        /\ UNCHANGED <<ready, free, nfree, waited>>
  /\ UNCHANGED <<pinned, detached, parent, earg, dtor, future, msgq, eventq,
                 bodyVars>>

\* _SCHED_REQ_RUN_SYNC: the claimed task runs on main, nested in this service.
ServiceRunSync(t) ==
  LET target == req[t].to IN
  /\ Service(Main, t, "RUN_SYNC")
  /\ state' = [state EXCEPT ![target] = "ACTIVE"]
  /\ pc' = [pc EXCEPT ![Main] = "running"]
  /\ cur' = [cur EXCEPT ![Main] = target]
  /\ nest' = Append(nest, t)
  /\ UNCHANGED <<pinned, detached, parent, earg, dtor, future, free, nfree,
                 ready, msgq, eventq, waited, mainOp, torun, bodyVars>>
-----------------------------------------------------------------------------
(* The end of sched_task_service_request. *)

\* task->erelease(task->earg): called, the pointer not yet cleared.
PostRelease(thr) ==
  /\ pc[thr] = "serviced"
  /\ earg[cur[thr]] # "none"
  /\ earg' = [earg EXCEPT ![cur[thr]] = "freed"]
  /\ pc' = [pc EXCEPT ![thr] = "released"]
  /\ UNCHANGED <<state, pinned, detached, parent, req, dtor, future, schedVars,
                 cur, nest, mainOp, torun, bodyVars>>

\* The thread is inside the service of a RUN_SYNC request.
Nested(thr) == thr = Main /\ nest # <<>>

\* What PostDone leaves is the outermost frame that holds the lock.
Unlocks(thr) == ~(thr = Main /\ mainOp = "event")

PostReady(thr) ==
  \/ pc[thr] = "released"
  \/ pc[thr] = "serviced" /\ earg[cur[thr]] = "none"

\* The pointer is cleared and s_request_lock unlocked; for WAIT the store of
\* sched_wait's value to task->retval is made in the Post part too.
PostDone(thr) ==
  /\ PostReady(thr)
  /\ ~Nested(thr)
  /\ earg' = ArgCleared(cur[thr])
  /\ pc' = [pc EXCEPT ![thr] = "idle"]
  /\ cur' = [cur EXCEPT ![thr] = NoTask]
  /\ IF Unlocks(thr)
     THEN /\ lock' = NoThread
          /\ mainOp' = IF thr = Main THEN "none" ELSE mainOp
     ELSE UNCHANGED <<lock, mainOp>>
  /\ UNCHANGED <<state, pinned, detached, parent, req, dtor, future,
                 free, nfree, ready, msgq, eventq, waited,
                 nest, torun, bodyVars>>

\* The same inside a RUN_SYNC request, whose issuer is reactivated in turn.
PostNested ==
  LET issuer == nest[Len(nest)] IN
  /\ PostReady(Main)
  /\ Nested(Main)
  /\ earg' = ArgCleared(cur[Main])
  /\ cur' = [cur EXCEPT ![Main] = issuer]
  /\ nest' = SubSeq(nest, 1, Len(nest) - 1)
  /\ pc' = [pc EXCEPT ![Main] = "serviced"]
  /\ Reactivate({issuer}, state)
  /\ UNCHANGED <<pinned, detached, parent, req, dtor, future, free, nfree,
                 msgq, eventq, waited, lock, mainOp, torun, bodyVars>>
-----------------------------------------------------------------------------
(* The main thread, outside any task. *)

MainFree == pc[Main] = "idle" /\ mainOp = "none"

\* Sched_Create, from the main thread or from a task running on it; nothing
\* changes when no slot is free.
SchedCreate(t) ==
  /\ MainFree \/ pc[Main] = "running"
  /\ CanLock(Main)
  /\ t \in free
  /\ \E kind \in Kinds : Spawn(t, [kind EXCEPT !.det = TRUE], NoTask, {})
  /\ children' = [children EXCEPT ![t] = {}]
  /\ UNCHANGED <<req, msgq, eventq, waited, lock, threadVars>>

\* Sched_HandleEvent, up to the end of its first loop.
HandleEvent(e, immediate) ==
  LET waiters == eventq[e] IN
  /\ MainFree
  /\ CanLock(Main)
  /\ waiters # {}
  /\ eventq' = [eventq EXCEPT ![e] = {}]
  /\ earg' = [t \in Tasks |-> IF t \in waiters
                              THEN IF e \in OwnedEvents THEN "held" ELSE "none"
                              ELSE earg[t]]
  /\ IF immediate
     THEN /\ torun' = waiters
          /\ mainOp' = "event"
          /\ lock' = Main
          /\ UNCHANGED <<state, ready>>
     ELSE /\ Reactivate(waiters, state)
          /\ UNCHANGED <<torun, mainOp, lock>>
  /\ UNCHANGED <<pinned, detached, parent, req, dtor, future, free, nfree,
                 msgq, waited, pc, cur, nest, bodyVars>>

\* One round of Sched_HandleEvent's second loop.
HandleNext(t) ==
  /\ mainOp = "event"
  /\ pc[Main] = "idle"
  /\ t \in torun
  /\ torun' = torun \ {t}
  /\ pc' = [pc EXCEPT ![Main] = "popped"]
  /\ cur' = [cur EXCEPT ![Main] = t]
  /\ UNCHANGED <<taskVars, schedVars, nest, mainOp, bodyVars>>

HandleDone ==
  /\ mainOp = "event"
  /\ pc[Main] = "idle"
  /\ torun = {}
  /\ mainOp' = "none"
  /\ lock' = NoThread
  /\ UNCHANGED <<taskVars, free, nfree, ready, msgq, eventq, waited,
                 pc, cur, nest, torun, bodyVars>>

\* Sched_RunSync from outside a task: true only for a detached, queued task.
RunSync(t) ==
  /\ MainFree
  /\ CanLock(Main)
  /\ detached[t]
  /\ state[t] = "READY"
  /\ Queued(t)
  /\ ready' = [ready EXCEPT ![t] = @ - 1]
  /\ lock' = Main
  /\ mainOp' = "sync"
  /\ pc' = [pc EXCEPT ![Main] = "popped"]
  /\ cur' = [cur EXCEPT ![Main] = t]
  /\ UNCHANGED <<taskVars, free, nfree, msgq, eventq, waited,
                 nest, torun, bodyVars>>

\* The two tasks of Task_CreateServices, created on an empty scheduler.
ServicePairs == {S \in SUBSET Tasks : Cardinality(S) = 2}

\* Sched_ClearState, after sched_quiesce_workers: the tasks whose destructors
\* it runs and whose arguments it releases.  Its loops over the event and
\* message queues read queue->mem from cell 0, not from queue->ihead: the tids
\* they find, as many as the queue holds, are of tasks that wait there or once
\* did.  Which ones is the ring's history: here, any set of tasks.
SomeoneQueued == (\E e \in Events : eventq[e] # {}) \/ (\E r \in Tasks : msgq[r] # <<>>)

Cleaned(found) == {t \in Tasks : ready[t] > 0 \/ t \in found \/ state[t] = "SEND_BLOCKED"}

ClearState(S, found) ==
  /\ MainFree
  /\ \A w \in Workers : pc[w] = "idle"
  /\ S \in ServicePairs
  /\ found # {} => SomeoneQueued
  /\ state' = [t \in Tasks |-> IF t \in S THEN "READY" ELSE "ACTIVE"]
  /\ ready' = [t \in Tasks |-> IF t \in S THEN 1 ELSE 0]
  /\ pinned' = [t \in Tasks |-> IF t \in S THEN FALSE ELSE pinned[t]]
  /\ detached' = [t \in Tasks |-> IF t \in S THEN TRUE ELSE detached[t]]
  /\ parent' = [t \in Tasks |-> IF t \in S THEN NoTask ELSE parent[t]]
  /\ future' = [t \in Tasks |-> IF t \in S THEN "none" ELSE future[t]]
  /\ dtor' = [t \in Tasks |-> IF t \in S THEN "none"
                              ELSE IF t \in Cleaned(found) /\ dtor[t] = "set"
                                   THEN "ran" ELSE dtor[t]]
  /\ earg' = [t \in Tasks |-> IF t \in S THEN "none"
                              ELSE IF t \in Cleaned(found) /\ earg[t] = "held"
                                   THEN "freed" ELSE earg[t]]
  /\ free' = Tasks \ S
  /\ nfree' = Cardinality(Tasks) - 2
  /\ msgq' = [t \in Tasks |-> <<>>]
  /\ eventq' = [e \in Events |-> {}]
  /\ waited' = [t \in Tasks |-> FALSE]
  /\ received' = [t \in Tasks |-> {}]
  /\ children' = [t \in Tasks |-> {}]
  /\ UNCHANGED <<req, lock, threadVars>>
-----------------------------------------------------------------------------
\* Sched_Init: zeroed tasks, all slots free, then Task_CreateServices.
InitWith(S) ==
  /\ state = [t \in Tasks |-> IF t \in S THEN "READY" ELSE "ACTIVE"]
  /\ pinned = [t \in Tasks |-> FALSE]
  /\ detached = [t \in Tasks |-> t \in S]
  /\ parent = [t \in Tasks |-> NoTask]
  /\ req = [t \in Tasks |-> Req("CREATE", NoTask)]
  /\ earg = [t \in Tasks |-> "none"]
  /\ dtor = [t \in Tasks |-> "none"]
  /\ future = [t \in Tasks |-> "none"]
  /\ free = Tasks \ S
  /\ nfree = Cardinality(Tasks) - 2
  /\ ready = [t \in Tasks |-> IF t \in S THEN 1 ELSE 0]
  /\ msgq = [t \in Tasks |-> <<>>]
  /\ eventq = [e \in Events |-> {}]
  /\ waited = [t \in Tasks |-> FALSE]
  /\ lock = NoThread
  /\ pc = [thr \in Threads |-> "idle"]
  /\ cur = [thr \in Threads |-> NoTask]
  /\ nest = <<>>
  /\ mainOp = "none"
  /\ torun = {}
  /\ received = [t \in Tasks |-> {}]
  /\ children = [t \in Tasks |-> {}]

Init == \E S \in ServicePairs : InitWith(S)

RequestStep(thr, t) ==
  \/ RequestSelf(thr, t)
  \/ RequestSetDestructor(thr, t)
  \/ RequestSend(thr, t)
  \/ RequestReply(thr, t)
  \/ RequestAwaitEvent(thr, t)
  \/ RequestWait(thr, t)
  \/ Exit(thr, t)

ServiceStep(thr, t) ==
  \/ ServiceSelf(thr, t)
  \/ ServiceSetDestructor(thr, t)
  \/ ServiceCreate(thr, t)
  \/ ServiceSend(thr, t)
  \/ ServiceReceive(thr, t)
  \/ ServiceReply(thr, t)
  \/ ServiceAwaitEvent(thr, t)
  \/ ServiceWait(thr, t)
  \/ ServiceFree(thr, t)

Next ==
  \/ \E thr \in Threads, t \in Tasks :
       Pop(thr, t) \/ RequestStep(thr, t) \/ ServiceStep(thr, t)
  \/ \E thr \in Threads : Run(thr) \/ PostRelease(thr) \/ PostDone(thr)
  \/ \E t, target \in Tasks : RequestRunSync(t, target)
  \/ \E t \in Tasks : ServiceRunSync(t) \/ SchedCreate(t) \/ HandleNext(t) \/ RunSync(t)
  \/ PostNested
  \/ \E e \in Events, immediate \in BOOLEAN : HandleEvent(e, immediate)
  \/ HandleDone
  \/ \E S \in ServicePairs, found \in SUBSET Tasks : ClearState(S, found)

Spec == Init /\ [][Next]_vars
-----------------------------------------------------------------------------
TypeOK ==
  /\ state \in [Tasks -> States]
  /\ pinned \in [Tasks -> BOOLEAN]
  /\ detached \in [Tasks -> BOOLEAN]
  /\ parent \in [Tasks -> Tasks \cup {NoTask}]
  /\ req \in [Tasks -> Request]
  /\ earg \in [Tasks -> {"none", "held", "freed"}]
  /\ dtor \in [Tasks -> {"none", "set", "ran"}]
  /\ future \in [Tasks -> {"none", "incomplete", "complete"}]
  /\ free \in SUBSET Tasks
  /\ nfree \in Nat
  /\ ready \in [Tasks -> Nat]
  /\ msgq \in [Tasks -> Seq(Tasks)]
  /\ eventq \in [Events -> SUBSET Tasks]
  /\ waited \in [Tasks -> BOOLEAN]
  /\ lock \in Threads \cup {NoThread}
  /\ pc \in [Threads -> {"idle", "popped", "running", "switched",
                         "serviced", "released"}]
  /\ cur \in [Threads -> Tasks \cup {NoTask}]
  /\ nest \in Seq(Tasks)
  /\ mainOp \in {"none", "event", "sync"}
  /\ torun \in SUBSET Tasks
  /\ received \in [Tasks -> SUBSET Tasks]
  /\ children \in [Tasks -> SUBSET Tasks]

\* A thread is about to run the task, runs it, or holds its pending request.
Has(thr, t) == cur[thr] = t /\ pc[thr] \in {"popped", "running", "switched"}

\* A thread still has statements of the task's last request to perform.
Finishing(thr, t) == cur[thr] = t /\ pc[thr] \in {"serviced", "released"}

\* The task main is about to run for the RUN_SYNC request of the task it has.
Claimed(t) == /\ pc[Main] = "switched"
              /\ req[cur[Main]].type = "RUN_SYNC"
              /\ req[cur[Main]].to = t

\* The task issued a RUN_SYNC request that main is in the middle of.
Nesting(t) == \E i \in DOMAIN nest : nest[i] = t

\* Inside Task_Wait, or a task whose Task_Wait has failed.
InWait(t) == state[t] = "ACTIVE" /\ req[t].type = "WAIT"

PlaceKinds == {"free", "queue", "thread", "torun", "claimed", "nesting",
               "event", "message", "blocked", "zombie"}

\* Everything that can make a task run again, or hand its slot out.
At(t, k) ==
  \/ k = "free"    /\ t \in free
  \/ k = "queue"   /\ ready[t] > 0
  \/ k = "thread"  /\ \E thr \in Threads : Has(thr, t)
  \/ k = "torun"   /\ t \in torun
  \/ k = "claimed" /\ Claimed(t)
  \/ k = "nesting" /\ Nesting(t)
  \/ k = "event"   /\ \E e \in Events : t \in eventq[e]
  \/ k = "message" /\ \E r \in Tasks : \E i \in DOMAIN msgq[r] : msgq[r][i] = t
  \/ k = "blocked" /\ state[t] \in {"SEND_BLOCKED", "REPLY_BLOCKED"}
  \/ k = "zombie"  /\ state[t] = "ZOMBIE" /\ t \notin free

\* A task is in one place only, and once: it is never queued twice, run by two
\* threads, or queued while its slot is free; and only a task inside Task_Wait
\* is in none.
OnePlace ==
  \A t \in Tasks :
    /\ \A j, k \in PlaceKinds : At(t, j) /\ At(t, k) => j = k
    /\ (\A k \in PlaceKinds : ~At(t, k)) => InWait(t)
    /\ ready[t] <= 1
    /\ \A a, b \in Threads : Has(a, t) /\ Has(b, t) => a = b
    /\ \A i, j \in DOMAIN nest : nest[i] = t /\ nest[j] = t => i = j
    /\ \A d, e \in Events : t \in eventq[d] /\ t \in eventq[e] => d = e
    /\ \A q, r \in Tasks : \A i \in DOMAIN msgq[q], j \in DOMAIN msgq[r] :
         msgq[q][i] = t /\ msgq[r][j] = t => q = r /\ i = j

\* The count of free slots is the length of the free list: no slot is freed twice.
FreeCountExact == nfree = Cardinality(free)

\* The assertion of sched_reply: whoever a task still owes a reply, or is
\* replying to, is blocked on that reply; and nobody is owed two.
RepliesOwed ==
  \A t \in Tasks :
    /\ \A s \in received[t] : state[s] = "REPLY_BLOCKED"
    /\ \A u \in Tasks \ {t} : received[t] \cap received[u] = {}
    /\ (\E thr \in Threads : Has(thr, t) /\ pc[thr] = "switched")
          /\ req[t].type = "REPLY" => state[req[t].to] = "REPLY_BLOCKED"

\* A task is resumed by another thread only when the thread that serviced its
\* request has nothing left to do with it: no argument to release and clear,
\* no return value to store.
HandedBackUntouched ==
  \A thr, other \in Threads : \A t \in Tasks :
    thr # other /\ Finishing(thr, t) /\ Has(other, t)
      => earg[t] = "none" /\ req[t].type # "WAIT"

\* A running task's event argument is one it may still read: it was not
\* released behind its back.
NoStaleArg == \A thr \in Threads, t \in Tasks : Runs(thr, t) => earg[t] # "freed"

\* A pinned task is only ever run by the main thread.
PinnedOnMain == \A w \in Workers, t \in Tasks : Has(w, t) => ~pinned[t]

\* The slot of a task is free only once its destructor has run and its event
\* argument has been released.
CleanedBeforeFree == \A t \in free : dtor[t] # "set" /\ earg[t] # "held"

\* A parent marked as waiting is inside Task_Wait for a child that has not
\* exited yet: the wake-up it counts on is still to come.
WaitNotLost ==
  \A c \in Tasks : waited[c] =>
    /\ c \notin free /\ state[c] # "ZOMBIE"
    /\ parent[c] \in Tasks
    /\ InWait(parent[c]) /\ req[parent[c]].to = c
    /\ \A k \in PlaceKinds : ~At(parent[c], k)

\* s_request_lock serialises requests: a thread inside a service holds it, and
\* it is held only by a thread inside one, or inside an event or a sync run.
LockedService ==
  /\ \A thr \in Threads : pc[thr] \in {"serviced", "released"} => lock = thr
  /\ mainOp # "none" => lock = Main
  /\ lock # NoThread =>
       \/ pc[lock] \in {"serviced", "released"}
       \/ lock = Main /\ (mainOp # "none" \/ nest # <<>>)

\* Wherever the main thread may call Sched_RunSync (from outside a task or from
\* the body it is running) a pinned task that is READY is in its queue, so the
\* call finds it: entity.c and py_task.c rely on it right after Sched_Create.
PinnedRunsSync ==
  MainFree \/ pc[Main] = "running" =>
    \A t \in Tasks : pinned[t] /\ state[t] = "READY" => ready[t] > 0

\* A future is complete only once the body that returned it will run no more.
FutureAfterBody ==
  \A t \in Tasks : future[t] = "complete" =>
    \/ t \in free
    \/ state[t] = "ZOMBIE"
    \/ req[t].type = "FREE" /\ \E thr \in Threads : Has(thr, t) /\ pc[thr] = "switched"

\* The end of a task, for those who wait for it or for its future, and for the
\* next task of its slot: the wake-up is still to come, the future is complete no
\* sooner, and the slot is free once, with the destructor run.
EndsClean == WaitNotLost /\ FutureAfterBody /\ FreeCountExact /\ CleanedBeforeFree

\* Nobody touches, or takes away, what a task that runs again may be using.
NoLateTouch == HandedBackUntouched /\ NoStaleArg

\* Pinned tasks run on the main thread, and Sched_RunSync finds them there.
PinnedRunsHere == PinnedOnMain /\ PinnedRunsSync

\* The message requests implement the rendezvous.
Replying(t) == IF /\ req[t].type = "REPLY"
                  /\ \E thr \in Threads : Has(thr, t) /\ pc[thr] = "switched"
               THEN {req[t].to} ELSE {}

Exchange == INSTANCE Rendezvous WITH
  pending <- msgq,
  receiving <- {t \in Tasks : state[t] = "SEND_BLOCKED"},
  owed <- [t \in Tasks |-> received[t] \cup Replying(t)]

\* Implements Rendezvous: see that module for what it promises.
ImplementsRendezvous == Exchange!Spec
=============================================================================
