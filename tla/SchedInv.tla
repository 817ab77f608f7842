------------------------------ MODULE SchedInv ------------------------------
(***************************************************************************)
(* The inductive invariant of Sched.  The safety properties of Sched are   *)
(* not inductive as they stand: that a reply finds its target blocked, for *)
(* instance, needs that no two tasks owe the same reply, which needs that  *)
(* a sender is queued once, and so on.  The invariant ties every place a   *)
(* task can be in to its state, excludes the pairs of places that share a  *)
(* state, and says what holds of a task between the moment its body issues *)
(* a request and the moment the request is serviced.                       *)
(***************************************************************************)
EXTENDS Sched

Busy(t) == \E thr \in Threads : Has(thr, t)

InQueueOf(t, r) == \E i \in DOMAIN msgq[r] : msgq[r][i] = t

InEvent(t) == \E e \in Events : t \in eventq[e]

\* The thread has the task's request, not yet serviced.
Pending(thr, t, type) == pc[thr] = "switched" /\ cur[thr] = t /\ req[t].type = type

\* The threads, s_request_lock and main's frames.
FramesOK ==
  /\ \A thr \in Threads : pc[thr] = "idle" <=> cur[thr] = NoTask
  /\ \A thr \in Threads : pc[thr] \in {"serviced", "released"} => lock = thr
  /\ mainOp # "none" => lock = Main
  /\ nest # <<>> => /\ lock = Main
                    /\ pc[Main] \in {"running", "switched", "serviced", "released"}
  /\ mainOp = "sync" => pc[Main] # "idle"
  /\ mainOp # "event" => torun = {}
  /\ lock # NoThread => \/ pc[lock] \in {"serviced", "released"}
                        \/ lock = Main /\ (mainOp # "none" \/ nest # <<>>)

\* What being in a place says of the task's state.
PlaceState(t) ==
  /\ t \in free => state[t] \in {"ACTIVE", "ZOMBIE"}
  /\ ready[t] > 0 => state[t] = "READY"
  /\ \A thr \in Threads : cur[thr] = t =>
       /\ pc[thr] = "popped" => state[t] \in {"READY", "EVENT_BLOCKED"}
       /\ pc[thr] \in {"running", "switched"} => state[t] = "ACTIVE"
  /\ t \in torun => state[t] = "EVENT_BLOCKED"
  /\ InEvent(t) => state[t] = "EVENT_BLOCKED"
  /\ Claimed(t) => state[t] = "READY"
  /\ Nesting(t) => state[t] = "ACTIVE" /\ req[t].type = "RUN_SYNC"
  /\ \A r \in Tasks : InQueueOf(t, r) => state[t] = "RECV_BLOCKED"

\* The places that share a state exclude each other.
Exclusive(t) ==
  /\ t \in free => ~Busy(t) /\ ~Nesting(t)
  /\ Busy(t) => ~Nesting(t) /\ ready[t] = 0 /\ ~Claimed(t) /\ ~InEvent(t) /\ t \notin torun
  /\ Claimed(t) => ready[t] = 0
  /\ InEvent(t) => t \notin torun

\* A task is in a place once.
Once(t) ==
  /\ ready[t] <= 1
  /\ \A a, b \in Threads : Has(a, t) /\ Has(b, t) => a = b
  /\ \A i, j \in DOMAIN nest : nest[i] = t /\ nest[j] = t => i = j
  /\ \A d, e \in Events : t \in eventq[d] /\ t \in eventq[e] => d = e
  /\ \A q, r \in Tasks : \A i \in DOMAIN msgq[q], j \in DOMAIN msgq[r] :
       msgq[q][i] = t /\ msgq[r][j] = t => q = r /\ i = j

\* What a state says of the places.
StatePlace(t) ==
  /\ state[t] = "ACTIVE" => t \in free \/ Busy(t) \/ Nesting(t) \/ req[t].type = "WAIT"
  /\ state[t] = "READY" => ready[t] > 0 \/ Busy(t) \/ Claimed(t)
  /\ state[t] = "RECV_BLOCKED" => \E r \in Tasks : InQueueOf(t, r)
  /\ state[t] = "EVENT_BLOCKED" => InEvent(t) \/ t \in torun \/ Busy(t)

PlacesOK == \A t \in Tasks : PlaceState(t) /\ Exclusive(t) /\ Once(t) /\ StatePlace(t)

\* Pending requests name what they must; replies are owed once.
RequestsOK ==
  \A thr \in Threads, t \in Tasks :
    /\ \A k \in {"SEND", "REPLY", "WAIT", "RUN_SYNC"} :
         Pending(thr, t, k) => req[t].to \in Tasks
    /\ Pending(thr, t, "AWAIT_EVENT") =>
         /\ req[t].event \in Events
         /\ req[t].event \in OwnedEvents => pinned[t]

RepliesOK ==
  /\ \A t \in Tasks : \A s \in received[t] : state[s] = "REPLY_BLOCKED"
  /\ \A t, u \in Tasks : t # u => received[t] \cap received[u] = {}
  /\ \A thr \in Threads, t \in Tasks : Pending(thr, t, "REPLY") =>
       /\ state[req[t].to] = "REPLY_BLOCKED"
       /\ \A u \in Tasks : req[t].to \notin received[u]
       /\ \A o \in Threads, u \in Tasks :
            Pending(o, u, "REPLY") /\ req[u].to = req[t].to => t = u

\* Parents and children.
FamilyOK ==
  /\ \A t \in Tasks : \A c \in children[t] :
       parent[c] = t /\ ~detached[c] /\ c \notin free /\ ~waited[c]
  /\ \A thr \in Threads, t \in Tasks : Pending(thr, t, "WAIT") =>
       /\ parent[req[t].to] = t /\ ~detached[req[t].to] =>
            req[t].to \notin free \cup children[t] /\ ~waited[req[t].to]
  /\ \A c \in Tasks : waited[c] =>
       /\ c \notin free /\ ~detached[c] /\ state[c] # "ZOMBIE"
       /\ parent[c] \in Tasks
       /\ InWait(parent[c]) /\ req[parent[c]].to = c
       /\ parent[c] \notin free /\ ~Busy(parent[c]) /\ ~Nesting(parent[c])

\* Event arguments: only pinned tasks own one, and only main releases it.
ArgOK(t) ==
  /\ earg[t] # "none" => t \in free \/ pinned[t]
  /\ \A e \in OwnedEvents : t \in eventq[e] => pinned[t]
  /\ \A w \in Workers : cur[w] = t => ~pinned[t] /\ earg[t] = "none"
  /\ earg[t] = "freed" => t \in free \/ (pc[Main] = "released" /\ cur[Main] = t)
  /\ earg[t] = "held" =>
       Busy(t) \/ Nesting(t) \/ state[t] = "READY" \/ t \in torun \/ Finishing(Main, t)
  /\ \A thr \in Threads : req[t].type = "WAIT" =>
       (Pending(thr, t, "WAIT") \/ Finishing(thr, t) => pinned[t])

\* Destructors and what is left of a task that has exited.
ExitOK(t) ==
  /\ t \in free => dtor[t] # "set" /\ earg[t] # "held"
  /\ state[t] = "ZOMBIE" /\ t \notin free => dtor[t] # "set" /\ earg[t] = "none"
  /\ \A thr \in Threads :
       /\ Pending(thr, t, "FREE") => dtor[t] # "set" /\ earg[t] = "none"
       /\ Finishing(thr, t) /\ t \in free => earg[t] = "none"
       /\ Pending(thr, t, "SEND") => dtor[t] # "set"
       /\ Pending(thr, t, "WAIT") => dtor[t] # "set"
       /\ Pending(thr, t, "AWAIT_EVENT") => dtor[t] # "set"
  /\ dtor[t] = "set" =>
       /\ state[t] \notin {"REPLY_BLOCKED", "RECV_BLOCKED", "EVENT_BLOCKED"}
       /\ state[t] = "ACTIVE" => Busy(t) \/ Nesting(t)
  /\ future[t] = "complete" =>
       \/ t \in free
       \/ state[t] = "ZOMBIE"
       \/ \E thr \in Threads : Pending(thr, t, "FREE")

LeavingsOK == \A t \in Tasks : ArgOK(t) /\ ExitOK(t)

IInv == /\ TypeOK
        /\ nfree = Cardinality(free)
        /\ FramesOK
        /\ PlacesOK
        /\ RequestsOK
        /\ RepliesOK
        /\ FamilyOK
        /\ LeavingsOK
=============================================================================
