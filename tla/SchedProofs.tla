---------------------------- MODULE SchedProofs ----------------------------
(***************************************************************************)
(* Proofs about Sched, for any number of tasks, workers and events: IInv   *)
(* of SchedInv is inductive, and the safety properties follow from it.     *)
(*                                                                         *)
(* The first lemmas say how the predicates about threads (Has, Finishing,  *)
(* Pending, and Busy and Claimed made from them) change with each shape of *)
(* thread step, so that the proof of an action need not look inside them.  *)
(* Then there is one lemma per action, and under it one step for each      *)
(* part of the invariant.                                                  *)
(***************************************************************************)
EXTENDS SchedInv, FiniteSetTheorems, TLAPS

USE SchedAssumption DEF Threads

-----------------------------------------------------------------------------
(* Thread steps *)

\* An idle thread takes a task.
LEMMA Take ==
  ASSUME TypeOK, NEW thr \in Threads, NEW t \in Tasks,
         pc[thr] = "idle",
         pc' = [pc EXCEPT ![thr] = "popped"],
         cur' = [cur EXCEPT ![thr] = t],
         req' = req
  PROVE  /\ \A o \in Threads, x \in Tasks :
              /\ Has(o, x)' <=> Has(o, x) \/ (o = thr /\ x = t)
              /\ Finishing(o, x)' <=> Finishing(o, x)
              /\ \A k : Pending(o, x, k)' <=> Pending(o, x, k)
         /\ \A x \in Tasks :
              /\ Busy(x)' <=> Busy(x) \/ x = t
              /\ Claimed(x)' <=> Claimed(x)
<1>1. \A o \in Threads, x \in Tasks :
        /\ Has(o, x)' <=> Has(o, x) \/ (o = thr /\ x = t)
        /\ Finishing(o, x)' <=> Finishing(o, x)
        /\ \A k : Pending(o, x, k)' <=> Pending(o, x, k)
  BY DEF TypeOK, Has, Finishing, Pending
<1>2. \A x \in Tasks : Busy(x)' <=> Busy(x) \/ x = t
  BY <1>1 DEF Busy
<1>3. \A x \in Tasks : Claimed(x)' <=> Claimed(x)
  BY DEF TypeOK, Claimed
<1>. QED BY <1>1, <1>2, <1>3

\* The body of the thread's task issues request r.
Issues(thr, t, r) ==
  /\ Runs(thr, t)
  /\ pc' = [pc EXCEPT ![thr] = "switched"]
  /\ cur' = cur
  /\ req' = [req EXCEPT ![t] = r]

\* A body that issues a request keeps its thread busy with its task.
LEMMA Issued ==
  ASSUME IInv, NEW thr \in Threads, NEW t \in Tasks, NEW r \in Request,
         Issues(thr, t, r)
  PROVE  /\ \A o \in Threads, x \in Tasks :
              /\ Has(o, x)' <=> Has(o, x)
              /\ Finishing(o, x)' <=> Finishing(o, x)
              /\ \A k : Pending(o, x, k)' <=>
                          (o = thr /\ x = t /\ k = r.type) \/ (o # thr /\ Pending(o, x, k))
              /\ \A k : Pending(o, x, k) => o # thr /\ x # t
         /\ \A x \in Tasks :
              /\ Busy(x)' <=> Busy(x)
              /\ Claimed(x)' <=> \/ thr = Main /\ r.type = "RUN_SYNC" /\ r.to = x
                                 \/ thr # Main /\ Claimed(x)
              /\ thr = Main => ~Claimed(x)
         /\ Busy(t) /\ Has(thr, t)
<1>. USE DEF Issues
<1>0. /\ TypeOK
      /\ Has(thr, t)
      /\ \A o \in Threads : Has(o, t) => o = thr
      /\ pc[Main] = "switched" => cur[Main] \in Tasks /\ Has(Main, cur[Main])
  BY DEF IInv, PlacesOK, Once, Runs, Has, FramesOK, TypeOK
<1>1. \A o \in Threads, x \in Tasks :
        /\ Has(o, x)' <=> Has(o, x)
        /\ Finishing(o, x)' <=> Finishing(o, x)
  BY <1>0 DEF TypeOK, Has, Finishing, Runs
<1>2. \A o \in Threads, x \in Tasks :
        /\ \A k : Pending(o, x, k)' <=>
                    (o = thr /\ x = t /\ k = r.type) \/ (o # thr /\ Pending(o, x, k))
        /\ \A k : Pending(o, x, k) => o # thr /\ x # t
  BY <1>0 DEF TypeOK, Has, Pending, Runs
<1>3. \A x \in Tasks : Busy(x)' <=> Busy(x)
  BY <1>1 DEF Busy
<1>4. \A x \in Tasks :
        /\ Claimed(x)' <=> \/ thr = Main /\ r.type = "RUN_SYNC" /\ r.to = x
                           \/ thr # Main /\ Claimed(x)
        /\ thr = Main => ~Claimed(x)
  <2>1. ASSUME thr = Main, NEW x \in Tasks
        PROVE  (Claimed(x)' <=> r.type = "RUN_SYNC" /\ r.to = x) /\ ~Claimed(x)
    BY <1>0, <2>1 DEF TypeOK, Claimed, Runs
  <2>2. ASSUME thr # Main, NEW x \in Tasks
        PROVE  Claimed(x)' <=> Claimed(x)
    BY <1>0, <2>2 DEF TypeOK, Claimed, Runs, Has
  <2>. QED BY <2>1, <2>2
<1>. QED BY <1>0, <1>1, <1>2, <1>3, <1>4 DEF Busy

\* What is known when a thread leaves the switch of sched_task_service_request:
\* the task was in that thread only, and now nobody has it.
LeftSwitch(thr, t, type) ==
  /\ \A o \in Threads, x \in Tasks :
       /\ Has(o, x)' <=> Has(o, x) /\ o # thr
       /\ Finishing(o, x)' <=> o = thr /\ x = t
       /\ ~Finishing(o, x)
       /\ \A k : Pending(o, x, k)' <=> Pending(o, x, k) /\ o # thr
  /\ \A x \in Tasks :
       /\ Busy(x)' <=> Busy(x) /\ x # t
       /\ Claimed(x)' <=> Claimed(x) /\ thr # Main
       /\ Claimed(x) /\ thr = Main => type = "RUN_SYNC"
       /\ Nesting(x)' <=> Nesting(x)
       /\ Has(thr, x) \/ (\E k : Pending(thr, x, k)) => x = t
       /\ received[x] \subseteq Tasks /\ children[x] \subseteq Tasks
  /\ Has(thr, t) /\ Busy(t) /\ Pending(thr, t, type)
  /\ \A o \in Threads : /\ Has(o, t) => o = thr
                        /\ \A k : Pending(o, t, k) => o = thr /\ k = type
                        /\ cur[o] = t => o = thr \/ pc[o] = "idle"
                        /\ o # thr => pc'[o] = pc[o]
  /\ state[t] = "ACTIVE" /\ ready[t] = 0 /\ t \notin free /\ t \notin torun
  /\ ~InEvent(t) /\ ~Nesting(t) /\ ~Claimed(t) /\ \A r \in Tasks : ~InQueueOf(t, r)
  /\ pc[thr] = "switched" /\ cur[thr] = t /\ req[t].type = type
  /\ pc'[thr] = "serviced" /\ cur' = cur /\ req' = req /\ lock' = thr
  /\ nest' = nest /\ mainOp' = mainOp /\ torun' = torun

\* A request is serviced: the thread is done with the switch and holds the lock.
LEMMA ServedStep ==
  ASSUME IInv, NEW thr \in Threads, NEW t \in Tasks, NEW type,
         Service(thr, t, type), Served(thr)
  PROVE  LeftSwitch(thr, t, type) /\ FramesOK'
<1>0. /\ TypeOK /\ FramesOK
      /\ pc[thr] = "switched" /\ cur[thr] = t /\ req[t].type = type /\ lock \in {NoThread, thr}
      /\ pc' = [pc EXCEPT ![thr] = "serviced"] /\ cur' = cur /\ req' = req /\ lock' = thr
      /\ nest' = nest /\ mainOp' = mainOp /\ torun' = torun
  BY DEF IInv, Service, Served, CanLock
<1>1. Has(thr, t) /\ \A o \in Threads : Has(o, t) => o = thr
  BY <1>0 DEF IInv, PlacesOK, Once, Has
<1>6. \A o \in Threads, x \in Tasks : ~Finishing(o, x)
  BY <1>0 DEF FramesOK, Finishing, TypeOK
<1>2. \A o \in Threads, x \in Tasks :
        /\ Has(o, x)' <=> Has(o, x) /\ o # thr
        /\ Finishing(o, x)' <=> o = thr /\ x = t
        /\ \A k : Pending(o, x, k)' <=> Pending(o, x, k) /\ o # thr
  BY <1>0, <1>6 DEF TypeOK, Has, Finishing, Pending
<1>3. \A x \in Tasks : Busy(x)' <=> Busy(x) /\ x # t
  BY <1>0, <1>1, <1>2 DEF Busy, Has
<1>4. \A x \in Tasks : /\ Claimed(x)' <=> Claimed(x) /\ thr # Main
                       /\ Claimed(x) /\ thr = Main => type = "RUN_SYNC"
  BY <1>0 DEF TypeOK, Claimed
<1>5. \A x \in Tasks : /\ Nesting(x)' <=> Nesting(x)
                       /\ Has(thr, x) \/ (\E k : Pending(thr, x, k)) => x = t
                       /\ received[x] \subseteq Tasks /\ children[x] \subseteq Tasks
  BY <1>0 DEF Nesting, TypeOK, Has, Pending
<1>7. FramesOK'
  BY <1>0 DEF FramesOK, TypeOK
<1>8. Busy(t) /\ Pending(thr, t, type)
  BY <1>0, <1>1 DEF Busy, Pending
<1>9. \A o \in Threads : /\ \A k : Pending(o, t, k) => o = thr /\ k = type
                         /\ cur[o] = t => o = thr \/ pc[o] = "idle"
                         /\ o # thr => pc'[o] = pc[o]
  BY <1>0, <1>1, <1>6 DEF Pending, Has, Finishing, TypeOK
<1>10. PlaceState(t) /\ Exclusive(t) /\ pc'[thr] = "serviced"
  BY <1>0 DEF IInv, PlacesOK, TypeOK
<1>11. /\ state[t] = "ACTIVE" /\ ready[t] = 0 /\ t \notin free /\ t \notin torun
       /\ ~InEvent(t) /\ ~Nesting(t) /\ ~Claimed(t) /\ \A r \in Tasks : ~InQueueOf(t, r)
  BY <1>0, <1>8, <1>10 DEF PlaceState, Exclusive, TypeOK
<1>. QED
  BY <1>0, <1>1, <1>2, <1>3, <1>4, <1>5, <1>6, <1>7, <1>8, <1>9, <1>10, <1>11
    DEF LeftSwitch

\* A task that is blocked on a message, or a zombie, is nowhere else.
LEMMA BlockedElsewhere ==
  ASSUME IInv, NEW x \in Tasks,
         state[x] \in {"SEND_BLOCKED", "RECV_BLOCKED", "REPLY_BLOCKED", "ZOMBIE"}
  PROVE  /\ ready[x] = 0 /\ ~Busy(x) /\ ~Nesting(x) /\ ~Claimed(x) /\ ~InEvent(x)
         /\ x \notin torun
         /\ \A o \in Threads : \A k : ~Pending(o, x, k) /\ ~Has(o, x)
         /\ state[x] # "ZOMBIE" => x \notin free
         /\ state[x] # "RECV_BLOCKED" => \A r \in Tasks : ~InQueueOf(x, r)
<1>1. PlaceState(x) /\ TypeOK /\ FramesOK
  BY DEF IInv, PlacesOK
<1>. QED BY <1>1 DEF PlaceState, Busy, Has, Pending, TypeOK

\* A task whose slot is free is nowhere, and nobody has anything to do with it.
LEMMA FreeElsewhere ==
  ASSUME IInv, NEW c \in free
  PROVE  /\ c \in Tasks /\ state[c] \in {"ACTIVE", "ZOMBIE"}
         /\ ready[c] = 0 /\ ~Busy(c) /\ ~Nesting(c) /\ ~Claimed(c) /\ ~InEvent(c)
         /\ c \notin torun
         /\ \A r \in Tasks : ~InQueueOf(c, r) /\ c \notin received[r] /\ c \notin children[r]
         /\ \A o \in Threads : \A k : ~Pending(o, c, k) /\ ~Has(o, c)
         /\ \A o \in Threads, u \in Tasks : Pending(o, u, "REPLY") => req[u].to # c
         /\ ~waited[c] /\ \A d \in Tasks : waited[d] => parent[d] # c
<1>1. /\ c \in Tasks /\ PlaceState(c) /\ Exclusive(c) /\ TypeOK
      /\ RequestsOK /\ RepliesOK /\ FamilyOK
  BY DEF IInv, PlacesOK, TypeOK
<1>2. /\ state[c] \in {"ACTIVE", "ZOMBIE"} /\ ready[c] = 0
      /\ ~Busy(c) /\ ~Nesting(c) /\ ~Claimed(c) /\ ~InEvent(c) /\ c \notin torun
      /\ \A r \in Tasks : ~InQueueOf(c, r)
  BY <1>1 DEF PlaceState, Exclusive, TypeOK
<1>3. \A o \in Threads : \A k : ~Pending(o, c, k) /\ ~Has(o, c)
  BY <1>2 DEF Busy, Has, Pending
<1>4. /\ \A r \in Tasks : c \notin received[r] /\ c \notin children[r]
      /\ \A o \in Threads, u \in Tasks : Pending(o, u, "REPLY") => req[u].to # c
      /\ ~waited[c] /\ \A d \in Tasks : waited[d] => parent[d] # c
  BY <1>1, <1>2 DEF RepliesOK, FamilyOK
<1>. QED BY <1>1, <1>2, <1>3, <1>4

-----------------------------------------------------------------------------
(* The count of free slots, and queues *)

\* Taking a slot off the free list, or putting one back, moves the count by one.
LEMMA FreeCount ==
  ASSUME TypeOK, nfree = Cardinality(free), NEW c \in Tasks
  PROVE  /\ IsFiniteSet(free)
         /\ c \in free => /\ nfree - 1 = Cardinality(free \ {c})
                          /\ nfree - 1 \in Nat
         /\ c \notin free => nfree + 1 = Cardinality(free \cup {c})
<1>1. IsFiniteSet(free)
  BY FS_Subset DEF TypeOK
<1>2. nfree \in Nat
  BY DEF TypeOK
<1>3. ASSUME c \in free
      PROVE  nfree - 1 = Cardinality(free \ {c}) /\ nfree - 1 \in Nat
  <2>1. IsFiniteSet(free \ {c}) /\ Cardinality(free \ {c}) = Cardinality(free) - 1
    BY <1>1, <1>3, FS_RemoveElement
  <2>. QED BY <2>1, FS_CardinalityType
<1>4. ASSUME c \notin free
      PROVE  nfree + 1 = Cardinality(free \cup {c})
  BY <1>1, <1>4, FS_AddElement
<1>. QED BY <1>1, <1>3, <1>4

\* The elements of a message queue after a push.
LEMMA AppendElements ==
  ASSUME NEW q \in Seq(Tasks), NEW t \in Tasks
  PROVE  /\ Append(q, t) \in Seq(Tasks)
         /\ Len(q) \in Nat /\ DOMAIN q = 1 .. Len(q)
         /\ DOMAIN Append(q, t) = 1 .. (Len(q) + 1)
         /\ \A i \in 1 .. Len(q) : Append(q, t)[i] = q[i]
         /\ Append(q, t)[Len(q) + 1] = t
OBVIOUS

\* The elements of a message queue after a pop.
LEMMA TailElements ==
  ASSUME NEW q \in Seq(Tasks), q # <<>>
  PROVE  /\ Tail(q) \in Seq(Tasks) /\ Head(q) \in Tasks
         /\ Len(q) \in Nat \ {0} /\ DOMAIN q = 1 .. Len(q) /\ Head(q) = q[1]
         /\ DOMAIN Tail(q) = 1 .. (Len(q) - 1)
         /\ \A i \in 1 .. (Len(q) - 1) : Tail(q)[i] = q[i + 1]
OBVIOUS

-----------------------------------------------------------------------------
(* Actions *)

\* A thread takes a task off a ready queue.
LEMMA PopInv ==
  ASSUME IInv, NEW thr \in Threads, NEW t \in Tasks, Pop(thr, t)
  PROVE  IInv'
<1>. USE DEF Pop, Queued, MayPop, taskVars, bodyVars
<1>0. /\ TypeOK /\ nfree = Cardinality(free) /\ FramesOK /\ PlacesOK
      /\ RequestsOK /\ RepliesOK /\ FamilyOK /\ LeavingsOK
  BY DEF IInv
<1>o. /\ \A o \in Threads, x \in Tasks :
           /\ Has(o, x)' <=> Has(o, x) \/ (o = thr /\ x = t)
           /\ Finishing(o, x)' <=> Finishing(o, x)
           /\ \A k : Pending(o, x, k)' <=> Pending(o, x, k)
      /\ \A x \in Tasks :
           /\ Busy(x)' <=> Busy(x) \/ x = t
           /\ Claimed(x)' <=> Claimed(x)
           /\ Nesting(x)' <=> Nesting(x)
  BY Take DEF IInv, Nesting
<1>1. TypeOK'
  BY <1>0 DEF TypeOK
<1>2. (nfree = Cardinality(free))'
  BY <1>0
<1>3. FramesOK'
  BY <1>0 DEF FramesOK, TypeOK
<1>4. PlacesOK'
  <2>. SUFFICES ASSUME NEW x \in Tasks
                PROVE  (PlaceState(x) /\ Exclusive(x) /\ Once(x) /\ StatePlace(x))'
    BY DEF PlacesOK
  <2>1. PlaceState(x) /\ Exclusive(x) /\ Once(x) /\ StatePlace(x)
    BY <1>0 DEF PlacesOK
  <2>2. PlaceState(x)'
    BY <1>0, <1>o, <2>1 DEF TypeOK, PlaceState, InEvent, InQueueOf
  <2>3. Exclusive(x)'
    BY <1>0, <1>o, <2>1 DEF TypeOK, Exclusive, PlaceState, Once, InEvent
  <2>4. Once(x)'
    BY <1>0, <1>o, <2>1 DEF TypeOK, Once, Exclusive, Busy
  <2>5. StatePlace(x)'
    BY <1>0, <1>o, <2>1 DEF TypeOK, StatePlace, InEvent, InQueueOf
  <2>. QED BY <2>2, <2>3, <2>4, <2>5
<1>5. RequestsOK'
  BY <1>0, <1>o DEF TypeOK, RequestsOK
<1>6. RepliesOK'
  BY <1>0, <1>o, SMTT(30) DEF TypeOK, RepliesOK
<1>7. FamilyOK'
  <2>1. \A y \in Tasks : \A ch \in children[y] :
          parent[ch] = y /\ ~detached[ch] /\ ch \notin free /\ ~waited[ch]
    BY <1>0 DEF FamilyOK
  <2>2. ASSUME NEW y \in Tasks, NEW ch \in children[y]'
        PROVE  (parent[ch] = y /\ ~detached[ch] /\ ch \notin free /\ ~waited[ch])'
    BY <1>0, <1>o, <2>1, <2>2 DEF TypeOK
  <2>3. ASSUME NEW o \in Threads, NEW y \in Tasks, Pending(o, y, "WAIT")'
        PROVE  (parent[req[y].to] = y /\ ~detached[req[y].to] =>
                  req[y].to \notin free \cup children[y] /\ ~waited[req[y].to])'
    BY <1>0, <1>o, <2>1, <2>3 DEF TypeOK, FamilyOK, RequestsOK
  <2>4. ASSUME NEW ch \in Tasks, waited[ch]'
        PROVE  (/\ ch \notin free /\ ~detached[ch] /\ state[ch] # "ZOMBIE"
                /\ parent[ch] \in Tasks
                /\ InWait(parent[ch]) /\ req[parent[ch]].to = ch
                /\ parent[ch] \notin free /\ ~Busy(parent[ch]) /\ ~Nesting(parent[ch]))'
    BY <1>0, <1>o, <2>1, <2>4 DEF TypeOK, FamilyOK, InWait, PlacesOK, PlaceState
  <2>. QED BY <2>2, <2>3, <2>4 DEF FamilyOK
<1>8. LeavingsOK'
  <2>. SUFFICES ASSUME NEW x \in Tasks
                PROVE  (ArgOK(x) /\ ExitOK(x))'
    BY DEF LeavingsOK
  <2>1. PlaceState(x) /\ Exclusive(x) /\ ArgOK(x) /\ ExitOK(x)
    BY <1>0 DEF PlacesOK, LeavingsOK
  <2>2. ArgOK(x)'
    BY <1>0, <1>o, <2>1 DEF TypeOK, ArgOK, PlaceState
  <2>3. ExitOK(x)'
    BY <1>0, <1>o, <2>1 DEF TypeOK, ExitOK, PlaceState
  <2>. QED BY <2>2, <2>3
<1>. HIDE DEF Pop, Queued, MayPop, taskVars, bodyVars
<1>. QED BY <1>1, <1>2, <1>3, <1>4, <1>5, <1>6, <1>7, <1>8 DEF IInv

\* A thread switches into the task it took.
LEMMA RunInv ==
  ASSUME IInv, NEW thr \in Threads, Run(thr)
  PROVE  IInv'
<1>. USE DEF Run, schedVars, bodyVars
<1>0. /\ TypeOK /\ nfree = Cardinality(free) /\ FramesOK /\ PlacesOK
      /\ RequestsOK /\ RepliesOK /\ FamilyOK /\ LeavingsOK
  BY DEF IInv
<1>o. /\ \A o \in Threads, x \in Tasks :
           /\ Has(o, x)' <=> Has(o, x)
           /\ Finishing(o, x)' <=> Finishing(o, x)
           /\ \A k : Pending(o, x, k)' <=> Pending(o, x, k)
      /\ \A x \in Tasks :
           /\ Busy(x)' <=> Busy(x)
           /\ Claimed(x)' <=> Claimed(x)
           /\ Nesting(x)' <=> Nesting(x)
      /\ cur[thr] \in Tasks /\ Has(thr, cur[thr]) /\ Busy(cur[thr])
      /\ state[cur[thr]] \in {"READY", "EVENT_BLOCKED"}
  BY <1>0
    DEF TypeOK, FramesOK, Has, Finishing, Pending, Busy, Claimed, Nesting, PlacesOK,
        PlaceState
<1>1. TypeOK'
  BY <1>0, ZenonT(40) DEF TypeOK, States
<1>2. (nfree = Cardinality(free))'
  BY <1>0
<1>3. FramesOK'
  BY <1>0 DEF FramesOK, TypeOK
<1>4. PlacesOK'
  <2>. SUFFICES ASSUME NEW x \in Tasks
                PROVE  (PlaceState(x) /\ Exclusive(x) /\ Once(x) /\ StatePlace(x))'
    BY DEF PlacesOK
  <2>1. PlaceState(x) /\ Exclusive(x) /\ Once(x) /\ StatePlace(x)
    BY <1>0 DEF PlacesOK
  <2>2. PlaceState(x)'
    BY <1>0, <1>o, <2>1 DEF TypeOK, PlaceState, InEvent, InQueueOf, Once, Exclusive, Has
  <2>3. Exclusive(x)'
    BY <1>0, <1>o, <2>1 DEF TypeOK, Exclusive, PlaceState, Once, InEvent
  <2>4. Once(x)'
    BY <1>0, <1>o, <2>1 DEF TypeOK, Once, Exclusive, Busy
  <2>5. StatePlace(x)'
    BY <1>0, <1>o, <2>1 DEF TypeOK, StatePlace, InEvent, InQueueOf
  <2>. QED BY <2>2, <2>3, <2>4, <2>5
<1>5. RequestsOK'
  BY <1>0, <1>o DEF TypeOK, RequestsOK
<1>6. RepliesOK'
  BY <1>0, <1>o, SMTT(30) DEF TypeOK, RepliesOK
<1>7. FamilyOK'
  <2>1. \A y \in Tasks : \A ch \in children[y] :
          parent[ch] = y /\ ~detached[ch] /\ ch \notin free /\ ~waited[ch]
    BY <1>0 DEF FamilyOK
  <2>2. ASSUME NEW y \in Tasks, NEW ch \in children[y]'
        PROVE  (parent[ch] = y /\ ~detached[ch] /\ ch \notin free /\ ~waited[ch])'
    BY <1>0, <1>o, <2>1, <2>2 DEF TypeOK
  <2>3. ASSUME NEW o \in Threads, NEW y \in Tasks, Pending(o, y, "WAIT")'
        PROVE  (parent[req[y].to] = y /\ ~detached[req[y].to] =>
                  req[y].to \notin free \cup children[y] /\ ~waited[req[y].to])'
    BY <1>0, <1>o, <2>1, <2>3 DEF TypeOK, FamilyOK, RequestsOK
  <2>4. ASSUME NEW ch \in Tasks, waited[ch]'
        PROVE  (/\ ch \notin free /\ ~detached[ch] /\ state[ch] # "ZOMBIE"
                /\ parent[ch] \in Tasks
                /\ InWait(parent[ch]) /\ req[parent[ch]].to = ch
                /\ parent[ch] \notin free /\ ~Busy(parent[ch]) /\ ~Nesting(parent[ch]))'
    BY <1>0, <1>o, <2>1, <2>4 DEF TypeOK, FamilyOK, InWait, PlacesOK, PlaceState
  <2>. QED BY <2>2, <2>3, <2>4 DEF FamilyOK
<1>8. LeavingsOK'
  <2>. SUFFICES ASSUME NEW x \in Tasks
                PROVE  (ArgOK(x) /\ ExitOK(x))'
    BY DEF LeavingsOK
  <2>1. PlaceState(x) /\ Exclusive(x) /\ ArgOK(x) /\ ExitOK(x)
    BY <1>0 DEF PlacesOK, LeavingsOK
  <2>2. ArgOK(x)'
    BY <1>0, <1>o, <2>1 DEF TypeOK, ArgOK, PlaceState
  <2>3. ExitOK(x)'
    BY <1>0, <1>o, <2>1 DEF TypeOK, ExitOK, PlaceState
  <2>. QED BY <2>2, <2>3
<1>. HIDE DEF Run, schedVars, bodyVars
<1>. QED BY <1>1, <1>2, <1>3, <1>4, <1>5, <1>6, <1>7, <1>8 DEF IInv

\* A body issues a request that takes nothing out of the ready queues. What the
\* invariant asks of the pending request is a hypothesis, met by each caller.
LEMMA IssueInv ==
  ASSUME IInv, NEW thr \in Threads, NEW t \in Tasks, NEW r \in Request,
         Issue(thr, t, r), r.type \notin {"FREE", "RUN_SYNC"}, ready' = ready,
         r.type = "SEND" => r.to \in Tasks /\ dtor[t] = "none",
         r.type = "AWAIT_EVENT" => /\ r.event \in Events /\ dtor[t] = "none"
                                   /\ r.event \in OwnedEvents => pinned[t],
         r.type = "REPLY" => r.to \in received[t],
         received' = IF r.type = "REPLY"
                     THEN [received EXCEPT ![t] = @ \ {r.to}] ELSE received,
         r.type = "WAIT" => /\ r.to \in Tasks /\ pinned[t] /\ dtor[t] = "none"
                            /\ parent[r.to] = t /\ ~detached[r.to] => r.to \in children[t],
         children' = IF r.type = "WAIT"
                     THEN [children EXCEPT ![t] = @ \ {r.to}] ELSE children
  PROVE  IInv'
<1>. USE DEF Issue
<1>0. /\ TypeOK /\ nfree = Cardinality(free) /\ FramesOK /\ PlacesOK
      /\ RequestsOK /\ RepliesOK /\ FamilyOK /\ LeavingsOK
  BY DEF IInv
<1>o. /\ \A o \in Threads, x \in Tasks :
           /\ Has(o, x)' <=> Has(o, x)
           /\ Finishing(o, x)' <=> Finishing(o, x)
           /\ \A k : Pending(o, x, k)' <=>
                       (o = thr /\ x = t /\ k = r.type) \/ (o # thr /\ Pending(o, x, k))
           /\ \A k : Pending(o, x, k) => o # thr /\ x # t
      /\ \A x \in Tasks :
           /\ Busy(x)' <=> Busy(x)
           /\ Claimed(x)' <=> \/ thr = Main /\ r.type = "RUN_SYNC" /\ r.to = x
                              \/ thr # Main /\ Claimed(x)
           /\ thr = Main => ~Claimed(x)
           /\ Nesting(x)' <=> Nesting(x)
      /\ Busy(t) /\ Has(thr, t)
  <2>1. Issues(thr, t, r)
    BY DEF Issue, Issues
  <2>2. \A x \in Tasks : Nesting(x)' <=> Nesting(x)
    BY DEF Issue, Nesting
  <2>. QED BY <2>1, <2>2, Issued
<1>1. TypeOK'
  BY <1>0 DEF TypeOK, Request
<1>2. (nfree = Cardinality(free))'
  BY <1>0
<1>3. FramesOK'
  BY <1>0 DEF FramesOK, TypeOK, Runs
<1>4. PlacesOK'
  <2>. SUFFICES ASSUME NEW x \in Tasks
                PROVE  (PlaceState(x) /\ Exclusive(x) /\ Once(x) /\ StatePlace(x))'
    BY DEF PlacesOK
  <2>1. PlaceState(x) /\ Exclusive(x) /\ Once(x) /\ StatePlace(x)
    BY <1>0 DEF PlacesOK
  <2>2. PlaceState(x)'
    BY <1>0, <1>o, <2>1 DEF TypeOK, PlaceState, InEvent, InQueueOf, Runs, Exclusive
  <2>3. Exclusive(x)'
    BY <1>0, <1>o, <2>1 DEF TypeOK, Exclusive, PlaceState, Once, InEvent
  <2>4. Once(x)'
    BY <1>0, <1>o, <2>1 DEF TypeOK, Once, Exclusive, Busy
  <2>5. StatePlace(x)'
    BY <1>0, <1>o, <2>1 DEF TypeOK, StatePlace, InEvent, InQueueOf
  <2>. QED BY <2>2, <2>3, <2>4, <2>5
<1>5. RequestsOK'
  BY <1>0, <1>o DEF TypeOK, RequestsOK
<1>6. RepliesOK'
  BY <1>0, <1>o, SMTT(30) DEF TypeOK, RepliesOK
<1>7. FamilyOK'
  <2>1. \A y \in Tasks : \A ch \in children[y] :
          parent[ch] = y /\ ~detached[ch] /\ ch \notin free /\ ~waited[ch]
    BY <1>0 DEF FamilyOK
  <2>2. ASSUME NEW y \in Tasks, NEW ch \in children[y]'
        PROVE  (parent[ch] = y /\ ~detached[ch] /\ ch \notin free /\ ~waited[ch])'
    BY <1>0, <1>o, <2>1, <2>2 DEF TypeOK
  <2>3. ASSUME NEW o \in Threads, NEW y \in Tasks, Pending(o, y, "WAIT")'
        PROVE  (parent[req[y].to] = y /\ ~detached[req[y].to] =>
                  req[y].to \notin free \cup children[y] /\ ~waited[req[y].to])'
    BY <1>0, <1>o, <2>1, <2>3 DEF TypeOK, FamilyOK, RequestsOK
  <2>4. ASSUME NEW ch \in Tasks, waited[ch]'
        PROVE  (/\ ch \notin free /\ ~detached[ch] /\ state[ch] # "ZOMBIE"
                /\ parent[ch] \in Tasks
                /\ InWait(parent[ch]) /\ req[parent[ch]].to = ch
                /\ parent[ch] \notin free /\ ~Busy(parent[ch]) /\ ~Nesting(parent[ch]))'
    BY <1>0, <1>o, <2>1, <2>4 DEF TypeOK, FamilyOK, InWait, PlacesOK, PlaceState
  <2>. QED BY <2>2, <2>3, <2>4 DEF FamilyOK
<1>8. LeavingsOK'
  <2>. SUFFICES ASSUME NEW x \in Tasks
                PROVE  (ArgOK(x) /\ ExitOK(x))'
    BY DEF LeavingsOK
  <2>1. PlaceState(x) /\ Exclusive(x) /\ ArgOK(x) /\ ExitOK(x)
    BY <1>0 DEF PlacesOK, LeavingsOK
  <2>2. ArgOK(x)'
    BY <1>0, <1>o, <2>1 DEF TypeOK, ArgOK, PlaceState, Runs
  <2>3. ExitOK(x)'
    BY <1>0, <1>o, <2>1 DEF TypeOK, ExitOK, PlaceState
  <2>. QED BY <2>2, <2>3
<1>. HIDE DEF Issue
<1>. QED BY <1>1, <1>2, <1>3, <1>4, <1>5, <1>6, <1>7, <1>8 DEF IInv

\* Each request a body makes, other than its exit, meets the hypotheses of IssueInv.
LEMMA RequestInv ==
  ASSUME IInv, NEW thr \in Threads, NEW t \in Tasks, RequestStep(thr, t), ~Exit(thr, t)
  PROVE  IInv'
<1>0. TypeOK /\ \A s \in received[t] : s \in Tasks
  BY DEF IInv, TypeOK
<1>0a. /\ \A k \in AllRequests, u \in Tasks \cup {NoTask} : Req(k, u) \in Request
       /\ \A e \in Events : [type |-> "AWAIT_EVENT", to |-> NoTask, event |-> e] \in Request
       /\ \A k, u : Req(k, u).type = k /\ Req(k, u).to = u
  BY DEF Request, Req, AllRequests
<1>1. CASE RequestSelf(thr, t)
  <2>1. PICK k \in SelfRequests \cup {"CREATE", "RECEIVE"} : Issue(thr, t, Req(k, NoTask))
    BY <1>1 DEF RequestSelf
  <2>2. UNCHANGED <<ready, received, children>>
    BY <1>1 DEF RequestSelf, bodyVars
  <2>3. Req(k, NoTask) \in Request /\ Req(k, NoTask).type = k
    BY <1>0a DEF AllRequests
  <2>. QED BY <2>1, <2>2, <2>3, IssueInv DEF SelfRequests
<1>2. CASE RequestSetDestructor(thr, t)
  <2>. DEFINE r == Req("SET_DESTRUCTOR", NoTask)
  <2>1. r \in Request /\ r.type = "SET_DESTRUCTOR"
    BY <1>0a DEF AllRequests
  <2>2. Issue(thr, t, r) /\ UNCHANGED <<ready, received, children>>
    BY <1>2 DEF RequestSetDestructor, bodyVars
  <2>. HIDE DEF r
  <2>. QED BY <2>1, <2>2, IssueInv
<1>3. CASE RequestSend(thr, t)
  <2>1. PICK to \in Tasks : Issue(thr, t, Req("SEND", to))
    BY <1>3 DEF RequestSend
  <2>. DEFINE r == Req("SEND", to)
  <2>2. r \in Request /\ r.type = "SEND" /\ r.to = to
    BY <1>0a DEF AllRequests
  <2>3. Issue(thr, t, r) /\ dtor[t] = "none" /\ UNCHANGED <<ready, received, children>>
    BY <1>3, <2>1 DEF RequestSend, bodyVars
  <2>. HIDE DEF r
  <2>. QED BY <2>2, <2>3, IssueInv
<1>4. CASE RequestReply(thr, t)
  <2>1. PICK to \in received[t] : /\ Issue(thr, t, Req("REPLY", to))
                                  /\ received' = [received EXCEPT ![t] = @ \ {to}]
                                  /\ UNCHANGED <<ready, children>>
    BY <1>4 DEF RequestReply
  <2>. DEFINE r == Req("REPLY", to)
  <2>2. r \in Request /\ r.type = "REPLY" /\ r.to = to
    BY <1>0, <1>0a DEF AllRequests
  <2>3. /\ Issue(thr, t, r) /\ UNCHANGED <<ready, children>>
        /\ received' = [received EXCEPT ![t] = @ \ {to}]
    BY <2>1
  <2>. HIDE DEF r
  <2>. QED BY <2>1, <2>2, <2>3, IssueInv
<1>5. CASE RequestAwaitEvent(thr, t)
  <2>1. PICK e \in Events :
          /\ e \in OwnedEvents => pinned[t]
          /\ Issue(thr, t, [type |-> "AWAIT_EVENT", to |-> NoTask, event |-> e])
    BY <1>5 DEF RequestAwaitEvent
  <2>. DEFINE r == [type |-> "AWAIT_EVENT", to |-> NoTask, event |-> e]
  <2>2. r \in Request /\ r.type = "AWAIT_EVENT" /\ r.event = e
    BY <1>0a
  <2>3. Issue(thr, t, r) /\ dtor[t] = "none" /\ UNCHANGED <<ready, received, children>>
    BY <1>5, <2>1 DEF RequestAwaitEvent, bodyVars
  <2>. HIDE DEF r
  <2>. QED BY <2>1, <2>2, <2>3, IssueInv
<1>6. CASE RequestWait(thr, t)
  <2>1. PICK c \in Tasks \ {t} :
          /\ parent[c] = t /\ ~detached[c] => c \in children[t]
          /\ Issue(thr, t, Req("WAIT", c))
          /\ children' = [children EXCEPT ![t] = @ \ {c}]
    BY <1>6 DEF RequestWait
  <2>. DEFINE r == Req("WAIT", c)
  <2>2. r \in Request /\ r.type = "WAIT" /\ r.to = c
    BY <1>0a DEF AllRequests
  <2>3. Issue(thr, t, r) /\ UNCHANGED <<ready, received>> /\ pinned[t] /\ dtor[t] = "none"
    BY <1>6, <2>1 DEF RequestWait
  <2>. HIDE DEF r
  <2>. QED BY <2>1, <2>2, <2>3, IssueInv
<1>. QED BY <1>1, <1>2, <1>3, <1>4, <1>5, <1>6 DEF RequestStep

\* A body returns: its destructor has run and its argument is released before
\* the request to free its slot is pending.
LEMMA ExitInv ==
  ASSUME IInv, NEW thr \in Threads, NEW t \in Tasks, Exit(thr, t)
  PROVE  IInv'
<1>. USE DEF Exit, schedVars, bodyVars
<1>0. /\ TypeOK /\ nfree = Cardinality(free) /\ FramesOK /\ PlacesOK
      /\ RequestsOK /\ RepliesOK /\ FamilyOK /\ LeavingsOK
  BY DEF IInv
<1>r. /\ pc[thr] = "running" /\ cur[thr] = t
      /\ req'[t].type = "FREE" /\ req' = [req EXCEPT ![t] = req'[t]] /\ req'[t] \in Request
  BY <1>0 DEF Req, Request, AllRequests, TypeOK, Runs
<1>o. /\ \A o \in Threads, x \in Tasks :
           /\ Has(o, x)' <=> Has(o, x)
           /\ Finishing(o, x)' <=> Finishing(o, x)
           /\ \A k : Pending(o, x, k)' <=>
                       (o = thr /\ x = t /\ k = "FREE") \/ (o # thr /\ Pending(o, x, k))
           /\ \A k : Pending(o, x, k) => o # thr /\ x # t
      /\ \A x \in Tasks :
           /\ Busy(x)' <=> Busy(x)
           /\ Claimed(x)' <=> \/ thr = Main /\ FALSE
                              \/ thr # Main /\ Claimed(x)
           /\ thr = Main => ~Claimed(x)
           /\ Nesting(x)' <=> Nesting(x)
      /\ Busy(t) /\ Has(thr, t)
  <2>. DEFINE r == Req("FREE", NoTask)
  <2>1. Issues(thr, t, r) /\ r \in Request /\ r.type = "FREE" /\ r.to = NoTask
    BY <1>r DEF Exit, Issues, Req, Request, AllRequests
  <2>2. \A x \in Tasks : Nesting(x)' <=> Nesting(x)
    BY <1>r DEF Exit, Issue, Nesting
  <2>. HIDE DEF r
  <2>. QED BY <2>1, <2>2, <1>r, Issued
<1>1. TypeOK'
  BY <1>0, <1>r DEF TypeOK
<1>2. (nfree = Cardinality(free))'
  BY <1>0, <1>r
<1>3. FramesOK'
  BY <1>0, <1>r DEF FramesOK, TypeOK
<1>4. PlacesOK'
  <2>. SUFFICES ASSUME NEW x \in Tasks
                PROVE  (PlaceState(x) /\ Exclusive(x) /\ Once(x) /\ StatePlace(x))'
    BY DEF PlacesOK
  <2>1. PlaceState(x) /\ Exclusive(x) /\ Once(x) /\ StatePlace(x)
    BY <1>0 DEF PlacesOK
  <2>2. PlaceState(x)'
    BY <1>0, <1>r, <1>o, <2>1 DEF TypeOK, PlaceState, InEvent, InQueueOf, Exclusive
  <2>3. Exclusive(x)'
    BY <1>0, <1>r, <1>o, <2>1 DEF TypeOK, Exclusive, PlaceState, Once, InEvent
  <2>4. Once(x)'
    BY <1>0, <1>r, <1>o, <2>1 DEF TypeOK, Once, Exclusive, Busy
  <2>5. StatePlace(x)'
    BY <1>0, <1>r, <1>o, <2>1 DEF TypeOK, StatePlace, InEvent, InQueueOf
  <2>. QED BY <2>2, <2>3, <2>4, <2>5
<1>5. RequestsOK'
  <2>1. \A o \in Threads, x \in Tasks, k \in {"SEND", "REPLY", "WAIT", "RUN_SYNC", "AWAIT_EVENT"} :
          Pending(o, x, k)' => Pending(o, x, k) /\ req'[x] = req[x]
    BY <1>0, <1>r, <1>o DEF TypeOK
  <2>. QED BY <1>0, <2>1 DEF RequestsOK
<1>6. RepliesOK'
  BY <1>0, <1>r, <1>o, SMTT(30) DEF TypeOK, RepliesOK
<1>7. FamilyOK'
  <2>1. \A y \in Tasks : \A ch \in children[y] :
          parent[ch] = y /\ ~detached[ch] /\ ch \notin free /\ ~waited[ch]
    BY <1>0 DEF FamilyOK
  <2>2. ASSUME NEW y \in Tasks, NEW ch \in children[y]'
        PROVE  (parent[ch] = y /\ ~detached[ch] /\ ch \notin free /\ ~waited[ch])'
    BY <1>0, <1>r, <1>o, <2>1, <2>2 DEF TypeOK
  <2>3. ASSUME NEW o \in Threads, NEW y \in Tasks, Pending(o, y, "WAIT")'
        PROVE  (parent[req[y].to] = y /\ ~detached[req[y].to] =>
                  req[y].to \notin free \cup children[y] /\ ~waited[req[y].to])'
    BY <1>0, <1>r, <1>o, <2>1, <2>3 DEF TypeOK, FamilyOK, RequestsOK
  <2>4. ASSUME NEW ch \in Tasks, waited[ch]'
        PROVE  (/\ ch \notin free /\ ~detached[ch] /\ state[ch] # "ZOMBIE"
                /\ parent[ch] \in Tasks
                /\ InWait(parent[ch]) /\ req[parent[ch]].to = ch
                /\ parent[ch] \notin free /\ ~Busy(parent[ch]) /\ ~Nesting(parent[ch]))'
    BY <1>0, <1>r, <1>o, <2>1, <2>4 DEF TypeOK, FamilyOK, InWait, PlacesOK, PlaceState
  <2>. QED BY <2>2, <2>3, <2>4 DEF FamilyOK
<1>8. LeavingsOK'
  <2>. SUFFICES ASSUME NEW x \in Tasks
                PROVE  (ArgOK(x) /\ ExitOK(x))'
    BY DEF LeavingsOK
  <2>1. PlaceState(x) /\ Exclusive(x) /\ ArgOK(x) /\ ExitOK(x)
    BY <1>0 DEF PlacesOK, LeavingsOK
  <2>2. ArgOK(x)'
    BY <1>0, <1>r, <1>o, <2>1 DEF TypeOK, ArgOK, PlaceState
  <2>3. ExitOK(x)'
    BY <1>0, <1>r, <1>o, <2>1 DEF TypeOK, ExitOK, PlaceState
  <2>. QED BY <2>2, <2>3
<1>. HIDE DEF Exit, schedVars, bodyVars
<1>. QED BY <1>1, <1>2, <1>3, <1>4, <1>5, <1>6, <1>7, <1>8 DEF IInv

\* A task claims the READY task it is going to run.
LEMMA RequestRunSyncInv ==
  ASSUME IInv, NEW t \in Tasks, NEW target \in Tasks, RequestRunSync(t, target)
  PROVE  IInv'
<1>. USE DEF RequestRunSync, Issue, bodyVars, Queued
<1>0. /\ TypeOK /\ nfree = Cardinality(free) /\ FramesOK /\ PlacesOK
      /\ RequestsOK /\ RepliesOK /\ FamilyOK /\ LeavingsOK
  BY DEF IInv
<1>r. /\ pc[Main] = "running" /\ cur[Main] = t
      /\ req'[t].type = "RUN_SYNC" /\ req'[t].to = target
      /\ req' = [req EXCEPT ![t] = req'[t]] /\ req'[t] \in Request
  BY <1>0 DEF Req, Request, AllRequests, TypeOK, Runs
<1>o. /\ \A o \in Threads, x \in Tasks :
           /\ Has(o, x)' <=> Has(o, x)
           /\ Finishing(o, x)' <=> Finishing(o, x)
           /\ \A k : Pending(o, x, k)' <=>
                       (o = Main /\ x = t /\ k = "RUN_SYNC") \/ (o # Main /\ Pending(o, x, k))
           /\ \A k : Pending(o, x, k) => o # Main /\ x # t
      /\ \A x \in Tasks :
           /\ Busy(x)' <=> Busy(x)
           /\ Claimed(x)' <=> x = target
           /\ ~Claimed(x)
           /\ Nesting(x)' <=> Nesting(x)
      /\ Busy(t) /\ Has(Main, t)
  <2>. DEFINE r == Req("RUN_SYNC", target)
  <2>1. Issues(Main, t, r) /\ r \in Request /\ r.type = "RUN_SYNC" /\ r.to = target
    BY <1>r DEF RequestRunSync, Issues, Req, Request, AllRequests
  <2>2. \A x \in Tasks : Nesting(x)' <=> Nesting(x)
    BY <1>r DEF RequestRunSync, Issue, Nesting
  <2>. HIDE DEF r
  <2>. QED BY <2>1, <2>2, <1>r, Issued
<1>1. TypeOK'
  BY <1>0, <1>r, SMTT(30) DEF TypeOK
<1>2. (nfree = Cardinality(free))'
  BY <1>0, <1>r
<1>3. FramesOK'
  BY <1>0, <1>r DEF FramesOK, TypeOK
<1>4. PlacesOK'
  <2>. SUFFICES ASSUME NEW x \in Tasks
                PROVE  (PlaceState(x) /\ Exclusive(x) /\ Once(x) /\ StatePlace(x))'
    BY DEF PlacesOK
  <2>1. PlaceState(x) /\ Exclusive(x) /\ Once(x) /\ StatePlace(x)
    BY <1>0 DEF PlacesOK
  <2>2. PlaceState(x)'
    BY <1>0, <1>r, <1>o, <2>1 DEF TypeOK, PlaceState, InEvent, InQueueOf
  <2>3. Exclusive(x)'
    BY <1>0, <1>r, <1>o, <2>1 DEF TypeOK, Exclusive, PlaceState, Once, InEvent
  <2>4. Once(x)'
    BY <1>0, <1>r, <1>o, <2>1 DEF TypeOK, Once, Exclusive, Busy
  <2>5. StatePlace(x)'
    BY <1>0, <1>r, <1>o, <2>1 DEF TypeOK, StatePlace, InEvent, InQueueOf
  <2>. QED BY <2>2, <2>3, <2>4, <2>5
<1>5. RequestsOK'
  <2>1. \A o \in Threads, x \in Tasks, k \in {"SEND", "REPLY", "WAIT", "AWAIT_EVENT"} :
          Pending(o, x, k)' => Pending(o, x, k) /\ req'[x] = req[x]
    BY <1>0, <1>r, <1>o DEF TypeOK
  <2>2. \A o \in Threads, x \in Tasks :
          Pending(o, x, "RUN_SYNC")' => req'[x].to \in Tasks
    BY <1>0, <1>r, <1>o DEF TypeOK, RequestsOK
  <2>. QED BY <1>0, <2>1, <2>2 DEF RequestsOK
<1>6. RepliesOK'
  BY <1>0, <1>r, <1>o, SMTT(30) DEF TypeOK, RepliesOK
<1>7. FamilyOK'
  <2>1. \A y \in Tasks : \A ch \in children[y] :
          parent[ch] = y /\ ~detached[ch] /\ ch \notin free /\ ~waited[ch]
    BY <1>0 DEF FamilyOK
  <2>2. ASSUME NEW y \in Tasks, NEW ch \in children[y]'
        PROVE  (parent[ch] = y /\ ~detached[ch] /\ ch \notin free /\ ~waited[ch])'
    BY <1>0, <1>r, <1>o, <2>1, <2>2 DEF TypeOK
  <2>3. ASSUME NEW o \in Threads, NEW y \in Tasks, Pending(o, y, "WAIT")'
        PROVE  (parent[req[y].to] = y /\ ~detached[req[y].to] =>
                  req[y].to \notin free \cup children[y] /\ ~waited[req[y].to])'
    BY <1>0, <1>r, <1>o, <2>1, <2>3 DEF TypeOK, FamilyOK, RequestsOK
  <2>4. ASSUME NEW ch \in Tasks, waited[ch]'
        PROVE  (/\ ch \notin free /\ ~detached[ch] /\ state[ch] # "ZOMBIE"
                /\ parent[ch] \in Tasks
                /\ InWait(parent[ch]) /\ req[parent[ch]].to = ch
                /\ parent[ch] \notin free /\ ~Busy(parent[ch]) /\ ~Nesting(parent[ch]))'
    BY <1>0, <1>r, <1>o, <2>1, <2>4 DEF TypeOK, FamilyOK, InWait, PlacesOK, PlaceState
  <2>. QED BY <2>2, <2>3, <2>4 DEF FamilyOK
<1>8. LeavingsOK'
  <2>. SUFFICES ASSUME NEW x \in Tasks
                PROVE  (ArgOK(x) /\ ExitOK(x))'
    BY DEF LeavingsOK
  <2>1. PlaceState(x) /\ Exclusive(x) /\ ArgOK(x) /\ ExitOK(x)
    BY <1>0 DEF PlacesOK, LeavingsOK
  <2>2. ArgOK(x)'
    BY <1>0, <1>r, <1>o, <2>1 DEF TypeOK, ArgOK, PlaceState
  <2>3. ExitOK(x)'
    BY <1>0, <1>r, <1>o, <2>1 DEF TypeOK, ExitOK, PlaceState
  <2>. QED BY <2>2, <2>3
<1>. HIDE DEF RequestRunSync, Issue, bodyVars, Queued
<1>. QED BY <1>1, <1>2, <1>3, <1>4, <1>5, <1>6, <1>7, <1>8 DEF IInv

\* sched_reply: both tasks are ready, and neither was queued before.
LEMMA ServiceReplyInv ==
  ASSUME IInv, NEW thr \in Threads, NEW t \in Tasks, ServiceReply(thr, t)
  PROVE  IInv'
<1>. USE DEF ServiceReply, Reactivate, bodyVars
<1>0. /\ TypeOK /\ nfree = Cardinality(free) /\ FramesOK /\ PlacesOK
      /\ RequestsOK /\ RepliesOK /\ FamilyOK /\ LeavingsOK
  BY DEF IInv
<1>o. LeftSwitch(thr, t, "REPLY") /\ FramesOK'
  <2>1. Service(thr, t, "REPLY") /\ Served(thr)
    BY DEF ServiceReply
  <2>. HIDE DEF ServiceReply
  <2>. QED BY <2>1, ServedStep
<1>1. TypeOK'
  BY <1>0 DEF TypeOK, States, Service, Served
<1>2. (nfree = Cardinality(free))'
  BY <1>0
<1>b. /\ req[t].to \in Tasks /\ state[req[t].to] = "REPLY_BLOCKED"
      /\ ready[req[t].to] = 0 /\ ~Busy(req[t].to) /\ ~Nesting(req[t].to)
      /\ ~Claimed(req[t].to) /\ ~InEvent(req[t].to) /\ req[t].to \notin torun
      /\ req[t].to \notin free /\ \A r \in Tasks : ~InQueueOf(req[t].to, r)
      /\ \A o \in Threads : \A k : ~Pending(o, req[t].to, k) /\ ~Has(o, req[t].to)
      /\ \A u \in Tasks : req[t].to \notin received[u]
      /\ \A o \in Threads, u \in Tasks :
           Pending(o, u, "REPLY") /\ req[u].to = req[t].to => t = u
  <2>1. Pending(thr, t, "REPLY")
    BY <1>o DEF LeftSwitch
  <2>2. /\ req[t].to \in Tasks /\ state[req[t].to] = "REPLY_BLOCKED"
        /\ \A u \in Tasks : req[t].to \notin received[u]
        /\ \A o \in Threads, u \in Tasks :
             Pending(o, u, "REPLY") /\ req[u].to = req[t].to => t = u
    BY <1>0, <2>1 DEF RequestsOK, RepliesOK
  <2>. HIDE DEF ServiceReply
  <2>. QED BY <2>2, BlockedElsewhere
<1>p. /\ \A x \in {t, req[t].to} : state'[x] = "READY" /\ ready'[x] = 1
      /\ \A x \in Tasks : /\ x \notin {t, req[t].to} => state'[x] = state[x] /\ ready'[x] = ready[x]
      /\ UNCHANGED <<pinned, detached, parent, earg, dtor, future, free, nfree,
                     msgq, eventq, waited, received, children>>
  BY <1>0, <1>o, <1>b DEF LeftSwitch, ServiceReply, Reactivate, bodyVars, TypeOK
<1>. HIDE DEF ServiceReply
<1>3. FramesOK'
  BY <1>o
<1>4. PlacesOK'
  <2>. SUFFICES ASSUME NEW x \in Tasks
                PROVE  (PlaceState(x) /\ Exclusive(x) /\ Once(x) /\ StatePlace(x))'
    BY DEF PlacesOK
  <2>1. PlaceState(x) /\ Exclusive(x) /\ Once(x) /\ StatePlace(x)
    BY <1>0 DEF PlacesOK
  <2>2. PlaceState(x)'
    BY <1>0, <1>p, <1>b, <1>o, <2>1 DEF PlaceState, InEvent, InQueueOf, LeftSwitch, Has
  <2>3. Exclusive(x)'
    BY <1>0, <1>p, <1>b, <1>o, <2>1 DEF Exclusive, PlaceState, Once, InEvent, LeftSwitch
  <2>4. Once(x)'
    BY <1>0, <1>p, <1>b, <1>o, <2>1 DEF Once, Exclusive, LeftSwitch, InEvent
  <2>5. StatePlace(x)'
    BY <1>0, <1>p, <1>b, <1>o, <2>1 DEF StatePlace, InEvent, InQueueOf, LeftSwitch
  <2>. QED BY <2>2, <2>3, <2>4, <2>5
<1>5. RequestsOK'
  BY <1>0, <1>p, <1>b, <1>o DEF RequestsOK, LeftSwitch
<1>6. RepliesOK'
  BY <1>0, <1>p, <1>b, <1>o, SMTT(30) DEF RepliesOK, LeftSwitch, RequestsOK
<1>7. FamilyOK'
  <2>1. \A y \in Tasks : \A ch \in children[y] :
          parent[ch] = y /\ ~detached[ch] /\ ch \notin free /\ ~waited[ch]
    BY <1>0 DEF FamilyOK
  <2>2. ASSUME NEW y \in Tasks, NEW ch \in children[y]'
        PROVE  (parent[ch] = y /\ ~detached[ch] /\ ch \notin free /\ ~waited[ch])'
    BY <1>0, <1>p, <1>b, <1>o, <2>1, <2>2 DEF LeftSwitch
  <2>3. ASSUME NEW o \in Threads, NEW y \in Tasks, Pending(o, y, "WAIT")'
        PROVE  (parent[req[y].to] = y /\ ~detached[req[y].to] =>
                  req[y].to \notin free \cup children[y] /\ ~waited[req[y].to])'
    BY <1>0, <1>p, <1>b, <1>o, <2>1, <2>3 DEF FamilyOK, RequestsOK, LeftSwitch
  <2>4. ASSUME NEW ch \in Tasks, waited[ch]'
        PROVE  (/\ ch \notin free /\ ~detached[ch] /\ state[ch] # "ZOMBIE"
                /\ parent[ch] \in Tasks
                /\ InWait(parent[ch]) /\ req[parent[ch]].to = ch
                /\ parent[ch] \notin free /\ ~Busy(parent[ch]) /\ ~Nesting(parent[ch]))'
    BY <1>0, <1>p, <1>b, <1>o, <2>1, <2>4
      DEF FamilyOK, InWait, PlacesOK, PlaceState, LeftSwitch
  <2>. QED BY <2>2, <2>3, <2>4 DEF FamilyOK
<1>8. LeavingsOK'
  <2>. SUFFICES ASSUME NEW x \in Tasks
                PROVE  (ArgOK(x) /\ ExitOK(x))'
    BY DEF LeavingsOK
  <2>1. PlaceState(x) /\ Exclusive(x) /\ ArgOK(x) /\ ExitOK(x)
    BY <1>0 DEF PlacesOK, LeavingsOK
  <2>2. ArgOK(x)'
    BY <1>0, <1>p, <1>b, <1>o, <2>1 DEF ArgOK, PlaceState, LeftSwitch
  <2>3. ExitOK(x)'
    BY <1>0, <1>p, <1>b, <1>o, <2>1 DEF ExitOK, PlaceState, LeftSwitch
  <2>. QED BY <2>2, <2>3
<1>. HIDE DEF ServiceReply, Reactivate, bodyVars
<1>. QED BY <1>1, <1>2, <1>3, <1>4, <1>5, <1>6, <1>7, <1>8 DEF IInv

\* The destructor is recorded and the task is ready again.
LEMMA ServiceSetDestructorInv ==
  ASSUME IInv, NEW thr \in Threads, NEW t \in Tasks, ServiceSetDestructor(thr, t)
  PROVE  IInv'
<1>. USE DEF ServiceSetDestructor, Reactivate, bodyVars
<1>0. /\ TypeOK /\ nfree = Cardinality(free) /\ FramesOK /\ PlacesOK
      /\ RequestsOK /\ RepliesOK /\ FamilyOK /\ LeavingsOK
  BY DEF IInv
<1>o. LeftSwitch(thr, t, "SET_DESTRUCTOR") /\ FramesOK'
  <2>1. Service(thr, t, "SET_DESTRUCTOR") /\ Served(thr)
    BY DEF ServiceSetDestructor
  <2>. HIDE DEF ServiceSetDestructor
  <2>. QED BY <2>1, ServedStep
<1>1. TypeOK'
  BY <1>0 DEF TypeOK, States, Service, Served
<1>2. (nfree = Cardinality(free))'
  BY <1>0
<1>p. /\ state'[t] = "READY" /\ ready'[t] = 1 /\ dtor'[t] = "set"
      /\ \A x \in Tasks : x # t => /\ state'[x] = state[x] /\ ready'[x] = ready[x]
                                   /\ dtor'[x] = dtor[x]
      /\ UNCHANGED <<pinned, detached, parent, earg, future, free, nfree,
                     msgq, eventq, waited, received, children>>
  BY <1>0, <1>o DEF LeftSwitch, ServiceSetDestructor, Reactivate, bodyVars, TypeOK
<1>. HIDE DEF ServiceSetDestructor
<1>3. FramesOK'
  BY <1>o
<1>4. PlacesOK'
  <2>. SUFFICES ASSUME NEW x \in Tasks
                PROVE  (PlaceState(x) /\ Exclusive(x) /\ Once(x) /\ StatePlace(x))'
    BY DEF PlacesOK
  <2>1. PlaceState(x) /\ Exclusive(x) /\ Once(x) /\ StatePlace(x)
    BY <1>0 DEF PlacesOK
  <2>2. PlaceState(x)'
    BY <1>0, <1>p, <1>o, <2>1 DEF PlaceState, InEvent, InQueueOf, LeftSwitch, Has
  <2>3. Exclusive(x)'
    BY <1>0, <1>p, <1>o, <2>1 DEF Exclusive, PlaceState, Once, InEvent, LeftSwitch
  <2>4. Once(x)'
    BY <1>0, <1>p, <1>o, <2>1 DEF Once, Exclusive, LeftSwitch, InEvent
  <2>5. StatePlace(x)'
    BY <1>0, <1>p, <1>o, <2>1 DEF StatePlace, InEvent, InQueueOf, LeftSwitch
  <2>. QED BY <2>2, <2>3, <2>4, <2>5
<1>5. RequestsOK'
  BY <1>0, <1>p, <1>o DEF RequestsOK, LeftSwitch
<1>6. RepliesOK'
  BY <1>0, <1>p, <1>o, SMTT(30) DEF RepliesOK, LeftSwitch, RequestsOK
<1>7. FamilyOK'
  <2>1. \A y \in Tasks : \A ch \in children[y] :
          parent[ch] = y /\ ~detached[ch] /\ ch \notin free /\ ~waited[ch]
    BY <1>0 DEF FamilyOK
  <2>2. ASSUME NEW y \in Tasks, NEW ch \in children[y]'
        PROVE  (parent[ch] = y /\ ~detached[ch] /\ ch \notin free /\ ~waited[ch])'
    BY <1>0, <1>p, <1>o, <2>1, <2>2 DEF LeftSwitch
  <2>3. ASSUME NEW o \in Threads, NEW y \in Tasks, Pending(o, y, "WAIT")'
        PROVE  (parent[req[y].to] = y /\ ~detached[req[y].to] =>
                  req[y].to \notin free \cup children[y] /\ ~waited[req[y].to])'
    BY <1>0, <1>p, <1>o, <2>1, <2>3 DEF FamilyOK, RequestsOK, LeftSwitch
  <2>4. ASSUME NEW ch \in Tasks, waited[ch]'
        PROVE  (/\ ch \notin free /\ ~detached[ch] /\ state[ch] # "ZOMBIE"
                /\ parent[ch] \in Tasks
                /\ InWait(parent[ch]) /\ req[parent[ch]].to = ch
                /\ parent[ch] \notin free /\ ~Busy(parent[ch]) /\ ~Nesting(parent[ch]))'
    BY <1>0, <1>p, <1>o, <2>1, <2>4 DEF FamilyOK, InWait, PlacesOK, PlaceState, LeftSwitch
  <2>. QED BY <2>2, <2>3, <2>4 DEF FamilyOK
<1>8. LeavingsOK'
  <2>. SUFFICES ASSUME NEW x \in Tasks
                PROVE  (ArgOK(x) /\ ExitOK(x))'
    BY DEF LeavingsOK
  <2>1. PlaceState(x) /\ Exclusive(x) /\ ArgOK(x) /\ ExitOK(x)
    BY <1>0 DEF PlacesOK, LeavingsOK
  <2>2. ArgOK(x)'
    BY <1>0, <1>p, <1>o, <2>1 DEF ArgOK, PlaceState, LeftSwitch
  <2>3. ExitOK(x)'
    BY <1>0, <1>p, <1>o, <2>1 DEF ExitOK, PlaceState, LeftSwitch
  <2>. QED BY <2>2, <2>3
<1>. HIDE DEF ServiceSetDestructor, Reactivate, bodyVars
<1>. QED BY <1>1, <1>2, <1>3, <1>4, <1>5, <1>6, <1>7, <1>8 DEF IInv

\* sched_await_event: the task leaves its thread for one event queue.
LEMMA ServiceAwaitEventInv ==
  ASSUME IInv, NEW thr \in Threads, NEW t \in Tasks, ServiceAwaitEvent(thr, t)
  PROVE  IInv'
<1>. USE DEF ServiceAwaitEvent, bodyVars
<1>0. /\ TypeOK /\ nfree = Cardinality(free) /\ FramesOK /\ PlacesOK
      /\ RequestsOK /\ RepliesOK /\ FamilyOK /\ LeavingsOK
  BY DEF IInv
<1>o. LeftSwitch(thr, t, "AWAIT_EVENT") /\ FramesOK'
  <2>1. Service(thr, t, "AWAIT_EVENT") /\ Served(thr)
    BY DEF ServiceAwaitEvent
  <2>. HIDE DEF ServiceAwaitEvent
  <2>. QED BY <2>1, ServedStep
<1>1. TypeOK'
  BY <1>0, ZenonT(40) DEF TypeOK, States, Service, Served
<1>2. (nfree = Cardinality(free))'
  BY <1>0
<1>p. /\ state'[t] = "EVENT_BLOCKED" /\ \A x \in Tasks : x # t => state'[x] = state[x]
      /\ req[t].event \in Events /\ t \in eventq'[req[t].event]
      /\ \A e \in Events, x \in Tasks :
           x \in eventq'[e] <=> x \in eventq[e] \/ (x = t /\ e = req[t].event)
      /\ req[t].event \in OwnedEvents => pinned[t]
      /\ UNCHANGED <<pinned, detached, parent, earg, dtor, future, free, nfree,
                     ready, msgq, waited, received, children>>
  BY <1>0, <1>o DEF LeftSwitch, ServiceAwaitEvent, bodyVars, TypeOK, RequestsOK
<1>. HIDE DEF ServiceAwaitEvent
<1>3. FramesOK'
  BY <1>o
<1>4. PlacesOK'
  <2>. SUFFICES ASSUME NEW x \in Tasks
                PROVE  (PlaceState(x) /\ Exclusive(x) /\ Once(x) /\ StatePlace(x))'
    BY DEF PlacesOK
  <2>1. PlaceState(x) /\ Exclusive(x) /\ Once(x) /\ StatePlace(x)
    BY <1>0 DEF PlacesOK
  <2>2. PlaceState(x)'
    BY <1>0, <1>p, <1>o, <2>1 DEF PlaceState, InEvent, InQueueOf, LeftSwitch, Has
  <2>3. Exclusive(x)'
    BY <1>0, <1>p, <1>o, <2>1 DEF Exclusive, PlaceState, Once, InEvent, LeftSwitch
  <2>4. Once(x)'
    BY <1>0, <1>p, <1>o, <2>1 DEF Once, Exclusive, LeftSwitch, InEvent
  <2>5. StatePlace(x)'
    BY <1>0, <1>p, <1>o, <2>1 DEF StatePlace, InEvent, InQueueOf, LeftSwitch
  <2>. QED BY <2>2, <2>3, <2>4, <2>5
<1>5. RequestsOK'
  BY <1>0, <1>p, <1>o DEF RequestsOK, LeftSwitch
<1>6. RepliesOK'
  BY <1>0, <1>p, <1>o, SMTT(30) DEF RepliesOK, LeftSwitch, RequestsOK
<1>7. FamilyOK'
  <2>1. \A y \in Tasks : \A ch \in children[y] :
          parent[ch] = y /\ ~detached[ch] /\ ch \notin free /\ ~waited[ch]
    BY <1>0 DEF FamilyOK
  <2>2. ASSUME NEW y \in Tasks, NEW ch \in children[y]'
        PROVE  (parent[ch] = y /\ ~detached[ch] /\ ch \notin free /\ ~waited[ch])'
    BY <1>0, <1>p, <1>o, <2>1, <2>2 DEF LeftSwitch
  <2>3. ASSUME NEW o \in Threads, NEW y \in Tasks, Pending(o, y, "WAIT")'
        PROVE  (parent[req[y].to] = y /\ ~detached[req[y].to] =>
                  req[y].to \notin free \cup children[y] /\ ~waited[req[y].to])'
    BY <1>0, <1>p, <1>o, <2>1, <2>3 DEF FamilyOK, RequestsOK, LeftSwitch
  <2>4. ASSUME NEW ch \in Tasks, waited[ch]'
        PROVE  (/\ ch \notin free /\ ~detached[ch] /\ state[ch] # "ZOMBIE"
                /\ parent[ch] \in Tasks
                /\ InWait(parent[ch]) /\ req[parent[ch]].to = ch
                /\ parent[ch] \notin free /\ ~Busy(parent[ch]) /\ ~Nesting(parent[ch]))'
    BY <1>0, <1>p, <1>o, <2>1, <2>4 DEF FamilyOK, InWait, PlacesOK, PlaceState, LeftSwitch
  <2>. QED BY <2>2, <2>3, <2>4 DEF FamilyOK
<1>8. LeavingsOK'
  <2>. SUFFICES ASSUME NEW x \in Tasks
                PROVE  (ArgOK(x) /\ ExitOK(x))'
    BY DEF LeavingsOK
  <2>1. PlaceState(x) /\ Exclusive(x) /\ ArgOK(x) /\ ExitOK(x)
    BY <1>0 DEF PlacesOK, LeavingsOK
  <2>2. ArgOK(x)'
    BY <1>0, <1>p, <1>o, <2>1 DEF ArgOK, PlaceState, LeftSwitch
  <2>3. ExitOK(x)'
    BY <1>0, <1>p, <1>o, <2>1 DEF ExitOK, PlaceState, LeftSwitch
  <2>. QED BY <2>2, <2>3
<1>. HIDE DEF ServiceAwaitEvent, bodyVars
<1>. QED BY <1>1, <1>2, <1>3, <1>4, <1>5, <1>6, <1>7, <1>8 DEF IInv

\* The requests that only return a value.
HandBack(thr, t, k) ==
  /\ Service(thr, t, k)
  /\ Served(thr)
  /\ Reactivate({t}, state)
  /\ UNCHANGED <<pinned, detached, parent, earg, dtor, future, free, nfree,
                 msgq, eventq, waited, received, children>>

\* A service that changes nothing but the requesting task, which is ready again.
LEMMA HandBackInv ==
  ASSUME IInv, NEW thr \in Threads, NEW t \in Tasks, NEW k \in SelfRequests \cup {"CREATE"}, HandBack(thr, t, k)
  PROVE  IInv'
<1>. USE DEF HandBack, Reactivate
<1>0. /\ TypeOK /\ nfree = Cardinality(free) /\ FramesOK /\ PlacesOK
      /\ RequestsOK /\ RepliesOK /\ FamilyOK /\ LeavingsOK
  BY DEF IInv
<1>o. LeftSwitch(thr, t, k) /\ FramesOK'
  <2>1. Service(thr, t, k) /\ Served(thr)
    BY DEF HandBack
  <2>. HIDE DEF HandBack
  <2>. QED BY <2>1, ServedStep
<1>1. TypeOK'
  BY <1>0 DEF TypeOK, States, Service, Served
<1>2. (nfree = Cardinality(free))'
  BY <1>0
<1>p. /\ state'[t] = "READY" /\ ready'[t] = 1
      /\ \A x \in Tasks : x # t => state'[x] = state[x] /\ ready'[x] = ready[x]
      /\ UNCHANGED <<pinned, detached, parent, earg, dtor, future, free, nfree,
                     msgq, eventq, waited, received, children>>
  BY <1>0, <1>o DEF LeftSwitch, HandBack, Reactivate, TypeOK
<1>. HIDE DEF HandBack
<1>3. FramesOK'
  BY <1>o
<1>4. PlacesOK'
  <2>. SUFFICES ASSUME NEW x \in Tasks
                PROVE  (PlaceState(x) /\ Exclusive(x) /\ Once(x) /\ StatePlace(x))'
    BY DEF PlacesOK
  <2>1. PlaceState(x) /\ Exclusive(x) /\ Once(x) /\ StatePlace(x)
    BY <1>0 DEF PlacesOK
  <2>2. PlaceState(x)'
    BY <1>0, <1>p, <1>o, <2>1
      DEF PlaceState, InEvent, InQueueOf, LeftSwitch, Has, SelfRequests
  <2>3. Exclusive(x)'
    BY <1>0, <1>p, <1>o, <2>1 DEF Exclusive, PlaceState, Once, InEvent, LeftSwitch
  <2>4. Once(x)'
    BY <1>0, <1>p, <1>o, <2>1 DEF Once, Exclusive, LeftSwitch, InEvent
  <2>5. StatePlace(x)'
    BY <1>0, <1>p, <1>o, <2>1 DEF StatePlace, InEvent, InQueueOf, LeftSwitch, SelfRequests
  <2>. QED BY <2>2, <2>3, <2>4, <2>5
<1>5. RequestsOK'
  BY <1>0, <1>p, <1>o DEF RequestsOK, LeftSwitch, SelfRequests
<1>6. RepliesOK'
  BY <1>0, <1>p, <1>o, SMTT(30) DEF RepliesOK, LeftSwitch, RequestsOK, SelfRequests
<1>7. FamilyOK'
  <2>1. \A y \in Tasks : \A ch \in children[y] :
          parent[ch] = y /\ ~detached[ch] /\ ch \notin free /\ ~waited[ch]
    BY <1>0 DEF FamilyOK
  <2>2. ASSUME NEW y \in Tasks, NEW ch \in children[y]'
        PROVE  (parent[ch] = y /\ ~detached[ch] /\ ch \notin free /\ ~waited[ch])'
    BY <1>0, <1>p, <1>o, <2>1, <2>2 DEF LeftSwitch
  <2>3. ASSUME NEW o \in Threads, NEW y \in Tasks, Pending(o, y, "WAIT")'
        PROVE  (parent[req[y].to] = y /\ ~detached[req[y].to] =>
                  req[y].to \notin free \cup children[y] /\ ~waited[req[y].to])'
    BY <1>0, <1>p, <1>o, <2>1, <2>3 DEF FamilyOK, RequestsOK, LeftSwitch, SelfRequests
  <2>4. ASSUME NEW ch \in Tasks, waited[ch]'
        PROVE  (/\ ch \notin free /\ ~detached[ch] /\ state[ch] # "ZOMBIE"
                /\ parent[ch] \in Tasks
                /\ InWait(parent[ch]) /\ req[parent[ch]].to = ch
                /\ parent[ch] \notin free /\ ~Busy(parent[ch]) /\ ~Nesting(parent[ch]))'
    BY <1>0, <1>p, <1>o, <2>1, <2>4 DEF FamilyOK, InWait, PlacesOK, PlaceState, LeftSwitch
  <2>. QED BY <2>2, <2>3, <2>4 DEF FamilyOK
<1>8. LeavingsOK'
  <2>. SUFFICES ASSUME NEW x \in Tasks
                PROVE  (ArgOK(x) /\ ExitOK(x))'
    BY DEF LeavingsOK
  <2>1. PlaceState(x) /\ Exclusive(x) /\ ArgOK(x) /\ ExitOK(x)
    BY <1>0 DEF PlacesOK, LeavingsOK
  <2>2. ArgOK(x)'
    BY <1>0, <1>p, <1>o, <2>1 DEF ArgOK, PlaceState, LeftSwitch, SelfRequests
  <2>3. ExitOK(x)'
    BY <1>0, <1>p, <1>o, <2>1 DEF ExitOK, PlaceState, LeftSwitch, SelfRequests
  <2>. QED BY <2>2, <2>3
<1>. HIDE DEF HandBack, Reactivate
<1>. QED BY <1>1, <1>2, <1>3, <1>4, <1>5, <1>6, <1>7, <1>8 DEF IInv

\* sched_create of a child in the free slot c.
Birth(thr, t, c, kind) ==
  /\ Service(thr, t, "CREATE")
  /\ Served(thr)
  /\ Spawn(c, kind, t, {t})
  /\ children' = [children EXCEPT ![t] = IF kind.det THEN @ ELSE @ \cup {c}, ![c] = {}]
  /\ UNCHANGED <<msgq, eventq, waited>>

\* A slot is taken off the free list for a new task, ready at once, while the
\* creating task is ready again.
LEMMA BirthInv ==
  ASSUME IInv, NEW thr \in Threads, NEW t \in Tasks, NEW c \in free, NEW kind \in Kinds, Birth(thr, t, c, kind)
  PROVE  IInv'
<1>. USE DEF Birth, Spawn, FutureAtStart, Reactivate
<1>0. /\ TypeOK /\ nfree = Cardinality(free) /\ FramesOK /\ PlacesOK
      /\ RequestsOK /\ RepliesOK /\ FamilyOK /\ LeavingsOK
  BY DEF IInv
<1>o. LeftSwitch(thr, t, "CREATE") /\ FramesOK'
  <2>1. Service(thr, t, "CREATE") /\ Served(thr)
    BY DEF Birth
  <2>. HIDE DEF Birth
  <2>. QED BY <2>1, ServedStep
<1>1. TypeOK'
  <2>1. c \in Tasks /\ kind \in [pin : BOOLEAN, det : BOOLEAN, fut : BOOLEAN]
    BY <1>0 DEF TypeOK
  <2>2. nfree' \in Nat
    BY <1>0, <2>1, FreeCount
  <2>3. /\ state' \in [Tasks -> States] /\ ready' \in [Tasks -> Nat]
        /\ free' \in SUBSET Tasks
    BY <1>0, <2>1 DEF TypeOK, States
  <2>4. /\ pinned' \in [Tasks -> BOOLEAN] /\ detached' \in [Tasks -> BOOLEAN]
        /\ parent' \in [Tasks -> Tasks \cup {NoTask}]
        /\ earg' \in [Tasks -> {"none", "held", "freed"}]
        /\ dtor' \in [Tasks -> {"none", "set", "ran"}]
        /\ future' \in [Tasks -> {"none", "incomplete", "complete"}]
    BY <1>0, <2>1 DEF TypeOK
  <2>5. received' \in [Tasks -> SUBSET Tasks] /\ children' \in [Tasks -> SUBSET Tasks]
    BY <1>0, <2>1 DEF TypeOK
  <2>6. /\ UNCHANGED <<req, msgq, eventq, waited, cur, nest, mainOp, torun>> /\ lock' = thr
        /\ pc' = [pc EXCEPT ![thr] = "serviced"]
    BY DEF Service, Served
  <2>. HIDE DEF Birth
  <2>. QED BY <1>0, <2>2, <2>3, <2>4, <2>5, <2>6 DEF TypeOK
<1>2. (nfree = Cardinality(free))'
  BY <1>0, FreeCount DEF TypeOK
<1>b. /\ c \in Tasks /\ state[c] \in {"ACTIVE", "ZOMBIE"}
      /\ ready[c] = 0 /\ ~Busy(c) /\ ~Nesting(c) /\ ~Claimed(c) /\ ~InEvent(c)
      /\ c \notin torun
      /\ \A r \in Tasks : ~InQueueOf(c, r) /\ c \notin received[r] /\ c \notin children[r]
      /\ \A o \in Threads : \A k : ~Pending(o, c, k) /\ ~Has(o, c)
      /\ \A o \in Threads, u \in Tasks : Pending(o, u, "REPLY") => req[u].to # c
      /\ ~waited[c] /\ \A d \in Tasks : waited[d] => parent[d] # c
  <2>. HIDE DEF Birth
  <2>. QED BY FreeElsewhere
<1>p. /\ c # t
      /\ \A x \in {t, c} : state'[x] = "READY" /\ ready'[x] = 1
      /\ free' = free \ {c} /\ pinned'[c] = kind.pin /\ detached'[c] = kind.det /\ parent'[c] = t
      /\ earg'[c] = "none" /\ dtor'[c] = "none" /\ future'[c] \in {"none", "incomplete"}
      /\ received'[c] = {} /\ children'[c] = {}
      /\ children'[t] = IF kind.det THEN children[t] ELSE children[t] \cup {c}
      /\ \A x \in Tasks : x \notin {t, c} =>
           state'[x] = state[x] /\ ready'[x] = ready[x] /\ children'[x] = children[x]
      /\ \A x \in Tasks : x # c =>
           /\ pinned'[x] = pinned[x] /\ detached'[x] = detached[x] /\ parent'[x] = parent[x]
           /\ earg'[x] = earg[x] /\ dtor'[x] = dtor[x] /\ future'[x] = future[x]
           /\ received'[x] = received[x]
      /\ UNCHANGED <<msgq, eventq, waited>>
      /\ \A o \in Threads : cur[o] # c
  <2>1. c \in Tasks /\ c # t
    BY <1>0, <1>o, <1>b DEF LeftSwitch
  <2>2. /\ \A x \in {t, c} : state'[x] = "READY" /\ ready'[x] = 1
        /\ \A x \in Tasks : x \notin {t, c} => state'[x] = state[x] /\ ready'[x] = ready[x]
    BY <1>0, <1>o, <1>b, <2>1 DEF LeftSwitch, TypeOK
  <2>3. /\ free' = free \ {c} /\ pinned'[c] = kind.pin /\ detached'[c] = kind.det
        /\ parent'[c] = t /\ earg'[c] = "none" /\ dtor'[c] = "none"
        /\ future'[c] \in {"none", "incomplete"} /\ received'[c] = {} /\ children'[c] = {}
    BY <1>0, <2>1 DEF TypeOK
  <2>4. /\ children'[t] = IF kind.det THEN children[t] ELSE children[t] \cup {c}
        /\ \A x \in Tasks : x \notin {t, c} => children'[x] = children[x]
    BY <1>0, <2>1 DEF TypeOK
  <2>5. \A x \in Tasks : x # c =>
          /\ pinned'[x] = pinned[x] /\ detached'[x] = detached[x] /\ parent'[x] = parent[x]
          /\ earg'[x] = earg[x] /\ dtor'[x] = dtor[x] /\ future'[x] = future[x]
          /\ received'[x] = received[x]
    BY <1>0, <2>1 DEF TypeOK
  <2>6. \A o \in Threads : cur[o] # c
    <3>. HIDE DEF Birth
    <3>1. \A o \in Threads : ~Has(o, c) /\ ~Finishing(o, c)
      BY <1>o, <1>b, <2>1 DEF LeftSwitch
    <3>. QED BY <1>0, <2>1, <3>1 DEF Has, Finishing, FramesOK, TypeOK
  <2>7. UNCHANGED <<msgq, eventq, waited>>
    OBVIOUS
  <2>. QED BY <2>1, <2>2, <2>3, <2>4, <2>5, <2>6, <2>7
<1>. HIDE DEF Birth
<1>3. FramesOK'
  BY <1>o
<1>4. PlacesOK'
  <2>. SUFFICES ASSUME NEW x \in Tasks
                PROVE  (PlaceState(x) /\ Exclusive(x) /\ Once(x) /\ StatePlace(x))'
    BY DEF PlacesOK
  <2>1. PlaceState(x) /\ Exclusive(x) /\ Once(x) /\ StatePlace(x)
    BY <1>0 DEF PlacesOK
  <2>2. PlaceState(x)'
    BY <1>0, <1>p, <1>b, <1>o, <2>1 DEF PlaceState, InEvent, InQueueOf, LeftSwitch, Has
  <2>3. Exclusive(x)'
    BY <1>0, <1>p, <1>b, <1>o, <2>1 DEF Exclusive, PlaceState, Once, InEvent, LeftSwitch
  <2>4. Once(x)'
    BY <1>0, <1>p, <1>b, <1>o, <2>1 DEF Once, Exclusive, LeftSwitch, InEvent
  <2>5. StatePlace(x)'
    BY <1>0, <1>p, <1>b, <1>o, <2>1 DEF StatePlace, InEvent, InQueueOf, LeftSwitch
  <2>. QED BY <2>2, <2>3, <2>4, <2>5
<1>5. RequestsOK'
  BY <1>0, <1>p, <1>b, <1>o DEF RequestsOK, LeftSwitch
<1>6. RepliesOK'
  BY <1>0, <1>p, <1>b, <1>o, SMTT(30) DEF RepliesOK, LeftSwitch, RequestsOK
<1>7. FamilyOK'
  <2>1. \A y \in Tasks : \A ch \in children[y] :
          parent[ch] = y /\ ~detached[ch] /\ ch \notin free /\ ~waited[ch]
    BY <1>0 DEF FamilyOK
  <2>2. ASSUME NEW y \in Tasks, NEW ch \in children[y]'
        PROVE  (parent[ch] = y /\ ~detached[ch] /\ ch \notin free /\ ~waited[ch])'
    BY <1>0, <1>p, <1>b, <1>o, <2>1, <2>2 DEF LeftSwitch
  <2>3. ASSUME NEW o \in Threads, NEW y \in Tasks, Pending(o, y, "WAIT")'
        PROVE  (parent[req[y].to] = y /\ ~detached[req[y].to] =>
                  req[y].to \notin free \cup children[y] /\ ~waited[req[y].to])'
    BY <1>0, <1>p, <1>b, <1>o, <2>1, <2>3 DEF FamilyOK, RequestsOK, LeftSwitch
  <2>4. ASSUME NEW ch \in Tasks, waited[ch]'
        PROVE  (/\ ch \notin free /\ ~detached[ch] /\ state[ch] # "ZOMBIE"
                /\ parent[ch] \in Tasks
                /\ InWait(parent[ch]) /\ req[parent[ch]].to = ch
                /\ parent[ch] \notin free /\ ~Busy(parent[ch]) /\ ~Nesting(parent[ch]))'
    BY <1>0, <1>p, <1>b, <1>o, <2>1, <2>4
      DEF FamilyOK, InWait, PlacesOK, PlaceState, LeftSwitch
  <2>. QED BY <2>2, <2>3, <2>4 DEF FamilyOK
<1>8. LeavingsOK'
  <2>. SUFFICES ASSUME NEW x \in Tasks
                PROVE  (ArgOK(x) /\ ExitOK(x))'
    BY DEF LeavingsOK
  <2>1. PlaceState(x) /\ Exclusive(x) /\ ArgOK(x) /\ ExitOK(x)
    BY <1>0 DEF PlacesOK, LeavingsOK
  <2>2. ArgOK(x)'
    BY <1>0, <1>p, <1>b, <1>o, <2>1 DEF ArgOK, PlaceState, LeftSwitch, InEvent
  <2>3. ExitOK(x)'
    BY <1>0, <1>p, <1>b, <1>o, <2>1 DEF ExitOK, PlaceState, LeftSwitch
  <2>. QED BY <2>2, <2>3
<1>. HIDE DEF Birth, Spawn, FutureAtStart, Reactivate
<1>. QED BY <1>1, <1>2, <1>3, <1>4, <1>5, <1>6, <1>7, <1>8 DEF IInv

\* sched_create, with a free slot and without.
LEMMA ServiceCreateInv ==
  ASSUME IInv, NEW thr \in Threads, NEW t \in Tasks, ServiceCreate(thr, t)
  PROVE  IInv'
<1>1. CASE \E c \in free, kind \in Kinds : Birth(thr, t, c, kind)
  BY <1>1, BirthInv
<1>2. CASE HandBack(thr, t, "CREATE")
  BY <1>2, HandBackInv
<1>. QED BY <1>1, <1>2 DEF ServiceCreate, Birth, HandBack, bodyVars

\* The requests that only return a value.
LEMMA ServiceSelfInv ==
  ASSUME IInv, NEW thr \in Threads, NEW t \in Tasks, ServiceSelf(thr, t)
  PROVE  IInv'
<1>1. \E k \in SelfRequests : HandBack(thr, t, k)
  BY DEF ServiceSelf, HandBack, bodyVars
<1>. QED BY <1>1, HandBackInv

\* sched_send to a receiver that is blocked in its receive.
LEMMA ServiceSendDeliveredInv ==
  ASSUME IInv, NEW thr \in Threads, NEW t \in Tasks, ServiceSend(thr, t), Deliverable(req[t].to)
  PROVE  IInv'
<1>. USE DEF ServiceSend, Reactivate, AwaitsReply, Deliverable
<1>0. /\ TypeOK /\ nfree = Cardinality(free) /\ FramesOK /\ PlacesOK
      /\ RequestsOK /\ RepliesOK /\ FamilyOK /\ LeavingsOK
  BY DEF IInv
<1>o. LeftSwitch(thr, t, "SEND") /\ FramesOK'
  <2>1. Service(thr, t, "SEND") /\ Served(thr)
    BY DEF ServiceSend
  <2>. HIDE DEF ServiceSend
  <2>. QED BY <2>1, ServedStep
<1>1. TypeOK'
  <2>1. req[t].to \in Tasks
    BY <1>0, <1>o DEF LeftSwitch, RequestsOK
  <2>2. /\ UNCHANGED <<pinned, detached, parent, earg, dtor, future, free, nfree,
                    msgq, eventq, waited, children, req, cur,
                    nest, mainOp, torun>>
        /\ pc' = [pc EXCEPT ![thr] = "serviced"] /\ lock' = thr
    BY DEF Service, Served
  <2>3. /\ state' = [x \in Tasks |-> IF x \in {req[t].to} THEN "READY" ELSE [state EXCEPT ![t] = "REPLY_BLOCKED"][x]]
        /\ ready' = [x \in Tasks |-> IF x \in {req[t].to} THEN ready[x] + 1 ELSE ready[x]]
        /\ received' = [received EXCEPT ![req[t].to] = @ \cup {t}]
    BY <1>0
  <2>. HIDE DEF ServiceSend
  <2>4. state' \in [Tasks -> States]
    BY <1>0, <2>1, <2>3 DEF TypeOK, States
  <2>5. ready' \in [Tasks -> Nat]
    BY <1>0, <2>1, <2>3 DEF TypeOK, States
  <2>6. received' \in [Tasks -> SUBSET Tasks]
    BY <1>0, <2>1, <2>3 DEF TypeOK, States
  <2>. QED BY <1>0, <2>2, <2>4, <2>5, <2>6 DEF TypeOK
<1>2. (nfree = Cardinality(free))'
  BY <1>0
<1>b. /\ req[t].to \in Tasks /\ req[t].to # t
      /\ state[req[t].to] = "SEND_BLOCKED" /\ \A r \in Tasks : ~InQueueOf(req[t].to, r)
      /\ ready[req[t].to] = 0 /\ ~Busy(req[t].to) /\ ~Nesting(req[t].to) /\ ~Claimed(req[t].to) /\ ~InEvent(req[t].to)
      /\ req[t].to \notin torun /\ req[t].to \notin free
      /\ \A o \in Threads : \A k : ~Pending(o, req[t].to, k) /\ ~Has(o, req[t].to)
  <2>1. Pending(thr, t, "SEND") /\ state[t] = "ACTIVE"
    BY <1>o DEF LeftSwitch
  <2>2. req[t].to \in Tasks /\ state[req[t].to] = "SEND_BLOCKED"
    BY <1>0, <2>1 DEF RequestsOK
  <2>. HIDE DEF ServiceSend
  <2>. QED BY <2>1, <2>2, BlockedElsewhere
<1>p. /\ state'[t] = "REPLY_BLOCKED" /\ ready'[t] = 0
      /\ state'[req[t].to] = "READY" /\ ready'[req[t].to] = 1
      /\ \A x \in Tasks : x \notin {t, req[t].to} => state'[x] = state[x] /\ ready'[x] = ready[x]
      /\ received'[req[t].to] = received[req[t].to] \cup {t}
      /\ \A x \in Tasks : x # req[t].to => received'[x] = received[x]
      /\ dtor[t] # "set" /\ \A u \in Tasks : t \notin received[u]
      /\ \A o \in Threads, u \in Tasks : Pending(o, u, "REPLY") => req[u].to # t
      /\ UNCHANGED <<pinned, detached, parent, earg, dtor, future, free, nfree,
                     eventq, waited, children, msgq>>
  BY <1>0, <1>o, <1>b
    DEF LeftSwitch, ServiceSend, Reactivate, AwaitsReply, Deliverable, TypeOK,
        LeavingsOK, ExitOK, RepliesOK
<1>. HIDE DEF ServiceSend
<1>3. FramesOK'
  BY <1>o
<1>4. PlacesOK'
  <2>. SUFFICES ASSUME NEW x \in Tasks
                PROVE  (PlaceState(x) /\ Exclusive(x) /\ Once(x) /\ StatePlace(x))'
    BY DEF PlacesOK
  <2>1. PlaceState(x) /\ Exclusive(x) /\ Once(x) /\ StatePlace(x)
    BY <1>0 DEF PlacesOK
  <2>2. PlaceState(x)'
    BY <1>0, <1>p, <1>b, <1>o, <2>1 DEF PlaceState, InEvent, InQueueOf, LeftSwitch, Has
  <2>3. Exclusive(x)'
    BY <1>0, <1>p, <1>b, <1>o, <2>1 DEF Exclusive, PlaceState, Once, InEvent, LeftSwitch
  <2>4. Once(x)'
    BY <1>0, <1>p, <1>b, <1>o, <2>1 DEF Once, Exclusive, LeftSwitch, InEvent
  <2>5. StatePlace(x)'
    BY <1>0, <1>p, <1>b, <1>o, <2>1 DEF StatePlace, InEvent, InQueueOf, LeftSwitch
  <2>. QED BY <2>2, <2>3, <2>4, <2>5
<1>5. RequestsOK'
  BY <1>0, <1>p, <1>b, <1>o DEF RequestsOK, LeftSwitch
<1>6. RepliesOK'
  BY <1>0, <1>p, <1>b, <1>o, SMTT(30) DEF RepliesOK, LeftSwitch, RequestsOK
<1>7. FamilyOK'
  <2>1. \A y \in Tasks : \A ch \in children[y] :
          parent[ch] = y /\ ~detached[ch] /\ ch \notin free /\ ~waited[ch]
    BY <1>0 DEF FamilyOK
  <2>2. ASSUME NEW y \in Tasks, NEW ch \in children[y]'
        PROVE  (parent[ch] = y /\ ~detached[ch] /\ ch \notin free /\ ~waited[ch])'
    BY <1>0, <1>p, <1>b, <1>o, <2>1, <2>2 DEF LeftSwitch
  <2>3. ASSUME NEW o \in Threads, NEW y \in Tasks, Pending(o, y, "WAIT")'
        PROVE  (parent[req[y].to] = y /\ ~detached[req[y].to] =>
                  req[y].to \notin free \cup children[y] /\ ~waited[req[y].to])'
    BY <1>0, <1>p, <1>b, <1>o, <2>1, <2>3 DEF FamilyOK, RequestsOK, LeftSwitch
  <2>4. ASSUME NEW ch \in Tasks, waited[ch]'
        PROVE  (/\ ch \notin free /\ ~detached[ch] /\ state[ch] # "ZOMBIE"
                /\ parent[ch] \in Tasks
                /\ InWait(parent[ch]) /\ req[parent[ch]].to = ch
                /\ parent[ch] \notin free /\ ~Busy(parent[ch]) /\ ~Nesting(parent[ch]))'
    BY <1>0, <1>p, <1>b, <1>o, <2>1, <2>4
      DEF FamilyOK, InWait, PlacesOK, PlaceState, LeftSwitch
  <2>. QED BY <2>2, <2>3, <2>4 DEF FamilyOK
<1>8. LeavingsOK'
  <2>. SUFFICES ASSUME NEW x \in Tasks
                PROVE  (ArgOK(x) /\ ExitOK(x))'
    BY DEF LeavingsOK
  <2>1. PlaceState(x) /\ Exclusive(x) /\ ArgOK(x) /\ ExitOK(x)
    BY <1>0 DEF PlacesOK, LeavingsOK
  <2>2. ArgOK(x)'
    BY <1>0, <1>p, <1>b, <1>o, <2>1 DEF ArgOK, PlaceState, LeftSwitch
  <2>3. ExitOK(x)'
    BY <1>0, <1>p, <1>b, <1>o, <2>1 DEF ExitOK, PlaceState, LeftSwitch
  <2>. QED BY <2>2, <2>3
<1>. HIDE DEF ServiceSend, Reactivate, AwaitsReply, Deliverable
<1>. QED BY <1>1, <1>2, <1>3, <1>4, <1>5, <1>6, <1>7, <1>8 DEF IInv

\* sched_send to a task that is not: the sender is queued.
LEMMA ServiceSendQueuedInv ==
  ASSUME IInv, NEW thr \in Threads, NEW t \in Tasks, ServiceSend(thr, t), ~Deliverable(req[t].to)
  PROVE  IInv'
<1>. USE DEF ServiceSend, Enqueue
<1>0. /\ TypeOK /\ nfree = Cardinality(free) /\ FramesOK /\ PlacesOK
      /\ RequestsOK /\ RepliesOK /\ FamilyOK /\ LeavingsOK
  BY DEF IInv
<1>o. LeftSwitch(thr, t, "SEND") /\ FramesOK'
  <2>1. Service(thr, t, "SEND") /\ Served(thr)
    BY DEF ServiceSend
  <2>. HIDE DEF ServiceSend
  <2>. QED BY <2>1, ServedStep
<1>1. TypeOK'
  <2>1. req[t].to \in Tasks
    BY <1>0, <1>o DEF LeftSwitch, RequestsOK
  <2>2. /\ UNCHANGED <<pinned, detached, parent, earg, dtor, future, free, nfree,
                    ready, eventq, waited, received, children,
                    req, cur, nest, mainOp, torun>>
        /\ pc' = [pc EXCEPT ![thr] = "serviced"] /\ lock' = thr
    BY DEF Service, Served
  <2>3. /\ state' = [state EXCEPT ![t] = "RECV_BLOCKED"]
        /\ msgq' = [msgq EXCEPT ![req[t].to] = Append(@, t)]
    BY <1>0
  <2>. HIDE DEF ServiceSend
  <2>4. state' \in [Tasks -> States]
    BY <1>0, <2>1, <2>3 DEF TypeOK, States
  <2>5. msgq' \in [Tasks -> Seq(Tasks)]
    BY <1>0, <2>1, <2>3, AppendElements DEF TypeOK, States
  <2>. QED BY <1>0, <2>2, <2>4, <2>5 DEF TypeOK
<1>2. (nfree = Cardinality(free))'
  BY <1>0
<1>p. /\ req[t].to \in Tasks
      /\ state'[t] = "RECV_BLOCKED" /\ \A x \in Tasks : x # t => state'[x] = state[x]
      /\ DOMAIN msgq[req[t].to] = 1 .. Len(msgq[req[t].to]) /\ Len(msgq[req[t].to]) \in Nat
      /\ DOMAIN msgq'[req[t].to] = 1 .. (Len(msgq[req[t].to]) + 1)
      /\ \A i \in 1 .. Len(msgq[req[t].to]) : msgq'[req[t].to][i] = msgq[req[t].to][i]
      /\ msgq'[req[t].to][Len(msgq[req[t].to]) + 1] = t
      /\ \A r \in Tasks : r # req[t].to => msgq'[r] = msgq[r]
      /\ \A x \in Tasks, r \in Tasks : InQueueOf(x, r)' <=> InQueueOf(x, r) \/ (x = t /\ r = req[t].to)
      /\ dtor[t] # "set" /\ \A u \in Tasks : t \notin received[u]
      /\ \A o \in Threads, u \in Tasks : Pending(o, u, "REPLY") => req[u].to # t
      /\ UNCHANGED <<pinned, detached, parent, earg, dtor, future, free, nfree,
                     eventq, waited, children, ready, received>>
  <2>1. req[t].to \in Tasks /\ msgq[req[t].to] \in Seq(Tasks) /\ state[t] = "ACTIVE" /\ dtor[t] # "set"
    BY <1>0, <1>o DEF LeftSwitch, RequestsOK, LeavingsOK, ExitOK, TypeOK
  <2>2. /\ state'[t] = "RECV_BLOCKED" /\ \A x \in Tasks : x # t => state'[x] = state[x]
        /\ msgq'[req[t].to] = Append(msgq[req[t].to], t)
        /\ \A r \in Tasks : r # req[t].to => msgq'[r] = msgq[r]
        /\ UNCHANGED <<pinned, detached, parent, earg, dtor, future, free, nfree,
                       eventq, waited, children, ready, received>>
    BY <1>0, <2>1 DEF TypeOK
  <2>. HIDE DEF ServiceSend, Enqueue
  <2>3. /\ DOMAIN msgq[req[t].to] = 1 .. Len(msgq[req[t].to]) /\ Len(msgq[req[t].to]) \in Nat
        /\ DOMAIN msgq'[req[t].to] = 1 .. (Len(msgq[req[t].to]) + 1)
        /\ \A i \in 1 .. Len(msgq[req[t].to]) : msgq'[req[t].to][i] = msgq[req[t].to][i]
        /\ msgq'[req[t].to][Len(msgq[req[t].to]) + 1] = t
    BY <2>1, <2>2, AppendElements
  <2>4. ASSUME NEW x \in Tasks, NEW r \in Tasks
        PROVE  InQueueOf(x, r)' <=> InQueueOf(x, r) \/ (x = t /\ r = req[t].to)
    <3>1. CASE r = req[t].to
      <4>1. ASSUME InQueueOf(x, r)  PROVE InQueueOf(x, r)'
        <5>1. PICK i \in DOMAIN msgq[r] : msgq[r][i] = x
          BY <4>1 DEF InQueueOf
        <5>2. i \in 1 .. Len(msgq[r]) /\ Len(msgq[r]) \in Nat
          BY <2>3, <3>1
        <5>3. i \in 1 .. (Len(msgq[r]) + 1)
          BY <5>2
        <5>4. i \in DOMAIN msgq'[r] /\ msgq'[r][i] = x
          BY <2>3, <3>1, <5>1, <5>2, <5>3
        <5>. QED BY <5>4 DEF InQueueOf
      <4>2. ASSUME x = t  PROVE InQueueOf(x, r)'
        <5>1. Len(msgq[r]) + 1 \in DOMAIN msgq'[r] /\ msgq'[r][Len(msgq[r]) + 1] = x
          BY <2>3, <3>1, <4>2
        <5>. QED BY <5>1 DEF InQueueOf
      <4>3. ASSUME InQueueOf(x, r)', x # t  PROVE InQueueOf(x, r)
        <5>1. PICK i \in DOMAIN msgq'[r] : msgq'[r][i] = x
          BY <4>3 DEF InQueueOf
        <5>2. i \in 1 .. (Len(msgq[r]) + 1) /\ Len(msgq[r]) \in Nat
          BY <2>3, <3>1
        <5>3. i # Len(msgq[r]) + 1
          BY <2>3, <3>1, <4>3, <5>1
        <5>4. i \in 1 .. Len(msgq[r])
          BY <5>2, <5>3
        <5>5. i \in DOMAIN msgq[r] /\ msgq[r][i] = x
          BY <2>3, <3>1, <5>1, <5>4
        <5>. QED BY <5>5 DEF InQueueOf
      <4>. QED BY <3>1, <4>1, <4>2, <4>3
    <3>2. CASE r # req[t].to
      BY <2>2, <3>2 DEF InQueueOf
    <3>. QED BY <3>1, <3>2
  <2>5. /\ \A u \in Tasks : t \notin received[u]
        /\ \A o \in Threads, u \in Tasks : Pending(o, u, "REPLY") => req[u].to # t
    BY <1>0, <2>1 DEF RepliesOK
  <2>. QED BY <2>1, <2>2, <2>3, <2>4, <2>5
<1>. HIDE DEF ServiceSend
<1>3. FramesOK'
  BY <1>o
<1>4. PlacesOK'
  <2>. SUFFICES ASSUME NEW x \in Tasks
                PROVE  (PlaceState(x) /\ Exclusive(x) /\ Once(x) /\ StatePlace(x))'
    BY DEF PlacesOK
  <2>1. PlaceState(x) /\ Exclusive(x) /\ Once(x) /\ StatePlace(x)
    BY <1>0 DEF PlacesOK
  <2>2. PlaceState(x)'
    BY <1>0, <1>p, <1>o, <2>1 DEF PlaceState, InEvent, InQueueOf, LeftSwitch, Has
  <2>3. Exclusive(x)'
    BY <1>0, <1>p, <1>o, <2>1 DEF Exclusive, PlaceState, Once, InEvent, LeftSwitch
  <2>4. Once(x)'
    <3>1. ASSUME NEW q \in Tasks, NEW i \in DOMAIN msgq'[q], msgq'[q][i] = x
          PROVE  IF x = t THEN q = req[t].to /\ i = Len(msgq[req[t].to]) + 1
                 ELSE i \in DOMAIN msgq[q] /\ msgq[q][i] = x
      <4>1. CASE q = req[t].to /\ i = Len(msgq[req[t].to]) + 1
        BY <1>p, <3>1, <4>1
      <4>2. CASE ~(q = req[t].to /\ i = Len(msgq[req[t].to]) + 1)
        <5>1. i \in DOMAIN msgq[q] /\ msgq[q][i] = x
          BY <1>p, <3>1, <4>2
        <5>. QED BY <1>o, <5>1 DEF LeftSwitch, InQueueOf
      <4>. QED BY <4>1, <4>2
    <3>2. \A q, r \in Tasks : \A i \in DOMAIN msgq'[q], j \in DOMAIN msgq'[r] :
            msgq'[q][i] = x /\ msgq'[r][j] = x => q = r /\ i = j
      BY <3>1, <2>1 DEF Once
    <3>. QED BY <1>p, <1>o, <2>1, <3>2 DEF Once, LeftSwitch
  <2>5. StatePlace(x)'
    BY <1>0, <1>p, <1>o, <2>1 DEF StatePlace, InEvent, InQueueOf, LeftSwitch
  <2>. QED BY <2>2, <2>3, <2>4, <2>5
<1>5. RequestsOK'
  BY <1>0, <1>p, <1>o DEF RequestsOK, LeftSwitch
<1>6. RepliesOK'
  BY <1>0, <1>p, <1>o, SMTT(30) DEF RepliesOK, LeftSwitch, RequestsOK
<1>7. FamilyOK'
  <2>1. \A y \in Tasks : \A ch \in children[y] :
          parent[ch] = y /\ ~detached[ch] /\ ch \notin free /\ ~waited[ch]
    BY <1>0 DEF FamilyOK
  <2>2. ASSUME NEW y \in Tasks, NEW ch \in children[y]'
        PROVE  (parent[ch] = y /\ ~detached[ch] /\ ch \notin free /\ ~waited[ch])'
    BY <1>0, <1>p, <1>o, <2>1, <2>2 DEF LeftSwitch
  <2>3. ASSUME NEW o \in Threads, NEW y \in Tasks, Pending(o, y, "WAIT")'
        PROVE  (parent[req[y].to] = y /\ ~detached[req[y].to] =>
                  req[y].to \notin free \cup children[y] /\ ~waited[req[y].to])'
    BY <1>0, <1>p, <1>o, <2>1, <2>3 DEF FamilyOK, RequestsOK, LeftSwitch
  <2>4. ASSUME NEW ch \in Tasks, waited[ch]'
        PROVE  (/\ ch \notin free /\ ~detached[ch] /\ state[ch] # "ZOMBIE"
                /\ parent[ch] \in Tasks
                /\ InWait(parent[ch]) /\ req[parent[ch]].to = ch
                /\ parent[ch] \notin free /\ ~Busy(parent[ch]) /\ ~Nesting(parent[ch]))'
    BY <1>0, <1>p, <1>o, <2>1, <2>4 DEF FamilyOK, InWait, PlacesOK, PlaceState, LeftSwitch
  <2>. QED BY <2>2, <2>3, <2>4 DEF FamilyOK
<1>8. LeavingsOK'
  <2>. SUFFICES ASSUME NEW x \in Tasks
                PROVE  (ArgOK(x) /\ ExitOK(x))'
    BY DEF LeavingsOK
  <2>1. PlaceState(x) /\ Exclusive(x) /\ ArgOK(x) /\ ExitOK(x)
    BY <1>0 DEF PlacesOK, LeavingsOK
  <2>2. ArgOK(x)'
    BY <1>0, <1>p, <1>o, <2>1 DEF ArgOK, PlaceState, LeftSwitch
  <2>3. ExitOK(x)'
    BY <1>0, <1>p, <1>o, <2>1 DEF ExitOK, PlaceState, LeftSwitch
  <2>. QED BY <2>2, <2>3
<1>. HIDE DEF ServiceSend, Enqueue
<1>. QED BY <1>1, <1>2, <1>3, <1>4, <1>5, <1>6, <1>7, <1>8 DEF IInv

\* sched_receive of a queued message.
LEMMA ServiceReceiveQueuedInv ==
  ASSUME IInv, NEW thr \in Threads, NEW t \in Tasks, ServiceReceive(thr, t), msgq[t] # <<>>
  PROVE  IInv'
<1>. USE DEF ServiceReceive, Reactivate, AwaitsReply
<1>0. /\ TypeOK /\ nfree = Cardinality(free) /\ FramesOK /\ PlacesOK
      /\ RequestsOK /\ RepliesOK /\ FamilyOK /\ LeavingsOK
  BY DEF IInv
<1>o. LeftSwitch(thr, t, "RECEIVE") /\ FramesOK'
  <2>1. Service(thr, t, "RECEIVE") /\ Served(thr)
    BY DEF ServiceReceive
  <2>. HIDE DEF ServiceReceive
  <2>. QED BY <2>1, ServedStep
<1>1. TypeOK'
  <2>1. msgq[t] \in Seq(Tasks) /\ Head(msgq[t]) \in Tasks /\ Tail(msgq[t]) \in Seq(Tasks)
    BY <1>0, TailElements DEF TypeOK
  <2>2. /\ UNCHANGED <<pinned, detached, parent, earg, dtor, future, free, nfree,
                    eventq, waited, children, req, cur, nest,
                    mainOp, torun>>
        /\ pc' = [pc EXCEPT ![thr] = "serviced"] /\ lock' = thr
    BY DEF Service, Served
  <2>3. /\ state' = [x \in Tasks |-> IF x \in {t} THEN "READY" ELSE [state EXCEPT ![Head(msgq[t])] = "REPLY_BLOCKED"][x]]
        /\ ready' = [x \in Tasks |-> IF x \in {t} THEN ready[x] + 1 ELSE ready[x]]
        /\ received' = [received EXCEPT ![t] = @ \cup {Head(msgq[t])}]
        /\ msgq' = [msgq EXCEPT ![t] = Tail(@)]
    BY <1>0
  <2>. HIDE DEF ServiceReceive
  <2>4. state' \in [Tasks -> States]
    BY <1>0, <2>1, <2>3 DEF TypeOK, States
  <2>5. ready' \in [Tasks -> Nat]
    BY <1>0, <2>1, <2>3 DEF TypeOK, States
  <2>6. received' \in [Tasks -> SUBSET Tasks]
    BY <1>0, <2>1, <2>3 DEF TypeOK, States
  <2>7. msgq' \in [Tasks -> Seq(Tasks)]
    BY <1>0, <2>1, <2>3 DEF TypeOK, States
  <2>. QED BY <1>0, <2>2, <2>4, <2>5, <2>6, <2>7 DEF TypeOK
<1>2. (nfree = Cardinality(free))'
  BY <1>0
<1>b. /\ Head(msgq[t]) \in Tasks /\ Head(msgq[t]) # t
      /\ state[Head(msgq[t])] = "RECV_BLOCKED" /\ dtor[Head(msgq[t])] # "set"
      /\ \A u \in Tasks : Head(msgq[t]) \notin received[u]
      /\ \A o \in Threads, u \in Tasks : Pending(o, u, "REPLY") => req[u].to # Head(msgq[t])
      /\ ready[Head(msgq[t])] = 0 /\ ~Busy(Head(msgq[t])) /\ ~Nesting(Head(msgq[t])) /\ ~Claimed(Head(msgq[t])) /\ ~InEvent(Head(msgq[t]))
      /\ Head(msgq[t]) \notin torun /\ Head(msgq[t]) \notin free
      /\ \A o \in Threads : \A k : ~Pending(o, Head(msgq[t]), k) /\ ~Has(o, Head(msgq[t]))
  <2>. HIDE DEF ServiceReceive
  <2>1. Head(msgq[t]) \in Tasks /\ InQueueOf(Head(msgq[t]), t)
    BY <1>0, TailElements DEF TypeOK, InQueueOf
  <2>2. state[Head(msgq[t])] = "RECV_BLOCKED" /\ state[t] = "ACTIVE"
    BY <1>0, <1>o, <2>1 DEF PlacesOK, PlaceState, LeftSwitch
  <2>3. dtor[Head(msgq[t])] # "set"
    BY <1>0, <2>1, <2>2 DEF LeavingsOK, ExitOK
  <2>4. /\ \A u \in Tasks : Head(msgq[t]) \notin received[u]
        /\ \A o \in Threads, u \in Tasks : Pending(o, u, "REPLY") => req[u].to # Head(msgq[t])
    BY <1>0, <2>2 DEF RepliesOK
  <2>. QED BY <2>1, <2>2, <2>3, <2>4, BlockedElsewhere
<1>p. /\ state'[t] = "READY" /\ ready'[t] = 1
      /\ state'[Head(msgq[t])] = "REPLY_BLOCKED" /\ ready'[Head(msgq[t])] = 0
      /\ \A x \in Tasks : x \notin {t, Head(msgq[t])} => state'[x] = state[x] /\ ready'[x] = ready[x]
      /\ received'[t] = received[t] \cup {Head(msgq[t])}
      /\ \A x \in Tasks : x # t => received'[x] = received[x]
      /\ \A r \in Tasks : r # t => msgq'[r] = msgq[r]
      /\ DOMAIN msgq[t] = 1 .. Len(msgq[t]) /\ Len(msgq[t]) \in Nat
      /\ DOMAIN msgq'[t] = 1 .. (Len(msgq[t]) - 1)
      /\ \A i \in DOMAIN msgq'[t] : msgq'[t][i] = msgq[t][i + 1]
      /\ \A x, r \in Tasks : InQueueOf(x, r)' <=> InQueueOf(x, r) /\ x # Head(msgq[t])
      /\ UNCHANGED <<pinned, detached, parent, earg, dtor, future, free, nfree,
                     eventq, waited, children>>
  <2>1. msgq[t] \in Seq(Tasks)
    BY <1>0 DEF TypeOK
  <2>2. /\ received'[t] = received[t] \cup {Head(msgq[t])} /\ msgq'[t] = Tail(msgq[t])
        /\ \A x \in Tasks : x # t => received'[x] = received[x] /\ msgq'[x] = msgq[x]
        /\ UNCHANGED <<pinned, detached, parent, earg, dtor, future, free, nfree,
                       eventq, waited, children>>
    BY <1>0 DEF TypeOK
  <2>3. /\ state'[t] = "READY" /\ ready'[t] = 1
        /\ state'[Head(msgq[t])] = "REPLY_BLOCKED" /\ ready'[Head(msgq[t])] = 0
        /\ \A x \in Tasks : x \notin {t, Head(msgq[t])} =>
             state'[x] = state[x] /\ ready'[x] = ready[x]
    BY <1>0, <1>o, <1>b DEF TypeOK, LeftSwitch
  <2>. HIDE DEF ServiceReceive
  <2>4. /\ DOMAIN msgq[t] = 1 .. Len(msgq[t]) /\ Len(msgq[t]) \in Nat \ {0}
        /\ DOMAIN msgq'[t] = 1 .. (Len(msgq[t]) - 1) /\ Head(msgq[t]) = msgq[t][1]
        /\ \A i \in DOMAIN msgq'[t] : msgq'[t][i] = msgq[t][i + 1]
    BY <2>1, <2>2, TailElements
  <2>5. ASSUME NEW x \in Tasks, NEW r \in Tasks
        PROVE  InQueueOf(x, r)' <=> InQueueOf(x, r) /\ x # Head(msgq[t])
    <3>. USE <1>b
    <3>0. /\ 1 \in DOMAIN msgq[t]
          /\ \A i \in DOMAIN msgq[r] : msgq[r][i] = Head(msgq[t]) => r = t /\ i = 1
      <4>1. Once(Head(msgq[t]))
        BY <1>0 DEF PlacesOK
      <4>. QED BY <2>4, <4>1 DEF Once
    <3>1. CASE r = t
      <4>1. ASSUME InQueueOf(x, r)' PROVE InQueueOf(x, r) /\ x # Head(msgq[t])
        <5>1. PICK i \in DOMAIN msgq'[t] : msgq'[t][i] = x
          BY <3>1, <4>1 DEF InQueueOf
        <5>2. i + 1 \in DOMAIN msgq[t] /\ msgq[t][i + 1] = x /\ i + 1 # 1
          BY <2>4, <5>1
        <5>. QED BY <3>0, <3>1, <5>2 DEF InQueueOf
      <4>2. ASSUME InQueueOf(x, r), x # Head(msgq[t]) PROVE InQueueOf(x, r)'
        <5>1. PICK i \in DOMAIN msgq[t] : msgq[t][i] = x
          BY <3>1, <4>2 DEF InQueueOf
        <5>2. i - 1 \in DOMAIN msgq'[t] /\ (i - 1) + 1 = i
          BY <2>4, <4>2, <5>1
        <5>3. msgq'[t][i - 1] = x
          BY <2>4, <5>1, <5>2
        <5>. QED BY <3>1, <5>2, <5>3 DEF InQueueOf
      <4>. QED BY <4>1, <4>2
    <3>2. CASE r # t
      BY <2>2, <3>0, <3>2 DEF InQueueOf
    <3>. QED BY <3>1, <3>2
  <2>. QED BY <2>2, <2>3, <2>4, <2>5
<1>. HIDE DEF ServiceReceive
<1>3. FramesOK'
  BY <1>o
<1>4. PlacesOK'
  <2>. SUFFICES ASSUME NEW x \in Tasks
                PROVE  (PlaceState(x) /\ Exclusive(x) /\ Once(x) /\ StatePlace(x))'
    BY DEF PlacesOK
  <2>1. PlaceState(x) /\ Exclusive(x) /\ Once(x) /\ StatePlace(x)
    BY <1>0 DEF PlacesOK
  <2>2. PlaceState(x)'
    BY <1>0, <1>p, <1>b, <1>o, <2>1 DEF PlaceState, InEvent, InQueueOf, LeftSwitch, Has
  <2>3. Exclusive(x)'
    BY <1>0, <1>p, <1>b, <1>o, <2>1 DEF Exclusive, PlaceState, Once, InEvent, LeftSwitch
  <2>4. Once(x)'
    <3>1. ASSUME NEW q \in Tasks, NEW i \in DOMAIN msgq'[q], msgq'[q][i] = x
          PROVE  IF q = t THEN i + 1 \in DOMAIN msgq[q] /\ msgq[q][i + 1] = x /\ i \in Nat
                 ELSE i \in DOMAIN msgq[q] /\ msgq[q][i] = x
      BY <1>p, <3>1
    <3>2. \A q, r \in Tasks : \A i \in DOMAIN msgq'[q], j \in DOMAIN msgq'[r] :
            msgq'[q][i] = x /\ msgq'[r][j] = x => q = r /\ i = j
      <4>. SUFFICES ASSUME NEW q \in Tasks, NEW r \in Tasks,
                           NEW i \in DOMAIN msgq'[q], NEW j \in DOMAIN msgq'[r],
                           msgq'[q][i] = x, msgq'[r][j] = x
                    PROVE  q = r /\ i = j
        OBVIOUS
      <4>1. q = r
        BY <2>1, <3>1 DEF Once
      <4>2. CASE q = t
        <5>1. i + 1 = j + 1 /\ i \in Nat /\ j \in Nat
          BY <2>1, <3>1, <4>1, <4>2 DEF Once
        <5>. QED BY <4>1, <5>1
      <4>3. CASE q # t
        BY <2>1, <3>1, <4>1, <4>3 DEF Once
      <4>. QED BY <4>1, <4>2, <4>3
    <3>. QED BY <1>p, <1>b, <1>o, <2>1, <3>2 DEF Once, LeftSwitch
  <2>5. StatePlace(x)'
    BY <1>0, <1>p, <1>b, <1>o, <2>1 DEF StatePlace, InEvent, InQueueOf, LeftSwitch
  <2>. QED BY <2>2, <2>3, <2>4, <2>5
<1>5. RequestsOK'
  BY <1>0, <1>p, <1>b, <1>o DEF RequestsOK, LeftSwitch
<1>6. RepliesOK'
  BY <1>0, <1>p, <1>b, <1>o, SMTT(30) DEF RepliesOK, LeftSwitch, RequestsOK
<1>7. FamilyOK'
  <2>1. \A y \in Tasks : \A ch \in children[y] :
          parent[ch] = y /\ ~detached[ch] /\ ch \notin free /\ ~waited[ch]
    BY <1>0 DEF FamilyOK
  <2>2. ASSUME NEW y \in Tasks, NEW ch \in children[y]'
        PROVE  (parent[ch] = y /\ ~detached[ch] /\ ch \notin free /\ ~waited[ch])'
    BY <1>0, <1>p, <1>b, <1>o, <2>1, <2>2 DEF LeftSwitch
  <2>3. ASSUME NEW o \in Threads, NEW y \in Tasks, Pending(o, y, "WAIT")'
        PROVE  (parent[req[y].to] = y /\ ~detached[req[y].to] =>
                  req[y].to \notin free \cup children[y] /\ ~waited[req[y].to])'
    BY <1>0, <1>p, <1>b, <1>o, <2>1, <2>3 DEF FamilyOK, RequestsOK, LeftSwitch
  <2>4. ASSUME NEW ch \in Tasks, waited[ch]'
        PROVE  (/\ ch \notin free /\ ~detached[ch] /\ state[ch] # "ZOMBIE"
                /\ parent[ch] \in Tasks
                /\ InWait(parent[ch]) /\ req[parent[ch]].to = ch
                /\ parent[ch] \notin free /\ ~Busy(parent[ch]) /\ ~Nesting(parent[ch]))'
    BY <1>0, <1>p, <1>b, <1>o, <2>1, <2>4
      DEF FamilyOK, InWait, PlacesOK, PlaceState, LeftSwitch
  <2>. QED BY <2>2, <2>3, <2>4 DEF FamilyOK
<1>8. LeavingsOK'
  <2>. SUFFICES ASSUME NEW x \in Tasks
                PROVE  (ArgOK(x) /\ ExitOK(x))'
    BY DEF LeavingsOK
  <2>1. PlaceState(x) /\ Exclusive(x) /\ ArgOK(x) /\ ExitOK(x)
    BY <1>0 DEF PlacesOK, LeavingsOK
  <2>2. ArgOK(x)'
    BY <1>0, <1>p, <1>b, <1>o, <2>1 DEF ArgOK, PlaceState, LeftSwitch
  <2>3. ExitOK(x)'
    BY <1>0, <1>p, <1>b, <1>o, <2>1 DEF ExitOK, PlaceState, LeftSwitch
  <2>. QED BY <2>2, <2>3
<1>. HIDE DEF ServiceReceive, Reactivate, AwaitsReply
<1>. QED BY <1>1, <1>2, <1>3, <1>4, <1>5, <1>6, <1>7, <1>8 DEF IInv

\* sched_receive with no message: the task blocks.
LEMMA ServiceReceiveBlockedInv ==
  ASSUME IInv, NEW thr \in Threads, NEW t \in Tasks, ServiceReceive(thr, t), msgq[t] = <<>>
  PROVE  IInv'
<1>. USE DEF ServiceReceive, bodyVars
<1>0. /\ TypeOK /\ nfree = Cardinality(free) /\ FramesOK /\ PlacesOK
      /\ RequestsOK /\ RepliesOK /\ FamilyOK /\ LeavingsOK
  BY DEF IInv
<1>o. LeftSwitch(thr, t, "RECEIVE") /\ FramesOK'
  <2>1. Service(thr, t, "RECEIVE") /\ Served(thr)
    BY DEF ServiceReceive
  <2>. HIDE DEF ServiceReceive
  <2>. QED BY <2>1, ServedStep
<1>1. TypeOK'
  <2>1. TRUE
    OBVIOUS
  <2>2. /\ UNCHANGED <<pinned, detached, parent, earg, dtor, future, free, nfree,
                    ready, msgq, eventq, waited, received,
                    children, req, cur, nest, mainOp, torun>>
        /\ pc' = [pc EXCEPT ![thr] = "serviced"] /\ lock' = thr
    BY DEF Service, Served
  <2>3. /\ state' = [state EXCEPT ![t] = "SEND_BLOCKED"]
    BY <1>0
  <2>. HIDE DEF ServiceReceive
  <2>4. state' \in [Tasks -> States]
    BY <1>0, <2>1, <2>3 DEF TypeOK, States
  <2>. QED BY <1>0, <2>2, <2>4 DEF TypeOK
<1>2. (nfree = Cardinality(free))'
  BY <1>0
<1>p. /\ state'[t] = "SEND_BLOCKED" /\ \A x \in Tasks : x # t => state'[x] = state[x]
      /\ UNCHANGED <<pinned, detached, parent, earg, dtor, future, free, nfree,
                     eventq, waited, children, ready, received, msgq>>
  BY <1>0, <1>o DEF LeftSwitch, ServiceReceive, bodyVars, TypeOK
<1>. HIDE DEF ServiceReceive
<1>3. FramesOK'
  BY <1>o
<1>4. PlacesOK'
  <2>. SUFFICES ASSUME NEW x \in Tasks
                PROVE  (PlaceState(x) /\ Exclusive(x) /\ Once(x) /\ StatePlace(x))'
    BY DEF PlacesOK
  <2>1. PlaceState(x) /\ Exclusive(x) /\ Once(x) /\ StatePlace(x)
    BY <1>0 DEF PlacesOK
  <2>2. PlaceState(x)'
    BY <1>0, <1>p, <1>o, <2>1 DEF PlaceState, InEvent, InQueueOf, LeftSwitch, Has
  <2>3. Exclusive(x)'
    BY <1>0, <1>p, <1>o, <2>1 DEF Exclusive, PlaceState, Once, InEvent, LeftSwitch
  <2>4. Once(x)'
    BY <1>0, <1>p, <1>o, <2>1 DEF Once, Exclusive, LeftSwitch, InEvent
  <2>5. StatePlace(x)'
    BY <1>0, <1>p, <1>o, <2>1 DEF StatePlace, InEvent, InQueueOf, LeftSwitch
  <2>. QED BY <2>2, <2>3, <2>4, <2>5
<1>5. RequestsOK'
  BY <1>0, <1>p, <1>o DEF RequestsOK, LeftSwitch
<1>6. RepliesOK'
  BY <1>0, <1>p, <1>o, SMTT(30) DEF RepliesOK, LeftSwitch, RequestsOK
<1>7. FamilyOK'
  <2>1. \A y \in Tasks : \A ch \in children[y] :
          parent[ch] = y /\ ~detached[ch] /\ ch \notin free /\ ~waited[ch]
    BY <1>0 DEF FamilyOK
  <2>2. ASSUME NEW y \in Tasks, NEW ch \in children[y]'
        PROVE  (parent[ch] = y /\ ~detached[ch] /\ ch \notin free /\ ~waited[ch])'
    BY <1>0, <1>p, <1>o, <2>1, <2>2 DEF LeftSwitch
  <2>3. ASSUME NEW o \in Threads, NEW y \in Tasks, Pending(o, y, "WAIT")'
        PROVE  (parent[req[y].to] = y /\ ~detached[req[y].to] =>
                  req[y].to \notin free \cup children[y] /\ ~waited[req[y].to])'
    BY <1>0, <1>p, <1>o, <2>1, <2>3 DEF FamilyOK, RequestsOK, LeftSwitch
  <2>4. ASSUME NEW ch \in Tasks, waited[ch]'
        PROVE  (/\ ch \notin free /\ ~detached[ch] /\ state[ch] # "ZOMBIE"
                /\ parent[ch] \in Tasks
                /\ InWait(parent[ch]) /\ req[parent[ch]].to = ch
                /\ parent[ch] \notin free /\ ~Busy(parent[ch]) /\ ~Nesting(parent[ch]))'
    BY <1>0, <1>p, <1>o, <2>1, <2>4 DEF FamilyOK, InWait, PlacesOK, PlaceState, LeftSwitch
  <2>. QED BY <2>2, <2>3, <2>4 DEF FamilyOK
<1>8. LeavingsOK'
  <2>. SUFFICES ASSUME NEW x \in Tasks
                PROVE  (ArgOK(x) /\ ExitOK(x))'
    BY DEF LeavingsOK
  <2>1. PlaceState(x) /\ Exclusive(x) /\ ArgOK(x) /\ ExitOK(x)
    BY <1>0 DEF PlacesOK, LeavingsOK
  <2>2. ArgOK(x)'
    BY <1>0, <1>p, <1>o, <2>1 DEF ArgOK, PlaceState, LeftSwitch
  <2>3. ExitOK(x)'
    BY <1>0, <1>p, <1>o, <2>1 DEF ExitOK, PlaceState, LeftSwitch
  <2>. QED BY <2>2, <2>3
<1>. HIDE DEF ServiceReceive, bodyVars
<1>. QED BY <1>1, <1>2, <1>3, <1>4, <1>5, <1>6, <1>7, <1>8 DEF IInv

\* sched_wait for a task that is not a child: the caller is in Task_Wait for good.
LEMMA ServiceWaitFailedInv ==
  ASSUME IInv, NEW thr \in Threads, NEW t \in Tasks, ServiceWait(thr, t), ~(parent[req[t].to] = t /\ ~detached[req[t].to])
  PROVE  IInv'
<1>. USE DEF ServiceWait, Collectable, bodyVars
<1>0. /\ TypeOK /\ nfree = Cardinality(free) /\ FramesOK /\ PlacesOK
      /\ RequestsOK /\ RepliesOK /\ FamilyOK /\ LeavingsOK
  BY DEF IInv
<1>o. LeftSwitch(thr, t, "WAIT") /\ FramesOK'
  <2>1. Service(thr, t, "WAIT") /\ Served(thr)
    BY DEF ServiceWait
  <2>. HIDE DEF ServiceWait
  <2>. QED BY <2>1, ServedStep
<1>1. TypeOK'
  <2>1. TRUE
    OBVIOUS
  <2>2. /\ UNCHANGED <<state, pinned, detached, parent, earg, dtor, future, free,
                    nfree, ready, msgq, eventq, waited,
                    received, children, req, cur, nest,
                    mainOp, torun>>
        /\ pc' = [pc EXCEPT ![thr] = "serviced"] /\ lock' = thr
    BY DEF Service, Served
  <2>. HIDE DEF ServiceWait
  <2>. QED BY <1>0, <2>2 DEF TypeOK
<1>2. (nfree = Cardinality(free))'
  BY <1>0
<1>b. req[t].to \in Tasks /\ dtor[t] # "set" /\ pinned[t]
  <2>1. Pending(thr, t, "WAIT")
    BY <1>o DEF LeftSwitch
  <2>2. ArgOK(t) /\ ExitOK(t)
    BY <1>0 DEF LeavingsOK
  <2>3. dtor[t] # "set" /\ pinned[t]
    BY <1>o, <2>1, <2>2 DEF ExitOK, ArgOK, LeftSwitch
  <2>. QED BY <1>0, <2>1, <2>3 DEF RequestsOK
<1>p. UNCHANGED <<pinned, detached, parent, earg, dtor, future, msgq, eventq,
                     received, children,
                 state, ready, free, nfree, waited>>
  BY <1>0, <1>o, <1>b DEF LeftSwitch, ServiceWait, Collectable, bodyVars, TypeOK
<1>. HIDE DEF ServiceWait
<1>3. FramesOK'
  BY <1>o
<1>4. PlacesOK'
  <2>. SUFFICES ASSUME NEW x \in Tasks
                PROVE  (PlaceState(x) /\ Exclusive(x) /\ Once(x) /\ StatePlace(x))'
    BY DEF PlacesOK
  <2>1. PlaceState(x) /\ Exclusive(x) /\ Once(x) /\ StatePlace(x)
    BY <1>0 DEF PlacesOK
  <2>2. PlaceState(x)'
    BY <1>0, <1>p, <1>b, <1>o, <2>1 DEF PlaceState, InEvent, InQueueOf, LeftSwitch, Has
  <2>3. Exclusive(x)'
    BY <1>0, <1>p, <1>b, <1>o, <2>1 DEF Exclusive, PlaceState, Once, InEvent, LeftSwitch
  <2>4. Once(x)'
    BY <1>0, <1>p, <1>b, <1>o, <2>1 DEF Once, Exclusive, LeftSwitch, InEvent
  <2>5. StatePlace(x)'
    BY <1>0, <1>p, <1>b, <1>o, <2>1 DEF StatePlace, InEvent, InQueueOf, LeftSwitch
  <2>. QED BY <2>2, <2>3, <2>4, <2>5
<1>5. RequestsOK'
  BY <1>0, <1>p, <1>b, <1>o DEF RequestsOK, LeftSwitch
<1>6. RepliesOK'
  BY <1>0, <1>p, <1>b, <1>o, SMTT(30) DEF RepliesOK, LeftSwitch, RequestsOK
<1>7. FamilyOK'
  <2>1. \A y \in Tasks : \A ch \in children[y] :
          parent[ch] = y /\ ~detached[ch] /\ ch \notin free /\ ~waited[ch]
    BY <1>0 DEF FamilyOK
  <2>2. ASSUME NEW y \in Tasks, NEW ch \in children[y]'
        PROVE  (parent[ch] = y /\ ~detached[ch] /\ ch \notin free /\ ~waited[ch])'
    BY <1>0, <1>p, <1>b, <1>o, <2>1, <2>2 DEF LeftSwitch
  <2>3. ASSUME NEW o \in Threads, NEW y \in Tasks, Pending(o, y, "WAIT")'
        PROVE  (parent[req[y].to] = y /\ ~detached[req[y].to] =>
                  req[y].to \notin free \cup children[y] /\ ~waited[req[y].to])'
    BY <1>0, <1>p, <1>b, <1>o, <2>1, <2>3 DEF FamilyOK, RequestsOK, LeftSwitch
  <2>4. ASSUME NEW ch \in Tasks, waited[ch]'
        PROVE  (/\ ch \notin free /\ ~detached[ch] /\ state[ch] # "ZOMBIE"
                /\ parent[ch] \in Tasks
                /\ InWait(parent[ch]) /\ req[parent[ch]].to = ch
                /\ parent[ch] \notin free /\ ~Busy(parent[ch]) /\ ~Nesting(parent[ch]))'
    BY <1>0, <1>p, <1>b, <1>o, <2>1, <2>4
      DEF FamilyOK, InWait, PlacesOK, PlaceState, LeftSwitch
  <2>. QED BY <2>2, <2>3, <2>4 DEF FamilyOK
<1>8. LeavingsOK'
  <2>. SUFFICES ASSUME NEW x \in Tasks
                PROVE  (ArgOK(x) /\ ExitOK(x))'
    BY DEF LeavingsOK
  <2>1. PlaceState(x) /\ Exclusive(x) /\ ArgOK(x) /\ ExitOK(x)
    BY <1>0 DEF PlacesOK, LeavingsOK
  <2>2. ArgOK(x)'
    BY <1>0, <1>p, <1>b, <1>o, <2>1 DEF ArgOK, PlaceState, LeftSwitch
  <2>3. ExitOK(x)'
    BY <1>0, <1>p, <1>b, <1>o, <2>1 DEF ExitOK, PlaceState, LeftSwitch
  <2>. QED BY <2>2, <2>3
<1>. HIDE DEF ServiceWait, Collectable, bodyVars
<1>. QED BY <1>1, <1>2, <1>3, <1>4, <1>5, <1>6, <1>7, <1>8 DEF IInv

\* sched_wait for a zombie: its slot is freed and the caller is ready.
LEMMA ServiceWaitCollectsInv ==
  ASSUME IInv, NEW thr \in Threads, NEW t \in Tasks, ServiceWait(thr, t), parent[req[t].to] = t /\ ~detached[req[t].to], Collectable(req[t].to)
  PROVE  IInv'
<1>. USE DEF ServiceWait, Collectable, Free, Reactivate, bodyVars
<1>0. /\ TypeOK /\ nfree = Cardinality(free) /\ FramesOK /\ PlacesOK
      /\ RequestsOK /\ RepliesOK /\ FamilyOK /\ LeavingsOK
  BY DEF IInv
<1>o. LeftSwitch(thr, t, "WAIT") /\ FramesOK'
  <2>1. Service(thr, t, "WAIT") /\ Served(thr)
    BY DEF ServiceWait
  <2>. HIDE DEF ServiceWait
  <2>. QED BY <2>1, ServedStep
<1>1. TypeOK'
  <2>1. req[t].to \in Tasks
    BY <1>0, <1>o DEF LeftSwitch, RequestsOK
  <2>2. /\ UNCHANGED <<pinned, detached, parent, earg, dtor, future, msgq, eventq,
                    waited, received, children, req, cur,
                    nest, mainOp, torun>>
        /\ pc' = [pc EXCEPT ![thr] = "serviced"] /\ lock' = thr
    BY DEF Service, Served
  <2>3. /\ state' = [x \in Tasks |-> IF x \in {t} THEN "READY" ELSE state[x]]
        /\ ready' = [x \in Tasks |-> IF x \in {t} THEN ready[x] + 1 ELSE ready[x]]
        /\ free' = free \cup {req[t].to}
        /\ nfree' = nfree + 1
    BY <1>0
  <2>. HIDE DEF ServiceWait
  <2>4. state' \in [Tasks -> States]
    BY <1>0, <2>1, <2>3 DEF TypeOK, States
  <2>5. ready' \in [Tasks -> Nat]
    BY <1>0, <2>1, <2>3 DEF TypeOK, States
  <2>6. free' \in SUBSET Tasks
    BY <1>0, <2>1, <2>3 DEF TypeOK, States
  <2>7. nfree' \in Nat
    BY <1>0, <2>1, <2>3 DEF TypeOK, States
  <2>. QED BY <1>0, <2>2, <2>4, <2>5, <2>6, <2>7 DEF TypeOK
<1>2. (nfree = Cardinality(free))'
  <2>1. req[t].to \in Tasks /\ req[t].to \notin free
    BY <1>0, <1>o DEF LeftSwitch, RequestsOK, FamilyOK
  <2>. QED BY <1>0, <2>1, FreeCount
<1>b. /\ req[t].to \in Tasks /\ req[t].to # t /\ dtor[t] # "set" /\ pinned[t]
      /\ req[t].to \notin free /\ ~waited[req[t].to]
      /\ \A y \in Tasks : req[t].to \notin children[y]
      /\ \A o \in Threads, y \in Tasks :
           Pending(o, y, "WAIT") /\ req[y].to = req[t].to => parent[req[t].to] # y \/ y = t
      /\ state[req[t].to] = "ZOMBIE" /\ dtor[req[t].to] # "set" /\ earg[req[t].to] = "none"
      /\ ~Busy(req[t].to) /\ ~Nesting(req[t].to)
      /\ \A o \in Threads : \A k : ~Pending(o, req[t].to, k)
  <2>1. Pending(thr, t, "WAIT") /\ parent[req[t].to] = t /\ ~detached[req[t].to]
    BY <1>o DEF LeftSwitch
  <2>. HIDE DEF ServiceWait
  <2>0. ArgOK(t) /\ ExitOK(t)
    BY <1>0 DEF LeavingsOK
  <2>2. /\ req[t].to \in Tasks /\ dtor[t] # "set" /\ pinned[t]
        /\ req[t].to \notin free \cup children[t] /\ ~waited[req[t].to]
    <3>1. req[t].to \in Tasks
      BY <1>0, <2>1 DEF RequestsOK
    <3>2. dtor[t] # "set" /\ pinned[t]
      BY <1>o, <2>0, <2>1 DEF ExitOK, ArgOK, LeftSwitch
    <3>3. req[t].to \notin free \cup children[t] /\ ~waited[req[t].to]
      BY <1>0, <2>1 DEF FamilyOK
    <3>. QED BY <3>1, <3>2, <3>3
  <2>3. \A y \in Tasks : req[t].to \notin children[y]
    BY <1>0, <2>1, <2>2 DEF FamilyOK
  <2>4. state[req[t].to] = "ZOMBIE" /\ state[t] = "ACTIVE"
    BY <1>o DEF LeftSwitch
  <2>5. dtor[req[t].to] # "set" /\ earg[req[t].to] = "none"
    BY <1>0, <2>2, <2>4 DEF LeavingsOK, ExitOK
  <2>. QED BY <2>1, <2>2, <2>3, <2>4, <2>5, BlockedElsewhere
<1>p. /\ state'[t] = "READY" /\ ready'[t] = 1
      /\ \A x \in Tasks : x # t => state'[x] = state[x] /\ ready'[x] = ready[x]
      /\ free' = free \cup {req[t].to}
      /\ UNCHANGED <<pinned, detached, parent, earg, dtor, future, msgq, eventq,
                     received, children, waited>>
  BY <1>0, <1>o, <1>b
    DEF LeftSwitch, ServiceWait, Collectable, Free, Reactivate, bodyVars, TypeOK
<1>. HIDE DEF ServiceWait
<1>3. FramesOK'
  BY <1>o
<1>4. PlacesOK'
  <2>. SUFFICES ASSUME NEW x \in Tasks
                PROVE  (PlaceState(x) /\ Exclusive(x) /\ Once(x) /\ StatePlace(x))'
    BY DEF PlacesOK
  <2>1. PlaceState(x) /\ Exclusive(x) /\ Once(x) /\ StatePlace(x)
    BY <1>0 DEF PlacesOK
  <2>2. PlaceState(x)'
    BY <1>0, <1>p, <1>b, <1>o, <2>1 DEF PlaceState, InEvent, InQueueOf, LeftSwitch, Has
  <2>3. Exclusive(x)'
    BY <1>0, <1>p, <1>b, <1>o, <2>1 DEF Exclusive, PlaceState, Once, InEvent, LeftSwitch
  <2>4. Once(x)'
    BY <1>0, <1>p, <1>b, <1>o, <2>1 DEF Once, Exclusive, LeftSwitch, InEvent
  <2>5. StatePlace(x)'
    BY <1>0, <1>p, <1>b, <1>o, <2>1 DEF StatePlace, InEvent, InQueueOf, LeftSwitch
  <2>. QED BY <2>2, <2>3, <2>4, <2>5
<1>5. RequestsOK'
  BY <1>0, <1>p, <1>b, <1>o DEF RequestsOK, LeftSwitch
<1>6. RepliesOK'
  BY <1>0, <1>p, <1>b, <1>o, SMTT(30) DEF RepliesOK, LeftSwitch, RequestsOK
<1>7. FamilyOK'
  <2>1. \A y \in Tasks : \A ch \in children[y] :
          parent[ch] = y /\ ~detached[ch] /\ ch \notin free /\ ~waited[ch]
    BY <1>0 DEF FamilyOK
  <2>2. ASSUME NEW y \in Tasks, NEW ch \in children[y]'
        PROVE  (parent[ch] = y /\ ~detached[ch] /\ ch \notin free /\ ~waited[ch])'
    BY <1>0, <1>p, <1>b, <1>o, <2>1, <2>2 DEF LeftSwitch
  <2>3. ASSUME NEW o \in Threads, NEW y \in Tasks, Pending(o, y, "WAIT")'
        PROVE  (parent[req[y].to] = y /\ ~detached[req[y].to] =>
                  req[y].to \notin free \cup children[y] /\ ~waited[req[y].to])'
    BY <1>0, <1>p, <1>b, <1>o, <2>1, <2>3 DEF FamilyOK, RequestsOK, LeftSwitch
  <2>4. ASSUME NEW ch \in Tasks, waited[ch]'
        PROVE  (/\ ch \notin free /\ ~detached[ch] /\ state[ch] # "ZOMBIE"
                /\ parent[ch] \in Tasks
                /\ InWait(parent[ch]) /\ req[parent[ch]].to = ch
                /\ parent[ch] \notin free /\ ~Busy(parent[ch]) /\ ~Nesting(parent[ch]))'
    BY <1>0, <1>p, <1>b, <1>o, <2>1, <2>4
      DEF FamilyOK, InWait, PlacesOK, PlaceState, LeftSwitch
  <2>. QED BY <2>2, <2>3, <2>4 DEF FamilyOK
<1>8. LeavingsOK'
  <2>. SUFFICES ASSUME NEW x \in Tasks
                PROVE  (ArgOK(x) /\ ExitOK(x))'
    BY DEF LeavingsOK
  <2>1. PlaceState(x) /\ Exclusive(x) /\ ArgOK(x) /\ ExitOK(x)
    BY <1>0 DEF PlacesOK, LeavingsOK
  <2>2. ArgOK(x)'
    BY <1>0, <1>p, <1>b, <1>o, <2>1 DEF ArgOK, PlaceState, LeftSwitch
  <2>3. ExitOK(x)'
    BY <1>0, <1>p, <1>b, <1>o, <2>1 DEF ExitOK, PlaceState, LeftSwitch
  <2>. QED BY <2>2, <2>3
<1>. HIDE DEF ServiceWait, Collectable, Free, Reactivate, bodyVars
<1>. QED BY <1>1, <1>2, <1>3, <1>4, <1>5, <1>6, <1>7, <1>8 DEF IInv

\* sched_wait for a living child: the child is marked as waited for.
LEMMA ServiceWaitMarksInv ==
  ASSUME IInv, NEW thr \in Threads, NEW t \in Tasks, ServiceWait(thr, t), parent[req[t].to] = t /\ ~detached[req[t].to], ~Collectable(req[t].to)
  PROVE  IInv'
<1>. USE DEF ServiceWait, Collectable, bodyVars
<1>0. /\ TypeOK /\ nfree = Cardinality(free) /\ FramesOK /\ PlacesOK
      /\ RequestsOK /\ RepliesOK /\ FamilyOK /\ LeavingsOK
  BY DEF IInv
<1>o. LeftSwitch(thr, t, "WAIT") /\ FramesOK'
  <2>1. Service(thr, t, "WAIT") /\ Served(thr)
    BY DEF ServiceWait
  <2>. HIDE DEF ServiceWait
  <2>. QED BY <2>1, ServedStep
<1>1. TypeOK'
  <2>1. req[t].to \in Tasks
    BY <1>0, <1>o DEF LeftSwitch, RequestsOK
  <2>2. /\ UNCHANGED <<state, pinned, detached, parent, earg, dtor, future, free,
                    nfree, ready, msgq, eventq, received,
                    children, req, cur, nest, mainOp, torun>>
        /\ pc' = [pc EXCEPT ![thr] = "serviced"] /\ lock' = thr
    BY DEF Service, Served
  <2>3. /\ waited' = [waited EXCEPT ![req[t].to] = TRUE]
    BY <1>0
  <2>. HIDE DEF ServiceWait
  <2>4. waited' \in [Tasks -> BOOLEAN]
    BY <1>0, <2>1, <2>3 DEF TypeOK, States
  <2>. QED BY <1>0, <2>2, <2>4 DEF TypeOK
<1>2. (nfree = Cardinality(free))'
  BY <1>0
<1>b. /\ req[t].to \in Tasks /\ dtor[t] # "set" /\ pinned[t]
      /\ req[t].to \notin free /\ ~waited[req[t].to]
      /\ \A y \in Tasks : req[t].to \notin children[y]
      /\ \A o \in Threads, y \in Tasks :
           Pending(o, y, "WAIT") /\ req[y].to = req[t].to => parent[req[t].to] # y \/ y = t
  <2>1. Pending(thr, t, "WAIT") /\ parent[req[t].to] = t /\ ~detached[req[t].to]
    BY <1>o DEF LeftSwitch
  <2>. HIDE DEF ServiceWait
  <2>0. ArgOK(t) /\ ExitOK(t)
    BY <1>0 DEF LeavingsOK
  <2>2. /\ req[t].to \in Tasks /\ dtor[t] # "set" /\ pinned[t]
        /\ req[t].to \notin free \cup children[t] /\ ~waited[req[t].to]
    <3>1. req[t].to \in Tasks
      BY <1>0, <2>1 DEF RequestsOK
    <3>2. dtor[t] # "set" /\ pinned[t]
      BY <1>o, <2>0, <2>1 DEF ExitOK, ArgOK, LeftSwitch
    <3>3. req[t].to \notin free \cup children[t] /\ ~waited[req[t].to]
      BY <1>0, <2>1 DEF FamilyOK
    <3>. QED BY <3>1, <3>2, <3>3
  <2>3. \A y \in Tasks : req[t].to \notin children[y]
    BY <1>0, <2>1, <2>2 DEF FamilyOK
  <2>. QED BY <2>1, <2>2, <2>3
<1>p. /\ state[req[t].to] # "ZOMBIE" /\ waited'[req[t].to] = TRUE
      /\ \A x \in Tasks : x # req[t].to => waited'[x] = waited[x]
      /\ UNCHANGED <<pinned, detached, parent, earg, dtor, future, msgq, eventq,
                     received, children, state, ready, free, nfree>>
  BY <1>0, <1>o, <1>b DEF LeftSwitch, ServiceWait, Collectable, bodyVars, TypeOK
<1>. HIDE DEF ServiceWait
<1>3. FramesOK'
  BY <1>o
<1>4. PlacesOK'
  <2>. SUFFICES ASSUME NEW x \in Tasks
                PROVE  (PlaceState(x) /\ Exclusive(x) /\ Once(x) /\ StatePlace(x))'
    BY DEF PlacesOK
  <2>1. PlaceState(x) /\ Exclusive(x) /\ Once(x) /\ StatePlace(x)
    BY <1>0 DEF PlacesOK
  <2>2. PlaceState(x)'
    BY <1>0, <1>p, <1>b, <1>o, <2>1 DEF PlaceState, InEvent, InQueueOf, LeftSwitch, Has
  <2>3. Exclusive(x)'
    BY <1>0, <1>p, <1>b, <1>o, <2>1 DEF Exclusive, PlaceState, Once, InEvent, LeftSwitch
  <2>4. Once(x)'
    BY <1>0, <1>p, <1>b, <1>o, <2>1 DEF Once, Exclusive, LeftSwitch, InEvent
  <2>5. StatePlace(x)'
    BY <1>0, <1>p, <1>b, <1>o, <2>1 DEF StatePlace, InEvent, InQueueOf, LeftSwitch
  <2>. QED BY <2>2, <2>3, <2>4, <2>5
<1>5. RequestsOK'
  BY <1>0, <1>p, <1>b, <1>o DEF RequestsOK, LeftSwitch
<1>6. RepliesOK'
  BY <1>0, <1>p, <1>b, <1>o, SMTT(30) DEF RepliesOK, LeftSwitch, RequestsOK
<1>7. FamilyOK'
  <2>1. \A y \in Tasks : \A ch \in children[y] :
          parent[ch] = y /\ ~detached[ch] /\ ch \notin free /\ ~waited[ch]
    BY <1>0 DEF FamilyOK
  <2>2. ASSUME NEW y \in Tasks, NEW ch \in children[y]'
        PROVE  (parent[ch] = y /\ ~detached[ch] /\ ch \notin free /\ ~waited[ch])'
    BY <1>0, <1>p, <1>b, <1>o, <2>1, <2>2 DEF LeftSwitch
  <2>3. ASSUME NEW o \in Threads, NEW y \in Tasks, Pending(o, y, "WAIT")'
        PROVE  (parent[req[y].to] = y /\ ~detached[req[y].to] =>
                  req[y].to \notin free \cup children[y] /\ ~waited[req[y].to])'
    BY <1>0, <1>p, <1>b, <1>o, <2>1, <2>3 DEF FamilyOK, RequestsOK, LeftSwitch
  <2>4. ASSUME NEW ch \in Tasks, waited[ch]'
        PROVE  (/\ ch \notin free /\ ~detached[ch] /\ state[ch] # "ZOMBIE"
                /\ parent[ch] \in Tasks
                /\ InWait(parent[ch]) /\ req[parent[ch]].to = ch
                /\ parent[ch] \notin free /\ ~Busy(parent[ch]) /\ ~Nesting(parent[ch]))'
    BY <1>0, <1>p, <1>b, <1>o, <2>1, <2>4
      DEF FamilyOK, InWait, PlacesOK, PlaceState, LeftSwitch
  <2>. QED BY <2>2, <2>3, <2>4 DEF FamilyOK
<1>8. LeavingsOK'
  <2>. SUFFICES ASSUME NEW x \in Tasks
                PROVE  (ArgOK(x) /\ ExitOK(x))'
    BY DEF LeavingsOK
  <2>1. PlaceState(x) /\ Exclusive(x) /\ ArgOK(x) /\ ExitOK(x)
    BY <1>0 DEF PlacesOK, LeavingsOK
  <2>2. ArgOK(x)'
    BY <1>0, <1>p, <1>b, <1>o, <2>1 DEF ArgOK, PlaceState, LeftSwitch
  <2>3. ExitOK(x)'
    BY <1>0, <1>p, <1>b, <1>o, <2>1 DEF ExitOK, PlaceState, LeftSwitch
  <2>. QED BY <2>2, <2>3
<1>. HIDE DEF ServiceWait, Collectable, bodyVars
<1>. QED BY <1>1, <1>2, <1>3, <1>4, <1>5, <1>6, <1>7, <1>8 DEF IInv

\* The exit of a detached task frees its slot.
LEMMA ServiceFreeDetachedInv ==
  ASSUME IInv, NEW thr \in Threads, NEW t \in Tasks, ServiceFree(thr, t), detached[t]
  PROVE  IInv'
<1>. USE DEF ServiceFree, bodyVars, Free
<1>0. /\ TypeOK /\ nfree = Cardinality(free) /\ FramesOK /\ PlacesOK
      /\ RequestsOK /\ RepliesOK /\ FamilyOK /\ LeavingsOK
  BY DEF IInv
<1>o. LeftSwitch(thr, t, "FREE") /\ FramesOK'
  <2>1. Service(thr, t, "FREE") /\ Served(thr)
    BY DEF ServiceFree
  <2>. HIDE DEF ServiceFree
  <2>. QED BY <2>1, ServedStep
<1>1. TypeOK'
  <2>1. TRUE
    OBVIOUS
  <2>2. /\ UNCHANGED <<state, pinned, detached, parent, earg, dtor, future, ready,
                    msgq, eventq, waited, received, children,
                    req, cur, nest, mainOp, torun>>
        /\ pc' = [pc EXCEPT ![thr] = "serviced"] /\ lock' = thr
    BY DEF Service, Served
  <2>3. /\ free' = free \cup {t}
        /\ nfree' = nfree + 1
    BY <1>0
  <2>. HIDE DEF ServiceFree
  <2>4. free' \in SUBSET Tasks
    BY <1>0, <2>1, <2>3 DEF TypeOK, States
  <2>5. nfree' \in Nat
    BY <1>0, <2>1, <2>3 DEF TypeOK, States
  <2>. QED BY <1>0, <2>2, <2>4, <2>5 DEF TypeOK
<1>2. (nfree = Cardinality(free))'
  BY <1>0, <1>o, FreeCount DEF LeftSwitch
<1>b. /\ dtor[t] # "set" /\ earg[t] = "none" /\ \A u \in Tasks : t \notin received[u]
      /\ \A d \in Tasks : waited[d] => parent[d] # t
      /\ \A o \in Threads, u \in Tasks : Pending(o, u, "REPLY") => req[u].to # t
      /\ ~waited[t] /\ \A y \in Tasks : t \notin children[y]
  <2>. HIDE DEF ServiceFree
  <2>1. Pending(thr, t, "FREE") /\ state[t] = "ACTIVE" /\ Busy(t)
    BY <1>o DEF LeftSwitch
  <2>2. dtor[t] # "set" /\ earg[t] = "none"
    BY <1>0, <2>1 DEF LeavingsOK, ExitOK
  <2>3. /\ \A u \in Tasks : t \notin received[u]
        /\ \A d \in Tasks : waited[d] => parent[d] # t
        /\ \A o \in Threads, u \in Tasks : Pending(o, u, "REPLY") => req[u].to # t
    BY <1>0, <2>1 DEF RepliesOK, FamilyOK
  <2>4. ~waited[t] /\ \A y \in Tasks : t \notin children[y]
    BY <1>0 DEF FamilyOK
  <2>. QED BY <2>2, <2>3, <2>4
<1>p. /\ free' = free \cup {t}
      /\ UNCHANGED <<pinned, detached, parent, earg, dtor, future, msgq, eventq,
                     received, children, state, ready, waited>>
  BY <1>0, <1>o, <1>b DEF LeftSwitch, ServiceFree, bodyVars, Free, TypeOK
<1>. HIDE DEF ServiceFree
<1>3. FramesOK'
  BY <1>o
<1>4. PlacesOK'
  <2>. SUFFICES ASSUME NEW x \in Tasks
                PROVE  (PlaceState(x) /\ Exclusive(x) /\ Once(x) /\ StatePlace(x))'
    BY DEF PlacesOK
  <2>1. PlaceState(x) /\ Exclusive(x) /\ Once(x) /\ StatePlace(x)
    BY <1>0 DEF PlacesOK
  <2>2. PlaceState(x)'
    BY <1>0, <1>p, <1>b, <1>o, <2>1 DEF PlaceState, InEvent, InQueueOf, LeftSwitch, Has
  <2>3. Exclusive(x)'
    BY <1>0, <1>p, <1>b, <1>o, <2>1 DEF Exclusive, PlaceState, Once, InEvent, LeftSwitch
  <2>4. Once(x)'
    BY <1>0, <1>p, <1>b, <1>o, <2>1 DEF Once, Exclusive, LeftSwitch, InEvent
  <2>5. StatePlace(x)'
    BY <1>0, <1>p, <1>b, <1>o, <2>1 DEF StatePlace, InEvent, InQueueOf, LeftSwitch
  <2>. QED BY <2>2, <2>3, <2>4, <2>5
<1>5. RequestsOK'
  BY <1>0, <1>p, <1>b, <1>o DEF RequestsOK, LeftSwitch
<1>6. RepliesOK'
  BY <1>0, <1>p, <1>b, <1>o, SMTT(30) DEF RepliesOK, LeftSwitch, RequestsOK
<1>7. FamilyOK'
  <2>1. \A y \in Tasks : \A ch \in children[y] :
          parent[ch] = y /\ ~detached[ch] /\ ch \notin free /\ ~waited[ch]
    BY <1>0 DEF FamilyOK
  <2>2. ASSUME NEW y \in Tasks, NEW ch \in children[y]'
        PROVE  (parent[ch] = y /\ ~detached[ch] /\ ch \notin free /\ ~waited[ch])'
    BY <1>0, <1>p, <1>b, <1>o, <2>1, <2>2 DEF LeftSwitch
  <2>3. ASSUME NEW o \in Threads, NEW y \in Tasks, Pending(o, y, "WAIT")'
        PROVE  (parent[req[y].to] = y /\ ~detached[req[y].to] =>
                  req[y].to \notin free \cup children[y] /\ ~waited[req[y].to])'
    BY <1>0, <1>p, <1>b, <1>o, <2>1, <2>3 DEF FamilyOK, RequestsOK, LeftSwitch
  <2>4. ASSUME NEW ch \in Tasks, waited[ch]'
        PROVE  (/\ ch \notin free /\ ~detached[ch] /\ state[ch] # "ZOMBIE"
                /\ parent[ch] \in Tasks
                /\ InWait(parent[ch]) /\ req[parent[ch]].to = ch
                /\ parent[ch] \notin free /\ ~Busy(parent[ch]) /\ ~Nesting(parent[ch]))'
    BY <1>0, <1>p, <1>b, <1>o, <2>1, <2>4
      DEF FamilyOK, InWait, PlacesOK, PlaceState, LeftSwitch
  <2>. QED BY <2>2, <2>3, <2>4 DEF FamilyOK
<1>8. LeavingsOK'
  <2>. SUFFICES ASSUME NEW x \in Tasks
                PROVE  (ArgOK(x) /\ ExitOK(x))'
    BY DEF LeavingsOK
  <2>1. PlaceState(x) /\ Exclusive(x) /\ ArgOK(x) /\ ExitOK(x)
    BY <1>0 DEF PlacesOK, LeavingsOK
  <2>2. ArgOK(x)'
    BY <1>0, <1>p, <1>b, <1>o, <2>1 DEF ArgOK, PlaceState, LeftSwitch
  <2>3. ExitOK(x)'
    BY <1>0, <1>p, <1>b, <1>o, <2>1 DEF ExitOK, PlaceState, LeftSwitch
  <2>. QED BY <2>2, <2>3
<1>. HIDE DEF ServiceFree, bodyVars, Free
<1>. QED BY <1>1, <1>2, <1>3, <1>4, <1>5, <1>6, <1>7, <1>8 DEF IInv

\* The exit of a child that is waited for frees its slot and wakes its parent.
LEMMA ServiceFreeWakesInv ==
  ASSUME IInv, NEW thr \in Threads, NEW t \in Tasks, ServiceFree(thr, t), ~detached[t], waited[t]
  PROVE  IInv'
<1>. USE DEF ServiceFree, bodyVars, Free, ParentWaits, Reactivate
<1>0. /\ TypeOK /\ nfree = Cardinality(free) /\ FramesOK /\ PlacesOK
      /\ RequestsOK /\ RepliesOK /\ FamilyOK /\ LeavingsOK
  BY DEF IInv
<1>o. LeftSwitch(thr, t, "FREE") /\ FramesOK'
  <2>1. Service(thr, t, "FREE") /\ Served(thr)
    BY DEF ServiceFree
  <2>. HIDE DEF ServiceFree
  <2>. QED BY <2>1, ServedStep
<1>1. TypeOK'
  <2>1. TRUE
    OBVIOUS
  <2>2. /\ UNCHANGED <<pinned, detached, parent, earg, dtor, future, msgq, eventq,
                    received, children, req, cur, nest,
                    mainOp, torun>>
        /\ pc' = [pc EXCEPT ![thr] = "serviced"] /\ lock' = thr
    BY DEF Service, Served
  <2>3. /\ state' = [x \in Tasks |-> IF x \in {parent[t]} THEN "READY" ELSE state[x]]
        /\ ready' = [x \in Tasks |-> IF x \in {parent[t]} THEN ready[x] + 1 ELSE ready[x]]
        /\ waited' = [waited EXCEPT ![t] = FALSE]
        /\ free' = free \cup {t}
        /\ nfree' = nfree + 1
    BY <1>0
  <2>. HIDE DEF ServiceFree
  <2>4. state' \in [Tasks -> States]
    BY <1>0, <2>1, <2>3 DEF TypeOK, States
  <2>5. ready' \in [Tasks -> Nat]
    BY <1>0, <2>1, <2>3 DEF TypeOK, States
  <2>6. waited' \in [Tasks -> BOOLEAN]
    BY <1>0, <2>1, <2>3 DEF TypeOK, States
  <2>7. free' \in SUBSET Tasks
    BY <1>0, <2>1, <2>3 DEF TypeOK, States
  <2>8. nfree' \in Nat
    BY <1>0, <2>1, <2>3 DEF TypeOK, States
  <2>. QED BY <1>0, <2>2, <2>4, <2>5, <2>6, <2>7, <2>8 DEF TypeOK
<1>2. (nfree = Cardinality(free))'
  BY <1>0, <1>o, FreeCount DEF LeftSwitch
<1>b. /\ dtor[t] # "set" /\ earg[t] = "none" /\ \A u \in Tasks : t \notin received[u]
      /\ \A d \in Tasks : waited[d] => parent[d] # t
      /\ \A o \in Threads, u \in Tasks : Pending(o, u, "REPLY") => req[u].to # t
      /\ \A y \in Tasks : t \notin children[y]
      /\ \A o \in Threads, y \in Tasks :
           Pending(o, y, "WAIT") /\ req[y].to = t => parent[t] # y \/ detached[t]
      /\ parent[t] \in Tasks /\ parent[t] # t /\ parent[t] \notin free
      /\ state[parent[t]] = "ACTIVE" /\ ready[parent[t]] = 0
      /\ ~Busy(parent[t]) /\ ~Nesting(parent[t]) /\ dtor[parent[t]] # "set"
      /\ ~Claimed(parent[t]) /\ ~InEvent(parent[t]) /\ parent[t] \notin torun
      /\ \A r \in Tasks : ~InQueueOf(parent[t], r) /\ parent[t] \notin received[r]
      /\ \A d \in Tasks : waited[d] /\ parent[d] = parent[t] => d = t
      /\ \A o \in Threads : \A k : ~Pending(o, parent[t], k) /\ ~Has(o, parent[t])
      /\ \A o \in Threads, u \in Tasks : Pending(o, u, "REPLY") => req[u].to # parent[t]
  <2>. HIDE DEF ServiceFree
  <2>1. Pending(thr, t, "FREE") /\ state[t] = "ACTIVE" /\ Busy(t)
    BY <1>o DEF LeftSwitch
  <2>2. dtor[t] # "set" /\ earg[t] = "none"
    BY <1>0, <2>1 DEF LeavingsOK, ExitOK
  <2>3. /\ \A u \in Tasks : t \notin received[u]
        /\ \A d \in Tasks : waited[d] => parent[d] # t
        /\ \A o \in Threads, u \in Tasks : Pending(o, u, "REPLY") => req[u].to # t
    BY <1>0, <2>1 DEF RepliesOK, FamilyOK
  <2>4. /\ \A y \in Tasks : t \notin children[y]
        /\ \A o \in Threads, y \in Tasks :
             Pending(o, y, "WAIT") /\ req[y].to = t => parent[t] # y \/ detached[t]
        /\ parent[t] \in Tasks /\ parent[t] # t /\ parent[t] \notin free
        /\ state[parent[t]] = "ACTIVE" /\ ~Busy(parent[t]) /\ ~Nesting(parent[t])
        /\ \A d \in Tasks : waited[d] /\ parent[d] = parent[t] => d = t
    BY <1>0, <2>1 DEF FamilyOK, InWait
  <2>5. /\ \A o \in Threads : \A k : ~Pending(o, parent[t], k) /\ ~Has(o, parent[t])
    BY <2>4 DEF Busy, Pending, Has
  <2>6. PlaceState(parent[t]) /\ Exclusive(parent[t]) /\ ExitOK(parent[t])
    BY <1>0, <2>4 DEF PlacesOK, LeavingsOK
  <2>7. /\ ready[parent[t]] = 0 /\ dtor[parent[t]] # "set"
        /\ ~Claimed(parent[t]) /\ ~InEvent(parent[t]) /\ parent[t] \notin torun
        /\ \A r \in Tasks : ~InQueueOf(parent[t], r)
    BY <1>0, <2>4, <2>6 DEF PlaceState, ExitOK, TypeOK
  <2>8. /\ \A r \in Tasks : parent[t] \notin received[r]
        /\ \A o \in Threads, u \in Tasks : Pending(o, u, "REPLY") => req[u].to # parent[t]
    BY <1>0, <2>4 DEF RepliesOK
  <2>. QED BY <2>2, <2>3, <2>4, <2>5, <2>7, <2>8
<1>p. /\ free' = free \cup {t} /\ waited'[t] = FALSE
      /\ \A x \in Tasks : x # t => waited'[x] = waited[x]
      /\ state'[parent[t]] = "READY" /\ ready'[parent[t]] = 1
      /\ \A x \in Tasks : x # parent[t] => state'[x] = state[x] /\ ready'[x] = ready[x]
      /\ UNCHANGED <<pinned, detached, parent, earg, dtor, future, msgq, eventq,
                     received, children>>
  BY <1>0, <1>o, <1>b
    DEF LeftSwitch, ServiceFree, bodyVars, Free, ParentWaits, Reactivate, TypeOK
<1>. HIDE DEF ServiceFree
<1>3. FramesOK'
  BY <1>o
<1>4. PlacesOK'
  <2>. SUFFICES ASSUME NEW x \in Tasks
                PROVE  (PlaceState(x) /\ Exclusive(x) /\ Once(x) /\ StatePlace(x))'
    BY DEF PlacesOK
  <2>1. PlaceState(x) /\ Exclusive(x) /\ Once(x) /\ StatePlace(x)
    BY <1>0 DEF PlacesOK
  <2>2. PlaceState(x)'
    BY <1>0, <1>p, <1>b, <1>o, <2>1 DEF PlaceState, InEvent, InQueueOf, LeftSwitch, Has
  <2>3. Exclusive(x)'
    BY <1>0, <1>p, <1>b, <1>o, <2>1 DEF Exclusive, PlaceState, Once, InEvent, LeftSwitch
  <2>4. Once(x)'
    BY <1>0, <1>p, <1>b, <1>o, <2>1 DEF Once, Exclusive, LeftSwitch, InEvent
  <2>5. StatePlace(x)'
    BY <1>0, <1>p, <1>b, <1>o, <2>1 DEF StatePlace, InEvent, InQueueOf, LeftSwitch
  <2>. QED BY <2>2, <2>3, <2>4, <2>5
<1>5. RequestsOK'
  BY <1>0, <1>p, <1>b, <1>o DEF RequestsOK, LeftSwitch
<1>6. RepliesOK'
  BY <1>0, <1>p, <1>b, <1>o, SMTT(30) DEF RepliesOK, LeftSwitch, RequestsOK
<1>7. FamilyOK'
  <2>1. \A y \in Tasks : \A ch \in children[y] :
          parent[ch] = y /\ ~detached[ch] /\ ch \notin free /\ ~waited[ch]
    BY <1>0 DEF FamilyOK
  <2>2. ASSUME NEW y \in Tasks, NEW ch \in children[y]'
        PROVE  (parent[ch] = y /\ ~detached[ch] /\ ch \notin free /\ ~waited[ch])'
    BY <1>0, <1>p, <1>b, <1>o, <2>1, <2>2 DEF LeftSwitch
  <2>3. ASSUME NEW o \in Threads, NEW y \in Tasks, Pending(o, y, "WAIT")'
        PROVE  (parent[req[y].to] = y /\ ~detached[req[y].to] =>
                  req[y].to \notin free \cup children[y] /\ ~waited[req[y].to])'
    BY <1>0, <1>p, <1>b, <1>o, <2>1, <2>3 DEF FamilyOK, RequestsOK, LeftSwitch
  <2>4. ASSUME NEW ch \in Tasks, waited[ch]'
        PROVE  (/\ ch \notin free /\ ~detached[ch] /\ state[ch] # "ZOMBIE"
                /\ parent[ch] \in Tasks
                /\ InWait(parent[ch]) /\ req[parent[ch]].to = ch
                /\ parent[ch] \notin free /\ ~Busy(parent[ch]) /\ ~Nesting(parent[ch]))'
    BY <1>0, <1>p, <1>b, <1>o, <2>1, <2>4
      DEF FamilyOK, InWait, PlacesOK, PlaceState, LeftSwitch
  <2>. QED BY <2>2, <2>3, <2>4 DEF FamilyOK
<1>8. LeavingsOK'
  <2>. SUFFICES ASSUME NEW x \in Tasks
                PROVE  (ArgOK(x) /\ ExitOK(x))'
    BY DEF LeavingsOK
  <2>1. PlaceState(x) /\ Exclusive(x) /\ ArgOK(x) /\ ExitOK(x)
    BY <1>0 DEF PlacesOK, LeavingsOK
  <2>2. ArgOK(x)'
    BY <1>0, <1>p, <1>b, <1>o, <2>1 DEF ArgOK, PlaceState, LeftSwitch
  <2>3. ExitOK(x)'
    BY <1>0, <1>p, <1>b, <1>o, <2>1 DEF ExitOK, PlaceState, LeftSwitch
  <2>. QED BY <2>2, <2>3
<1>. HIDE DEF ServiceFree, bodyVars, Free, ParentWaits, Reactivate
<1>. QED BY <1>1, <1>2, <1>3, <1>4, <1>5, <1>6, <1>7, <1>8 DEF IInv

\* The exit of a child that is not waited for leaves a zombie.
LEMMA ServiceFreeZombieInv ==
  ASSUME IInv, NEW thr \in Threads, NEW t \in Tasks, ServiceFree(thr, t), ~detached[t], ~waited[t]
  PROVE  IInv'
<1>. USE DEF ServiceFree, bodyVars, ParentWaits
<1>0. /\ TypeOK /\ nfree = Cardinality(free) /\ FramesOK /\ PlacesOK
      /\ RequestsOK /\ RepliesOK /\ FamilyOK /\ LeavingsOK
  BY DEF IInv
<1>o. LeftSwitch(thr, t, "FREE") /\ FramesOK'
  <2>1. Service(thr, t, "FREE") /\ Served(thr)
    BY DEF ServiceFree
  <2>. HIDE DEF ServiceFree
  <2>. QED BY <2>1, ServedStep
<1>1. TypeOK'
  <2>1. TRUE
    OBVIOUS
  <2>2. /\ UNCHANGED <<pinned, detached, parent, earg, dtor, future, free, nfree,
                    ready, msgq, eventq, waited, received,
                    children, req, cur, nest, mainOp, torun>>
        /\ pc' = [pc EXCEPT ![thr] = "serviced"] /\ lock' = thr
    BY DEF Service, Served
  <2>3. /\ state' = [state EXCEPT ![t] = "ZOMBIE"]
    BY <1>0
  <2>. HIDE DEF ServiceFree
  <2>4. state' \in [Tasks -> States]
    BY <1>0, <2>1, <2>3 DEF TypeOK, States
  <2>. QED BY <1>0, <2>2, <2>4 DEF TypeOK
<1>2. (nfree = Cardinality(free))'
  BY <1>0
<1>b. /\ dtor[t] # "set" /\ earg[t] = "none" /\ \A u \in Tasks : t \notin received[u]
      /\ \A d \in Tasks : waited[d] => parent[d] # t
      /\ \A o \in Threads, u \in Tasks : Pending(o, u, "REPLY") => req[u].to # t
  <2>. HIDE DEF ServiceFree
  <2>1. Pending(thr, t, "FREE") /\ state[t] = "ACTIVE" /\ Busy(t)
    BY <1>o DEF LeftSwitch
  <2>2. dtor[t] # "set" /\ earg[t] = "none"
    BY <1>0, <2>1 DEF LeavingsOK, ExitOK
  <2>3. /\ \A u \in Tasks : t \notin received[u]
        /\ \A d \in Tasks : waited[d] => parent[d] # t
        /\ \A o \in Threads, u \in Tasks : Pending(o, u, "REPLY") => req[u].to # t
    BY <1>0, <2>1 DEF RepliesOK, FamilyOK
  <2>. QED BY <2>2, <2>3
<1>p. /\ state'[t] = "ZOMBIE"
      /\ \A x \in Tasks : x # t => state'[x] = state[x]
      /\ UNCHANGED <<pinned, detached, parent, earg, dtor, future, msgq, eventq,
                     received, children, ready, free, nfree, waited>>
  BY <1>0, <1>o, <1>b DEF LeftSwitch, ServiceFree, bodyVars, ParentWaits, TypeOK
<1>. HIDE DEF ServiceFree
<1>3. FramesOK'
  BY <1>o
<1>4. PlacesOK'
  <2>. SUFFICES ASSUME NEW x \in Tasks
                PROVE  (PlaceState(x) /\ Exclusive(x) /\ Once(x) /\ StatePlace(x))'
    BY DEF PlacesOK
  <2>1. PlaceState(x) /\ Exclusive(x) /\ Once(x) /\ StatePlace(x)
    BY <1>0 DEF PlacesOK
  <2>2. PlaceState(x)'
    BY <1>0, <1>p, <1>b, <1>o, <2>1 DEF PlaceState, InEvent, InQueueOf, LeftSwitch, Has
  <2>3. Exclusive(x)'
    BY <1>0, <1>p, <1>b, <1>o, <2>1 DEF Exclusive, PlaceState, Once, InEvent, LeftSwitch
  <2>4. Once(x)'
    BY <1>0, <1>p, <1>b, <1>o, <2>1 DEF Once, Exclusive, LeftSwitch, InEvent
  <2>5. StatePlace(x)'
    BY <1>0, <1>p, <1>b, <1>o, <2>1 DEF StatePlace, InEvent, InQueueOf, LeftSwitch
  <2>. QED BY <2>2, <2>3, <2>4, <2>5
<1>5. RequestsOK'
  BY <1>0, <1>p, <1>b, <1>o DEF RequestsOK, LeftSwitch
<1>6. RepliesOK'
  BY <1>0, <1>p, <1>b, <1>o, SMTT(30) DEF RepliesOK, LeftSwitch, RequestsOK
<1>7. FamilyOK'
  <2>1. \A y \in Tasks : \A ch \in children[y] :
          parent[ch] = y /\ ~detached[ch] /\ ch \notin free /\ ~waited[ch]
    BY <1>0 DEF FamilyOK
  <2>2. ASSUME NEW y \in Tasks, NEW ch \in children[y]'
        PROVE  (parent[ch] = y /\ ~detached[ch] /\ ch \notin free /\ ~waited[ch])'
    BY <1>0, <1>p, <1>b, <1>o, <2>1, <2>2 DEF LeftSwitch
  <2>3. ASSUME NEW o \in Threads, NEW y \in Tasks, Pending(o, y, "WAIT")'
        PROVE  (parent[req[y].to] = y /\ ~detached[req[y].to] =>
                  req[y].to \notin free \cup children[y] /\ ~waited[req[y].to])'
    BY <1>0, <1>p, <1>b, <1>o, <2>1, <2>3 DEF FamilyOK, RequestsOK, LeftSwitch
  <2>4. ASSUME NEW ch \in Tasks, waited[ch]'
        PROVE  (/\ ch \notin free /\ ~detached[ch] /\ state[ch] # "ZOMBIE"
                /\ parent[ch] \in Tasks
                /\ InWait(parent[ch]) /\ req[parent[ch]].to = ch
                /\ parent[ch] \notin free /\ ~Busy(parent[ch]) /\ ~Nesting(parent[ch]))'
    BY <1>0, <1>p, <1>b, <1>o, <2>1, <2>4
      DEF FamilyOK, InWait, PlacesOK, PlaceState, LeftSwitch
  <2>. QED BY <2>2, <2>3, <2>4 DEF FamilyOK
<1>8. LeavingsOK'
  <2>. SUFFICES ASSUME NEW x \in Tasks
                PROVE  (ArgOK(x) /\ ExitOK(x))'
    BY DEF LeavingsOK
  <2>1. PlaceState(x) /\ Exclusive(x) /\ ArgOK(x) /\ ExitOK(x)
    BY <1>0 DEF PlacesOK, LeavingsOK
  <2>2. ArgOK(x)'
    BY <1>0, <1>p, <1>b, <1>o, <2>1 DEF ArgOK, PlaceState, LeftSwitch
  <2>3. ExitOK(x)'
    BY <1>0, <1>p, <1>b, <1>o, <2>1 DEF ExitOK, PlaceState, LeftSwitch
  <2>. QED BY <2>2, <2>3
<1>. HIDE DEF ServiceFree, bodyVars, ParentWaits
<1>. QED BY <1>1, <1>2, <1>3, <1>4, <1>5, <1>6, <1>7, <1>8 DEF IInv

\* The servicing thread releases the event argument of the task.
LEMMA PostReleaseInv ==
  ASSUME IInv, NEW thr \in Threads, PostRelease(thr)
  PROVE  IInv'
<1>. USE DEF PostRelease, schedVars, bodyVars
<1>0. /\ TypeOK /\ nfree = Cardinality(free) /\ FramesOK /\ PlacesOK
      /\ RequestsOK /\ RepliesOK /\ FamilyOK /\ LeavingsOK
  BY DEF IInv
<1>o. /\ \A o \in Threads, x \in Tasks :
           /\ Has(o, x)' <=> Has(o, x)
           /\ Finishing(o, x)' <=> Finishing(o, x)
           /\ \A k : Pending(o, x, k)' <=> Pending(o, x, k)
      /\ \A x \in Tasks :
           /\ Busy(x)' <=> Busy(x)
           /\ Claimed(x)' <=> Claimed(x)
           /\ Nesting(x)' <=> Nesting(x)
      /\ cur[thr] \in Tasks /\ Finishing(thr, cur[thr]) /\ pinned[cur[thr]] /\ thr = Main
      /\ cur[thr] \notin free
      /\ \A o \in Threads : Finishing(o, cur[thr]) => o = thr
  <2>1. cur[thr] \in Tasks /\ Finishing(thr, cur[thr])
    BY <1>0 DEF FramesOK, Finishing, TypeOK
  <2>2. cur[thr] \notin free /\ pinned[cur[thr]] /\ thr = Main
    BY <1>0, <2>1 DEF LeavingsOK, ArgOK, ExitOK
  <2>3. /\ \A o \in Threads, x \in Tasks :
             /\ Has(o, x)' <=> Has(o, x)
             /\ Finishing(o, x)' <=> Finishing(o, x)
             /\ \A k : Pending(o, x, k)' <=> Pending(o, x, k)
    BY <1>0 DEF Has, Finishing, Pending, TypeOK
  <2>4. /\ \A x \in Tasks : /\ Busy(x)' <=> Busy(x)
                            /\ Nesting(x)' <=> Nesting(x)
    BY <2>3 DEF Busy, Nesting
  <2>5. \A x \in Tasks : Claimed(x)' <=> Claimed(x)
    BY <1>0 DEF Claimed, TypeOK
  <2>6. \A o \in Threads : Finishing(o, cur[thr]) => o = thr
    BY <1>0, <2>1 DEF FramesOK, Finishing
  <2>. HIDE DEF PostRelease
  <2>. QED BY <2>1, <2>2, <2>3, <2>4, <2>5, <2>6
<1>1. TypeOK'
  BY <1>0, ZenonT(40) DEF TypeOK
<1>2. (nfree = Cardinality(free))'
  BY <1>0
<1>3. FramesOK'
  BY <1>0 DEF FramesOK, TypeOK
<1>4. PlacesOK'
  <2>. SUFFICES ASSUME NEW x \in Tasks
                PROVE  (PlaceState(x) /\ Exclusive(x) /\ Once(x) /\ StatePlace(x))'
    BY DEF PlacesOK
  <2>1. PlaceState(x) /\ Exclusive(x) /\ Once(x) /\ StatePlace(x)
    BY <1>0 DEF PlacesOK
  <2>2. PlaceState(x)'
    BY <1>0, <1>o, <2>1 DEF TypeOK, PlaceState, InEvent, InQueueOf
  <2>3. Exclusive(x)'
    BY <1>0, <1>o, <2>1 DEF TypeOK, Exclusive, PlaceState, Once, InEvent
  <2>4. Once(x)'
    BY <1>0, <1>o, <2>1 DEF TypeOK, Once, Exclusive, Busy
  <2>5. StatePlace(x)'
    BY <1>0, <1>o, <2>1 DEF TypeOK, StatePlace, InEvent, InQueueOf
  <2>. QED BY <2>2, <2>3, <2>4, <2>5
<1>5. RequestsOK'
  BY <1>0, <1>o DEF TypeOK, RequestsOK
<1>6. RepliesOK'
  BY <1>0, <1>o, SMTT(30) DEF TypeOK, RepliesOK
<1>7. FamilyOK'
  <2>1. \A y \in Tasks : \A ch \in children[y] :
          parent[ch] = y /\ ~detached[ch] /\ ch \notin free /\ ~waited[ch]
    BY <1>0 DEF FamilyOK
  <2>2. ASSUME NEW y \in Tasks, NEW ch \in children[y]'
        PROVE  (parent[ch] = y /\ ~detached[ch] /\ ch \notin free /\ ~waited[ch])'
    BY <1>0, <1>o, <2>1, <2>2 DEF TypeOK
  <2>3. ASSUME NEW o \in Threads, NEW y \in Tasks, Pending(o, y, "WAIT")'
        PROVE  (parent[req[y].to] = y /\ ~detached[req[y].to] =>
                  req[y].to \notin free \cup children[y] /\ ~waited[req[y].to])'
    BY <1>0, <1>o, <2>1, <2>3 DEF TypeOK, FamilyOK, RequestsOK
  <2>4. ASSUME NEW ch \in Tasks, waited[ch]'
        PROVE  (/\ ch \notin free /\ ~detached[ch] /\ state[ch] # "ZOMBIE"
                /\ parent[ch] \in Tasks
                /\ InWait(parent[ch]) /\ req[parent[ch]].to = ch
                /\ parent[ch] \notin free /\ ~Busy(parent[ch]) /\ ~Nesting(parent[ch]))'
    BY <1>0, <1>o, <2>1, <2>4 DEF TypeOK, FamilyOK, InWait, PlacesOK, PlaceState
  <2>. QED BY <2>2, <2>3, <2>4 DEF FamilyOK
<1>8. LeavingsOK'
  <2>. SUFFICES ASSUME NEW x \in Tasks
                PROVE  (ArgOK(x) /\ ExitOK(x))'
    BY DEF LeavingsOK
  <2>1. PlaceState(x) /\ Exclusive(x) /\ ArgOK(x) /\ ExitOK(x)
    BY <1>0 DEF PlacesOK, LeavingsOK
  <2>2. ArgOK(x)'
    BY <1>0, <1>o, <2>1 DEF TypeOK, ArgOK, PlaceState
  <2>3. ExitOK(x)'
    BY <1>0, <1>o, <2>1 DEF TypeOK, ExitOK, PlaceState
  <2>. QED BY <2>2, <2>3
<1>. HIDE DEF PostRelease, schedVars, bodyVars
<1>. QED BY <1>1, <1>2, <1>3, <1>4, <1>5, <1>6, <1>7, <1>8 DEF IInv

\* The servicing thread clears the argument, unlocks and is idle again.
LEMMA PostDoneInv ==
  ASSUME IInv, NEW thr \in Threads, PostDone(thr)
  PROVE  IInv'
<1>. USE DEF PostDone, PostReady, Nested, ArgCleared, bodyVars
<1>0. /\ TypeOK /\ nfree = Cardinality(free) /\ FramesOK /\ PlacesOK
      /\ RequestsOK /\ RepliesOK /\ FamilyOK /\ LeavingsOK
  BY DEF IInv
<1>o. /\ \A o \in Threads, x \in Tasks :
           /\ Has(o, x)' <=> Has(o, x)
           /\ Finishing(o, x)' <=> Finishing(o, x) /\ o # thr
           /\ \A k : Pending(o, x, k)' <=> Pending(o, x, k)
      /\ \A x \in Tasks :
           /\ Busy(x)' <=> Busy(x)
           /\ Claimed(x)' <=> Claimed(x)
           /\ Nesting(x)' <=> Nesting(x)
      /\ cur[thr] \in Tasks /\ Finishing(thr, cur[thr])
      /\ \A o \in Threads, x \in Tasks : Finishing(o, x) => o = thr /\ x = cur[thr]
  <2>1. cur[thr] \in Tasks /\ Finishing(thr, cur[thr])
    BY <1>0 DEF FramesOK, Finishing, TypeOK
  <2>3. /\ \A o \in Threads, x \in Tasks :
             /\ Has(o, x)' <=> Has(o, x)
             /\ Finishing(o, x)' <=> Finishing(o, x) /\ o # thr
             /\ \A k : Pending(o, x, k)' <=> Pending(o, x, k)
    BY <1>0 DEF Has, Finishing, Pending, TypeOK
  <2>4. /\ \A x \in Tasks : /\ Busy(x)' <=> Busy(x)
                            /\ Nesting(x)' <=> Nesting(x)
    BY <2>3 DEF Busy, Nesting
  <2>5. \A x \in Tasks : Claimed(x)' <=> Claimed(x)
    BY <1>0 DEF Claimed, TypeOK
  <2>6. \A o \in Threads, x \in Tasks : Finishing(o, x) => o = thr /\ x = cur[thr]
    BY <1>0, <2>1 DEF FramesOK, Finishing
  <2>. HIDE DEF PostDone
  <2>. QED BY <2>1, <2>3, <2>4, <2>5, <2>6
<1>1. TypeOK'
  BY <1>0, ZenonT(40) DEF TypeOK
<1>2. (nfree = Cardinality(free))'
  BY <1>0
<1>3. FramesOK'
  <2>1. lock = thr /\ cur[thr] \in Tasks
    BY <1>0 DEF FramesOK, TypeOK
  <2>2. CASE Unlocks(thr)
    BY <1>0, <2>1, <2>2 DEF FramesOK, TypeOK, Unlocks
  <2>3. CASE ~Unlocks(thr)
    BY <1>0, <2>1, <2>3 DEF FramesOK, TypeOK, Unlocks
  <2>. QED BY <2>2, <2>3
<1>4. PlacesOK'
  <2>. SUFFICES ASSUME NEW x \in Tasks
                PROVE  (PlaceState(x) /\ Exclusive(x) /\ Once(x) /\ StatePlace(x))'
    BY DEF PlacesOK
  <2>1. PlaceState(x) /\ Exclusive(x) /\ Once(x) /\ StatePlace(x)
    BY <1>0 DEF PlacesOK
  <2>2. PlaceState(x)'
    BY <1>0, <1>o, <2>1 DEF TypeOK, PlaceState, InEvent, InQueueOf
  <2>3. Exclusive(x)'
    BY <1>0, <1>o, <2>1 DEF TypeOK, Exclusive, PlaceState, Once, InEvent
  <2>4. Once(x)'
    BY <1>0, <1>o, <2>1 DEF TypeOK, Once, Exclusive, Busy
  <2>5. StatePlace(x)'
    BY <1>0, <1>o, <2>1 DEF TypeOK, StatePlace, InEvent, InQueueOf
  <2>. QED BY <2>2, <2>3, <2>4, <2>5
<1>5. RequestsOK'
  BY <1>0, <1>o DEF TypeOK, RequestsOK
<1>6. RepliesOK'
  BY <1>0, <1>o, SMTT(30) DEF TypeOK, RepliesOK
<1>7. FamilyOK'
  <2>1. \A y \in Tasks : \A ch \in children[y] :
          parent[ch] = y /\ ~detached[ch] /\ ch \notin free /\ ~waited[ch]
    BY <1>0 DEF FamilyOK
  <2>2. ASSUME NEW y \in Tasks, NEW ch \in children[y]'
        PROVE  (parent[ch] = y /\ ~detached[ch] /\ ch \notin free /\ ~waited[ch])'
    BY <1>0, <1>o, <2>1, <2>2 DEF TypeOK
  <2>3. ASSUME NEW o \in Threads, NEW y \in Tasks, Pending(o, y, "WAIT")'
        PROVE  (parent[req[y].to] = y /\ ~detached[req[y].to] =>
                  req[y].to \notin free \cup children[y] /\ ~waited[req[y].to])'
    BY <1>0, <1>o, <2>1, <2>3 DEF TypeOK, FamilyOK, RequestsOK
  <2>4. ASSUME NEW ch \in Tasks, waited[ch]'
        PROVE  (/\ ch \notin free /\ ~detached[ch] /\ state[ch] # "ZOMBIE"
                /\ parent[ch] \in Tasks
                /\ InWait(parent[ch]) /\ req[parent[ch]].to = ch
                /\ parent[ch] \notin free /\ ~Busy(parent[ch]) /\ ~Nesting(parent[ch]))'
    BY <1>0, <1>o, <2>1, <2>4 DEF TypeOK, FamilyOK, InWait, PlacesOK, PlaceState
  <2>. QED BY <2>2, <2>3, <2>4 DEF FamilyOK
<1>8. LeavingsOK'
  <2>. SUFFICES ASSUME NEW x \in Tasks
                PROVE  (ArgOK(x) /\ ExitOK(x))'
    BY DEF LeavingsOK
  <2>1. PlaceState(x) /\ Exclusive(x) /\ ArgOK(x) /\ ExitOK(x)
    BY <1>0 DEF PlacesOK, LeavingsOK
  <2>2. ArgOK(x)'
    BY <1>0, <1>o, <2>1 DEF TypeOK, ArgOK, PlaceState
  <2>3. ExitOK(x)'
    BY <1>0, <1>o, <2>1 DEF TypeOK, ExitOK, PlaceState
  <2>. QED BY <2>2, <2>3
<1>. HIDE DEF PostDone, PostReady, Nested, ArgCleared, bodyVars
<1>. QED BY <1>1, <1>2, <1>3, <1>4, <1>5, <1>6, <1>7, <1>8 DEF IInv

\* The elements of the stack of nested runs, and of it without its top.
LEMMA FrontElements ==
  ASSUME NEW q \in Seq(Tasks), q # <<>>
  PROVE  /\ q[Len(q)] \in Tasks /\ Len(q) \in DOMAIN q
         /\ SubSeq(q, 1, Len(q) - 1) \in Seq(Tasks)
         /\ DOMAIN SubSeq(q, 1, Len(q) - 1) = 1 .. (Len(q) - 1)
         /\ \A i \in 1 .. (Len(q) - 1) : SubSeq(q, 1, Len(q) - 1)[i] = q[i]
OBVIOUS

\* The innermost synchronous run is over: main is back with the request that
\* asked for it, whose task is ready.
LEMMA PostNestedInv ==
  ASSUME IInv, NEW t \in Tasks, PostNested, t = nest[Len(nest)]
  PROVE  IInv'
<1>. USE DEF PostNested, PostReady, Nested, ArgCleared, bodyVars, Reactivate
<1>0. /\ TypeOK /\ nfree = Cardinality(free) /\ FramesOK /\ PlacesOK
      /\ RequestsOK /\ RepliesOK /\ FamilyOK /\ LeavingsOK
  BY DEF IInv
<1>o. /\ \A o \in Threads, x \in Tasks :
           /\ Has(o, x)' <=> Has(o, x)
           /\ Finishing(o, x)' <=> o = Main /\ x = t
           /\ Finishing(o, x) <=> o = Main /\ x = cur[Main]
           /\ \A k : Pending(o, x, k)' <=> Pending(o, x, k)
      /\ \A x \in Tasks :
           /\ Busy(x)' <=> Busy(x)
           /\ ~Claimed(x) /\ ~Claimed(x)'
           /\ Nesting(x)' <=> Nesting(x) /\ x # t
      /\ Nesting(t) /\ state[t] = "ACTIVE" /\ req[t].type = "RUN_SYNC" /\ ~Busy(t) /\ ready[t] = 0
      /\ t \notin free /\ ~InEvent(t) /\ t \notin torun /\ \A r \in Tasks : ~InQueueOf(t, r)
      /\ DOMAIN nest' \subseteq DOMAIN nest /\ nest' \in Seq(Tasks)
      /\ \A i \in DOMAIN nest' : nest'[i] = nest[i]
      /\ \A o \in Threads : o # Main => cur[o] # t \/ pc[o] = "idle"
      /\ pc'[Main] = "serviced" /\ \A o \in Threads : o # Main => pc'[o] = pc[o] /\ cur'[o] = cur[o]
      /\ cur'[Main] = t /\ Main \in Threads
      /\ state'[t] = "READY" /\ ready'[t] = 1
      /\ \A x \in Tasks : x # t => state'[x] = state[x] /\ ready'[x] = ready[x]
      /\ \A x \in Tasks : earg'[x] = IF x = cur[Main] THEN "none" ELSE earg[x]
      /\ \A x \in Tasks : received[x] \subseteq Tasks /\ children[x] \subseteq Tasks
      /\ UNCHANGED <<pinned, detached, parent, req, dtor, future, free, nfree,
                     msgq, eventq, waited, torun, received, children>>
  <2>1. nest \in Seq(Tasks) /\ nest # <<>>
    BY <1>0 DEF TypeOK
  <2>2. /\ t \in Tasks /\ Len(nest) \in DOMAIN nest /\ nest' \in Seq(Tasks)
        /\ DOMAIN nest = 1 .. Len(nest) /\ Len(nest) \in Nat
        /\ DOMAIN nest' = 1 .. (Len(nest) - 1) /\ \A i \in DOMAIN nest' : nest'[i] = nest[i]
    BY <2>1, FrontElements
  <2>3. Nesting(t) /\ PlaceState(t) /\ Exclusive(t) /\ Once(t)
    BY <1>0, <2>2 DEF Nesting, PlacesOK
  <2>4. /\ state[t] = "ACTIVE" /\ req[t].type = "RUN_SYNC" /\ ~Busy(t) /\ ready[t] = 0
        /\ t \notin free /\ ~InEvent(t) /\ t \notin torun /\ \A r \in Tasks : ~InQueueOf(t, r)
    BY <1>0, <2>3 DEF PlaceState, Exclusive, TypeOK
  <2>5. \A x \in Tasks : Nesting(x)' <=> Nesting(x) /\ x # t
    <3>1. \A i \in DOMAIN nest : nest[i] = t => i = Len(nest)
      BY <2>2, <2>3 DEF Once
    <3>2. ASSUME NEW x \in Tasks, Nesting(x)'
          PROVE  Nesting(x) /\ x # t
      <4>1. PICK i \in DOMAIN nest' : nest'[i] = x
        BY <3>2 DEF Nesting
      <4>2. i \in DOMAIN nest /\ nest[i] = x /\ i # Len(nest)
        BY <2>2, <4>1
      <4>. QED BY <3>1, <4>2 DEF Nesting
    <3>3. ASSUME NEW x \in Tasks, Nesting(x), x # t
          PROVE  Nesting(x)'
      <4>1. PICK i \in DOMAIN nest : nest[i] = x
        BY <3>3 DEF Nesting
      <4>2. i \in DOMAIN nest' /\ nest'[i] = x
        BY <2>2, <3>3, <4>1
      <4>. QED BY <4>2 DEF Nesting
    <3>. QED BY <3>2, <3>3
  <2>6. /\ lock = Main /\ pc[Main] \in {"serviced", "released"} /\ Main \in Threads
        /\ \A o \in Threads : o # Main => pc[o] \notin {"serviced", "released"}
        /\ pc'[Main] = "serviced" /\ cur'[Main] = t
        /\ \A o \in Threads : o # Main => pc'[o] = pc[o] /\ cur'[o] = cur[o]
    BY <1>0 DEF FramesOK, TypeOK
  <2>7. \A o \in Threads, x \in Tasks :
          /\ Has(o, x)' <=> Has(o, x)
          /\ Finishing(o, x)' <=> o = Main /\ x = t
          /\ Finishing(o, x) <=> o = Main /\ x = cur[Main]
          /\ \A k : Pending(o, x, k)' <=> Pending(o, x, k)
    BY <2>6 DEF Has, Finishing, Pending
  <2>8. \A x \in Tasks : /\ Busy(x)' <=> Busy(x)
                         /\ ~Claimed(x) /\ ~Claimed(x)'
    BY <2>6, <2>7 DEF Busy, Claimed
  <2>9. \A o \in Threads : o # Main => cur[o] # t \/ pc[o] = "idle"
    BY <1>0, <2>4, <2>6 DEF Busy, Has, TypeOK
  <2>10. /\ state'[t] = "READY" /\ ready'[t] = 1
         /\ \A x \in Tasks : x # t => state'[x] = state[x] /\ ready'[x] = ready[x]
    BY <1>0, <2>4 DEF TypeOK
  <2>11. \A x \in Tasks : /\ earg'[x] = IF x = cur[Main] THEN "none" ELSE earg[x]
                          /\ received[x] \subseteq Tasks /\ children[x] \subseteq Tasks
    BY <1>0 DEF TypeOK
  <2>12. UNCHANGED <<pinned, detached, parent, req, dtor, future, free, nfree,
                     msgq, eventq, waited, torun, received, children>>
    OBVIOUS
  <2>. HIDE DEF PostNested
  <2>. QED BY <2>2, <2>3, <2>4, <2>5, <2>6, <2>7, <2>8, <2>9, <2>10, <2>11, <2>12
<1>1. TypeOK'
  <2>1. t \in Tasks /\ nest' \in Seq(Tasks) /\ Main \in Threads
    BY <1>0, <1>o DEF Nesting, TypeOK, FramesOK
  <2>2. state' \in [Tasks -> States] /\ ready' \in [Tasks -> Nat]
    BY <1>0 DEF TypeOK, States
  <2>3. earg' \in [Tasks -> {"none", "held", "freed"}]
    BY <1>0 DEF TypeOK
  <2>4. cur' = [cur EXCEPT ![Main] = t] /\ pc' = [pc EXCEPT ![Main] = "serviced"]
    OBVIOUS
  <2>5. UNCHANGED <<pinned, detached, parent, req, dtor, future, free, nfree,
                    msgq, eventq, waited, lock, mainOp, torun, received, children>>
    OBVIOUS
  <2>. HIDE DEF PostNested
  <2>. QED BY <1>0, <2>1, <2>2, <2>3, <2>4, <2>5 DEF TypeOK
<1>2. (nfree = Cardinality(free))'
  BY <1>0
<1>. HIDE DEF PostNested
<1>3. FramesOK'
  BY <1>0, <1>o DEF PostNested, FramesOK, TypeOK
<1>4. PlacesOK'
  <2>. SUFFICES ASSUME NEW x \in Tasks
                PROVE  (PlaceState(x) /\ Exclusive(x) /\ Once(x) /\ StatePlace(x))'
    BY DEF PlacesOK
  <2>1. PlaceState(x) /\ Exclusive(x) /\ Once(x) /\ StatePlace(x)
    BY <1>0 DEF PlacesOK
  <2>2. PlaceState(x)'
    BY <1>0, <1>o, <2>1 DEF PlaceState, InEvent, InQueueOf, Has
  <2>3. Exclusive(x)'
    BY <1>0, <1>o, <2>1 DEF Exclusive, PlaceState, Once, InEvent
  <2>4. Once(x)'
    BY <1>0, <1>o, <2>1 DEF Once, Exclusive
  <2>5. StatePlace(x)'
    BY <1>0, <1>o, <2>1 DEF StatePlace, InEvent, InQueueOf
  <2>. QED BY <2>2, <2>3, <2>4, <2>5
<1>5. RequestsOK'
  BY <1>0, <1>o DEF RequestsOK
<1>6. RepliesOK'
  BY <1>0, <1>o, SMTT(30) DEF RepliesOK, RequestsOK
<1>7. FamilyOK'
  <2>1. \A y \in Tasks : \A ch \in children[y] :
          parent[ch] = y /\ ~detached[ch] /\ ch \notin free /\ ~waited[ch]
    BY <1>0 DEF FamilyOK
  <2>2. ASSUME NEW y \in Tasks, NEW ch \in children[y]'
        PROVE  (parent[ch] = y /\ ~detached[ch] /\ ch \notin free /\ ~waited[ch])'
    BY <1>0, <1>o, <2>1, <2>2
  <2>3. ASSUME NEW o \in Threads, NEW y \in Tasks, Pending(o, y, "WAIT")'
        PROVE  (parent[req[y].to] = y /\ ~detached[req[y].to] =>
                  req[y].to \notin free \cup children[y] /\ ~waited[req[y].to])'
    BY <1>0, <1>o, <2>1, <2>3 DEF FamilyOK, RequestsOK
  <2>4. ASSUME NEW ch \in Tasks, waited[ch]'
        PROVE  (/\ ch \notin free /\ ~detached[ch] /\ state[ch] # "ZOMBIE"
                /\ parent[ch] \in Tasks
                /\ InWait(parent[ch]) /\ req[parent[ch]].to = ch
                /\ parent[ch] \notin free /\ ~Busy(parent[ch]) /\ ~Nesting(parent[ch]))'
    BY <1>0, <1>o, <2>1, <2>4 DEF FamilyOK, InWait, PlacesOK, PlaceState
  <2>. QED BY <2>2, <2>3, <2>4 DEF FamilyOK
<1>8. LeavingsOK'
  <2>. SUFFICES ASSUME NEW x \in Tasks
                PROVE  (ArgOK(x) /\ ExitOK(x))'
    BY DEF LeavingsOK
  <2>1. PlaceState(x) /\ Exclusive(x) /\ ArgOK(x) /\ ExitOK(x)
    BY <1>0 DEF PlacesOK, LeavingsOK
  <2>2. ArgOK(x)'
    BY <1>0, <1>o, <2>1 DEF ArgOK, PlaceState
  <2>3. ExitOK(x)'
    BY <1>0, <1>o, <2>1 DEF ExitOK, PlaceState
  <2>. QED BY <2>2, <2>3
<1>. HIDE DEF PostNested, PostReady, Nested, ArgCleared, bodyVars, Reactivate
<1>. QED BY <1>1, <1>2, <1>3, <1>4, <1>5, <1>6, <1>7, <1>8 DEF IInv

\* Main leaves the request of a task for the claimed task, one frame deeper.
LEMMA ServiceRunSyncInv ==
  ASSUME IInv, NEW t \in Tasks, NEW target \in Tasks, ServiceRunSync(t), target = req[t].to
  PROVE  IInv'
<1>. USE DEF ServiceRunSync, bodyVars
<1>0. /\ TypeOK /\ nfree = Cardinality(free) /\ FramesOK /\ PlacesOK
      /\ RequestsOK /\ RepliesOK /\ FamilyOK /\ LeavingsOK
  BY DEF IInv
<1>o. /\ \A o \in Threads, x \in Tasks :
           /\ Has(o, x)' <=> (Has(o, x) /\ o # Main) \/ (o = Main /\ x = target)
           /\ ~Finishing(o, x)' /\ ~Finishing(o, x)
           /\ \A k : Pending(o, x, k)' <=> Pending(o, x, k) /\ o # Main
           /\ Has(Main, x) \/ (\E k : Pending(Main, x, k)) => x = t
      /\ \A x \in Tasks :
           /\ Busy(x)' <=> (Busy(x) /\ x # t) \/ x = target
           /\ Claimed(x) <=> x = target
           /\ ~Claimed(x)'
           /\ Nesting(x)' <=> Nesting(x) \/ x = t
           /\ received[x] \subseteq Tasks /\ children[x] \subseteq Tasks
      /\ Has(Main, t) /\ Busy(t) /\ Pending(Main, t, "RUN_SYNC")
      /\ \A o \in Threads : /\ Has(o, t) => o = Main
                            /\ \A k : Pending(o, t, k) => o = Main /\ k = "RUN_SYNC"
                            /\ ~Has(o, target)
                            /\ \A k : ~Pending(o, target, k)
                            /\ o # Main => /\ pc'[o] = pc[o] /\ cur'[o] = cur[o]
                                           /\ cur[o] = t \/ cur[o] = target => pc[o] = "idle"
      /\ Main \in Threads /\ t # target
      /\ req[t].type = "RUN_SYNC" /\ state[t] = "ACTIVE" /\ t \notin free /\ ~Nesting(t)
      /\ ready[t] = 0 /\ ~InEvent(t) /\ t \notin torun
      /\ state[target] = "READY" /\ ready[target] = 0 /\ ~Busy(target) /\ ~Nesting(target)
      /\ target \notin free /\ ~InEvent(target) /\ target \notin torun
      /\ \A r \in Tasks : ~InQueueOf(target, r)
      /\ DOMAIN nest = 1 .. Len(nest) /\ Len(nest) \in Nat
      /\ DOMAIN nest' = 1 .. (Len(nest) + 1) /\ nest'[Len(nest) + 1] = t
      /\ \A i \in 1 .. Len(nest) : nest'[i] = nest[i]
      /\ pc'[Main] = "running" /\ cur'[Main] = target /\ pc[Main] = "switched"
      /\ state'[target] = "ACTIVE" /\ \A x \in Tasks : x # target => state'[x] = state[x]
      /\ UNCHANGED <<pinned, detached, parent, req, earg, dtor, future, free, nfree,
                     ready, msgq, eventq, waited, torun, received, children>>
  <2>1. /\ pc[Main] = "switched" /\ cur[Main] = t /\ req[t].type = "RUN_SYNC"
        /\ lock \in {NoThread, Main} /\ lock' = Main /\ req' = req /\ Main \in Threads
        /\ pc' = [pc EXCEPT ![Main] = "running"] /\ cur' = [cur EXCEPT ![Main] = target]
        /\ nest' = Append(nest, t) /\ nest \in Seq(Tasks)
    BY <1>0 DEF Service, CanLock, TypeOK
  <2>2. /\ state'[target] = "ACTIVE" /\ \A x \in Tasks : x # target => state'[x] = state[x]
        /\ \A x \in Tasks : received[x] \subseteq Tasks /\ children[x] \subseteq Tasks
        /\ UNCHANGED <<pinned, detached, parent, req, earg, dtor, future, free, nfree,
                       ready, msgq, eventq, waited, torun, received, children>>
    BY <1>0, <2>1 DEF TypeOK
  <2>. HIDE DEF ServiceRunSync
  <2>3. /\ DOMAIN nest = 1 .. Len(nest) /\ Len(nest) \in Nat
        /\ DOMAIN nest' = 1 .. (Len(nest) + 1) /\ nest'[Len(nest) + 1] = t
        /\ \A i \in 1 .. Len(nest) : nest'[i] = nest[i]
    BY <2>1, AppendElements
  <2>4. \A x \in Tasks : Nesting(x)' <=> Nesting(x) \/ x = t
    <3>1. ASSUME NEW x \in Tasks, Nesting(x)  PROVE Nesting(x)'
      <4>1. PICK i \in DOMAIN nest : nest[i] = x
        BY <3>1 DEF Nesting
      <4>2. i \in DOMAIN nest' /\ nest'[i] = x
        BY <2>3, <4>1
      <4>. QED BY <4>2 DEF Nesting
    <3>2. Nesting(t)'
      BY <2>3 DEF Nesting
    <3>3. ASSUME NEW x \in Tasks, Nesting(x)', x # t  PROVE Nesting(x)
      <4>1. PICK i \in DOMAIN nest' : nest'[i] = x
        BY <3>3 DEF Nesting
      <4>2. i \in DOMAIN nest /\ nest[i] = x
        BY <2>3, <3>3, <4>1
      <4>. QED BY <4>2 DEF Nesting
    <3>. QED BY <3>1, <3>2, <3>3
  <2>5. PlaceState(t) /\ Exclusive(t) /\ Once(t) /\ PlaceState(target) /\ Exclusive(target)
    BY <1>0 DEF PlacesOK
  <2>6. Has(Main, t) /\ Pending(Main, t, "RUN_SYNC") /\ Busy(t) /\ state[t] = "ACTIVE"
    BY <2>1, <2>5 DEF Has, Pending, Busy, PlaceState
  <2>7. /\ \A x \in Tasks : Claimed(x) <=> x = target
        /\ \A x \in Tasks : ~Claimed(x)'
    BY <1>0, <2>1 DEF Claimed, TypeOK
  <2>8. /\ t \notin free /\ ~Nesting(t) /\ ready[t] = 0 /\ ~InEvent(t) /\ t \notin torun
        /\ state[target] = "READY" /\ ready[target] = 0 /\ ~Busy(target) /\ ~Nesting(target)
        /\ target \notin free /\ ~InEvent(target) /\ target \notin torun /\ t # target
        /\ \A r \in Tasks : ~InQueueOf(target, r)
    BY <1>0, <2>5, <2>6, <2>7 DEF PlaceState, Exclusive
  <2>9. /\ pc'[Main] = "running" /\ cur'[Main] = target
        /\ \A o \in Threads : o # Main => pc'[o] = pc[o] /\ cur'[o] = cur[o]
        /\ \A o \in Threads : pc[o] \notin {"serviced", "released"}
    BY <1>0, <2>1 DEF FramesOK, TypeOK
  <2>10. \A o \in Threads : Has(o, t) => o = Main
    BY <2>5, <2>6 DEF Once
  <2>11. \A o \in Threads : ~Has(o, target) /\ \A k : ~Pending(o, target, k)
    BY <2>8 DEF Busy, Has, Pending
  <2>12. ASSUME NEW o \in Threads, NEW x \in Tasks
         PROVE  /\ Has(o, x)' <=> (Has(o, x) /\ o # Main) \/ (o = Main /\ x = target)
                /\ ~Finishing(o, x)' /\ ~Finishing(o, x)
                /\ \A k : Pending(o, x, k)' <=> Pending(o, x, k) /\ o # Main
                /\ Has(Main, x) \/ (\E k : Pending(Main, x, k)) => x = t
    <3>1. CASE o = Main
      BY <2>1, <2>9, <3>1 DEF Has, Finishing, Pending
    <3>2. CASE o # Main
      BY <2>1, <2>9, <3>2 DEF Has, Finishing, Pending
    <3>. QED BY <3>1, <3>2
  <2>13. ASSUME NEW x \in Tasks
         PROVE  Busy(x)' <=> (Busy(x) /\ x # t) \/ x = target
    <3>1. CASE x = target
      BY <2>1, <2>12, <3>1 DEF Busy
    <3>2. CASE x = t
      BY <2>8, <2>10, <2>12, <3>2 DEF Busy
    <3>3. CASE x # target /\ x # t
      BY <2>12, <3>3 DEF Busy
    <3>. QED BY <2>8, <3>1, <3>2, <3>3
  <2>14. \A o \in Threads :
           /\ \A k : Pending(o, t, k) => o = Main /\ k = "RUN_SYNC"
           /\ o # Main /\ (cur[o] = t \/ cur[o] = target) => pc[o] = "idle"
    BY <1>0, <2>1, <2>9, <2>10, <2>11 DEF Has, Pending, TypeOK
  <2>. QED BY <2>1, <2>2, <2>3, <2>4, <2>6, <2>7, <2>8, <2>9, <2>10, <2>11, <2>12, <2>13, <2>14
<1>1. TypeOK'
  <2>1. /\ cur' = [cur EXCEPT ![Main] = target] /\ pc' = [pc EXCEPT ![Main] = "running"]
        /\ state' = [state EXCEPT ![target] = "ACTIVE"] /\ nest' = Append(nest, t)
        /\ lock' = Main /\ Main \in Threads /\ mainOp' = mainOp
        /\ UNCHANGED <<pinned, detached, parent, req, earg, dtor, future, free, nfree,
                       ready, msgq, eventq, waited, torun, received, children>>
    BY DEF Service
  <2>. HIDE DEF ServiceRunSync
  <2>. QED BY <1>0, <2>1, AppendElements DEF TypeOK, States
<1>2. (nfree = Cardinality(free))'
  BY <1>0
<1>. HIDE DEF ServiceRunSync
<1>3. FramesOK'
  BY <1>0, <1>o DEF ServiceRunSync, Service, CanLock, FramesOK, TypeOK
<1>4. PlacesOK'
  <2>. SUFFICES ASSUME NEW x \in Tasks
                PROVE  (PlaceState(x) /\ Exclusive(x) /\ Once(x) /\ StatePlace(x))'
    BY DEF PlacesOK
  <2>1. PlaceState(x) /\ Exclusive(x) /\ Once(x) /\ StatePlace(x)
    BY <1>0 DEF PlacesOK
  <2>2. PlaceState(x)'
    BY <1>0, <1>o, <2>1 DEF PlaceState, InEvent, InQueueOf, Has
  <2>3. Exclusive(x)'
    BY <1>0, <1>o, <2>1 DEF Exclusive, PlaceState, Once, InEvent
  <2>4. Once(x)'
    <3>1. \A a, b \in Threads : Has(a, x)' /\ Has(b, x)' => a = b
      BY <1>o, <2>1 DEF Once
    <3>2. \A i \in DOMAIN nest' : nest'[i] = x =>
            IF x = t THEN i = Len(nest) + 1 ELSE i \in DOMAIN nest /\ nest[i] = x
      BY <1>o DEF Nesting
    <3>3. \A i, j \in DOMAIN nest' : nest'[i] = x /\ nest'[j] = x => i = j
      BY <2>1, <3>2 DEF Once
    <3>. QED BY <1>o, <2>1, <3>1, <3>3 DEF Once
  <2>5. StatePlace(x)'
    BY <1>0, <1>o, <2>1 DEF StatePlace, InEvent, InQueueOf
  <2>. QED BY <2>2, <2>3, <2>4, <2>5
<1>5. RequestsOK'
  BY <1>0, <1>o DEF RequestsOK
<1>6. RepliesOK'
  BY <1>0, <1>o, SMTT(30) DEF RepliesOK, RequestsOK
<1>7. FamilyOK'
  <2>1. \A y \in Tasks : \A ch \in children[y] :
          parent[ch] = y /\ ~detached[ch] /\ ch \notin free /\ ~waited[ch]
    BY <1>0 DEF FamilyOK
  <2>2. ASSUME NEW y \in Tasks, NEW ch \in children[y]'
        PROVE  (parent[ch] = y /\ ~detached[ch] /\ ch \notin free /\ ~waited[ch])'
    BY <1>0, <1>o, <2>1, <2>2
  <2>3. ASSUME NEW o \in Threads, NEW y \in Tasks, Pending(o, y, "WAIT")'
        PROVE  (parent[req[y].to] = y /\ ~detached[req[y].to] =>
                  req[y].to \notin free \cup children[y] /\ ~waited[req[y].to])'
    BY <1>0, <1>o, <2>1, <2>3 DEF FamilyOK, RequestsOK
  <2>4. ASSUME NEW ch \in Tasks, waited[ch]'
        PROVE  (/\ ch \notin free /\ ~detached[ch] /\ state[ch] # "ZOMBIE"
                /\ parent[ch] \in Tasks
                /\ InWait(parent[ch]) /\ req[parent[ch]].to = ch
                /\ parent[ch] \notin free /\ ~Busy(parent[ch]) /\ ~Nesting(parent[ch]))'
    BY <1>0, <1>o, <2>1, <2>4 DEF FamilyOK, InWait, PlacesOK, PlaceState
  <2>. QED BY <2>2, <2>3, <2>4 DEF FamilyOK
<1>8. LeavingsOK'
  <2>. SUFFICES ASSUME NEW x \in Tasks
                PROVE  (ArgOK(x) /\ ExitOK(x))'
    BY DEF LeavingsOK
  <2>1. PlaceState(x) /\ Exclusive(x) /\ ArgOK(x) /\ ExitOK(x)
    BY <1>0 DEF PlacesOK, LeavingsOK
  <2>2. ArgOK(x)'
    BY <1>0, <1>o, <2>1 DEF ArgOK, PlaceState
  <2>3. ExitOK(x)'
    BY <1>0, <1>o, <2>1 DEF ExitOK, PlaceState
  <2>. QED BY <2>2, <2>3
<1>. HIDE DEF ServiceRunSync, bodyVars
<1>. QED BY <1>1, <1>2, <1>3, <1>4, <1>5, <1>6, <1>7, <1>8 DEF IInv

\* Main takes the next task of an event it handles.
LEMMA HandleNextInv ==
  ASSUME IInv, NEW t \in Tasks, HandleNext(t)
  PROVE  IInv'
<1>. USE DEF HandleNext, taskVars, schedVars, bodyVars
<1>0. /\ TypeOK /\ nfree = Cardinality(free) /\ FramesOK /\ PlacesOK
      /\ RequestsOK /\ RepliesOK /\ FamilyOK /\ LeavingsOK
  BY DEF IInv
<1>o. /\ \A o \in Threads, x \in Tasks :
           /\ Has(o, x)' <=> Has(o, x) \/ (o = Main /\ x = t)
           /\ Finishing(o, x)' <=> Finishing(o, x)
           /\ \A k : Pending(o, x, k)' <=> Pending(o, x, k)
      /\ \A x \in Tasks :
           /\ Busy(x)' <=> Busy(x) \/ x = t
           /\ Claimed(x)' <=> Claimed(x)
           /\ Nesting(x)' <=> Nesting(x)
      /\ t \in torun /\ torun' = torun \ {t} /\ state[t] = "EVENT_BLOCKED" /\ Main \in Threads
      /\ pc' = [pc EXCEPT ![Main] = "popped"] /\ cur' = [cur EXCEPT ![Main] = t]
      /\ pc[Main] = "idle"
  <2>1. /\ t \in torun /\ torun' = torun \ {t} /\ Main \in Threads
        /\ pc' = [pc EXCEPT ![Main] = "popped"] /\ cur' = [cur EXCEPT ![Main] = t]
        /\ pc[Main] = "idle" /\ req' = req
    OBVIOUS
  <2>2. state[t] = "EVENT_BLOCKED"
    BY <1>0, <2>1 DEF PlacesOK, PlaceState
  <2>3. \A x \in Tasks : Nesting(x)' <=> Nesting(x)
    BY DEF Nesting
  <2>. HIDE DEF HandleNext
  <2>4. TypeOK /\ Main \in Threads
    BY <1>0
  <2>. QED BY <2>1, <2>2, <2>3, <2>4, Take
<1>1. TypeOK'
  BY <1>0 DEF TypeOK
<1>2. (nfree = Cardinality(free))'
  BY <1>0
<1>3. FramesOK'
  BY <1>0 DEF FramesOK, TypeOK
<1>4. PlacesOK'
  <2>. SUFFICES ASSUME NEW x \in Tasks
                PROVE  (PlaceState(x) /\ Exclusive(x) /\ Once(x) /\ StatePlace(x))'
    BY DEF PlacesOK
  <2>1. PlaceState(x) /\ Exclusive(x) /\ Once(x) /\ StatePlace(x)
    BY <1>0 DEF PlacesOK
  <2>2. PlaceState(x)'
    BY <1>0, <1>o, <2>1 DEF TypeOK, PlaceState, InEvent, InQueueOf
  <2>3. Exclusive(x)'
    BY <1>0, <1>o, <2>1 DEF TypeOK, Exclusive, PlaceState, Once, InEvent
  <2>4. Once(x)'
    BY <1>0, <1>o, <2>1 DEF TypeOK, Once, Exclusive, Busy
  <2>5. StatePlace(x)'
    BY <1>0, <1>o, <2>1 DEF TypeOK, StatePlace, InEvent, InQueueOf
  <2>. QED BY <2>2, <2>3, <2>4, <2>5
<1>5. RequestsOK'
  BY <1>0, <1>o DEF TypeOK, RequestsOK
<1>6. RepliesOK'
  BY <1>0, <1>o, SMTT(30) DEF TypeOK, RepliesOK
<1>7. FamilyOK'
  <2>1. \A y \in Tasks : \A ch \in children[y] :
          parent[ch] = y /\ ~detached[ch] /\ ch \notin free /\ ~waited[ch]
    BY <1>0 DEF FamilyOK
  <2>2. ASSUME NEW y \in Tasks, NEW ch \in children[y]'
        PROVE  (parent[ch] = y /\ ~detached[ch] /\ ch \notin free /\ ~waited[ch])'
    BY <1>0, <1>o, <2>1, <2>2 DEF TypeOK
  <2>3. ASSUME NEW o \in Threads, NEW y \in Tasks, Pending(o, y, "WAIT")'
        PROVE  (parent[req[y].to] = y /\ ~detached[req[y].to] =>
                  req[y].to \notin free \cup children[y] /\ ~waited[req[y].to])'
    BY <1>0, <1>o, <2>1, <2>3 DEF TypeOK, FamilyOK, RequestsOK
  <2>4. ASSUME NEW ch \in Tasks, waited[ch]'
        PROVE  (/\ ch \notin free /\ ~detached[ch] /\ state[ch] # "ZOMBIE"
                /\ parent[ch] \in Tasks
                /\ InWait(parent[ch]) /\ req[parent[ch]].to = ch
                /\ parent[ch] \notin free /\ ~Busy(parent[ch]) /\ ~Nesting(parent[ch]))'
    BY <1>0, <1>o, <2>1, <2>4 DEF TypeOK, FamilyOK, InWait, PlacesOK, PlaceState
  <2>. QED BY <2>2, <2>3, <2>4 DEF FamilyOK
<1>8. LeavingsOK'
  <2>. SUFFICES ASSUME NEW x \in Tasks
                PROVE  (ArgOK(x) /\ ExitOK(x))'
    BY DEF LeavingsOK
  <2>1. PlaceState(x) /\ Exclusive(x) /\ ArgOK(x) /\ ExitOK(x)
    BY <1>0 DEF PlacesOK, LeavingsOK
  <2>2. ArgOK(x)'
    BY <1>0, <1>o, <2>1 DEF TypeOK, ArgOK, PlaceState
  <2>3. ExitOK(x)'
    BY <1>0, <1>o, <2>1 DEF TypeOK, ExitOK, PlaceState
  <2>. QED BY <2>2, <2>3
<1>. HIDE DEF HandleNext, taskVars, schedVars, bodyVars
<1>. QED BY <1>1, <1>2, <1>3, <1>4, <1>5, <1>6, <1>7, <1>8 DEF IInv

\* Main runs a READY task from outside any task.
LEMMA RunSyncInv ==
  ASSUME IInv, NEW t \in Tasks, RunSync(t)
  PROVE  IInv'
<1>. USE DEF RunSync, MainFree, Queued, CanLock, taskVars, bodyVars
<1>0. /\ TypeOK /\ nfree = Cardinality(free) /\ FramesOK /\ PlacesOK
      /\ RequestsOK /\ RepliesOK /\ FamilyOK /\ LeavingsOK
  BY DEF IInv
<1>o. /\ \A o \in Threads, x \in Tasks :
           /\ Has(o, x)' <=> Has(o, x) \/ (o = Main /\ x = t)
           /\ Finishing(o, x)' <=> Finishing(o, x)
           /\ \A k : Pending(o, x, k)' <=> Pending(o, x, k)
      /\ \A x \in Tasks :
           /\ Busy(x)' <=> Busy(x) \/ x = t
           /\ Claimed(x)' <=> Claimed(x)
           /\ Nesting(x)' <=> Nesting(x)
      /\ pc' = [pc EXCEPT ![Main] = "popped"] /\ cur' = [cur EXCEPT ![Main] = t]
      /\ pc[Main] = "idle" /\ Main \in Threads
  <2>1. /\ Main \in Threads
        /\ pc' = [pc EXCEPT ![Main] = "popped"] /\ cur' = [cur EXCEPT ![Main] = t]
        /\ pc[Main] = "idle" /\ req' = req
    OBVIOUS
  <2>3. \A x \in Tasks : Nesting(x)' <=> Nesting(x)
    BY DEF Nesting
  <2>. HIDE DEF RunSync
  <2>4. TypeOK /\ Main \in Threads
    BY <1>0
  <2>. QED BY <2>1, <2>3, <2>4, Take
<1>1. TypeOK'
  BY <1>0 DEF TypeOK
<1>2. (nfree = Cardinality(free))'
  BY <1>0
<1>3. FramesOK'
  BY <1>0 DEF FramesOK, TypeOK
<1>4. PlacesOK'
  <2>. SUFFICES ASSUME NEW x \in Tasks
                PROVE  (PlaceState(x) /\ Exclusive(x) /\ Once(x) /\ StatePlace(x))'
    BY DEF PlacesOK
  <2>1. PlaceState(x) /\ Exclusive(x) /\ Once(x) /\ StatePlace(x)
    BY <1>0 DEF PlacesOK
  <2>2. PlaceState(x)'
    BY <1>0, <1>o, <2>1 DEF TypeOK, PlaceState, InEvent, InQueueOf
  <2>3. Exclusive(x)'
    BY <1>0, <1>o, <2>1 DEF TypeOK, Exclusive, PlaceState, Once, InEvent
  <2>4. Once(x)'
    BY <1>0, <1>o, <2>1 DEF TypeOK, Once, Exclusive, Busy
  <2>5. StatePlace(x)'
    BY <1>0, <1>o, <2>1 DEF TypeOK, StatePlace, InEvent, InQueueOf
  <2>. QED BY <2>2, <2>3, <2>4, <2>5
<1>5. RequestsOK'
  BY <1>0, <1>o DEF TypeOK, RequestsOK
<1>6. RepliesOK'
  BY <1>0, <1>o, SMTT(30) DEF TypeOK, RepliesOK
<1>7. FamilyOK'
  <2>1. \A y \in Tasks : \A ch \in children[y] :
          parent[ch] = y /\ ~detached[ch] /\ ch \notin free /\ ~waited[ch]
    BY <1>0 DEF FamilyOK
  <2>2. ASSUME NEW y \in Tasks, NEW ch \in children[y]'
        PROVE  (parent[ch] = y /\ ~detached[ch] /\ ch \notin free /\ ~waited[ch])'
    BY <1>0, <1>o, <2>1, <2>2 DEF TypeOK
  <2>3. ASSUME NEW o \in Threads, NEW y \in Tasks, Pending(o, y, "WAIT")'
        PROVE  (parent[req[y].to] = y /\ ~detached[req[y].to] =>
                  req[y].to \notin free \cup children[y] /\ ~waited[req[y].to])'
    BY <1>0, <1>o, <2>1, <2>3 DEF TypeOK, FamilyOK, RequestsOK
  <2>4. ASSUME NEW ch \in Tasks, waited[ch]'
        PROVE  (/\ ch \notin free /\ ~detached[ch] /\ state[ch] # "ZOMBIE"
                /\ parent[ch] \in Tasks
                /\ InWait(parent[ch]) /\ req[parent[ch]].to = ch
                /\ parent[ch] \notin free /\ ~Busy(parent[ch]) /\ ~Nesting(parent[ch]))'
    BY <1>0, <1>o, <2>1, <2>4 DEF TypeOK, FamilyOK, InWait, PlacesOK, PlaceState
  <2>. QED BY <2>2, <2>3, <2>4 DEF FamilyOK
<1>8. LeavingsOK'
  <2>. SUFFICES ASSUME NEW x \in Tasks
                PROVE  (ArgOK(x) /\ ExitOK(x))'
    BY DEF LeavingsOK
  <2>1. PlaceState(x) /\ Exclusive(x) /\ ArgOK(x) /\ ExitOK(x)
    BY <1>0 DEF PlacesOK, LeavingsOK
  <2>2. ArgOK(x)'
    BY <1>0, <1>o, <2>1 DEF TypeOK, ArgOK, PlaceState
  <2>3. ExitOK(x)'
    BY <1>0, <1>o, <2>1 DEF TypeOK, ExitOK, PlaceState
  <2>. QED BY <2>2, <2>3
<1>. HIDE DEF RunSync, MainFree, Queued, CanLock, taskVars, bodyVars
<1>. QED BY <1>1, <1>2, <1>3, <1>4, <1>5, <1>6, <1>7, <1>8 DEF IInv

\* An event has been handled: main releases the lock.
LEMMA HandleDoneInv ==
  ASSUME IInv, HandleDone
  PROVE  IInv'
<1>. USE DEF HandleDone, taskVars, bodyVars
<1>0. /\ TypeOK /\ nfree = Cardinality(free) /\ FramesOK /\ PlacesOK
      /\ RequestsOK /\ RepliesOK /\ FamilyOK /\ LeavingsOK
  BY DEF IInv
<1>o. /\ \A o \in Threads, x \in Tasks :
           /\ Has(o, x)' <=> Has(o, x)
           /\ Finishing(o, x)' <=> Finishing(o, x)
           /\ \A k : Pending(o, x, k)' <=> Pending(o, x, k)
      /\ \A x \in Tasks :
           /\ Busy(x)' <=> Busy(x)
           /\ Claimed(x)' <=> Claimed(x)
           /\ Nesting(x)' <=> Nesting(x)
  <2>1. \A o \in Threads, x \in Tasks :
          /\ Has(o, x)' <=> Has(o, x)
          /\ Finishing(o, x)' <=> Finishing(o, x)
          /\ \A k : Pending(o, x, k)' <=> Pending(o, x, k)
    BY DEF Has, Finishing, Pending
  <2>2. \A x \in Tasks : /\ Busy(x)' <=> Busy(x)
                         /\ Claimed(x)' <=> Claimed(x)
                         /\ Nesting(x)' <=> Nesting(x)
    BY <2>1 DEF Busy, Claimed, Nesting
  <2>. QED BY <2>1, <2>2
<1>1. TypeOK'
  BY <1>0 DEF TypeOK
<1>2. (nfree = Cardinality(free))'
  BY <1>0
<1>3. FramesOK'
  BY <1>0 DEF FramesOK, TypeOK
<1>4. PlacesOK'
  <2>. SUFFICES ASSUME NEW x \in Tasks
                PROVE  (PlaceState(x) /\ Exclusive(x) /\ Once(x) /\ StatePlace(x))'
    BY DEF PlacesOK
  <2>1. PlaceState(x) /\ Exclusive(x) /\ Once(x) /\ StatePlace(x)
    BY <1>0 DEF PlacesOK
  <2>2. PlaceState(x)'
    BY <1>0, <1>o, <2>1 DEF TypeOK, PlaceState, InEvent, InQueueOf
  <2>3. Exclusive(x)'
    BY <1>0, <1>o, <2>1 DEF TypeOK, Exclusive, PlaceState, Once, InEvent
  <2>4. Once(x)'
    BY <1>0, <1>o, <2>1 DEF TypeOK, Once, Exclusive, Busy
  <2>5. StatePlace(x)'
    BY <1>0, <1>o, <2>1 DEF TypeOK, StatePlace, InEvent, InQueueOf
  <2>. QED BY <2>2, <2>3, <2>4, <2>5
<1>5. RequestsOK'
  BY <1>0, <1>o DEF TypeOK, RequestsOK
<1>6. RepliesOK'
  BY <1>0, <1>o, SMTT(30) DEF TypeOK, RepliesOK
<1>7. FamilyOK'
  <2>1. \A y \in Tasks : \A ch \in children[y] :
          parent[ch] = y /\ ~detached[ch] /\ ch \notin free /\ ~waited[ch]
    BY <1>0 DEF FamilyOK
  <2>2. ASSUME NEW y \in Tasks, NEW ch \in children[y]'
        PROVE  (parent[ch] = y /\ ~detached[ch] /\ ch \notin free /\ ~waited[ch])'
    BY <1>0, <1>o, <2>1, <2>2 DEF TypeOK
  <2>3. ASSUME NEW o \in Threads, NEW y \in Tasks, Pending(o, y, "WAIT")'
        PROVE  (parent[req[y].to] = y /\ ~detached[req[y].to] =>
                  req[y].to \notin free \cup children[y] /\ ~waited[req[y].to])'
    BY <1>0, <1>o, <2>1, <2>3 DEF TypeOK, FamilyOK, RequestsOK
  <2>4. ASSUME NEW ch \in Tasks, waited[ch]'
        PROVE  (/\ ch \notin free /\ ~detached[ch] /\ state[ch] # "ZOMBIE"
                /\ parent[ch] \in Tasks
                /\ InWait(parent[ch]) /\ req[parent[ch]].to = ch
                /\ parent[ch] \notin free /\ ~Busy(parent[ch]) /\ ~Nesting(parent[ch]))'
    BY <1>0, <1>o, <2>1, <2>4 DEF TypeOK, FamilyOK, InWait, PlacesOK, PlaceState
  <2>. QED BY <2>2, <2>3, <2>4 DEF FamilyOK
<1>8. LeavingsOK'
  <2>. SUFFICES ASSUME NEW x \in Tasks
                PROVE  (ArgOK(x) /\ ExitOK(x))'
    BY DEF LeavingsOK
  <2>1. PlaceState(x) /\ Exclusive(x) /\ ArgOK(x) /\ ExitOK(x)
    BY <1>0 DEF PlacesOK, LeavingsOK
  <2>2. ArgOK(x)'
    BY <1>0, <1>o, <2>1 DEF TypeOK, ArgOK, PlaceState
  <2>3. ExitOK(x)'
    BY <1>0, <1>o, <2>1 DEF TypeOK, ExitOK, PlaceState
  <2>. QED BY <2>2, <2>3
<1>. HIDE DEF HandleDone, taskVars, bodyVars
<1>. QED BY <1>1, <1>2, <1>3, <1>4, <1>5, <1>6, <1>7, <1>8 DEF IInv

\* Sched_HandleEvent: the waiters of the event leave its queue, for the ready
\* queues or for the local queue of main.
LEMMA HandleEventInv ==
  ASSUME IInv, NEW e \in Events, NEW immediate \in BOOLEAN, HandleEvent(e, immediate)
  PROVE  IInv'
<1>. USE DEF HandleEvent, MainFree, CanLock, Reactivate, bodyVars
<1>0. /\ TypeOK /\ nfree = Cardinality(free) /\ FramesOK /\ PlacesOK
      /\ RequestsOK /\ RepliesOK /\ FamilyOK /\ LeavingsOK
  BY DEF IInv
<1>o. /\ \A o \in Threads, x \in Tasks :
           /\ Has(o, x)' <=> Has(o, x)
           /\ Finishing(o, x)' <=> Finishing(o, x)
           /\ \A k : Pending(o, x, k)' <=> Pending(o, x, k)
      /\ \A x \in Tasks :
           /\ Busy(x)' <=> Busy(x)
           /\ Claimed(x)' <=> Claimed(x)
           /\ Nesting(x)' <=> Nesting(x)
      /\ pc[Main] = "idle" /\ Main \in Threads /\ torun = {} /\ pc' = pc /\ cur' = cur
      /\ torun' \subseteq eventq[e] /\ eventq'[e] = {} /\ eventq[e] \subseteq Tasks
      /\ \A d \in Events : d # e => eventq'[d] = eventq[d]
      /\ \A x \in eventq[e] : /\ InEvent(x) /\ state[x] = "EVENT_BLOCKED" /\ ready[x] = 0
                              /\ ~Busy(x) /\ ~Nesting(x) /\ x \notin free
                              /\ \A o \in Threads : \A k : ~Pending(o, x, k)
                              /\ \A d \in Events : x \in eventq[d] => d = e
                              /\ earg'[x] \in {"none", "held"}
                              /\ earg'[x] = "held" => pinned[x]
                              /\ \/ state'[x] = "READY" /\ ready'[x] = 1 /\ x \notin torun'
                                 \/ state'[x] = "EVENT_BLOCKED" /\ ready'[x] = 0 /\ x \in torun'
      /\ \A x \in Tasks : x \notin eventq[e] =>
           earg'[x] = earg[x] /\ state'[x] = state[x] /\ ready'[x] = ready[x]
      /\ \A x \in Tasks : received[x] \subseteq Tasks /\ children[x] \subseteq Tasks
      /\ UNCHANGED <<pinned, detached, parent, req, dtor, future, free, nfree,
                     msgq, waited, nest, received, children>>
  <2>1. \A o \in Threads, x \in Tasks :
          /\ Has(o, x)' <=> Has(o, x)
          /\ Finishing(o, x)' <=> Finishing(o, x)
          /\ \A k : Pending(o, x, k)' <=> Pending(o, x, k)
    BY DEF Has, Finishing, Pending
  <2>2. \A x \in Tasks : /\ Busy(x)' <=> Busy(x)
                         /\ Claimed(x)' <=> Claimed(x)
                         /\ Nesting(x)' <=> Nesting(x)
    BY <2>1 DEF Busy, Claimed, Nesting
  <2>3. /\ pc[Main] = "idle" /\ Main \in Threads /\ torun = {} /\ pc' = pc /\ cur' = cur
        /\ torun' \subseteq eventq[e] /\ eventq'[e] = {} /\ eventq[e] \subseteq Tasks
        /\ \A d \in Events : d # e => eventq'[d] = eventq[d]
    BY <1>0 DEF FramesOK, TypeOK
  <2>4. ASSUME NEW x \in eventq[e]
        PROVE  /\ InEvent(x) /\ state[x] = "EVENT_BLOCKED" /\ ready[x] = 0
               /\ ~Busy(x) /\ ~Nesting(x) /\ x \notin free
               /\ \A o \in Threads : \A k : ~Pending(o, x, k)
               /\ \A d \in Events : x \in eventq[d] => d = e
               /\ e \in OwnedEvents => pinned[x]
    <3>1. x \in Tasks /\ InEvent(x)
      BY <2>3 DEF InEvent
    <3>2. PlaceState(x) /\ Exclusive(x) /\ Once(x) /\ ArgOK(x)
      BY <1>0, <3>1 DEF PlacesOK, LeavingsOK
    <3>3. /\ state[x] = "EVENT_BLOCKED" /\ ready[x] = 0
          /\ ~Busy(x) /\ ~Nesting(x) /\ x \notin free
          /\ \A d \in Events : x \in eventq[d] => d = e
          /\ e \in OwnedEvents => pinned[x]
      BY <1>0, <3>1, <3>2 DEF PlaceState, Exclusive, Once, ArgOK, TypeOK
    <3>4. \A o \in Threads : \A k : ~Pending(o, x, k)
      BY <3>3 DEF Busy, Has, Pending
    <3>. QED BY <3>1, <3>3, <3>4
  <2>5. ASSUME NEW x \in eventq[e]
        PROVE  /\ earg'[x] \in {"none", "held"} /\ (earg'[x] = "held" => pinned[x])
               /\ \/ state'[x] = "READY" /\ ready'[x] = 1 /\ x \notin torun'
                  \/ state'[x] = "EVENT_BLOCKED" /\ ready'[x] = 0 /\ x \in torun'
    <3>1. x \in Tasks /\ ready[x] = 0 /\ state[x] = "EVENT_BLOCKED" /\ (e \in OwnedEvents => pinned[x])
      BY <2>3, <2>4
    <3>2. CASE immediate
      BY <1>0, <3>1, <3>2
    <3>3. CASE ~immediate
      BY <1>0, <2>3, <3>1, <3>3
    <3>. QED BY <3>2, <3>3
  <2>6. ASSUME NEW x \in Tasks
        PROVE  /\ x \notin eventq[e] =>
                    earg'[x] = earg[x] /\ state'[x] = state[x] /\ ready'[x] = ready[x]
               /\ received[x] \subseteq Tasks /\ children[x] \subseteq Tasks
    <3>2. CASE immediate
      BY <1>0, <3>2 DEF TypeOK
    <3>3. CASE ~immediate
      BY <1>0, <3>3 DEF TypeOK
    <3>. QED BY <3>2, <3>3
  <2>7. UNCHANGED <<pinned, detached, parent, req, dtor, future, free, nfree,
                    msgq, waited, nest, received, children>>
    OBVIOUS
  <2>. HIDE DEF HandleEvent
  <2>. QED BY <2>1, <2>2, <2>3, <2>4, <2>5, <2>6, <2>7
<1>1. TypeOK'
  BY <1>0, SMTT(30) DEF TypeOK, States
<1>2. (nfree = Cardinality(free))'
  BY <1>0
<1>. HIDE DEF HandleEvent
<1>3. FramesOK'
  <2>1. CASE immediate
    BY <1>0, <2>1 DEF HandleEvent, FramesOK, TypeOK
  <2>2. CASE ~immediate
    BY <1>0, <2>2 DEF HandleEvent, FramesOK, TypeOK
  <2>. QED BY <2>1, <2>2
<1>4. PlacesOK'
  <2>. SUFFICES ASSUME NEW x \in Tasks
                PROVE  (PlaceState(x) /\ Exclusive(x) /\ Once(x) /\ StatePlace(x))'
    BY DEF PlacesOK
  <2>1. PlaceState(x) /\ Exclusive(x) /\ Once(x) /\ StatePlace(x)
    BY <1>0 DEF PlacesOK
  <2>2. PlaceState(x)'
    BY <1>0, <1>o, <2>1 DEF PlaceState, InEvent, InQueueOf
  <2>3. Exclusive(x)'
    BY <1>0, <1>o, <2>1 DEF Exclusive, PlaceState, Once, InEvent
  <2>4. Once(x)'
    BY <1>0, <1>o, <2>1 DEF Once, Exclusive
  <2>5. StatePlace(x)'
    BY <1>0, <1>o, <2>1 DEF StatePlace, InEvent, InQueueOf
  <2>. QED BY <2>2, <2>3, <2>4, <2>5
<1>5. RequestsOK'
  BY <1>0, <1>o DEF RequestsOK
<1>6. RepliesOK'
  BY <1>0, <1>o, SMTT(30) DEF RepliesOK, RequestsOK
<1>7. FamilyOK'
  <2>1. \A y \in Tasks : \A ch \in children[y] :
          parent[ch] = y /\ ~detached[ch] /\ ch \notin free /\ ~waited[ch]
    BY <1>0 DEF FamilyOK
  <2>2. ASSUME NEW y \in Tasks, NEW ch \in children[y]'
        PROVE  (parent[ch] = y /\ ~detached[ch] /\ ch \notin free /\ ~waited[ch])'
    BY <1>0, <1>o, <2>1, <2>2
  <2>3. ASSUME NEW o \in Threads, NEW y \in Tasks, Pending(o, y, "WAIT")'
        PROVE  (parent[req[y].to] = y /\ ~detached[req[y].to] =>
                  req[y].to \notin free \cup children[y] /\ ~waited[req[y].to])'
    BY <1>0, <1>o, <2>1, <2>3 DEF FamilyOK, RequestsOK
  <2>4. ASSUME NEW ch \in Tasks, waited[ch]'
        PROVE  (/\ ch \notin free /\ ~detached[ch] /\ state[ch] # "ZOMBIE"
                /\ parent[ch] \in Tasks
                /\ InWait(parent[ch]) /\ req[parent[ch]].to = ch
                /\ parent[ch] \notin free /\ ~Busy(parent[ch]) /\ ~Nesting(parent[ch]))'
    BY <1>0, <1>o, <2>1, <2>4 DEF FamilyOK, InWait, PlacesOK, PlaceState
  <2>. QED BY <2>2, <2>3, <2>4 DEF FamilyOK
<1>8. LeavingsOK'
  <2>. SUFFICES ASSUME NEW x \in Tasks
                PROVE  (ArgOK(x) /\ ExitOK(x))'
    BY DEF LeavingsOK
  <2>1. PlaceState(x) /\ Exclusive(x) /\ ArgOK(x) /\ ExitOK(x)
    BY <1>0 DEF PlacesOK, LeavingsOK
  <2>2. ArgOK(x)'
    BY <1>0, <1>o, <2>1 DEF ArgOK, PlaceState
  <2>3. ExitOK(x)'
    BY <1>0, <1>o, <2>1 DEF ExitOK, PlaceState
  <2>. QED BY <2>2, <2>3
<1>. HIDE DEF HandleEvent, MainFree, CanLock, Reactivate, bodyVars
<1>. QED BY <1>1, <1>2, <1>3, <1>4, <1>5, <1>6, <1>7, <1>8 DEF IInv

\* Sched_Create from outside a task or from a body main is running.
LEMMA SchedCreateInv ==
  ASSUME IInv, NEW c \in Tasks, SchedCreate(c)
  PROVE  IInv'
<1>. USE DEF SchedCreate, MainFree, CanLock, Spawn, Reactivate, FutureAtStart, threadVars
<1>0. /\ TypeOK /\ nfree = Cardinality(free) /\ FramesOK /\ PlacesOK
      /\ RequestsOK /\ RepliesOK /\ FamilyOK /\ LeavingsOK
  BY DEF IInv
<1>o. /\ \A o \in Threads, x \in Tasks :
           /\ Has(o, x)' <=> Has(o, x)
           /\ Finishing(o, x)' <=> Finishing(o, x)
           /\ \A k : Pending(o, x, k)' <=> Pending(o, x, k)
      /\ \A x \in Tasks :
           /\ Busy(x)' <=> Busy(x)
           /\ Claimed(x)' <=> Claimed(x)
           /\ Nesting(x)' <=> Nesting(x)
      /\ c \in Tasks /\ c \in free /\ state[c] \in {"ACTIVE", "ZOMBIE"}
      /\ ready[c] = 0 /\ ~Busy(c) /\ ~Nesting(c) /\ ~Claimed(c) /\ ~InEvent(c)
      /\ c \notin torun
      /\ \A r \in Tasks : ~InQueueOf(c, r) /\ c \notin received[r] /\ c \notin children[r]
      /\ \A o \in Threads : \A k : ~Pending(o, c, k) /\ ~Has(o, c) /\ ~Finishing(o, c)
      /\ \A o \in Threads, u \in Tasks : Pending(o, u, "REPLY") => req[u].to # c
      /\ ~waited[c] /\ \A d \in Tasks : waited[d] => parent[d] # c
      /\ \A o \in Threads : cur[o] # c
      /\ state'[c] = "READY" /\ ready'[c] = 1
      /\ free' = free \ {c} /\ detached'[c] /\ parent'[c] = NoTask
      /\ earg'[c] = "none" /\ dtor'[c] = "none" /\ future'[c] \in {"none", "incomplete"}
      /\ received'[c] = {} /\ children'[c] = {}
      /\ \A x \in Tasks : x # c =>
           /\ state'[x] = state[x] /\ ready'[x] = ready[x] /\ children'[x] = children[x]
           /\ pinned'[x] = pinned[x] /\ detached'[x] = detached[x] /\ parent'[x] = parent[x]
           /\ earg'[x] = earg[x] /\ dtor'[x] = dtor[x] /\ future'[x] = future[x]
           /\ received'[x] = received[x]
      /\ \A x \in Tasks : received[x] \subseteq Tasks /\ children[x] \subseteq Tasks
      /\ pc' = pc /\ cur' = cur
      /\ UNCHANGED <<req, msgq, eventq, waited, torun, nest>>
  <2>1. \A o \in Threads, x \in Tasks :
          /\ Has(o, x)' <=> Has(o, x)
          /\ Finishing(o, x)' <=> Finishing(o, x)
          /\ \A k : Pending(o, x, k)' <=> Pending(o, x, k)
    BY DEF Has, Finishing, Pending
  <2>2. \A x \in Tasks : /\ Busy(x)' <=> Busy(x)
                         /\ Claimed(x)' <=> Claimed(x)
                         /\ Nesting(x)' <=> Nesting(x)
    BY <2>1 DEF Busy, Claimed, Nesting
  <2>3. /\ free' = free \ {c} /\ detached'[c] /\ parent'[c] = NoTask
        /\ earg'[c] = "none" /\ dtor'[c] = "none" /\ future'[c] \in {"none", "incomplete"}
        /\ received'[c] = {} /\ children'[c] = {} /\ pc' = pc /\ cur' = cur
        /\ UNCHANGED <<req, msgq, eventq, waited, torun, nest>>
    BY <1>0 DEF TypeOK
  <2>4. \A x \in Tasks : x # c =>
          /\ state'[x] = state[x] /\ ready'[x] = ready[x] /\ children'[x] = children[x]
          /\ pinned'[x] = pinned[x] /\ detached'[x] = detached[x] /\ parent'[x] = parent[x]
          /\ earg'[x] = earg[x] /\ dtor'[x] = dtor[x] /\ future'[x] = future[x]
          /\ received'[x] = received[x]
    BY <1>0 DEF TypeOK
  <2>5. c \in free /\ state'[c] = "READY" /\ ready'[c] = ready[c] + 1
    BY <1>0 DEF TypeOK
  <2>6. /\ pc[Main] \in {"idle", "running"} /\ lock \in {NoThread, Main}
    OBVIOUS
  <2>. HIDE DEF SchedCreate
  <2>7. /\ state[c] \in {"ACTIVE", "ZOMBIE"}
        /\ ready[c] = 0 /\ ~Busy(c) /\ ~Nesting(c) /\ ~Claimed(c) /\ ~InEvent(c)
        /\ c \notin torun
        /\ \A r \in Tasks : ~InQueueOf(c, r) /\ c \notin received[r] /\ c \notin children[r]
        /\ \A o \in Threads : \A k : ~Pending(o, c, k) /\ ~Has(o, c)
        /\ \A o \in Threads, u \in Tasks : Pending(o, u, "REPLY") => req[u].to # c
        /\ ~waited[c] /\ \A d \in Tasks : waited[d] => parent[d] # c
    BY <2>5, FreeElsewhere
  <2>8. \A o \in Threads : ~Finishing(o, c) /\ cur[o] # c
    <3>1. \A o \in Threads : pc[o] \notin {"serviced", "released"}
      BY <1>0, <2>6 DEF FramesOK
    <3>2. \A o \in Threads : ~Has(o, c)
      BY <2>7
    <3>3. \A o \in Threads : cur[o] = c => pc[o] # "idle"
      BY <1>0, <2>5 DEF FramesOK, TypeOK
    <3>. QED BY <1>0, <3>1, <3>2, <3>3 DEF Finishing, Has, TypeOK
  <2>9. \A x \in Tasks : received[x] \subseteq Tasks /\ children[x] \subseteq Tasks
    BY <1>0 DEF TypeOK
  <2>10. ready'[c] = 1
    BY <2>5, <2>7
  <2>. QED BY <2>1, <2>2, <2>3, <2>4, <2>5, <2>7, <2>8, <2>9, <2>10, SMTT(30)
<1>1. TypeOK'
  <2>0. PICK kind \in Kinds : Spawn(c, [kind EXCEPT !.det = TRUE], NoTask, {})
    OBVIOUS
  <2>1. kind \in [pin : BOOLEAN, det : BOOLEAN, fut : BOOLEAN]
    OBVIOUS
  <2>2. nfree' \in Nat
    BY <1>0, <2>1, FreeCount
  <2>3. /\ state' \in [Tasks -> States] /\ ready' \in [Tasks -> Nat]
        /\ free' \in SUBSET Tasks
    BY <1>0, <2>0, <2>1 DEF TypeOK, States
  <2>4. /\ pinned' \in [Tasks -> BOOLEAN] /\ detached' \in [Tasks -> BOOLEAN]
        /\ parent' \in [Tasks -> Tasks \cup {NoTask}]
        /\ earg' \in [Tasks -> {"none", "held", "freed"}]
        /\ dtor' \in [Tasks -> {"none", "set", "ran"}]
        /\ future' \in [Tasks -> {"none", "incomplete", "complete"}]
    BY <1>0, <2>0, <2>1 DEF TypeOK
  <2>5. received' \in [Tasks -> SUBSET Tasks] /\ children' \in [Tasks -> SUBSET Tasks]
    BY <1>0, <2>0, <2>1 DEF TypeOK
  <2>6. UNCHANGED <<req, msgq, eventq, waited, lock, pc, cur, nest, mainOp, torun>>
    OBVIOUS
  <2>. HIDE DEF SchedCreate
  <2>. QED BY <1>0, <2>2, <2>3, <2>4, <2>5, <2>6 DEF TypeOK
<1>2. (nfree = Cardinality(free))'
  BY <1>0, FreeCount
<1>. HIDE DEF SchedCreate
<1>3. FramesOK'
  BY <1>0 DEF FramesOK, TypeOK, SchedCreate
<1>4. PlacesOK'
  <2>. SUFFICES ASSUME NEW x \in Tasks
                PROVE  (PlaceState(x) /\ Exclusive(x) /\ Once(x) /\ StatePlace(x))'
    BY DEF PlacesOK
  <2>1. PlaceState(x) /\ Exclusive(x) /\ Once(x) /\ StatePlace(x)
    BY <1>0 DEF PlacesOK
  <2>2. PlaceState(x)'
    BY <1>0, <1>o, <2>1 DEF PlaceState, InEvent, InQueueOf
  <2>3. Exclusive(x)'
    BY <1>0, <1>o, <2>1 DEF Exclusive, PlaceState, Once, InEvent
  <2>4. Once(x)'
    BY <1>0, <1>o, <2>1 DEF Once, Exclusive
  <2>5. StatePlace(x)'
    BY <1>0, <1>o, <2>1 DEF StatePlace, InEvent, InQueueOf
  <2>. QED BY <2>2, <2>3, <2>4, <2>5
<1>5. RequestsOK'
  BY <1>0, <1>o DEF RequestsOK
<1>6. RepliesOK'
  BY <1>0, <1>o, SMTT(30) DEF RepliesOK, RequestsOK
<1>7. FamilyOK'
  <2>1. \A y \in Tasks : \A ch \in children[y] :
          parent[ch] = y /\ ~detached[ch] /\ ch \notin free /\ ~waited[ch]
    BY <1>0 DEF FamilyOK
  <2>2. ASSUME NEW y \in Tasks, NEW ch \in children[y]'
        PROVE  (parent[ch] = y /\ ~detached[ch] /\ ch \notin free /\ ~waited[ch])'
    BY <1>0, <1>o, <2>1, <2>2
  <2>3. ASSUME NEW o \in Threads, NEW y \in Tasks, Pending(o, y, "WAIT")'
        PROVE  (parent[req[y].to] = y /\ ~detached[req[y].to] =>
                  req[y].to \notin free \cup children[y] /\ ~waited[req[y].to])'
    BY <1>0, <1>o, <2>1, <2>3 DEF FamilyOK, RequestsOK
  <2>4. ASSUME NEW ch \in Tasks, waited[ch]'
        PROVE  (/\ ch \notin free /\ ~detached[ch] /\ state[ch] # "ZOMBIE"
                /\ parent[ch] \in Tasks
                /\ InWait(parent[ch]) /\ req[parent[ch]].to = ch
                /\ parent[ch] \notin free /\ ~Busy(parent[ch]) /\ ~Nesting(parent[ch]))'
    BY <1>0, <1>o, <2>1, <2>4 DEF FamilyOK, InWait, PlacesOK, PlaceState
  <2>. QED BY <2>2, <2>3, <2>4 DEF FamilyOK
<1>8. LeavingsOK'
  <2>. SUFFICES ASSUME NEW x \in Tasks
                PROVE  (ArgOK(x) /\ ExitOK(x))'
    BY DEF LeavingsOK
  <2>1. PlaceState(x) /\ Exclusive(x) /\ ArgOK(x) /\ ExitOK(x)
    BY <1>0 DEF PlacesOK, LeavingsOK
  <2>2. ArgOK(x)'
    BY <1>0, <1>o, <2>1 DEF ArgOK, PlaceState, InEvent
  <2>3. ExitOK(x)'
    BY <1>0, <1>o, <2>1 DEF ExitOK, PlaceState
  <2>. QED BY <2>2, <2>3
<1>. HIDE DEF SchedCreate, MainFree, CanLock, Spawn, Reactivate, FutureAtStart, threadVars
<1>. QED BY <1>1, <1>2, <1>3, <1>4, <1>5, <1>6, <1>7, <1>8 DEF IInv

\* The two service tasks take two slots of the table.
LEMMA ServicePairCount ==
  ASSUME NEW S \in ServicePairs
  PROVE  /\ S \subseteq Tasks /\ IsFiniteSet(Tasks \ S)
         /\ Cardinality(Tasks) - 2 = Cardinality(Tasks \ S)
         /\ Cardinality(Tasks) - 2 \in Nat
<1>1. S \subseteq Tasks /\ Cardinality(S) = 2
  BY DEF ServicePairs
<1>2. IsFiniteSet(S) /\ IsFiniteSet(Tasks \ S) /\ IsFiniteSet(Tasks)
  BY <1>1, FS_Subset
<1>3. Cardinality(Tasks \ S) = Cardinality(Tasks) - Cardinality(Tasks \cap S)
  BY <1>2, FS_Difference
<1>4. Tasks \cap S = S
  BY <1>1
<1>. QED BY <1>1, <1>2, <1>3, <1>4, FS_CardinalityType

\* The threads are idle, the queues are empty, and the tasks are the two
\* services, ready to run.
Fresh(S) ==
  /\ nfree = Cardinality(Tasks) - 2 /\ free = Tasks \ S
  /\ \A t \in Tasks : /\ state[t] = IF t \in S THEN "READY" ELSE "ACTIVE"
                      /\ ready[t] = IF t \in S THEN 1 ELSE 0
                      /\ msgq[t] = <<>> /\ ~waited[t]
                      /\ received[t] = {} /\ children[t] = {}
                      /\ t \in S => detached[t] /\ future[t] = "none"
                      /\ t \in S => dtor[t] = "none" /\ earg[t] = "none"
                      /\ t \notin S => dtor[t] # "set" /\ earg[t] # "held"
  /\ \A e \in Events : eventq[e] = {}
  /\ \A thr \in Threads : pc[thr] = "idle" /\ cur[thr] = NoTask
  /\ lock = NoThread /\ nest = <<>> /\ mainOp = "none" /\ torun = {}

SomeFresh == \E S \in ServicePairs : Fresh(S)

\* A table with nothing but the two services satisfies the invariant.
LEMMA FreshInv == TypeOK /\ SomeFresh => IInv
<1>. SUFFICES ASSUME TypeOK, NEW S \in ServicePairs, Fresh(S)
              PROVE  IInv
  BY DEF SomeFresh
<1>. USE DEF Fresh
<1>0. S \subseteq Tasks
  BY DEF ServicePairs
<1>1. /\ \A o \in Threads, x \in Tasks : ~Has(o, x) /\ ~Finishing(o, x)
      /\ \A o \in Threads, x \in Tasks : \A k : ~Pending(o, x, k)
      /\ \A x \in Tasks : ~Busy(x) /\ ~Claimed(x) /\ ~Nesting(x) /\ ~InEvent(x)
      /\ \A x, r \in Tasks : ~InQueueOf(x, r)
      /\ DOMAIN nest = {} /\ \A x \in Tasks : DOMAIN msgq[x] = {}
  BY DEF Has, Finishing, Pending, Busy, Claimed, Nesting, InEvent, InQueueOf
<1>2. nfree = Cardinality(free)
  BY ServicePairCount
<1>3. FramesOK
  BY <1>1 DEF FramesOK, TypeOK
<1>4. PlacesOK
  <2>. SUFFICES ASSUME NEW x \in Tasks
                PROVE  PlaceState(x) /\ Exclusive(x) /\ Once(x) /\ StatePlace(x)
    BY DEF PlacesOK
  <2>1. PlaceState(x)
    BY <1>0, <1>1 DEF PlaceState
  <2>2. Exclusive(x)
    BY <1>1 DEF Exclusive
  <2>3. Once(x)
    BY <1>1 DEF Once
  <2>4. StatePlace(x)
    BY <1>0, <1>1 DEF StatePlace
  <2>. QED BY <2>1, <2>2, <2>3, <2>4
<1>5. RequestsOK /\ RepliesOK
  BY <1>1 DEF RequestsOK, RepliesOK
<1>6. FamilyOK
  BY <1>1 DEF FamilyOK
<1>7. LeavingsOK
  <2>. SUFFICES ASSUME NEW x \in Tasks
                PROVE  ArgOK(x) /\ ExitOK(x)
    BY DEF LeavingsOK
  <2>1. ArgOK(x)
    BY <1>0, <1>1 DEF ArgOK, TypeOK, InEvent
  <2>2. ExitOK(x)
    BY <1>0, <1>1 DEF ExitOK, TypeOK
  <2>. QED BY <2>1, <2>2
<1>. QED BY <1>2, <1>3, <1>4, <1>5, <1>6, <1>7 DEF IInv

\* The invariant holds when the scheduler is initialised.
LEMMA InitInv == Init => IInv
<1>. SUFFICES ASSUME NEW S \in ServicePairs, InitWith(S)
              PROVE  IInv
  BY DEF Init
<1>1. /\ S \subseteq Tasks /\ Cardinality(Tasks) - 2 \in Nat
  BY ServicePairCount
<1>2. TypeOK
  BY <1>1 DEF InitWith, TypeOK, States, Req, Request, AllRequests
<1>3. Fresh(S)
  BY DEF InitWith, Fresh
<1>. QED BY <1>2, <1>3, FreshInv DEF SomeFresh

\* Sched_ClearState leaves a fresh table: every task it forgets has been cleaned
\* up or has nothing left to clean.
LEMMA ClearStateInv ==
  ASSUME IInv, NEW S \in ServicePairs, NEW found \in SUBSET Tasks, ClearState(S, found)
  PROVE  IInv'
<1>. USE DEF ClearState, MainFree, threadVars
<1>0. TypeOK /\ FramesOK /\ PlacesOK /\ LeavingsOK
  BY DEF IInv
<1>1. S \subseteq Tasks /\ Cardinality(Tasks) - 2 \in Nat
  BY ServicePairCount
<1>2. TypeOK'
  <2>1. /\ state' \in [Tasks -> States] /\ ready' \in [Tasks -> Nat]
        /\ free' \in SUBSET Tasks /\ nfree' \in Nat
    BY <1>1 DEF States
  <2>2. /\ pinned' \in [Tasks -> BOOLEAN] /\ detached' \in [Tasks -> BOOLEAN]
        /\ parent' \in [Tasks -> Tasks \cup {NoTask}]
        /\ future' \in [Tasks -> {"none", "incomplete", "complete"}]
    BY <1>0 DEF TypeOK
  <2>3. /\ earg' \in [Tasks -> {"none", "held", "freed"}]
        /\ dtor' \in [Tasks -> {"none", "set", "ran"}]
    BY <1>0 DEF TypeOK
  <2>4. /\ received' \in [Tasks -> SUBSET Tasks] /\ children' \in [Tasks -> SUBSET Tasks]
        /\ msgq' \in [Tasks -> Seq(Tasks)] /\ eventq' \in [Events -> SUBSET Tasks]
        /\ waited' \in [Tasks -> BOOLEAN]
    OBVIOUS
  <2>5. UNCHANGED <<req, lock, pc, cur, nest, mainOp, torun>>
    OBVIOUS
  <2>. HIDE DEF ClearState
  <2>. QED BY <1>0, <2>1, <2>2, <2>3, <2>4, <2>5 DEF TypeOK
<1>3. /\ \A thr \in Threads : pc[thr] = "idle" /\ cur[thr] = NoTask
      /\ nest = <<>> /\ torun = {} /\ mainOp = "none" /\ lock = NoThread
  BY <1>0 DEF FramesOK, TypeOK
<1>4. \A x \in Tasks : ~Busy(x) /\ ~Claimed(x) /\ ~Nesting(x) /\ ~Finishing(Main, x)
  BY <1>3 DEF Busy, Has, Claimed, Nesting, Finishing
<1>5. ASSUME NEW x \in Tasks, x \notin S
      PROVE  dtor'[x] # "set" /\ earg'[x] # "held"
  <2>1. ArgOK(x) /\ ExitOK(x) /\ StatePlace(x)
    BY <1>0 DEF PlacesOK, LeavingsOK
  <2>2. /\ dtor'[x] = IF x \in Cleaned(found) /\ dtor[x] = "set" THEN "ran" ELSE dtor[x]
        /\ earg'[x] = IF x \in Cleaned(found) /\ earg[x] = "held" THEN "freed" ELSE earg[x]
    BY <1>5
  <2>3. dtor[x] = "set" => x \in Cleaned(found)
    <3>. SUFFICES ASSUME dtor[x] = "set" PROVE x \in Cleaned(found)
      OBVIOUS
    <3>1. state[x] \in {"READY", "SEND_BLOCKED"}
      BY <1>0, <1>4, <2>1 DEF ExitOK, TypeOK, States
    <3>. QED BY <1>4, <2>1, <3>1 DEF StatePlace, Cleaned
  <2>4. earg[x] = "held" => x \in Cleaned(found)
    <3>. SUFFICES ASSUME earg[x] = "held" PROVE x \in Cleaned(found)
      OBVIOUS
    <3>1. state[x] = "READY"
      BY <1>3, <1>4, <2>1 DEF ArgOK
    <3>. QED BY <1>4, <2>1, <3>1 DEF StatePlace, Cleaned
  <2>. QED BY <2>2, <2>3, <2>4
<1>6. Fresh(S)'
  BY <1>0, <1>1, <1>3, <1>5 DEF Fresh
<1>7. SomeFresh'
  BY <1>6 DEF SomeFresh
<1>. QED BY <1>2, <1>7, FreshInv, PTL

-----------------------------------------------------------------------------
(* The invariant holds *)

\* The invariant depends on nothing but the variables.
LEMMA StutterInv == IInv /\ UNCHANGED vars => IInv'
<1>. SUFFICES ASSUME IInv, UNCHANGED vars PROVE IInv'
  OBVIOUS
<1>1. /\ UNCHANGED <<state, pinned, detached, parent, req, earg, dtor, future>>
      /\ UNCHANGED <<free, nfree, ready, msgq, eventq, waited, lock>>
      /\ UNCHANGED <<pc, cur, nest, mainOp, torun, received, children>>
  BY DEF vars, taskVars, schedVars, threadVars, bodyVars
<1>2. /\ TypeOK' <=> TypeOK
      /\ (nfree = Cardinality(free))' <=> nfree = Cardinality(free)
      /\ FramesOK' <=> FramesOK
  BY <1>1 DEF TypeOK, FramesOK
<1>3. PlacesOK' <=> PlacesOK
  BY <1>1 DEF PlacesOK, PlaceState, Exclusive, Once, StatePlace, Has, Busy, Claimed,
              Nesting, InEvent, InQueueOf
<1>4. (RequestsOK' <=> RequestsOK) /\ (RepliesOK' <=> RepliesOK)
  BY <1>1 DEF RequestsOK, RepliesOK, Pending
<1>5. FamilyOK' <=> FamilyOK
  BY <1>1 DEF FamilyOK, Pending, InWait, Busy, Nesting, Has
<1>6. LeavingsOK' <=> LeavingsOK
  BY <1>1 DEF LeavingsOK, ArgOK, ExitOK, Busy, Nesting, Has, Finishing, Pending
<1>. QED BY <1>2, <1>3, <1>4, <1>5, <1>6 DEF IInv

\* Servicing any request preserves the invariant.
LEMMA ServiceInv ==
  ASSUME IInv, NEW thr \in Threads, NEW t \in Tasks, ServiceStep(thr, t)
  PROVE  IInv'
<1>1. CASE ServiceSend(thr, t)
  BY <1>1, ServiceSendDeliveredInv, ServiceSendQueuedInv
<1>2. CASE ServiceReceive(thr, t)
  BY <1>2, ServiceReceiveQueuedInv, ServiceReceiveBlockedInv
<1>3. CASE ServiceWait(thr, t)
  BY <1>3, ServiceWaitFailedInv, ServiceWaitCollectsInv, ServiceWaitMarksInv
<1>4. CASE ServiceFree(thr, t)
  BY <1>4, ServiceFreeDetachedInv, ServiceFreeWakesInv, ServiceFreeZombieInv
<1>5. CASE ServiceSelf(thr, t)
  BY <1>5, ServiceSelfInv
<1>6. CASE ServiceSetDestructor(thr, t)
  BY <1>6, ServiceSetDestructorInv
<1>7. CASE ServiceCreate(thr, t)
  BY <1>7, ServiceCreateInv
<1>8. CASE ServiceReply(thr, t)
  BY <1>8, ServiceReplyInv
<1>9. CASE ServiceAwaitEvent(thr, t)
  BY <1>9, ServiceAwaitEventInv
<1>. QED BY <1>1, <1>2, <1>3, <1>4, <1>5, <1>6, <1>7, <1>8, <1>9 DEF ServiceStep

\* Every step preserves the invariant.
LEMMA StepInv == IInv /\ [Next]_vars => IInv'
<1>. SUFFICES ASSUME IInv, Next PROVE IInv'
  BY StutterInv
<1>1. ASSUME NEW thr \in Threads, NEW t \in Tasks,
             Pop(thr, t) \/ RequestStep(thr, t) \/ ServiceStep(thr, t)
      PROVE  IInv'
  <2>1. CASE Pop(thr, t)
    BY <2>1, PopInv
  <2>2. CASE RequestStep(thr, t)
    BY <2>2, RequestInv, ExitInv
  <2>3. CASE ServiceStep(thr, t)
    BY <2>3, ServiceInv
  <2>. QED BY <1>1, <2>1, <2>2, <2>3
<1>2. ASSUME NEW thr \in Threads, Run(thr) \/ PostRelease(thr) \/ PostDone(thr)
      PROVE  IInv'
  BY <1>2, RunInv, PostReleaseInv, PostDoneInv
<1>3. ASSUME NEW t \in Tasks, NEW target \in Tasks, RequestRunSync(t, target)
      PROVE  IInv'
  BY <1>3, RequestRunSyncInv
<1>4. ASSUME NEW t \in Tasks,
             ServiceRunSync(t) \/ SchedCreate(t) \/ HandleNext(t) \/ RunSync(t)
      PROVE  IInv'
  <2>1. CASE ServiceRunSync(t)
    <3>1. Pending(Main, t, "RUN_SYNC") /\ Main \in Threads
      BY <2>1 DEF ServiceRunSync, Service, Pending
    <3>2. req[t].to \in Tasks
      BY <3>1 DEF IInv, RequestsOK
    <3>. QED BY <2>1, <3>2, ServiceRunSyncInv
  <2>2. CASE SchedCreate(t)
    BY <2>2, SchedCreateInv
  <2>3. CASE HandleNext(t)
    BY <2>3, HandleNextInv
  <2>4. CASE RunSync(t)
    BY <2>4, RunSyncInv
  <2>. QED BY <1>4, <2>1, <2>2, <2>3, <2>4
<1>5. CASE PostNested
  <2>1. nest \in Seq(Tasks) /\ nest # <<>>
    BY <1>5 DEF PostNested, Nested, IInv, TypeOK
  <2>2. nest[Len(nest)] \in Tasks
    BY <2>1, FrontElements
  <2>. QED BY <1>5, <2>2, PostNestedInv
<1>6. ASSUME NEW e \in Events, NEW immediate \in BOOLEAN, HandleEvent(e, immediate)
      PROVE  IInv'
  BY <1>6, HandleEventInv
<1>7. CASE HandleDone
  BY <1>7, HandleDoneInv
<1>8. ASSUME NEW S \in ServicePairs, NEW found \in SUBSET Tasks, ClearState(S, found)
      PROVE  IInv'
  BY <1>8, ClearStateInv
<1>. QED BY <1>1, <1>2, <1>3, <1>4, <1>5, <1>6, <1>7, <1>8 DEF Next

\* IInv is an invariant of the scheduler.
THEOREM Invariance == Spec => []IInv
BY InitInv, StepInv, PTL DEF Spec

-----------------------------------------------------------------------------
(* What the invariant implies: the properties the runs check, for every      *)
(* number of tasks, worker threads and events.                               *)

\* Every variable has its type.
THEOREM TypeCorrectness == Spec => []TypeOK
<1>1. IInv => TypeOK
  BY DEF IInv
<1>. QED BY <1>1, Invariance, PTL

\* The places of OnePlace, spelled as the invariant spells them.
LEMMA PlacesAt ==
  ASSUME NEW t \in Tasks
  PROVE  /\ At(t, "free") <=> t \in free
         /\ At(t, "queue") <=> ready[t] > 0
         /\ At(t, "thread") <=> Busy(t)
         /\ At(t, "torun") <=> t \in torun
         /\ At(t, "claimed") <=> Claimed(t)
         /\ At(t, "nesting") <=> Nesting(t)
         /\ At(t, "event") <=> InEvent(t)
         /\ At(t, "message") <=> \E r \in Tasks : InQueueOf(t, r)
         /\ At(t, "blocked") <=> state[t] \in {"SEND_BLOCKED", "REPLY_BLOCKED"}
         /\ At(t, "zombie") <=> state[t] = "ZOMBIE" /\ t \notin free
BY DEF At, Busy, InEvent, InQueueOf

\* Two places with the same state exclude each other, two with different
\* states do too.
LEMMA OnlyOneAt ==
  ASSUME IInv, NEW t \in Tasks, NEW j \in PlaceKinds, NEW k \in PlaceKinds,
         At(t, j), At(t, k)
  PROVE  j = k
<1>1. TypeOK /\ FramesOK /\ PlaceState(t) /\ Exclusive(t)
  BY DEF IInv, PlacesOK
<1>2. state[t] \in States /\ ready[t] \in Nat
  BY <1>1 DEF TypeOK
<1>3. /\ Busy(t) => \/ state[t] \in {"ACTIVE", "READY", "EVENT_BLOCKED"}
      /\ Claimed(t) => state[t] = "READY"
  BY <1>1 DEF PlaceState, Busy, Has
<1>4. /\ t \in free => state[t] \in {"ACTIVE", "ZOMBIE"} /\ ~Busy(t) /\ ~Nesting(t)
      /\ ready[t] > 0 => state[t] = "READY"
      /\ t \in torun => state[t] = "EVENT_BLOCKED"
      /\ InEvent(t) => state[t] = "EVENT_BLOCKED" /\ t \notin torun
      /\ Nesting(t) => state[t] = "ACTIVE"
      /\ (\E r \in Tasks : InQueueOf(t, r)) => state[t] = "RECV_BLOCKED"
      /\ Busy(t) => ~Nesting(t) /\ ~(ready[t] > 0) /\ ~Claimed(t) /\ ~InEvent(t) /\ t \notin torun
      /\ Claimed(t) => ~(ready[t] > 0)
  BY <1>1, <1>2 DEF PlaceState, Exclusive
<1>. HIDE DEF PlaceKinds
<1>5. \A a \in PlaceKinds : a \in {"free", "queue", "thread", "torun", "claimed", "nesting",
                                   "event", "message", "blocked", "zombie"}
  BY DEF PlaceKinds
<1>6. CASE state[t] = "ACTIVE"
  BY <1>3, <1>4, <1>5, <1>6, PlacesAt
<1>7. CASE state[t] = "READY"
  BY <1>3, <1>4, <1>5, <1>7, PlacesAt
<1>8. CASE state[t] = "EVENT_BLOCKED"
  BY <1>3, <1>4, <1>5, <1>8, PlacesAt
<1>9. CASE state[t] \in {"RECV_BLOCKED", "SEND_BLOCKED", "REPLY_BLOCKED", "ZOMBIE"}
  BY <1>3, <1>4, <1>5, <1>9, PlacesAt
<1>. QED BY <1>2, <1>6, <1>7, <1>8, <1>9 DEF States

\* A task is in one place only, once, and only a task inside Task_Wait is in
\* none.
THEOREM OnePlaceHolds == Spec => []OnePlace
<1>1. IInv => OnePlace
  <2>. SUFFICES ASSUME IInv, NEW t \in Tasks
                PROVE  /\ \A j, k \in PlaceKinds : At(t, j) /\ At(t, k) => j = k
                       /\ (\A k \in PlaceKinds : ~At(t, k)) => InWait(t)
                       /\ Once(t)
    BY DEF OnePlace, Once
  <2>1. PlaceState(t) /\ StatePlace(t) /\ Once(t) /\ state[t] \in States
    BY DEF IInv, PlacesOK, TypeOK
  <2>2. \A j, k \in PlaceKinds : At(t, j) /\ At(t, k) => j = k
    BY OnlyOneAt
  <2>3. ASSUME \A k \in PlaceKinds : ~At(t, k)
        PROVE  InWait(t)
    <3>1. /\ t \notin free /\ ~(ready[t] > 0) /\ ~Busy(t) /\ t \notin torun
          /\ ~Claimed(t) /\ ~Nesting(t) /\ ~InEvent(t)
          /\ ~\E r \in Tasks : InQueueOf(t, r)
          /\ state[t] \notin {"SEND_BLOCKED", "REPLY_BLOCKED"}
          /\ ~(state[t] = "ZOMBIE" /\ t \notin free)
      BY <2>3, PlacesAt DEF PlaceKinds
    <3>. QED BY <2>1, <3>1 DEF StatePlace, InWait, States
  <2>. QED BY <2>1, <2>2, <2>3
<1>. QED BY <1>1, Invariance, PTL

\* The count of free slots is the length of the free list.
THEOREM FreeCountHolds == Spec => []FreeCountExact
<1>1. IInv => FreeCountExact
  BY DEF IInv, FreeCountExact
<1>. QED BY <1>1, Invariance, PTL

\* sched_reply finds its target blocked on that reply; nobody is owed two.
THEOREM RepliesOwedHolds == Spec => []RepliesOwed
<1>1. IInv => RepliesOwed
  BY DEF IInv, RepliesOK, RepliesOwed, Pending, Has
<1>. QED BY <1>1, Invariance, PTL

\* The thread that serviced a request has nothing left to do with a task that
\* another thread resumes.
THEOREM HandedBackHolds == Spec => []HandedBackUntouched
<1>1. IInv => HandedBackUntouched
  <2>. SUFFICES ASSUME IInv, NEW thr \in Threads, NEW other \in Threads, NEW t \in Tasks,
                       thr # other, Finishing(thr, t), Has(other, t)
                PROVE  earg[t] = "none" /\ req[t].type # "WAIT"
    BY DEF HandedBackUntouched
  <2>1. ArgOK(t) /\ FramesOK /\ TypeOK
    BY DEF IInv, LeavingsOK
  <2>2. PICK w \in Workers : cur[w] = t
    BY <2>1 DEF Finishing, Has, Threads
  <2>3. ~pinned[t] /\ earg[t] = "none"
    BY <2>1, <2>2 DEF ArgOK
  <2>. QED BY <2>1, <2>3 DEF ArgOK
<1>. QED BY <1>1, Invariance, PTL

\* A running task's event argument was not released behind its back.
THEOREM NoStaleArgHolds == Spec => []NoStaleArg
<1>1. IInv => NoStaleArg
  <2>. SUFFICES ASSUME IInv, NEW thr \in Threads, NEW t \in Tasks, Runs(thr, t),
                       earg[t] = "freed"
                PROVE  FALSE
    BY DEF NoStaleArg
  <2>1. ArgOK(t) /\ Exclusive(t) /\ Once(t) /\ TypeOK
    BY DEF IInv, LeavingsOK, PlacesOK
  <2>2. Has(thr, t) /\ Busy(t)
    BY DEF Runs, Has, Busy
  <2>3. t \notin free
    BY <2>1, <2>2 DEF Exclusive
  <2>4. pc[Main] = "released" /\ cur[Main] = t /\ pinned[t]
    BY <2>1, <2>3 DEF ArgOK
  <2>5. thr = Main
    BY <2>1, <2>4 DEF ArgOK, Runs, Threads
  <2>. QED BY <2>4, <2>5 DEF Runs
<1>. QED BY <1>1, Invariance, PTL

\* A pinned task is only ever run by the main thread.
THEOREM PinnedOnMainHolds == Spec => []PinnedOnMain
<1>1. IInv => PinnedOnMain
  BY DEF IInv, LeavingsOK, ArgOK, PinnedOnMain, Has
<1>. QED BY <1>1, Invariance, PTL

\* A slot is free only once its destructor has run and its event argument has
\* been released.
THEOREM CleanedHolds == Spec => []CleanedBeforeFree
<1>1. IInv => CleanedBeforeFree
  <2>. SUFFICES ASSUME IInv, NEW t \in free
                PROVE  dtor[t] # "set" /\ earg[t] # "held"
    BY DEF CleanedBeforeFree
  <2>1. t \in Tasks
    BY DEF IInv, TypeOK
  <2>. QED BY <2>1 DEF IInv, LeavingsOK, ExitOK
<1>. QED BY <1>1, Invariance, PTL

\* A parent marked as waiting is inside Task_Wait for a child that will still
\* exit: its wake-up is not lost.
THEOREM WaitNotLostHolds == Spec => []WaitNotLost
<1>1. IInv => WaitNotLost
  <2>. SUFFICES ASSUME IInv, NEW c \in Tasks, waited[c]
                PROVE  /\ c \notin free /\ state[c] # "ZOMBIE"
                       /\ parent[c] \in Tasks
                       /\ InWait(parent[c]) /\ req[parent[c]].to = c
                       /\ \A k \in PlaceKinds : ~At(parent[c], k)
    BY DEF WaitNotLost
  <2>. DEFINE p == parent[c]
  <2>1. /\ c \notin free /\ ~detached[c] /\ state[c] # "ZOMBIE" /\ p \in Tasks
        /\ InWait(p) /\ req[p].to = c /\ p \notin free /\ ~Busy(p) /\ ~Nesting(p)
    BY DEF IInv, FamilyOK
  <2>. HIDE DEF p
  <2>2. PlaceState(p) /\ state[p] = "ACTIVE" /\ ready[p] \in Nat
    BY <2>1 DEF IInv, PlacesOK, InWait, TypeOK
  <2>3. /\ p \notin free /\ ~(ready[p] > 0) /\ ~Busy(p) /\ p \notin torun
        /\ ~Claimed(p) /\ ~Nesting(p) /\ ~InEvent(p)
        /\ ~\E r \in Tasks : InQueueOf(p, r)
        /\ state[p] \notin {"SEND_BLOCKED", "REPLY_BLOCKED"}
        /\ ~(state[p] = "ZOMBIE" /\ p \notin free)
    BY <2>1, <2>2 DEF PlaceState
  <2>4. \A k \in PlaceKinds : ~At(p, k)
    BY <2>1, <2>3, PlacesAt DEF PlaceKinds
  <2>. QED BY <2>1, <2>4 DEF p
<1>. QED BY <1>1, Invariance, PTL

\* s_request_lock is held by every thread inside a service, and by no other.
THEOREM LockedServiceHolds == Spec => []LockedService
<1>1. IInv => LockedService
  BY DEF IInv, FramesOK, LockedService
<1>. QED BY <1>1, Invariance, PTL

\* Sched_RunSync finds a pinned task that is READY, wherever main may call it.
THEOREM PinnedRunsSyncHolds == Spec => []PinnedRunsSync
<1>1. IInv => PinnedRunsSync
  <2>. SUFFICES ASSUME IInv, MainFree \/ pc[Main] = "running",
                       NEW t \in Tasks, pinned[t], state[t] = "READY"
                PROVE  ready[t] > 0
    BY DEF PinnedRunsSync
  <2>1. TypeOK /\ FramesOK /\ PlaceState(t) /\ StatePlace(t) /\ ArgOK(t)
    BY DEF IInv, PlacesOK, LeavingsOK
  <2>2. ~Claimed(t)
    BY DEF Claimed, MainFree
  <2>3. ~Busy(t)
    <3>. SUFFICES ASSUME NEW thr \in Threads, Has(thr, t)
                  PROVE  FALSE
      BY DEF Busy
    <3>1. thr = Main
      BY <2>1 DEF ArgOK, Has, Threads
    <3>2. pc[Main] = "running" /\ cur[Main] = t
      BY <3>1 DEF Has, MainFree
    <3>. QED BY <2>1, <3>1, <3>2 DEF PlaceState
  <2>. QED BY <2>1, <2>2, <2>3 DEF StatePlace
<1>. QED BY <1>1, Invariance, PTL

\* A future is complete only once the body that returned it will run no more.
THEOREM FutureAfterBodyHolds == Spec => []FutureAfterBody
<1>1. IInv => FutureAfterBody
  BY DEF IInv, LeavingsOK, ExitOK, FutureAfterBody, Pending, Has
<1>. QED BY <1>1, Invariance, PTL

\* The end of a task: the parent's wake-up is not lost, the future comes after the
\* body, and the slot is freed once, cleaned.
THEOREM EndsCleanHolds == Spec => []EndsClean
<1>1. WaitNotLost /\ FutureAfterBody /\ FreeCountExact /\ CleanedBeforeFree => EndsClean
  BY DEF EndsClean
<1>. QED BY <1>1, WaitNotLostHolds, FutureAfterBodyHolds, FreeCountHolds, CleanedHolds, PTL

\* A thread does not touch a task that it handed back, and no task is handed an
\* argument that was released.
THEOREM NoLateTouchHolds == Spec => []NoLateTouch
<1>1. HandedBackUntouched /\ NoStaleArg => NoLateTouch
  BY DEF NoLateTouch
<1>. QED BY <1>1, HandedBackHolds, NoStaleArgHolds, PTL

\* Pinned tasks are run by the main thread, and Sched_RunSync finds them queued.
THEOREM PinnedRunsHereHolds == Spec => []PinnedRunsHere
<1>1. PinnedOnMain /\ PinnedRunsSync => PinnedRunsHere
  BY DEF PinnedRunsHere
<1>. QED BY <1>1, PinnedOnMainHolds, PinnedRunsSyncHolds, PTL
-----------------------------------------------------------------------------
(***************************************************************************)
(* Sched implements Rendezvous, for any number of tasks and threads: under *)
(* the mapping of Sched's last section the initial states are those of     *)
(* Rendezvous, and every step is one of its steps or changes none of its   *)
(* variables.                                                              *)
(***************************************************************************)
-----------------------------------------------------------------------------
(* No task sends to itself *)

NotToSelf == \A t \in Tasks : req[t].type = "SEND" => req[t].to # t

\* Requests are only made by bodies, and what a body sends goes to another task.
LEMMA ToOthers == TypeOK /\ NotToSelf /\ [Next]_vars => NotToSelf'
<1>. SUFFICES ASSUME TypeOK, NotToSelf, [Next]_vars PROVE NotToSelf'
  OBVIOUS
<1>. USE DEF NotToSelf, TypeOK
<1>1. ASSUME NEW thr \in Threads, NEW t \in Tasks, RequestStep(thr, t) PROVE NotToSelf'
  <2>3. CASE RequestSelf(thr, t)
    BY <2>3 DEF RequestSelf, SelfRequests, Issue, Req
  <2>4. CASE RequestSetDestructor(thr, t)
    BY <2>4 DEF RequestSetDestructor, Issue, Req
  <2>5. CASE RequestSend(thr, t)
    <3>1. PICK to \in Tasks \ ({t} \cup free) : Issue(thr, t, Req("SEND", to))
      BY <2>5 DEF RequestSend
    <3>. QED BY <3>1 DEF Issue, Req
  <2>8. CASE RequestReply(thr, t)
    <3>1. PICK to \in received[t] : Issue(thr, t, Req("REPLY", to))
      BY <2>8 DEF RequestReply
    <3>. QED BY <3>1 DEF Issue, Req
  <2>9. CASE RequestWait(thr, t)
    <3>1. PICK c \in Tasks \ {t} : Issue(thr, t, Req("WAIT", c))
      BY <2>9 DEF RequestWait
    <3>. QED BY <3>1 DEF Issue, Req
  <2>6. CASE RequestAwaitEvent(thr, t)
    BY <2>6 DEF RequestAwaitEvent, Issue
  <2>7. CASE Exit(thr, t)
    BY <2>7 DEF Exit, Req
  <2>. QED BY <1>1, <2>3, <2>4, <2>5, <2>6, <2>7, <2>8, <2>9 DEF RequestStep
<1>2. ASSUME NEW t \in Tasks, NEW target \in Tasks, RequestRunSync(t, target) PROVE NotToSelf'
  BY <1>2 DEF RequestRunSync, Issue, Req
<1>3. ASSUME req' = req PROVE NotToSelf'
  BY <1>3
<1>4. ASSUME NEW thr \in Threads, NEW t \in Tasks, ServiceStep(thr, t) PROVE req' = req
  BY <1>4 DEF ServiceStep, ServiceSelf, ServiceSetDestructor, ServiceCreate, ServiceSend,
    ServiceReceive, ServiceReply, ServiceAwaitEvent, ServiceWait, ServiceFree, Service
<1>5. ASSUME NEW thr \in Threads, Run(thr) \/ PostRelease(thr) \/ PostDone(thr) PROVE req' = req
  BY <1>5 DEF Run, PostRelease, PostDone
<1>6. ASSUME NEW t \in Tasks, ServiceRunSync(t) \/ SchedCreate(t) \/ HandleNext(t) \/ RunSync(t)
      PROVE  req' = req
  BY <1>6 DEF ServiceRunSync, Service, SchedCreate, HandleNext, RunSync, taskVars
<1>7. ASSUME NEW thr \in Threads, NEW t \in Tasks, Pop(thr, t) PROVE req' = req
  BY <1>7 DEF Pop, taskVars
<1>8. PostNested \/ HandleDone => req' = req
  BY DEF PostNested, HandleDone, taskVars
<1>9. ASSUME NEW e \in Events, NEW immediate \in BOOLEAN, HandleEvent(e, immediate) PROVE req' = req
  BY <1>9 DEF HandleEvent
<1>10. ASSUME NEW S \in ServicePairs, NEW found \in SUBSET Tasks, ClearState(S, found)
       PROVE  req' = req
  BY <1>10 DEF ClearState
<1>11. CASE UNCHANGED vars
  BY <1>11 DEF vars, taskVars
<1>. QED BY <1>1, <1>2, <1>3, <1>4, <1>5, <1>6, <1>7, <1>8, <1>9, <1>10, <1>11 DEF Next
-----------------------------------------------------------------------------
(* The variables of Rendezvous *)

Receivers == {t \in Tasks : state[t] = "SEND_BLOCKED"}
Owed == [t \in Tasks |-> received[t] \cup Replying(t)]

\* They are the message queues, the tasks blocked on receive, and for each task
\* the senders it owes a reply, including the one it is replying to.
LEMMA Mapping ==
  /\ Exchange!vars = <<msgq, Receivers, Owed>>
  /\ Exchange!vars' = <<msgq', Receivers', Owed'>>
  /\ Exchange!Next <=>
       \/ \E s, r \in Tasks : Exchange!Send(s, r) \/ Exchange!Reply(r, s)
       \/ \E t \in Tasks : Exchange!Receive(t) \/ Exchange!Reborn(t)
       \/ Exchange!Reset
BY DEF Exchange!vars, Exchange!Next, Receivers, Owed

\* Who replies to whom, in terms of the invariant's predicate.
LEMMA Repliers ==
  ASSUME NEW t \in Tasks
  PROVE  /\ Replying(t) = IF \E thr \in Threads : Pending(thr, t, "REPLY") THEN {req[t].to} ELSE {}
         /\ Replying(t)' = IF \E thr \in Threads : Pending(thr, t, "REPLY")' THEN {req'[t].to} ELSE {}
BY DEF Replying, Pending, Has

\* A task that runs, or has exited, takes part in no exchange.
LEMMA Unengaged ==
  ASSUME IInv, NEW t \in Tasks, state[t] \in {"ACTIVE", "ZOMBIE"}
  PROVE  Exchange!Uncommitted(t)
<1>1. t \notin Receivers
  BY DEF Receivers
<1>2. ASSUME NEW r \in Tasks PROVE ~Exchange!InSeq(t, msgq[r])
  BY DEF IInv, PlacesOK, PlaceState, InQueueOf, Exchange!InSeq
<1>3. ASSUME NEW r \in Tasks PROVE t \notin received[r] \cup Replying(r)
  BY Repliers DEF IInv, RepliesOK
<1>. QED BY <1>1, <1>2, <1>3 DEF Exchange!Uncommitted, Receivers

\* A step that leaves the queues, the receivers and the replies that are owed.
LEMMA Unmoved ==
  ASSUME msgq' = msgq, received' = received,
         \A t \in Tasks : state'[t] = "SEND_BLOCKED" <=> state[t] = "SEND_BLOCKED",
         \A t \in Tasks : Replying(t)' = Replying(t)
  PROVE  Exchange!Next \/ UNCHANGED Exchange!vars
<1>1. Receivers' = Receivers
  BY DEF Receivers
<1>2. Owed' = Owed
  BY DEF Owed
<1>. QED BY <1>1, <1>2, Mapping

\* One in which no reply is issued or serviced.
LEMMA NoReply ==
  ASSUME \A thr \in Threads, x \in Tasks :
           /\ Pending(thr, x, "REPLY")' <=> Pending(thr, x, "REPLY")
           /\ Pending(thr, x, "REPLY") => req'[x].to = req[x].to
  PROVE  \A x \in Tasks : Replying(x)' = Replying(x)
BY Repliers

\* When a request has been serviced, its task replies to nobody, and the others
\* to whom they did.
LEMMA ServedReplies ==
  ASSUME IInv, NEW thr \in Threads, NEW t \in Tasks, NEW type,
         Service(thr, t, type), Served(thr)
  PROVE  /\ \A x \in Tasks : Replying(x)' = IF x = t THEN {} ELSE Replying(x)
         /\ Replying(t) = IF type = "REPLY" THEN {req[t].to} ELSE {}
         /\ state[t] = "ACTIVE" /\ req[t].type = type /\ Pending(thr, t, type)
<1>1. LeftSwitch(thr, t, type)
  BY ServedStep
<1>2. /\ \A o \in Threads, x \in Tasks : Pending(o, x, "REPLY")' <=> Pending(o, x, "REPLY") /\ o # thr
      /\ \A x \in Tasks : Pending(thr, x, "REPLY") => x = t
      /\ \A o \in Threads : Pending(o, t, "REPLY") => o = thr /\ type = "REPLY"
      /\ req' = req /\ state[t] = "ACTIVE" /\ req[t].type = type /\ Pending(thr, t, type)
  BY <1>1 DEF LeftSwitch
<1>3. ASSUME NEW x \in Tasks PROVE Replying(x)' = IF x = t THEN {} ELSE Replying(x)
  BY <1>2, Repliers
<1>4. Replying(t) = IF type = "REPLY" THEN {req[t].to} ELSE {}
  BY <1>2, Repliers
<1>. QED BY <1>2, <1>3, <1>4

-----------------------------------------------------------------------------
(* Steps of tasks that are no message requests *)

\* A thread takes a task, runs it, or is through with its request.
LEMMA ThreadSteps ==
  ASSUME IInv, NEW thr \in Threads,
         (\E t \in Tasks : Pop(thr, t)) \/ Run(thr) \/ PostRelease(thr) \/ PostDone(thr)
  PROVE  Exchange!Next \/ UNCHANGED Exchange!vars
<1>0. TypeOK /\ FramesOK
  BY DEF IInv
<1>1. ASSUME NEW t \in Tasks, Pop(thr, t) PROVE Exchange!Next \/ UNCHANGED Exchange!vars
  <2>1. \A x \in Tasks : Replying(x)' = Replying(x)
    BY <1>0, <1>1, NoReply DEF Pop, Pending, taskVars, TypeOK
  <2>. QED BY <1>1, <2>1, Unmoved DEF Pop, taskVars, bodyVars
<1>2. CASE Run(thr)
  <2>1. \A x \in Tasks : Replying(x)' = Replying(x)
    BY <1>0, <1>2, NoReply DEF Run, Pending, TypeOK
  <2>2. state[cur[thr]] # "SEND_BLOCKED"
    <3>1. cur[thr] \in Tasks
      BY <1>0, <1>2 DEF Run, TypeOK, FramesOK
    <3>. QED BY <1>2, <3>1 DEF Run, IInv, PlacesOK, PlaceState
  <2>. QED BY <1>0, <1>2, <2>1, <2>2, Unmoved DEF Run, schedVars, bodyVars, TypeOK
<1>3. CASE PostRelease(thr)
  <2>1. \A x \in Tasks : Replying(x)' = Replying(x)
    BY <1>0, <1>3, NoReply DEF PostRelease, Pending, TypeOK
  <2>. QED BY <1>3, <2>1, Unmoved DEF PostRelease, schedVars, bodyVars
<1>4. CASE PostDone(thr)
  <2>1. \A x \in Tasks : Replying(x)' = Replying(x)
    BY <1>0, <1>4, NoReply DEF PostDone, PostReady, Pending, TypeOK
  <2>. QED BY <1>4, <2>1, Unmoved DEF PostDone, bodyVars
<1>. QED BY <1>1, <1>2, <1>3, <1>4

\* A body issues a request: a reply that is issued is still owed.
LEMMA Requested ==
  ASSUME IInv, NEW thr \in Threads, NEW t \in Tasks, NEW r, Runs(thr, t),
         pc' = [pc EXCEPT ![thr] = "switched"], cur' = cur, req' = [req EXCEPT ![t] = r]
  PROVE  /\ \A x \in Tasks \ {t} : Replying(x)' = Replying(x)
         /\ Replying(t) = {}
         /\ Replying(t)' = IF r.type = "REPLY" THEN {r.to} ELSE {}
<1>0. TypeOK /\ cur[thr] = t /\ pc[thr] = "running" /\ \A o \in Threads : Has(o, t) => o = thr
  BY DEF IInv, PlacesOK, Once, Runs, Has
<1>1. \A o \in Threads : ~Pending(o, t, "REPLY")
  BY <1>0 DEF Pending, Has
<1>2. \A o \in Threads : Pending(o, t, "REPLY")' <=> o = thr /\ r.type = "REPLY"
  BY <1>0 DEF Pending, Has, TypeOK
<1>3. \A o \in Threads, x \in Tasks \ {t} : Pending(o, x, "REPLY")' <=> Pending(o, x, "REPLY")
  BY <1>0 DEF Pending, TypeOK
<1>4. req'[t] = r /\ \A x \in Tasks \ {t} : req'[x] = req[x]
  BY <1>0 DEF TypeOK
<1>. QED BY <1>1, <1>2, <1>3, <1>4, Repliers

\* Of all requests, only that of a reply has to do with what is owed.
LEMMA RequestSteps ==
  ASSUME IInv, NEW thr \in Threads, NEW t \in Tasks, RequestStep(thr, t)
  PROVE  Exchange!Next \/ UNCHANGED Exchange!vars
<1>0. TypeOK
  BY DEF IInv
<1>1. CASE RequestReply(thr, t)
  <2>1. PICK to \in received[t] : /\ Issue(thr, t, Req("REPLY", to))
                                  /\ received' = [received EXCEPT ![t] = @ \ {to}]
    BY <1>1 DEF RequestReply
  <2>2. /\ Runs(thr, t) /\ state' = state /\ msgq' = msgq
        /\ pc' = [pc EXCEPT ![thr] = "switched"] /\ cur' = cur
        /\ req' = [req EXCEPT ![t] = Req("REPLY", to)]
    BY <2>1 DEF Issue
  <2>3. /\ \A x \in Tasks \ {t} : Replying(x)' = Replying(x)
        /\ Replying(t) = {} /\ Replying(t)' = {to}
    <3>1. Req("REPLY", to).type = "REPLY" /\ Req("REPLY", to).to = to
      BY DEF Req
    <3>. QED BY <2>2, <3>1, Requested
  <2>4. Owed' = Owed
    <3>1. ASSUME NEW x \in Tasks
          PROVE  received'[x] \cup Replying(x)' = received[x] \cup Replying(x)
      BY <1>0, <2>1, <2>3 DEF TypeOK
    <3>. QED BY <3>1 DEF Owed
  <2>5. Receivers' = Receivers
    BY <2>2 DEF Receivers
  <2>. QED BY <2>2, <2>4, <2>5, Mapping
<1>2. CASE ~RequestReply(thr, t)
  <2>1. /\ Runs(thr, t) /\ state' = state /\ msgq' = msgq /\ received' = received
        /\ pc' = [pc EXCEPT ![thr] = "switched"] /\ cur' = cur
        /\ req' = [req EXCEPT ![t] = req'[t]] /\ req'[t].type # "REPLY"
    <3>0. t \in DOMAIN req
      BY <1>0 DEF TypeOK
    <3>1. CASE RequestSelf(thr, t) \/ RequestSetDestructor(thr, t)
      BY <3>0, <3>1 DEF RequestSelf, RequestSetDestructor, SelfRequests, Issue, Req, bodyVars
    <3>2. CASE RequestSend(thr, t)
      BY <3>0, <3>2 DEF RequestSend, Issue, Req, bodyVars
    <3>3. CASE RequestAwaitEvent(thr, t)
      BY <3>0, <3>3 DEF RequestAwaitEvent, Issue, bodyVars
    <3>4. CASE RequestWait(thr, t)
      BY <3>0, <3>4 DEF RequestWait, Issue, Req
    <3>5. CASE Exit(thr, t)
      BY <3>0, <3>5 DEF Exit, Req, schedVars, bodyVars
    <3>. QED BY <1>2, <3>1, <3>2, <3>3, <3>4, <3>5 DEF RequestStep
  <2>3. \A x \in Tasks : Replying(x)' = Replying(x)
    BY <2>1, Requested
  <2>. QED BY <2>1, <2>3, Unmoved
<1>. QED BY <1>1, <1>2

\* A task asks for a synchronous run; its target leaves its ready queue.
LEMMA RunSyncRequested ==
  ASSUME IInv, NEW t \in Tasks, NEW target \in Tasks, RequestRunSync(t, target)
  PROVE  Exchange!Next \/ UNCHANGED Exchange!vars
<1>0. t \in DOMAIN req
  BY DEF IInv, TypeOK
<1>1. /\ Runs(Main, t) /\ state' = state /\ msgq' = msgq /\ received' = received
      /\ pc' = [pc EXCEPT ![Main] = "switched"] /\ cur' = cur
      /\ req' = [req EXCEPT ![t] = req'[t]] /\ req'[t].type # "REPLY"
  BY <1>0 DEF RequestRunSync, Issue, Req, bodyVars
<1>2. \A x \in Tasks : Replying(x)' = Replying(x)
  BY <1>1, Requested
<1>. QED BY <1>1, <1>2, Unmoved

-----------------------------------------------------------------------------
(* Requests that are serviced *)

\* Requests that are no messages make ready, block or end tasks that are not
\* blocked on receive.
LEMMA OtherServices ==
  ASSUME IInv, NEW thr \in Threads, NEW t \in Tasks,
         \/ ServiceSelf(thr, t) \/ ServiceSetDestructor(thr, t) \/ ServiceAwaitEvent(thr, t)
         \/ ServiceWait(thr, t) \/ ServiceFree(thr, t)
  PROVE  Exchange!Next \/ UNCHANGED Exchange!vars
<1>0. TypeOK
  BY DEF IInv
<1>1. PICK type : Service(thr, t, type) /\ Served(thr) /\ type # "REPLY"
  BY DEF ServiceSelf, ServiceSetDestructor, ServiceAwaitEvent, ServiceWait, ServiceFree, SelfRequests
<1>2. state[t] = "ACTIVE" /\ \A x \in Tasks : Replying(x)' = Replying(x)
  BY <1>1, ServedReplies
<1>3. msgq' = msgq /\ received' = received
  BY DEF ServiceSelf, ServiceSetDestructor, ServiceAwaitEvent, ServiceWait, ServiceFree, bodyVars
<1>4. \A x \in Tasks : state'[x] = "SEND_BLOCKED" <=> state[x] = "SEND_BLOCKED"
  <2>1. CASE ServiceSelf(thr, t) \/ ServiceSetDestructor(thr, t)
    BY <1>0, <1>2, <2>1 DEF ServiceSelf, ServiceSetDestructor, Reactivate, TypeOK
  <2>2. CASE ServiceAwaitEvent(thr, t)
    BY <1>0, <1>2, <2>2 DEF ServiceAwaitEvent, TypeOK
  <2>3. CASE ServiceWait(thr, t)
    BY <1>0, <1>2, <2>3 DEF ServiceWait, Reactivate, TypeOK
  <2>4. CASE ServiceFree(thr, t)
    <3>1. waited[t] => state[parent[t]] = "ACTIVE"
      BY DEF IInv, FamilyOK, InWait
    <3>. QED BY <1>0, <1>2, <2>4, <3>1 DEF ServiceFree, ParentWaits, Reactivate, TypeOK
  <2>. QED BY <2>1, <2>2, <2>3, <2>4
<1>. QED BY <1>2, <1>3, <1>4, Unmoved

\* A task is created in a slot whose last task owes nothing any more.
LEMMA Created ==
  ASSUME IInv, NEW c \in free,
         msgq' = msgq, received' = [received EXCEPT ![c] = {}],
         \A x \in Tasks : state'[x] = "SEND_BLOCKED" <=> state[x] = "SEND_BLOCKED",
         \A x \in Tasks : Replying(x)' = Replying(x)
  PROVE  Exchange!Next \/ UNCHANGED Exchange!vars
<1>0. TypeOK /\ c \in Tasks /\ state[c] \in {"ACTIVE", "ZOMBIE"}
  BY FreeElsewhere DEF IInv
<1>1. Replying(c) = {}
  BY <1>0, FreeElsewhere, Repliers
<1>2. Exchange!Uncommitted(c)
  BY <1>0, Unengaged
<1>3. Receivers' = Receivers
  BY <1>0 DEF Receivers, TypeOK
<1>4. Owed' = [Owed EXCEPT ![c] = {}]
  <2>1. ASSUME NEW x \in Tasks
        PROVE  Owed'[x] = IF x = c THEN {} ELSE Owed[x]
    BY <1>0, <1>1 DEF Owed, TypeOK
  <2>. QED BY <2>1 DEF Owed
<1>5. Exchange!Reborn(c)
  BY <1>2, <1>3, <1>4 DEF Exchange!Reborn, Receivers, Owed
<1>. QED BY <1>0, <1>5, Mapping

\* By a task or by the main thread, or not at all when no slot is free.
LEMMA CreateSteps ==
  ASSUME IInv, NEW thr \in Threads, NEW t \in Tasks,
         ServiceCreate(thr, t) \/ SchedCreate(t)
  PROVE  Exchange!Next \/ UNCHANGED Exchange!vars
<1>0. TypeOK
  BY DEF IInv
<1>1. CASE ServiceCreate(thr, t)
  <2>1. Service(thr, t, "CREATE") /\ Served(thr) /\ msgq' = msgq
    BY <1>1 DEF ServiceCreate
  <2>2. state[t] = "ACTIVE" /\ \A x \in Tasks : Replying(x)' = Replying(x)
    <3>1. /\ \A x \in Tasks : Replying(x)' = IF x = t THEN {} ELSE Replying(x)
          /\ Replying(t) = IF "CREATE" = "REPLY" THEN {req[t].to} ELSE {}
          /\ state[t] = "ACTIVE"
      BY <2>1, ServedReplies, SMTT(30)
    <3>2. Replying(t) = {}
      BY <3>1
    <3>. QED BY <3>1, <3>2
  <2>3. ASSUME NEW c \in free,
               received' = [received EXCEPT ![c] = {}],
               state' = [x \in Tasks |-> IF x \in {t} \cup {c} THEN "READY" ELSE state[x]]
        PROVE  Exchange!Next \/ UNCHANGED Exchange!vars
    <3>1. state[c] # "SEND_BLOCKED"
      BY FreeElsewhere
    <3>2. \A x \in Tasks : state'[x] = "SEND_BLOCKED" <=> state[x] = "SEND_BLOCKED"
      BY <2>2, <2>3, <3>1
    <3>. QED BY <2>1, <2>2, <2>3, <3>2, Created
  <2>4. ASSUME received' = received,
               state' = [x \in Tasks |-> IF x \in {t} THEN "READY" ELSE state[x]]
        PROVE  Exchange!Next \/ UNCHANGED Exchange!vars
    BY <2>1, <2>2, <2>4, Unmoved
  <2>. QED BY <1>1, <2>3, <2>4 DEF ServiceCreate, Spawn, Reactivate, bodyVars
<1>2. CASE SchedCreate(t)
  <2>1. /\ t \in free /\ msgq' = msgq /\ received' = [received EXCEPT ![t] = {}]
        /\ state' = [x \in Tasks |-> IF x \in {} \cup {t} THEN "READY" ELSE state[x]]
        /\ req' = req /\ pc' = pc /\ cur' = cur
    BY <1>2 DEF SchedCreate, Spawn, Reactivate, threadVars, Zenon
  <2>2. \A x \in Tasks : Replying(x)' = Replying(x)
    BY <2>1, NoReply DEF Pending
  <2>3. state[t] # "SEND_BLOCKED"
    BY <2>1, FreeElsewhere
  <2>4. \A x \in Tasks : state'[x] = "SEND_BLOCKED" <=> state[x] = "SEND_BLOCKED"
    BY <2>1, <2>3
  <2>. QED BY <2>1, <2>2, <2>4, Created
<1>. QED BY <1>1, <1>2

\* sched_send
LEMMA SendStep ==
  ASSUME IInv, NotToSelf, NEW thr \in Threads, NEW t \in Tasks, ServiceSend(thr, t)
  PROVE  \E to \in Tasks : Exchange!Send(t, to)
<1>. DEFINE to == req[t].to
<1>0. TypeOK /\ Service(thr, t, "SEND") /\ Served(thr)
  BY DEF IInv, ServiceSend
<1>1. /\ state[t] = "ACTIVE" /\ req[t].type = "SEND" /\ Pending(thr, t, "SEND")
      /\ \A x \in Tasks : Replying(x)' = Replying(x)
  BY <1>0, ServedReplies
<1>2. to \in Tasks /\ to # t
  BY <1>1 DEF IInv, RequestsOK, NotToSelf
<1>3. Exchange!Uncommitted(t)
  BY <1>1, Unengaged
<1>4. CASE state[to] = "SEND_BLOCKED"
  <2>1. /\ state' = [x \in Tasks |-> IF x = to THEN "READY"
                                     ELSE IF x = t THEN "REPLY_BLOCKED" ELSE state[x]]
        /\ received' = [received EXCEPT ![to] = @ \cup {t}] /\ msgq' = msgq
    BY <1>0, <1>2, <1>4 DEF ServiceSend, Deliverable, Reactivate, AwaitsReply, TypeOK
  <2>2. Receivers' = Receivers \ {to} /\ to \in Receivers
    BY <1>1, <1>2, <1>4, <2>1 DEF Receivers
  <2>3. Owed' = [Owed EXCEPT ![to] = @ \cup {t}]
    <3>1. ASSUME NEW x \in Tasks
          PROVE  Owed'[x] = IF x = to THEN Owed[x] \cup {t} ELSE Owed[x]
      BY <1>0, <1>1, <2>1 DEF Owed, TypeOK
    <3>. QED BY <3>1 DEF Owed
  <2>. QED BY <1>2, <1>3, <2>1, <2>2, <2>3 DEF Exchange!Send, Receivers, Owed
<1>5. CASE state[to] # "SEND_BLOCKED"
  <2>1. /\ state' = [state EXCEPT ![t] = "RECV_BLOCKED"]
        /\ msgq' = [msgq EXCEPT ![to] = Append(@, t)] /\ received' = received
    BY <1>5 DEF ServiceSend, Deliverable, Enqueue
  <2>2. Receivers' = Receivers /\ to \notin Receivers
    BY <1>0, <1>1, <1>5, <2>1 DEF Receivers, TypeOK
  <2>3. Owed' = Owed
    BY <1>1, <2>1 DEF Owed
  <2>. QED BY <1>2, <1>3, <2>1, <2>2, <2>3 DEF Exchange!Send, Receivers, Owed
<1>. QED BY <1>4, <1>5

\* sched_receive
LEMMA ReceiveStep ==
  ASSUME IInv, NEW thr \in Threads, NEW t \in Tasks, ServiceReceive(thr, t)
  PROVE  Exchange!Receive(t)
<1>0. TypeOK /\ Service(thr, t, "RECEIVE") /\ Served(thr)
  BY DEF IInv, ServiceReceive
<1>1. state[t] = "ACTIVE" /\ \A x \in Tasks : Replying(x)' = Replying(x)
  BY <1>0, ServedReplies
<1>2. Exchange!Uncommitted(t)
  BY <1>1, Unengaged
<1>3. CASE msgq[t] # <<>>
  <2>. DEFINE s == Head(msgq[t])
  <2>1. s \in Tasks /\ state[s] = "RECV_BLOCKED"
    <3>1. msgq[t] \in Seq(Tasks) /\ 1 \in DOMAIN msgq[t] /\ s = msgq[t][1]
      BY <1>0, <1>3 DEF TypeOK
    <3>2. s \in Tasks
      BY <3>1
    <3>. QED BY <3>1, <3>2 DEF IInv, PlacesOK, PlaceState, InQueueOf
  <2>2. /\ state' = [x \in Tasks |-> IF x = t THEN "READY"
                                     ELSE IF x = s THEN "REPLY_BLOCKED" ELSE state[x]]
        /\ received' = [received EXCEPT ![t] = @ \cup {s}]
        /\ msgq' = [msgq EXCEPT ![t] = Tail(@)]
    BY <1>0, <1>3, <2>1 DEF ServiceReceive, Reactivate, AwaitsReply, TypeOK
  <2>3. Receivers' = Receivers
    BY <1>1, <2>1, <2>2 DEF Receivers
  <2>4. Owed' = [Owed EXCEPT ![t] = @ \cup {s}]
    <3>1. ASSUME NEW x \in Tasks
          PROVE  Owed'[x] = IF x = t THEN Owed[x] \cup {s} ELSE Owed[x]
      BY <1>0, <1>1, <2>2 DEF Owed, TypeOK
    <3>. QED BY <3>1 DEF Owed
  <2>. QED BY <1>2, <1>3, <2>2, <2>3, <2>4 DEF Exchange!Receive, Receivers, Owed
<1>4. CASE msgq[t] = <<>>
  <2>1. /\ state' = [state EXCEPT ![t] = "SEND_BLOCKED"]
        /\ msgq' = msgq /\ received' = received
    BY <1>4 DEF ServiceReceive
  <2>2. Receivers' = Receivers \cup {t}
    BY <1>0, <2>1 DEF Receivers, TypeOK
  <2>3. Owed' = Owed
    BY <1>1, <2>1 DEF Owed
  <2>. QED BY <1>2, <1>4, <2>1, <2>2, <2>3 DEF Exchange!Receive, Receivers, Owed
<1>. QED BY <1>3, <1>4

\* sched_reply: the reply that was issued is no longer owed.
LEMMA ReplyStep ==
  ASSUME IInv, NEW thr \in Threads, NEW t \in Tasks, ServiceReply(thr, t)
  PROVE  \E s \in Tasks : Exchange!Reply(t, s)
<1>. DEFINE s == req[t].to
<1>0. TypeOK /\ Service(thr, t, "REPLY") /\ Served(thr)
  BY DEF IInv, ServiceReply
<1>1. /\ state[t] = "ACTIVE" /\ Pending(thr, t, "REPLY") /\ Replying(t) = {s}
      /\ \A x \in Tasks : Replying(x)' = IF x = t THEN {} ELSE Replying(x)
  BY <1>0, ServedReplies
<1>2. s \in Tasks /\ state[s] = "REPLY_BLOCKED" /\ \A u \in Tasks : s \notin received[u]
  BY <1>1 DEF IInv, RequestsOK, RepliesOK
<1>3. Exchange!Uncommitted(t)
  BY <1>1, Unengaged
<1>4. /\ state' = [x \in Tasks |-> IF x \in {t, s} THEN "READY" ELSE state[x]]
      /\ msgq' = msgq /\ received' = received
  BY DEF ServiceReply, Reactivate, bodyVars
<1>5. Receivers' = Receivers
  BY <1>1, <1>2, <1>4 DEF Receivers
<1>6. s \in Owed[t] /\ Owed' = [Owed EXCEPT ![t] = @ \ {s}]
  <2>1. ASSUME NEW x \in Tasks
        PROVE  Owed'[x] = IF x = t THEN Owed[x] \ {s} ELSE Owed[x]
    BY <1>1, <1>2, <1>4 DEF Owed
  <2>. QED BY <1>1, <2>1 DEF Owed
<1>. QED BY <1>2, <1>3, <1>4, <1>5, <1>6 DEF Exchange!Reply, Receivers, Owed

-----------------------------------------------------------------------------
(* Steps of the main thread alone *)

\* The main thread takes a task, or is through with one inside another's request.
LEMMA MainSteps ==
  ASSUME IInv,
         \/ \E t \in Tasks : ServiceRunSync(t) \/ HandleNext(t) \/ RunSync(t)
         \/ HandleDone \/ PostNested
  PROVE  Exchange!Next \/ UNCHANGED Exchange!vars
<1>0. TypeOK /\ FramesOK
  BY DEF IInv
<1>1. ASSUME NEW t \in Tasks, ServiceRunSync(t)
      PROVE  Exchange!Next \/ UNCHANGED Exchange!vars
  <2>1. /\ pc[Main] = "switched" /\ cur[Main] = t /\ req[t].type = "RUN_SYNC" /\ req' = req
        /\ pc' = [pc EXCEPT ![Main] = "running"] /\ cur' = [cur EXCEPT ![Main] = req[t].to]
        /\ state' = [state EXCEPT ![req[t].to] = "ACTIVE"] /\ msgq' = msgq /\ received' = received
    BY <1>1 DEF ServiceRunSync, Service, bodyVars
  <2>2. req[t].to \in Tasks /\ state[req[t].to] = "READY"
    BY <2>1 DEF IInv, RequestsOK, Pending, PlacesOK, PlaceState, Claimed
  <2>3. \A x \in Tasks : Replying(x)' = Replying(x)
    BY <1>0, <2>1, NoReply DEF Pending, TypeOK
  <2>4. \A x \in Tasks : state'[x] = "SEND_BLOCKED" <=> state[x] = "SEND_BLOCKED"
    BY <1>0, <2>1, <2>2 DEF TypeOK
  <2>. QED BY <2>1, <2>3, <2>4, Unmoved
<1>2. CASE (\E t \in Tasks : HandleNext(t) \/ RunSync(t)) \/ HandleDone
  <2>1. /\ pc[Main] = "idle" /\ pc' = [pc EXCEPT ![Main] = pc'[Main]] /\ pc'[Main] # "switched"
        /\ cur' = [cur EXCEPT ![Main] = cur'[Main]]
        /\ req' = req /\ state' = state /\ msgq' = msgq /\ received' = received
    BY <1>0, <1>2 DEF HandleNext, RunSync, HandleDone, MainFree, taskVars, schedVars, bodyVars, TypeOK
  <2>2. \A x \in Tasks : Replying(x)' = Replying(x)
    BY <1>0, <2>1, NoReply DEF Pending, TypeOK
  <2>. QED BY <2>1, <2>2, Unmoved
<1>3. CASE PostNested
  <2>. DEFINE i == nest[Len(nest)]
  <2>1. i \in Tasks /\ Nesting(i)
    BY <1>0, <1>3 DEF PostNested, Nested, Nesting, TypeOK
  <2>2. state[i] = "ACTIVE"
    BY <2>1 DEF IInv, PlacesOK, PlaceState
  <2>3. /\ pc[Main] # "switched" /\ pc' = [pc EXCEPT ![Main] = "serviced"]
        /\ cur' = [cur EXCEPT ![Main] = i] /\ req' = req /\ msgq' = msgq /\ received' = received
        /\ state' = [x \in Tasks |-> IF x \in {i} THEN "READY" ELSE state[x]]
    BY <1>3 DEF PostNested, PostReady, Reactivate, bodyVars
  <2>4. \A x \in Tasks : Replying(x)' = Replying(x)
    BY <1>0, <2>3, NoReply DEF Pending, TypeOK
  <2>. QED BY <2>2, <2>3, <2>4, Unmoved
<1>. QED BY <1>1, <1>2, <1>3

\* Those that await an event are not blocked on receive.
LEMMA EventStep ==
  ASSUME IInv, NEW e \in Events, NEW immediate \in BOOLEAN, HandleEvent(e, immediate)
  PROVE  Exchange!Next \/ UNCHANGED Exchange!vars
<1>0. TypeOK
  BY DEF IInv
<1>1. \A x \in eventq[e] : x \in Tasks /\ state[x] = "EVENT_BLOCKED"
  BY <1>0 DEF IInv, PlacesOK, PlaceState, InEvent, TypeOK
<1>2. /\ req' = req /\ pc' = pc /\ cur' = cur /\ msgq' = msgq /\ received' = received
      /\ \/ state' = state
         \/ state' = [x \in Tasks |-> IF x \in eventq[e] THEN "READY" ELSE state[x]]
  BY DEF HandleEvent, Reactivate, bodyVars
<1>3. \A x \in Tasks : Replying(x)' = Replying(x)
  BY <1>2, NoReply DEF Pending
<1>4. \A x \in Tasks : state'[x] = "SEND_BLOCKED" <=> state[x] = "SEND_BLOCKED"
  BY <1>1, <1>2
<1>. QED BY <1>2, <1>3, <1>4, Unmoved

\* Sched_ClearState drops every message and every reply.
LEMMA ResetStep ==
  ASSUME IInv, NEW S \in ServicePairs, NEW found \in SUBSET Tasks, ClearState(S, found)
  PROVE  Exchange!Reset
<1>1. /\ \A thr \in Threads : pc'[thr] = "idle"
      /\ msgq' = [x \in Tasks |-> <<>>] /\ received' = [x \in Tasks |-> {}]
      /\ state' = [x \in Tasks |-> IF x \in S THEN "READY" ELSE "ACTIVE"]
  BY DEF ClearState, MainFree, threadVars
<1>2. Receivers' = {}
  BY <1>1 DEF Receivers
<1>3. Owed' = [x \in Tasks |-> {}]
  <2>1. ASSUME NEW x \in Tasks PROVE Replying(x)' = {}
    BY <1>1, Repliers DEF Pending
  <2>. QED BY <1>1, <2>1 DEF Owed
<1>. QED BY <1>1, <1>2, <1>3 DEF Exchange!Reset, Receivers, Owed

-----------------------------------------------------------------------------
(* The refinement *)

\* Every step of Sched is one of Rendezvous, or none.
LEMMA StepMaps == IInv /\ NotToSelf /\ [Next]_vars => [Exchange!Next]_(Exchange!vars)
<1>. SUFFICES ASSUME IInv, NotToSelf, [Next]_vars PROVE Exchange!Next \/ UNCHANGED Exchange!vars
  OBVIOUS
<1>1. ASSUME NEW thr \in Threads,
             (\E t \in Tasks : Pop(thr, t)) \/ Run(thr) \/ PostRelease(thr) \/ PostDone(thr)
      PROVE  Exchange!Next \/ UNCHANGED Exchange!vars
  BY <1>1, ThreadSteps
<1>2. ASSUME NEW thr \in Threads, NEW t \in Tasks, RequestStep(thr, t)
      PROVE  Exchange!Next \/ UNCHANGED Exchange!vars
  BY <1>2, RequestSteps
<1>3. ASSUME NEW thr \in Threads, NEW t \in Tasks, ServiceStep(thr, t)
      PROVE  Exchange!Next \/ UNCHANGED Exchange!vars
  <2>1. CASE ServiceSend(thr, t)
    BY <2>1, SendStep, Mapping
  <2>2. CASE ServiceReceive(thr, t)
    BY <2>2, ReceiveStep, Mapping
  <2>3. CASE ServiceReply(thr, t)
    BY <2>3, ReplyStep, Mapping
  <2>4. CASE ServiceCreate(thr, t)
    BY <2>4, CreateSteps
  <2>5. CASE \/ ServiceSelf(thr, t) \/ ServiceSetDestructor(thr, t) \/ ServiceAwaitEvent(thr, t)
             \/ ServiceWait(thr, t) \/ ServiceFree(thr, t)
    BY <2>5, OtherServices
  <2>. QED BY <1>3, <2>1, <2>2, <2>3, <2>4, <2>5 DEF ServiceStep
<1>4. ASSUME NEW t \in Tasks, SchedCreate(t)
      PROVE  Exchange!Next \/ UNCHANGED Exchange!vars
  BY <1>4, CreateSteps
<1>5. ASSUME \/ \E t \in Tasks : ServiceRunSync(t) \/ HandleNext(t) \/ RunSync(t)
             \/ HandleDone \/ PostNested
      PROVE  Exchange!Next \/ UNCHANGED Exchange!vars
  BY <1>5, MainSteps
<1>6. ASSUME NEW e \in Events, NEW immediate \in BOOLEAN, HandleEvent(e, immediate)
      PROVE  Exchange!Next \/ UNCHANGED Exchange!vars
  BY <1>6, EventStep
<1>7. ASSUME NEW S \in ServicePairs, NEW found \in SUBSET Tasks, ClearState(S, found)
      PROVE  Exchange!Next \/ UNCHANGED Exchange!vars
  BY <1>7, ResetStep, Mapping
<1>8. CASE UNCHANGED vars
  <2>1. \A x \in Tasks : Replying(x)' = Replying(x)
    BY <1>8, NoReply DEF vars, taskVars, threadVars, Pending
  <2>. QED BY <1>8, <2>1, Unmoved DEF vars, taskVars, schedVars, bodyVars
<1>9. CASE \E thr \in Threads, t \in Tasks :
                Pop(thr, t) \/ RequestStep(thr, t) \/ ServiceStep(thr, t)
  BY <1>1, <1>2, <1>3, <1>9, Zenon
<1>10. CASE \E thr \in Threads : Run(thr) \/ PostRelease(thr) \/ PostDone(thr)
  BY <1>1, <1>10, Zenon
<1>11. CASE \E t, target \in Tasks : RequestRunSync(t, target)
  BY <1>11, RunSyncRequested
<1>12. CASE \E t \in Tasks : ServiceRunSync(t) \/ SchedCreate(t) \/ HandleNext(t) \/ RunSync(t)
  BY <1>4, <1>5, <1>12, Zenon
<1>13. CASE PostNested \/ HandleDone
  BY <1>5, <1>13, Zenon
<1>14. CASE \E e \in Events, immediate \in BOOLEAN : HandleEvent(e, immediate)
  BY <1>6, <1>14, Zenon
<1>15. CASE \E S \in ServicePairs, found \in SUBSET Tasks : ClearState(S, found)
  BY <1>7, <1>15, Zenon
<1>. QED BY <1>8, <1>9, <1>10, <1>11, <1>12, <1>13, <1>14, <1>15 DEF Next

\* The initial states are mapped to that of Rendezvous.
LEMMA InitMaps == Init => Exchange!Init /\ NotToSelf
<1>. SUFFICES ASSUME NEW S \in ServicePairs, InitWith(S) PROVE Exchange!Init /\ NotToSelf
  BY DEF Init
<1>1. Receivers = {}
  BY DEF InitWith, Receivers
<1>2. Owed = [x \in Tasks |-> {}]
  <2>1. \A x \in Tasks : Replying(x) = {} /\ received[x] = {}
    BY Repliers DEF InitWith, Pending
  <2>. QED BY <2>1 DEF Owed
<1>3. NotToSelf
  BY DEF InitWith, Req, NotToSelf
<1>. QED BY <1>1, <1>2, <1>3 DEF InitWith, Exchange!Init, Receivers, Owed

\* The messages of the scheduler keep the promises of Rendezvous: for any number
\* of tasks and worker threads, whatever the interleaving, a sender is blocked
\* until the task that has received its message replies to it, and messages are
\* received in the order they were sent, each of them once.
THEOREM RendezvousHolds == Spec => ImplementsRendezvous
<1>1. IInv => TypeOK
  BY DEF IInv
<1>. QED BY <1>1, Invariance, ToOthers, InitMaps, StepMaps, PTL
       DEF Spec, ImplementsRendezvous, Exchange!Spec
=============================================================================
