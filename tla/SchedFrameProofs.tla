-------------------------- MODULE SchedFrameProofs --------------------------
(* Proofs about the frame protocol, for any number of workers and tasks.     *)
(* IInv (SchedFrame) is inductive: one lemma for each action shows that the  *)
(* action keeps its six parts; the theorems are at the end.                  *)
EXTENDS SchedFrame, FiniteSetTheorems, TLAPS

USE FrameAssumption DEF Threads, taskVars, workerVars, mainVars

(* Sets of workers *)

\* Every set of workers is finite, and only that of all workers is as large.
LEMMA Cards ==
  ASSUME NEW S \in SUBSET Workers
  PROVE  /\ IsFiniteSet(S)
         /\ Cardinality(S) \in 0 .. NWorkers
         /\ Cardinality(S) = NWorkers => S = Workers
<1>1. IsFiniteSet(S) /\ Cardinality(S) <= NWorkers /\ (Cardinality(S) = NWorkers => S = Workers)
  BY FS_Subset DEF NWorkers
<1>2. Cardinality(S) \in Nat /\ NWorkers \in Nat
  BY <1>1, FS_CardinalityType DEF NWorkers
<1>. QED BY <1>1, <1>2

\* There are so many of them.
LEMMA Many == NWorkers \in Nat
BY FS_CardinalityType DEF NWorkers

\* The main thread is none of them.
LEMMA MainThread == Main \in Threads /\ Main \notin Workers
BY DEF Threads

\* Nobody is told to quit before Sched_Shutdown.
LEMMA QuitLast ==
  ASSUME IInv, mpc # "shutdown", NEW w \in Workers
  PROVE  ~quit[w] /\ wpc[w] # "gone"
BY DEF IInv, PlacesOK

\* One worker more, and one less.
LEMMA OneMore ==
  ASSUME NEW S \in SUBSET Workers, NEW w \in Workers, w \notin S
  PROVE  Cardinality(S \cup {w}) = Cardinality(S) + 1
BY Cards, FS_AddElement

LEMMA OneLess ==
  ASSUME NEW S \in SUBSET Workers, NEW w \in S
  PROVE  Cardinality(S \ {w}) = Cardinality(S) - 1
BY Cards, FS_RemoveElement

\* A set that lacks a worker is smaller.
LEMMA Fewer ==
  ASSUME NEW S \in SUBSET Workers, NEW w \in Workers, w \notin S
  PROVE  Cardinality(S) < NWorkers
<1>1. Cardinality(S) \in 0 .. NWorkers /\ Cardinality(S) # NWorkers /\ NWorkers \in Nat
  BY Cards, FS_CardinalityType DEF NWorkers
<1>. QED BY <1>1

LEMMA Sets == Waiting \in SUBSET Workers /\ Resting \in SUBSET Workers
BY DEF Waiting, Resting

\* Waiting and Resting are about the workers' places and start flags only.
LEMMA Kept ==
  /\ wpc' = wpc => Waiting' = Waiting
  /\ wpc' = wpc /\ start' = start => Resting' = Resting
BY DEF Waiting, Resting

\* A signal wakes at most one thread up, and puts none to sleep.
LEMMA Signalled ==
  ASSUME NEW S, SignalTo(S)
  PROVE  asleep' \subseteq S
BY DEF SignalTo

\* A thread that finishes with its task makes it ready, or does not.
LEMMA Finished ==
  ASSUME TypeOK, NEW thr \in Threads, Finish(thr)
  PROVE  /\ cur' = [cur EXCEPT ![thr] = NoTask]
         /\ cur' \in [Threads -> Tasks \cup {NoTask}]
         /\ queued' \subseteq Tasks
         /\ asleep' \subseteq asleep
<1>1. cur[thr] \in Tasks
  BY DEF Finish, TypeOK
<1>. QED BY <1>1, Signalled DEF Finish, Reactivate, CondSignal, TypeOK


\* A frame begins with the workers resting.
LEMMA StartFrameInv ==
  ASSUME IInv, StartFrame
  PROVE  IInv'
<1>. USE DEF StartFrame, Go
<1>1. idle' \in 0 .. NWorkers
  BY Many DEF IInv, TypeOK
<1>2. TypeOK'
  BY <1>1 DEF IInv, TypeOK
<1>3. PlacesOK'
  BY Kept, Signalled, Many DEF IInv, TypeOK, PlacesOK
<1>4. CountersOK'
  BY Kept, Signalled, Many DEF IInv, TypeOK, CountersOK, IdleExact, Resting
<1>5. QuiesceOK'
  BY Kept, Signalled, Many DEF IInv, TypeOK, PlacesOK, QuiesceOK
<1>6. FrameOK'
  BY Kept DEF IInv, TypeOK, FrameOK
<1>7. WakeOK' /\ TickHasTask'
  BY Kept, Signalled, Many DEF IInv, TypeOK, PlacesOK, WakeOK, TickHasTask
<1>. QED BY <1>2, <1>3, <1>4, <1>5, <1>6, <1>7 DEF IInv

\* The worker that is told to start no longer rests.
LEMMA StartWorkerInv ==
  ASSUME IInv, NEW w \in Workers, StartWorker(w)
  PROVE  IInv'
<1>. USE DEF StartWorker
<1>1. w \in Resting /\ Resting' = Resting \ {w}
  BY DEF IInv, TypeOK, FrameOK, Resting
<1>2. wpc[w] = "cmd"
  BY <1>1, QuitLast DEF IInv, PlacesOK, Resting
<1>3. TypeOK'
  BY Kept, Signalled DEF IInv, TypeOK
<1>4. PlacesOK'
  BY <1>2, Kept DEF IInv, TypeOK, PlacesOK, FrameOK
<1>5. CountersOK'
  BY Kept, Signalled DEF IInv, TypeOK, CountersOK, IdleExact, Resting
<1>6. QuiesceOK'
  BY Kept, Signalled DEF IInv, TypeOK, PlacesOK, QuiesceOK
<1>7. FrameOK'
  BY <1>1, Kept DEF IInv, TypeOK, PlacesOK, FrameOK
<1>8. WakeOK' /\ TickHasTask'
  BY Kept, Signalled DEF IInv, TypeOK, PlacesOK, WakeOK, TickHasTask
<1>. QED BY <1>3, <1>4, <1>5, <1>6, <1>7, <1>8 DEF IInv

\* When all have been told, none rests.
LEMMA StartedInv ==
  ASSUME IInv, Started
  PROVE  IInv'
<1>. USE DEF Started, Go
<1>1. idle = 0 /\ Cardinality(Resting) = 0
  BY FS_EmptySet DEF IInv, FrameOK
<1>2. TypeOK'
  BY Kept, Signalled DEF IInv, TypeOK
<1>3. PlacesOK'
  BY Kept, Signalled DEF IInv, TypeOK, PlacesOK
<1>4. CountersOK'
  BY <1>1, Kept DEF IInv, TypeOK, CountersOK, IdleExact
<1>5. QuiesceOK'
  BY Kept, Signalled DEF IInv, TypeOK, PlacesOK, QuiesceOK
<1>6. FrameOK'
  BY Kept, Signalled DEF IInv, TypeOK, PlacesOK, QuiesceOK, FrameOK
<1>7. WakeOK' /\ TickHasTask'
  BY Kept, Signalled DEF IInv, TypeOK, PlacesOK, WakeOK, TickHasTask
<1>. QED BY <1>2, <1>3, <1>4, <1>5, <1>6, <1>7 DEF IInv

\* The simulation state is sampled later.
LEMMA ChangeSimStateInv ==
  ASSUME IInv, ChangeSimState
  PROVE  IInv'
<1>. USE DEF ChangeSimState
<1>1. TypeOK'
  BY Kept, Signalled DEF IInv, TypeOK
<1>2. PlacesOK'
  BY Kept, Signalled DEF IInv, TypeOK, PlacesOK
<1>3. CountersOK'
  BY Kept, Signalled DEF IInv, TypeOK, CountersOK, IdleExact, Resting
<1>4. QuiesceOK'
  BY Kept, Signalled DEF IInv, TypeOK, PlacesOK, QuiesceOK
<1>5. FrameOK'
  BY Kept, Signalled DEF IInv, TypeOK, PlacesOK, QuiesceOK, FrameOK
<1>6. WakeOK' /\ TickHasTask'
  BY Kept, Signalled DEF IInv, TypeOK, PlacesOK, WakeOK, TickHasTask
<1>. QED BY <1>1, <1>2, <1>3, <1>4, <1>5, <1>6 DEF IInv

\* That time passes is seen when main looks.
LEMMA ElapseInv ==
  ASSUME IInv, Elapse
  PROVE  IInv'
<1>. USE DEF Elapse
<1>1. TypeOK'
  BY Kept, Signalled DEF IInv, TypeOK
<1>2. PlacesOK'
  BY Kept, Signalled DEF IInv, TypeOK, PlacesOK
<1>3. CountersOK'
  BY Kept, Signalled DEF IInv, TypeOK, CountersOK, IdleExact, Resting
<1>4. QuiesceOK'
  BY Kept, Signalled DEF IInv, TypeOK, PlacesOK, QuiesceOK
<1>5. FrameOK'
  BY Kept, Signalled DEF IInv, TypeOK, PlacesOK, QuiesceOK, FrameOK
<1>6. WakeOK' /\ TickHasTask'
  BY Kept, Signalled DEF IInv, TypeOK, PlacesOK, WakeOK, TickHasTask
<1>. QED BY <1>1, <1>2, <1>3, <1>4, <1>5, <1>6 DEF IInv

\* A session change wakes the workers and quiesces them.
LEMMA ChangeSessionInv ==
  ASSUME IInv, ChangeSession
  PROVE  IInv'
<1>. USE DEF ChangeSession, QuiesceWorkers, Quiesce, CondBroadcast, Go
<1>1. TypeOK'
  BY Kept, Signalled DEF IInv, TypeOK
<1>2. PlacesOK'
  BY Kept, Signalled DEF IInv, TypeOK, PlacesOK
<1>3. CountersOK'
  BY Kept, Signalled DEF IInv, TypeOK, CountersOK, IdleExact, Resting
<1>4. QuiesceOK'
  BY Kept, Signalled DEF IInv, TypeOK, PlacesOK, QuiesceOK
<1>5. FrameOK'
  BY Kept, Signalled DEF IInv, TypeOK, PlacesOK, QuiesceOK, FrameOK
<1>6. WakeOK' /\ TickHasTask'
  BY Kept, Signalled DEF IInv, TypeOK, PlacesOK, WakeOK, TickHasTask
<1>. QED BY <1>1, <1>2, <1>3, <1>4, <1>5, <1>6 DEF IInv

\* Main waits for the workers.
LEMMA AwaitWorkersInv ==
  ASSUME IInv, AwaitWorkers
  PROVE  IInv'
<1>. USE DEF AwaitWorkers, WorkersLeft
<1>1. TypeOK'
  BY Kept, Signalled DEF IInv, TypeOK
<1>2. PlacesOK'
  BY Kept, Signalled DEF IInv, TypeOK, PlacesOK
<1>3. CountersOK'
  BY Kept, Signalled DEF IInv, TypeOK, CountersOK, IdleExact, Resting
<1>4. QuiesceOK'
  BY Kept, Signalled DEF IInv, TypeOK, PlacesOK, QuiesceOK
<1>5. FrameOK'
  BY Kept, Signalled DEF IInv, TypeOK, PlacesOK, QuiesceOK, FrameOK
<1>6. WakeOK' /\ TickHasTask'
  BY Kept, Signalled DEF IInv, TypeOK, PlacesOK, WakeOK, TickHasTask
<1>. QED BY <1>1, <1>2, <1>3, <1>4, <1>5, <1>6 DEF IInv

\* When main goes on, every worker rests.
LEMMA QuiescedInv ==
  ASSUME IInv, Quiesced
  PROVE  IInv'
<1>. USE DEF Quiesced, WorkersLeft, Go
<1>1. Resting = Workers
  <2>1. CASE ran
    <3>1. idle = Cardinality(Resting) /\ ~(idle < NWorkers)
      BY <2>1 DEF IInv, CountersOK, IdleExact
    <3>. QED BY <3>1, Cards, Sets, Many
  <2>2. CASE ~ran
    BY <2>2 DEF IInv, FrameOK
  <2>. QED BY <2>1, <2>2
<1>2. \A w \in Workers : wpc[w] # "done"
  BY <1>1 DEF Resting
<1>3. TypeOK'
  BY Kept, Signalled DEF IInv, TypeOK
<1>4. PlacesOK'
  BY Kept, Signalled DEF IInv, TypeOK, PlacesOK
<1>5. CountersOK'
  BY Kept, Signalled DEF IInv, TypeOK, CountersOK, IdleExact, Resting
<1>6. QuiesceOK'
  BY <1>2, Kept DEF IInv, TypeOK, PlacesOK, QuiesceOK
<1>7. FrameOK'
  BY <1>1, Kept DEF IInv, TypeOK, FrameOK
<1>8. WakeOK' /\ TickHasTask'
  BY Kept, Signalled DEF IInv, TypeOK, PlacesOK, WakeOK, TickHasTask
<1>. QED BY <1>3, <1>4, <1>5, <1>6, <1>7, <1>8 DEF IInv

\* Main runs tasks in a frame that started the workers.
LEMMA TickInv ==
  ASSUME IInv, Tick
  PROVE  IInv'
<1>. USE DEF Tick, Ticks, Go
<1>1. TypeOK'
  BY Kept, Signalled DEF IInv, TypeOK
<1>2. PlacesOK'
  BY Kept, Signalled DEF IInv, TypeOK, PlacesOK
<1>3. CountersOK'
  BY Kept, Signalled DEF IInv, TypeOK, CountersOK, IdleExact, Resting
<1>4. QuiesceOK'
  BY Kept, Signalled DEF IInv, TypeOK, PlacesOK, QuiesceOK
<1>5. FrameOK'
  BY Kept, Signalled DEF IInv, TypeOK, PlacesOK, QuiesceOK, FrameOK
<1>6. WakeOK' /\ TickHasTask'
  BY Kept, Signalled DEF IInv, TypeOK, PlacesOK, WakeOK, TickHasTask
<1>. QED BY <1>1, <1>2, <1>3, <1>4, <1>5, <1>6 DEF IInv

\* Main waits for a task.
LEMMA TickWaitInv ==
  ASSUME IInv, TickWait
  PROVE  IInv'
<1>. USE DEF TickWait, InTick, MoreToCome, Expire, AfterWait
<1>1. TypeOK'
  BY Kept, Signalled DEF IInv, TypeOK
<1>2. PlacesOK'
  BY Kept, Signalled DEF IInv, TypeOK, PlacesOK
<1>3. CountersOK'
  BY Kept, Signalled DEF IInv, TypeOK, CountersOK, IdleExact, Resting
<1>4. QuiesceOK'
  BY Kept, Signalled DEF IInv, TypeOK, PlacesOK, QuiesceOK
<1>5. FrameOK'
  BY Kept, Signalled DEF IInv, TypeOK, PlacesOK, QuiesceOK, FrameOK
<1>6. WakeOK' /\ TickHasTask'
  BY Kept, Signalled DEF IInv, TypeOK, PlacesOK, WakeOK, TickHasTask
<1>. QED BY <1>1, <1>2, <1>3, <1>4, <1>5, <1>6 DEF IInv

\* Its wait ends without a signal.
LEMMA TickTimeoutInv ==
  ASSUME IInv, TickTimeout
  PROVE  IInv'
<1>. USE DEF TickTimeout
<1>1. TypeOK'
  BY Kept, Signalled DEF IInv, TypeOK
<1>2. PlacesOK'
  BY Kept, Signalled DEF IInv, TypeOK, PlacesOK
<1>3. CountersOK'
  BY Kept, Signalled DEF IInv, TypeOK, CountersOK, IdleExact, Resting
<1>4. QuiesceOK'
  BY Kept, Signalled DEF IInv, TypeOK, PlacesOK, QuiesceOK
<1>5. FrameOK'
  BY Kept, Signalled DEF IInv, TypeOK, PlacesOK, QuiesceOK, FrameOK
<1>6. WakeOK' /\ TickHasTask'
  BY Kept, Signalled DEF IInv, TypeOK, PlacesOK, WakeOK, TickHasTask
<1>. QED BY <1>1, <1>2, <1>3, <1>4, <1>5, <1>6 DEF IInv

\* Main takes a task.
LEMMA TickRunInv ==
  ASSUME IInv, TickRun
  PROVE  IInv'
<1>. USE DEF TickRun, InTick, Expire, AfterWait, Go
<1>1. TypeOK'
  BY Kept, Signalled DEF IInv, TypeOK
<1>2. PlacesOK'
  BY Kept, Signalled DEF IInv, TypeOK, PlacesOK
<1>3. CountersOK'
  BY Kept, Signalled DEF IInv, TypeOK, CountersOK, IdleExact, Resting
<1>4. QuiesceOK'
  BY Kept, Signalled DEF IInv, TypeOK, PlacesOK, QuiesceOK
<1>5. FrameOK'
  BY Kept, Signalled DEF IInv, TypeOK, PlacesOK, QuiesceOK, FrameOK
<1>6. WakeOK' /\ TickHasTask'
  BY Kept, Signalled DEF IInv, TypeOK, PlacesOK, WakeOK, TickHasTask
<1>. QED BY <1>1, <1>2, <1>3, <1>4, <1>5, <1>6 DEF IInv

\* There is no task left, and nobody to make one ready.
LEMMA TickBreakInv ==
  ASSUME IInv, TickBreak
  PROVE  IInv'
<1>. USE DEF TickBreak, InTick, MoreToCome, QuiesceWorkers, Quiesce, CondBroadcast, Go
<1>1. OutOfWork
  BY Many DEF IInv, TypeOK, OutOfWork
<1>2. TypeOK'
  BY <1>1, Kept, Signalled DEF IInv, TypeOK
<1>3. PlacesOK'
  BY <1>1, Kept, Signalled DEF IInv, TypeOK, PlacesOK
<1>4. CountersOK'
  BY <1>1, Kept, Signalled DEF IInv, TypeOK, CountersOK, IdleExact, Resting
<1>5. QuiesceOK'
  BY <1>1, Kept, Signalled DEF IInv, TypeOK, PlacesOK, QuiesceOK
<1>6. FrameOK'
  BY <1>1, Kept, Signalled DEF IInv, TypeOK, PlacesOK, QuiesceOK, FrameOK
<1>7. WakeOK' /\ TickHasTask'
  BY <1>1, Kept, Signalled DEF IInv, TypeOK, PlacesOK, WakeOK, TickHasTask
<1>. QED BY <1>2, <1>3, <1>4, <1>5, <1>6, <1>7 DEF IInv

\* The time of the frame is over.
LEMMA TickTimeUpInv ==
  ASSUME IInv, TickTimeUp
  PROVE  IInv'
<1>. USE DEF TickTimeUp, QuiesceWorkers, Quiesce, CondBroadcast, Go
<1>1. TypeOK'
  BY Kept, Signalled DEF IInv, TypeOK
<1>2. PlacesOK'
  BY Kept, Signalled DEF IInv, TypeOK, PlacesOK
<1>3. CountersOK'
  BY Kept, Signalled DEF IInv, TypeOK, CountersOK, IdleExact, Resting
<1>4. QuiesceOK'
  BY Kept, Signalled DEF IInv, TypeOK, PlacesOK, QuiesceOK
<1>5. FrameOK'
  BY Kept, Signalled DEF IInv, TypeOK, PlacesOK, QuiesceOK, FrameOK
<1>6. WakeOK' /\ TickHasTask'
  BY Kept, Signalled DEF IInv, TypeOK, PlacesOK, WakeOK, TickHasTask
<1>. QED BY <1>1, <1>2, <1>3, <1>4, <1>5, <1>6 DEF IInv

\* Sched_ClearState touches the queues only.
LEMMA ClearInv ==
  ASSUME IInv, Clear
  PROVE  IInv'
<1>. USE DEF Clear, Go
<1>1. TypeOK'
  BY Kept, Signalled DEF IInv, TypeOK
<1>2. PlacesOK'
  BY Kept, Signalled DEF IInv, TypeOK, PlacesOK
<1>3. CountersOK'
  BY Kept, Signalled DEF IInv, TypeOK, CountersOK, IdleExact, Resting
<1>4. QuiesceOK'
  BY Kept, Signalled DEF IInv, TypeOK, PlacesOK, QuiesceOK
<1>5. FrameOK'
  BY Kept, Signalled DEF IInv, TypeOK, PlacesOK, QuiesceOK, FrameOK
<1>6. WakeOK' /\ TickHasTask'
  BY Kept, Signalled DEF IInv, TypeOK, PlacesOK, WakeOK, TickHasTask
<1>. QED BY <1>1, <1>2, <1>3, <1>4, <1>5, <1>6 DEF IInv

\* The workers are told to quit when they rest.
LEMMA ShutdownInv ==
  ASSUME IInv, Shutdown
  PROVE  IInv'
<1>. USE DEF Shutdown, Go
<1>1. TypeOK'
  BY Kept, Signalled DEF IInv, TypeOK
<1>2. PlacesOK'
  BY Kept, Signalled DEF IInv, TypeOK, PlacesOK
<1>3. CountersOK'
  BY Kept, Signalled DEF IInv, TypeOK, CountersOK, IdleExact, Resting
<1>4. QuiesceOK'
  BY Kept, Signalled DEF IInv, TypeOK, PlacesOK, QuiesceOK
<1>5. FrameOK'
  BY Kept, Signalled DEF IInv, TypeOK, PlacesOK, QuiesceOK, FrameOK
<1>6. WakeOK' /\ TickHasTask'
  BY Kept, Signalled DEF IInv, TypeOK, PlacesOK, WakeOK, TickHasTask
<1>. QED BY <1>1, <1>2, <1>3, <1>4, <1>5, <1>6 DEF IInv

\* Sched_Flush runs tasks while the workers rest.
LEMMA FlushInv ==
  ASSUME IInv, Flush
  PROVE  IInv'
<1>. USE DEF Flush, FlushRun, General, Go
<1>1. TypeOK'
  BY Kept, Signalled DEF IInv, TypeOK
<1>2. PlacesOK'
  BY Kept, Signalled DEF IInv, TypeOK, PlacesOK
<1>3. CountersOK'
  BY Kept, Signalled DEF IInv, TypeOK, CountersOK, IdleExact, Resting
<1>4. QuiesceOK'
  BY Kept, Signalled DEF IInv, TypeOK, PlacesOK, QuiesceOK
<1>5. FrameOK'
  BY Kept, Signalled DEF IInv, TypeOK, PlacesOK, QuiesceOK, FrameOK
<1>6. WakeOK' /\ TickHasTask'
  BY Kept, Signalled DEF IInv, TypeOK, PlacesOK, WakeOK, TickHasTask
<1>. QED BY <1>1, <1>2, <1>3, <1>4, <1>5, <1>6 DEF IInv

\* Main is through with its task.
LEMMA TickFinishInv ==
  ASSUME IInv, TickFinish
  PROVE  IInv'
<1>. USE DEF TickFinish, Go, Finish, Reactivate, CondSignal, SignalTo
<1>1. TypeOK'
  BY Kept, Signalled, MainThread DEF IInv, TypeOK
<1>2. PlacesOK'
  BY Kept, Signalled, MainThread DEF IInv, TypeOK, PlacesOK
<1>3. CountersOK'
  BY Kept, Signalled, MainThread DEF IInv, TypeOK, CountersOK, IdleExact, Resting
<1>4. QuiesceOK'
  BY Kept, Signalled, MainThread DEF IInv, TypeOK, PlacesOK, QuiesceOK
<1>5. FrameOK'
  BY Kept, Signalled, MainThread DEF IInv, TypeOK, PlacesOK, QuiesceOK, FrameOK
<1>6. WakeOK' /\ TickHasTask'
  BY Kept, Signalled, MainThread DEF IInv, TypeOK, PlacesOK, WakeOK, TickHasTask
<1>. QED BY <1>1, <1>2, <1>3, <1>4, <1>5, <1>6 DEF IInv

\* Main is through with a task of Sched_Flush.
LEMMA FlushFinishInv ==
  ASSUME IInv, FlushFinish
  PROVE  IInv'
<1>. USE DEF FlushFinish, Finish, Reactivate, CondSignal, SignalTo
<1>1. TypeOK'
  BY Kept, Signalled, MainThread DEF IInv, TypeOK
<1>2. PlacesOK'
  BY Kept, Signalled, MainThread DEF IInv, TypeOK, PlacesOK
<1>3. CountersOK'
  BY Kept, Signalled, MainThread DEF IInv, TypeOK, CountersOK, IdleExact, Resting
<1>4. QuiesceOK'
  BY Kept, Signalled, MainThread DEF IInv, TypeOK, PlacesOK, QuiesceOK
<1>5. FrameOK'
  BY Kept, Signalled, MainThread DEF IInv, TypeOK, PlacesOK, QuiesceOK, FrameOK
<1>6. WakeOK' /\ TickHasTask'
  BY Kept, Signalled, MainThread DEF IInv, TypeOK, PlacesOK, WakeOK, TickHasTask
<1>. QED BY <1>1, <1>2, <1>3, <1>4, <1>5, <1>6 DEF IInv

\* An event of the frame makes a task ready.
LEMMA FrameWakeInv ==
  ASSUME IInv, FrameWake
  PROVE  IInv'
<1>. USE DEF FrameWake, Blocked, Reactivate, CondSignal, SignalTo
<1>1. TypeOK'
  BY Kept, Signalled DEF IInv, TypeOK
<1>2. PlacesOK'
  BY Kept, Signalled DEF IInv, TypeOK, PlacesOK
<1>3. CountersOK'
  BY Kept, Signalled DEF IInv, TypeOK, CountersOK, IdleExact, Resting
<1>4. QuiesceOK'
  BY Kept, Signalled DEF IInv, TypeOK, PlacesOK, QuiesceOK
<1>5. FrameOK'
  BY Kept, Signalled DEF IInv, TypeOK, PlacesOK, QuiesceOK, FrameOK
<1>6. WakeOK' /\ TickHasTask'
  BY Kept, Signalled DEF IInv, TypeOK, PlacesOK, WakeOK, TickHasTask
<1>. QED BY <1>1, <1>2, <1>3, <1>4, <1>5, <1>6 DEF IInv

\* A thread with a task makes another ready; while main ticks it is a worker.
LEMMA WakeInv ==
  ASSUME IInv, NEW thr \in Threads, Wake(thr)
  PROVE  IInv'
<1>. USE DEF Wake, Blocked, Reactivate, CondSignal, SignalTo
<1>1. mpc = "tick" => nwaiters < NWorkers
  <2>. SUFFICES ASSUME mpc = "tick" PROVE nwaiters < NWorkers
    OBVIOUS
  <2>1. thr \in Workers /\ wpc[thr] = "task"
    BY DEF IInv, PlacesOK
  <2>2. thr \notin Waiting
    BY <2>1 DEF Waiting
  <2>. QED BY <2>1, <2>2, Fewer, Sets DEF IInv, CountersOK
<1>2. TypeOK'
  BY Kept, Signalled DEF IInv, TypeOK
<1>3. PlacesOK'
  BY Kept, Signalled DEF IInv, TypeOK, PlacesOK
<1>4. CountersOK'
  BY Kept, Signalled DEF IInv, TypeOK, CountersOK, IdleExact, Resting
<1>5. QuiesceOK'
  BY Kept, Signalled DEF IInv, TypeOK, PlacesOK, QuiesceOK
<1>6. FrameOK'
  BY Kept, Signalled DEF IInv, TypeOK, PlacesOK, QuiesceOK, FrameOK
<1>7. WakeOK' /\ TickHasTask'
  BY <1>1, Kept DEF IInv, TypeOK, WakeOK, TickHasTask
<1>. QED BY <1>2, <1>3, <1>4, <1>5, <1>6, <1>7 DEF IInv

\* A worker starts, or leaves after Sched_Shutdown.
LEMMA BeginInv ==
  ASSUME IInv, NEW w \in Workers, Begin(w)
  PROVE  IInv'
<1>. USE DEF Begin
<1>1. Waiting' = Waiting
  BY DEF IInv, TypeOK, Waiting
<1>2. Resting' = Resting
  BY DEF IInv, TypeOK, PlacesOK, FrameOK, Resting
<1>3. TypeOK'
  BY Cards, Sets, Many DEF IInv, TypeOK, CountersOK
<1>4. PlacesOK'
  BY <1>1 DEF IInv, TypeOK, PlacesOK
<1>5. CountersOK'
  BY <1>1, <1>2 DEF IInv, TypeOK, CountersOK, IdleExact
<1>6. QuiesceOK'
  BY <1>1, <1>2 DEF IInv, TypeOK, PlacesOK, QuiesceOK
<1>7. FrameOK'
  BY <1>2 DEF IInv, TypeOK, PlacesOK, QuiesceOK, FrameOK
<1>8. WakeOK' /\ TickHasTask'
  BY DEF IInv, TypeOK, WakeOK, TickHasTask
<1>. QED BY <1>3, <1>4, <1>5, <1>6, <1>7, <1>8 DEF IInv

\* A worker is through with its task; it was not waiting.
LEMMA WorkerFinishInv ==
  ASSUME IInv, NEW w \in Workers, WorkerFinish(w)
  PROVE  IInv'
<1>. USE DEF WorkerFinish, Finish, Reactivate, CondSignal, SignalTo
<1>1. Waiting' = Waiting
  BY DEF IInv, TypeOK, Waiting
<1>2. Resting' = Resting
  BY DEF IInv, TypeOK, PlacesOK, FrameOK, Resting
<1>3. nwaiters < NWorkers
  <2>1. w \notin Waiting
    BY DEF Waiting
  <2>. QED BY <2>1, Fewer, Sets DEF IInv, CountersOK
<1>4. TypeOK'
  BY Cards, Sets, Many DEF IInv, TypeOK, CountersOK
<1>5. PlacesOK'
  BY <1>1 DEF IInv, TypeOK, PlacesOK
<1>6. CountersOK'
  BY <1>1, <1>2 DEF IInv, TypeOK, CountersOK, IdleExact
<1>7. QuiesceOK'
  BY <1>1, <1>2 DEF IInv, TypeOK, PlacesOK, QuiesceOK
<1>8. FrameOK'
  BY <1>2 DEF IInv, TypeOK, PlacesOK, QuiesceOK, FrameOK
<1>9. WakeOK' /\ TickHasTask'
  BY <1>3 DEF IInv, TypeOK, WakeOK, TickHasTask
<1>. QED BY <1>4, <1>5, <1>6, <1>7, <1>8, <1>9 DEF IInv

\* A worker that is done rests, and is counted.
LEMMA NotifyDoneInv ==
  ASSUME IInv, NEW w \in Workers, NotifyDone(w)
  PROVE  IInv'
<1>. USE DEF NotifyDone, CondSignal, SignalTo
<1>1. Waiting' = Waiting
  BY DEF IInv, TypeOK, Waiting
<1>2. Resting' = Resting \cup {w}
  BY DEF IInv, TypeOK, PlacesOK, FrameOK, Resting
<1>3. w \notin Resting /\ prev /\ ran /\ mpc # "starting"
  BY DEF IInv, TypeOK, QuiesceOK, FrameOK, Resting
<1>4. idle' = Cardinality(Resting')
  BY <1>2, <1>3, OneMore, Sets DEF IInv, CountersOK, IdleExact
<1>5. idle' \in 0 .. NWorkers
  <2>1. Resting' \in SUBSET Workers
    BY <1>2, Sets
  <2>. HIDE DEF NotifyDone
  <2>. QED BY ONLY <1>4, <2>1, Cards, Zenon
<1>6. TypeOK'
  BY <1>5 DEF IInv, TypeOK
<1>7. PlacesOK'
  BY <1>1 DEF IInv, TypeOK, PlacesOK
<1>8. CountersOK'
  BY <1>1, <1>4 DEF IInv, TypeOK, CountersOK, IdleExact
<1>9. QuiesceOK'
  BY <1>1, <1>2 DEF IInv, TypeOK, PlacesOK, QuiesceOK
<1>10. FrameOK'
  BY <1>2, <1>3 DEF IInv, TypeOK, QuiesceOK, FrameOK
<1>11. WakeOK' /\ TickHasTask'
  BY DEF IInv, TypeOK, WakeOK, TickHasTask
<1>. QED BY <1>6, <1>7, <1>8, <1>9, <1>10, <1>11 DEF IInv

\* The loop of a worker that waits, or is about to: a worker that comes back
\* leaves a place free among those that wait, one that waits takes it.
LEMMA TakeOrWaitInv ==
  ASSUME IInv, NEW w \in Workers, wpc[w] \in {"enter", "wait"},
         NEW S \in SUBSET asleep, w \notin S,
         NEW n, n = Cardinality(Waiting \cup {w}),
         mpc = "tick" /\ Main \in S /\ queued # {} => n < NWorkers,
         TakeOrWait(w, n, S),
         UNCHANGED <<idle, quiesce, start, quit, mainVars>>
  PROVE  IInv'
<1>. USE DEF TakeOrWait, General
<1>1. n \in 0 .. NWorkers /\ Cardinality((Waiting \cup {w}) \ {w}) = n - 1
  BY Cards, Sets, OneLess
<1>2. Resting' = Resting
  BY DEF IInv, TypeOK, Resting
<1>3. CASE wpc' = [wpc EXCEPT ![w] = "wait"]
  <2>1. Waiting' = Waiting \cup {w} /\ nwaiters' = n
    BY <1>3 DEF IInv, TypeOK, Waiting
  <2>2. TypeOK'
    BY <1>1, <1>3 DEF IInv, TypeOK
  <2>3. PlacesOK'
    BY <1>3, <2>1 DEF IInv, TypeOK, PlacesOK
  <2>4. CountersOK'
    BY <1>2, <2>1 DEF IInv, CountersOK, IdleExact
  <2>5. QuiesceOK'
    BY <1>3 DEF IInv, TypeOK, QuiesceOK
  <2>6. FrameOK'
    BY <1>2 DEF IInv, FrameOK
  <2>7. WakeOK' /\ TickHasTask'
    BY <1>3, MainThread DEF IInv, TypeOK, WakeOK, TickHasTask
  <2>. QED BY <2>2, <2>3, <2>4, <2>5, <2>6, <2>7 DEF IInv
<1>4. CASE nwaiters' = n - 1 /\ wpc' # [wpc EXCEPT ![w] = "wait"]
  <2>1. Waiting' = (Waiting \cup {w}) \ {w}
    BY <1>4 DEF IInv, TypeOK, Waiting
  <2>2. nwaiters' = Cardinality(Waiting') /\ nwaiters' \in 0 .. NWorkers /\ nwaiters' < NWorkers
    <3>1. Waiting' \in SUBSET Workers /\ w \notin Waiting'
      BY <2>1, Sets
    <3>2. Cardinality(Waiting') \in 0 .. NWorkers /\ Cardinality(Waiting') = n - 1
      BY ONLY <1>1, <2>1, <3>1, Cards
    <3>. QED BY <1>1, <1>4, <3>2, Many
  <2>3. TypeOK'
    BY <1>4, <2>2 DEF IInv, TypeOK
  <2>4. PlacesOK'
    <3>1. \A x \in asleep' : x \in Waiting' \cup {Main}
      BY <1>4, <2>1 DEF IInv, PlacesOK
    <3>. QED BY <1>4, <3>1 DEF IInv, TypeOK, PlacesOK
  <2>5. CountersOK'
    BY <1>2, <2>2 DEF IInv, CountersOK, IdleExact
  <2>6. QuiesceOK'
    BY <1>4 DEF IInv, TypeOK, QuiesceOK
  <2>7. FrameOK'
    BY <1>2 DEF IInv, FrameOK
  <2>8. WakeOK' /\ TickHasTask'
    BY <2>2 DEF IInv, WakeOK, TickHasTask
  <2>. QED BY <2>3, <2>4, <2>5, <2>6, <2>7, <2>8 DEF IInv
<1>. QED BY <1>1, <1>3, <1>4 DEF IInv, TypeOK

\* A worker comes to the loop: it is one more that waits, and the last of them
\* wakes everybody up.
LEMMA EnterInv ==
  ASSUME IInv, NEW w \in Workers, Enter(w)
  PROVE  IInv'
<1>. DEFINE n == nwaiters + 1
<1>1. wpc[w] = "enter" /\ TakeOrWait(w, n, LastWaiter(n)) /\ UNCHANGED <<idle, quiesce,
    start, quit, mainVars>>
  BY DEF Enter
<1>2. w \notin Waiting
  BY <1>1 DEF Waiting
<1>3. n = Cardinality(Waiting \cup {w})
  BY <1>2, OneMore, Sets DEF IInv, CountersOK
<1>4. /\ LastWaiter(n) \in SUBSET asleep /\ w \notin LastWaiter(n)
      /\ Main \in LastWaiter(n) => n < NWorkers
  <2>1. n \in 0 .. NWorkers /\ NWorkers \in Nat
    BY <1>3, Cards, Sets, Many
  <2>2. w \notin asleep
    BY <1>2, MainThread DEF IInv, PlacesOK
  <2>. QED BY <2>1, <2>2 DEF LastWaiter
<1>. QED BY <1>1, <1>3, <1>4, TakeOrWaitInv

\* A worker that was woken up looks again; it has been counted.
LEMMA ResumeInv ==
  ASSUME IInv, NEW w \in Workers, Resume(w)
  PROVE  IInv'
<1>1. wpc[w] = "wait" /\ w \notin asleep /\ TakeOrWait(w, nwaiters,
    asleep) /\ UNCHANGED <<idle, quiesce, start, quit, mainVars>>
  BY DEF Resume
<1>2. nwaiters = Cardinality(Waiting \cup {w})
  <2>1. Waiting \cup {w} = Waiting
    BY <1>1 DEF Waiting
  <2>. QED BY <2>1 DEF IInv, CountersOK
<1>3. mpc = "tick" /\ Main \in asleep /\ queued # {} => nwaiters < NWorkers
  BY DEF IInv, WakeOK
<1>. QED BY <1>1, <1>2, <1>3, TakeOrWaitInv

\* A step that changes nothing.
LEMMA StutterInv ==
  ASSUME IInv, UNCHANGED vars
  PROVE  IInv'
<1>. USE DEF vars
<1>1. Waiting' = Waiting /\ Resting' = Resting
  BY Kept
<1>. QED BY <1>1 DEF IInv, TypeOK, PlacesOK, CountersOK, IdleExact, QuiesceOK, FrameOK,
                     WakeOK, TickHasTask

\* At the start nothing runs and every worker rests.
LEMMA InitInv == Init => IInv
<1>. SUFFICES ASSUME Init PROVE IInv
  OBVIOUS
<1>1. Waiting = {} /\ Resting = Workers
  BY DEF Init, Waiting, Resting
<1>2. nwaiters = Cardinality(Waiting) /\ 0 \in 0 .. NWorkers
  BY <1>1, FS_EmptySet, Many DEF Init
<1>3. TypeOK
  BY <1>2 DEF Init, TypeOK
<1>. QED BY <1>1, <1>2, <1>3 DEF Init, IInv, PlacesOK, CountersOK, IdleExact, QuiesceOK,
    FrameOK,
                                 WakeOK, TickHasTask

(* The theorems *)

\* Whatever the threads do, in whatever order, the places they are at, the
\* counters and the flags agree.
THEOREM Invariance == Spec => []IInv
<1>1. IInv /\ [Next]_vars => IInv'
  <2>. SUFFICES ASSUME IInv, [Next]_vars PROVE IInv'
    OBVIOUS
  <2>1. ASSUME NEW w \in Workers, WorkerStep(w) PROVE IInv'
    BY <2>1, BeginInv, EnterInv, ResumeInv, WorkerFinishInv, NotifyDoneInv DEF WorkerStep
  <2>2. CASE MainStep
    <3>1. ASSUME NEW w \in Workers, StartWorker(w) PROVE IInv'
      BY <3>1, StartWorkerInv
    <3>2. CASE StartFrame \/ Started \/ AwaitWorkers \/ Quiesced
      BY <3>2, StartFrameInv, StartedInv, AwaitWorkersInv, QuiescedInv
    <3>3. CASE Flush \/ Clear \/ FlushFinish
      BY <3>3, FlushInv, ClearInv, FlushFinishInv
    <3>4. CASE Tick \/ TickWait \/ TickRun \/ TickBreak \/ TickFinish \/ TickTimeUp
      BY <3>4, TickInv, TickWaitInv, TickRunInv, TickBreakInv, TickFinishInv, TickTimeUpInv
    <3>. QED BY <2>2, <3>1, <3>2, <3>3, <3>4 DEF MainStep
  <2>3. ASSUME NEW thr \in Threads, Wake(thr) PROVE IInv'
    BY <2>3, WakeInv
  <2>4. CASE TickTimeout \/ FrameWake \/ ChangeSimState \/ Elapse \/ ChangeSession \/ Shutdown
    BY <2>4, TickTimeoutInv, FrameWakeInv, ChangeSimStateInv, ElapseInv, ChangeSessionInv,
        ShutdownInv
  <2>5. CASE UNCHANGED vars
    BY <2>5, StutterInv
  <2>. QED BY <2>1, <2>2, <2>3, <2>4, <2>5 DEF Next
<1>. QED BY InitInv, <1>1, PTL DEF Spec

\* For any number of workers: between two frames, and while the queues are
\* worked on without the lock, every worker waits for its next command.
THEOREM WorkersQuietHolds == Spec => []WorkersQuiet
<1>1. IInv => WorkersQuiet
  <2>. SUFFICES ASSUME IInv, mpc \in {"begin", "flush", "flushgeneral", "clear", "shutdown"}
                PROVE  /\ \A w \in Workers : wpc[w] \in {"cmd", "gone"} /\ ~start[w]
                       /\ nwaiters = 0 /\ asleep = {}
    BY DEF WorkersQuiet
  <2>1. Resting = Workers
    BY DEF IInv, FrameOK
  <2>2. \A w \in Workers : wpc[w] \in {"cmd", "gone"} /\ ~start[w]
    BY <2>1 DEF Resting
  <2>3. Waiting = {}
    BY <2>2 DEF Waiting
  <2>4. asleep = {}
    BY <2>3 DEF IInv, PlacesOK
  <2>5. nwaiters = 0
    BY <2>3, FS_EmptySet DEF IInv, CountersOK
  <2>. QED BY <2>2, <2>4, <2>5
<1>. QED BY <1>1, Invariance, PTL

\* For any number of workers: s_idle_workers counts those that rest.
THEOREM CountsExactHolds == Spec => []CountsExact
<1>1. IInv => CountsExact
  BY DEF IInv, CountersOK, CountsExact
<1>. QED BY <1>1, Invariance, PTL

\* For any number of workers: main is never the only one that could take a task
\* and sleeps over it, and its wait for the workers is woken by the last of them.
THEOREM NoSignalLostHolds == Spec => []NoSignalLost
<1>1. IInv => NoSignalLost
  <2>. SUFFICES ASSUME IInv PROVE NoSignalLost
    OBVIOUS
  <2>1. SignalReachesMain
    BY DEF IInv, QuiesceOK, SignalReachesMain
  <2>2. NoneLeftWaiting
    <3>. SUFFICES ASSUME mpc = "tick", queued # {}, asleep = Threads PROVE FALSE
      BY DEF NoneLeftWaiting
    <3>1. Workers \subseteq Waiting /\ Main \in asleep
      BY MainThread DEF IInv, PlacesOK
    <3>2. Waiting = Workers
      BY <3>1, Sets
    <3>3. nwaiters < NWorkers /\ nwaiters = NWorkers
      BY <3>1, <3>2 DEF IInv, WakeOK, CountersOK, NWorkers
    <3>. QED BY <3>3, Many
  <2>. QED BY <2>1, <2>2 DEF IInv, NoSignalLost
<1>. QED BY <1>1, Invariance, PTL
=============================================================================
