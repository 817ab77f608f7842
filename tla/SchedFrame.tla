----------------------------- MODULE SchedFrame -----------------------------
(***************************************************************************)
(* The frame protocol of src/src/sched.c: the main thread starts the       *)
(* worker threads at the beginning of a frame, takes part in running tasks *)
(* in Sched_Tick until the time of the frame is over, and quiesces the     *)
(* workers before it goes on; a session change quiesces them in mid-frame. *)
(* Sched models what a task's requests do; here a task only moves between  *)
(* a ready queue, a thread and being blocked, and the subject is the       *)
(* condition variable s_ready_cond, s_quiesce and the counters             *)
(* s_nwaiters and s_idle_workers.                                          *)
(*                                                                         *)
(* A step is what a thread does while it holds s_ready_lock, up to the     *)
(* unlock or to the SDL_CondWait that releases it.                         *)
(***************************************************************************)
EXTENDS Naturals, FiniteSets

CONSTANTS
  Workers,   \* the worker threads (none on a single core)
  Main,      \* the main thread
  Tasks,     \* the tasks
  Pinned,    \* those with TASK_MAIN_THREAD_PINNED
  NoTask     \* the thread has no task

Threads == Workers \cup {Main}
NWorkers == Cardinality(Workers)

ASSUME FrameAssumption ==
  /\ IsFiniteSet(Workers)
  /\ Main \notin Workers
  /\ Pinned \subseteq Tasks
  /\ NoTask \notin Tasks

VARIABLES
  queued,    \* the tasks in s_ready_queue and, if pinned, s_ready_queue_main
  cur,       \* the task a thread is running or servicing
  asleep,    \* the threads waiting on s_ready_cond
  nwaiters,  \* s_nwaiters
  idle,      \* s_idle_workers
  quiesce,   \* s_quiesce
  start,     \* s_worker_start
  quit,      \* s_worker_quit
  wpc,       \* where a worker is
  mpc,       \* where the main thread is
  told,      \* the workers told to start so far in this frame
  after,     \* what main does once the workers are quiesced
  ss,        \* G_GetSimState() = G_RUNNING
  prev,      \* s_prev_ss = G_RUNNING
  late,      \* Perf_CurrFrameMS() >= SCHED_TICK_MS
  expired,   \* main's wait was given no time: left = 0
  ran        \* a frame has started the workers before

taskVars   == <<queued, cur>>
workerVars == <<start, quit, wpc>>
mainVars   == <<mpc, told, after, ss, prev, late, expired, ran>>
vars == <<taskVars, asleep, nwaiters, idle, quiesce, workerVars, mainVars>>

General == queued \ Pinned
Blocked == {t \in Tasks : t \notin queued /\ \A thr \in Threads : cur[thr] # t}
-----------------------------------------------------------------------------
(* The condition variable *)

SignalTo(S) == IF S = {} THEN asleep' = S ELSE \E thr \in S : asleep' = S \ {thr}
CondSignal == SignalTo(asleep)
CondBroadcast == asleep' = {}

\* Sched_Tick and sched_quiesce_workers wake every worker.
Quiesce == quiesce' = TRUE /\ CondBroadcast
-----------------------------------------------------------------------------
(* Tasks *)

\* sched_reactivate of task t
Reactivate(t) == queued' = queued \cup {t} /\ CondSignal

\* A thread that has a task wakes another one up while it runs or services it.
Wake(thr) ==
  /\ cur[thr] # NoTask
  /\ \E t \in Blocked : Reactivate(t)
  /\ UNCHANGED <<cur, nwaiters, idle, quiesce, workerVars, mainVars>>

\* The service of its task's request is over: the task is ready again, or not.
Finish(thr) ==
  /\ cur[thr] # NoTask
  /\ cur' = [cur EXCEPT ![thr] = NoTask]
  /\ \/ Reactivate(cur[thr])
     \/ UNCHANGED <<queued, asleep>>
-----------------------------------------------------------------------------
(* worker_threadfn *)

\* worker_wait_on_cmd
Begin(w) ==
  /\ wpc[w] = "cmd"
  /\ start[w] \/ quit[w]
  /\ start' = [start EXCEPT ![w] = FALSE]
  /\ wpc' = [wpc EXCEPT ![w] = IF quit[w] THEN "gone" ELSE "enter"]
  /\ UNCHANGED <<taskVars, asleep, nwaiters, idle, quiesce, quit, mainVars>>

\* The loop of worker_wait_task_or_quiesce, with n waiters: return without a
\* task, return with one, or wait.
TakeOrWait(w, n, S) ==
  \/ /\ quiesce
     /\ nwaiters' = n - 1
     /\ wpc' = [wpc EXCEPT ![w] = "done"]
     /\ asleep' = S
     /\ UNCHANGED taskVars
  \/ /\ ~quiesce
     /\ \E t \in General :
          /\ queued' = queued \ {t}
          /\ cur' = [cur EXCEPT ![w] = t]
     /\ nwaiters' = n - 1
     /\ wpc' = [wpc EXCEPT ![w] = "task"]
     /\ asleep' = S
  \/ /\ ~quiesce /\ General = {}
     /\ nwaiters' = n
     /\ wpc' = [wpc EXCEPT ![w] = "wait"]
     /\ asleep' = S \cup {w}
     /\ UNCHANGED taskVars

\* The last worker to wait tells the main thread that there may be no work left.
LastWaiterSilent(n) == asleep
LastWaiter(n) == IF n = NWorkers THEN {} ELSE asleep

Enter(w) ==
  /\ wpc[w] = "enter"
  /\ TakeOrWait(w, nwaiters + 1, LastWaiter(nwaiters + 1))
  /\ UNCHANGED <<idle, quiesce, start, quit, mainVars>>

Resume(w) ==
  /\ wpc[w] = "wait" /\ w \notin asleep
  /\ TakeOrWait(w, nwaiters, asleep)
  /\ UNCHANGED <<idle, quiesce, start, quit, mainVars>>

WorkerFinish(w) ==
  /\ wpc[w] = "task"
  /\ Finish(w)
  /\ wpc' = [wpc EXCEPT ![w] = "enter"]
  /\ UNCHANGED <<nwaiters, idle, quiesce, start, quit, mainVars>>

\* worker_notify_done
NotifyDone(w) ==
  /\ wpc[w] = "done"
  /\ idle' = idle + 1
  /\ CondSignal
  /\ wpc' = [wpc EXCEPT ![w] = "cmd"]
  /\ UNCHANGED <<taskVars, nwaiters, quiesce, start, quit, mainVars>>
-----------------------------------------------------------------------------
(* The main thread *)

Go(m) == mpc' = m

\* Sched_StartBackgroundTasks: the simulation state is sampled once a frame.
StartFrame ==
  /\ mpc = "begin"
  /\ prev' = ss
  /\ late' = FALSE
  /\ IF ss THEN idle' = 0 /\ ran' = TRUE /\ Go("starting")
           ELSE UNCHANGED <<idle, ran>> /\ Go("frame")
  /\ UNCHANGED <<taskVars, asleep, nwaiters, quiesce, workerVars, told, after, ss, expired>>

StartWorker(w) ==
  /\ mpc = "starting"
  /\ w \notin told
  /\ start' = [start EXCEPT ![w] = TRUE]
  /\ told' = told \cup {w}
  /\ UNCHANGED <<taskVars, asleep, nwaiters, idle, quiesce, quit, wpc,
                 mpc, after, ss, prev, late, expired, ran>>

Started ==
  /\ mpc = "starting" /\ told = Workers
  /\ told' = {}
  /\ Go("frame")
  /\ UNCHANGED <<taskVars, asleep, nwaiters, idle, quiesce, workerVars,
                 after, ss, prev, late, expired, ran>>

\* E_ServiceQueue and G_Update: events wake tasks up.
FrameWake ==
  /\ mpc = "frame"
  /\ \E t \in Blocked : Reactivate(t)
  /\ UNCHANGED <<cur, nwaiters, idle, quiesce, workerVars, mainVars>>

\* g_change_simstate, in the G_SwapBuffers that ends a frame and in the two of a
\* session change, in mid-frame.
ChangeSimState ==
  /\ mpc \in {"frame", "begin"}
  /\ ss' = ~ss
  /\ UNCHANGED <<taskVars, asleep, nwaiters, idle, quiesce, workerVars,
                 mpc, told, after, prev, late, expired, ran>>

Elapse ==
  /\ mpc \in {"frame", "tick", "run"}
  /\ ~late
  /\ late' = TRUE
  /\ UNCHANGED <<taskVars, asleep, nwaiters, idle, quiesce, workerVars,
                 mpc, told, after, ss, prev, expired, ran>>

\* sched_quiesce_workers up to its first wait; what is to follow is kept.
QuiesceWorkers(next) ==
  /\ Quiesce
  /\ after' = next
  /\ Go("quiescing")

\* Session_ServiceRequests: Sched_Flush or Sched_ClearState.
ChangeSession ==
  /\ mpc = "frame"
  /\ \E next \in {"flush", "clear"} : QuiesceWorkers(next)
  /\ UNCHANGED <<taskVars, nwaiters, idle, workerVars, told, ss, prev, late, expired, ran>>

\* sched_wait_workers_done, and s_quiesce = false, which the code writes once no
\* worker is left to read it.
WorkersLeftEarly == idle + 1 < NWorkers
WorkersLeft == idle < NWorkers

AwaitWorkers ==
  /\ mpc = "quiescing" /\ Main \notin asleep
  /\ WorkersLeft
  /\ asleep' = asleep \cup {Main}
  /\ UNCHANGED <<taskVars, nwaiters, idle, quiesce, workerVars, mainVars>>

Quiesced ==
  /\ mpc = "quiescing" /\ Main \notin asleep
  /\ ~WorkersLeft
  /\ quiesce' = FALSE
  /\ Go(after)
  /\ UNCHANGED <<taskVars, asleep, nwaiters, idle, workerVars,
                 told, after, ss, prev, late, expired, ran>>

\* Sched_Flush runs the tasks of the main queue, then those of the other: what
\* these make ready in the main queue stays there.
FlushRun(S) ==
  \E t \in S : /\ queued' = queued \ {t}
               /\ cur' = [cur EXCEPT ![Main] = t]
               /\ Go(mpc)

Flush ==
  /\ cur[Main] = NoTask
  /\ \/ mpc = "flush" /\ FlushRun(queued \cap Pinned)
     \/ /\ mpc = "flush" /\ queued \cap Pinned = {}
        /\ Go("flushgeneral") /\ UNCHANGED taskVars
     \/ mpc = "flushgeneral" /\ FlushRun(General)
     \/ /\ mpc = "flushgeneral" /\ General = {}
        /\ Go("frame") /\ UNCHANGED taskVars
  /\ UNCHANGED <<asleep, nwaiters, idle, quiesce, workerVars,
                 told, after, ss, prev, late, expired, ran>>

FlushFinish ==
  /\ mpc \in {"flush", "flushgeneral"}
  /\ Finish(Main)
  /\ UNCHANGED <<nwaiters, idle, quiesce, workerVars, mainVars>>

\* Sched_ClearState forgets every task; Task_CreateServices makes two anew.
Clear ==
  /\ mpc = "clear"
  /\ queued' \in {S \in SUBSET (Tasks \ Pinned) : Cardinality(S) <= 2}
  /\ Go("frame")
  /\ UNCHANGED <<cur, asleep, nwaiters, idle, quiesce, workerVars,
                 told, after, ss, prev, late, expired, ran>>

\* Sched_Tick: nothing to do in a frame that did not start the workers.
TicksNow == ss
Ticks == prev

Tick ==
  /\ mpc = "frame"
  /\ Go(IF Ticks THEN "tick" ELSE "begin")
  /\ UNCHANGED <<taskVars, asleep, nwaiters, idle, quiesce, workerVars,
                 told, after, ss, prev, late, expired, ran>>

\* Its loop.  A wait that was given no time is followed by a quiesce, before the
\* condition is evaluated again.
InTick == mpc = "tick" /\ Main \notin asleep
AfterWait == IF expired THEN {} ELSE asleep
NeverExpire == quiesce' = quiesce
Expire == quiesce' = (quiesce \/ expired)

\* The queues are empty and some worker may still fill them.
MoreToCome == queued = {} /\ nwaiters < NWorkers /\ idle < NWorkers

TickWait ==
  /\ InTick
  /\ MoreToCome
  /\ Expire
  /\ asleep' = AfterWait \cup {Main}
  /\ expired' = late
  /\ UNCHANGED <<taskVars, nwaiters, idle, workerVars, mpc, told, after, ss, prev, late, ran>>

\* SDL_CondWaitTimeout gives up.
TickTimeout ==
  /\ mpc = "tick" /\ Main \in asleep
  /\ late
  /\ asleep' = asleep \ {Main}
  /\ UNCHANGED <<taskVars, nwaiters, idle, quiesce, workerVars, mainVars>>

TickRun ==
  /\ InTick
  /\ \E t \in queued : /\ queued' = queued \ {t}
                       /\ cur' = [cur EXCEPT ![Main] = t]
  /\ Expire
  /\ asleep' = AfterWait
  /\ expired' = FALSE
  /\ Go("run")
  /\ UNCHANGED <<nwaiters, idle, workerVars, told, after, ss, prev, late, ran>>

\* No task, and no worker that could make one ready: the loop is left.  Without
\* the second condition the assertion on curr would fail.
OutOfWork == nwaiters = NWorkers \/ idle = NWorkers

TickBreak ==
  /\ InTick
  /\ queued = {} /\ ~MoreToCome
  /\ expired' = FALSE
  /\ IF OutOfWork
     THEN QuiesceWorkers("begin")
     ELSE Go("failed") /\ UNCHANGED <<asleep, quiesce, after>>
  /\ UNCHANGED <<taskVars, nwaiters, idle, workerVars, told, ss, prev, late, ran>>

TickFinish ==
  /\ mpc = "run"
  /\ Finish(Main)
  /\ Go(IF late THEN "timeup" ELSE "tick")
  /\ UNCHANGED <<nwaiters, idle, quiesce, workerVars, told, after, ss, prev, late, expired, ran>>

TickTimeUp ==
  /\ mpc = "timeup"
  /\ QuiesceWorkers("begin")
  /\ UNCHANGED <<taskVars, nwaiters, idle, workerVars, told, ss, prev, late, expired, ran>>

\* Sched_Shutdown, after the last frame: the condition variable and the mutexes
\* are destroyed, then the workers are told to quit.
Shutdown ==
  /\ mpc = "begin"
  /\ quit' = [w \in Workers |-> TRUE]
  /\ Go("shutdown")
  /\ UNCHANGED <<taskVars, asleep, nwaiters, idle, quiesce, start, wpc,
                 told, after, ss, prev, late, expired, ran>>
-----------------------------------------------------------------------------
Init ==
  /\ queued \in {S \in SUBSET (Tasks \ Pinned) : Cardinality(S) = 2}
  /\ cur = [thr \in Threads |-> NoTask]
  /\ asleep = {}
  /\ nwaiters = 0
  /\ idle = 0
  /\ quiesce = FALSE
  /\ start = [w \in Workers |-> FALSE]
  /\ quit = [w \in Workers |-> FALSE]
  /\ wpc = [w \in Workers |-> "cmd"]
  /\ mpc = "begin"
  /\ told = {}
  /\ after = "begin"
  /\ ss \in BOOLEAN /\ prev = FALSE
  /\ late = FALSE
  /\ expired = FALSE
  /\ ran = FALSE

WorkerStep(w) == Begin(w) \/ Enter(w) \/ Resume(w) \/ WorkerFinish(w) \/ NotifyDone(w)

MainStep ==
  \/ StartFrame \/ (\E w \in Workers : StartWorker(w)) \/ Started
  \/ AwaitWorkers \/ Quiesced \/ Flush \/ Clear \/ FlushFinish
  \/ Tick \/ TickWait \/ TickRun \/ TickBreak \/ TickFinish \/ TickTimeUp

Next ==
  \/ \E thr \in Threads : Wake(thr)
  \/ \E w \in Workers : WorkerStep(w)
  \/ MainStep \/ TickTimeout
  \/ FrameWake \/ ChangeSimState \/ Elapse \/ ChangeSession \/ Shutdown

Spec == Init /\ [][Next]_vars

\* Threads are scheduled, time passes, a wait with a timeout ends, and a task
\* comes to its next request.
FairSpec ==
  /\ Spec
  /\ \A w \in Workers : WF_vars(WorkerStep(w))
  /\ WF_vars(MainStep) /\ WF_vars(TickTimeout) /\ WF_vars(Elapse)
-----------------------------------------------------------------------------
(* Properties *)

\* The counters are numbers of workers and every thread is at a known place.
TypeOK ==
  /\ queued \subseteq Tasks
  /\ cur \in [Threads -> Tasks \cup {NoTask}]
  /\ asleep \subseteq Threads
  /\ nwaiters \in 0 .. NWorkers
  /\ idle \in 0 .. NWorkers
  /\ quiesce \in BOOLEAN
  /\ start \in [Workers -> BOOLEAN]
  /\ quit \in [Workers -> BOOLEAN]
  /\ wpc \in [Workers -> {"cmd", "enter", "wait", "task", "done", "gone"}]
  /\ mpc \in {"begin", "starting", "frame", "tick", "run", "timeup", "quiescing",
              "flush", "flushgeneral", "clear", "failed", "shutdown"}
  /\ told \subseteq Workers
  /\ after \in {"begin", "flush", "clear"}
  /\ {ss, prev, late, expired, ran} \subseteq BOOLEAN

\* Between two frames, and while Sched_Flush or Sched_ClearState work on the
\* queues without s_ready_lock, every worker waits for its next command and none
\* has one: what sched_wait_workers_done asserts, and what Sched_Shutdown needs
\* before it destroys the condition variable the workers wait on.
WorkersQuiet ==
  mpc \in {"begin", "flush", "flushgeneral", "clear", "shutdown"} =>
    /\ \A w \in Workers : wpc[w] \in {"cmd", "gone"} /\ ~start[w]
    /\ nwaiters = 0
    /\ asleep = {}

\* The workers that are done with the frame, or have yet to be told of it.
Resting == {w \in Workers : wpc[w] \in {"cmd", "gone"} /\ ~start[w]}

\* s_idle_workers is the number of workers that are done with this frame: a
\* worker is never counted twice, nor while it still has to start.
IdleExact == ran /\ mpc # "starting" => idle = Cardinality(Resting)

\* assert(curr) in Sched_Tick: when its wait ends without a task, one of the two
\* reasons to leave the loop applies.
TickHasTask == mpc # "failed"

\* The main thread waits for the workers on the condition variable that the
\* workers wait on for tasks.  Each worker signals it once when it is done, and
\* that one signal reaches the main thread, for no worker is waiting any more.
SignalReachesMain ==
  mpc = "quiescing" /\ Main \in asleep => asleep = {Main}

\* A ready task is not left in a queue while every thread waits.  The signal of
\* sched_reactivate for a pinned task may wake up a worker, which cannot run it
\* and waits again: it is the broadcast of the last worker to wait that brings
\* the main thread back to its queue.
NoneLeftWaiting ==
  mpc = "tick" /\ queued # {} => asleep # Threads

\* Types, and counters that agree with what the threads are doing.
CountsExact == TypeOK /\ IdleExact

\* No signal on the one condition variable is lost on the wrong waiter.
NoSignalLost == SignalReachesMain /\ NoneLeftWaiting /\ TickHasTask

\* A frame ends: Sched_Tick returns, whatever its tasks wake up or wait for.
TickEnds == mpc = "tick" ~> mpc = "begin"

\* A session change gets its quiet workers, once they have been started in some
\* frame.
QuiesceEnds == mpc = "quiescing" /\ ran ~> mpc # "quiescing"

\* The main thread gets on: out of its tick, and out of its wait for the workers.
MainGoesOn == TickEnds /\ QuiesceEnds
-----------------------------------------------------------------------------
(* The inductive invariant of which the safety properties follow *)

Waiting == {w \in Workers : wpc[w] = "wait"}

\* What a thread does, and whether it has a task or sleeps.
PlacesOK ==
  /\ \A w \in Workers : cur[w] # NoTask => wpc[w] = "task"
  /\ cur[Main] # NoTask => mpc \in {"run", "flush", "flushgeneral"}
  /\ asleep \subseteq Waiting \cup {Main}
  /\ Main \in asleep => mpc \in {"tick", "quiescing"}
  /\ \A w \in Workers : start[w] => wpc[w] = "cmd"
  /\ \A w \in Workers : quit[w] \/ wpc[w] = "gone" => mpc = "shutdown"

CountersOK ==
  /\ nwaiters = Cardinality(Waiting)
  /\ IdleExact

\* When workers are told to be quiet, and that none is done before.
QuiesceOK ==
  /\ quiesce => mpc \in {"tick", "run", "timeup", "quiescing"}
  /\ mpc = "quiescing" => quiesce /\ asleep \subseteq {Main}
  /\ \A w \in Workers : wpc[w] = "done" => quiesce

\* Whether a frame has started the workers, and which of them rest.
FrameOK ==
  /\ prev => ran
  /\ mpc \in {"starting", "tick", "run", "timeup"} => prev
  /\ ~ran => Resting = Workers
  /\ ~prev => Resting = Workers
  /\ mpc \in {"begin", "flush", "flushgeneral", "clear", "shutdown"} => Resting = Workers
  /\ mpc = "starting" => idle = 0 /\ Resting = Workers \ told
  /\ mpc # "starting" => told = {}

\* A task that main sleeps over was made ready by a worker that has yet to wait.
WakeOK == mpc = "tick" /\ Main \in asleep /\ queued # {} => nwaiters < NWorkers

IInv == TypeOK /\ PlacesOK /\ CountersOK /\ QuiesceOK /\ FrameOK /\ WakeOK /\ TickHasTask
=============================================================================
