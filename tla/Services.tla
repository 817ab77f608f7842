------------------------------ MODULE Services ------------------------------
(***************************************************************************)
(* The two services of src/src/task.c, tasks that serve other tasks by     *)
(* messages: the name server, with which tasks register and look each      *)
(* other up, and the time server, by which they sleep.  The messages are   *)
(* those of Rendezvous: a request waits in the service's queue, and its    *)
(* sender is blocked until the service replies to it.                      *)
(*                                                                         *)
(* A service runs in parallel with the tasks it has replied to.  A tid is  *)
(* given to a new task when its task has finished; a task that finishes    *)
(* unregisters first (py_task in src/src/script/py_task.c).                *)
(***************************************************************************)
EXTENDS Naturals, FiniteSets, SequencesExt

CONSTANTS
  Tids,           \* the tids of the clients
  Names,
  NameOutlives,   \* the name that a task registers is valid after the call, too
  OneName,        \* a task registers one name only
  Delays,         \* for how long tasks sleep
  TickMod,        \* the range of SDL_GetTicks: 2^32
  Rounding,       \* what the heap's float priorities round to
  MaxTicks,       \* bound on the time that passes,
  MaxLives        \* and on the tasks that get a tid

NoName == "none"

ASSUME ServicesAssumption ==
  /\ IsFiniteSet(Tids) /\ 0 \notin Tids /\ NoName \notin Names
  /\ NameOutlives \in BOOLEAN /\ OneName \in BOOLEAN
  /\ Delays \subseteq Nat /\ TickMod \in Nat \ {0} /\ Rounding \in Nat \ {0} /\ MaxTicks \in Nat
  /\ MaxLives \in Nat \ {0}

VARIABLES
  life,       \* how many tasks the tid was given to so far
  doing,      \* "run", "calling" a service, "leaving" it for good, "gone"
  named,      \* whether the task has registered a name
  lookedUp,   \* what Task_WhoIs last returned
  names,      \* the name server's names: tid, and the life that registered it
  waiters,    \* its waiters
  nsQueue,    \* the requests sent to it,
  ns,         \* and the one it serves
  now,        \* the time that has passed
  descs,      \* the time server's heap of delays; due is a history of the true time
  tsQueue,    \* the requests sent to it,
  ts,         \* the tick it read for the one it serves,
  notified    \* and whether the notifier waits for its answer

clientVars == <<life, doing, named, lookedUp>>
nameVars == <<names, waiters, nsQueue, ns>>
timeVars == <<now, descs, tsQueue, ts, notified>>
vars == <<clientVars, nameVars, timeVars>>

NullTid == [tid |-> 0, life |-> 0]
Idle == [type |-> "NONE", tid |-> 0, name |-> NoName, blocking |-> FALSE]
Tick == [tid |-> 0, ticks |-> 0, due |-> 0]    \* the notifier's message
Task(t) == [tid |-> t, life |-> life[t]]

Ticks(time) == time % TickMod
Earliest(S) == {d \in S : \A e \in S : d.wake \div Rounding <= e.wake \div Rounding}
-----------------------------------------------------------------------------
(* The clients *)

Call(t, leaving) ==
  /\ doing[t] = "run"
  /\ doing' = [doing EXCEPT ![t] = IF leaving THEN "leaving" ELSE "calling"]
  /\ UNCHANGED life

NsCall(t, type, n, blocking) ==
  /\ Call(t, type = "UNREGISTER")
  /\ nsQueue' = Append(nsQueue, [type |-> type, tid |-> t, name |-> n, blocking |-> blocking])
  /\ UNCHANGED <<names, waiters, ns, timeVars>>

\* Task_Register
Register(t, n) ==
  /\ OneName => ~named[t]
  /\ named' = [named EXCEPT ![t] = TRUE]
  /\ NsCall(t, "REGISTER", n, FALSE)
  /\ UNCHANGED lookedUp

\* Task_WhoIs
WhoIs(t, n, blocking) ==
  /\ lookedUp' = [lookedUp EXCEPT ![t] = NullTid]
  /\ NsCall(t, "WHOIS", n, blocking)
  /\ UNCHANGED named

\* Task_Unregister, which ends py_task: when it returns the task exits.
Unregister(t) ==
  /\ NsCall(t, "UNREGISTER", NoName, FALSE)
  /\ UNCHANGED <<named, lookedUp>>

\* Task_Sleep
Sleep(t, d) ==
  /\ Call(t, FALSE)
  /\ now + d <= MaxTicks
  /\ tsQueue' = Append(tsQueue, [tid |-> t, ticks |-> d, due |-> now + d])
  /\ UNCHANGED <<named, lookedUp, nameVars, now, descs, ts, notified>>

\* The tid is given to a new task.
Create(t) ==
  /\ doing[t] = "gone"
  /\ life[t] < MaxLives
  /\ life' = [life EXCEPT ![t] = @ + 1]
  /\ doing' = [doing EXCEPT ![t] = "run"]
  /\ named' = [named EXCEPT ![t] = FALSE]
  /\ lookedUp' = [lookedUp EXCEPT ![t] = NullTid]
  /\ UNCHANGED <<nameVars, timeVars>>

\* Task_Reply: the task goes on, or is at its end.
Replied(S) == [t \in Tids |-> IF t \notin S THEN doing[t]
                              ELSE IF doing[t] = "leaving" THEN "gone" ELSE "run"]
-----------------------------------------------------------------------------
(* nameserver_task *)

NsReceive ==
  /\ ns = Idle
  /\ nsQueue # <<>>
  /\ ns' = Head(nsQueue)
  /\ nsQueue' = Tail(nsQueue)
  /\ UNCHANGED <<clientVars, names, waiters, timeVars>>

\* The name is entered and the caller replied to,
NsRegister ==
  /\ ns.type = "REGISTER"
  /\ names' = [names EXCEPT ![ns.name] = Task(ns.tid)]
  /\ doing' = Replied({ns.tid})
  /\ ns' = [ns EXCEPT !.type = "REGISTERED"]
  /\ UNCHANGED <<life, named, lookedUp, waiters, nsQueue, timeVars>>

\* and then those who wait for the name, which is the caller's string: if that is
\* not valid any more any name, or none, may be found.
Woken(n) == ToSet(waiters[n])
AllKept(n) == waiters[n]
StillWaiting(n) == <<>>

NsWakeWaiters ==
  /\ ns.type = "REGISTERED"
  /\ ns' = Idle
  /\ \E n \in (IF NameOutlives THEN {ns.name} ELSE Names \cup {NoName}) :
       IF n = NoName
       THEN UNCHANGED <<doing, lookedUp, waiters>>
       ELSE /\ doing' = Replied(Woken(n))
            /\ lookedUp' = [t \in Tids |-> IF t \in Woken(n) THEN names[ns.name] ELSE lookedUp[t]]
            /\ waiters' = [waiters EXCEPT ![n] = StillWaiting(n)]
  /\ UNCHANGED <<life, named, names, nsQueue, timeVars>>

MustWait(r) == names[r.name] = NullTid /\ r.blocking

NsWhoIs ==
  /\ ns.type = "WHOIS"
  /\ IF MustWait(ns)
     THEN /\ waiters' = [waiters EXCEPT ![ns.name] = Append(@, ns.tid)]
          /\ UNCHANGED <<doing, lookedUp>>
     ELSE /\ doing' = Replied({ns.tid})
          /\ lookedUp' = [lookedUp EXCEPT ![ns.tid] = names[ns.name]]
          /\ UNCHANGED waiters
  /\ ns' = Idle
  /\ UNCHANGED <<life, named, names, nsQueue, timeVars>>

\* Of the caller's names the first that the table yields is removed.
NoneOf(t) == {}
NamesOf(t) == {n \in Names : names[n].tid = t}

NsUnregister ==
  /\ ns.type = "UNREGISTER"
  /\ IF NamesOf(ns.tid) = {}
     THEN UNCHANGED names
     ELSE \E n \in NamesOf(ns.tid) : names' = [names EXCEPT ![n] = NullTid]
  /\ doing' = Replied({ns.tid})
  /\ ns' = Idle
  /\ UNCHANGED <<life, named, lookedUp, waiters, nsQueue, timeVars>>
-----------------------------------------------------------------------------
(* timeserver_task and tick_notifier *)

Elapse ==
  /\ now < MaxTicks
  /\ now' = now + 1
  /\ UNCHANGED <<clientVars, nameVars, descs, tsQueue, ts, notified>>

\* EVENT_60HZ_TICK, unless the notifier has not been replied to yet
NotifierRuns == ~notified

NotifyTick ==
  /\ NotifierRuns
  /\ notified' = TRUE
  /\ tsQueue' = Append(tsQueue, Tick)
  /\ UNCHANGED <<clientVars, nameVars, now, descs, ts>>

\* The tick is read once, then a request is served: a delay is entered, the
\* notifier is replied to.
WithDelay(r, tick) ==
  descs \cup {[tid |-> r.tid, wake |-> (tick + r.ticks) % TickMod, due |-> r.due]}

TsReceive ==
  /\ ts = {}
  /\ tsQueue # <<>>
  /\ ts' = {Ticks(now)}
  /\ IF Head(tsQueue) = Tick
     THEN notified' = FALSE /\ UNCHANGED descs
     ELSE descs' = WithDelay(Head(tsQueue), Ticks(now)) /\ UNCHANGED notified
  /\ tsQueue' = Tail(tsQueue)
  /\ UNCHANGED <<clientVars, nameVars, now>>

\* Whose delay is over: its wake_tick is not larger than curr_tick.
DueSoon(d, tick) == d.wake <= tick + 1
Due(d, tick) == d.wake <= tick

Removed(d) == descs \ {d}

TsWake ==
  /\ \E tick \in ts, d \in descs :
       /\ d \in Earliest(descs) /\ Due(d, tick)
       /\ descs' = Removed(d)
       /\ doing' = Replied({d.tid})
  /\ UNCHANGED <<life, named, lookedUp, nameVars, now, tsQueue, ts, notified>>

AfterOne(tick) == TRUE
NoneDue(tick) == \A d \in descs : ~Due(d, tick)

TsDone ==
  /\ \E tick \in ts : NoneDue(tick)
  /\ ts' = {}
  /\ UNCHANGED <<clientVars, nameVars, now, descs, tsQueue, notified>>
-----------------------------------------------------------------------------
\* Task_CreateServices, and clients that run
Init ==
  /\ life = [t \in Tids |-> 1]
  /\ doing = [t \in Tids |-> "run"]
  /\ named = [t \in Tids |-> FALSE]
  /\ lookedUp = [t \in Tids |-> NullTid]
  /\ names = [n \in Names |-> NullTid]
  /\ waiters = [n \in Names |-> <<>>]
  /\ nsQueue = <<>> /\ ns = Idle
  /\ now = 0
  /\ descs = {} /\ tsQueue = <<>> /\ ts = {}
  /\ notified = FALSE

NsStep == NsReceive \/ NsRegister \/ NsWakeWaiters \/ NsWhoIs \/ NsUnregister
TsStep == TsReceive \/ TsWake \/ TsDone

Client(t) ==
  \/ \E n \in Names : Register(t, n) \/ \E b \in BOOLEAN : WhoIs(t, n, b)
  \/ Unregister(t)
  \/ \E d \in Delays : Sleep(t, d)
  \/ Create(t)

Next == NsStep \/ TsStep \/ Elapse \/ NotifyTick \/ \E t \in Tids : Client(t)

Spec == Init /\ [][Next]_vars

\* A service is a task that is ready when it has a message; time passes
\* and every tick is notified.
FairSpec ==
  /\ Spec
  /\ WF_vars(TsStep) /\ WF_vars(Elapse) /\ WF_vars(NotifyTick)
-----------------------------------------------------------------------------
(* Properties *)

Refs == [tid : Tids \cup {0}, life : 0 .. MaxLives]
NsRequests == [type : {"NONE", "REGISTER", "REGISTERED", "WHOIS", "UNREGISTER"},
               tid : Tids \cup {0}, name : Names \cup {NoName}, blocking : BOOLEAN]

TypeOK ==
  /\ life \in [Tids -> 1 .. MaxLives]
  /\ doing \in [Tids -> {"run", "calling", "leaving", "gone"}]
  /\ names \in [Names -> Refs] /\ lookedUp \in [Tids -> Refs]
  /\ \A n \in Names : waiters[n] \in Seq(Tids)
  /\ ns \in NsRequests /\ ToSet(nsQueue) \subseteq NsRequests
  /\ \A d \in descs : d.tid \in Tids /\ d.wake \in 0 .. TickMod - 1
  /\ Cardinality(ts) <= 1
  /\ Len(tsQueue) <= Cardinality(Tids) + 1

InQueue(t) == \E i \in DOMAIN nsQueue : nsQueue[i].tid = t
Served(t) == ns.tid = t /\ ns.type \in {"REGISTER", "WHOIS", "UNREGISTER"}
Waits(t) == \E n \in Names : t \in ToSet(waiters[n])
Sleeps(t) == (\E d \in descs : d.tid = t) \/ \E i \in DOMAIN tsQueue : tsQueue[i].tid = t

Places(t) == {k \in 1 .. 4 : <<InQueue(t), Served(t), Waits(t), Sleeps(t)>>[k]}

\* A task that is blocked on a service is known to it in exactly one place, from
\* which it will be replied to; one that runs is known in none, so that nobody
\* is replied to twice.
OneAnswerOwed ==
  \A t \in Tids :
    Cardinality(Places(t)) = IF doing[t] \in {"calling", "leaving"} THEN 1 ELSE 0

\* The comment in nameserver_task, "Check if anyone is waiting on this name":
\* nobody is left waiting for a name that is registered.
NoForgottenWaiter ==
  ns = Idle => \A n \in Names : names[n] # NullTid => waiters[n] = <<>>

\* Whoever is blocked on a service is owed one answer, and gets it when it is due.
AnswersOwed == TypeOK /\ OneAnswerOwed /\ NoForgottenWaiter

\* A name is that of the task that registered it, and not of the next task that
\* was given the tid.
NamesOfLiving ==
  \A n \in Names : names[n] # NullTid =>
    LET t == names[n].tid IN names[n].life = life[t] /\ doing[t] # "gone"

\* Nobody is woken before its time.
SleepsLongEnough ==
  [][TsWake => \A d \in descs \ descs' : d.due <= now]_vars

\* Whoever sleeps is woken once its time has come (as far as the time modelled
\* goes).
SleepEnds ==
  \A t \in Tids : (\E d \in descs : d.tid = t /\ d.wake <= MaxTicks) ~> doing[t] = "run"
=============================================================================
