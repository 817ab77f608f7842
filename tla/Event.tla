------------------------------- MODULE Event --------------------------------
(***************************************************************************)
(* The event queues and handlers of src/src/event.c.  All of it runs on    *)
(* the main thread, but handlers call back: while one runs it may notify,  *)
(* register and unregister handlers, have an event handled at once and,    *)
(* through a script that saves the session, flush the queues.  The calls   *)
(* in progress are a stack.                                                *)
(*                                                                         *)
(* The reactivation of waiting tasks, with which e_handle_event begins, is *)
(* modelled in Sched.                                                      *)
(***************************************************************************)
EXTENDS Naturals, FiniteSets, SequencesExt

CONSTANTS
  Handlers,    \* the handler descriptors; each is for one key
  Key,         \* [Handlers -> Keys]
  Script,      \* those of type HANDLER_TYPE_SCRIPT
  AlwaysOn,    \* those whose simmask admits every simulation state
  MaxEvents,   \* bound on the events notified,
  MaxNow,      \* on the clock, in ticks of SDL_GetTicks,
  MaxDepth     \* and on the calls in progress

\* Receivers: the frame's own events, other global events, and one entity.
Keys == {"update", "global", "entity"}
None == "none"

ASSUME EventAssumption ==
  /\ None \notin Handlers /\ IsFiniteSet(Handlers)
  /\ Key \in [Handlers -> Keys]
  /\ Script \subseteq Handlers /\ AlwaysOn \subseteq Handlers
  /\ MaxEvents \in Nat /\ MaxNow \in Nat /\ MaxDepth \in Nat

VARIABLES
  table,     \* s_event_handler_table
  reg,       \* the register_tick of a handler
  queues,    \* s_event_queues
  front,     \* s_front_queue_idx
  stack,     \* the calls in progress, the innermost last
  now,       \* SDL_GetTicks()
  running,   \* G_GetSimState() = G_RUNNING
  zombie,    \* G_EntityIsZombie of the entity
  events,    \* history: of each event notified, whether it was queued
  saved,     \* history: a handler has saved the session
  since,     \* history: the number of events when a handler was registered
  begun,     \* history: those taken from a queue
  cleared,   \* history: those cleared from a queue
  released   \* how often the argument of an event was released

histVars == <<events, saved, since, begun, cleared>>
vars == <<table, reg, queues, front, stack, now, running, zombie, histVars, released>>

Ids == 1 .. MaxEvents
\* An event of a frame: it has no id and no argument.
FrameEvent == [id |-> 0, key |-> "update", tick |-> now, script |-> FALSE]

\* An event of a zombie entity is dropped.
Dropped(e) == e.key = "entity" /\ zombie

\* Calls: E_ServiceQueue and E_FlushEventQueue, at a phase of their loop, and
\* e_handle_event, with the handlers it fetched, those it has memoized, the one it
\* is executing and, for the properties, those executed.
Loop(kind, q) == [kind |-> kind, q |-> q, phase |-> "start"]
Handling(e, imm) ==
  [kind |-> "handle", ev |-> e, imm |-> imm, drop |-> Dropped(e),
   curr |-> table[e.key], memo |-> {}, cur |-> None, ran |-> {}]

Top == Last(stack)
WithTop(c) == [stack EXCEPT ![Len(stack)] = c]
InKind(k) == stack # <<>> /\ Top.kind = k
\* Code that is not event.c's is running: a handler, or the frame.
Outside == stack = <<>> \/ (InKind("handle") /\ Top.cur # None)
Queued == Len(queues[0]) + Len(queues[1]) > 0
-----------------------------------------------------------------------------
(* What a handler, or the frame, may call *)

NewEvent(k, script) ==
  [id |-> Len(events) + 1, key |-> k, tick |-> now, script |-> script]

\* E_Global_Notify and E_Entity_Notify
Target == front

Notify(k, script) ==
  /\ Outside
  /\ Len(events) < MaxEvents
  /\ LET e == NewEvent(k, script)
     IN  /\ queues' = [queues EXCEPT ![Target] = Append(@, e)]
         /\ events' = Append(events, TRUE)
  /\ UNCHANGED <<table, reg, front, stack, now, running, zombie, saved, since, begun, cleared, released>>

\* E_Global_NotifyImmediate and E_Entity_NotifyImmediate
NotifyImmediate(k, script) ==
  /\ Outside
  /\ Len(events) < MaxEvents /\ Len(stack) < MaxDepth
  /\ LET e == NewEvent(k, script)
     IN  /\ stack' = Append(stack, Handling(e, TRUE))
         /\ events' = Append(events, FALSE)
  /\ UNCHANGED <<table, reg, queues, front, now, running, zombie, saved, since, begun, cleared, released>>

\* e_register_handler: no handler is registered twice.
New(h) == h \notin ToSet(table[Key[h]])

Register(h) ==
  /\ Outside
  /\ New(h)
  /\ table' = [table EXCEPT ![Key[h]] = Append(@, h)]
  /\ reg' = [reg EXCEPT ![h] = now]
  /\ since' = [since EXCEPT ![h] = Len(events)]
  /\ UNCHANGED <<queues, front, stack, now, running, zombie, events, saved, begun, cleared, released>>

\* vec_hd_del: the last element takes the place of the one deleted.
Deleted(s, i) == SubSeq([s EXCEPT ![i] = Last(s)], 1, Len(s) - 1)

\* e_unregister_handler
Delist(h) ==
  /\ h \in ToSet(table[Key[h]])
  /\ table' = [table EXCEPT ![Key[h]] = Deleted(@, SelectInSeq(@, LAMBDA x : x = h))]

Unregister(h) ==
  /\ Outside
  /\ Delist(h)
  /\ UNCHANGED <<reg, queues, front, stack, now, running, zombie, histVars, released>>

\* E_FlushEventQueue, by the frame or by a handler that saves the session.
FlushEventQueue ==
  /\ Outside
  /\ Len(stack) < MaxDepth
  /\ stack' = Append(stack, [Loop("flush", front) EXCEPT !.phase = "again"])
  /\ saved' = (saved \/ stack # <<>>)
  /\ UNCHANGED <<table, reg, queues, front, now, running, zombie, events, since, begun, cleared, released>>
-----------------------------------------------------------------------------
(* What only the frame calls *)

\* E_ServiceQueue: notifications go to the other queue from now on.
NotFlipped == front
Flipped == 1 - front

ServiceQueue ==
  /\ stack = <<>>
  /\ stack' = <<Loop("service", front)>>
  /\ front' = Flipped
  /\ UNCHANGED <<table, reg, queues, now, running, zombie, histVars, released>>

\* E_ClearPendingEvents, at a change of session
ClearPendingEvents ==
  /\ stack = <<>>
  /\ cleared' = cleared \cup {e.id : e \in ToSet(queues[front])}
  /\ queues' = [queues EXCEPT ![front] = <<>>]
  /\ UNCHANGED <<table, reg, front, stack, now, running, zombie, events, saved, since, begun, released>>

\* E_DeleteScriptHandlers, at a change of session: from the last handler to the first.
EngineOnly(s) ==
  FoldRightDomain(LAMBDA i, t : IF t[i] \in Script THEN Deleted(t, i) ELSE t, s, s)

DeleteScriptHandlers ==
  /\ stack = <<>>
  /\ table' = [k \in Keys |-> EngineOnly(table[k])]
  /\ UNCHANGED <<reg, queues, front, stack, now, running, zombie, histVars, released>>

Tick ==
  /\ now < MaxNow
  /\ now' = now + 1
  /\ UNCHANGED <<table, reg, queues, front, stack, running, zombie, histVars, released>>

SetSimState ==
  /\ stack = <<>>
  /\ running' = ~running
  /\ UNCHANGED <<table, reg, queues, front, stack, now, zombie, histVars, released>>

\* The entity dies, also by the hand of a handler.
Zombiefy ==
  /\ Outside
  /\ ~zombie
  /\ zombie' = TRUE
  /\ UNCHANGED <<table, reg, queues, front, stack, now, running, histVars, released>>
-----------------------------------------------------------------------------
(* The loops *)

\* The events of the frame that come before and after those of the queue.
LoopFrameEvent ==
  /\ stack # <<>> /\ Top.kind # "handle"
  /\ Top.phase \in {"start", "end"}
  /\ stack' = Append(WithTop([Top EXCEPT !.phase = IF @ = "start" THEN "pop" ELSE "again"]),
                     Handling(FrameEvent, Top.kind = "flush"))
  /\ UNCHANGED <<table, reg, queues, front, now, running, zombie, histVars, released>>

Peeked(q) == q
Popped(q) == Tail(q)

LoopPop ==
  /\ stack # <<>> /\ Top.kind # "handle"
  /\ Top.phase = "pop"
  /\ LET q == queues[Top.q]
     IN  IF q = <<>>
         THEN /\ stack' = WithTop([Top EXCEPT !.phase = "end"])
              /\ UNCHANGED <<queues, begun>>
         ELSE /\ queues' = [queues EXCEPT ![Top.q] = Popped(q)]
              /\ stack' = Append(stack, Handling(Head(q), Top.kind = "flush"))
              /\ begun' = begun \cup {Head(q).id}
  /\ UNCHANGED <<table, reg, front, now, running, zombie, events, saved, since, cleared, released>>

\* E_FlushEventQueue goes on as long as either queue has an event.
LoopAgain ==
  /\ stack # <<>> /\ Top.kind # "handle"
  /\ Top.phase = "again"
  /\ IF Top.kind = "flush" /\ Queued
     THEN stack' = WithTop(Loop("flush", front)) /\ front' = 1 - front
     ELSE stack' = Front(stack) /\ front' = front
  /\ UNCHANGED <<table, reg, queues, now, running, zombie, histVars, released>>
-----------------------------------------------------------------------------
(* e_handle_event *)

\* The handlers, fetched anew after each execution, or once for the event.
FetchedOnce(c) == c.curr
Fetched(c) == table[c.ev.key]

\* SDL_TICKS_PASSED(register_tick, tick): the handler was registered after the
\* event was notified, or in the same millisecond.
TooLate(c, h) == reg[h] >= c.ev.tick

Masked(c, h) == ~c.imm /\ ~running /\ h \notin AlwaysOn
Eligible(c, h) == ~Masked(c, h) /\ ~TooLate(c, h)

\* e_ptrs_equal with one that was executed or passed over
Fresh(c, h) == h \notin c.memo

\* The next eligible handler is executed; those before it are passed over.
Chosen(c) == SelectInSeq(Fetched(c), LAMBDA h : Fresh(c, h) /\ Eligible(c, h))
AllFetched(c) == Fetched(c)
PassedOver(c) == SubSeq(Fetched(c), 1, Chosen(c))

Select(h, c) ==
  /\ InKind("handle") /\ Top.cur = None
  /\ ~Top.drop
  /\ Chosen(Top) # 0
  /\ h = Fetched(Top)[Chosen(Top)]
  /\ stack' = WithTop([c EXCEPT !.curr = Fetched(Top), !.memo = @ \cup ToSet(PassedOver(Top))])

Execute(h) ==
  /\ Select(h, [Top EXCEPT !.cur = h, !.ran = @ \cup {h}])
  /\ UNCHANGED <<table, reg, queues, front, now, running, zombie, histVars, released>>

\* A script handler whose user argument is gone is not called but unregistered.
WeakrefDied(h) ==
  /\ h \in Script
  /\ Select(h, Top)
  /\ Delist(h)
  /\ UNCHANGED <<reg, queues, front, now, running, zombie, histVars, released>>

\* e_invoke returns.
Return ==
  /\ InKind("handle") /\ Top.cur # None
  /\ stack' = WithTop([Top EXCEPT !.cur = None])
  /\ UNCHANGED <<table, reg, queues, front, now, running, zombie, histVars, released>>

\* S_Release(event.arg), not reached for a dropped event.
Releases(c) == c.ev.script /\ ~c.drop

HandleDone ==
  /\ InKind("handle") /\ Top.cur = None
  /\ Chosen(Top) = 0 \/ Top.drop
  /\ stack' = Front(stack)
  /\ released' = IF Releases(Top) THEN [released EXCEPT ![Top.ev.id] = @ + 1] ELSE released
  /\ UNCHANGED <<table, reg, queues, front, now, running, zombie, histVars>>
-----------------------------------------------------------------------------
Init ==
  /\ table = [k \in Keys |-> <<>>]
  /\ reg = [h \in Handlers |-> 0] /\ since = reg
  /\ queues = [i \in {0, 1} |-> <<>>]
  /\ front = 0
  /\ stack = <<>>
  /\ now = 0
  /\ running = TRUE
  /\ zombie = FALSE
  /\ events = <<>> /\ saved = FALSE /\ begun = {} /\ cleared = {}
  /\ released = [i \in Ids |-> 0]

Step ==
  \/ LoopFrameEvent \/ LoopPop \/ LoopAgain
  \/ (\E h \in Handlers : Execute(h) \/ WeakrefDied(h)) \/ Return \/ HandleDone

Calls ==
  \/ \E k \in {"global", "entity"}, s \in BOOLEAN : Notify(k, s) \/ NotifyImmediate(k, s)
  \/ \E h \in Handlers : Register(h) \/ Unregister(h)
  \/ FlushEventQueue \/ Zombiefy

Next ==
  \/ Step \/ Calls \/ ServiceQueue
  \/ ClearPendingEvents \/ DeleteScriptHandlers \/ Tick \/ SetSimState

Spec == Init /\ [][Next]_vars
-----------------------------------------------------------------------------
(* Properties *)

EventRecords == [id : 0 .. MaxEvents, key : Keys, tick : 0 .. MaxNow, script : BOOLEAN]
Calling ==
  [kind : {"service", "flush"}, q : {0, 1}, phase : {"start", "pop", "end", "again"}]
    \cup
  [kind : {"handle"}, ev : EventRecords, imm : BOOLEAN, drop : BOOLEAN,
   curr : SeqOf(Handlers, Cardinality(Handlers)), memo : SUBSET Handlers, cur : Handlers \cup {None},
   ran : SUBSET Handlers]

TypeOK ==
  /\ \A k \in Keys : ToSet(table[k]) \subseteq {h \in Handlers : Key[h] = k}
  /\ \A k \in Keys : Len(table[k]) <= Cardinality(Handlers)
  /\ reg \in [Handlers -> 0 .. MaxNow]
  /\ \A i \in {0, 1} : ToSet(queues[i]) \subseteq EventRecords
  /\ front \in {0, 1}
  /\ ToSet(stack) \subseteq Calling
  /\ {running, zombie, saved} \subseteq BOOLEAN
  /\ begun \cup cleared \subseteq Ids
  /\ released \in [Ids -> 0 .. 1]

\* Handler h is about to be executed for the event being handled.
Begins(h) ==
  /\ InKind("handle") /\ Top.cur = None
  /\ Len(stack') = Len(stack) /\ stack'[Len(stack)].cur = h

\* The guarantee stated in e_handle_event: a handler that was unregistered, also
\* by another handler of the same event, is not executed.
NeverAfterUnregister ==
  [][\A h \in Handlers : Begins(h) => h \in ToSet(table[Key[h]])]_vars

\* A handler is executed at most once for an event, however often the handlers
\* are fetched again, and also when it is registered again meanwhile.
OncePerEvent ==
  [][\A h \in Handlers : Begins(h) => h \notin Top.ran]_vars

\* No handler is skipped, because another one was unregistered before its turn or
\* was passed over: when an event has been handled, every handler that was
\* registered before it was notified, and still is, has been executed.
NoneSkipped ==
  InKind("handle") /\ Top.cur = None /\ ~Top.drop /\ Chosen(Top) = 0 =>
    \A h \in ToSet(table[Top.ev.key]) : Eligible(Top, h) => h \in Top.ran

\* A handler does not see an event that was notified before it was registered.
NotBeforeRegistered ==
  [][\A h \in Handlers : Begins(h) /\ Top.ev.id # 0 => since[h] < Top.ev.id]_vars

\* The argument of a script's event is not released while a call that handles
\* the event, and would pass it on, is in progress.
NotReleasedEarly ==
  \A i \in DOMAIN stack :
    stack[i].kind = "handle" /\ stack[i].ev.id # 0 => released[stack[i].ev.id] = 0

\* An event is in one place: once in one of the queues, or taken from it, or
\* cleared from it by a change of session.
Waiting(e) == {i \in {0, 1} : \E j \in DOMAIN queues[i] : queues[i][j].id = e}
NoneLost ==
  /\ \A e \in DOMAIN events :
       events[e] => Cardinality(Waiting(e))
                      + Cardinality({e} \cap begun) + Cardinality({e} \cap cleared) = 1
  /\ \A i \in {0, 1} : \A j, k \in DOMAIN queues[i] :
       queues[i][j].id = queues[i][k].id => j = k

\* An event notified is neither lost nor handled twice, and its argument lives
\* as long as the event.
EventsKept == TypeOK /\ NoneLost /\ NotReleasedEarly

\* A handler is executed for an event only if it is registered, was registered
\* when the event was notified, and has not been executed for it.
HandledRight == NeverAfterUnregister /\ OncePerEvent /\ NotBeforeRegistered

\* Events are taken from the queues in the order in which they were notified.
InOrder ==
  \A e \in begun : \A i \in {0, 1} : \A d \in ToSet(queues[i]) : e < d.id

\* What handlers notify while a queue is serviced waits for the next frame, so
\* that servicing a queue comes to an end whatever they notify.
NextFrame ==
  \A i \in DOMAIN stack : stack[i].kind = "service" => stack[i].q # front

\* The two queues keep the order of the events and a queue that is serviced does
\* not grow, as long as no handler has saved the session: a flush in the middle
\* of a frame takes the newer events first.
FramesInOrder == saved \/ (InOrder /\ NextFrame)
-----------------------------------------------------------------------------
(* The inductive invariant of which the properties of the queues, and of    *)
(* what is released when, follow.  It says nothing of the handler table.    *)

InLoop(c) ==
  /\ DOMAIN c = {"kind", "q", "phase"}
  /\ c.kind \in {"service", "flush"} /\ c.q \in {0, 1}
  /\ c.phase \in {"start", "pop", "end", "again"}

InHandling(c) ==
  /\ DOMAIN c = {"kind", "ev", "imm", "drop", "curr", "memo", "cur", "ran"}
  /\ c.kind = "handle"
  /\ c.ev.id \in 0 .. Len(events)

\* The calls in progress, and the event of the i-th of them; 0 if that has none.
IsSeq(s) == s \in Seq(ToSet(s))
CallsOK ==
  /\ IsSeq(stack)
  /\ \A i \in DOMAIN stack : InLoop(stack[i]) \/ InHandling(stack[i])

EventOf(i) == IF stack[i].kind = "handle" THEN stack[i].ev.id ELSE 0

Notified == [id : Ids, key : Keys, tick : 0 .. MaxNow, script : BOOLEAN]
QueuesOK ==
  /\ front \in {0, 1} /\ saved \in BOOLEAN /\ now \in 0 .. MaxNow
  /\ events \in Seq(BOOLEAN) /\ Len(events) <= MaxEvents
  /\ queues \in [{0, 1} -> Seq(Notified)]
  /\ released \in [Ids -> Nat]

\* The events in a queue are in order, and each event is in one place.
Sorted(q) == \A j, k \in DOMAIN q : j < k => q[j].id < q[k].id
IdsIn(q) == {q[j].id : j \in DOMAIN q}
InQueues == IdsIn(queues[0]) \cup IdsIn(queues[1])

PlacesOK ==
  /\ Sorted(queues[0]) /\ Sorted(queues[1])
  /\ InQueues \cup begun \cup cleared \subseteq 1 .. Len(events)
  /\ IdsIn(queues[0]) \cap IdsIn(queues[1]) = {}
  /\ InQueues \cap (begun \cup cleared) = {} /\ begun \cap cleared = {}
  /\ \A e \in DOMAIN events : events[e] => e \in InQueues \cup begun \cup cleared

\* An event is handled in one call only, released after it, and never before.
ReleasesOK ==
  /\ \A e \in Ids : released[e] # 0 => e <= Len(events) /\ e \notin InQueues
  /\ \A i \in DOMAIN stack : EventOf(i) # 0 => EventOf(i) \notin InQueues /\ released[EventOf(i)] = 0
  /\ \A i, j \in DOMAIN stack : i # j /\ EventOf(i) # 0 => EventOf(i) # EventOf(j)

\* Between loops the other queue is empty; in a loop it holds the older events.
Older == queues[1 - front]
LoopOK(c) ==
  /\ c.kind = "service" \/ c.phase # "again" => c.q = 1 - front
  /\ c.phase \in {"end", "again"} => Older = <<>>

OrderOK ==
  \/ saved
  \/ /\ \A i \in DOMAIN stack : stack[i].kind # "handle" => i = 1 /\ LoopOK(stack[i])
     /\ stack = <<>> \/ stack[1].kind = "handle" => Older = <<>>
     /\ \A d \in IdsIn(Older), e \in IdsIn(queues[front]) : d < e
     /\ \A b \in begun, d \in InQueues : b < d

IInv == CallsOK /\ QueuesOK /\ PlacesOK /\ ReleasesOK /\ OrderOK
-----------------------------------------------------------------------------
(* The inductive invariant of which the properties of the handlers follow,  *)
(* on top of IInv.                                                           *)

\* The table holds every handler once, under its key, as it was registered.
TableOK ==
  /\ table \in [Keys -> Seq(Handlers)]
  /\ \A k \in Keys : \A i, j \in DOMAIN table[k] :
       Key[table[k][i]] = k /\ (table[k][i] = table[k][j] => i = j)
  /\ reg \in [Handlers -> 0 .. now] /\ since \in [Handlers -> 0 .. Len(events)]
  /\ running \in BOOLEAN /\ zombie \in BOOLEAN /\ released \in [Ids -> 0 .. 1]

\* The clock, at an event, has told which handlers were registered before it.
Told(e) ==
  /\ e.tick <= now
  /\ e.id # 0 => \A h \in Handlers : reg[h] < e.tick => since[h] < e.id
ToldOK == \A e \in ToSet(queues[0]) \cup ToSet(queues[1]) : Told(e)

\* What is memoized of the handlers of an event was executed, or is not to be,
\* unless it is registered no more.
HandlingOK(c) ==
  /\ Told(c.ev)
  /\ c.ran \subseteq c.memo
  /\ \A h \in c.memo \ c.ran : h \in ToSet(table[c.ev.key]) => ~Eligible(c, h)
MemoOK ==
  \A c \in ToSet(stack) : c \in Calling /\ (c.kind = "handle" => HandlingOK(c))

HInv == TableOK /\ ToldOK /\ MemoOK
=============================================================================
