# A verification development for teaclassic

The repository is a real-time strategy engine in C: a simulation, a renderer, an
embedded Python, and underneath them a fiber scheduler, an event system and a
render thread. This directory holds TLA+ models of its core logic, the TLC
configurations that check them on small instances, and proofs, checked by TLAPS, of
what matters most about them for instances of any size.

Paths below are relative to `src/src/`. `PROJECT.json` gives for each definition of
a module the lines of code it models, for each run what it checks, for each property
a variant of a definition that breaks it (a mutant), and the list of hazards the
properties are for.

## 1. The system

One main thread runs the frame loop of `main.c`:

    render_maybe_enable            the render thread may draw
    render_thread_start_work       hand last frame's commands to the render thread
    Sched_StartBackgroundTasks     release the worker threads
    process_sdl_events, E_ServiceQueue     input, then event handlers (scripts)
    Session_ServiceRequests        change of session, if one was asked for
    G_Update, G_Render             simulation; push commands for the next frame
    Sched_Tick                     run tasks until the frame's time is up
    render_thread_wait_done
    G_SwapBuffers                  exchange the two workspaces

| component | code | state | operations | what is hard about it |
|---|---|---|---|---|
| scheduler, tasks | `sched.c`, `task.c` | 512 task slots, free list, two ready heaps, message queues, event queues, waiting parents, one lock for requests | create, yield, send/receive/reply, await event, wait, exit, run synchronously, clear | requests of several threads interleave; services nest; a task is ready before its service is over |
| scheduler, frames | `sched.c` | idle and waiter counts, the quiesce flag, a start flag per worker, one condition variable for three kinds of waiter | start a frame, tick, quiesce, flush, shut down | lost wake-ups, counts read while others change them |
| render hand-over | `main.c`, `render/render.c`, `game/game.c` | two flags, two workspaces and their command queues | start work, wait done, flush, wait for loading, quit | who owns which workspace, in six places where main waits |
| events | `event.c` | two queues, a table of handlers | notify, service, flush, register, unregister, clear | handlers that call back into all of these |
| task services | `task.c` | names, waiters for names, sleeping tasks | register, look up, unregister, sleep | a service that goes on after it has replied |
| sessions | `session.c` | a stack of saved sub-sessions, one pending request | save, load, push, pop, pop to root, exec | rollback of a load that fails half-way; a request made while one is serviced |
| storage and buildings | `game/storage_site.c`, `game/building.c` | amounts, capacities, totals of factions, stages of buildings, blockers | place, found, supply, complete, hand over, remove, save, load | totals kept by differences in many places |
| builders, harvesters | `game/builder.c`, `game/harvester.c` | an errand each: a state, a target, handlers, what is carried, a queued command | orders, arrivals, ends of animation cycles, save, load | errands span frames and are interrupted at any point; what is acted on has changed since |
| rest of the simulation | `game/` | movement, combat, fog, regions, positions | orders, ticks | state machines; work split among tasks |
| navigation | `navigation/` | blockers, islands and portal links derived from them, three caches of derived fields | block, unblock, request a path, steer, update once a frame | derived data that outlives what it is derived from; fields merged, reused and displaced |
| physics | `phys/` | projectiles | update on the workers, hits | work split among tasks |
| rendering | `render/gl_*.c` | GL objects, a ring buffer, batches | commands | GPU fences |
| scripting | `script/` | Python objects for entities, regions, tasks; pickling | everything above, from Python | reference counts; pickling of cyclic graphs |
| audio, animation, assets, UI, maps | `audio/`, `anim/`, `asset_load.c`, `ui.c`, `map/` | data tables | mostly sequential | little |

Interactions: scripts call into all parts and are called from event handlers; event
delivery wakes tasks; tasks run game work in parallel; a change of session resets the
scheduler, the handlers, the simulation and the render queue in one go, in
mid-frame; a change of the simulation state (pause) quiesces the workers.

## 2. Plan

Ordered by how much rests on a part and how little a test reaches it:

1. `Sched`, `SchedInv`, `SchedProofs`, `Rendezvous`: tasks and requests.
   *Done; the safety properties and the refinement are proved.*
2. `SchedFrame`: frames and worker threads. *Done; model-checked, and its safety proved (7).*
3. `RenderSync`, `Event`, `Session`, `Services`: what the frame loop is made of. *Done;
   model-checked, and the safety of `RenderSync` (7), of `Session`, `Event` and `Services` (8)
   proved.*
4. `Storage`, and `Builder` on top of it: economy and the first unit that spans frames.
   *Done; model-checked, and the safety of both proved (9).*
5. `Motion` and `Harvester`: the second unit that spans frames, with the first one's errand
   inside it, on the motion model they share. *Done; model-checked, and its safety proved (10).*
6. `NavMap` and `Nav`: what the navigation derives from blockers, and for how long.
   *Done; model-checked, and its safety proved but for `WaysFound` (11).*
7. `LoopProofs`, `SchedFrameProofs`: the hand-over for any number of commands in a batch,
   and the frame protocol for any number of workers. *Done; proved.*
8. `LoopProofs`, `EventProofs`: sessions of any number of runs and
   requests; queues of any number of events, tables of any number of handlers and calls nested
   to any depth; services of any number of tasks, names and sleeps. *Done; proved.*
9. `StorageProofs`, `BuilderProofs`: sums and folds over sets of any size, and with them the
   totals, the buildings and the loading of a game with any number of entities; and a builder
   at work among them. *Done; proved.*
10. `HarvesterProofs`: the goods of an errand and the handlers of its stages, with any number
    of deposits, sites and goods. *Done; proved.*
11. `NavProofs`: searches over any map; that what the caches and the islands hold is what
    the blockers of now would give, or is known to be out of date; and that requests are
    answered rightly and without a failed assertion. *Done; proved.*

What would come next: the remaining states of `movement.c` and the phases of a tick with their
futures; combat; the counts of the fog of war and the intersection lists of regions.

Composition: `Sched` is refined to `Rendezvous`, whose promise `Services` takes as given;
`SchedFrame` abstracts the requests of `Sched` to "a task blocks or makes others ready";
`Builder` and `Harvester` each extend `Storage` and `Motion`, and `HarvesterProofs` rests on
`StorageProofs` as the errand does on the sites; `Nav` extends `NavMap`.

## 3. Modules

**`Sched`** (`sched.c`). The variables are the fields of `struct task`, one function
each (`state`, `pinned`, `parent`, `req`, `earg`, ...), the queues (`ready` counts the
entries of a task in the heaps, `msgq`, `eventq`), `s_request_lock` (`lock`), and for
each thread the task it has (`cur`) and where it is with it (`pc`): popped, running,
switched back with a request, serviced, released. A request of a task body is one
action; the thread's service of it is two, `Service...` up to `sched_reactivate` and
`Post...` after it, since the task may already run on another thread in between.
Synchronous runs nest: `nest` is the stack of the main thread's interrupted tasks. Events
handled at once are main-thread operations (`mainOp`). Task bodies are arbitrary within
the contract that the callers in the repository keep, written as guards of the request
actions: reply only to whom you received from; wait for a child of yours, once; free
nobody; only tasks pinned to the main thread wait, or await events whose argument is
copied. Priorities, message contents and stacks are abstracted. `ClearState` releases
an arbitrary set of the tasks it may find, for its loops over the queues read the rings
from cell 0.

**`Rendezvous`**: what messages promise: a sender is blocked until its message has been
received and replied to, and gets one reply. `Sched` implements it with the mapping in
its last section (`ImplementsRendezvous`).

**`SchedInv`, `SchedProofs`, `SchedFrameProofs`, `LoopProofs` (of `Services`, `RenderSync` and
`Session`), `EventProofs`, `StorageProofs`, `BuilderProofs`, `HarvesterProofs`, `NavProofs`**:
see section 6.

**`SchedFrame`** (`sched.c`): the same threads seen at `s_ready_lock`. A step is what a
thread does between taking the lock and giving it up or waiting. One condition variable
has three kinds of waiter; `asleep` is the set of threads waiting, and `Wake` the
spurious wake-up that SDL allows. `late`, `expired` model the clock of `Sched_Tick`.

**`RenderSync`** (`main.c`, `render/render.c`, `game/game.c`): two flags, two workspaces,
one program counter for each thread. The functions of the main thread are operators
from one place to the next; the places are those of `engine_init`, the loop of `main`,
`Session_ServiceRequests` and `engine_shutdown`.

**`Event`** (`event.c`): one thread, but handlers call back. The calls in progress are
a stack of records: loops (`E_ServiceQueue`, `E_FlushEventQueue`) and handling of one
event with the handlers fetched, memoized and executed. A handler that is deleted leaves its
place in the table to the last one of its key, as in `vec_del`. Whenever a handler runs
(`Outside`), everything that a script can call is enabled.

**`Session`** (`session.c`): a sub-session is the script run it came from and whether
anything of it was lost when it was saved; the stack, the pending request and each step
of `Session_ServiceRequests`, between which handlers and the new script run.

**`Services`** (`task.c`, `script/py_task.c`): the name server and the time server as
tasks whose steps interleave with their clients'. A tid is given again after its task
has gone, which `life` numbers.

**`Storage`** (`game/storage_site.c`, `game/building.c`, `game/game.c`): sequential code
that keeps derived data by differences. The state is one record `game`; each C
function is an operator from the state before to the state after, composed the way the
functions call each other; an action is one call from a script, an event or a session.

**`Motion`** (`game/movement.c`): a unit on its way, at the target, blocked or still, and
the queue of the events that its motion raises. `StartMoving`, `StopMoving` and
`FinishMoving` are operators on a record that `Builder` and `Harvester` share.

**`Builder`** (`game/builder.c`, arrival states of `game/movement.c`): extends `Storage`
with one worker: its state and target, the handlers it has registered, its motion, and
the queue of events that have been raised and not delivered.

**`Harvester`** (`game/harvester.c`, and `game/builder.c` for a harvester sent to build):
one record `harvester` with the fields of `struct hstate`, its handlers, its motion and
its inbox, and the deposits; the sites and buildings are those of `Storage`. As in `Storage`, each C
function is an operator on the state and an action is one call or one delivered
event. Others mine, store, raze, hand over and forbid between any two of them. The
search for the nearest deposit or site is a choice among at most `MaxNear` of those that
qualify, for distances are not modelled.

**`NavMap`** (`navigation/nav.c`): what is derived once from the tiles of a map, as
constant operators: chunks, the portals on their borders, the links between portals, the
costs of walking to them and the regions, collected by `BuildForMapData`. `Layers` is the
breadth-first search all of it, and the search through portals of `Nav`, is made with.

**`Nav`** (`navigation/nav.c`, `field.c`, `fieldcache.c`, `a_star.c`): the map as it was built,
the blockers, the flags that say what is out of date, local islands, active links, and one record `fc` with the
caches: flow fields by identifier, mappings and lines of sight by destination and chunk,
and the lists of keys by which entries are found when a chunk changes.
`Requested` is `n_request_path` from its first early return to its loop over the
hops, `Turn` one round of that loop, `Sought` is `N_DesiredPointSeekVelocity`; both
return the caches after them and whether the functions' assertions hold. Abstracted: one
layer, no factions, the same cost for every tile, no diagonal steps; the path with the
fewest hops stands for the cheapest; a line of sight is the blockers it was made with; a
chunk has fewer than sixteen local islands, for which a field's identifier has room;
any entry may be the least recently used one (`Displace`).

The `MC...` modules give the constants values; definitions that differ from another by
one fault (`MayPopAny`, `Popped`/`Peeked`, those marked *Variant*) are the mutants of
`PROJECT.json`: what a plausible bug would make of a definition, and which property then
fails.

## 4. Runs

| run | module | states | what it shows |
|---|---|---|---|
| `ipc` | `Sched` | 116 thousand | three tasks, main and a worker, sends, receives, replies and exits: each task in one place, replies go to who is blocked on them, and the whole implements `Rendezvous` |
| `requests` | `Sched` | 1.4 million | two tasks, every kind of request, two events (one with an owned argument), synchronous runs, clears: ends of tasks, late touches, pinned tasks |
| `frame` | `SchedFrame` | 122 thousand | three workers, three tasks (one pinned): workers quiet when they must be, counters exact, no signal lost, main goes on |
| `handover` | `RenderSync` | 1052 | from boot to shutdown, all orders of the two threads |
| `handlers` | `Event` | 4.2 million | two handlers, two events, calls nested three deep |
| `stack` | `Session` | 533 thousand | four script runs, five requests, files missing or damaged |
| `services` | `Services` | 825 thousand | two tids with two lives each, one name, sleeps of two ticks |
| `stock` | `Storage` | 1.3 million | a hut and a store, two factions, two grounds; two entities added, or one added and one save |
| `orders` | `Builder` | 285 thousand | a builder, two buildings, orders of scripts and of the player |
| `harvest` | `Harvester` | 189 thousand | a harvester, a tree, a rock, a store and the foundations of a hut; orders of scripts and of the player, and others at work: goods neither made nor lost, handlers those of the errand, no assertion fails, work ends |
| `ways` | `Nav` | 10 thousand | a ring of four chunks, two objects that stop and start four times, two places to ask from, one displaced entry: what is derived is exact or known to be out of date, requests are served and refused only when there is no way, whoever can arrive is led |
| `overwritten` | `Nav` | violation | see section 7 |

What the properties say is written above each of them. Where one name stands for
several (`EndsClean`, `NoLateTouch`, `HandoverSafe`, `EventsKept`, `TotalsExact`, ...)
it is the conjunction of parts that are defined, and explained, one by one.

Bounds. Two tasks are what the races of `Sched` need (one requests, the other is woken
and runs on the other thread), three for messages (two senders to one receiver); one
worker suffices, as a second brings no new kind of thread, and the proofs hold for any
number. Three workers in `SchedFrame` are the least for which "the last to wait" and
"the first to be done" differ from "the other one". Two events and two handlers in
`Event` allow a handler to unregister, replace or overtake the other, three calls
deep: frame, handler, and what the handler calls. `MaxCmds = 2` in `RenderSync`: a batch
that is empty, one that is not, and one half executed. Five requests on four runs reach
every pair of requests on a stack two deep. In `Storage` amounts up to 2 are the least
with which a delivery can be partial, and `MaxMade` bounds entities added and saves
together, so that a run has two entities or an entity and a save. `MaxInbox = 2` in
`Builder` keeps the events of a stop and a start, whose order matters, in the queue
together. In `Harvester` one event of others between any two steps and
one unit of most things keep every errand within reach of every interruption; the rock's
kind is carried two at a time, so that hands can be half full. The ring of `Nav` is the
least map on which there are two ways, one of them through every chunk, a border wide
enough to be half closed, and a blocker that cuts a chunk in two; one of the places to
ask from can itself be blocked. Four changes let both objects stop, start and stop again.
Symmetric constants (`Tasks`, `Place`) are only used in runs without liveness
properties.

Runs with `CHECK_DEADLOCK FALSE`: `frame`, `handover`, `stack` have an end (shutdown), the
others stop at their bounds (`MaxEvents`, `MaxTicks`, `MaxMade`, `MaxDamage`, `MaxChanges`). In `ipc` and
`requests` deadlock is checked: the scheduler can always take a step, so that
`s_request_lock` is never held for good.

## 5. Fairness

Weak fairness of a thread's steps stands for the operating system's scheduling.
`SchedFrame` adds that time passes and that a wait with a timeout ends; a task comes to
its next request. It does not assume that a spurious wake-up ever happens, nor that the
mutexes are fair. `RenderSync` adds that a session file has finitely many
sub-sessions (strong fairness of the step that leaves the loop over them). `Services`: the
time server runs when it has a message, time passes and the notifier gets its tick
event. `Builder`: the animation goes round while nothing is queued, and the event loop
delivers; nothing is assumed about arriving, so that only the work itself, and not
the walk, is shown to end; `Harvester` shows the same, and assumes no more than that one of
the two goes on. `Event`, `Session`,
`Storage`, `Sched` and `Nav` have no liveness properties: what handlers, scripts and task bodies do is up to them.

## 6. Proofs

`SchedProofs` proves, for every set of tasks, workers and events and every choice of the
other constants that satisfies `SchedAssumption`:

    THEOREM Invariance == Spec => []IInv

and from it type correctness and the safety properties of the runs `ipc` and `requests`:
`OnePlace`, `RepliesOwed`, `EndsClean`, `NoLateTouch`, `PinnedRunsHere` and their parts, and
`LockedService`. The assumptions: finitely many tasks, and markers (`NoTask`, `NoThread`,
`NoEvent`) that are none of the things they stand beside. TLC evaluates them in the runs.

None of the properties is inductive. That a reply finds its target blocked needs that
no two tasks owe the same reply; that needs that a sender is queued once; that a task is
queued once needs what its state says about where it is, and for how long after a
request is serviced. `IInv` (in `SchedInv`) has eight parts: types; `s_nfree` counts the
free slots; `FramesOK`, what threads are doing and who holds the lock; `PlacesOK`, which
ties every place a task can be in to its state and excludes pairs of places that share
a state; `RequestsOK` and `RepliesOK`, what a pending request names and which replies are
owed; `FamilyOK`, children and parents that wait; `LeavingsOK`, what remains of a task
that blocks or exits: its event argument, destructor and future. The proof has a lemma
for each action, under which there is a step for each part that the action can disturb;
the properties then follow from `IInv` without looking at the actions.

Its last section proves `THEOREM RendezvousHolds == Spec => ImplementsRendezvous` under the
same assumptions: initial states map to the initial state of `Rendezvous`, and every step
to one of its steps or to none. The abstract variables are read off the message queues, the
states of the tasks and the requests pending on the threads (`Mapping`). Most actions of the
threads are stutters, and the lemma of each says so; the services of a send, a receive and a
reply, the creation of a task and the reset are the steps of the rendezvous. `IInv` supplies what they need: a task that runs or exits has no
message on its way, since every place a message can be in goes with a blocked state, and a
reply that is owed names a task in `REPLY_BLOCKED`. One more invariant, `NotToSelf`, says
that no message has its sender as its receiver.

`LoopProofs` proves, in its second part, for every bound on the commands in a batch of
`RenderSync`,

    THEOREM SyncInvariance == ASSUME Ordered PROVE SyncSpec => []SyncInv

and from it both safety properties of the run `handover`, `HandoverSafe` and
`ClearedWhenIdle`. `Ordered` says that neither of the two unordered pairs of events meets
(`SlowStart`, `QuitInLoad`; section 7 says what happens when one does), as in the run. The
properties are not inductive: that the workspace is empty when it is exchanged needs that
the render thread has answered *this* batch, which needs that no answer of an earlier one
is left, which depends on where the main thread is, as some of its waits take the answer
and others leave it. `SyncInv` says so in three parts besides the types: `ThreadsOK` ties the
places of the two threads together, `FlagsOK` allows at most one of a start, a batch under
way and an answer, and `WorkspacesOK` says which workspace is known to be empty when. There
is a lemma for each action of the render thread and one for each function the main thread
is made of, whatever place it is called from.

`SchedFrameProofs` proves `THEOREM Invariance == Spec => []IInv` for any finite set of workers,
any tasks and any of them pinned, and from it the safety properties of the run `frame`:
`WorkersQuiet`, `CountsExact` and `NoSignalLost`. The counters of the code are compared with
sets: `nwaiters` is the number of workers in `Waiting`, `idle` of those in `Resting`, and what a
step does to a counter follows from the one worker it moves into or out of a set. That the
main thread is not left asleep beside a ready task (`WakeOK`) needs that whoever makes one
ready while the main thread ticks is a worker that is not waiting, so that `nwaiters` has
not reached the number of workers yet, and that the last one to wait wakes everybody;
that the workers are quiet after `sched_wait_workers_done` needs that the main thread counts
to the number of workers only in frames that started them all (`FrameOK`).

`LoopProofs` proves, in its last part, all four properties of the run `stack`, `SessionsKept`, `Lineage`,
`RollbackExact` and `LoadRestores`, for any number of script runs, requests and queued events,
under `PushSavesNothing`: the script that is being pushed does not save the session (section 7
says what is missing from the file if it does). `Lineage` is about the frames between two
services. `SessionInv` says what becomes of the chain meanwhile (`ChainsOK`): during a service the
sub-session on top of the stack is the one that was saved first, and the file holds a chain
too, as far as it can be read; `LoadOK` says how far `session_load` has come with it, so that
what was loaded is a chain and can replace the stack.

`EventProofs` proves all the safety properties of the run `handlers`, for any number of events
and handlers and calls nested to any depth, from two invariants. `IInv` is about the queues:
that they are handled in order needs that the queue which is not being filled holds the older
events while a loop works on it, and nothing between two loops (`OrderOK`); that an argument is
not released early needs that no two calls in progress handle the same event (`ReleasesOK`);
with them, and types, `EventsKept` follows. `HInv` adds the handler table: each handler is in it
once and under its key, ticks tell who was registered before an event was notified, and what a
call in progress has memoized was executed or is not to be. `NoneSkipped` and `HandledRight`
rest on it, though the handlers a call goes through are registered and unregistered under it
and the last takes the place of a deleted one.

`LoopProofs` proves of `Services` `THEOREM Invariance == Spec => []IInv` for any number of tasks, names,
lives and delays, and from it the three safety properties of the run `services`, each under what
the code needs for it: `AnswersOwed` if a name outlives the call that registers it
(`NameOutlives`), `NamesOfLiving` if a task registers one name (`OneName`), `SleepsLongEnough` if
the clock does not wrap in the time considered (`NoWrap`). Section 7 says what happens otherwise.
`IInv` holds whatever the constants are: the queues and the heap of delays have one entry of a
task (`Distinct`), and a task is known to the services in one of four places if it is blocked and
in none if it is not (`AllHeld`). A step moves one task from a place to another, or out of the
last one, except that a registration empties a whole queue of waiters; a lemma says once what
that does to those in it and to everybody else. That nobody waits for a registered name needs to
be known between the registration and the waking of the waiters, too, for all other names; that a
name is not that of a dead task needs that a task which registered none has no name in the table
or on its way there, and that one that is leaving has no request but that one.

`StorageProofs` proves, for any number of entities, resources, factions and grounds,

    THEOREM Invariance == ASSUME Recapacity = FALSE PROVE Spec => []IInv

and from it all four safety properties of the run `stock`: `TotalsExact`, `SupplyAsked`,
`BlockersExact` and `LoadRestores`. The assumption is that no script changes a capacity that is
in use, without which the totals are wrong (section 7). `IInv` (at the end of `Storage`) says of
the game in memory and of the one in the file that every entity is as it should be
(`EntityOK`: a building listens while it is founded and stands where it blocks, a site uses its
alternative tables while it is built with and never holds more than it has room for) and that
the books are right (`BooksOK`). A function of the code is about one entity, and leaves the
totals wrong between its calls. So the proof follows the functions, from the small to the large:
each has a lemma that says which fields of the entity change and that the totals
change by exactly what the entity adds to them (`ResKept`, `CapKept`, `BlockersKept`, with
`Apart` for everybody else), whatever the totals were before; such accounts can be chained, and
`EntityStep` concludes once for all that the sums over all entities are right after a step if
the account of its one entity is. Loading is three folds over the entities, each with folds over
the resources inside. Since a fold may take the elements in any order, the invariant of a
fold is about sets: the entities that have been put back have come one stage further, all
others are where they were, and the blockers are right throughout (`AllCame`); the totals are
not, in between, and are overwritten in the end. At the last stage every entity is what it was
when it was saved, and the game is the one that was saved.

Both need facts about data of any size: the least number of a set, what sums and cardinalities
lose with an element, and what is true of a fold. `StorageProofs` begins with them, and
`EventProofs` and `NavProofs` with those they need. The library states induction with an
operator as a parameter, which the provers cannot instantiate; here a set stands for the
property, and induction is that a non-empty set of numbers has a least element; over finite sets
it goes by their cardinality. `FoldSet` is a recursive function chosen by `CHOOSE`: the lemmas show that a function with
the recursion's equation exists, so that the chosen one has it too.

`BuilderProofs` proves, for any number of buildings, resources, orders and queued events,

    THEOREM BInvariance == BSpec => []BIInv

without any assumption, zombies and orders in the middle of a motion included, and from it the
safety properties of the run `orders`: `BuildsSupplied` in all cases, `NoneFails` if
`Zombies = FALSE`, and `HandlersExact` if `OrderInMotion = FALSE` too; without these the code
does not keep them (section 7). `BIInv` is Storage's `IInv` with four parts more. `Fits`:
what is listened for is part of what the state waits for, the target of an order has been made
once, and what is built is supplied. `GoneOK`: no uid is used again, and a zombie is no building;
without it, a building made after the target was destroyed could pass for it, unsupplied.
`Listens`: all that the state waits for is listened for. And no assertion has failed. The two
conditional parts are stated under the negated constants, so that one proof serves all four
combinations. What others do to the buildings enters by one relation, `Forward`: nothing that
was gone comes back, and what was supplied stays so; each stage of a building has a lemma
(`Reaches`). What a handler or an order leaves is `Good`: a builder that fits, and a game that is
sound with what was used up in it counted as spent. The one step that founds and supplies in a
single call needs that a building just founded holds nothing, so that nothing is spent on it
that the total has not had (`SuppliesGame`).

`HarvesterProofs` proves, for any number of sites, buildings, deposits, resources, factions and
queued events,

    THEOREM HInvariance == ASSUME StaleSaves = FALSE PROVE HSpec => []HIInv

and from it all three safety properties of the run `harvest`: `GoodsKept`,
`HarvestHandlersExact`, and `NoneFailed` if `Zombies = FALSE` and `RoomAssured = TRUE` too. Without
these the code does not keep them (section 7). `HIInv` says of the harvester and the world it
works in that the books of the sites are right (`Sound`, from `Storage`), that the goods add up
resource by resource, and that the harvester is `Fit` for its errand: what it listens for is what
its state waits for (`OneErrand`), and what the handlers of that state read, a deposit, a
resource, a site, something in its hands, is there (`Equipped`). `Equipped` speaks of the
handlers there would be after a load as well as of those registered, for a load registers
handlers anew from the state alone; that is why a session saved in a state that was left behind
(`StaleSaves`) spoils it. None of the properties is inductive: no goods are lost in
`on_arrive_at_transport_dest` only if the harvester carries what it is there to deliver, and
that it knows of a deposit while it is at work needs that it did while it walked there, through
whatever orders and loads came in between. The functions of `harvester.c` call each other and branch on which entity is
nearest, so the proof has a lemma for each function, about every world it may leave, and the
errand ends where the call tree does; handlers and orders are the roots. An amount that moves
is accounted for where it moves: a lemma for putting down, taking and mining says that the sum
over the sites or over the deposits changes by what the hands gain or lose, and that all other
goods stay where they are. What is used up when a delivery supplies a building goes over to
`spent` by exactly what the building held. The initial state is a game that scripts have set up,
and is itself the result of four folds (entities are added, sites given room and filled, resource
by resource, and buildings founded), so it has an induction of its own.

`HarvesterAssumption` was extended for this by what the state it begins in needs: the sets are
finite, the amounts are numbers, no site is given more than it has room for, and a building that
is yet to be founded is given nothing, as `G_StorageSite_SetCurr` refuses both.

`NavProofs` proves, for any map, any objects and what they cover, any destinations and any places
to ask from,

    THEOREM NavInvariance == NavSpec => []NavIInv

and from it `DerivedExact`, the property of the run `ways` that is about all that the
navigation keeps: the blockers are those of the objects there are; the local islands and the
links between portals are those of the blockers; a field leads over free tiles only in ways that
end, and to a free destination whoever can reach it; a line of sight is that of the blockers; each
unless its chunk is marked dirty. `NavIInv` says the same in a form that a step preserves.
`DerivedExact` asks of a field that no units are led in circles, and of that nothing follows about
the field after a part of it has been computed again. `NavIInv` has instead, for each field, a
rank of its tiles that falls with every step (`Descends`): a field that is extended towards the
tiles of another island (`Better`) gives the new tiles ranks above those it had, and stays
ranked. And it speaks of any blockers and any set of dirty chunks (`IslesAt`, `LinksAt`, `CacheAt`,
`Sound`), so that one lemma says of an object that stops or starts that what depends on the
blockers of other chunks stays what it was, since those of chunks not marked have the same free
tiles (`BlockedElsewhere`); another says of a request that it makes the derived data current
before it reads any. Underneath are the searches. `Layers`
is a fold over rounds; what it has found after n rounds (`Layered`) gives, when the rounds are as
many as there are tiles, that it counts the steps from where it began and is closed under steps
(`Steps`), and that is all that the rest of the proof knows of it: islands partition the free tiles,
their numbers fit in `0..Rows * Cols`, none is 0, and tiles that a way joins have the same number.
A request is followed from its early returns to the hops of
its path: the portals of a path are linked one to the next, so that each turn of the loop asks for a
field of the chunk it is in; what a turn puts into the caches is sound, whatever entries were
merged, reused or displaced (`SoughtKeeps`).

The answers to requests are proved from the same invariant: of what `Served` says, the field that is
there (`FieldThere`), the lines of sight in a row (`SightsInRow`) and the refusals (`RefusalsTrue`).

    THEOREM ServedHolds == NavSpec => []Served

The search through portals is a search in layers too, over hops instead of tiles: every hop that it
counts but the first ones follows from one that is counted one less, and all that follow from counted
ones are counted (`Counted`, `CountedFrom`, `HopsAreCounted`). For `FieldThere` and `SightsInRow` the
path is taken back along the count, so that each of its hops is a neighbour of the one before
(`PathHops`): a link within a chunk, or the crossing of a border. Each turn of the loop over the
path, from its end, makes or finds a field for the chunk it is about and leaves the others
(`TurnDoes`, `PathServes`), down to the chunk of the source, which is the one that whoever asked is
steered by. For the lines of sight the state of the loop is that the last one is there and is of the
chunk of the hop at hand or of one beside it (`InRow`); a turn that is skipped as not needed must not be
followed by one of another chunk, and that is where the hypothesis of `SightsInRow` is used: the
island of the destination, looked up in the chunk of the source, has the number it has in its own.
Without it the assertion does fail (section 7). For `RefusalsTrue` the tiles that have a
way to them, by their own island or by the island of a counted hop (`Way`), are shown to be closed
under the steps of `Joined`, within a chunk and across borders (`WayGoesOn`): so the destination is one
of them, there is a portal from which it is reached (`ClosestPortalIs`), and the search for the nearest
counted one finds one (`ClosestReachableIs`, `NotRefused`). Only there must nothing be known to be out
of date.

`NavAssumption` was extended for this by `None \notin Passable` and `None \notin Portal`: the mark
for "no direction" is not a tile, and that for "no portal" (NULL) not a portal.

Only model-checked: `WaysFound` of `Nav`, and all liveness, for which the prover has
no rules. `WaysFound` is not a theorem for every map. The code resorts to getting as near as
possible where it does not find the way (`navigation/nav.c:1562`), takes tiles to be reachable
from a portal when a diagonal neighbour is, and merges the fields of hops through one chunk; there are
maps on which a unit that could arrive is left without a direction by one of these. On the ring
of `ways` it holds. Nothing in a module that is proved
about uses `RECURSIVE` operators.

## 7. Where code and documentation, or code and assertion, disagree

The first has a run that TLC must find violated; it is listed with its lines under
"findings" of `PROJECT.json`.

* `overwritten`: the loop of `n_request_path` skips a last hop within the destination's
  chunk, as its field "will overwrite the destination flow field made earlier"
  (`navigation/nav.c:1614`). The condition looks the local island of the destination up
  in the chunk of the source. Where the numbers differ, the hop is not skipped, and
  units that have come into the chunk are led out of it through the portal that the path
  ends at (`DestinationFieldKept`).
The following were met while modelling. Where a constant is named, the run of the
module fails with its other value; the passing runs leave the case out with the value
given here.

| module | what | constant |
|---|---|---|
| `RenderSync` | a session request serviced in the frame in which the user quits clears the render thread's work under it: `Engine_WaitRenderWorkDone` returns at once when `s_quit` is set (`ClearedWhenIdle`) | `QuitInLoad = FALSE` |
| `RenderSync` | `UI_Init` leaves a batch running that nobody waits for, "in the same state that we started in" (`main.c:628`); if it outlasts the start script, the assertion of `G_SwapBuffers` fails in the first frame (`SwapFindsEmpty`) | `SlowStart = FALSE` |
| `Storage` | `G_StorageSite_SetCapacity` and `SetAltCapacity` take the difference to the amount stored where the old capacity is meant: a capacity set twice, or while something is stored, spoils the faction's total (`CapacityExact`), which `get_resource_capacity` is said to return (`script/py_script.c:387`) | `Recapacity = FALSE` |
| `Builder` | a builder that arrives at a building destroyed meanwhile, and that a script still refers to, fails the assertion of `G_Building_IsFounded` (`NoneFails`) | `Zombies = FALSE` |
| `Services` | `nameserver_task` looks for waiters through the caller's string after it has replied to the caller (`AnswersOwed`) | `NameOutlives = TRUE` |
| `Services` | a task that registered several names is unregistered from one of them only (`NamesOfLiving`; it takes two `Names` to see it) | `OneName = TRUE` |
| `Services` | a sleep that ends after `SDL_GetTicks` wraps ends at once (`SleepsLongEnough`) | `TickMod = 8`, more than `MaxTicks` and a delay |
| `Builder` | an order of a script, to a builder that is walking past the building, is forgotten: `on_motion_end` returns at once while it moves, and nothing is registered (`HandlersExact`) | `OrderInMotion = FALSE` |
| `Session` | a session saved by a script while it is being pushed lacks the sub-session that pushed it (`Lineage`) | `SavesInRun = FALSE` |
| `Session` | a request made while another is serviced is overwritten, and its failure not notified | none: no property claims it |
| `Storage` | what a supplied building uses up stays in the faction's total of resources; `TotalsExact` says so by the history `spent`, and `StoredIsTotal`, without it, fails | none |
| `Storage` | a site that holds more than a capacity lowered since is loaded empty (`LoadRestores`) | `Recapacity = FALSE` |
| `Harvester` | `G_Harvester_Gather` and `G_Harvester_SupplyBuilding` hand what `nearest_storage_site_dropoff` found to `G_Harvester_DropOff` without asking whether it found any (`NoneFailed`) | `RoomAssured = TRUE` |
| `Harvester` | an errand that is given up for a queued order to build leaves the state `TRANSPORT_SEEK_RESOURCE`; a session saved then is loaded with two handlers of arrivals (`HarvestHandlersExact`) | `StaleSaves = FALSE` |
| `Harvester` | turned from an exhausted deposit to another while transporting, it walks in the state `NOT_HARVESTING`, so that a load forgets the errand; an order given while it walks past the target registers nothing, and neither is claimed | none |
| `Harvester` | `drop_off_only` stays set when the drop-off is interrupted; a queued order to gather is cleared by the order's own notification; `G_Harvester_Stop` reports no end of harvesting in `TRANSPORT_HARVESTING` and keeps what was accumulated | none |
| `Nav` | `N_FC_InvalidateAllThroughChunk` searches the flow fields for destinations, but they are keyed by fields: no field is removed, and routes into a portal that was closed stay in the chunks before it | none: `DerivedExact` is about each field in its own chunk |
| `Nav` | two paths through a chunk merge their fields under one identifier that other destinations share; units of those may be led in circles between two chunks ("largely inconsequential", `navigation/nav.c:1658`) | none |
| `Nav` | the lookup of `overwritten` the other way round: where the number found is that of another island of the destination's chunk, a hop across that island to the destination's portal is skipped although it is needed, the path leading out of the chunk there and back. The line of sight of the source's chunk is then to continue that of a chunk two away, and the assertion that they are neighbours fails (`navigation/nav.c:1681`, `SightsAsserted`). `SightsInRow` says, and `NavProofs` proves, that it never fails otherwise | none: `MCNav_unsighted.cfg`, not among the runs, has TLC find it on the map `Loop` |
| `NavMap` | a run of passable tiles that begins at the last tile of a border never becomes a portal: it is opened there and not closed, as the branch that closes one at the last tile is the `else` of the one that opens it. Chunks joined by such a tile only are one region without a way between them, and requests across it are refused | none: `WaysFound` is about ways through portals |
| `Storage` | an amount changed while the simulation is paused is announced to nobody | not modelled |
| `Event` | the argument of a script's event is leaked if its receiver became a zombie or a change of session clears it | none: `EventsKept` excludes only an early release |
| `Event` | a session saved from a handler handles newer events before older ones | none: `FramesInOrder` says "unless `saved`" |
| `Sched` | a failed `Task_Wait` leaves its caller in no queue; `Task_Wait(NULL_TID)` indexes before the array; an orphaned zombie keeps its slot; `Sched_ClearState` misses tasks blocked on a reply; a slot's next task inherits unread messages | guards of the request actions, and the hazards |

## 8. Not modelled

Section "components" of `PROJECT.json` names every part of the source with its status
and reason. In short: numerical code (steering, collision, matrices, A* over tiles) has no states
worth exploring at the sizes TLC can do; OpenGL, OpenAL and CPython are
outside the code; parsers and tables used by one thread are better served by tests;
the other states of movement, combat, regions and the fog would be the next modules
(section 2); pickling and the containers are sequential algorithms over data. Most of the
lines of the repository are vendored (`nuklear.h`, `stb_image*.h`), wrappers of the Python
API, OpenGL calls or styling of the user interface, and are left out for good.
