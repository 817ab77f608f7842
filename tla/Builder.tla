------------------------------- MODULE Builder -------------------------------
(* One builder (game/builder.c) at work on the buildings of Storage, with    *)
(* the motion it depends on (the arrival states of game/movement.c) and the  *)
(* events that reach it.  An event is queued by what causes it and delivered *)
(* later, to the handlers that are registered by then.                       *)
EXTENDS Storage, Motion, SequencesExt

CONSTANTS
  NoTarget,      \* UID_NONE
  Combatable,    \* the buildings that have hit points
  MaxHp,         \* their full hit points; one animation cycle restores one
  MaxInbox,      \* bound: events queued for the builder
  MaxDamage,     \* bound: hits that buildings take in a behaviour
  Zombies,       \* may what a walking builder is to build stay as a zombie?
  OrderInMotion  \* may a script order a building that a walking builder is next to?

ASSUME BuilderAssumption ==
  /\ NoTarget \notin Entity /\ Combatable \subseteq Buildings
  /\ MaxHp \in Nat \ {0} /\ {MaxInbox, MaxDamage} \subseteq Nat
  /\ {Zombies, OrderInMotion} \subseteq BOOLEAN

VARIABLES
  worker,  \* the builder: its state, target, handlers, motion and events
  hp,      \* hit points of the buildings
  zombies, \* destroyed buildings that an object of a script still refers to
  gone,    \* buildings that have been made once: a uid is not given again
  damage,  \* hits taken
  failed   \* has an assertion of the code failed? (history)

bvars == <<worker, hp, zombies, gone, damage, failed>>
allVars == <<vars, bvars>>

Handlers == {"on_motion_end", "on_motion_begin", "on_build_anim_finished"}
HandlerOf == [MOTION_END |-> "on_motion_end", MOTION_START |-> "on_motion_begin",
              ANIM_CYCLE_FINISHED |-> "on_build_anim_finished"]
Events == DOMAIN HandlerOf

\* What G_EntityForUID returns something for.
Exists(e) == e \in Active(game) \union zombies

(***************************************************************************)
(* builder.c: from the builder and the game before to those after          *)
(***************************************************************************)
NotBuilding(w) == [w EXCEPT !.state = "NOT_BUILDING"]
GiveUp(w) == [NotBuilding(w) EXCEPT !.target = NoTarget]
\* Variant: one handler is forgotten.
FinishForgetful(w) ==
  [GiveUp(w) EXCEPT !.handlers = @ \intersect {"on_motion_begin"}]

FinishBuilding(w) == [GiveUp(w) EXCEPT !.handlers = {}]

StartBuilding(w) ==
  [w EXCEPT !.state = "BUILDING",
            !.handlers = @ \union {"on_motion_begin", "on_build_anim_finished"}]

Result(w, g) == [worker |-> w, game |-> g, failed |-> FALSE]

\* Variant: the handler is removed before it is known that the builder stands.
ArrivesTooSoon(w, g, adjacent, free) ==
  LET e == w.target
      v == [w EXCEPT !.handlers = @ \ {"on_motion_end"}]
      founded == IF g.build[e].state < Founded /\ free THEN Found(g, e, TRUE) ELSE g
      supplied == IF founded.build[e].state < Supplied /\ IsSaturated(founded, e)
                  THEN Supply(founded, e) ELSE founded
  IN  IF ~Still(w) THEN Result(v, g)
      ELSE IF ~Exists(e) \/ ~adjacent THEN Result(GiveUp(v), g)
      ELSE IF founded.build[e].state < Founded THEN Result(GiveUp(v), g)
      ELSE IF supplied.build[e].state < Supplied THEN Result(NotBuilding(v), supplied)
      ELSE Result(StartBuilding(v), supplied)

\* Variant: a founded building is built, supplied or not.
BuildsAnyway(w, g, adjacent, free) ==
  LET e == w.target
      v == [w EXCEPT !.handlers = @ \ {"on_motion_end"}]
      founded == IF g.build[e].state < Founded /\ free THEN Found(g, e, TRUE) ELSE g
  IN  IF ~Still(w) THEN Result(w, g)
      ELSE IF ~Exists(e) \/ ~adjacent THEN Result(GiveUp(v), g)
      ELSE IF founded.build[e].state < Founded THEN Result(GiveUp(v), g)
      ELSE Result(StartBuilding(v), founded)

\* adjacent: is the target next to the builder?  free: may it be founded where
\* it is?  The target may be gone, or be a zombie, of which the code asks what
\* only a building can answer: the assertion in G_Building_IsFounded fails.
OnMotionEnd(w, g, adjacent, free) ==
  LET e == w.target
      v == [w EXCEPT !.handlers = @ \ {"on_motion_end"}]
      founded == IF g.build[e].state < Founded /\ free THEN Found(g, e, TRUE) ELSE g
      supplied == IF founded.build[e].state < Supplied /\ IsSaturated(founded, e)
                  THEN Supply(founded, e) ELSE founded
  IN  IF ~Still(w) THEN Result(w, g)
      ELSE IF ~Exists(e) \/ ~adjacent THEN Result(GiveUp(v), g)
      ELSE IF e \in zombies THEN [Result(v, g) EXCEPT !.failed = TRUE]
      ELSE IF founded.build[e].state < Founded THEN Result(GiveUp(v), g)
      ELSE IF supplied.build[e].state < Supplied THEN Result(NotBuilding(v), supplied)
      ELSE Result(StartBuilding(v), supplied)

\* The builder has been made to move while it was building.
OnMotionBegin(w, g) ==
  [Result([NotBuilding(w) EXCEPT !.handlers = @ \ {"on_motion_begin",
                                                   "on_build_anim_finished"}], g)
     EXCEPT !.failed = w.state # "BUILDING"]

Healed(e) == Lesser(hp[e] + 1, MaxHp)
Mends(e) == e \in Combatable /\ e \in Active(game)

\* Variant: a target that is gone is waited for.
WaitsForTarget(w, g) ==
  LET e == w.target
  IN  IF e \notin Active(g) THEN Result(w, g)
      ELSE IF e \in Combatable /\ Healed(e) < MaxHp THEN Result(w, g)
      ELSE Result(FinishBuilding(w), Complete(g, e))

OnBuildAnimFinished(w, g) ==
  LET e == w.target
  IN  IF e \notin Active(g) THEN Result(FinishBuilding(w), g)
      ELSE IF e \in Combatable /\ Healed(e) < MaxHp THEN Result(w, g)
      ELSE Result(FinishBuilding(w), Complete(g, e))

\* An order.  If the building is at hand, work starts, or is found not to be
\* possible, in the call itself; and if the builder is next to it but has not
\* come to rest, nothing is registered.
Build(w, g, e, adjacent, free) ==
  LET v == [w EXCEPT !.handlers = {}, !.state = "MOVING_TO_TARGET", !.target = e]
  IN  IF adjacent THEN OnMotionEnd(v, g, TRUE, free)
      ELSE Result([SurroundEntity(v) EXCEPT !.handlers = {"on_motion_end"}], g)

-----------------------------------------------------------------------------
NewWorker == [state |-> "NOT_BUILDING", target |-> NoTarget, handlers |-> {},
              motion |-> "arrived", inbox |-> <<>>]

BInit ==
  /\ Init
  /\ worker = NewWorker
  /\ hp = [e \in Buildings |-> 0]
  /\ zombies = {} /\ gone = {}
  /\ damage = 0
  /\ failed = FALSE

\* A building that has just been founded has a tenth of its hit points.
FoundedHp(g, h) ==
  [e \in Buildings |->
     IF /\ e \in Combatable /\ e \in DOMAIN h.build /\ h.build[e].state = Founded
        /\ e \in DOMAIN g.build /\ g.build[e].state # Founded
     THEN MaxHp \div 10 ELSE hp[e]]

\* What the buildings do on their own, and what scripts do to them.
BuildingStep ==
  /\ \/ \E e \in Entity, p \in Place, needs \in [Resource -> Amount] :
          e \notin gone /\ Create(e, p, needs)
     \/ \E e \in Entity :
          \/ \E r \in Resource, n \in Amount : Store(e, r, n)
          \/ ScriptMark(e)
          \/ \E blocking \in BOOLEAN : ScriptFound(e, blocking)
          \/ ScriptSupply(e)
          \/ ScriptComplete(e)
          \/ OnAmountChanged(e)
  /\ gone' = gone \union Active(game')
  /\ hp' = FoundedHp(game, game')
  /\ UNCHANGED <<worker, zombies, damage, failed>>

\* A building is destroyed: it is removed, or becomes a zombie.
Demolish(e, zombie) ==
  /\ e \in Active(game)
  /\ zombie => Zombies \/ worker.target # e \/ worker.state # "MOVING_TO_TARGET"
  /\ Destroy(e)
  /\ zombies' = IF zombie THEN zombies \union {e} ELSE zombies
  /\ UNCHANGED <<worker, hp, gone, damage, failed>>

\* The last reference of a script to a zombie is dropped.
Forget(e) ==
  /\ e \in zombies
  /\ zombies' = zombies \ {e}
  /\ UNCHANGED <<vars, worker, hp, gone, damage, failed>>

Hit(e) ==
  /\ e \in Combatable \intersect Active(game)
  /\ hp[e] > 1
  /\ damage < MaxDamage
  /\ hp' = [hp EXCEPT ![e] = @ - 1]
  /\ damage' = damage + 1
  /\ UNCHANGED <<vars, worker, zombies, gone, failed>>

Room(w) == Len(w.inbox) <= MaxInbox

WorkerBecomes(w) ==
  /\ Room(w)
  /\ worker' = w
  /\ UNCHANGED <<vars, hp, zombies, gone, damage, failed>>

\* A handler or an order has run.
Applies(r, newHp) ==
  /\ Room(r.worker)
  /\ worker' = r.worker
  /\ Supplies(r.game)
  /\ failed' = (failed \/ r.failed)
  /\ hp' = newHp
  /\ UNCHANGED <<zombies, gone, damage>>

\* The method `build` of a script's object: it stops nothing first.
ScriptBuild(e, adjacent, free) ==
  /\ e \in DOMAIN game.build
  /\ OrderInMotion \/ Still(worker) \/ ~adjacent
  /\ LET r == Build(worker, game, e, adjacent, free)
     IN  Applies(r, FoundedHp(game, r.game))

Stopped(w, stopMove) == FinishBuilding(IF stopMove THEN StopMoving(w) ELSE w)

\* A right click on a building that needs repair.
PlayerBuild(e, adjacent, free) ==
  /\ e \in DOMAIN game.build
  /\ \/ game.build[e].state \in Founded..Supplied
     \/ game.build[e].state = Completed /\ e \in Combatable /\ hp[e] < MaxHp
  /\ LET r == Build(Stopped(FinishBuilding(worker), TRUE), game, e, adjacent, free)
     IN  Applies(r, FoundedHp(game, r.game))

\* A stop order, or the first half of a move order.
Stop(stopMove) == WorkerBecomes(Stopped(worker, stopMove))

\* Motion that the builder's code does not ask for: a script, combat, the tick.
Walk == worker.motion # "moving" /\ WorkerBecomes(StartMoving(worker))
Arrive == worker.motion = "moving" /\ WorkerBecomes(FinishMoving(worker, "arrived"))
Wait == worker.motion = "moving" /\ WorkerBecomes(FinishMoving(worker, "waiting"))
Halt == worker.motion = "waiting" /\ WorkerBecomes(StopMoving(worker))

\* The animation has gone through one cycle.
AnimCycle == WorkerBecomes(Queue(worker, "ANIM_CYCLE_FINISHED"))

\* The event loop delivers the first event to its handler, if there is one.
Deliver(adjacent, free) ==
  /\ worker.inbox # <<>>
  /\ LET event == Head(worker.inbox)
         w == [worker EXCEPT !.inbox = Tail(@)]
         r == IF HandlerOf[event] \notin w.handlers THEN Result(w, game)
              ELSE CASE event = "MOTION_END" -> OnMotionEnd(w, game, adjacent, free)
                     [] event = "MOTION_START" -> OnMotionBegin(w, game)
                     [] event = "ANIM_CYCLE_FINISHED" -> OnBuildAnimFinished(w, game)
         heals == /\ event = "ANIM_CYCLE_FINISHED" /\ HandlerOf[event] \in w.handlers
                  /\ Mends(w.target)
     IN  Applies(r, IF heals THEN [hp EXCEPT ![w.target] = Healed(w.target)]
                    ELSE FoundedHp(game, r.game))

HandlersFor(state) ==
  CASE state = "NOT_BUILDING" -> {}
    [] state = "MOVING_TO_TARGET" -> {"on_motion_end"}
    [] state = "BUILDING" -> {"on_motion_begin", "on_build_anim_finished"}

\* The game is saved and loaded, after what is queued has been delivered: a
\* handler is registered for the state, whatever was registered before.
Reload ==
  /\ worker.inbox = <<>>
  /\ \A e \in Entity : game.changed[e] = 0
  /\ worker' = [worker EXCEPT !.handlers = HandlersFor(worker.state)]
  /\ game' = LoadGame(game)
  /\ loaded' = FALSE
  /\ UNCHANGED <<spent, file, adds, saves, hp, zombies, gone, damage, failed>>

BNext ==
  \/ BuildingStep
  \/ \E e \in Entity :
       \/ \E zombie \in BOOLEAN : Demolish(e, zombie)
       \/ Forget(e)
       \/ Hit(e)
       \/ \E adjacent, free \in BOOLEAN :
            ScriptBuild(e, adjacent, free) \/ PlayerBuild(e, adjacent, free)
  \/ \E stopMove \in BOOLEAN : Stop(stopMove)
  \/ Walk \/ Arrive \/ Wait \/ Halt
  \/ AnimCycle
  \/ \E adjacent, free \in BOOLEAN : Deliver(adjacent, free)
  \/ Reload

BSpec == BInit /\ [][BNext]_allVars

\* While the builder stands and builds, its animation goes round and the event
\* loop goes on.
BFairSpec ==
  /\ BSpec
  /\ WF_allVars(worker.inbox = <<>> /\ AnimCycle)
  /\ WF_allVars(\E adjacent, free \in BOOLEAN : Deliver(adjacent, free))
-----------------------------------------------------------------------------
\* The type invariant of the builder.
BTypeOK ==
  /\ TypeOK
  /\ worker \in [state : {"NOT_BUILDING", "MOVING_TO_TARGET", "BUILDING"},
                 target : Entity \union {NoTarget}, handlers : SUBSET Handlers,
                 motion : {"arrived", "waiting", "moving"}, inbox : Seq(Events)]
  /\ hp \in [Buildings -> 0..MaxHp]
  /\ zombies \subseteq gone /\ gone \subseteq Entity
  /\ damage \in 0..MaxDamage /\ failed \in BOOLEAN

\* The handlers that are registered fit the state they assert: who listens for
\* the start of a motion or for the animation is building, and who listens for
\* the end of one is on the way to a target.
HandlersFit ==
  /\ worker.handlers \intersect {"on_motion_begin", "on_build_anim_finished"} # {} =>
       worker.state = "BUILDING" /\ worker.target # NoTarget
  /\ "on_motion_end" \in worker.handlers =>
       worker.state = "MOVING_TO_TARGET" /\ worker.target # NoTarget

\* An order is not lost: a builder that is on its way to a building hears of
\* its arrival, and one that builds hears of its animation.
OrderKept == HandlersFor(worker.state) \subseteq worker.handlers

\* In each stage of an order the handlers registered are exactly those that it
\* waits for, and no others.
HandlersExact == BTypeOK /\ HandlersFit /\ OrderKept

\* Nobody builds what has not been supplied, though the building may be
\* supplied, founded, destroyed and loaded by others while the builder walks.
BuildsSupplied ==
  worker.state = "BUILDING" /\ worker.target \in Active(game) =>
    game.build[worker.target].state >= Supplied

\* No assertion of the handlers fails, nor one in what they call.
NoneFails == ~failed

\* The work on a building comes to an end.
BuildingEnds == worker.state = "BUILDING" ~> worker.state # "BUILDING"
=============================================================================
