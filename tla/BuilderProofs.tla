---------------------------- MODULE BuilderProofs ----------------------------
(* Proofs about the builder, for any number of buildings, resources, events  *)
(* and orders: who builds has a building that is supplied (BuildsSupplied),  *)
(* the handlers that are registered fit the stage of the order               *)
(* (HandlersExact), and no assertion fails (NoneFails).                      *)
EXTENDS Builder, StorageProofs
-----------------------------------------------------------------------------
(* The inductive invariant *)

\* A builder listens for nothing that its state does not wait for; what it is
\* ordered to build has been made once, so that no other building gets its uid;
\* and what it builds is supplied.
Fits(w, g) ==
  /\ w.handlers \subseteq HandlersFor(w.state)
  /\ w.state # "NOT_BUILDING" => w.target \in Buildings \intersect gone
  /\ ~Zombies /\ w.state = "MOVING_TO_TARGET" => w.target \notin zombies
  /\ w.state = "BUILDING" /\ w.target \in Active(g) => g.build[w.target].state >= Supplied

\* A builder listens for all that its state waits for.
Listens(w) == w.handlers = HandlersFor(w.state)

\* A zombie is no entity of the game any more.
GoneOK ==
  /\ Active(game) \subseteq gone
  /\ zombies \subseteq gone /\ zombies \intersect Active(game) = {}

BIInv ==
  /\ IInv /\ BTypeOK
  /\ Fits(worker, game) /\ GoneOK
  /\ ~OrderInMotion /\ ~failed => Listens(worker)
  /\ ~Zombies => NoneFails

States == {"NOT_BUILDING", "MOVING_TO_TARGET", "BUILDING"}
Workers == [state : States, target : Entity \union {NoTarget}, handlers : SUBSET Handlers,
            motion : {"arrived", "waiting", "moving"}, inbox : Seq(Events)]
Hps == [Buildings -> 0..MaxHp]

\* The facts about the builder and its world that are used most.
LEMMA BasicFacts ==
  ASSUME BIInv
  PROVE  /\ worker \in Workers /\ hp \in Hps /\ Sound(game, spent) /\ spent \in Spents
         /\ gone \subseteq Entity /\ Active(game) \subseteq gone /\ zombies \subseteq gone
         /\ zombies \intersect Active(game) = {}
         /\ DOMAIN game.build = Active(game) \intersect Buildings
         /\ damage \in 0..MaxDamage /\ failed \in BOOLEAN
<1>1. TypeOK /\ BTypeOK /\ GoneOK
  BY DEF BIInv, IInv
<1>. QED BY <1>1 DEF BIInv, IInv, TypeOK, BTypeOK, GoneOK, GameOK, Workers, States, Hps, Spents

LEMMA HandlersAre ==
  /\ HandlersFor("NOT_BUILDING") = {}
  /\ HandlersFor("MOVING_TO_TARGET") = {"on_motion_end"}
  /\ HandlersFor("BUILDING") = {"on_motion_begin", "on_build_anim_finished"}
BY DEF HandlersFor
-----------------------------------------------------------------------------
(* Buildings while the builder is busy elsewhere *)

\* Nothing that was gone is there again, and what was supplied stays so.
Forward(g, h) ==
  \A x \in gone : x \in Active(h) =>
    /\ x \in Active(g)
    /\ x \in Buildings /\ g.build[x].state >= Supplied => h.build[x].state >= Supplied

LEMMA ForwardIf ==
  ASSUME NEW g, NEW h, NEW e \in Entity, Apart(g, h, e), gone \subseteq Entity,
         DOMAIN g.build = Active(g) \intersect Buildings,
         e \in gone /\ e \in Active(h) =>
           /\ e \in Active(g)
           /\ e \in Buildings /\ g.build[e].state >= Supplied => h.build[e].state >= Supplied
  PROVE  Forward(g, h)
BY DEF Forward, Apart, Active

\* A building that is found there is one of the game.
LEMMA Building ==
  ASSUME NEW g, NEW s, Sound(g, s), NEW e, e \in DOMAIN g.build
  PROVE  /\ e \in Entity /\ e \in Active(g) /\ e \in Buildings
         /\ g.build[e].state \in Placement..Completed
         /\ UnderWork(g, e) => Owned(g, e)
<1>1. DOMAIN g.build = Active(g) \intersect Buildings /\ g.build \in [DOMAIN g.build -> BuildRecord]
  BY DEF Sound, GameOK
<1>2. e \in Entity /\ e \in Active(g) /\ e \in Buildings
  BY <1>1 DEF Entity
<1>3. UnderWork(g, e) => Owned(g, e)
  BY <1>2, EntityFacts
<1>. QED BY <1>1, <1>2, <1>3 DEF BuildRecord

\* What is done to a building on its way through the stages, as far as the
\* builder can tell.
Reaches(g, h, e, stage) ==
  /\ Works(g, h, e) /\ h.faction = g.faction
  /\ DOMAIN h.build = DOMAIN g.build
  /\ h.build[e].state = stage

LEMMA MarkStages ==
  ASSUME NEW g, NEW s, Sound(g, s), NEW e, e \in DOMAIN g.build, g.build[e].state = Placement
  PROVE  Reaches(g, Mark(g, e), e, Marked)
<1>1. e \in Entity /\ Shape(g) /\ g.build[e] \in BuildRecord
  BY Building, EntityFacts
<1>2. PICK h : h = Mark(g, e)
  OBVIOUS
<1>3. /\ Works(g, h, e) /\ h.faction = g.faction /\ DOMAIN h.build = DOMAIN g.build
      /\ h.build[e] = [g.build[e] EXCEPT !.state = Marked]
  BY <1>1, <1>2, MarkDoes
<1>. QED BY <1>1, <1>2, <1>3 DEF Reaches, BuildRecord

LEMMA FoundStages ==
  ASSUME NEW g, NEW s, Sound(g, s), NEW e, e \in DOMAIN g.build, g.build[e].state = Marked,
         NEW blocking \in BOOLEAN
  PROVE  Reaches(g, Found(g, e, blocking), e, Founded)
<1>1. e \in Entity /\ Shape(g) /\ g.build[e] \in BuildRecord /\ e \in DOMAIN g.pos
  BY Building, EntityFacts
<1>2. UnderWork(g, e) /\ ~IsFounded(g, e)
  BY DEF UnderWork, IsFounded, Marked, Founded, Completed
<1>3. Owned(g, e) /\ SiteOK(g, e) /\ g.site[e] \in SiteRecord
  BY <1>1, <1>2, Building, EntityFacts
<1>4. g.site[e].curr = Zero /\ g.site[e].altCapacity = Zero
  BY <1>1, <1>2, <1>3, HoldsNothing
<1>5. PICK h : h = Found(g, e, blocking)
  OBVIOUS
<1>6. /\ Works(g, h, e) /\ h.faction = g.faction /\ DOMAIN h.build = DOMAIN g.build
      /\ h.build[e] = FoundedAs(g.build[e], blocking, g.pos[e])
  BY <1>1, <1>3, <1>4, <1>5, FoundDoes
<1>7. h.build[e].state = Founded
  BY <1>1, <1>6 DEF FoundedAs, BuildRecord
<1>. QED BY <1>5, <1>6, <1>7 DEF Reaches

LEMMA SupplyStages ==
  ASSUME NEW g, NEW e, Owned(g, e), e \in DOMAIN g.build, g.build[e].state = Founded
  PROVE  Reaches(g, Supply(g, e), e, Supplied)
<1>1. SuppliedFrom(g, Supply(g, e), e)
  BY SupplyDoes
<1>2. g.build[e] \in BuildRecord
  BY DEF Owned, Shape
<1>. QED BY <1>1, <1>2 DEF SuppliedFrom, Reaches, BuildRecord

LEMMA CompleteStages ==
  ASSUME NEW g, NEW e, Owned(g, e), e \in DOMAIN g.build, g.build[e].state = Supplied
  PROVE  Reaches(g, Complete(g, e), e, Completed)
<1>1. CompletedFrom(g, Complete(g, e), e)
  BY CompleteDoes
<1>2. g.build[e] \in BuildRecord
  BY DEF Owned, Shape
<1>. QED BY <1>1, <1>2 DEF CompletedFrom, Reaches, BuildRecord

\* A stage that is not further than supplied is not come to from there, and one
\* that is leaves the building supplied.
LEMMA ReachesForward ==
  ASSUME NEW g, NEW h, NEW e \in Entity, gone \subseteq Entity, NEW stage, Reaches(g, h, e, stage),
         DOMAIN g.build = Active(g) \intersect Buildings,
         stage >= Supplied \/ ~(g.build[e].state >= Supplied)
  PROVE  Forward(g, h) /\ Active(h) = Active(g)
BY ForwardIf DEF Reaches, Works, Active
-----------------------------------------------------------------------------
(* What scripts and events do to the buildings *)

\* An entity that is made has not been there before.
LEMMA CreateForward ==
  ASSUME BIInv, NEW e \in Entity, e \notin gone, NEW p \in Place,
         NEW needs \in [Resource -> Amount], Create(e, p, needs)
  PROVE  Forward(game, game')
<1>1. Sound(game, spent) /\ gone \subseteq Entity /\ Active(game) \subseteq gone
      /\ DOMAIN game.build = Active(game) \intersect Buildings
  BY BasicFacts
<1>2. PICK isSite \in BOOLEAN : isSite = (e \in Sites)
  <2>1. (e \in Sites) \in BOOLEAN
    OBVIOUS
  <2>. QED BY <2>1
<1>3. PICK h : h = AddEntity(game, e, p, isSite)
  OBVIOUS
<1>4. game' = IF e \in Buildings THEN [h EXCEPT !.build[e].required = needs] ELSE h
  BY <1>2, <1>3 DEF Create
<1>5. Shape(game) /\ Absent(game, e)
  BY <1>1, EntityFacts
<1>6. Works(game, h, e)
  BY <1>3, <1>5, AddEntityDoes
<1>7. Apart(game, game', e)
  <2>1. Apart(game, h, e) /\ Shape(h)
    BY <1>6 DEF Works
  <2>2. /\ game'.site = h.site /\ game'.faction = h.faction /\ game'.pos = h.pos
        /\ game'.listening = h.listening /\ game'.changed = h.changed
        /\ DOMAIN game'.build = DOMAIN h.build
        /\ \A x \in Entity \ {e} : x \in DOMAIN h.build => game'.build[x] = h.build[x]
    BY <1>4, <2>1 DEF Shape, IsGame, Fields
  <2>. QED BY <2>1, <2>2 DEF Apart
<1>. QED BY <1>1, <1>7, ForwardIf

\* An entity that is removed is not there any more, and the others are.
LEMMA DestroyForward ==
  ASSUME BIInv, NEW e \in Entity, Destroy(e)
  PROVE  Forward(game, game') /\ e \notin Active(game') /\ Active(game') \subseteq Active(game)
<1>1. Sound(game, spent) /\ gone \subseteq Entity
      /\ DOMAIN game.build = Active(game) \intersect Buildings /\ Active(game) \subseteq Entity
  BY BasicFacts
<1>2. game' = RemoveEntity(game, e)
  BY DEF Destroy, Becomes
<1>3. Shape(game) /\ Placed(game, e) /\ (e \in DOMAIN game.build => BuildOK(game, e))
  BY <1>1, EntityFacts
<1>4. PICK h : h = RemoveEntity(game, e)
  OBVIOUS
<1>5. Works(game, h, e) /\ Absent(h, e)
  BY <1>3, <1>4, RemoveEntityDoes
<1>6. Apart(game, h, e) /\ Shape(h) /\ e \notin Active(h)
  BY <1>5 DEF Works, Absent, Active
<1>7. Active(h) \subseteq Active(game)
  BY <1>6 DEF Apart, Active, Shape
<1>8. Forward(game, h)
  BY <1>1, <1>6, ForwardIf
<1>. QED BY <1>2, <1>4, <1>6, <1>7, <1>8

\* What is stored leaves the stages of the buildings alone.
LEMMA StoreForward ==
  ASSUME BIInv, NEW e \in Entity, NEW r \in Resource, NEW n \in Amount, Store(e, r, n)
  PROVE  Forward(game, game')
<1>1. Shape(game)
  BY BasicFacts, SoundShape
<1>2. game' = SetCurr(game, e, r, n) /\ CurrAllowed(game, e, r, n)
  BY DEF Store, Becomes
<1>3. game'.build = game.build /\ game'.faction = game.faction
  BY <1>1, <1>2 DEF SetCurr, UpdateRes, Shape, IsGame, Fields
<1>. QED BY <1>3 DEF Forward, Active

\* The events deliver that an amount has changed, upon which a building may be
\* supplied.
LEMMA DeliveredForward ==
  ASSUME BIInv, NEW e \in Entity, OnAmountChanged(e)
  PROVE  Forward(game, game') /\ Active(game') = Active(game)
<1>1. Sound(game, spent) /\ gone \subseteq Entity
      /\ DOMAIN game.build = Active(game) \intersect Buildings
  BY BasicFacts
<1>2. PICK m : m = [game EXCEPT !.changed[e] = @ - 1]
  OBVIOUS
<1>3. game' = IF e \in m.listening /\ IsSaturated(m, e) THEN Supply(m, e) ELSE m
  BY <1>2 DEF OnAmountChanged, Supplies
<1>4. Shape(game) /\ Placed(game, e) /\ (e \in DOMAIN game.build => BuildOK(game, e))
  BY <1>1, EntityFacts
<1>5. /\ IsGame(m) /\ m.changed = [game.changed EXCEPT ![e] = @ - 1]
      /\ m.site = game.site /\ m.build = game.build /\ m.faction = game.faction /\ m.pos = game.pos
      /\ m.listening = game.listening /\ m.blockers = game.blockers
      /\ m.res = game.res /\ m.cap = game.cap
  BY <1>2, <1>4 DEF Shape, IsGame, Fields
<1>6. Forward(game, m) /\ Active(m) = Active(game)
  BY <1>5 DEF Forward, Active
<1>7. CASE e \in m.listening /\ IsSaturated(m, e)
  <2>1. e \in DOMAIN game.build /\ game.build[e].state = Founded
    BY <1>4, <1>5, <1>7 DEF Placed, BuildOK
  <2>2. Owned(game, e)
    BY <1>1, <2>1, Building DEF UnderWork, Founded, Completed
  <2>3. game.changed[e] > 0
    BY DEF OnAmountChanged
  <2>4. m.changed \in [Entity -> Nat]
    <3>1. game.changed \in [Entity -> Nat]
      BY <1>4 DEF Shape
    <3>2. game.changed[e] - 1 \in Nat
      BY <2>3, <3>1
    <3>. QED BY <1>5, <3>1, <3>2
  <2>5. Owned(m, e)
    BY <1>5, <2>2, <2>4 DEF Owned, Shape
  <2>6. PICK h : h = Supply(m, e)
    OBVIOUS
  <2>7. Reaches(m, h, e, Supplied)
    BY <1>5, <2>1, <2>5, <2>6, SupplyStages
  <2>8. Forward(m, h) /\ Active(h) = Active(m)
    <3>1. DOMAIN m.build = Active(m) \intersect Buildings
      BY <1>1, <1>5, <1>6
    <3>2. Supplied >= Supplied
      BY DEF Supplied
    <3>. QED BY <1>1, <2>7, <3>1, <3>2, ReachesForward
  <2>9. Forward(game, h)
    BY <1>5, <1>6, <2>8 DEF Forward, Active
  <2>. QED BY <1>3, <1>6, <1>7, <2>6, <2>8, <2>9
<1>8. CASE ~(e \in m.listening /\ IsSaturated(m, e))
  BY <1>3, <1>6, <1>8
<1>. QED BY <1>7, <1>8
-----------------------------------------------------------------------------
(* Steps of all kinds keep the inductive invariant *)

\* The parts of it that are not Storage's.
LEMMA Together ==
  ASSUME IInv', worker' \in Workers, hp' \in Hps, damage' \in 0..MaxDamage, failed' \in BOOLEAN,
         zombies' \subseteq gone', gone' \subseteq Entity, Active(game') \subseteq gone',
         zombies' \intersect Active(game') = {}, Fits(worker, game)',
         ~OrderInMotion /\ ~failed' => Listens(worker'), ~Zombies => ~failed'
  PROVE  BIInv'
<1>1. TypeOK'
  BY DEF IInv
<1>2. BTypeOK'
  BY <1>1 DEF BTypeOK, Workers, States, Hps
<1>3. GoneOK' /\ (~Zombies => NoneFails')
  BY DEF GoneOK, NoneFails
<1>4. ~OrderInMotion /\ ~failed' => Listens(worker)'
  BY DEF Listens
<1>. QED BY <1>2, <1>3, <1>4 DEF BIInv

\* The hit points of buildings that are founded are within bounds.
LEMMA FoundedHps ==
  ASSUME BIInv, NEW g, NEW h
  PROVE  FoundedHp(g, h) \in Hps
<1>1. hp \in Hps
  BY BasicFacts
<1>2. MaxHp \in Nat
  BY BuilderAssumption
<1>3. MaxHp \div 10 \in 0..MaxHp
  BY <1>2
<1>. QED BY <1>1, <1>3 DEF FoundedHp, Hps

\* A builder that goes on with something else, and changes nothing else.
LEMMA WorkerStep ==
  ASSUME BIInv, NEW w \in Workers, WorkerBecomes(w), Fits(w, game),
         ~OrderInMotion /\ ~failed => Listens(w)
  PROVE  BIInv'
<1>1. /\ worker' = w /\ hp' = hp /\ zombies' = zombies /\ gone' = gone /\ damage' = damage
      /\ failed' = failed /\ game' = game /\ UNCHANGED vars
  BY DEF WorkerBecomes, vars
<1>2. IInv'
  <2>1. /\ spent' = spent /\ file' = file /\ adds' = adds
        /\ saves' = saves /\ loaded' = loaded
    BY <1>1 DEF vars
  <2>. QED BY <1>1, <2>1 DEF BIInv, IInv, TypeOK, LoadRestores
<1>3. Fits(worker, game)' /\ (~OrderInMotion /\ ~failed' => Listens(worker'))
  BY <1>1 DEF Fits
<1>4. ~Zombies => ~failed'
  BY <1>1 DEF BIInv, NoneFails
<1>. QED BY <1>1, <1>2, <1>3, <1>4, BasicFacts, Together

\* What a handler or an order may leave: a builder that fits, and a game with
\* the same entities, in which what was used up is spent.
GameGoes(h) ==
  Sound(h, SpentBy(game, h)) /\ SpentBy(game, h) \in Spents /\ Active(h) = Active(game)

Good(r) ==
  /\ r.worker \in Workers /\ Fits(r.worker, r.game)
  /\ r.failed \in BOOLEAN
  /\ ~OrderInMotion /\ ~failed /\ ~r.failed => Listens(r.worker)
  /\ ~Zombies => ~r.failed
  /\ GameGoes(r.game)

LEMMA AppliesStep ==
  ASSUME BIInv, NEW r, Good(r), NEW newHp \in Hps, Applies(r, newHp)
  PROVE  BIInv'
<1>1. /\ worker' = r.worker /\ Supplies(r.game) /\ failed' = (failed \/ r.failed)
      /\ hp' = newHp /\ zombies' = zombies /\ gone' = gone /\ damage' = damage
  BY DEF Applies
<1>2. game' = r.game
  BY <1>1 DEF Supplies
<1>3. IInv'
  BY <1>1, SuppliesStep DEF BIInv, Good, GameGoes
<1>4. Fits(worker, game)'
  BY <1>1, <1>2 DEF Good, Fits
<1>5. /\ ~OrderInMotion /\ ~failed' => Listens(worker')
      /\ ~Zombies => ~failed'
      /\ failed' \in BOOLEAN
  BY <1>1, BasicFacts DEF Good, BIInv, NoneFails
<1>6. Active(game') = Active(game)
  BY <1>2 DEF Good, GameGoes
<1>. QED BY <1>1, <1>3, <1>4, <1>5, <1>6, BasicFacts, Together DEF Good

\* The game stays as it is.
LEMMA GameStays ==
  ASSUME BIInv
  PROVE  GameGoes(game)
<1>1. Sound(game, spent) /\ spent \in Spents
  BY BasicFacts
<1>2. Used(game, game) = {}
  BY DEF Used, Founded, Supplied
<1>. QED BY <1>1, <1>2, NothingSpent DEF GameGoes

LEMMA ResultIs ==
  ASSUME NEW w, NEW g
  PROVE  Result(w, g).worker = w /\ Result(w, g).game = g /\ Result(w, g).failed = FALSE
BY DEF Result
-----------------------------------------------------------------------------
(* The buildings on their own *)

\* They change no stage the builder relies on, and what is new was not there.
LEMMA BuildingsForward ==
  ASSUME BIInv, BuildingStep
  PROVE  IInv' /\ Forward(game, game')
<1> DEFINE Made(e) == \E p \in Place, needs \in [Resource -> Amount] :
                        e \notin gone /\ Create(e, p, needs)
           Stored(e) == \E r \in Resource, n \in Amount : Store(e, r, n)
           Begun(e) == \E blocking \in BOOLEAN : ScriptFound(e, blocking)
<1>1. PICK e \in Entity : \/ Made(e) \/ Stored(e) \/ ScriptMark(e) \/ Begun(e)
                          \/ ScriptSupply(e) \/ ScriptComplete(e) \/ OnAmountChanged(e)
  BY DEF BuildingStep
<1>2. IInv'
  <2>1. IInv
    BY DEF BIInv
  <2>. QED BY <1>1, <2>1, CallStep
<1>3. Sound(game, spent) /\ gone \subseteq Entity
      /\ DOMAIN game.build = Active(game) \intersect Buildings
  BY BasicFacts
<1>4. CASE Made(e)
  BY <1>2, <1>4, CreateForward
<1>5. CASE Stored(e)
  BY <1>2, <1>5, StoreForward
<1>6. CASE ScriptMark(e)
  <2>1. /\ e \in DOMAIN game.build /\ game.build[e].state = Placement
        /\ game' = Mark(game, e)
    BY <1>6 DEF ScriptMark, Becomes
  <2>2. Reaches(game, game', e, Marked)
    BY <1>3, <2>1, MarkStages
  <2>3. ~(game.build[e].state >= Supplied)
    BY <2>1 DEF Placement, Supplied
  <2>. QED BY <1>2, <1>3, <2>2, <2>3, ReachesForward
<1>7. CASE Begun(e)
  <2>1. PICK blocking \in BOOLEAN : ScriptFound(e, blocking)
    BY <1>7
  <2>2. /\ e \in DOMAIN game.build /\ game.build[e].state = Marked
        /\ game' = Found(game, e, blocking)
    BY <2>1 DEF ScriptFound, Becomes
  <2>3. Reaches(game, game', e, Founded)
    BY <1>3, <2>2, FoundStages
  <2>4. ~(game.build[e].state >= Supplied)
    BY <2>2 DEF Marked, Supplied
  <2>. QED BY <1>2, <1>3, <2>3, <2>4, ReachesForward
<1>8. CASE ScriptSupply(e)
  <2>1. /\ e \in DOMAIN game.build /\ game.build[e].state = Founded
        /\ game' = Supply(game, e)
    BY <1>8 DEF ScriptSupply, Supplies
  <2>2. Owned(game, e)
    BY <1>3, <2>1, Building DEF UnderWork, Founded, Completed
  <2>3. Reaches(game, game', e, Supplied)
    BY <2>1, <2>2, SupplyStages
  <2>4. Supplied >= Supplied
    BY DEF Supplied
  <2>. QED BY <1>2, <1>3, <2>3, <2>4, ReachesForward
<1>9. CASE ScriptComplete(e)
  <2>1. /\ e \in DOMAIN game.build /\ game.build[e].state = Supplied
        /\ game' = Complete(game, e)
    BY <1>9 DEF ScriptComplete, Becomes
  <2>2. Owned(game, e)
    BY <1>3, <2>1, Building DEF UnderWork, Supplied, Completed
  <2>3. Reaches(game, game', e, Completed)
    BY <2>1, <2>2, CompleteStages
  <2>4. Completed >= Supplied
    BY DEF Completed, Supplied
  <2>. QED BY <1>2, <1>3, <2>3, <2>4, ReachesForward
<1>10. CASE OnAmountChanged(e)
  BY <1>2, <1>10, DeliveredForward
<1> HIDE DEF Made, Stored, Begun
<1>. QED BY <1>1, <1>2, <1>4, <1>5, <1>6, <1>7, <1>8, <1>9, <1>10

LEMMA BuildingKeeps ==
  ASSUME BIInv, BuildingStep
  PROVE  BIInv'
<1>1. /\ gone' = gone \union Active(game') /\ hp' = FoundedHp(game, game')
      /\ UNCHANGED <<worker, zombies, damage, failed>>
  BY DEF BuildingStep
<1>2. IInv' /\ Forward(game, game')
  BY BuildingsForward
<1>3. /\ worker \in Workers /\ gone \subseteq Entity /\ zombies \subseteq gone
      /\ zombies \intersect Active(game) = {}
      /\ damage \in 0..MaxDamage /\ failed \in BOOLEAN
  BY BasicFacts
<1>4. Active(game') \subseteq Entity
  BY <1>2 DEF IInv, TypeOK, GameOK
<1>5. zombies' \intersect Active(game') = {}
  BY <1>1, <1>2, <1>3 DEF Forward
<1>6. Fits(worker, game)'
  <2>1. Fits(worker, game)
    BY DEF BIInv
  <2>2. worker.state = "BUILDING" /\ worker.target \in Active(game') =>
          game'.build[worker.target].state >= Supplied
    BY <1>2, <2>1 DEF Fits, Forward
  <2>. QED BY <1>1, <2>1, <2>2 DEF Fits
<1>7. (~OrderInMotion /\ ~failed' => Listens(worker')) /\ (~Zombies => ~failed')
  BY <1>1 DEF BIInv, NoneFails
<1>8. hp' \in Hps
  BY <1>1, FoundedHps
<1>. QED BY <1>1, <1>2, <1>3, <1>4, <1>5, <1>6, <1>7, <1>8, Together

\* A building that is destroyed may stay as a zombie, unless the builder is on
\* its way to it.
LEMMA DemolishKeeps ==
  ASSUME BIInv, NEW e \in Entity, NEW zombie \in BOOLEAN, Demolish(e, zombie)
  PROVE  BIInv'
<1>1. /\ e \in Active(game) /\ Destroy(e)
      /\ zombie => Zombies \/ worker.target # e \/ worker.state # "MOVING_TO_TARGET"
      /\ zombies' = IF zombie THEN zombies \union {e} ELSE zombies
      /\ UNCHANGED <<worker, hp, gone, damage, failed>>
  BY DEF Demolish
<1>2. IInv'
  BY <1>1, CallStep DEF BIInv
<1>3. /\ Forward(game, game') /\ e \notin Active(game') /\ Active(game') \subseteq Active(game)
  BY <1>1, DestroyForward
<1>4. /\ worker \in Workers /\ hp \in Hps /\ gone \subseteq Entity /\ zombies \subseteq gone
      /\ zombies \intersect Active(game) = {} /\ Active(game) \subseteq gone
      /\ damage \in 0..MaxDamage /\ failed \in BOOLEAN
  BY BasicFacts
<1>5. zombies' \intersect Active(game') = {} /\ zombies' \subseteq gone
  BY <1>1, <1>3, <1>4
<1>6. Fits(worker, game)'
  <2>1. Fits(worker, game)
    BY DEF BIInv
  <2>2. worker.state = "BUILDING" /\ worker.target \in Active(game') =>
          game'.build[worker.target].state >= Supplied
    BY <1>3, <2>1 DEF Fits, Forward
  <2>3. ~Zombies /\ worker.state = "MOVING_TO_TARGET" => worker.target \notin zombies'
    BY <1>1, <2>1 DEF Fits
  <2>. QED BY <1>1, <2>1, <2>2, <2>3 DEF Fits
<1>7. (~OrderInMotion /\ ~failed' => Listens(worker')) /\ (~Zombies => ~failed')
  BY <1>1 DEF BIInv, NoneFails
<1>. QED BY <1>1, <1>2, <1>3, <1>4, <1>5, <1>6, <1>7, Together
-----------------------------------------------------------------------------
(* The handlers of the builder *)

\* The fields of a builder that a handler has changed.
LEMMA WorkersAre ==
  ASSUME NEW w \in Workers
  PROVE  /\ NotBuilding(w) \in Workers /\ NotBuilding(w).state = "NOT_BUILDING"
         /\ NotBuilding(w).handlers = w.handlers /\ NotBuilding(w).target = w.target
         /\ GiveUp(w) \in Workers /\ GiveUp(w).state = "NOT_BUILDING"
         /\ GiveUp(w).handlers = w.handlers
         /\ FinishBuilding(w) \in Workers /\ FinishBuilding(w).state = "NOT_BUILDING"
         /\ FinishBuilding(w).handlers = {}
         /\ StartBuilding(w) \in Workers /\ StartBuilding(w).state = "BUILDING"
         /\ StartBuilding(w).target = w.target
         /\ StartBuilding(w).handlers =
              w.handlers \union {"on_motion_begin", "on_build_anim_finished"}
         /\ \A H : H \subseteq w.handlers =>
              LET v == [w EXCEPT !.handlers = H]
              IN  v \in Workers /\ v.handlers = H /\ v.state = w.state /\ v.target = w.target
<1> USE DEF Workers, States, Handlers
<1>1. NotBuilding(w) \in Workers /\ NotBuilding(w).state = "NOT_BUILDING"
      /\ NotBuilding(w).handlers = w.handlers /\ NotBuilding(w).target = w.target
  BY DEF NotBuilding
<1>2. GiveUp(w) \in Workers /\ GiveUp(w).state = "NOT_BUILDING" /\ GiveUp(w).handlers = w.handlers
  BY DEF NotBuilding, GiveUp
<1>3. FinishBuilding(w) \in Workers /\ FinishBuilding(w).state = "NOT_BUILDING"
      /\ FinishBuilding(w).handlers = {}
  BY DEF NotBuilding, GiveUp, FinishBuilding
<1>4. StartBuilding(w) \in Workers /\ StartBuilding(w).state = "BUILDING"
      /\ StartBuilding(w).target = w.target
      /\ StartBuilding(w).handlers =
           w.handlers \union {"on_motion_begin", "on_build_anim_finished"}
  BY DEF StartBuilding
<1>5. ASSUME NEW H, H \subseteq w.handlers
      PROVE  LET v == [w EXCEPT !.handlers = H]
             IN  v \in Workers /\ v.handlers = H /\ v.state = w.state /\ v.target = w.target
  BY <1>5
<1>. QED BY <1>1, <1>2, <1>3, <1>4, <1>5

\* A builder that has given up, or was told to stop.
LEMMA IdleFits ==
  ASSUME NEW w, NEW g, w.state = "NOT_BUILDING", w.handlers = {}
  PROVE  Fits(w, g) /\ Listens(w)
BY HandlersAre DEF Fits, Listens

\* The building is founded, if it is marked and may be; or nothing is done.
Prepared(g, e) == g = game \/ (game.build[e].state = Marked /\ g = Found(game, e, TRUE))

LEMMA FoundsGame ==
  ASSUME BIInv, NEW e, e \in DOMAIN game.build, NEW g, Prepared(g, e)
  PROVE  /\ Sound(g, spent) /\ GameGoes(g) /\ DOMAIN g.build = DOMAIN game.build
         /\ \A x \in DOMAIN game.build \ {e} : g.build[x] = game.build[x]
         /\ g = game \/ (game.build[e].state = Marked /\ g.build[e].state = Founded)
<1>1. Sound(game, spent) /\ spent \in Spents
  BY BasicFacts
<1>2. CASE g = game
  BY <1>1, <1>2, GameStays
<1>3. CASE g # game
  <2>1. g = Found(game, e, TRUE) /\ game.build[e].state = Marked
    BY <1>3 DEF Prepared
  <2>2. e \in Entity /\ TRUE \in BOOLEAN
    BY <1>1, Building
  <2>3. Sound(g, spent)
    BY <1>1, <2>1, <2>2, FoundSound
  <2>4. Reaches(game, g, e, Founded)
    BY <1>1, <2>1, <2>2, FoundStages
  <2>5. Shape(game) /\ Apart(game, g, e) /\ Shape(g)
    BY <1>1, <2>4, SoundShape DEF Reaches, Works
  <2>6. Used(game, g) = {}
    <3>1. Used(game, g) \subseteq {e} /\ (e \in Used(game, g) => game.build[e].state = Founded)
      BY <2>2, <2>5, UsedApart
    <3>2. game.build[e].state = Marked
      BY <2>1, Zenon
    <3>3. game.build[e].state # Founded
      BY <3>2 DEF Marked, Founded
    <3>. QED BY <3>1, <3>3, Zenon
  <2>7. SpentBy(game, g) = spent
    BY <1>1, <2>6, NothingSpent
  <2>8. /\ DOMAIN g.build = DOMAIN game.build
        /\ \A x \in DOMAIN game.build \ {e} : g.build[x] = game.build[x]
    BY <2>4, <2>5 DEF Reaches, Apart, Shape
  <2>. QED BY <1>1, <2>1, <2>3, <2>4, <2>7, <2>8 DEF GameGoes, Reaches, Active
<1>. QED BY <1>2, <1>3

\* A building that was just founded has been brought nothing; one that was
\* founded before is supplied with what it has.
LEMMA SuppliesGame ==
  ASSUME BIInv, NEW e, e \in DOMAIN game.build, NEW g, Prepared(g, e),
         g.build[e].state = Founded,
         NEW h, h = Supply(g, e)
  PROVE  GameGoes(h) /\ h.build[e].state = Supplied
<1>1. Sound(game, spent) /\ spent \in Spents
  BY BasicFacts
<1>2. e \in Entity
  BY <1>1, Building
<1>3. /\ Sound(g, spent) /\ GameGoes(g) /\ DOMAIN g.build = DOMAIN game.build
      /\ \A x \in DOMAIN game.build \ {e} : g.build[x] = game.build[x]
      /\ g = game \/ game.build[e].state = Marked
  BY FoundsGame
<1>4. PICK n \in Nat : n = g.changed[e]
  <2>1. Shape(g)
    BY <1>3, SoundShape
  <2>. QED BY <1>2, <2>1 DEF Shape
<1>5. PICK m : m = [g EXCEPT !.changed = [g.changed EXCEPT ![e] = n]]
  OBVIOUS
<1>6. m = g
  <2>1. Shape(g)
    BY <1>3, SoundShape
  <2>2. [g.changed EXCEPT ![e] = n] = g.changed
    BY <1>4, <2>1 DEF Shape
  <2>3. m = [g EXCEPT !.changed = g.changed]
    BY <1>5, <2>2
  <2>. QED BY <2>1, <2>3 DEF Shape, IsGame, Fields
<1>7. Sound(Supply(m, e), SpentBy(g, Supply(m, e))) /\ SpentBy(g, Supply(m, e)) \in Spents
  BY <1>1, <1>2, <1>3, <1>5, SupplySound
<1>8. Sound(h, SpentBy(g, h)) /\ SpentBy(g, h) \in Spents
  BY <1>6, <1>7
<1>9. Owned(g, e)
  <2>1. e \in DOMAIN g.build
    BY <1>3
  <2>2. UnderWork(g, e)
    BY <2>1 DEF UnderWork, Founded, Completed
  <2>. QED BY <1>3, <2>1, <2>2, Building
<1>10. Reaches(g, h, e, Supplied)
  BY <1>3, <1>9, SupplyStages
<1>11. Active(h) = Active(game) /\ h.build[e].state = Supplied
  BY <1>3, <1>10 DEF Reaches, Active, GameGoes
<1>12. CASE g = game
  BY <1>8, <1>11, <1>12 DEF GameGoes
<1>13. CASE game.build[e].state = Marked
  <2>1. Used(g, h) = {e}
    <3>1. Shape(g) /\ Apart(g, h, e)
      BY <1>3, <1>10, SoundShape DEF Reaches, Works
    <3>2. e \in DOMAIN g.build
      BY <1>3
    <3>3. e \in Active(g)
      BY <1>3, <3>2, Building
    <3>. QED BY <1>2, <1>11, <3>1, <3>2, <3>3, UsedApart
  <2>2. g.site[e].curr = Zero
    <3>1. UnderWork(game, e) /\ ~IsFounded(game, e)
      BY <1>13 DEF UnderWork, IsFounded, Marked, Founded, Completed
    <3>2. SiteOK(game, e) /\ Owned(game, e) /\ game.site[e] \in SiteRecord
      BY <1>1, <1>2, <3>1, EntityFacts
    <3>3. game.site[e].curr = Zero /\ game.site[e].altCapacity = Zero
      BY <1>2, <3>1, <3>2, HoldsNothing
    <3>4. g = Found(game, e, TRUE)
      <4>1. g # game
        BY <1>13 DEF Marked, Founded
      <4>. QED BY <4>1 DEF Prepared
    <3>5. e \in DOMAIN game.pos /\ TRUE \in BOOLEAN
      BY <1>1, <1>2, EntityFacts
    <3>6. PICK h1 : h1 = Found(game, e, TRUE)
      OBVIOUS
    <3>7. SameSite(game.site[e], h1.site[e], {"altCapacity", "altDesired"})
      BY <1>13, <3>2, <3>3, <3>5, <3>6, FoundDoes
    <3>. QED BY <3>3, <3>4, <3>6, <3>7 DEF SameSite
  <2>3. \A f \in Faction, r \in Resource : SpentBy(g, h)[f][r] = spent[f][r]
    <3>1. \A r \in Resource : g.site[e].curr[r] = 0
      BY <2>2, Tables
    <3>2. \A f \in Faction, r \in Resource :
            SpentBy(g, h)[f][r] = spent[f][r] + (IF f = Owner(g, e) THEN g.site[e].curr[r] ELSE 0)
      BY <1>1, <1>9, <2>1, OneSpent
    <3>3. \A f \in Faction, r \in Resource : spent[f][r] \in Nat
      BY <1>1 DEF Spents
    <3>. QED BY <3>1, <3>2, <3>3
  <2>4. SpentBy(g, h) = spent
    BY <1>1, <1>8, <2>3 DEF Spents
  <2>5. Used(game, h) = {}
    <3>1. ASSUME NEW x \in Used(game, h) PROVE FALSE
      <4>1. x # e /\ x \in DOMAIN game.build /\ game.build[x].state = Founded
            /\ h.build[x].state = Supplied
        BY <1>13, <3>1 DEF Used, Marked, Founded
      <4>2. x \in Entity /\ x \in DOMAIN g.build
        BY <1>1, <1>3, <4>1, Building
      <4>3. g.build[x] = game.build[x]
        BY <1>3, <4>1
      <4>4. h.build[x] = g.build[x]
        BY <1>10, <4>1, <4>2 DEF Reaches, Works, Apart
      <4>. QED BY <4>1, <4>3, <4>4 DEF Founded, Supplied
    <3>. QED BY <3>1
  <2>6. SpentBy(game, h) = spent
    BY <1>1, <2>5, NothingSpent
  <2>. QED BY <1>8, <1>11, <2>4, <2>6 DEF GameGoes
<1>. QED BY <1>3, <1>12, <1>13

\* The stage of the building after what the arriving builder has done to it.
LEMMA PreparedState ==
  ASSUME BIInv, NEW e, e \in DOMAIN game.build, NEW g, Prepared(g, e)
  PROVE  e \in DOMAIN g.build /\ g.build[e].state \in Placement..Completed /\ GameGoes(g)
<1>1. Sound(g, spent) /\ GameGoes(g) /\ DOMAIN g.build = DOMAIN game.build
  BY FoundsGame
<1>. QED BY <1>1, Building

\* The builder has arrived, or has only come to wait.
ArrivalFits(w) ==
  /\ w.state = "MOVING_TO_TARGET" /\ w.handlers \subseteq {"on_motion_end"}
  /\ w.target \in Buildings \intersect gone
  /\ ~Zombies => w.target \notin zombies
  /\ ~OrderInMotion /\ ~failed /\ ~Still(w) => w.handlers = {"on_motion_end"}

\* What on_motion_end comes to, branch by branch.
Arrives(r, w, v, f, s, e) ==
  \/ ~Still(w) /\ r = Result(w, game)
  \/ r = Result(GiveUp(v), game)
  \/ e \in zombies /\ r = [Result(v, game) EXCEPT !.failed = TRUE]
  \/ /\ e \in Active(game) /\ ~(f.build[e].state < Founded)
     /\ \/ s.build[e].state < Supplied /\ r = Result(NotBuilding(v), s)
        \/ ~(s.build[e].state < Supplied) /\ r = Result(StartBuilding(v), s)

LEMMA MotionEndIs ==
  ASSUME NEW w, NEW adjacent \in BOOLEAN, NEW free \in BOOLEAN,
         NEW e, e = w.target, NEW v, v = [w EXCEPT !.handlers = @ \ {"on_motion_end"}],
         NEW f, f = IF game.build[e].state < Founded /\ free THEN Found(game, e, TRUE) ELSE game,
         NEW s, s = IF f.build[e].state < Supplied /\ IsSaturated(f, e) THEN Supply(f, e) ELSE f
  PROVE  Arrives(OnMotionEnd(w, game, adjacent, free), w, v, f, s, e)
BY Zenon DEF OnMotionEnd, Arrives, Exists

\* Work that is begun, or waits for materials, on a building that is founded.
LEMMA WorkBegins ==
  ASSUME BIInv, NEW e, e \in Active(game) \intersect Buildings, NEW f, Prepared(f, e),
         NEW s, s = f \/ (f.build[e].state < Supplied /\ s = Supply(f, e)),
         ~(f.build[e].state < Founded)
  PROVE  GameGoes(s) /\ (~(s.build[e].state < Supplied) => s.build[e].state >= Supplied)
<1>1. e \in DOMAIN game.build
  BY BasicFacts
<1>2. f.build[e].state \in Placement..Completed /\ GameGoes(f)
  BY <1>1, PreparedState
<1>3. CASE s = f
  BY <1>2, <1>3 DEF Placement, Completed, Supplied
<1>4. CASE f.build[e].state < Supplied /\ s = Supply(f, e)
  <2>1. f.build[e].state = Founded
    BY <1>2, <1>4 DEF Placement, Completed, Supplied, Founded
  <2>2. GameGoes(s) /\ s.build[e].state = Supplied
    BY <1>1, <1>4, <2>1, SuppliesGame
  <2>. QED BY <2>2 DEF Supplied
<1>. QED BY <1>3, <1>4

\* A builder that has arrived founds, supplies, starts to build or gives up, and
\* is then in order, as is the game.
LEMMA MotionEndGood ==
  ASSUME BIInv, NEW w \in Workers, ArrivalFits(w), NEW adjacent \in BOOLEAN, NEW free \in BOOLEAN
  PROVE  Good(OnMotionEnd(w, game, adjacent, free))
<1>1. PICK e : e = w.target
  OBVIOUS
<1>2. PICK v : v = [w EXCEPT !.handlers = @ \ {"on_motion_end"}]
  OBVIOUS
<1>3. PICK f : f = IF game.build[e].state < Founded /\ free THEN Found(game, e, TRUE) ELSE game
  OBVIOUS
<1>4. PICK s : s = IF f.build[e].state < Supplied /\ IsSaturated(f, e) THEN Supply(f, e) ELSE f
  OBVIOUS
<1>5. PICK r : r = OnMotionEnd(w, game, adjacent, free)
  OBVIOUS
<1>. SUFFICES Good(r)
  BY <1>5
<1>6. Arrives(r, w, v, f, s, e)
  BY <1>1, <1>2, <1>3, <1>4, <1>5, MotionEndIs
<1>7. Prepared(f, e)
  <2>1. game.build[e].state # Marked => Found(game, e, TRUE) = game
    BY Zenon DEF Found
  <2>. QED BY <1>3, <2>1, Zenon DEF Prepared
<1>8. s = f \/ (f.build[e].state < Supplied /\ s = Supply(f, e))
  BY <1>4, Zenon
<1>9. e \in Buildings /\ e \in gone /\ w.handlers \subseteq {"on_motion_end"}
      /\ w.state = "MOVING_TO_TARGET" /\ (~Zombies => e \notin zombies)
  BY <1>1 DEF ArrivalFits
<1>10. v \in Workers /\ v.handlers = {} /\ v.state = w.state /\ v.target = e
  <2>1. PICK H : H = w.handlers \ {"on_motion_end"}
    OBVIOUS
  <2>2. H \subseteq w.handlers /\ H = {} /\ v = [w EXCEPT !.handlers = H]
    BY <1>2, <1>9, <2>1
  <2>. QED BY <1>1, <2>2, WorkersAre
<1>11. CASE ~Still(w) /\ r = Result(w, game)
  <2>1. r.worker = w /\ r.game = game /\ r.failed = FALSE
    BY <1>11, ResultIs
  <2>2. ~OrderInMotion /\ ~failed => Listens(w)
    BY <1>9, <1>11, HandlersAre DEF ArrivalFits, Listens
  <2>3. Fits(w, game)
    BY <1>1, <1>9, HandlersAre DEF Fits
  <2>. QED BY <2>1, <2>2, <2>3, GameStays DEF Good
<1>12. CASE r = Result(GiveUp(v), game)
  <2>1. r.worker = GiveUp(v) /\ r.game = game /\ r.failed = FALSE
    BY <1>12, ResultIs
  <2>2. GiveUp(v) \in Workers /\ GiveUp(v).state = "NOT_BUILDING" /\ GiveUp(v).handlers = {}
    BY <1>10, WorkersAre
  <2>3. Fits(GiveUp(v), game) /\ Listens(GiveUp(v))
    BY <2>2, IdleFits
  <2>. QED BY <2>1, <2>2, <2>3, GameStays DEF Good
<1>13. CASE e \in zombies /\ r = [Result(v, game) EXCEPT !.failed = TRUE]
  <2>1. r.worker = v /\ r.game = game /\ r.failed = TRUE
    BY <1>13 DEF Result
  <2>2. Zombies
    BY <1>9, <1>13
  <2>3. Fits(v, game)
    BY <1>9, <1>10, <2>2, HandlersAre DEF Fits
  <2>. QED BY <1>10, <2>1, <2>2, <2>3, GameStays DEF Good
<1>14. CASE /\ e \in Active(game) /\ ~(f.build[e].state < Founded)
            /\ \/ s.build[e].state < Supplied /\ r = Result(NotBuilding(v), s)
               \/ ~(s.build[e].state < Supplied) /\ r = Result(StartBuilding(v), s)
  <2>1. GameGoes(s) /\ (~(s.build[e].state < Supplied) => s.build[e].state >= Supplied)
    BY <1>7, <1>8, <1>9, <1>14, WorkBegins
  <2>2. CASE r = Result(NotBuilding(v), s)
    <3>1. r.worker = NotBuilding(v) /\ r.game = s /\ r.failed = FALSE
      BY <2>2, ResultIs
    <3>2. /\ NotBuilding(v) \in Workers /\ NotBuilding(v).state = "NOT_BUILDING"
          /\ NotBuilding(v).handlers = {}
      BY <1>10, WorkersAre
    <3>3. Fits(NotBuilding(v), s) /\ Listens(NotBuilding(v))
      BY <3>2, IdleFits
    <3>. QED BY <2>1, <3>1, <3>2, <3>3 DEF Good
  <2>3. CASE ~(s.build[e].state < Supplied) /\ r = Result(StartBuilding(v), s)
    <3>1. r.worker = StartBuilding(v) /\ r.game = s /\ r.failed = FALSE
      BY <2>3, ResultIs
    <3>2. /\ StartBuilding(v) \in Workers /\ StartBuilding(v).state = "BUILDING"
          /\ StartBuilding(v).handlers = {"on_motion_begin", "on_build_anim_finished"}
          /\ StartBuilding(v).target = e
      BY <1>10, WorkersAre
    <3>3. Fits(StartBuilding(v), s) /\ Listens(StartBuilding(v))
      BY <1>9, <2>1, <2>3, <3>2, HandlersAre DEF Fits, Listens
    <3>. QED BY <2>1, <3>1, <3>2, <3>3 DEF Good
  <2>. QED BY <1>14, <2>2, <2>3
<1>. QED BY <1>6, <1>11, <1>12, <1>13, <1>14 DEF Arrives

\* A builder that is made to move stops building.
LEMMA MotionBeginGood ==
  ASSUME BIInv, NEW w \in Workers, w.state = "BUILDING",
         w.handlers \subseteq HandlersFor("BUILDING")
  PROVE  Good(OnMotionBegin(w, game))
<1>1. PICK v : v = [NotBuilding(w) EXCEPT
                      !.handlers = @ \ {"on_motion_begin", "on_build_anim_finished"}]
  OBVIOUS
<1>2. PICK r : r = OnMotionBegin(w, game)
  OBVIOUS
<1>3. r.worker = v /\ r.game = game /\ r.failed = FALSE
  <2>1. OnMotionBegin(w, game) = [Result(v, game) EXCEPT !.failed = w.state # "BUILDING"]
    BY <1>1 DEF OnMotionBegin
  <2>2. (w.state # "BUILDING") = FALSE
    OBVIOUS
  <2>3. r = [Result(v, game) EXCEPT !.failed = FALSE]
    BY <1>2, <2>1, <2>2
  <2>. QED BY <2>3 DEF Result
<1>4. v \in Workers /\ v.state = "NOT_BUILDING" /\ v.handlers = {}
  <2>1. PICK u : u = NotBuilding(w)
    OBVIOUS
  <2>2. u \in Workers /\ u.state = "NOT_BUILDING" /\ u.handlers = w.handlers
    BY <2>1, WorkersAre
  <2>3. PICK H : H = u.handlers \ {"on_motion_begin", "on_build_anim_finished"}
    OBVIOUS
  <2>4. H \subseteq u.handlers /\ H = {} /\ v = [u EXCEPT !.handlers = H]
    BY <1>1, <2>1, <2>2, <2>3, HandlersAre
  <2>. QED BY <2>2, <2>4, WorkersAre
<1>5. Fits(v, game) /\ Listens(v)
  BY <1>4, IdleFits
<1>6. Good(r)
  BY <1>3, <1>4, <1>5, GameStays DEF Good
<1>. QED BY <1>2, <1>6

\* The building that is built is completed, or needs more cycles, or is gone.
LEMMA BuildAnimGood ==
  ASSUME BIInv, NEW w \in Workers, Fits(w, game), w.state = "BUILDING",
         ~OrderInMotion /\ ~failed => Listens(w)
  PROVE  Good(OnBuildAnimFinished(w, game))
<1>1. PICK e : e = w.target
  OBVIOUS
<1>2. PICK r : r = OnBuildAnimFinished(w, game)
  OBVIOUS
<1>3. PICK h : h = Complete(game, e)
  OBVIOUS
<1>4. \/ r = Result(w, game)
      \/ r = Result(FinishBuilding(w), game)
      \/ e \in Active(game) /\ r = Result(FinishBuilding(w), h)
  BY <1>1, <1>2, <1>3, Zenon DEF OnBuildAnimFinished
<1>5. Sound(game, spent) /\ spent \in Spents
      /\ DOMAIN game.build = Active(game) \intersect Buildings
  BY BasicFacts
<1>6. e \in Buildings
  BY <1>1 DEF Fits
<1>7. ASSUME e \in Active(game) PROVE GameGoes(h)
  <2>1. e \in DOMAIN game.build
    BY <1>5, <1>6, <1>7
  <2>2. CASE game.build[e].state # Supplied
    <3>1. h = game
      BY <1>3, <2>2 DEF Complete
    <3>. QED BY <3>1, GameStays
  <2>3. CASE game.build[e].state = Supplied
    <3>1. e \in Entity /\ UnderWork(game, e) /\ Shape(game)
      BY <1>5, <2>1, <2>3, Building, SoundShape DEF UnderWork, Supplied, Completed
    <3>2. Owned(game, e)
      BY <1>5, <2>1, <3>1, Building
    <3>3. Reaches(game, h, e, Completed)
      BY <1>3, <2>1, <2>3, <3>2, CompleteStages
    <3>4. Sound(h, spent)
      BY <1>3, <1>5, <2>1, <2>3, <3>1, CompleteSound
    <3>5. Used(game, h) = {}
      <4>1. Used(game, h) \subseteq {e} /\ (e \in Used(game, h) => game.build[e].state = Founded)
        BY <3>1, <3>3, UsedApart DEF Reaches, Works
      <4>2. game.build[e].state # Founded
        BY <2>3 DEF Supplied, Founded
      <4>. QED BY <4>1, <4>2, Zenon
    <3>6. SpentBy(game, h) = spent
      BY <1>5, <3>5, NothingSpent
    <3>. QED BY <1>5, <3>3, <3>4, <3>6 DEF GameGoes, Reaches, Active
  <2>. QED BY <2>2, <2>3
<1>8. /\ FinishBuilding(w) \in Workers /\ FinishBuilding(w).state = "NOT_BUILDING"
      /\ FinishBuilding(w).handlers = {}
  BY WorkersAre
<1>9. CASE r = Result(w, game)
  <2>1. r.worker = w /\ r.game = game /\ r.failed = FALSE
    BY <1>9, ResultIs
  <2>. QED BY <2>1, GameStays, <1>2 DEF Good
<1>10. ASSUME NEW g, GameGoes(g), r = Result(FinishBuilding(w), g)
       PROVE  Good(r)
  <2>1. r.worker = FinishBuilding(w) /\ r.game = g /\ r.failed = FALSE
    BY <1>10, ResultIs
  <2>2. Fits(FinishBuilding(w), g) /\ Listens(FinishBuilding(w))
    BY <1>8, IdleFits
  <2>. QED BY <1>8, <1>10, <2>1, <2>2 DEF Good
<1>. QED BY <1>2, <1>4, <1>7, <1>9, <1>10, GameStays
-----------------------------------------------------------------------------
(* Motion and orders *)

\* What moves the builder leaves its order and its handlers alone.
SameOrder(w, v) ==
  v \in Workers /\ v.state = w.state /\ v.target = w.target /\ v.handlers = w.handlers

LEMMA EventsAre ==
  /\ Events = {"MOTION_END", "MOTION_START", "ANIM_CYCLE_FINISHED"}
  /\ HandlerOf["MOTION_END"] = "on_motion_end" /\ HandlerOf["MOTION_START"] = "on_motion_begin"
  /\ HandlerOf["ANIM_CYCLE_FINISHED"] = "on_build_anim_finished"
BY DEF Events, HandlerOf

LEMMA QueueKeeps ==
  ASSUME NEW w \in Workers, NEW event \in Events
  PROVE  SameOrder(w, Queue(w, event)) /\ Queue(w, event).motion = w.motion
<1>1. w.inbox \in Seq(Events)
  BY DEF Workers
<1>2. PICK q : q = Append(w.inbox, event)
  OBVIOUS
<1>3. q \in Seq(Events)
  BY <1>1, <1>2
<1>4. Queue(w, event) = [w EXCEPT !.inbox = q]
  BY <1>2 DEF Queue
<1>. QED BY <1>3, <1>4 DEF SameOrder, Workers

LEMMA MotionSet ==
  ASSUME NEW w \in Workers, NEW m \in {"arrived", "waiting", "moving"}
  PROVE  SameOrder(w, [w EXCEPT !.motion = m]) /\ [w EXCEPT !.motion = m].motion = m
BY DEF SameOrder, Workers

LEMMA MotionsKeep ==
  ASSUME NEW w \in Workers
  PROVE  /\ \A m \in {"arrived", "waiting"} : SameOrder(w, FinishMoving(w, m))
         /\ SameOrder(w, StopMoving(w)) /\ Still(StopMoving(w))
         /\ SameOrder(w, StartMoving(w))
         /\ SameOrder(w, SurroundEntity(w))
<1>1. ASSUME NEW v \in Workers, NEW m \in {"arrived", "waiting"}
      PROVE  SameOrder(v, FinishMoving(v, m)) /\ FinishMoving(v, m).motion = m
  <2>1. PICK u : u = Queue(v, "MOTION_END")
    OBVIOUS
  <2>2. SameOrder(v, u)
    BY <2>1, QueueKeeps, EventsAre
  <2>3. u \in Workers /\ m \in {"arrived", "waiting", "moving"}
    BY <2>2 DEF SameOrder
  <2>4. SameOrder(u, [u EXCEPT !.motion = m]) /\ [u EXCEPT !.motion = m].motion = m
    BY <2>3, MotionSet
  <2>. QED BY <2>1, <2>2, <2>4 DEF FinishMoving, SameOrder
<1>2. ASSUME NEW v \in Workers PROVE SameOrder(v, StopMoving(v)) /\ Still(StopMoving(v))
  BY <1>1, MotionSet DEF StopMoving, Still
<1>3. ASSUME NEW v \in Workers PROVE SameOrder(v, StartMoving(v))
  <2>1. PICK u : u = Queue(v, "MOTION_START")
    OBVIOUS
  <2>2. SameOrder(v, u)
    BY <2>1, QueueKeeps, EventsAre
  <2>3. SameOrder(u, [u EXCEPT !.motion = "moving"])
    BY <2>2, MotionSet DEF SameOrder
  <2>4. SameOrder(v, [u EXCEPT !.motion = "moving"]) /\ SameOrder(v, v)
    BY <2>2, <2>3 DEF SameOrder
  <2>. QED BY <2>1, <2>4 DEF StartMoving
<1>4. SameOrder(w, SurroundEntity(w))
  <2>1. PICK u : u = StopMoving(w)
    OBVIOUS
  <2>2. SameOrder(w, u) /\ SameOrder(u, StartMoving(u))
    BY <1>2, <1>3, <2>1 DEF SameOrder
  <2>. QED BY <2>1, <2>2 DEF SurroundEntity, SameOrder
<1>. QED BY <1>1, <1>2, <1>3, <1>4

\* A builder that goes on with its order is in order.
LEMMA SameOrderStep ==
  ASSUME BIInv, NEW w, SameOrder(worker, w), WorkerBecomes(w)
  PROVE  BIInv'
<1>1. Fits(w, game)
  BY DEF BIInv, Fits, SameOrder
<1>2. ~OrderInMotion /\ ~failed => Listens(w)
  BY DEF BIInv, Listens, SameOrder
<1>. QED BY <1>1, <1>2, WorkerStep DEF SameOrder

\* A stop order: the builder stops to build, and maybe to move.
LEMMA StoppedIs ==
  ASSUME NEW w \in Workers, NEW stopMove \in BOOLEAN
  PROVE  /\ Stopped(w, stopMove) \in Workers
         /\ Stopped(w, stopMove).state = "NOT_BUILDING" /\ Stopped(w, stopMove).handlers = {}
         /\ stopMove = TRUE => Still(Stopped(w, stopMove))
<1>1. PICK v : v = IF stopMove THEN StopMoving(w) ELSE w
  OBVIOUS
<1>2. v \in Workers /\ (stopMove = TRUE => Still(v))
  BY <1>1, MotionsKeep, Zenon DEF SameOrder
<1>3. Stopped(w, stopMove) = FinishBuilding(v)
  BY <1>1 DEF Stopped
<1>4. FinishBuilding(v).motion = v.motion
  BY <1>2 DEF FinishBuilding, GiveUp, NotBuilding, Workers
<1>. QED BY <1>2, <1>3, <1>4, WorkersAre DEF Still

\* An order to build: what is at hand is begun, and the rest is walked to.
LEMMA BuildGood ==
  ASSUME BIInv, NEW w \in Workers, NEW e, e \in DOMAIN game.build,
         NEW adjacent \in BOOLEAN, NEW free \in BOOLEAN, OrderInMotion \/ Still(w) \/ ~adjacent
  PROVE  Good(Build(w, game, e, adjacent, free))
<1>1. PICK v : v = [w EXCEPT !.handlers = {}, !.state = "MOVING_TO_TARGET", !.target = e]
  OBVIOUS
<1>2. /\ DOMAIN game.build = Active(game) \intersect Buildings /\ Active(game) \subseteq gone
      /\ zombies \intersect Active(game) = {} /\ gone \subseteq Entity
  BY BasicFacts
<1>3. e \in Buildings /\ e \in gone /\ e \notin zombies /\ e \in Entity
  BY <1>2
<1>4. /\ v \in Workers /\ v.handlers = {} /\ v.state = "MOVING_TO_TARGET" /\ v.target = e
      /\ v.motion = w.motion
  BY <1>1, <1>3 DEF Workers, States, Handlers
<1>5. CASE adjacent
  <2>1. Build(w, game, e, adjacent, free) = OnMotionEnd(v, game, TRUE, free)
    BY <1>1, <1>5, Zenon DEF Build
  <2>2. ArrivalFits(v)
    <3>1. OrderInMotion \/ Still(v)
      BY <1>4, <1>5, Zenon DEF Still
    <3>. QED BY <1>3, <1>4, <3>1 DEF ArrivalFits
  <2>3. TRUE \in BOOLEAN
    OBVIOUS
  <2>. QED BY <1>4, <2>1, <2>2, <2>3, MotionEndGood
<1>6. CASE ~adjacent
  <2>1. PICK u : u = SurroundEntity(v)
    OBVIOUS
  <2>2. PICK x : x = [u EXCEPT !.handlers = {"on_motion_end"}]
    OBVIOUS
  <2>3. Build(w, game, e, adjacent, free) = Result(x, game)
    BY <1>1, <1>6, <2>1, <2>2, Zenon DEF Build
  <2>4. u \in Workers /\ u.state = "MOVING_TO_TARGET" /\ u.target = e
    BY <1>4, <2>1, MotionsKeep DEF SameOrder
  <2>5. /\ x \in Workers /\ x.handlers = {"on_motion_end"} /\ x.state = "MOVING_TO_TARGET"
        /\ x.target = e
    BY <2>2, <2>4 DEF Workers, Handlers
  <2>6. Fits(x, game) /\ Listens(x)
    BY <1>3, <2>5, HandlersAre DEF Fits, Listens
  <2>7. PICK r : r = Result(x, game)
    OBVIOUS
  <2>8. r.worker = x /\ r.game = game /\ r.failed = FALSE
    BY <2>7, ResultIs
  <2>9. Good(r)
    BY <2>5, <2>6, <2>8, GameStays DEF Good
  <2>. QED BY <2>3, <2>7, <2>9
<1>. QED BY <1>5, <1>6
-----------------------------------------------------------------------------
(* Events *)

\* The first event is taken from the queue.
LEMMA TakesFirst ==
  ASSUME NEW w \in Workers, w.inbox # <<>>
  PROVE  /\ Head(w.inbox) \in Events
         /\ SameOrder(w, [w EXCEPT !.inbox = Tail(@)])
<1>1. w.inbox \in Seq(Events)
  BY DEF Workers
<1>2. PICK q : q = Tail(w.inbox)
  OBVIOUS
<1>3. q \in Seq(Events) /\ Head(w.inbox) \in Events
  BY <1>1, <1>2
<1>4. [w EXCEPT !.inbox = Tail(@)] = [w EXCEPT !.inbox = q]
  BY <1>2
<1>. QED BY <1>3, <1>4 DEF SameOrder, Workers

LEMMA Hear ==
  ASSUME BIInv, NEW w, SameOrder(worker, w)
  PROVE  w \in Workers /\ Fits(w, game) /\ (~OrderInMotion /\ ~failed => Listens(w))
BY DEF BIInv, Fits, Listens, SameOrder

\* What is delivered goes to the handler that is registered, if there is one.
Heard(r, event, w, adjacent, free) ==
  \/ HandlerOf[event] \notin w.handlers /\ r = Result(w, game)
  \/ /\ event = "MOTION_END" /\ "on_motion_end" \in w.handlers
     /\ r = OnMotionEnd(w, game, adjacent, free)
  \/ /\ event = "MOTION_START" /\ "on_motion_begin" \in w.handlers
     /\ r = OnMotionBegin(w, game)
  \/ /\ event = "ANIM_CYCLE_FINISHED" /\ "on_build_anim_finished" \in w.handlers
     /\ r = OnBuildAnimFinished(w, game)

LEMMA DeliverIs ==
  ASSUME NEW adjacent \in BOOLEAN, NEW free \in BOOLEAN, Deliver(adjacent, free),
         Head(worker.inbox) \in Events
  PROVE  \E r, newHp :
           /\ Heard(r, Head(worker.inbox), [worker EXCEPT !.inbox = Tail(@)], adjacent, free)
           /\ Applies(r, newHp)
           /\ \/ newHp = FoundedHp(game, r.game)
              \/ newHp = [hp EXCEPT ![worker.target] = Healed(worker.target)]
<1> DEFINE event == Head(worker.inbox)
           w == [worker EXCEPT !.inbox = Tail(@)]
           r == IF HandlerOf[event] \notin w.handlers THEN Result(w, game)
                ELSE CASE event = "MOTION_END" -> OnMotionEnd(w, game, adjacent, free)
                       [] event = "MOTION_START" -> OnMotionBegin(w, game)
                       [] event = "ANIM_CYCLE_FINISHED" -> OnBuildAnimFinished(w, game)
           heals == /\ event = "ANIM_CYCLE_FINISHED" /\ HandlerOf[event] \in w.handlers
                    /\ Mends(w.target)
           newHp == IF heals THEN [hp EXCEPT ![w.target] = Healed(w.target)]
                    ELSE FoundedHp(game, r.game)
<1>1. event \in Events /\ w.target = worker.target
  OBVIOUS
<1>2. Applies(r, newHp)
  BY DEF Deliver
<1>3. \/ newHp = FoundedHp(game, r.game)
      \/ newHp = [hp EXCEPT ![w.target] = Healed(w.target)]
  <2> HIDE DEF heals, r, w
  <2>. QED BY Zenon
<1> HIDE DEF event, w, heals, newHp
<1>4. Heard(r, event, w, adjacent, free)
  <2>1. CASE HandlerOf[event] \notin w.handlers
    BY <2>1, Zenon DEF Heard
  <2>2. CASE event = "MOTION_END" /\ HandlerOf[event] \in w.handlers
    BY <2>2, EventsAre DEF Heard
  <2>3. CASE event = "MOTION_START" /\ HandlerOf[event] \in w.handlers
    BY <2>3, EventsAre DEF Heard
  <2>4. CASE event = "ANIM_CYCLE_FINISHED" /\ HandlerOf[event] \in w.handlers
    BY <2>4, EventsAre DEF Heard
  <2>5. event = "MOTION_END" \/ event = "MOTION_START" \/ event = "ANIM_CYCLE_FINISHED"
    BY <1>1, EventsAre
  <2>. QED BY <2>1, <2>2, <2>3, <2>4, <2>5
<1> HIDE DEF r
<1>5. \/ newHp = FoundedHp(game, r.game)
      \/ newHp = [hp EXCEPT ![worker.target] = Healed(worker.target)]
  BY <1>1, <1>3
<1>6. Heard(r, Head(worker.inbox), [worker EXCEPT !.inbox = Tail(@)], adjacent, free)
  BY <1>4, Zenon DEF event, w
<1>. QED BY <1>2, <1>5, <1>6, Zenon

\* A building is mended up to its full hit points.
LEMMA HealedHps ==
  ASSUME BIInv, NEW e
  PROVE  [hp EXCEPT ![e] = Healed(e)] \in Hps
<1>1. hp \in [Buildings -> 0..MaxHp] /\ MaxHp \in Nat
  BY BasicFacts, BuilderAssumption DEF Hps
<1>2. CASE e \in Buildings
  <2>1. hp[e] \in 0..MaxHp
    BY <1>1, <1>2
  <2>2. Healed(e) \in 0..MaxHp
    BY <1>1, <2>1 DEF Healed, Lesser
  <2>. QED BY <1>1, <2>2 DEF Hps
<1>3. CASE e \notin Buildings
  BY <1>1, <1>3 DEF Hps
<1>. QED BY <1>2, <1>3

LEMMA DeliverKeeps ==
  ASSUME BIInv, NEW adjacent \in BOOLEAN, NEW free \in BOOLEAN, Deliver(adjacent, free)
  PROVE  BIInv'
<1>1. worker \in Workers /\ worker.inbox # <<>>
  BY BasicFacts DEF Deliver
<1>2. PICK event : event = Head(worker.inbox)
  OBVIOUS
<1>3. PICK w : w = [worker EXCEPT !.inbox = Tail(@)]
  OBVIOUS
<1>4. event \in Events /\ SameOrder(worker, w)
  BY <1>1, <1>2, <1>3, TakesFirst
<1>5. w \in Workers /\ Fits(w, game) /\ (~OrderInMotion /\ ~failed => Listens(w))
  BY <1>4, Hear
<1>6. PICK r, newHp :
        /\ Heard(r, event, w, adjacent, free) /\ Applies(r, newHp)
        /\ \/ newHp = FoundedHp(game, r.game)
           \/ newHp = [hp EXCEPT ![worker.target] = Healed(worker.target)]
  BY <1>2, <1>3, <1>4, DeliverIs
<1>7. newHp \in Hps
  BY <1>6, FoundedHps, HealedHps
<1>8. w.state \in States
  BY <1>5 DEF Workers
<1>9. CASE r = Result(w, game)
  <2>1. r.worker = w /\ r.game = game /\ r.failed = FALSE
    BY <1>9, ResultIs
  <2>2. Good(r)
    BY <1>5, <2>1, GameStays DEF Good
  <2>. QED BY <1>6, <1>7, <2>2, AppliesStep
<1>10. CASE "on_motion_end" \in w.handlers /\ r = OnMotionEnd(w, game, adjacent, free)
  <2>1. w.state = "MOVING_TO_TARGET"
    BY <1>5, <1>8, <1>10, HandlersAre DEF Fits, States
  <2>2. ArrivalFits(w)
    BY <1>5, <2>1, HandlersAre DEF Fits, ArrivalFits, Listens
  <2>3. Good(r)
    BY <1>5, <1>10, <2>2, MotionEndGood
  <2>. QED BY <1>6, <1>7, <2>3, AppliesStep
<1>11. CASE "on_motion_begin" \in w.handlers /\ r = OnMotionBegin(w, game)
  <2>1. w.state = "BUILDING" /\ w.handlers \subseteq HandlersFor("BUILDING")
    BY <1>5, <1>8, <1>11, HandlersAre DEF Fits, States
  <2>2. Good(r)
    BY <1>5, <1>11, <2>1, MotionBeginGood
  <2>. QED BY <1>6, <1>7, <2>2, AppliesStep
<1>12. CASE "on_build_anim_finished" \in w.handlers /\ r = OnBuildAnimFinished(w, game)
  <2>1. w.state = "BUILDING"
    BY <1>5, <1>8, <1>12, HandlersAre DEF Fits, States
  <2>2. Good(r)
    BY <1>5, <1>12, <2>1, BuildAnimGood
  <2>. QED BY <1>6, <1>7, <2>2, AppliesStep
<1>. QED BY <1>6, <1>9, <1>10, <1>11, <1>12, Zenon DEF Heard
-----------------------------------------------------------------------------
(* The steps that are left *)

LEMMA OrdersKeep ==
  ASSUME BIInv, NEW e \in Entity, NEW adjacent \in BOOLEAN, NEW free \in BOOLEAN,
         ScriptBuild(e, adjacent, free) \/ PlayerBuild(e, adjacent, free)
  PROVE  BIInv'
<1>1. worker \in Workers
  BY BasicFacts
<1>2. ASSUME NEW w \in Workers, e \in DOMAIN game.build, OrderInMotion \/ Still(w) \/ ~adjacent,
             Applies(Build(w, game, e, adjacent, free),
                     FoundedHp(game, Build(w, game, e, adjacent, free).game))
      PROVE  BIInv'
  <2>1. PICK r : r = Build(w, game, e, adjacent, free)
    OBVIOUS
  <2>2. Good(r)
    BY <1>2, <2>1, BuildGood
  <2>3. PICK newHp : newHp = FoundedHp(game, r.game)
    OBVIOUS
  <2>4. newHp \in Hps /\ Applies(r, newHp)
    BY <1>2, <2>1, <2>3, FoundedHps
  <2>. QED BY <2>2, <2>4, AppliesStep
<1>3. CASE ScriptBuild(e, adjacent, free)
  BY <1>1, <1>2, <1>3, Zenon DEF ScriptBuild
<1>4. CASE PlayerBuild(e, adjacent, free)
  <2>1. PICK w : w = Stopped(FinishBuilding(worker), TRUE)
    OBVIOUS
  <2>2. w \in Workers /\ Still(w)
    BY <1>1, <2>1, WorkersAre, StoppedIs
  <2>. QED BY <1>2, <1>4, <2>1, <2>2, Zenon DEF PlayerBuild
<1>. QED BY <1>3, <1>4

\* Nothing but the zombies, or the hit points, changes.
LEMMA AsideKeeps ==
  ASSUME BIInv, NEW e \in Entity, Forget(e) \/ Hit(e)
  PROVE  BIInv'
<1>1. /\ worker \in Workers /\ hp \in Hps /\ gone \subseteq Entity /\ zombies \subseteq gone
      /\ zombies \intersect Active(game) = {} /\ Active(game) \subseteq gone
      /\ damage \in 0..MaxDamage /\ failed \in BOOLEAN
  BY BasicFacts
<1>2. /\ worker' = worker /\ gone' = gone /\ failed' = failed /\ UNCHANGED vars
      /\ zombies' \subseteq zombies
  BY DEF Forget, Hit
<1>3. IInv' /\ game' = game
  BY <1>2 DEF BIInv, IInv, TypeOK, LoadRestores, vars
<1>4. hp' \in Hps /\ damage' \in 0..MaxDamage
  <2>1. CASE Forget(e)
    BY <1>1, <2>1 DEF Forget
  <2>2. CASE Hit(e)
    <3>1. MaxHp \in Nat /\ MaxDamage \in Nat /\ Combatable \subseteq Buildings
      BY BuilderAssumption
    <3>2. hp[e] \in 0..MaxHp /\ hp[e] > 1 /\ damage < MaxDamage
          /\ hp' = [hp EXCEPT ![e] = hp[e] - 1] /\ damage' = damage + 1
      BY <1>1, <2>2, <3>1 DEF Hit, Hps
    <3>3. PICK n : n = hp[e] - 1
      OBVIOUS
    <3>4. n \in 0..MaxHp /\ hp' = [hp EXCEPT ![e] = n]
      BY <3>1, <3>2, <3>3
    <3>5. hp' \in Hps
      BY <1>1, <3>4 DEF Hps
    <3>6. damage' \in 0..MaxDamage
      BY <1>1, <3>1, <3>2
    <3>. QED BY <3>5, <3>6
  <2>. QED BY <2>1, <2>2
<1>5. Fits(worker, game)'
  BY <1>2, <1>3 DEF BIInv, Fits
<1>6. (~OrderInMotion /\ ~failed' => Listens(worker')) /\ (~Zombies => ~failed')
  BY <1>2 DEF BIInv, NoneFails
<1>. QED BY <1>1, <1>2, <1>3, <1>4, <1>5, <1>6, Together

\* What is loaded is what was saved, and the handlers are those of the state.
LEMMA ReloadKeeps ==
  ASSUME BIInv, Reload
  PROVE  BIInv'
<1>1. /\ worker \in Workers /\ hp \in Hps /\ gone \subseteq Entity /\ zombies \subseteq gone
      /\ zombies \intersect Active(game) = {} /\ Active(game) \subseteq gone
      /\ damage \in 0..MaxDamage /\ failed \in BOOLEAN /\ Sound(game, spent) /\ spent \in Spents
  BY BasicFacts
<1>2. /\ game' = LoadGame(game) /\ loaded' = FALSE
      /\ UNCHANGED <<spent, file, adds, saves, hp, zombies, gone, damage, failed>>
      /\ worker' = [worker EXCEPT !.handlers = HandlersFor(worker.state)]
      /\ \A e \in Entity : game.changed[e] = 0
  BY DEF Reload
<1>3. game' = game
  <2>1. Shape(game)
    BY <1>1, SoundShape
  <2>2. game.changed = [e \in Entity |-> 0]
    BY <1>2, <2>1 DEF Shape
  <2>. QED BY <1>1, <1>2, <2>2, LoadGameDoes
<1>4. IInv'
  <2>1. adds' \in Nat /\ saves' = saves /\ adds' + saves <= MaxMade
    BY <1>2 DEF BIInv, IInv, TypeOK
  <2>. QED BY <1>1, <1>2, <1>3, <2>1, GameStep DEF BIInv
<1>5. /\ worker' \in Workers /\ worker'.handlers = HandlersFor(worker'.state)
      /\ worker'.state = worker.state /\ worker'.target = worker.target
  <2>1. worker.state \in States
    BY <1>1 DEF Workers
  <2>2. HandlersFor(worker.state) \subseteq Handlers
    BY <2>1, HandlersAre DEF States, Handlers
  <2>. QED BY <1>1, <1>2, <2>2 DEF Workers
<1>6. Fits(worker, game)'
  BY <1>2, <1>3, <1>5 DEF BIInv, Fits
<1>7. (~OrderInMotion /\ ~failed' => Listens(worker')) /\ (~Zombies => ~failed')
  BY <1>2, <1>5 DEF BIInv, NoneFails, Listens
<1>. QED BY <1>1, <1>2, <1>3, <1>4, <1>5, <1>6, <1>7, Together
-----------------------------------------------------------------------------
(* The theorems *)

LEMMA BIInvInit == BInit => BIInv
<1> SUFFICES ASSUME BInit PROVE BIInv
  OBVIOUS
<1>1. /\ Init /\ worker = NewWorker /\ hp = [e \in Buildings |-> 0]
      /\ zombies = {} /\ gone = {} /\ damage = 0 /\ failed = FALSE
  BY DEF BInit
<1>2. IInv /\ TypeOK
  BY <1>1, IInvInit DEF IInv
<1>3. Active(game) = {}
  BY <1>1 DEF Init, EmptyGame, Active
<1>4. worker \in Workers
  <2>1. <<>> \in Seq(Events)
    OBVIOUS
  <2>2. PICK q : q = <<>>
    OBVIOUS
  <2>. QED BY <1>1, <2>1, <2>2 DEF NewWorker, Workers, States
<1>5. hp \in Hps /\ damage \in 0..MaxDamage
  BY <1>1, BuilderAssumption DEF Hps
<1>6. BTypeOK
  BY <1>1, <1>2, <1>4, <1>5 DEF BTypeOK, Workers, States, Hps
<1>7. Fits(worker, game) /\ Listens(worker)
  BY <1>1, IdleFits DEF NewWorker
<1>. QED BY <1>1, <1>2, <1>3, <1>6, <1>7 DEF BIInv, GoneOK, NoneFails

\* Every step of the builder, of its motion, of the buildings and of the event
\* loop keeps the inductive invariant.
LEMMA BIInvNext ==
  ASSUME BIInv, [BNext]_allVars
  PROVE  BIInv'
<1>1. worker \in Workers
  BY BasicFacts
<1>2. CASE UNCHANGED allVars
  <2>1. /\ UNCHANGED vars /\ worker' = worker /\ hp' = hp /\ zombies' = zombies
        /\ gone' = gone /\ damage' = damage /\ failed' = failed
    BY <1>2 DEF allVars, bvars
  <2>2. IInv' /\ game' = game
    BY <2>1 DEF BIInv, IInv, TypeOK, LoadRestores, vars
  <2>3. Fits(worker, game)' /\ (~OrderInMotion /\ ~failed' => Listens(worker'))
        /\ (~Zombies => ~failed')
    BY <2>1, <2>2 DEF BIInv, Fits, NoneFails
  <2>. QED BY <2>1, <2>2, <2>3, BasicFacts, Together
<1>3. CASE \E stopMove \in BOOLEAN : Stop(stopMove)
  <2>1. PICK stopMove \in BOOLEAN : Stop(stopMove)
    BY <1>3
  <2>2. PICK w : w = Stopped(worker, stopMove)
    OBVIOUS
  <2>3. w \in Workers /\ w.state = "NOT_BUILDING" /\ w.handlers = {}
    BY <1>1, <2>2, StoppedIs
  <2>4. Fits(w, game) /\ Listens(w)
    BY <2>3, IdleFits
  <2>. QED BY <2>1, <2>2, <2>3, <2>4, WorkerStep DEF Stop
<1>4. CASE Walk \/ Arrive \/ Wait \/ Halt
  BY <1>1, <1>4, MotionsKeep, SameOrderStep DEF Walk, Arrive, Wait, Halt
<1>5. CASE AnimCycle
  <2>1. PICK w : w = Queue(worker, "ANIM_CYCLE_FINISHED")
    OBVIOUS
  <2>2. SameOrder(worker, w)
    BY <1>1, <2>1, QueueKeeps, EventsAre
  <2>. QED BY <1>5, <2>1, <2>2, SameOrderStep DEF AnimCycle
<1>6. ASSUME NEW e \in Entity, NEW zombie \in BOOLEAN, Demolish(e, zombie) PROVE BIInv'
  BY <1>6, DemolishKeeps
<1>7. ASSUME NEW e \in Entity, Forget(e) \/ Hit(e) PROVE BIInv'
  BY <1>7, AsideKeeps
<1>8. ASSUME NEW e \in Entity, NEW adjacent \in BOOLEAN, NEW free \in BOOLEAN,
             ScriptBuild(e, adjacent, free) \/ PlayerBuild(e, adjacent, free)
      PROVE  BIInv'
  BY <1>8, OrdersKeep
<1>9. ASSUME NEW adjacent \in BOOLEAN, NEW free \in BOOLEAN, Deliver(adjacent, free) PROVE BIInv'
  BY <1>9, DeliverKeeps
<1>. QED
  BY <1>2, <1>3, <1>4, <1>5, <1>6, <1>7, <1>8, <1>9, BuildingKeeps, ReloadKeeps, Zenon DEF BNext

\* The inductive invariant of the builder and of the buildings it works on holds
\* in all behaviours, whatever scripts order, destroy or save (builder.c,
\* building.c, storage_site.c).
THEOREM BInvariance == BSpec => []BIInv
<1>1. BInit => BIInv
  BY BIInvInit
<1>2. BIInv /\ [BNext]_allVars => BIInv'
  BY BIInvNext
<1>. QED BY <1>1, <1>2, PTL DEF BSpec

\* Nobody builds what has not been supplied: on_motion_end starts the work only
\* on a supplied building, and no building goes back (builder.c, building.c).
THEOREM BuildsSuppliedHolds == BSpec => []BuildsSupplied
<1>1. BIInv => BuildsSupplied
  BY DEF BIInv, Fits, BuildsSupplied
<1>. QED BY <1>1, BInvariance, PTL

\* No assertion of the builder's handlers fails, if what a builder is on its way
\* to does not stay as a zombie (builder.c, building.c).
THEOREM NoneFailsHolds ==
  ASSUME Zombies = FALSE
  PROVE  BSpec => []NoneFails
<1>1. BIInv => NoneFails
  BY DEF BIInv
<1>. QED BY <1>1, BInvariance, PTL

\* In every stage of an order the builder listens for just what it waits for, if
\* neither zombies nor orders in the middle of a motion get in between
\* (builder.c, whose handlers are registered and removed in each branch).
THEOREM HandlersExactHolds ==
  ASSUME Zombies = FALSE, OrderInMotion = FALSE
  PROVE  BSpec => []HandlersExact
<1>1. ASSUME BIInv PROVE HandlersExact
  <2>1. worker.state \in States /\ BTypeOK
    BY <1>1, BasicFacts DEF BIInv, Workers
  <2>2. worker.handlers = HandlersFor(worker.state)
    BY <1>1 DEF BIInv, NoneFails, Listens
  <2>3. worker.state # "NOT_BUILDING" => worker.target # NoTarget
    <3>1. Buildings \subseteq Entity /\ NoTarget \notin Entity
      BY BuilderAssumption DEF Entity
    <3>. QED BY <1>1, <3>1 DEF BIInv, Fits
  <2>4. HandlersFit
    BY <2>1, <2>2, <2>3, HandlersAre DEF HandlersFit, States
  <2>5. OrderKept
    BY <2>2 DEF OrderKept
  <2>. QED BY <2>1, <2>4, <2>5 DEF HandlersExact
<1>2. BIInv => HandlersExact
  BY <1>1
<1>. QED BY <1>2, BInvariance, PTL
=============================================================================
