------------------------------ MODULE Storage ------------------------------
(* Storage sites (game/storage_site.c) and the buildings that use one while *)
(* they are built (game/building.c), with the parts of game/game.c that add, *)
(* remove and hand over an entity and that save and load this state.        *)
(*                                                                          *)
(* The functions call one another and return, all of them on the main      *)
(* thread: each is an operator from the state before to the state after,    *)
(* and an action is one call from a script, from the event loop or from the *)
(* session.  A hash table of amounts is a function of the resources in     *)
(* which a missing key reads 0, the default everywhere (DEFAULT_CAPACITY    *)
(* too).  Events are handled while the simulation runs (G_RUNNING).         *)
EXTENDS Integers, FiniteSets, FiniteSetsExt, Functions

CONSTANTS
  Sites,           \* entities of a class that derives from StorageSiteEntity
  Buildings,       \* entities of a class that derives from BuildableEntity
  Faction, Neutral,\* the factions; faction 0, to which an entity is added
  Resource,
  Place,           \* grounds a building can stand on
  MaxAmount,       \* the largest amount a script asks for
  MaxMade,         \* bound: entities added and saves in a behaviour, together
  MaxQueued,       \* bound: changes of a site's amount that wait for delivery
  Recapacity       \* may a script change a capacity that is in use?

ASSUME StorageAssumption ==
  /\ IsFiniteSet(Sites) /\ IsFiniteSet(Buildings) /\ IsFiniteSet(Resource)
  /\ Neutral \in Faction
  /\ {MaxAmount, MaxMade, MaxQueued} \subseteq Nat
  /\ Recapacity \in BOOLEAN

VARIABLES
  game,    \* what is in memory, see TypeOK
  spent,   \* by faction, what went into buildings (history)
  file,    \* the saved game and what was spent when it was saved
  adds, saves,
  loaded   \* was the last step a load? (history)

vars == <<game, spent, file, adds, saves, loaded>>

Entity == Sites \union Buildings
Amount == 0..MaxAmount
Table == [Resource -> Int]
Zero == [r \in Resource |-> 0]
Plus(s, t) == [r \in Resource |-> s[r] + t[r]]
Minus(s, t) == [r \in Resource |-> s[r] - t[r]]
Lesser(x, y) == IF x < y THEN x ELSE y

Placement == 0
Marked == 1
Founded == 2
Supplied == 3
Completed == 4

(***************************************************************************)
(* storage_site.c                                                          *)
(***************************************************************************)
NewSite == [capacity |-> Zero, curr |-> Zero, desired |-> Zero,
            altCapacity |-> Zero, altDesired |-> Zero, useAlt |-> FALSE]

UpdateCap(g, f, delta) == [g EXCEPT !.cap[f] = Plus(@, delta)]
UpdateRes(g, f, delta) == [g EXCEPT !.res[f] = Plus(@, delta)]
Only(r, n) == [Zero EXCEPT ![r] = n]

EffectiveCapacity(s) == IF s.useAlt THEN s.altCapacity ELSE s.capacity
EffectiveDesired(s) == IF s.useAlt THEN s.altDesired ELSE s.desired

\* Reads the global faction table, as every one of these functions does.
Owner(g, e) == g.faction[e]

AddSite(g, e) == [g EXCEPT !.site = [x \in DOMAIN @ \union {e} |->
                                        IF x = e THEN NewSite ELSE @[x]]]

\* Variant: the capacity in use is not the one taken off the totals.
RemovesCapacity(g, e) ==
  IF e \notin DOMAIN g.site THEN g ELSE
  LET s == g.site[e]
      h == UpdateCap(UpdateRes(g, Owner(g, e), Minus(Zero, s.curr)),
                     Owner(g, e), Minus(Zero, s.capacity))
  IN  [h EXCEPT !.site = Restrict(@, DOMAIN @ \ {e})]

RemoveSite(g, e) ==
  IF e \notin DOMAIN g.site THEN g ELSE
  LET s == g.site[e]
      h == UpdateCap(UpdateRes(g, Owner(g, e), Minus(Zero, s.curr)),
                     Owner(g, e), Minus(Zero, EffectiveCapacity(s)))
  IN  [h EXCEPT !.site = Restrict(@, DOMAIN @ \ {e})]

IsSaturated(g, e) ==
  \A r \in Resource : g.site[e].curr[r] >= EffectiveCapacity(g.site[e])[r]

Desires(g, e, r) == EffectiveDesired(g.site[e])[r] > g.site[e].curr[r]

\* The change is taken against the stored amount, not the old capacity.
SetCapacity(g, e, r, max) ==
  LET s == g.site[e]
      h == IF s.useAlt THEN g
           ELSE UpdateCap(g, Owner(g, e), Only(r, max - s.curr[r]))
  IN  [h EXCEPT !.site[e] = [s EXCEPT !.capacity[r] = max,
                                      !.desired[r] = Lesser(@, max)]]

SetAltCapacity(g, e, r, max) ==
  LET s == g.site[e]
      h == IF s.useAlt
           THEN UpdateCap(g, Owner(g, e), Only(r, max - s.curr[r])) ELSE g
  IN  [h EXCEPT !.site[e].altCapacity[r] = max]

CurrAllowed(g, e, r, n) == n >= 0 /\ n <= EffectiveCapacity(g.site[e])[r]

\* Refuses an amount that does not fit; a change is announced by an event.
SetCurr(g, e, r, n) ==
  LET delta == n - g.site[e].curr[r]
      h == UpdateRes(g, Owner(g, e), Only(r, delta))
  IN  IF ~CurrAllowed(g, e, r, n) THEN g
      ELSE [h EXCEPT !.site[e].curr[r] = n,
                     !.changed[e] = IF delta = 0 THEN @ ELSE @ + 1]

SetDesired(g, e, r, n) ==
  [g EXCEPT !.site[e].desired[r] = Lesser(n, g.site[e].capacity[r])]

SetAltDesired(g, e, r, n) == [g EXCEPT !.site[e].altDesired[r] = n]

SetUseAlt(g, e, use) ==
  LET s == g.site[e]
      t == [s EXCEPT !.useAlt = use]
  IN  IF use = s.useAlt THEN g
      ELSE [UpdateCap(g, Owner(g, e),
                      Minus(EffectiveCapacity(t), EffectiveCapacity(s)))
              EXCEPT !.site[e] = t]

ClearAlt(g, e) ==
  LET s == g.site[e]
      h == IF s.useAlt
           THEN UpdateCap(g, Owner(g, e), Minus(Zero, s.altCapacity)) ELSE g
  IN  [h EXCEPT !.site[e] = [s EXCEPT !.altCapacity = Zero, !.altDesired = Zero]]

\* Takes the alternative capacity off the totals, and not the stored amount.
ClearCurr(g, e) ==
  [UpdateCap(g, Owner(g, e), Minus(Zero, g.site[e].altCapacity))
     EXCEPT !.site[e].curr = Zero]

UpdateSiteFaction(g, e, old, new) ==
  IF e \notin DOMAIN g.site THEN g ELSE
  LET cap == EffectiveCapacity(g.site[e])
      curr == g.site[e].curr
      h == UpdateCap(UpdateCap(g, old, Minus(Zero, cap)), new, cap)
  IN  UpdateRes(UpdateRes(h, old, Minus(Zero, curr)), new, curr)

EachResource(Op(_, _), g) == FoldSet(LAMBDA r, h : Op(h, r), g, Resource)

\* Variant: the amounts are put back before there is room for them.
LoadsAmountsFirst(g, e, s) ==
  LET use == [g EXCEPT !.site[e].useAlt = s.useAlt]
      curr == EachResource(LAMBDA h, r : SetCurr(h, e, r, s.curr[r]), use)
      capacity == EachResource(LAMBDA h, r : SetCapacity(h, e, r, s.capacity[r]), curr)
      desired == EachResource(LAMBDA h, r : SetDesired(h, e, r, s.desired[r]), capacity)
      alt == EachResource(LAMBDA h, r : SetAltCapacity(h, e, r, s.altCapacity[r]), desired)
  IN  EachResource(LAMBDA h, r : SetAltDesired(h, e, r, s.altDesired[r]), alt)

\* A site as it was saved, put back by the setters in this order.
LoadSite(g, e, s) ==
  LET use == [g EXCEPT !.site[e].useAlt = s.useAlt]
      capacity == EachResource(LAMBDA h, r : SetCapacity(h, e, r, s.capacity[r]), use)
      curr == EachResource(LAMBDA h, r : SetCurr(h, e, r, s.curr[r]), capacity)
      desired == EachResource(LAMBDA h, r : SetDesired(h, e, r, s.desired[r]), curr)
      alt == EachResource(LAMBDA h, r : SetAltCapacity(h, e, r, s.altCapacity[r]), desired)
  IN  EachResource(LAMBDA h, r : SetAltDesired(h, e, r, s.altDesired[r]), alt)

(***************************************************************************)
(* building.c                                                              *)
(***************************************************************************)
Incref(g, f, p) == [g EXCEPT !.blockers[f][p] = @ + 1]
Decref(g, f, p) == [g EXCEPT !.blockers[f][p] = @ - 1]

\* A building without a storage site of its own gets one to be built with.
AddBuilding(g, e, isSite) ==
  LET new == [state |-> Placement, blocking |-> FALSE, isSite |-> isSite,
              place |-> g.pos[e], required |-> Zero]
      h == [g EXCEPT !.build = [x \in DOMAIN @ \union {e} |->
                                  IF x = e THEN new ELSE @[x]]]
  IN  SetUseAlt(IF isSite THEN h ELSE AddSite(h, e), e, TRUE)

RemoveBuilding(g, e) ==
  IF e \notin DOMAIN g.build THEN g ELSE
  LET b == g.build[e]
      h == IF b.state >= Founded /\ b.blocking
           THEN Decref(g, Owner(g, e), b.place) ELSE g
  IN  [h EXCEPT !.build = Restrict(@, DOMAIN @ \ {e}), !.listening = @ \ {e}]

Mark(g, e) ==
  IF g.build[e].state # Placement THEN g ELSE [g EXCEPT !.build[e].state = Marked]

\* Variant: room is made for the materials, and nobody is asked for them.
FoundsSilently(g, e, blocking) ==
  IF g.build[e].state # Marked THEN g ELSE
  LET h == [g EXCEPT !.build[e].state = Founded, !.build[e].blocking = blocking]
      placed == IF blocking
                THEN [Incref(h, Owner(g, e), g.pos[e])
                        EXCEPT !.build[e].place = g.pos[e]]
                ELSE h
      room(x, r) == SetAltCapacity(x, e, r, g.build[e].required[r])
  IN  [EachResource(room, placed) EXCEPT !.listening = @ \union {e}]

Found(g, e, blocking) ==
  IF g.build[e].state # Marked THEN g ELSE
  LET h == [g EXCEPT !.build[e].state = Founded, !.build[e].blocking = blocking]
      placed == IF blocking
                THEN [Incref(h, Owner(g, e), g.pos[e])
                        EXCEPT !.build[e].place = g.pos[e]]
                ELSE h
      ask(x, r) == SetAltDesired(
                     SetAltCapacity(x, e, r, g.build[e].required[r]),
                     e, r, g.build[e].required[r])
  IN  [EachResource(ask, placed) EXCEPT !.listening = @ \union {e}]

Supply(g, e) ==
  IF g.build[e].state # Founded THEN g ELSE
  ClearCurr(ClearAlt([g EXCEPT !.build[e].state = Supplied,
                               !.listening = @ \ {e}], e), e)

Complete(g, e) ==
  IF g.build[e].state # Supplied THEN g ELSE
  LET h == SetUseAlt(g, e, FALSE)
  IN  [(IF g.build[e].isSite THEN h ELSE RemoveSite(h, e))
         EXCEPT !.build[e].state = Completed]

\* Variant: the blockers are put down again where they were.
BoundsStale(g, e) ==
  IF \/ e \notin DOMAIN g.build
     \/ g.build[e].state < Founded
     \/ ~g.build[e].blocking
  THEN g
  ELSE LET h == Decref(g, Owner(g, e), g.build[e].place)
       IN  Incref([h EXCEPT !.build[e].place = g.pos[e]], Owner(g, e), g.build[e].place)

UpdateBounds(g, e) ==
  IF \/ e \notin DOMAIN g.build
     \/ g.build[e].state < Founded
     \/ ~g.build[e].blocking
  THEN g
  ELSE LET h == Decref(g, Owner(g, e), g.build[e].place)
       IN  Incref([h EXCEPT !.build[e].place = g.pos[e]], Owner(g, e), g.pos[e])

UpdateBuildingFaction(g, e, old, new) ==
  IF \/ e \notin DOMAIN g.build
     \/ g.build[e].state < Founded
     \/ ~g.build[e].blocking
  THEN g
  ELSE Incref(Decref(g, old, g.build[e].place), new, g.build[e].place)

\* A building as it was saved, put through its stages again.
LoadBuilding(g, e, b) ==
  LET h == [g EXCEPT !.build[e].isSite = b.isSite,
                     !.build[e].required = b.required,
                     !.build[e].place = b.place]
      marked == IF b.state >= Marked THEN Mark(h, e) ELSE h
      founded == IF b.state >= Founded THEN Found(marked, e, b.blocking) ELSE marked
      supplied == IF b.state >= Supplied THEN Supply(founded, e) ELSE founded
  IN  IF b.state = Completed THEN Complete(supplied, e) ELSE supplied

(***************************************************************************)
(* game.c                                                                  *)
(***************************************************************************)
EmptyGame == [site |-> <<>>, build |-> <<>>, faction |-> <<>>,
              res |-> [f \in Faction |-> Zero], cap |-> [f \in Faction |-> Zero],
              blockers |-> [f \in Faction |-> [p \in Place |-> 0]],
              pos |-> <<>>, listening |-> {}, changed |-> [e \in Entity |-> 0]]

Active(g) == DOMAIN g.faction

With(fun, e, v) == [x \in DOMAIN fun \union {e} |-> IF x = e THEN v ELSE fun[x]]

\* hasSite: the flag of the entity, which a building sets while it is built.
AddEntity(g, e, p, hasSite) ==
  LET h == [g EXCEPT !.faction = With(@, e, Neutral), !.pos = With(@, e, p)]
      s == IF hasSite THEN AddSite(h, e) ELSE h
  IN  IF e \in Buildings THEN AddBuilding(s, e, hasSite) ELSE s

\* The order of G_RemoveEntity and G_Zombiefy; the events that are still
\* queued for the entity find no handler any more.
RemoveEntity(g, e) ==
  LET h == RemoveSite(RemoveBuilding(g, e), e)
  IN  [h EXCEPT !.faction = Restrict(@, DOMAIN @ \ {e}),
                !.pos = Restrict(@, DOMAIN @ \ {e}), !.changed[e] = 0]

SetFactionID(g, e, f) ==
  LET old == Owner(g, e)
      h == [g EXCEPT !.faction[e] = f]
  IN  IF f = old THEN g
      ELSE UpdateBuildingFaction(UpdateSiteFaction(h, e, old, f), e, old, f)

SetPos(g, e, p) == UpdateBounds([g EXCEPT !.pos[e] = p], e)

EachEntity(Op(_, _), g, S) == FoldSet(LAMBDA e, h : Op(h, e), g, S)

\* The scripts' objects first, then the buildings, then the sites; then the
\* totals are overwritten and the events this has caused are dropped.
LoadGame(saved) ==
  LET create(h, e) == SetFactionID(AddEntity(h, e, saved.pos[e], e \in DOMAIN saved.site),
                                   e, saved.faction[e])
      objects == EachEntity(create, EmptyGame, DOMAIN saved.faction)
      built == EachEntity(LAMBDA h, e : LoadBuilding(h, e, saved.build[e]),
                       objects, DOMAIN saved.build)
      stored == EachEntity(LAMBDA h, e : LoadSite(h, e, saved.site[e]),
                        built, DOMAIN saved.site)
  IN  [stored EXCEPT !.res = saved.res, !.cap = saved.cap,
                     !.changed = [e \in Entity |-> 0]]

-----------------------------------------------------------------------------
NoFile == [game |-> EmptyGame, spent |-> [f \in Faction |-> Zero]]

Init ==
  /\ game = EmptyGame
  /\ spent = [f \in Faction |-> Zero]
  /\ file = NoFile
  /\ adds = 0
  /\ saves = 0
  /\ loaded = FALSE

\* A call from a script or a handler changes the game and nothing else.
Becomes(g) ==
  /\ game' = g
  /\ loaded' = FALSE
  /\ UNCHANGED <<spent, file, adds, saves>>

\* What a founded building holds is used up when it becomes supplied.
SpentBy(g, h) ==
  LET used == {e \in Active(g) \intersect DOMAIN g.build :
                 g.build[e].state = Founded /\ h.build[e].state = Supplied}
  IN  [f \in Faction |-> [r \in Resource |->
         spent[f][r] + SumFunction([e \in {x \in used : Owner(g, x) = f} |->
                                      g.site[e].curr[r]])]]

Supplies(g) ==
  /\ game' = g
  /\ spent' = SpentBy(game, g)
  /\ loaded' = FALSE
  /\ UNCHANGED <<file, adds, saves>>

\* A script makes an object: it is added, and a building is told what it needs.
Create(e, p, needs) ==
  /\ e \notin Active(game)
  /\ adds + saves < MaxMade
  /\ e \in Buildings \/ needs = Zero
  /\ game' = LET g == AddEntity(game, e, p, e \in Sites)
             IN  IF e \in Buildings THEN [g EXCEPT !.build[e].required = needs] ELSE g
  /\ adds' = adds + 1
  /\ loaded' = FALSE
  /\ UNCHANGED <<spent, file, saves>>

Destroy(e) == e \in Active(game) /\ Becomes(RemoveEntity(game, e))

Hand(e, f) == /\ e \in Active(game)
              /\ f # Owner(game, e)
              /\ Becomes(SetFactionID(game, e, f))

Move(e, p) == e \in Active(game) /\ p # game.pos[e] /\ Becomes(SetPos(game, e, p))

\* The methods of a storage site are there for its class only.
HasMethods(e) == e \in Sites /\ e \in DOMAIN game.site

ScriptCapacity(e, r, n) ==
  /\ HasMethods(e)
  /\ \/ Recapacity
     \/ game.site[e].capacity[r] = 0 /\ game.site[e].curr[r] = 0
  /\ Becomes(SetCapacity(game, e, r, n))

\* A script sets an amount, or a harvester brings or takes some.
Store(e, r, n) ==
  /\ e \in DOMAIN game.site
  /\ n # game.site[e].curr[r]
  /\ game.changed[e] < MaxQueued
  /\ CurrAllowed(game, e, r, n)
  /\ Becomes(SetCurr(game, e, r, n))

ScriptDesired(e, r, n) == HasMethods(e) /\ Becomes(SetDesired(game, e, r, n))

ScriptMark(e) ==
  /\ e \in DOMAIN game.build
  /\ game.build[e].state = Placement
  /\ Becomes(Mark(game, e))

ScriptFound(e, blocking) ==
  /\ e \in DOMAIN game.build
  /\ game.build[e].state = Marked
  /\ Becomes(Found(game, e, blocking))

ScriptSupply(e) ==
  /\ e \in DOMAIN game.build
  /\ game.build[e].state = Founded
  /\ Supplies(Supply(game, e))

ScriptComplete(e) ==
  /\ e \in DOMAIN game.build
  /\ game.build[e].state = Supplied
  /\ Becomes(Complete(game, e))

\* The event loop delivers one EVENT_STORAGE_SITE_AMOUNT_CHANGED.
OnAmountChanged(e) ==
  /\ game.changed[e] > 0
  /\ LET g == [game EXCEPT !.changed[e] = @ - 1]
     IN  Supplies(IF e \in g.listening /\ IsSaturated(g, e) THEN Supply(g, e) ELSE g)

\* Saving first delivers what is queued (E_FlushEventQueue).
Save ==
  /\ adds + saves < MaxMade
  /\ \A e \in Entity : game.changed[e] = 0
  /\ file' = [game |-> game, spent |-> spent]
  /\ saves' = saves + 1
  /\ loaded' = FALSE
  /\ UNCHANGED <<game, spent, adds>>

Load ==
  /\ saves > 0
  /\ game' = LoadGame(file.game)
  /\ spent' = file.spent
  /\ loaded' = TRUE
  /\ UNCHANGED <<file, adds, saves>>

Next ==
  \/ \E e \in Entity :
       \/ \E p \in Place, needs \in [Resource -> Amount] : Create(e, p, needs)
       \/ Destroy(e)
       \/ \E f \in Faction : Hand(e, f)
       \/ \E p \in Place : Move(e, p)
       \/ \E r \in Resource, n \in Amount :
            ScriptCapacity(e, r, n) \/ Store(e, r, n) \/ ScriptDesired(e, r, n)
       \/ ScriptMark(e)
       \/ \E blocking \in BOOLEAN : ScriptFound(e, blocking)
       \/ ScriptSupply(e)
       \/ ScriptComplete(e)
       \/ OnAmountChanged(e)
  \/ Save
  \/ Load

Spec == Init /\ [][Next]_vars
-----------------------------------------------------------------------------
SiteRecord == [capacity : [Resource -> Nat], curr : [Resource -> Nat],
               desired : [Resource -> Nat], altCapacity : [Resource -> Nat],
               altDesired : [Resource -> Nat], useAlt : BOOLEAN]
BuildRecord == [state : Placement..Completed, blocking : BOOLEAN, isSite : BOOLEAN,
                place : Place, required : [Resource -> Nat]]

\* What is in memory is well-formed: tables of amounts that are not negative,
\* totals that may be anything, and state only for entities that exist.
GameOK(g) ==
  /\ Active(g) \subseteq Entity /\ g.faction \in [Active(g) -> Faction]
  /\ g.pos \in [Active(g) -> Place]
  /\ DOMAIN g.build = Active(g) \intersect Buildings
  /\ g.build \in [DOMAIN g.build -> BuildRecord]
  /\ DOMAIN g.site \subseteq Active(g) /\ g.site \in [DOMAIN g.site -> SiteRecord]
  /\ g.res \in [Faction -> Table] /\ g.cap \in [Faction -> Table]
  /\ g.blockers \in [Faction -> [Place -> Nat]]
  /\ g.listening \subseteq DOMAIN g.build
  /\ g.changed \in [Entity -> Nat]

\* The type invariant of the memory, the saved game and the history variables.
TypeOK ==
  /\ GameOK(game) /\ GameOK(file.game)
  /\ spent \in [Faction -> [Resource -> Nat]]
  /\ file.spent \in [Faction -> [Resource -> Nat]]
  /\ adds \in Nat /\ saves \in Nat /\ adds + saves <= MaxMade /\ loaded \in BOOLEAN

SitesOf(g, f) == {e \in DOMAIN g.site : Owner(g, e) = f}
StoredBy(g, f, r) == SumFunction([e \in SitesOf(g, f) |-> g.site[e].curr[r]])
CapacityOf(g, f, r) ==
  SumFunction([e \in SitesOf(g, f) |-> EffectiveCapacity(g.site[e])[r]])

\* The table of a faction's resources (s_global_resource_tables) is kept by
\* differences, in six functions; through hand-overs, removals and loads it
\* stays the sum of what the faction's sites hold, but for what its buildings
\* have used up, which is never taken off.
StoredExact ==
  \A f \in Faction, r \in Resource : game.res[f][r] = StoredBy(game, f, r) + spent[f][r]

\* The table of capacities is the sum of the capacities in force, whichever of
\* its two tables a site uses at the moment.
CapacityExact ==
  \A f \in Faction, r \in Resource : game.cap[f][r] = CapacityOf(game, f, r)

\* A faction's totals, what it has and what it could hold, are those of its sites.
TotalsExact == TypeOK /\ StoredExact /\ CapacityExact

\* What the scripts are told a faction has is what its sites hold.
StoredIsTotal ==
  \A f \in Faction, r \in Resource : game.res[f][r] = StoredBy(game, f, r)

\* The navigation's blockers count, for each faction, the founded buildings
\* that block the ground they stand on: M_NavBlockersIncrefOBB and DecrefOBB
\* are paired through founding, moving, handing over, removing and loading.
Standing(g, f, p) ==
  {e \in DOMAIN g.build : /\ g.build[e].state >= Founded /\ g.build[e].blocking
                          /\ Owner(g, e) = f /\ g.pos[e] = p}
BlockersExact ==
  \A f \in Faction, p \in Place : game.blockers[f][p] = Cardinality(Standing(game, f, p))

\* A founded building whose needs are met has an event on its way that will
\* find a handler: no building waits, fully stocked, for supplies.  One that
\* needs nothing is the exception, as nothing will ever change for it.
SupplyNotMissed ==
  \A e \in DOMAIN game.build :
    /\ (game.build[e].state = Founded) = (e \in game.listening)
    /\ (/\ game.build[e].state = Founded
        /\ IsSaturated(game, e)
        /\ game.build[e].required # Zero) => game.changed[e] > 0

\* Harvesters look for a site that desires what they carry: a founded building
\* desires exactly what it still lacks, so it can be supplied, and no other
\* building under construction asks for anything or has room for it.
AsksForMissing ==
  \A e \in DOMAIN game.build, r \in Resource :
    game.build[e].state < Completed =>
      /\ e \in DOMAIN game.site
      /\ LET lacks == game.build[e].required[r] - game.site[e].curr[r]
         IN  IF game.build[e].state = Founded
             THEN Desires(game, e, r) = (lacks > 0) /\ lacks >= 0
             ELSE ~Desires(game, e, r) /\ game.site[e].curr[r] = 0

\* A building under construction asks for what it lacks until it has it, and then
\* is supplied.
SupplyAsked == SupplyNotMissed /\ AsksForMissing

\* Loading puts back what was saved, although it goes through setters that may
\* refuse: sites, buildings, totals, blockers and handlers are as they were.
LoadRestores == loaded => game = file.game
-----------------------------------------------------------------------------
(* The inductive invariant of which the properties follow: of every entity, *)
(* and of what is kept of all of them.  It holds of what is in memory and of *)
(* what is in the file.                                                      *)

Fields == {"site", "build", "faction", "res", "cap", "blockers", "pos", "listening", "changed"}
IsGame(g) == g = [k \in Fields |-> g[k]]

UnderWork(g, e) == e \in DOMAIN g.build /\ g.build[e].state < Completed
IsFounded(g, e) == e \in DOMAIN g.build /\ g.build[e].state = Founded

\* A building stands where it blocks, and listens while it is founded.
BuildOK(g, e) ==
  LET b == g.build[e]
  IN  /\ b.isSite <=> e \in Sites
      /\ b.blocking => b.state >= Founded /\ b.place = g.pos[e]
      /\ b.state = Founded <=> e \in g.listening

\* A site has its alternative tables for a founded building's materials, uses
\* them while it is built, and never holds more than there is room for.
Asked(g, e) == IF IsFounded(g, e) THEN g.build[e].required ELSE Zero
SiteOK(g, e) ==
  LET s == g.site[e]
  IN  /\ s.useAlt <=> UnderWork(g, e)
      /\ s.altCapacity = Asked(g, e) /\ s.altDesired = Asked(g, e)
      /\ \A r \in Resource : /\ s.desired[r] <= s.capacity[r]
                             /\ s.curr[r] <= EffectiveCapacity(s)[r]

EntityOK(g, e) ==
  /\ e \in DOMAIN g.build => BuildOK(g, e)
  /\ e \in DOMAIN g.site <=> e \in Active(g) /\ (e \in Sites \/ UnderWork(g, e))
  /\ e \in DOMAIN g.site => SiteOK(g, e)
  /\ IsFounded(g, e) /\ IsSaturated(g, e) /\ g.build[e].required # Zero => g.changed[e] > 0

BooksOK(g, s) ==
  /\ \A f \in Faction, r \in Resource : /\ g.res[f][r] = StoredBy(g, f, r) + s[f][r]
                                       /\ g.cap[f][r] = CapacityOf(g, f, r)
  /\ \A f \in Faction, p \in Place : g.blockers[f][p] = Cardinality(Standing(g, f, p))

Sound(g, s) ==
  /\ IsGame(g) /\ GameOK(g)
  /\ \A e \in Entity : EntityOK(g, e)
  /\ BooksOK(g, s)

IInv ==
  /\ TypeOK
  /\ Sound(game, spent) /\ Sound(file.game, file.spent)
  /\ file.game.changed = [e \in Entity |-> 0]
  /\ LoadRestores
=============================================================================
