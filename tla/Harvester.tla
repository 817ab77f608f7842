------------------------------ MODULE Harvester ------------------------------
(* One harvester (game/harvester.c) among deposits (game/resource.c) and the *)
(* storage sites and building sites of Storage.  It gathers, drops off, picks *)
(* up, transports from site to site, and supplies a building it then builds. *)
(*                                                                          *)
(* The functions of harvester.c call one another: each is an operator from  *)
(* a world to the set of worlds it may leave, as which of several entities  *)
(* is nearest, and whether one is within reach, is left open.  A world is   *)
(* [h : the harvester, g : the game of Storage, left : the amounts in the   *)
(* deposits that exist, used : what went into buildings, bad : has an       *)
(* assertion failed or NULL been read?].                                    *)
(* `near` is what the harvester stands next to (M_NavObjAdjacent).          *)
(*                                                                          *)
(* on_motion_begin_travel is left out: it is registered for an event of the *)
(* entity, and EVENT_ORDER_ISSUED is only ever notified as a global event.  *)
EXTENDS Storage, Motion

CONSTANTS
  None,           \* UID_NONE, NULL, CMD_NONE: no entity, resource or command
  Deposits,       \* entities that are resources
  KindOf, InGround, \* their resource; the amount they start with
  MaxCarry, Speed, CycleUnits, \* a cycle gathers Speed \div CycleUnits, summed up
  Priority,       \* in which order resources are transported
  Us, Strategy,   \* its faction; the strategy it is given at first
  Stock, Room, Wish, Needs, \* what sites hold, can and should; a building's needs
  Zombies,        \* do scripts refer to sites that are destroyed?
  StaleSaves,     \* is the game saved when the state is that of an errand given up?
  RoomAssured,    \* is nothing ordered that needs a drop-off site where there is none?
  MaxNear,        \* bound: things next to the harvester at a time
  MaxInbox, MaxEvents \* bounds: events queued for it; interventions of others

Strategies == {"nearest", "excess", "gathering"}

ASSUME HarvesterAssumption ==
  /\ None \notin Entity \union Deposits \union Resource
  /\ Deposits \intersect Entity = {}
  /\ KindOf \in [Deposits -> Resource] /\ InGround \in [Deposits -> Nat \ {0}]
  /\ MaxCarry \in [Resource -> Nat \ {0}] /\ Speed \in [Resource -> Nat \ {0}]
  /\ CycleUnits \in Nat \ {0} /\ Us \in Faction
  /\ IsFiniteSet(Deposits) /\ IsFiniteSet(Faction) /\ Place # {}
  /\ Priority \in Seq(Resource)
  /\ {Stock, Room, Wish} \subseteq [Sites -> [Resource -> Nat]]
  /\ Needs \in [Buildings -> [Resource -> Nat]]
  \* SetCurr refuses what does not fit, and foundations have no room yet.
  /\ \A e \in Sites, r \in Resource :
       Stock[e][r] <= IF e \in Buildings THEN 0 ELSE Room[e][r]
  /\ Strategy \in Strategies
  /\ {Zombies, StaleSaves, RoomAssured} \subseteq BOOLEAN
  /\ {MaxNear, MaxInbox, MaxEvents} \subseteq Nat

VARIABLES
  harvester,
  deposits, \* the amount in each deposit that exists
  zombies,  \* destroyed sites that a script still refers to, and their factions
  kept,     \* the sites from which nothing is to be taken
  events,   \* interventions of others so far
  outside,  \* what others took away, less what they brought, by resource (history)
  failed    \* has an assertion failed, or NULL been read? (history)

hvars == <<harvester, deposits, zombies, kept, events, outside, failed>>
allVars == <<vars, hvars>>

Things == Entity \union Deposits
Reach == {near \in SUBSET Things : Cardinality(near) <= MaxNear}

World == [h |-> harvester, g |-> game, left |-> deposits, used |-> spent, bad |-> failed]

Exists(s, e) == e \in Active(s.g) \union DOMAIN zombies
IsSite(s, e) == e \in DOMAIN s.g.site
FactionOf(s, e) == IF e \in DOMAIN zombies THEN zombies[e] ELSE Owner(s.g, e)

(***************************************************************************)
(* Handlers, and the searches for the nearest                              *)
(***************************************************************************)
AtWork == {"on_harvest_anim_finished", "on_motion_begin_harvest"}
AtWorkSource == {"on_harvest_anim_finished_source", "on_motion_begin_harvest"}
Harvesting == AtWork \union AtWorkSource \union
                {"on_arrive_at_resource", "on_arrive_at_resource_source"}
OnArrival == {"on_arrive_at_resource", "on_arrive_at_resource_source",
              "on_arrive_at_storage", "on_arrive_at_transport_source",
              "on_arrive_at_transport_dest", "on_motion_end"}
Handlers == Harvesting \union OnArrival

Drop(s, handlers) == [s EXCEPT !.h.handlers = @ \ handlers]

\* On its way to an entity, to be told of the arrival.
GoTo(s, handler) ==
  LET h == SurroundEntity(s.h)
  IN  [s EXCEPT !.h = [h EXCEPT !.handlers = @ \union {handler}]]

Carried(s) == {r \in Resource : s.h.carry[r] > 0}
CarriedName(s) == CHOOSE r \in Carried(s) : TRUE

LeftIn(s, e, r) == EffectiveCapacity(s.g.site[e])[r] - s.g.site[e].curr[r]

DropOffSites(s, r) ==
  {e \in DOMAIN s.g.site : /\ Owner(s.g, e) = Us
                           /\ EffectiveCapacity(s.g.site[e])[r] # 0
                           /\ LeftIn(s, e, r) # 0}

\* No goods are taken from the site of a building that is not yet supplied.
ValidSources(s, r, self, faction, strategy) ==
  {e \in DOMAIN s.g.site \ ({self} \union kept) :
     /\ Owner(s.g, e) = faction
     /\ e \in DOMAIN s.g.build => s.g.build[e].state >= Supplied
     /\ strategy = "excess" =>
          EffectiveDesired(s.g.site[e])[r] < s.g.site[e].curr[r]
     /\ EffectiveCapacity(s.g.site[e])[r] # 0
     /\ s.g.site[e].curr[r] # 0}

Sources(s, r, self, faction) ==
  LET preferred == ValidSources(s, r, self, faction, s.h.strategy)
  IN  IF preferred = {} THEN ValidSources(s, r, self, faction, "nearest")
      ELSE preferred

OfKind(s, r) == {d \in DOMAIN s.left : KindOf[d] = r}

\* transport_resource: the first that a site desires more of than it has.
Wanted(s, e) ==
  LET wanted == {i \in DOMAIN Priority : Desires(s.g, e, Priority[i])}
  IN  IF wanted = {} THEN None ELSE Priority[Min(wanted)]

\* pick_up_resource
OnOffer(s, e) ==
  LET offered == {i \in DOMAIN Priority : s.g.site[e].curr[Priority[i]] > 0}
  IN  IF offered = {} THEN None ELSE Priority[Min(offered)]

(***************************************************************************)
(* Stopping and dropping off                                               *)
(***************************************************************************)
Idle(s) == [s EXCEPT !.h.state = "NOT_HARVESTING"]

FinishHarvesting(s) ==
  Idle(Drop([s EXCEPT !.h.res = None, !.h.resName = None, !.h.accum = 0], Harvesting))

FinishTransporting(s) ==
  Idle([s EXCEPT !.h.dest = None, !.h.src = None, !.h.resName = None])

HarvesterStop(s) == Idle(Drop(s, Handlers \ {"on_motion_end"}))
ClearQueuedCmd(s) == [s EXCEPT !.h.cmd = None, !.h.arg = None]

EntityDropOff(s, e) ==
  GoTo([s EXCEPT !.h.state = "SEEK_STORAGE", !.h.ss = e], "on_arrive_at_storage")

TryDropOff(s) ==
  IF Carried(s) = {} \/ DropOffSites(s, CarriedName(s)) = {} THEN {Idle(s)}
  ELSE {EntityDropOff(s, e) : e \in DropOffSites(s, CarriedName(s))}

DropOff(s, e) ==
  IF ~IsSite(s, e) \/ Carried(s) = {} THEN s
  ELSE EntityDropOff([HarvesterStop(s) EXCEPT !.h.dropOffOnly = TRUE], e)

\* Where Gather and SupplyBuilding pass what may be NULL.
DropOffNearest(s) ==
  LET sites == DropOffSites(s, CarriedName(s))
  IN  IF sites # {} THEN {DropOff(s, e) : e \in sites}
      ELSE IF RoomAssured THEN {} ELSE {[s EXCEPT !.bad = TRUE]}

(***************************************************************************)
(* Gathering                                                               *)
(***************************************************************************)
\* The deposit is at hand: the rest of on_arrive_at_resource.
AtResource(s) ==
  IF s.h.carry[s.h.resName] = MaxCarry[s.h.resName] THEN TryDropOff(s)
  ELSE {[s EXCEPT !.h.state = "HARVESTING", !.h.handlers = @ \union AtWork]}

\* A deposit that is exhausted is no resource any more.
Gather(s, d, near) ==
  LET t == [s EXCEPT !.h.state = "SEEK_RESOURCE", !.h.res = d, !.h.resName = KindOf[d]]
  IN  IF d \notin DOMAIN s.left THEN {s}
      ELSE IF Carried(s) \ {KindOf[d]} # {}
      THEN DropOffNearest([s EXCEPT !.h.cmd = "gather", !.h.arg = d])
      ELSE IF d \notin near THEN {GoTo(t, "on_arrive_at_resource")}
      ELSE IF Still(t.h) THEN AtResource(Drop(t, {"on_arrive_at_resource"}))
      ELSE {t}

\* The nearest within a radius, if there is one.
TryGatherNearest(s, r, near) ==
  TryDropOff(s) \union UNION {Gather(s, d, near) : d \in OfKind(s, r)}

ArriveAtResource(s, near) ==
  LET t == Drop(s, {"on_arrive_at_resource"})
  IN  IF ~Still(s.h) THEN {s}
      ELSE IF s.h.res = None THEN {[t EXCEPT !.bad = TRUE]}
      ELSE IF s.h.res \in DOMAIN s.left /\ s.h.res \in near THEN AtResource(t)
      ELSE TryGatherNearest(t, s.h.resName, near)

\* One cycle of work, from which more than nothing results: what is taken and
\* what is left; a deposit with nothing left is turned into a zombie.
Gathered(s) == (s.h.accum + Speed[KindOf[s.h.res]]) \div CycleUnits

Mine(s) ==
  LET d == s.h.res
      r == KindOf[d]
      carry == Lesser(MaxCarry[r], s.h.carry[r] + Lesser(Gathered(s), s.left[d]))
      left == s.left[d] - (carry - s.h.carry[r])
  IN  [s EXCEPT !.h.accum = 0, !.h.carry[r] = carry,
                !.left = IF left = 0 THEN Restrict(@, DOMAIN @ \ {d})
                         ELSE [@ EXCEPT ![d] = left]]

Accumulate(s) == [s EXCEPT !.h.accum = @ + Speed[KindOf[s.h.res]]]
HandsFull(s, r) == s.h.carry[r] = MaxCarry[r]

\* Variant: a deposit that somebody else has exhausted is waited for.
WaitsForDeposit(s, near) ==
  LET r == KindOf[s.h.res]
      t == Mine(s)
  IN  IF s.h.res \notin DOMAIN s.left THEN {s}
      ELSE IF Gathered(s) = 0 THEN {Accumulate(s)}
      ELSE IF s.h.res \notin DOMAIN t.left /\ ~HandsFull(t, r)
      THEN TryGatherNearest(FinishHarvesting(t), s.h.resName, near)
      ELSE IF HandsFull(t, r) THEN TryDropOff(Drop(t, AtWork))
      ELSE {t}

OnHarvestAnim(s, near) ==
  LET r == KindOf[s.h.res]
      t == Mine(s)
  IN  IF s.h.res \notin DOMAIN s.left
      THEN TryGatherNearest(FinishHarvesting(s), s.h.resName, near)
      ELSE IF Gathered(s) = 0 THEN {Accumulate(s)}
      ELSE IF s.h.res \notin DOMAIN t.left /\ ~HandsFull(t, r)
      THEN TryGatherNearest(FinishHarvesting(t), s.h.resName, near)
      ELSE IF HandsFull(t, r) THEN TryDropOff(Drop(t, AtWork))
      ELSE {t}

OnMotionBegin(s) ==
  [FinishHarvesting(s) EXCEPT
     !.bad = @ \/ s.h.state \notin {"HARVESTING", "TRANSPORT_HARVESTING"}]

(***************************************************************************)
(* Transporting                                                            *)
(***************************************************************************)
\* Puts down what fits, and keeps the rest.
PutDown(s, e) ==
  LET r == CarriedName(s)
      n == IF LeftIn(s, e, r) >= s.h.carry[r] THEN s.h.carry[r] ELSE LeftIn(s, e, r)
  IN  [s EXCEPT !.h.carry[r] = @ - n,
                !.g = SetCurr(@, e, r, @.site[e].curr[r] + n)]

PutInto(s) ==
  GoTo([s EXCEPT !.h.state = "TRANSPORT_PUTTING"], "on_arrive_at_transport_dest")

\* How much to take; with the strategy `excess` as much as the nearest source
\* has, as that is only what others desire where no site has an excess.
Takes(s) ==
  LET r == s.h.resName
      site == s.g.site[s.h.src]
      space == MaxCarry[r] - s.h.carry[r]
      all == Lesser(space, site.curr[r])
      excess == Lesser(space, site.curr[r] - EffectiveDesired(site)[r])
      nearest == Sources(s, r, None, Us)
  IN  IF s.h.strategy # "excess" \/ nearest = {s.h.src} THEN {all}
      ELSE {IF excess > 0 THEN excess ELSE 0}
             \union (IF s.h.src \in nearest THEN {all} ELSE {})

\* Variant: what is taken is not taken off the site.
TakeCopies(s, n) == [s EXCEPT !.h.carry[s.h.resName] = @ + n]

Take(s, n) ==
  [s EXCEPT !.h.carry[s.h.resName] = @ + n,
            !.g = SetCurr(@, s.h.src, s.h.resName, @.site[s.h.src].curr[s.h.resName] - n)]

\* The source is at hand: the rest of on_arrive_at_transport_source.
AtSource(s) ==
  LET r == s.h.resName
      onward(t) ==
        LET others == IF HandsFull(t, r) THEN {}
                      ELSE Sources(t, r, s.h.dest, FactionOf(t, s.h.dest))
        IN  IF others # {}
            THEN {[GoTo(t, "on_arrive_at_transport_source") EXCEPT !.h.src = e] : e \in others}
            ELSE IF t.h.carry[r] = 0 THEN {FinishTransporting(t)}
            ELSE {PutInto(t)}
  IN  UNION {LET t == Take(s, n)
             IN  IF Exists(s, s.h.dest) THEN onward(t) ELSE {FinishTransporting(t)}
             : n \in Takes(s)}

\* On the way to take something out of a site, for a destination or for none.
Fetch(s, src, dest, r, near) ==
  LET t == [HarvesterStop(s) EXCEPT !.h.state = "TRANSPORT_GETTING", !.h.src = src,
                                    !.h.dest = dest, !.h.resName = r]
  IN  IF src \notin near THEN {GoTo(t, "on_arrive_at_transport_source")}
      ELSE IF ~Still(t.h) THEN {t}
      ELSE IF src \in kept THEN {FinishTransporting(t)}
      ELSE AtSource(t)

\* The deposit is at hand: the rest of on_arrive_at_resource_source.
AtResourceSource(s) ==
  IF HandsFull(s, s.h.resName) THEN {PutInto(s)}
  ELSE {[s EXCEPT !.h.state = "TRANSPORT_HARVESTING", !.h.handlers = @ \union AtWorkSource]}

\* From here on res and resName are those of the deposit d; the state is not set.
SeekSource(s, d, near) ==
  LET t == [s EXCEPT !.h.res = d, !.h.resName = KindOf[d]]
  IN  IF d \notin near THEN {GoTo(t, "on_arrive_at_resource_source")}
      ELSE IF ~Still(t.h) THEN {t}
      ELSE LET u == Drop(t, {"on_arrive_at_resource_source"})
           IN  IF Exists(u, u.h.dest) THEN AtResourceSource(u) ELSE {FinishTransporting(u)}

FromResources(s, e) ==
  IF s.h.strategy = "gathering" THEN OfKind(s, Wanted(s, e)) ELSE {}

Accepts(s, e) ==
  /\ IsSite(s, e)
  /\ IF Carried(s) # {}
     THEN Desires(s.g, e, CarriedName(s)) \/ DropOffSites(s, CarriedName(s)) # {}
     ELSE /\ Wanted(s, e) # None
          /\ \/ FromResources(s, e) # {}
             \/ Sources(s, Wanted(s, e), e, Owner(s.g, e)) # {}

\* G_Harvester_Transport when no command is queued, where it returns true.
TransportNow(s, e, near) ==
  LET sites == IF Desires(s.g, e, CarriedName(s)) THEN {e}
               ELSE DropOffSites(s, CarriedName(s))
      seeking == [s EXCEPT !.h.state = "TRANSPORT_SEEK_RESOURCE", !.h.dest = e]
  IN  IF Carried(s) # {}
      THEN {[DropOff(s, f) EXCEPT !.h.cmd = "transport", !.h.arg = e] : f \in sites}
      ELSE IF FromResources(s, e) # {}
      THEN UNION {SeekSource(seeking, d, near) : d \in FromResources(s, e)}
      ELSE UNION {Fetch(s, src, e, Wanted(s, e), near)
                    : src \in Sources(s, Wanted(s, e), e, Owner(s.g, e))}

(***************************************************************************)
(* Supplying a building, and what is queued                                *)
(***************************************************************************)
\* G_Harvester_SupplyBuilding; no command is queued.
SupplyBuilding(s, b, near) ==
  IF Carried(s) # {} /\ ~Desires(s.g, b, CarriedName(s))
  THEN DropOffNearest([s EXCEPT !.h.cmd = "supply", !.h.arg = b])
  ELSE IF ~Accepts(s, b) THEN {s}
  ELSE {[t EXCEPT !.h.cmd = "build", !.h.arg = b] : t \in TransportNow(s, b, near)}

\* builder.c: on_motion_end, at rest and at the building, which is founded.
\* What comes after its supply is in Builder.
AtBuilding(s, b, near) ==
  LET g == IF s.g.build[b].state = Founded /\ IsSaturated(s.g, b) THEN Supply(s.g, b) ELSE s.g
      t == [s EXCEPT !.g = g, !.used = SpentBy(s.g, g), !.h.building = None]
  IN  IF g.build[b].state < Supplied THEN SupplyBuilding(HarvesterStop(t), b, near) ELSE {t}

ArriveAtBuilding(s, near) ==
  LET b == s.h.building
      t == Drop(s, {"on_motion_end"})
  IN  IF ~Still(s.h) THEN {s}
      ELSE IF ~Exists(s, b) \/ b \notin near THEN {[t EXCEPT !.h.building = None]}
      ELSE IF b \in DOMAIN zombies THEN {[t EXCEPT !.bad = TRUE]}
      ELSE AtBuilding(t, b, near)

\* G_Builder_Build
Build(s, b, near) ==
  LET t == [s EXCEPT !.h.building = b]
  IN  IF b \notin DOMAIN s.g.build THEN {s}
      ELSE IF b \in near THEN ArriveAtBuilding(Drop(t, {"on_motion_end"}), near)
      ELSE {GoTo(t, "on_motion_end")}

DoQueued(s, near) ==
  LET arg == s.h.arg
      t == ClearQueuedCmd(s)
      outcomes ==
        CASE s.h.cmd = "gather" -> Gather(t, arg, near)
          [] s.h.cmd = "transport" /\ Accepts(s, arg) -> TransportNow(t, arg, near)
          [] s.h.cmd = "build" /\ Exists(s, arg) -> Build(t, arg, near)
          [] s.h.cmd = "supply" /\ Exists(s, arg) -> SupplyBuilding(t, arg, near)
          [] OTHER -> {t}
  IN  {[u EXCEPT !.h.dropOffOnly = FALSE] : u \in outcomes}

Transport(s, e, near) ==
  IF ~IsSite(s, e) THEN {s}
  ELSE IF s.h.cmd # None THEN DoQueued(s, near)
  ELSE IF Accepts(s, e) THEN TransportNow(s, e, near)
  ELSE {s}

PickUp(s, e, near) ==
  IF Carried(s) # {} \/ ~IsSite(s, e) THEN {s}
  ELSE IF OnOffer(s, e) = None THEN {s}
  ELSE Fetch(s, e, None, OnOffer(s, e), near)

ArriveAtStorage(s, near) ==
  LET t == Drop(s, {"on_arrive_at_storage"})
      u == PutDown(t, s.h.ss)
      done == [Idle(u) EXCEPT !.h.ss = None, !.h.resName = None]
      again == IF s.h.res \in DOMAIN s.left THEN {s.h.res}
               ELSE OfKind(s, CarriedName(s)) \union {None}
  IN  IF ~Still(s.h) THEN {s}
      ELSE IF s.h.ss = None THEN {[t EXCEPT !.bad = TRUE]}
      ELSE IF ~IsSite(s, s.h.ss) \/ s.h.ss \notin near THEN TryDropOff(t)
      ELSE IF Carried(s) = {} THEN {[t EXCEPT !.bad = TRUE]}
      ELSE IF Carried(u) # {} THEN TryDropOff(u)
      ELSE UNION {IF d # None /\ ~u.h.dropOffOnly THEN Gather(u, d, near)
                  ELSE DoQueued(done, near) : d \in again}

ArriveAtTransportSource(s, near) ==
  LET t == Drop(s, {"on_arrive_at_transport_source"})
  IN  IF ~Still(s.h) THEN {s}
      ELSE IF IsSite(s, s.h.src) /\ s.h.src \in near \ kept THEN AtSource(t)
      ELSE IF Exists(s, s.h.dest) THEN Transport(FinishTransporting(t), s.h.dest, near)
      ELSE {FinishTransporting(t)}

ArriveAtTransportDest(s, near) ==
  LET t == Drop(s, {"on_arrive_at_transport_dest"})
  IN  IF ~Still(s.h) THEN {s}
      ELSE IF ~IsSite(s, s.h.dest) \/ s.h.dest \notin near THEN {FinishTransporting(t)}
      ELSE IF Carried(s) = {} THEN {[t EXCEPT !.bad = TRUE]}
      ELSE Transport(FinishTransporting(PutDown(t, s.h.dest)), s.h.dest, near)

TryGatherNearestSource(s, r, near) ==
  Transport(s, s.h.dest, near)
    \union UNION {SeekSource(s, d, near) : d \in OfKind(s, r)}

ArriveAtResourceSource(s, near) ==
  LET t == Drop(s, {"on_arrive_at_resource_source"})
  IN  IF ~Still(s.h) THEN {s}
      ELSE IF ~Exists(s, s.h.dest) THEN {FinishTransporting(t)}
      ELSE IF s.h.res = None THEN {[t EXCEPT !.bad = TRUE]}
      ELSE IF s.h.res \in DOMAIN s.left /\ s.h.res \in near THEN AtResourceSource(t)
      ELSE TryGatherNearestSource(t, s.h.resName, near)

OnHarvestAnimSource(s, near) ==
  LET r == KindOf[s.h.res]
      t == Mine(s)
  IN  IF ~Exists(s, s.h.dest)
      THEN {[FinishHarvesting(s) EXCEPT !.h.dest = None, !.h.src = None]}
      ELSE IF s.h.res \notin DOMAIN s.left
      THEN TryGatherNearestSource(FinishHarvesting(s), s.h.resName, near)
      ELSE IF Gathered(s) = 0 THEN {Accumulate(s)}
      ELSE IF s.h.res \notin DOMAIN t.left /\ ~HandsFull(t, r)
      THEN TryGatherNearestSource(FinishHarvesting(t), s.h.resName, near)
      ELSE IF Carried(t) = {}
      THEN {[FinishHarvesting(t) EXCEPT !.h.dest = None, !.h.src = None]}
      ELSE IF HandsFull(t, r) THEN {PutInto(Drop(t, AtWorkSource))}
      ELSE {t}
-----------------------------------------------------------------------------
NewHarvester ==
  [state |-> "NOT_HARVESTING", strategy |-> Strategy, ss |-> None, res |-> None,
   resName |-> None, carry |-> Zero, dropOffOnly |-> FALSE, accum |-> 0,
   cmd |-> None, arg |-> None, src |-> None, dest |-> None, building |-> None,
   handlers |-> {}, motion |-> "arrived", inbox |-> <<>>]

\* An event of an entity that nobody listens for is lost on delivery; it is
\* dropped at once.
Heard(g) ==
  [g EXCEPT !.changed = [e \in Entity |-> IF e \in g.listening THEN @[e] ELSE 0]]

\* What scripts have set up before the harvester goes to work: sites with goods
\* in them, and the foundations of the buildings.
Opening ==
  LET place == CHOOSE p \in Place : TRUE
      added(g, e) == SetFactionID(AddEntity(g, e, place, e \in Sites), e, Us)
      all == EachEntity(added, EmptyGame, Entity)
      stocked(g, e) ==
        EachResource(LAMBDA h, r : SetDesired(SetCurr(SetCapacity(h, e, r, Room[e][r]),
                                                      e, r, Stock[e][r]), e, r, Wish[e][r]), g)
      founded(g, e) == Found(Mark([g EXCEPT !.build[e].required = Needs[e]], e), e, FALSE)
  IN  Heard(EachEntity(founded, EachEntity(stocked, all, Sites), Buildings))

HInit ==
  /\ game = Opening
  /\ spent = [f \in Faction |-> Zero]
  /\ file = NoFile /\ adds = 0 /\ saves = 0 /\ loaded = FALSE
  /\ harvester = NewHarvester
  /\ deposits = InGround
  /\ zombies = <<>> /\ kept = {} /\ events = 0
  /\ outside = Zero
  /\ failed = FALSE

\* The handlers that are registered when a game is loaded.
HandlersFor(h) ==
  CASE h.state = "NOT_HARVESTING" -> {}
    [] h.state = "SEEK_RESOURCE" -> {"on_arrive_at_resource"}
    [] h.state = "HARVESTING" -> AtWork
    [] h.state = "SEEK_STORAGE" -> {"on_arrive_at_storage"}
    [] h.state = "TRANSPORT_GETTING" -> {"on_arrive_at_transport_source"}
    [] h.state = "TRANSPORT_PUTTING" -> {"on_arrive_at_transport_dest"}
    [] h.state = "TRANSPORT_SEEK_RESOURCE" -> {"on_arrive_at_resource_source"}
    [] h.state = "TRANSPORT_HARVESTING" -> AtWorkSource

\* What no handler that is registered reads, now or once the game is loaded, is
\* written before it is read again, and is forgotten here.
Remembered(h) ==
  LET registered == h.handlers \union HandlersFor(h)
      reads(handlers, v) == IF registered \intersect handlers = {} THEN None ELSE v
      source == {"on_arrive_at_transport_source"}
      gathers == AtWork \union AtWorkSource \union {"on_arrive_at_resource",
                                                    "on_arrive_at_resource_source"}
  IN  [h EXCEPT !.ss = reads({"on_arrive_at_storage"}, @),
                !.src = reads(source, @),
                !.dest = reads(source \union {"on_arrive_at_transport_dest",
                                              "on_arrive_at_resource_source",
                                              "on_harvest_anim_finished_source"}, @),
                !.resName = reads(source \union gathers, @)]

\* An order has been carried out, or a handler has run.
Leaves(s) ==
  /\ harvester' = Remembered(s.h)
  /\ game' = Heard(s.g) /\ spent' = s.used /\ loaded' = FALSE
  /\ deposits' = s.left
  /\ failed' = s.bad
  /\ UNCHANGED <<file, adds, saves, zombies, kept, events, outside>>

(***************************************************************************)
(* Orders: of a script, and of the player                                  *)
(***************************************************************************)
\* Variant: orders do not stop what was ordered before.
StopsMotionOnly(s, stopMove) ==
  IF stopMove THEN [s EXCEPT !.h = StopMoving(@)] ELSE s

\* G_StopEntity
StopEntity(s, stopMove) ==
  LET t == Drop(ClearQueuedCmd(HarvesterStop(s)), {"on_motion_end"})
      u == [t EXCEPT !.h.building = None]
  IN  IF stopMove THEN [u EXCEPT !.h = StopMoving(@)] ELSE u

\* The bounds are on what comes from outside: a handler runs in any case.
Bounded(s) == Len(s.h.inbox) <= MaxInbox /\ \A e \in Entity : s.g.changed[e] <= MaxQueued
Obeys(outcomes) == \E s \in outcomes : Bounded(s) /\ Leaves(s)

\* After the player's orders G_NotifyOrderIssued clears what they have queued.
Notified(outcomes) == {ClearQueuedCmd(s) : s \in outcomes}

\* Whether what is named is within reach; these look for nothing else.
AtHand(x) == {{}, {x}}

ScriptGather(d) ==
  /\ d \in DOMAIN deposits
  /\ \E near \in AtHand(d) : Obeys(Gather(StopEntity(World, TRUE), d, near))

PlayerGather(d) ==
  /\ d \in DOMAIN deposits
  /\ \E near \in AtHand(d) : Obeys(Notified(Gather(StopEntity(World, TRUE), d, near)))

OrderDropOff(e) ==
  /\ IsSite(World, e)
  /\ Carried(World) # {}
  /\ Obeys({DropOff(StopEntity(World, TRUE), e)})

\* Empty-handed it may find what it is to bring to e at hand.
Sought(e) ==
  IF Carried(World) = {} THEN {near \in Reach : near \subseteq (DOMAIN deposits \union Sites) \ {e}}
  ELSE {{}}

ScriptTransport(e) ==
  /\ IsSite(World, e)
  /\ \E near \in Sought(e) : Obeys(Transport(StopEntity(World, TRUE), e, near))

PlayerTransport(e) ==
  /\ IsSite(World, e)
  /\ \E near \in Sought(e) : Obeys(Notified(Transport(StopEntity(World, TRUE), e, near)))

PlayerPickUp(e) ==
  /\ IsSite(World, e)
  /\ Carried(World) = {}
  /\ \E near \in AtHand(e) : Obeys(Notified(PickUp(StopEntity(World, TRUE), e, near)))

\* A right click on a building: the order is given to the builder it also is.
PlayerBuild(e, near) ==
  /\ e \in DOMAIN game.build
  /\ game.build[e].state < Completed
  /\ Obeys(Notified(Build(StopEntity(World, TRUE), e, near)))

Stop(stopMove) == Obeys({StopEntity(World, stopMove)})

\* G_Harvester_ClearCurrCarry
ClearCarry ==
  LET h == [harvester EXCEPT !.carry = Zero]
  IN  /\ Carried(World) # {}
      /\ events < MaxEvents
      /\ harvester' = IF h.state \in {"SEEK_STORAGE", "TRANSPORT_PUTTING"}
                      THEN [h EXCEPT !.state = "NOT_HARVESTING",
                                     !.handlers = @ \ {"on_arrive_at_storage",
                                                       "on_arrive_at_transport_dest"}]
                      ELSE h
      /\ outside' = Plus(outside, harvester.carry)
      /\ events' = events + 1
      /\ UNCHANGED <<vars, deposits, zombies, kept, failed>>

SetStrategy(strategy) ==
  /\ strategy \in Strategies \ {harvester.strategy}
  /\ events < MaxEvents
  /\ harvester' = [harvester EXCEPT !.strategy = strategy]
  /\ events' = events + 1
  /\ UNCHANGED <<vars, deposits, zombies, kept, outside, failed>>

(***************************************************************************)
(* Events                                                                  *)
(***************************************************************************)
Moves(h) ==
  /\ Len(h.inbox) <= MaxInbox
  /\ harvester' = h
  /\ UNCHANGED <<vars, deposits, zombies, kept, events, outside, failed>>

Walk == harvester.motion # "moving" /\ Moves(StartMoving(harvester))
Arrive == harvester.motion = "moving" /\ Moves(FinishMoving(harvester, "arrived"))
Wait == harvester.motion = "moving" /\ Moves(FinishMoving(harvester, "waiting"))
Halt == harvester.motion = "waiting" /\ Moves(StopMoving(harvester))
\* A cycle of the animation takes longer than the delivery of its end.
AnimCycle ==
  /\ \A i \in DOMAIN harvester.inbox : harvester.inbox[i] # "ANIM_CYCLE_FINISHED"
  /\ Moves(Queue(harvester, "ANIM_CYCLE_FINISHED"))

Handle(handler, s, near) ==
  CASE handler = "on_harvest_anim_finished" -> OnHarvestAnim(s, near)
    [] handler = "on_harvest_anim_finished_source" -> OnHarvestAnimSource(s, near)
    [] handler = "on_motion_begin_harvest" -> {OnMotionBegin(s)}
    [] handler = "on_arrive_at_resource" -> ArriveAtResource(s, near)
    [] handler = "on_arrive_at_resource_source" -> ArriveAtResourceSource(s, near)
    [] handler = "on_arrive_at_storage" -> ArriveAtStorage(s, near)
    [] handler = "on_arrive_at_transport_source" -> ArriveAtTransportSource(s, near)
    [] handler = "on_arrive_at_transport_dest" -> ArriveAtTransportDest(s, near)
    [] handler = "on_motion_end" -> ArriveAtBuilding(s, near)

HandlersOf(event) ==
  CASE event = "MOTION_END" -> OnArrival
    [] event = "MOTION_START" -> {"on_motion_begin_harvest"}
    [] event = "ANIM_CYCLE_FINISHED" ->
         {"on_harvest_anim_finished", "on_harvest_anim_finished_source"}

\* The event loop delivers the first event to its handler, if there is one;
\* HandlersExact has that there is at most one.
Deliver(near) ==
  /\ harvester.inbox # <<>>
  /\ LET s == [World EXCEPT !.h.inbox = Tail(@)]
         handlers == HandlersOf(Head(harvester.inbox)) \intersect harvester.handlers
     IN  IF handlers = {} THEN near = {} /\ Leaves(s)
         ELSE \E handler \in handlers : \E t \in Handle(handler, s, near) : Leaves(t)

\* The game is saved and loaded: handlers are registered for the state.  What
\* else is saved is read back as it was (LoadRestores of Storage).  The state
\* of an errand that was given up for a building brings back its handler.
Reload ==
  /\ harvester.inbox = <<>>
  /\ \/ StaleSaves
     \/ "on_motion_end" \notin harvester.handlers
     \/ HandlersFor(harvester) \subseteq harvester.handlers
  /\ harvester' = [harvester EXCEPT !.handlers = HandlersFor(harvester) \union
                                      (@ \intersect {"on_motion_end"})]
  /\ UNCHANGED <<vars, deposits, zombies, kept, events, outside, failed>>

OnSupplied(e) == OnAmountChanged(e) /\ UNCHANGED hvars

(***************************************************************************)
(* What others do meanwhile                                                *)
(***************************************************************************)
Meanwhile(g, left, gone) ==
  /\ events < MaxEvents
  /\ events' = events + 1
  /\ Becomes(Heard(g))
  /\ \A e \in Entity : g.changed[e] <= MaxQueued
  /\ deposits' = left
  /\ outside' = Plus(outside, gone)
  /\ UNCHANGED <<harvester, failed>>

\* Another harvester, or a script, brings goods or takes some.
OthersStore(e, r, n) ==
  /\ IsSite(World, e)
  /\ n # game.site[e].curr[r]
  /\ CurrAllowed(game, e, r, n)
  /\ Meanwhile(SetCurr(game, e, r, n), deposits, Only(r, game.site[e].curr[r] - n))
  /\ UNCHANGED <<zombies, kept>>

OthersMine(d, n) ==
  /\ d \in DOMAIN deposits
  /\ n < deposits[d]
  /\ Meanwhile(game, IF n = 0 THEN Restrict(deposits, DOMAIN deposits \ {d})
                     ELSE [deposits EXCEPT ![d] = n], Only(KindOf[d], deposits[d] - n))
  /\ UNCHANGED <<zombies, kept>>

Raze(e, zombie) ==
  /\ e \in Active(game)
  /\ zombie => Zombies \/ harvester.building # e
  /\ Meanwhile(RemoveEntity(game, e), deposits,
               IF e \in DOMAIN game.site THEN game.site[e].curr ELSE Zero)
  /\ zombies' = IF zombie THEN With(zombies, e, Owner(game, e)) ELSE zombies
  /\ kept' = kept \ {e}

Forget(e) ==
  /\ e \in DOMAIN zombies
  /\ zombies' = Restrict(zombies, DOMAIN zombies \ {e})
  /\ UNCHANGED <<vars, harvester, deposits, kept, events, outside, failed>>

HandOver(e, f) ==
  /\ e \in Active(game)
  /\ f # Owner(game, e)
  /\ Meanwhile(SetFactionID(game, e, f), deposits, Zero)
  /\ UNCHANGED <<zombies, kept>>

SetDoNotTake(e) ==
  /\ HasMethods(e)
  /\ Meanwhile(game, deposits, Zero)
  /\ kept' = (kept \ {e}) \union ({e} \ kept)
  /\ UNCHANGED zombies

Interference ==
  \/ \E e \in Entity :
       \/ \E r \in Resource, n \in Amount : OthersStore(e, r, n)
       \/ \E zombie \in BOOLEAN : Raze(e, zombie)
       \/ Forget(e)
       \/ \E f \in Faction : HandOver(e, f)
       \/ SetDoNotTake(e)
       \/ OnSupplied(e)
  \/ \E d \in Deposits, n \in Amount : OthersMine(d, n)
  \/ \E strategy \in Strategies : SetStrategy(strategy)
  \/ ClearCarry

HNext ==
  \/ \E d \in Deposits : ScriptGather(d) \/ PlayerGather(d)
  \/ \E e \in Entity :
       OrderDropOff(e) \/ ScriptTransport(e) \/ PlayerTransport(e) \/ PlayerPickUp(e)
  \/ \E near \in Reach : Deliver(near) \/ \E e \in Entity : PlayerBuild(e, near)
  \/ \E stopMove \in BOOLEAN : Stop(stopMove)
  \/ Walk \/ Arrive \/ Wait \/ Halt
  \/ AnimCycle
  \/ Reload
  \/ Interference

HSpec == HInit /\ [][HNext]_allVars

\* While the harvester works its animation goes round, and events are delivered.
HFairSpec ==
  /\ HSpec
  /\ WF_allVars(AnimCycle \/ \E near \in Reach : Deliver(near))
-----------------------------------------------------------------------------
\* The type invariant of the harvester.
HTypeOK ==
  /\ GameOK(game)
  /\ harvester.state \in {"NOT_HARVESTING", "SEEK_RESOURCE", "HARVESTING", "SEEK_STORAGE",
                          "TRANSPORT_GETTING", "TRANSPORT_PUTTING",
                          "TRANSPORT_SEEK_RESOURCE", "TRANSPORT_HARVESTING"}
  /\ harvester.strategy \in Strategies
  /\ {harvester.ss, harvester.src, harvester.dest, harvester.building}
       \subseteq Entity \union {None}
  /\ harvester.res \in Deposits \union {None}
  /\ harvester.resName \in Resource \union {None}
  /\ harvester.carry \in [Resource -> Nat]
  /\ harvester.accum \in 0..CycleUnits /\ harvester.dropOffOnly \in BOOLEAN
  /\ harvester.cmd \in {None, "gather", "transport", "build", "supply"}
  /\ harvester.arg \in Things \union {None}
  /\ harvester.handlers \subseteq Handlers
  /\ DOMAIN deposits \subseteq Deposits /\ \A d \in DOMAIN deposits : deposits[d] \in Nat \ {0}
  /\ DOMAIN zombies \subseteq Entity /\ kept \subseteq Entity
  /\ events \in 0..MaxEvents /\ outside \in Table /\ failed \in BOOLEAN

\* Goods are neither made nor lost: what is in the ground, in the harvester's
\* hands, in sites and in finished supplies, with what others took, is what
\* there was in the beginning.
Goods(r) ==
  SumFunction([d \in OfKind(World, r) |-> deposits[d]]) + harvester.carry[r]
    + SumFunction([e \in DOMAIN game.site |-> game.site[e].curr[r]])
    + SumFunction([f \in Faction |-> spent[f][r]]) + outside[r]
GoodsAtFirst(r) ==
  SumFunction([d \in {x \in Deposits : KindOf[x] = r} |-> InGround[d]])
    + SumFunction([e \in Sites |-> Stock[e][r]])
GoodsKept == \A r \in Resource : Goods(r) = GoodsAtFirst(r)

\* The end of a motion reaches at most one handler, the one of the errand that
\* the harvester is on; at work it hears of its animation and of being moved,
\* and of nothing else.  (A harvester that turned from an exhausted deposit to
\* another while transporting walks there in the state NOT_HARVESTING.)
HarvestHandlersExact ==
  LET errand == harvester.handlers \ {"on_motion_end"}
  IN  /\ HTypeOK
      /\ Cardinality(harvester.handlers \intersect OnArrival) <= 1
      /\ \/ errand \subseteq HandlersFor(harvester)
         \/ /\ harvester.state = "NOT_HARVESTING"
            /\ errand = {"on_arrive_at_resource_source"}
      /\ harvester.state \in {"HARVESTING", "TRANSPORT_HARVESTING"} =>
           harvester.handlers = HandlersFor(harvester)
      /\ "on_motion_end" \in harvester.handlers => harvester.building # None

\* No assertion fails and no NULL is read.
NoneFailed == ~failed

\* The work at a deposit comes to an end.
HarvestEnds == harvester.state = "HARVESTING" ~> harvester.state # "HARVESTING"
=============================================================================
