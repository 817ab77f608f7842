--------------------------- MODULE HarvesterProofs ---------------------------
(* Proofs about the harvester, for any number of deposits, sites, buildings, *)
(* resources and orders: goods are neither made nor lost (GoodsKept), the    *)
(* handlers that are registered are those of the errand                      *)
(* (HarvestHandlersExact), and no assertion fails (NoneFailed).              *)
EXTENDS Harvester, StorageProofs
-----------------------------------------------------------------------------
(* The inductive invariant *)

Work == {"HARVESTING", "TRANSPORT_HARVESTING"}
HStates == {"NOT_HARVESTING", "SEEK_RESOURCE", "SEEK_STORAGE", "TRANSPORT_GETTING",
            "TRANSPORT_PUTTING", "TRANSPORT_SEEK_RESOURCE"} \union Work
HEvents == {"MOTION_END", "MOTION_START", "ANIM_CYCLE_FINISHED"}
Motions == {"arrived", "waiting", "moving"}
Loads == {c \in [Resource -> Nat] : \A r \in Resource : c[r] <= MaxCarry[r]}
Harvesters ==
  [state : HStates, strategy : Strategies, ss : Entity \union {None},
   res : Deposits \union {None}, resName : Resource \union {None}, carry : Loads,
   dropOffOnly : BOOLEAN, accum : 0..CycleUnits,
   cmd : {None, "gather", "transport", "build", "supply"}, arg : Things \union {None},
   src : Entity \union {None}, dest : Entity \union {None}, building : Buildings \union {None},
   handlers : SUBSET Handlers, motion : Motions, inbox : Seq(HEvents)]
HFields == {"state", "strategy", "ss", "res", "resName", "carry", "dropOffOnly", "accum",
            "cmd", "arg", "src", "dest", "building", "handlers", "motion", "inbox"}
Worlds == [h : Harvesters, g : Games, left : PartialOn(Deposits, Nat \ {0}),
           used : Spents, bad : BOOLEAN]

\* What is registered, and what would be once the game is loaded.
Awaits(h) == h.handlers \union HandlersFor(h)
Burdened(h) == \E r \in Resource : h.carry[r] > 0

\* One errand at a time: the harvester listens for nothing that its state does
\* not wait for, and at work for all that it does.
OneErrand(h) ==
  /\ \/ h.handlers \subseteq HandlersFor(h) /\ h.state \notin Work
     \/ h.handlers = HandlersFor(h)
     \/ h.state = "NOT_HARVESTING" /\ h.handlers = {"on_arrive_at_resource_source"}
     \/ h.state \notin Work /\ h.handlers = {"on_motion_end"} /\ h.building # None

\* What the handlers of an errand read is there.
Equipped(h) ==
  /\ h.state \in Work => h.res # None
  /\ Awaits(h) \intersect {"on_arrive_at_resource", "on_arrive_at_resource_source"} # {} =>
       h.res # None /\ h.resName # None
  /\ h.state = "SEEK_STORAGE" => h.ss # None /\ Burdened(h)
  /\ h.state = "TRANSPORT_PUTTING" => Burdened(h)
  /\ h.state = "TRANSPORT_GETTING" => h.resName # None

Fit(h) == OneErrand(h) /\ Equipped(h)

\* The goods of a world.
InGroundOf(left, r) == SumFunction([d \in {x \in DOMAIN left : KindOf[x] = r} |-> left[d]])
InSites(g, r) == SumFunction([e \in DOMAIN g.site |-> g.site[e].curr[r]])
SpentInAll(used, r) == SumFunction([f \in Faction |-> used[f][r]])
GoodsOf(s, r) == InGroundOf(s.left, r) + s.h.carry[r] + InSites(s.g, r) + SpentInAll(s.used, r)

Blameless == ~Zombies /\ RoomAssured

\* A world in which all adds up, with what others have taken away.
Sane(s, gone) ==
  /\ s \in Worlds /\ Sound(s.g, s.used)
  /\ Blameless => ~s.bad
  /\ \A r \in Resource : GoodsOf(s, r) + gone[r] = GoodsAtFirst(r)

\* A zombie is not active, and the harvester is not on its way to one to build it.
ZombiesOK(s) ==
  /\ DOMAIN zombies \subseteq Entity \ Active(s.g)
  /\ ~Zombies => s.h.building \notin DOMAIN zombies

Ok(s) == Sane(s, outside) /\ ZombiesOK(s)

\* What a function of harvester.c is to leave.
Good(s) == Ok(s) /\ Fit(s.h)

HIInv == Good(World) /\ kept \subseteq Entity /\ events \in 0..MaxEvents /\ outside \in Table
-----------------------------------------------------------------------------
(* A world in which only the harvester is another *)

SameBut(h, k, but) == \A f \in HFields \ but : k[f] = h[f]
Turns(s, t, but) == t = [s EXCEPT !.h = t.h] /\ t.h \in Harvesters /\ SameBut(s.h, t.h, but)

LEMMA WorldHas ==
  ASSUME NEW s \in Worlds
  PROVE  /\ s.h \in Harvesters /\ Shape(s.g) /\ s.used \in Spents /\ s.bad \in BOOLEAN
         /\ DOMAIN s.left \subseteq Deposits /\ s.left \in [DOMAIN s.left -> Nat \ {0}]
BY GamesHaveShape DEF Worlds, PartialOn

LEMMA TurnsOnly ==
  ASSUME NEW s \in Worlds, NEW t, NEW but, Turns(s, t, but)
  PROVE  /\ t \in Worlds
         /\ t.g = s.g /\ t.left = s.left /\ t.used = s.used /\ t.bad = s.bad
BY DEF Turns, Worlds

LEMMA TurnsAgain ==
  ASSUME NEW s \in Worlds, NEW t, NEW but, Turns(s, t, but), NEW u, NEW more, Turns(t, u, more)
  PROVE  Turns(s, u, but \union more)
<1>1. t = [s EXCEPT !.h = t.h] /\ u = [t EXCEPT !.h = u.h]
  BY DEF Turns
<1>2. u = [s EXCEPT !.h = u.h]
  BY <1>1 DEF Worlds
<1>3. SameBut(s.h, u.h, but \union more)
  BY DEF Turns, SameBut
<1>. QED BY <1>2, <1>3 DEF Turns

LEMMA TurnedIsOk ==
  ASSUME NEW s, Ok(s), NEW t, NEW but, Turns(s, t, but), "carry" \notin but,
         "building" \notin but \/ t.h.building = None
  PROVE  Ok(t)
<1>1. s \in Worlds
  BY DEF Ok, Sane
<1>2. t \in Worlds /\ t.g = s.g /\ t.left = s.left /\ t.used = s.used /\ t.bad = s.bad
  BY <1>1, TurnsOnly
<1>3. t.h.carry = s.h.carry /\ t.h.building \in {s.h.building, None}
  BY DEF Turns, SameBut, HFields
<1>4. \A r \in Resource : GoodsOf(t, r) = GoodsOf(s, r)
  BY <1>2, <1>3 DEF GoodsOf
<1>5. Sane(t, outside)
  BY <1>2, <1>4 DEF Ok, Sane
<1>6. DOMAIN zombies \subseteq Entity /\ None \notin Entity
  BY HarvesterAssumption DEF Ok, ZombiesOK
<1>. QED BY <1>2, <1>3, <1>5, <1>6 DEF Ok, ZombiesOK
-----------------------------------------------------------------------------
(* What the small operators do to the harvester *)

LEMMA Moving ==
  ASSUME NEW h \in Harvesters
  PROVE  \A k \in {StopMoving(h), StartMoving(h), SurroundEntity(h),
                   FinishMoving(h, "arrived"), FinishMoving(h, "waiting")} :
           k \in Harvesters /\ SameBut(h, k, {"motion", "inbox"})
<1>1. ASSUME NEW k \in Harvesters, NEW ev \in HEvents
      PROVE  Append(k.inbox, ev) \in Seq(HEvents)
  BY <1>1 DEF Harvesters
<1>2. ASSUME NEW k \in Harvesters, NEW ev \in HEvents, NEW m \in Motions
      PROVE  /\ [Queue(k, ev) EXCEPT !.motion = m] \in Harvesters
             /\ [k EXCEPT !.motion = m] \in Harvesters
             /\ SameBut(k, [Queue(k, ev) EXCEPT !.motion = m], {"motion", "inbox"})
             /\ SameBut(k, [k EXCEPT !.motion = m], {"motion", "inbox"})
  <2>1. PICK i : i = Append(k.inbox, ev)
    OBVIOUS
  <2>2. i \in Seq(HEvents)
    BY <1>1, <2>1
  <2>3. PICK l : l = [[k EXCEPT !.inbox = i] EXCEPT !.motion = m]
    OBVIOUS
  <2>4. l \in Harvesters /\ SameBut(k, l, {"motion", "inbox"})
    BY <2>2, <2>3 DEF Harvesters, SameBut, HFields
  <2>5. [Queue(k, ev) EXCEPT !.motion = m] = l
    BY <2>1, <2>3 DEF Queue
  <2>6. [k EXCEPT !.motion = m] \in Harvesters
    BY DEF Harvesters
  <2>7. SameBut(k, [k EXCEPT !.motion = m], {"motion", "inbox"})
    BY DEF Harvesters, SameBut, HFields
  <2>. QED BY <2>4, <2>5, <2>6, <2>7
<1>3. {"MOTION_END", "MOTION_START"} \subseteq HEvents /\ {"arrived", "moving", "waiting"} \subseteq Motions
  BY DEF HEvents, Motions
<1>4. ASSUME NEW k \in Harvesters
      PROVE  /\ StopMoving(k) \in Harvesters /\ SameBut(k, StopMoving(k), {"motion", "inbox"})
             /\ StartMoving(k) \in Harvesters /\ SameBut(k, StartMoving(k), {"motion", "inbox"})
             /\ FinishMoving(k, "arrived") \in Harvesters /\ SameBut(k, FinishMoving(k, "arrived"), {"motion", "inbox"})
             /\ FinishMoving(k, "waiting") \in Harvesters /\ SameBut(k, FinishMoving(k, "waiting"), {"motion", "inbox"})
  <2>1. SameBut(k, k, {"motion", "inbox"})
    BY DEF SameBut
  <2>. QED BY <1>2, <1>3, <1>4, <2>1 DEF StopMoving, StartMoving, FinishMoving
<1>5. \A k, l : SameBut(h, k, {"motion", "inbox"}) /\ SameBut(k, l, {"motion", "inbox"}) => SameBut(h, l, {"motion", "inbox"})
  BY DEF SameBut
<1>. QED BY <1>4, <1>5 DEF SurroundEntity

\* Another harvester is put in a world.
LEMMA TurnedInto ==
  ASSUME NEW s \in Worlds, NEW k \in Harvesters, NEW t, t = [s EXCEPT !.h = k],
         NEW but, SameBut(s.h, k, but)
  PROVE  Turns(s, t, but) /\ t.h = k
BY DEF Turns, Worlds

LEMMA DropDoes ==
  ASSUME NEW s \in Worlds, NEW H
  PROVE  LET t == Drop(s, H)
         IN  Turns(s, t, {"handlers"}) /\ t.h.handlers = s.h.handlers \ H
<1>1. PICK k : k = [s.h EXCEPT !.handlers = s.h.handlers \ H]
  OBVIOUS
<1>2. s.h \in Harvesters
  BY WorldHas
<1>3. k \in Harvesters /\ SameBut(s.h, k, {"handlers"}) /\ k.handlers = s.h.handlers \ H
  BY <1>1, <1>2 DEF Harvesters, SameBut, HFields
<1>4. Drop(s, H) = [s EXCEPT !.h = k]
  BY <1>1 DEF Drop, Worlds
<1>. QED BY <1>3, <1>4, TurnedInto

LEMMA GoToDoes ==
  ASSUME NEW s \in Worlds, NEW x \in Handlers
  PROVE  LET t == GoTo(s, x)
         IN  /\ Turns(s, t, {"motion", "inbox", "handlers"})
             /\ t.h.handlers = s.h.handlers \union {x}
<1>1. PICK m : m = SurroundEntity(s.h)
  OBVIOUS
<1>2. s.h \in Harvesters /\ m \in Harvesters /\ SameBut(s.h, m, {"motion", "inbox"})
  BY <1>1, WorldHas, Moving
<1>3. PICK k : k = [m EXCEPT !.handlers = m.handlers \union {x}]
  OBVIOUS
<1>4. m.handlers = s.h.handlers
  BY <1>2 DEF SameBut, HFields
<1>5. k \in Harvesters /\ SameBut(m, k, {"handlers"}) /\ k.handlers = s.h.handlers \union {x}
  BY <1>2, <1>3, <1>4 DEF Harvesters, SameBut, HFields
<1>6. SameBut(s.h, k, {"motion", "inbox", "handlers"})
  BY <1>2, <1>5 DEF SameBut
<1>7. GoTo(s, x) = [s EXCEPT !.h = k]
  BY <1>1, <1>3 DEF GoTo, Worlds
<1>. QED BY <1>5, <1>6, <1>7, TurnedInto

LEMMA StateDoes ==
  ASSUME NEW s \in Worlds, NEW x \in HStates
  PROVE  LET t == [s EXCEPT !.h.state = x]
         IN  Turns(s, t, {"state"}) /\ t.h.state = x
<1>1. PICK k : k = [s.h EXCEPT !.state = x]
  OBVIOUS
<1>2. s.h \in Harvesters
  BY WorldHas
<1>3. k \in Harvesters /\ SameBut(s.h, k, {"state"}) /\ k.state = x
  BY <1>1, <1>2 DEF Harvesters, SameBut, HFields
<1>4. [s EXCEPT !.h.state = x] = [s EXCEPT !.h = k]
  BY <1>1 DEF Worlds
<1>. QED BY <1>3, <1>4, TurnedInto

LEMMA IdleDoes ==
  ASSUME NEW s \in Worlds
  PROVE  LET t == Idle(s)
         IN  Turns(s, t, {"state"}) /\ t.h.state = "NOT_HARVESTING"
BY StateDoes DEF Idle, HStates

LEMMA FinishHarvestingDoes ==
  ASSUME NEW s \in Worlds
  PROVE  LET t == FinishHarvesting(s)
         IN  /\ Turns(s, t, {"res", "resName", "accum", "handlers", "state"})
             /\ t.h.state = "NOT_HARVESTING" /\ t.h.handlers = s.h.handlers \ Harvesting
<1>1. PICK k : k = [s.h EXCEPT !.res = None, !.resName = None, !.accum = 0]
  OBVIOUS
<1>2. s.h \in Harvesters /\ 0 \in 0..CycleUnits
  BY WorldHas, HarvesterAssumption
<1>3. k \in Harvesters /\ SameBut(s.h, k, {"res", "resName", "accum"})
  BY <1>1, <1>2 DEF Harvesters, SameBut, HFields
<1>4. PICK t : t = [s EXCEPT !.h.res = None, !.h.resName = None, !.h.accum = 0]
  OBVIOUS
<1>5. t = [s EXCEPT !.h = k]
  BY <1>1, <1>4 DEF Worlds
<1>6. Turns(s, t, {"res", "resName", "accum"}) /\ t \in Worlds
  BY <1>3, <1>5, TurnedInto, TurnsOnly
<1>7. PICK u : u = Drop(t, Harvesting)
  OBVIOUS
<1>8. Turns(t, u, {"handlers"}) /\ u.h.handlers = t.h.handlers \ Harvesting /\ u \in Worlds
  BY <1>6, <1>7, DropDoes, TurnsOnly
<1>9. PICK v : v = Idle(u)
  OBVIOUS
<1>10. Turns(u, v, {"state"}) /\ v.h.state = "NOT_HARVESTING"
  BY <1>8, <1>9, IdleDoes
<1>11. t.h.handlers = s.h.handlers /\ v.h.handlers = u.h.handlers
  BY <1>6, <1>10 DEF Turns, SameBut, HFields
<1>12. Turns(s, u, {"res", "resName", "accum"} \union {"handlers"})
  BY <1>6, <1>8, TurnsAgain
<1>13. Turns(s, v, ({"res", "resName", "accum"} \union {"handlers"}) \union {"state"})
  BY <1>10, <1>12, TurnsAgain
<1>14. ({"res", "resName", "accum"} \union {"handlers"}) \union {"state"}
         = {"res", "resName", "accum", "handlers", "state"}
  OBVIOUS
<1>15. FinishHarvesting(s) = v
  BY <1>4, <1>7, <1>9 DEF FinishHarvesting
<1>. QED BY <1>8, <1>10, <1>11, <1>13, <1>14, <1>15

LEMMA FinishTransportingDoes ==
  ASSUME NEW s \in Worlds
  PROVE  LET t == FinishTransporting(s)
         IN  /\ Turns(s, t, {"dest", "src", "resName", "state"})
             /\ t.h.state = "NOT_HARVESTING"
<1>1. PICK k : k = [s.h EXCEPT !.dest = None, !.src = None, !.resName = None]
  OBVIOUS
<1>2. s.h \in Harvesters
  BY WorldHas
<1>3. k \in Harvesters /\ SameBut(s.h, k, {"dest", "src", "resName"})
  BY <1>1, <1>2 DEF Harvesters, SameBut, HFields
<1>4. PICK t : t = [s EXCEPT !.h.dest = None, !.h.src = None, !.h.resName = None]
  OBVIOUS
<1>5. t = [s EXCEPT !.h = k]
  BY <1>1, <1>4 DEF Worlds
<1>6. Turns(s, t, {"dest", "src", "resName"}) /\ t \in Worlds
  BY <1>3, <1>5, TurnedInto, TurnsOnly
<1>7. Turns(t, Idle(t), {"state"}) /\ Idle(t).h.state = "NOT_HARVESTING"
  BY <1>6, IdleDoes
<1>8. Turns(s, Idle(t), {"dest", "src", "resName"} \union {"state"})
  BY <1>6, <1>7, TurnsAgain
<1>9. {"dest", "src", "resName"} \union {"state"} = {"dest", "src", "resName", "state"}
  OBVIOUS
<1>. QED BY <1>4, <1>7, <1>8, <1>9 DEF FinishTransporting

LEMMA HarvesterStopDoes ==
  ASSUME NEW s \in Worlds
  PROVE  LET t == HarvesterStop(s)
         IN  /\ Turns(s, t, {"handlers", "state"}) /\ t.h.state = "NOT_HARVESTING"
             /\ t.h.handlers = s.h.handlers \intersect {"on_motion_end"}
<1>1. PICK t : t = Drop(s, Handlers \ {"on_motion_end"})
  OBVIOUS
<1>2. /\ Turns(s, t, {"handlers"}) /\ t \in Worlds
      /\ t.h.handlers = s.h.handlers \ (Handlers \ {"on_motion_end"})
  BY <1>1, DropDoes, TurnsOnly
<1>3. s.h.handlers \subseteq Handlers
  BY WorldHas DEF Harvesters
<1>4. t.h.handlers = s.h.handlers \intersect {"on_motion_end"}
  BY <1>2, <1>3
<1>5. PICK u : u = Idle(t)
  OBVIOUS
<1>6. Turns(t, u, {"state"}) /\ u.h.state = "NOT_HARVESTING"
  BY <1>2, <1>5, IdleDoes
<1>7. Turns(s, u, {"handlers"} \union {"state"})
  BY <1>2, <1>6, TurnsAgain
<1>8. {"handlers"} \union {"state"} = {"handlers", "state"}
  OBVIOUS
<1>9. u.h.handlers = t.h.handlers
  BY <1>6 DEF Turns, SameBut, HFields
<1>10. HarvesterStop(s) = u
  BY <1>1, <1>5 DEF HarvesterStop
<1>. QED BY <1>4, <1>6, <1>7, <1>8, <1>9, <1>10

LEMMA OrderDoes ==
  ASSUME NEW s \in Worlds,
         NEW c \in {None, "gather", "transport", "build", "supply"}, NEW a \in Things \union {None}
  PROVE  Turns(s, [s EXCEPT !.h.cmd = c, !.h.arg = a], {"cmd", "arg"})
<1>1. PICK k : k = [s.h EXCEPT !.cmd = c, !.arg = a]
  OBVIOUS
<1>2. s.h \in Harvesters
  BY WorldHas
<1>3. k \in Harvesters /\ SameBut(s.h, k, {"cmd", "arg"})
  BY <1>1, <1>2 DEF Harvesters, SameBut, HFields
<1>4. [s EXCEPT !.h.cmd = c, !.h.arg = a] = [s EXCEPT !.h = k]
  BY <1>1 DEF Worlds
<1>. QED BY <1>3, <1>4, TurnedInto

LEMMA BuildingDoes ==
  ASSUME NEW s \in Worlds, NEW b \in Buildings \union {None}
  PROVE  LET t == [s EXCEPT !.h.building = b]
         IN  Turns(s, t, {"building"}) /\ t.h.building = b
<1>1. PICK k : k = [s.h EXCEPT !.building = b]
  OBVIOUS
<1>2. s.h \in Harvesters
  BY WorldHas
<1>3. k \in Harvesters /\ SameBut(s.h, k, {"building"}) /\ k.building = b
  BY <1>1, <1>2 DEF Harvesters, SameBut, HFields
<1>4. [s EXCEPT !.h.building = b] = [s EXCEPT !.h = k]
  BY <1>1 DEF Worlds
<1>. QED BY <1>3, <1>4, TurnedInto

LEMMA DropOffOnlyDoes ==
  ASSUME NEW s \in Worlds, NEW d \in BOOLEAN
  PROVE  Turns(s, [s EXCEPT !.h.dropOffOnly = d], {"dropOffOnly"})
<1>1. PICK k : k = [s.h EXCEPT !.dropOffOnly = d]
  OBVIOUS
<1>2. s.h \in Harvesters
  BY WorldHas
<1>3. k \in Harvesters /\ SameBut(s.h, k, {"dropOffOnly"})
  BY <1>1, <1>2 DEF Harvesters, SameBut, HFields
<1>4. [s EXCEPT !.h.dropOffOnly = d] = [s EXCEPT !.h = k]
  BY <1>1 DEF Worlds
<1>. QED BY <1>3, <1>4, TurnedInto
-----------------------------------------------------------------------------
(* What makes a harvester fit *)

NoneIs == None \notin Entity /\ None \notin Deposits /\ None \notin Resource
LEMMA NoneIsNothing == NoneIs
BY HarvesterAssumption DEF NoneIs

LEMMA FitSame ==
  ASSUME NEW h, NEW k, NEW but, SameBut(h, k, but), Fit(h),
         but \intersect {"state", "ss", "res", "resName", "carry", "building", "handlers"} = {}
  PROVE  Fit(k)
<1>1. /\ k.state = h.state /\ k.ss = h.ss /\ k.res = h.res /\ k.resName = h.resName
      /\ k.carry = h.carry /\ k.building = h.building /\ k.handlers = h.handlers
  BY DEF SameBut, HFields
<1>2. HandlersFor(k) = HandlersFor(h)
  BY <1>1 DEF HandlersFor
<1>. QED BY <1>1, <1>2 DEF Fit, OneErrand, Equipped, Awaits, Burdened

\* The handlers of the states, one by one.
LEMMA StatesHandlers ==
  ASSUME NEW h
  PROVE  /\ h.state = "NOT_HARVESTING" => HandlersFor(h) = {}
         /\ h.state = "SEEK_RESOURCE" => HandlersFor(h) = {"on_arrive_at_resource"}
         /\ h.state = "HARVESTING" => HandlersFor(h) = AtWork
         /\ h.state = "SEEK_STORAGE" => HandlersFor(h) = {"on_arrive_at_storage"}
         /\ h.state = "TRANSPORT_GETTING" => HandlersFor(h) = {"on_arrive_at_transport_source"}
         /\ h.state = "TRANSPORT_PUTTING" => HandlersFor(h) = {"on_arrive_at_transport_dest"}
         /\ h.state = "TRANSPORT_SEEK_RESOURCE" =>
              HandlersFor(h) = {"on_arrive_at_resource_source"}
         /\ h.state = "TRANSPORT_HARVESTING" => HandlersFor(h) = AtWorkSource
BY DEF HandlersFor

\* Idle, or on an errand and not at work.
LEMMA FitOnErrand ==
  ASSUME NEW h \in Harvesters, h.handlers \subseteq HandlersFor(h) 
  PROVE  /\ h.state = "NOT_HARVESTING" => Fit(h)
         /\ h.state = "SEEK_RESOURCE" /\ h.res # None /\ h.resName # None => Fit(h)
         /\ h.state = "SEEK_STORAGE" /\ h.ss # None /\ Burdened(h) => Fit(h)
         /\ h.state = "TRANSPORT_GETTING" /\ h.resName # None => Fit(h)
         /\ h.state = "TRANSPORT_PUTTING" /\ Burdened(h) => Fit(h)
         /\ h.state = "TRANSPORT_SEEK_RESOURCE" /\ h.res # None /\ h.resName # None => Fit(h)
BY StatesHandlers DEF Fit, OneErrand, Equipped, Awaits, Work

LEMMA FitAtWork ==
  ASSUME NEW h \in Harvesters, h.handlers = HandlersFor(h), h.state \in Work, h.res # None
  PROVE  Fit(h)
BY StatesHandlers DEF Fit, OneErrand, Equipped, Awaits, Work, AtWork, AtWorkSource

LEMMA FitSeeking ==
  ASSUME NEW h \in Harvesters, h.handlers \subseteq {"on_arrive_at_resource_source"},
         h.state = "NOT_HARVESTING" \/ h.state = "TRANSPORT_SEEK_RESOURCE",
         h.res # None, h.resName # None
  PROVE  Fit(h)
BY StatesHandlers DEF Fit, OneErrand, Equipped, Awaits, Work

\* A harvester that listens for nothing, and is fit.
LEMMA FreeStates ==
  ASSUME NEW h \in Harvesters, h.handlers = {}, Fit(h)
  PROVE  h.state \notin Work
BY StatesHandlers DEF Fit, OneErrand, Work, AtWork, AtWorkSource

\* An order is queued or forgotten, and it goes on as it is.
LEMMA TurnedIsGood ==
  ASSUME NEW s, Good(s), NEW t, NEW but, Turns(s, t, but),
         but \subseteq {"cmd", "arg", "dropOffOnly", "accum", "motion", "inbox", "strategy", "src", "dest"}
  PROVE  Good(t)
<1>1. "carry" \notin but /\ "building" \notin but
      /\ but \intersect {"state", "ss", "res", "resName", "carry", "building", "handlers"} = {}
  OBVIOUS
<1>2. Ok(t)
  BY <1>1, TurnedIsOk DEF Good
<1>3. Fit(t.h)
  BY <1>1, FitSame DEF Good, Turns
<1>. QED BY <1>2, <1>3 DEF Good
-----------------------------------------------------------------------------
(* Dropping off *)

Free(s) == Ok(s) /\ s.h.handlers = {}

LEMMA FreeIs ==
  ASSUME NEW s, Free(s)
  PROVE  s \in Worlds /\ Ok(s) /\ s.h \in Harvesters /\ s.h.handlers = {}
BY WorldHas DEF Free, Ok, Sane

LEMMA FreeIfTurned ==
  ASSUME NEW s, Ok(s), NEW t, NEW but, Turns(s, t, but), "carry" \notin but,
         "building" \notin but, t.h.handlers = {}
  PROVE  Free(t)
BY TurnedIsOk DEF Free

LEMMA IdleIsGood ==
  ASSUME NEW s, Free(s)
  PROVE  Good(Idle(s))
<1>1. s \in Worlds /\ Ok(s) /\ s.h.handlers = {}
  BY FreeIs
<1>2. PICK t : t = Idle(s)
  OBVIOUS
<1>3. Turns(s, t, {"state"}) /\ t.h.state = "NOT_HARVESTING"
  BY <1>1, <1>2, IdleDoes
<1>4. Ok(t)
  BY <1>1, <1>3, TurnedIsOk
<1>5. t.h.handlers = {} /\ t.h \in Harvesters
  BY <1>1, <1>3 DEF Turns, SameBut, HFields
<1>6. Fit(t.h)
  BY <1>3, <1>5, FitOnErrand
<1>. QED BY <1>2, <1>4, <1>6 DEF Good

LEMMA EntityDropOffIsGood ==
  ASSUME NEW s, Free(s), NEW e \in Entity, Burdened(s.h)
  PROVE  Good(EntityDropOff(s, e))
<1>1. s \in Worlds /\ Ok(s) /\ s.h.handlers = {} /\ s.h \in Harvesters
  BY FreeIs
<1>2. PICK k : k = [s.h EXCEPT !.state = "SEEK_STORAGE", !.ss = e]
  OBVIOUS
<1>3. /\ k \in Harvesters /\ SameBut(s.h, k, {"state", "ss"})
      /\ k.state = "SEEK_STORAGE" /\ k.ss = e
  BY <1>1, <1>2 DEF Harvesters, SameBut, HFields, HStates
<1>4. PICK t : t = [s EXCEPT !.h.state = "SEEK_STORAGE", !.h.ss = e]
  OBVIOUS
<1>5. t = [s EXCEPT !.h = k]
  BY <1>1, <1>2, <1>4 DEF Worlds
<1>6. Turns(s, t, {"state", "ss"}) /\ t \in Worlds /\ t.h = k
  BY <1>1, <1>3, <1>5, TurnedInto, TurnsOnly
<1>7. Ok(t)
  BY <1>1, <1>6, TurnedIsOk
<1>8. PICK u : u = GoTo(t, "on_arrive_at_storage")
  OBVIOUS
<1>9. "on_arrive_at_storage" \in Handlers
  BY DEF Handlers, OnArrival
<1>10. /\ Turns(t, u, {"motion", "inbox", "handlers"})
       /\ u.h.handlers = t.h.handlers \union {"on_arrive_at_storage"}
  BY <1>6, <1>8, <1>9, GoToDoes
<1>11. Ok(u)
  BY <1>7, <1>10, TurnedIsOk
<1>12. /\ u.h \in Harvesters /\ u.h.handlers = {"on_arrive_at_storage"}
       /\ u.h.state = "SEEK_STORAGE" /\ u.h.ss = e /\ u.h.carry = s.h.carry
  BY <1>1, <1>3, <1>6, <1>10 DEF Turns, SameBut, HFields
<1>13. u.h.handlers \subseteq HandlersFor(u.h) /\ Burdened(u.h) /\ u.h.ss # None
  BY <1>12, StatesHandlers, NoneIsNothing DEF Burdened, NoneIs
<1>14. Fit(u.h)
  BY <1>12, <1>13, FitOnErrand
<1>. QED BY <1>4, <1>8, <1>11, <1>14 DEF EntityDropOff, Good

\* What is carried, and where it may go.
LEMMA CarriedIs ==
  ASSUME NEW s \in Worlds
  PROVE  /\ Carried(s) \subseteq Resource /\ (Carried(s) # {} <=> Burdened(s.h))
         /\ Carried(s) # {} => CarriedName(s) \in Carried(s)
BY DEF Carried, Burdened, CarriedName

LEMMA SitesAre ==
  ASSUME NEW s \in Worlds
  PROVE  /\ DOMAIN s.g.site \subseteq Entity
         /\ \A r : DropOffSites(s, r) \subseteq DOMAIN s.g.site
         /\ \A r, e, f : Sources(s, r, e, f) \subseteq DOMAIN s.g.site \ {e}
<1>1. DOMAIN s.g.site \subseteq Entity
  BY WorldHas DEF Shape
<1>2. \A r, e, f, st : ValidSources(s, r, e, f, st) \subseteq DOMAIN s.g.site \ {e}
  BY DEF ValidSources
<1>. QED BY <1>1, <1>2 DEF DropOffSites, Sources

LEMMA TryDropOffIsGood ==
  ASSUME NEW s, Free(s), NEW t \in TryDropOff(s)
  PROVE  Good(t)
<1>1. s \in Worlds
  BY FreeIs
<1>2. CASE t = Idle(s)
  BY <1>2, IdleIsGood
<1>3. CASE t # Idle(s)
  <2>1. Carried(s) # {} /\ \E e \in DropOffSites(s, CarriedName(s)) : t = EntityDropOff(s, e)
    BY <1>3 DEF TryDropOff
  <2>2. PICK e \in Entity : t = EntityDropOff(s, e)
    BY <1>1, <2>1, SitesAre
  <2>3. Burdened(s.h)
    BY <1>1, <2>1, CarriedIs
  <2>. QED BY <2>2, <2>3, EntityDropOffIsGood
<1>. QED BY <1>2, <1>3

LEMMA DropOffIsGood ==
  ASSUME NEW s, Free(s), NEW e, e \in DOMAIN s.g.site, Carried(s) # {}
  PROVE  Good(DropOff(s, e))
<1>1. s \in Worlds /\ Ok(s) /\ s.h.handlers = {}
  BY FreeIs
<1>2. e \in Entity /\ Burdened(s.h)
  BY <1>1, SitesAre, CarriedIs
<1>3. PICK t : t = HarvesterStop(s)
  OBVIOUS
<1>4. /\ Turns(s, t, {"handlers", "state"}) /\ t \in Worlds
      /\ t.h.handlers = s.h.handlers \intersect {"on_motion_end"}
  BY <1>1, <1>3, HarvesterStopDoes, TurnsOnly
<1>5. PICK u : u = [t EXCEPT !.h.dropOffOnly = TRUE]
  OBVIOUS
<1>6. Turns(t, u, {"dropOffOnly"})
  BY <1>4, <1>5, DropOffOnlyDoes
<1>7. Turns(s, u, {"handlers", "state"} \union {"dropOffOnly"})
  BY <1>1, <1>4, <1>6, TurnsAgain
<1>8. u.h.handlers = {} /\ u.h.carry = s.h.carry
  BY <1>1, <1>4, <1>6 DEF Turns, SameBut, HFields
<1>9. Free(u) /\ Burdened(u.h)
  <2>1. "carry" \notin {"handlers", "state"} \union {"dropOffOnly"}
        /\ "building" \notin {"handlers", "state"} \union {"dropOffOnly"}
    OBVIOUS
  <2>. QED BY <1>1, <1>2, <1>7, <1>8, <2>1, FreeIfTurned DEF Burdened
<1>10. DropOff(s, e) = EntityDropOff(u, e)
  BY <1>3, <1>5 DEF DropOff, IsSite
<1>. QED BY <1>2, <1>9, <1>10, EntityDropOffIsGood

LEMMA DropOffNearestIsGood ==
  ASSUME NEW s, Free(s), Fit(s.h), Carried(s) # {}, NEW t \in DropOffNearest(s)
  PROVE  Good(t)
<1>1. s \in Worlds /\ Ok(s)
  BY FreeIs
<1>2. CASE DropOffSites(s, CarriedName(s)) # {}
  <2>1. PICK e \in DropOffSites(s, CarriedName(s)) : t = DropOff(s, e)
    BY <1>2 DEF DropOffNearest
  <2>2. e \in DOMAIN s.g.site
    BY <1>1, <2>1, SitesAre
  <2>. QED BY <2>1, <2>2, DropOffIsGood
<1>3. CASE DropOffSites(s, CarriedName(s)) = {}
  <2>1. ~RoomAssured /\ t = [s EXCEPT !.bad = TRUE]
    BY <1>3, HarvesterAssumption DEF DropOffNearest
  <2>2. t \in Worlds /\ t.h = s.h /\ t.g = s.g /\ t.left = s.left /\ t.used = s.used
    BY <1>1, <2>1 DEF Worlds
  <2>3. \A r \in Resource : GoodsOf(t, r) = GoodsOf(s, r)
    BY <2>2 DEF GoodsOf
  <2>4. Sane(t, outside)
    BY <1>1, <2>1, <2>2, <2>3 DEF Sane, Ok, Blameless
  <2>. QED BY <1>1, <2>2, <2>4 DEF Good, Ok, ZombiesOK
<1>. QED BY <1>2, <1>3
-----------------------------------------------------------------------------
(* What the handlers that are registered tell of the harvester *)

LEMMA ErrandIs ==
  ASSUME NEW h \in Harvesters, Fit(h)
  PROVE  /\ "on_arrive_at_resource" \in h.handlers =>
              /\ h.handlers = {"on_arrive_at_resource"}
              /\ h.state = "SEEK_RESOURCE" /\ h.res # None /\ h.resName # None
         /\ "on_arrive_at_resource_source" \in h.handlers =>
              /\ h.handlers = {"on_arrive_at_resource_source"}
              /\ h.state = "NOT_HARVESTING" \/ h.state = "TRANSPORT_SEEK_RESOURCE"
              /\ h.res # None /\ h.resName # None
         /\ "on_arrive_at_storage" \in h.handlers =>
              /\ h.handlers = {"on_arrive_at_storage"}
              /\ h.state = "SEEK_STORAGE" /\ h.ss # None /\ Burdened(h)
         /\ "on_arrive_at_transport_source" \in h.handlers =>
              /\ h.handlers = {"on_arrive_at_transport_source"}
              /\ h.state = "TRANSPORT_GETTING" /\ h.resName # None
         /\ "on_arrive_at_transport_dest" \in h.handlers =>
              /\ h.handlers = {"on_arrive_at_transport_dest"}
              /\ h.state = "TRANSPORT_PUTTING" /\ Burdened(h)
         /\ "on_motion_end" \in h.handlers =>
              /\ h.handlers = {"on_motion_end"} /\ h.state \notin Work /\ h.building # None
         /\ "on_motion_begin_harvest" \in h.handlers => h.state \in Work
         /\ "on_harvest_anim_finished" \in h.handlers =>
              h.handlers = AtWork /\ h.state = "HARVESTING" /\ h.res # None
         /\ "on_harvest_anim_finished_source" \in h.handlers =>
              h.handlers = AtWorkSource /\ h.state = "TRANSPORT_HARVESTING" /\ h.res # None
<1>1. /\ OneErrand(h)
      /\ h.state \in Work => h.res # None
      /\ "on_arrive_at_resource" \in h.handlers \/ "on_arrive_at_resource_source" \in h.handlers =>
           h.res # None /\ h.resName # None
      /\ h.state = "SEEK_STORAGE" => h.ss # None /\ Burdened(h)
      /\ h.state = "TRANSPORT_PUTTING" => Burdened(h)
      /\ h.state = "TRANSPORT_GETTING" => h.resName # None
  BY DEF Fit, Equipped, Awaits
<1>2. h.state \in HStates
  BY DEF Harvesters
<1>3. ASSUME h.handlers \subseteq HandlersFor(h)
      PROVE  \/ h.handlers = {}
             \/ h.state = "SEEK_RESOURCE" /\ h.handlers = {"on_arrive_at_resource"}
             \/ h.state = "SEEK_STORAGE" /\ h.handlers = {"on_arrive_at_storage"}
             \/ h.state = "TRANSPORT_GETTING" /\ h.handlers = {"on_arrive_at_transport_source"}
             \/ h.state = "TRANSPORT_PUTTING" /\ h.handlers = {"on_arrive_at_transport_dest"}
             \/ h.state = "TRANSPORT_SEEK_RESOURCE" /\ h.handlers = {"on_arrive_at_resource_source"}
             \/ h.state = "HARVESTING" /\ HandlersFor(h) = AtWork
             \/ h.state = "TRANSPORT_HARVESTING" /\ HandlersFor(h) = AtWorkSource
  BY <1>2, <1>3, StatesHandlers DEF HStates, Work
<1>4. \/ h.handlers = {}
      \/ h.state = "SEEK_RESOURCE" /\ h.handlers = {"on_arrive_at_resource"}
      \/ h.state = "SEEK_STORAGE" /\ h.handlers = {"on_arrive_at_storage"}
      \/ h.state = "TRANSPORT_GETTING" /\ h.handlers = {"on_arrive_at_transport_source"}
      \/ h.state = "TRANSPORT_PUTTING" /\ h.handlers = {"on_arrive_at_transport_dest"}
      \/ h.state = "TRANSPORT_SEEK_RESOURCE" /\ h.handlers = {"on_arrive_at_resource_source"}
      \/ h.state = "HARVESTING" /\ h.handlers = AtWork
      \/ h.state = "TRANSPORT_HARVESTING" /\ h.handlers = AtWorkSource
      \/ h.state = "NOT_HARVESTING" /\ h.handlers = {"on_arrive_at_resource_source"}
      \/ h.state \notin Work /\ h.handlers = {"on_motion_end"} /\ h.building # None
  <2>1. CASE h.handlers \subseteq HandlersFor(h) /\ h.state \notin Work
    BY <1>3, <2>1 DEF Work
  <2>2. CASE h.handlers = HandlersFor(h)
    BY <1>3, <2>2
  <2>. QED BY <1>1, <2>1, <2>2 DEF OneErrand
<1>. QED BY <1>1, <1>4 DEF Work, AtWork, AtWorkSource

\* A handler unregisters itself, and those that are not at work still are fit.
LEMMA FreedIsFit ==
  ASSUME NEW h, Fit(h), h.state \notin Work, NEW k, SameBut(h, k, {"handlers"}), k.handlers = {}
  PROVE  Fit(k)
<1>1. /\ k.state = h.state /\ k.ss = h.ss /\ k.res = h.res /\ k.resName = h.resName
      /\ k.carry = h.carry /\ k.building = h.building
  BY DEF SameBut, HFields
<1>2. HandlersFor(k) = HandlersFor(h)
  BY <1>1 DEF HandlersFor
<1>. QED BY <1>1, <1>2 DEF Fit, OneErrand, Equipped, Awaits, Burdened

LEMMA HandlerDropped ==
  ASSUME NEW s, Good(s), s.h.state \notin Work, NEW x, s.h.handlers \subseteq {x}
  PROVE  /\ Free(Drop(s, {x})) /\ Fit(Drop(s, {x}).h) /\ Drop(s, {x}) \in Worlds
         /\ Turns(s, Drop(s, {x}), {"handlers"})
<1>1. s \in Worlds /\ Ok(s) /\ Fit(s.h)
  BY DEF Good, Ok, Sane
<1>2. PICK t : t = Drop(s, {x})
  OBVIOUS
<1>3. Turns(s, t, {"handlers"}) /\ t.h.handlers = s.h.handlers \ {x} /\ t \in Worlds
  BY <1>1, <1>2, DropDoes, TurnsOnly
<1>4. t.h.handlers = {}
  BY <1>3
<1>5. Free(t)
  BY <1>1, <1>3, <1>4, FreeIfTurned
<1>6. SameBut(s.h, t.h, {"handlers"})
  BY <1>3 DEF Turns
<1>7. Fit(t.h)
  BY <1>1, <1>4, <1>6, FreedIsFit
<1>. QED BY <1>2, <1>3, <1>5, <1>7
-----------------------------------------------------------------------------
(* Gathering *)

LEMMA AtWorkIsGood ==
  ASSUME NEW s, Free(s), s.h.res # None, NEW x \in Work, NEW H,
         H = IF x = "HARVESTING" THEN AtWork ELSE AtWorkSource
  PROVE  Good([s EXCEPT !.h.state = x, !.h.handlers = @ \union H])
<1>1. s \in Worlds /\ Ok(s) /\ s.h \in Harvesters /\ s.h.handlers = {}
  BY FreeIs
<1>2. PICK k : k = [s.h EXCEPT !.state = x, !.handlers = H]
  OBVIOUS
<1>3. H \subseteq Handlers /\ x \in HStates /\ s.h.handlers \union H = H
  BY <1>1 DEF Handlers, Harvesting, HStates
<1>4. /\ k \in Harvesters /\ SameBut(s.h, k, {"state", "handlers"})
      /\ k.state = x /\ k.handlers = H /\ k.res = s.h.res
  BY <1>1, <1>2, <1>3 DEF Harvesters, SameBut, HFields
<1>5. PICK t : t = [s EXCEPT !.h.state = x, !.h.handlers = @ \union H]
  OBVIOUS
<1>6. t = [s EXCEPT !.h = k]
  BY <1>1, <1>2, <1>3, <1>5 DEF Worlds
<1>7. Turns(s, t, {"state", "handlers"}) /\ t.h = k
  BY <1>1, <1>4, <1>6, TurnedInto
<1>8. Ok(t)
  BY <1>1, <1>7, TurnedIsOk
<1>9. k.handlers = HandlersFor(k)
  BY <1>4, StatesHandlers DEF Work
<1>10. Fit(k)
  BY <1>4, <1>9, FitAtWork
<1>. QED BY <1>5, <1>7, <1>8, <1>10 DEF Good

LEMMA AtResourceIsGood ==
  ASSUME NEW s, Free(s), s.h.res # None, NEW near, NEW t \in AtResource(s)
  PROVE  Good(t)
<1>1. CASE t \in TryDropOff(s)
  BY <1>1, TryDropOffIsGood
<1>2. CASE t = [s EXCEPT !.h.state = "HARVESTING", !.h.handlers = @ \union AtWork]
  <2>1. "HARVESTING" \in Work
    BY DEF Work
  <2>. QED BY <1>2, <2>1, AtWorkIsGood
<1>. QED BY <1>1, <1>2 DEF AtResource

\* A deposit is sought: what all three ways of it have in common.
Seeking(s, d) ==
  [s EXCEPT !.h.state = "SEEK_RESOURCE", !.h.res = d, !.h.resName = KindOf[d]]

LEMMA SeekDoes ==
  ASSUME NEW s, Free(s), NEW d, d \in DOMAIN s.left,
         NEW t, t = Seeking(s, d)
  PROVE  /\ Turns(s, t, {"state", "res", "resName"}) /\ t \in Worlds /\ Free(t)
         /\ t.h.state = "SEEK_RESOURCE" /\ t.h.res = d /\ t.h.resName = KindOf[d]
         /\ d # None /\ KindOf[d] \in Resource /\ KindOf[d] # None
<1>1. s \in Worlds /\ Ok(s) /\ s.h \in Harvesters /\ s.h.handlers = {}
  BY FreeIs
<1>2. d \in Deposits
  BY <1>1, WorldHas
<1>3. d # None /\ KindOf[d] \in Resource /\ KindOf[d] # None
  <2>1. KindOf[d] \in Resource
    BY <1>2, HarvesterAssumption
  <2>. QED BY <1>2, <2>1, NoneIsNothing DEF NoneIs
<1>4. PICK k : k = [s.h EXCEPT !.state = "SEEK_RESOURCE", !.res = d, !.resName = KindOf[d]]
  OBVIOUS
<1>5. /\ k \in Harvesters /\ SameBut(s.h, k, {"state", "res", "resName"})
      /\ k.state = "SEEK_RESOURCE" /\ k.res = d /\ k.resName = KindOf[d]
      /\ k.handlers = s.h.handlers
  BY <1>1, <1>2, <1>3, <1>4 DEF Harvesters, SameBut, HFields, HStates
<1>6. t = [s EXCEPT !.h = k]
  BY <1>1, <1>4 DEF Worlds, Seeking
<1>7. Turns(s, t, {"state", "res", "resName"}) /\ t \in Worlds /\ t.h = k
  BY <1>1, <1>5, <1>6, TurnedInto, TurnsOnly
<1>8. Free(t)
  BY <1>1, <1>5, <1>7, FreeIfTurned
<1>. QED BY <1>3, <1>5, <1>7, <1>8

LEMMA GatherIsGood ==
  ASSUME NEW s, Free(s), NEW d, Fit(s.h) \/ (Carried(s) = {} /\ d \in DOMAIN s.left),
         NEW near, NEW u \in Gather(s, d, near)
  PROVE  Good(u)
<1>1. s \in Worlds /\ Ok(s) /\ s.h \in Harvesters /\ s.h.handlers = {}
  BY FreeIs
<1>2. CASE d \notin DOMAIN s.left
  <2>1. u = s /\ Fit(s.h)
    BY <1>2 DEF Gather
  <2>. QED BY <1>1, <2>1 DEF Good
<1>3. CASE d \in DOMAIN s.left /\ Carried(s) \ {KindOf[d]} # {}
  <2>1. PICK v : v = [s EXCEPT !.h.cmd = "gather", !.h.arg = d]
    OBVIOUS
  <2>2. u \in DropOffNearest(v)
    BY <1>3, <2>1 DEF Gather
  <2>3. d \in Things \union {None}
    BY <1>1, <1>3, WorldHas DEF Things
  <2>4. Turns(s, v, {"cmd", "arg"})
    BY <1>1, <2>1, <2>3, OrderDoes
  <2>5. Good(s)
    BY <1>1, <1>3 DEF Good
  <2>6. Good(v)
    BY <2>4, <2>5, TurnedIsGood
  <2>7. v.h.handlers = {} /\ v.h.carry = s.h.carry
    BY <1>1, <2>4 DEF Turns, SameBut, HFields
  <2>8. Free(v) /\ Fit(v.h) /\ Carried(v) # {}
    BY <1>3, <2>6, <2>7 DEF Free, Good, Carried
  <2>. QED BY <2>2, <2>8, DropOffNearestIsGood
<1>4. CASE d \in DOMAIN s.left /\ Carried(s) \ {KindOf[d]} = {}
  <2>1. PICK t : t = Seeking(s, d)
    OBVIOUS
  <2>2. /\ Turns(s, t, {"state", "res", "resName"}) /\ t \in Worlds /\ Free(t)
        /\ t.h.state = "SEEK_RESOURCE" /\ t.h.res = d /\ t.h.resName = KindOf[d]
        /\ d # None /\ KindOf[d] \in Resource /\ KindOf[d] # None
    BY <1>4, <2>1, SeekDoes
  <2>3. Ok(t) /\ t.h.handlers = {} /\ t.h \in Harvesters
    BY <2>2, FreeIs
  <2>4. \/ u = GoTo(t, "on_arrive_at_resource")
        \/ u \in AtResource(Drop(t, {"on_arrive_at_resource"}))
        \/ u = t
    BY <1>4, <2>1 DEF Gather, Seeking
  <2>5. CASE u = GoTo(t, "on_arrive_at_resource")
    <3>1. "on_arrive_at_resource" \in Handlers
      BY DEF Handlers, OnArrival
    <3>2. /\ Turns(t, u, {"motion", "inbox", "handlers"})
          /\ u.h.handlers = t.h.handlers \union {"on_arrive_at_resource"}
      BY <2>2, <2>5, <3>1, GoToDoes
    <3>3. Ok(u)
      BY <2>3, <3>2, TurnedIsOk
    <3>4. /\ u.h \in Harvesters /\ u.h.handlers = {"on_arrive_at_resource"}
          /\ u.h.state = "SEEK_RESOURCE" /\ u.h.res # None /\ u.h.resName # None
      BY <2>2, <2>3, <3>2 DEF Turns, SameBut, HFields
    <3>5. Fit(u.h)
      BY <3>4, StatesHandlers, FitOnErrand
    <3>. QED BY <3>3, <3>5 DEF Good
  <2>6. CASE u = t
    <3>1. Fit(t.h)
      BY <2>2, <2>3, FitOnErrand
    <3>. QED BY <2>3, <2>6, <3>1 DEF Good
  <2>7. CASE u \in AtResource(Drop(t, {"on_arrive_at_resource"}))
    <3>1. PICK v : v = Drop(t, {"on_arrive_at_resource"})
      OBVIOUS
    <3>2. Turns(t, v, {"handlers"}) /\ v.h.handlers = t.h.handlers \ {"on_arrive_at_resource"}
      BY <2>2, <3>1, DropDoes
    <3>3. v.h.handlers = {} /\ v.h.res # None
      BY <2>2, <2>3, <3>2 DEF Turns, SameBut, HFields
    <3>4. Free(v)
      BY <2>3, <3>2, <3>3, FreeIfTurned
    <3>. QED BY <2>7, <3>1, <3>3, <3>4, AtResourceIsGood
  <2>. QED BY <2>4, <2>5, <2>6, <2>7
<1>. QED BY <1>2, <1>3, <1>4

LEMMA TryGatherNearestIsGood ==
  ASSUME NEW s, Free(s), Fit(s.h), NEW r, NEW near, NEW u \in TryGatherNearest(s, r, near)
  PROVE  Good(u)
<1>1. CASE u \in TryDropOff(s)
  BY <1>1, TryDropOffIsGood
<1>2. CASE \E d \in OfKind(s, r) : u \in Gather(s, d, near)
  <2>1. PICK d \in OfKind(s, r) : u \in Gather(s, d, near)
    BY <1>2
  <2>. QED BY <2>1, GatherIsGood
<1>. QED BY <1>1, <1>2 DEF TryGatherNearest

LEMMA ArriveAtResourceIsGood ==
  ASSUME NEW s, Good(s), "on_arrive_at_resource" \in s.h.handlers, NEW near,
         NEW u \in ArriveAtResource(s, near)
  PROVE  Good(u)
<1>1. s \in Worlds /\ s.h \in Harvesters /\ Fit(s.h)
  BY WorldHas DEF Good, Ok, Sane
<1>2. /\ s.h.handlers = {"on_arrive_at_resource"} /\ s.h.state \notin Work
      /\ s.h.res # None
  BY <1>1, ErrandIs DEF Work
<1>3. PICK t : t = Drop(s, {"on_arrive_at_resource"})
  OBVIOUS
<1>4. Free(t) /\ Fit(t.h) /\ t \in Worlds /\ Turns(s, t, {"handlers"})
  BY <1>2, <1>3, HandlerDropped
<1>5. t.h.res # None
  BY <1>2, <1>4 DEF Turns, SameBut, HFields
<1>6. \/ u = s
      \/ u \in AtResource(t)
      \/ u \in TryGatherNearest(t, s.h.resName, near)
  BY <1>2, <1>3 DEF ArriveAtResource
<1>. QED BY <1>4, <1>5, <1>6, AtResourceIsGood, TryGatherNearestIsGood
-----------------------------------------------------------------------------
(* Sums of goods *)

\* What is left of a deposit when n is taken from it.
LeftAfter(left, d, n) ==
  IF left[d] - n = 0 THEN Restrict(left, DOMAIN left \ {d}) ELSE [left EXCEPT ![d] = left[d] - n]

LEMMA MinedFrom ==
  ASSUME NEW left \in PartialOn(Deposits, Nat \ {0}), NEW d \in DOMAIN left,
         NEW n \in Nat, n <= left[d]
  PROVE  /\ LeftAfter(left, d, n) \in PartialOn(Deposits, Nat \ {0})
         /\ \A r \in Resource :
              /\ InGroundOf(left, r) \in Int /\ InGroundOf(LeftAfter(left, d, n), r) \in Int
              /\ InGroundOf(LeftAfter(left, d, n), r)
                   = InGroundOf(left, r) - (IF r = KindOf[d] THEN n ELSE 0)
<1>1. DOMAIN left \subseteq Deposits /\ left \in [DOMAIN left -> Nat \ {0}] /\ IsFiniteSet(Deposits)
  BY HarvesterAssumption DEF PartialOn
<1>2. PICK k : k = LeftAfter(left, d, n)
  OBVIOUS
<1>3. /\ DOMAIN k = IF left[d] = n THEN DOMAIN left \ {d} ELSE DOMAIN left
      /\ \A x \in DOMAIN left \ {d} : k[x] = left[x]
      /\ left[d] # n => k[d] = left[d] - n
      /\ k \in [DOMAIN k -> Nat \ {0}]
  <2>1. CASE left[d] = n
    <3>1. k = [x \in DOMAIN left \ {d} |-> left[x]]
      BY <1>1, <1>2, <2>1 DEF LeftAfter, Restrict
    <3>. QED BY <1>1, <2>1, <3>1
  <2>2. CASE left[d] # n
    <3>1. k = [left EXCEPT ![d] = left[d] - n]
      BY <1>1, <1>2, <2>2 DEF LeftAfter
    <3>. QED BY <1>1, <2>2, <3>1
  <2>. QED BY <2>1, <2>2
<1>4. DOMAIN k \subseteq DOMAIN left
  BY <1>3
<1>5. k \in PartialOn(Deposits, Nat \ {0})
  BY <1>1, <1>3, <1>4 DEF PartialOn
<1>6. ASSUME NEW r \in Resource
      PROVE  /\ InGroundOf(left, r) \in Int /\ InGroundOf(k, r) \in Int
             /\ InGroundOf(k, r) = InGroundOf(left, r) - (IF r = KindOf[d] THEN n ELSE 0)
  <2> DEFINE S == {x \in DOMAIN left : KindOf[x] = r}
             U == {x \in DOMAIN k : KindOf[x] = r}
             f == [x \in S |-> left[x]]
             l == [x \in U |-> k[x]]
  <2>1. S \subseteq Deposits /\ U \subseteq Deposits /\ S \ {d} = U \ {d}
    BY <1>1, <1>3, <1>4
  <2>2. IsFiniteSet(S) /\ IsFiniteSet(U)
    BY <1>1, <2>1, FS_Subset
  <2>3. f \in [S -> Int] /\ l \in [U -> Int] /\ \A y \in S \ {d} : f[y] = l[y]
    BY <1>1, <1>3
  <2>4. /\ d \in S <=> r = KindOf[d]
        /\ d \in U <=> r = KindOf[d] /\ left[d] # n
        /\ d \in S => f[d] = left[d]
        /\ d \in U => l[d] = left[d] - n
    BY <1>3
  <2>5. InGroundOf(left, r) = SumFunction(f) /\ InGroundOf(k, r) = SumFunction(l)
    BY DEF InGroundOf
  <2> HIDE DEF S, U, f, l
  <2>6. /\ SumFunction(f) \in Int /\ SumFunction(l) \in Int
        /\ SumFunction(f) - (IF d \in S THEN f[d] ELSE 0)
             = SumFunction(l) - (IF d \in U THEN l[d] ELSE 0)
    BY <2>1, <2>2, <2>3, SumApart
  <2>7. left[d] \in Nat
    BY <1>1
  <2>. QED BY <2>4, <2>5, <2>6, <2>7
<1>. QED BY <1>2, <1>5, <1>6

\* What is in the site of an entity.
Holds(g, e, r) == IF e \in DOMAIN g.site THEN g.site[e].curr[r] ELSE 0

LEMMA SitesApart ==
  ASSUME NEW g, Shape(g), NEW h, Shape(h), NEW e, Apart(g, h, e), NEW r \in Resource
  PROVE  /\ InSites(g, r) \in Int /\ InSites(h, r) \in Int
         /\ Holds(g, e, r) \in Int /\ Holds(h, e, r) \in Int
         /\ InSites(h, r) - Holds(h, e, r) = InSites(g, r) - Holds(g, e, r)
<1> DEFINE S == DOMAIN g.site
           U == DOMAIN h.site
           f == [x \in S |-> g.site[x].curr[r]]
           l == [x \in U |-> h.site[x].curr[r]]
<1>1. /\ S \subseteq Entity /\ \A x \in S : g.site[x] \in SiteRecord
      /\ U \subseteq Entity /\ \A x \in U : h.site[x] \in SiteRecord
  BY DEF Shape
<1>2. /\ \A x \in S : g.site[x].curr[r] \in Int
      /\ \A x \in U : h.site[x].curr[r] \in Int
  BY <1>1, SiteTables DEF Table
<1>3. IsFiniteSet(Entity)
  BY StorageAssumption, FS_Union DEF Entity
<1>4. IsFiniteSet(S) /\ IsFiniteSet(U)
  BY <1>1, <1>3, FS_Subset
<1>5. S \ {e} = U \ {e} /\ \A x \in S \ {e} : f[x] = l[x]
  BY <1>1 DEF Apart
<1>6. f \in [S -> Int] /\ l \in [U -> Int]
  BY <1>2
<1>7. InSites(g, r) = SumFunction(f) /\ InSites(h, r) = SumFunction(l)
  BY DEF InSites
<1>8. /\ Holds(g, e, r) = IF e \in S THEN f[e] ELSE 0
      /\ Holds(h, e, r) = IF e \in U THEN l[e] ELSE 0
  BY DEF Holds
<1>9. Holds(g, e, r) \in Int /\ Holds(h, e, r) \in Int
  BY <1>2 DEF Holds
<1> HIDE DEF S, U, f, l
<1>10. /\ SumFunction(f) \in Int /\ SumFunction(l) \in Int
       /\ SumFunction(f) - (IF e \in S THEN f[e] ELSE 0)
            = SumFunction(l) - (IF e \in U THEN l[e] ELSE 0)
  BY <1>4, <1>5, <1>6, SumApart
<1>. QED BY <1>7, <1>8, <1>9, <1>10

LEMMA SpentApart ==
  ASSUME NEW s \in Spents, NEW t \in Spents, NEW f \in Faction, NEW r \in Resource, NEW n \in Int,
         \A x \in Faction : t[x][r] = s[x][r] + (IF x = f THEN n ELSE 0)
  PROVE  /\ SpentInAll(s, r) \in Int /\ SpentInAll(t, r) \in Int
         /\ SpentInAll(t, r) = SpentInAll(s, r) + n
<1> DEFINE k == [x \in Faction |-> s[x][r]]
           l == [x \in Faction |-> t[x][r]]
<1>1. k \in [Faction -> Int] /\ l \in [Faction -> Int] /\ \A x \in Faction \ {f} : k[x] = l[x]
  BY DEF Spents
<1>2. k[f] \in Int /\ l[f] = k[f] + n
  BY DEF Spents
<1>3. IsFiniteSet(Faction)
  BY HarvesterAssumption
<1>4. SpentInAll(s, r) = SumFunction(k) /\ SpentInAll(t, r) = SumFunction(l)
  BY DEF SpentInAll
<1> HIDE DEF k, l
<1>5. /\ SumFunction(k) \in Int /\ SumFunction(l) \in Int
      /\ SumFunction(k) - (IF f \in Faction THEN k[f] ELSE 0)
           = SumFunction(l) - (IF f \in Faction THEN l[f] ELSE 0)
  BY <1>1, <1>3, SumApart
<1>. QED BY <1>2, <1>4, <1>5
-----------------------------------------------------------------------------
(* Mining *)

\* What a cycle of work yields.
Yield(s) ==
  LET r == KindOf[s.h.res]
  IN  Lesser(MaxCarry[r], s.h.carry[r] + Lesser(Gathered(s), s.left[s.h.res])) - s.h.carry[r]

LEMMA YieldIs ==
  ASSUME NEW s \in Worlds, s.h.res \in DOMAIN s.left
  PROVE  LET r == KindOf[s.h.res]
         IN  /\ r \in Resource /\ Yield(s) \in Nat /\ Yield(s) <= s.left[s.h.res]
             /\ s.h.carry[r] \in Nat /\ s.h.carry[r] + Yield(s) <= MaxCarry[r]
             /\ Gathered(s) \in Nat /\ s.left[s.h.res] \in Nat /\ MaxCarry[r] \in Nat \ {0}
             /\ Gathered(s) = 0 => s.h.accum + Speed[r] \in 0..CycleUnits
<1>1. /\ s.h \in Harvesters /\ DOMAIN s.left \subseteq Deposits
      /\ s.left \in [DOMAIN s.left -> Nat \ {0}]
  BY WorldHas
<1>2. PICK r : r = KindOf[s.h.res]
  OBVIOUS
<1>3. /\ r \in Resource /\ MaxCarry[r] \in Nat \ {0} /\ Speed[r] \in Nat \ {0}
      /\ CycleUnits \in Nat \ {0}
  BY <1>1, <1>2, HarvesterAssumption
<1>4. s.h.carry[r] \in Nat /\ s.h.carry[r] <= MaxCarry[r] /\ s.h.accum \in 0..CycleUnits
  BY <1>1, <1>3 DEF Harvesters, Loads
<1>5. s.left[s.h.res] \in Nat \ {0}
  BY <1>1
<1>6. Gathered(s) = (s.h.accum + Speed[r]) \div CycleUnits
  BY <1>2 DEF Gathered
<1>7. \A a \in Nat, c \in Nat \ {0} : a \div c \in Nat /\ (a \div c = 0 => a \in 0..c)
  OBVIOUS
<1>8. s.h.accum + Speed[r] \in Nat
  BY <1>3, <1>4
<1>9. Gathered(s) \in Nat /\ (Gathered(s) = 0 => s.h.accum + Speed[r] \in 0..CycleUnits)
  BY <1>3, <1>6, <1>7, <1>8
<1>10. Yield(s) = Lesser(MaxCarry[r], s.h.carry[r] + Lesser(Gathered(s), s.left[s.h.res])) - s.h.carry[r]
  BY <1>2 DEF Yield
<1>11. ASSUME NEW a \in Nat, NEW b \in Nat, NEW c \in Nat, NEW d \in Nat, a <= b,
              NEW y, y = Lesser(b, a + Lesser(c, d)) - a
       PROVE  y \in Nat /\ y <= d /\ a + y <= b
  BY <1>11 DEF Lesser
<1>12. Yield(s) \in Nat /\ Yield(s) <= s.left[s.h.res] /\ s.h.carry[r] + Yield(s) <= MaxCarry[r]
  <2>1. s.left[s.h.res] \in Nat /\ MaxCarry[r] \in Nat
    BY <1>3, <1>5
  <2>. QED BY <1>4, <1>9, <1>10, <1>11, <2>1
<1>. QED BY <1>2, <1>3, <1>4, <1>5, <1>9, <1>12

\* The harvester has something more, or less, of a resource.
Laden(h, r, n) == [h EXCEPT !.carry = [h.carry EXCEPT ![r] = n]]

LEMMA LadenIs ==
  ASSUME NEW h \in Harvesters, NEW r \in Resource, NEW n \in Nat, n <= MaxCarry[r]
  PROVE  /\ Laden(h, r, n) \in Harvesters /\ SameBut(h, Laden(h, r, n), {"carry"})
         /\ \A q \in Resource : Laden(h, r, n).carry[q] = IF q = r THEN n ELSE h.carry[q]
<1>1. h.carry \in Loads
  BY DEF Harvesters
<1>2. PICK c : c = [h.carry EXCEPT ![r] = n]
  OBVIOUS
<1>3. c \in Loads /\ \A q \in Resource : c[q] = IF q = r THEN n ELSE h.carry[q]
  BY <1>1, <1>2 DEF Loads
<1>4. PICK k : k = [h EXCEPT !.carry = c]
  OBVIOUS
<1>5. k \in Harvesters /\ SameBut(h, k, {"carry"}) /\ k.carry = c
  BY <1>3, <1>4 DEF Harvesters, SameBut, HFields
<1>. QED BY <1>2, <1>3, <1>4, <1>5 DEF Laden

Mined(s) ==
  LET r == KindOf[s.h.res]
  IN  [s EXCEPT !.h = [Laden(s.h, r, s.h.carry[r] + Yield(s)) EXCEPT !.accum = 0],
                !.left = LeftAfter(s.left, s.h.res, Yield(s))]

LEMMA MineIs ==
  ASSUME NEW s \in Worlds, s.h.res \in DOMAIN s.left
  PROVE  Mine(s) = Mined(s)
<1>1. PICK r : r = KindOf[s.h.res]
  OBVIOUS
<1>2. PICK d : d = s.h.res
  OBVIOUS
<1>3. PICK c : c = Lesser(MaxCarry[r], s.h.carry[r] + Lesser(Gathered(s), s.left[d]))
  OBVIOUS
<1>4. /\ Yield(s) \in Nat /\ s.h.carry[r] \in Nat /\ r \in Resource
      /\ Gathered(s) \in Nat /\ s.left[d] \in Nat /\ MaxCarry[r] \in Nat
  BY <1>1, <1>2, YieldIs
<1>5. c \in Nat
  BY <1>3, <1>4 DEF Lesser
<1>6. Yield(s) = c - s.h.carry[r]
  BY <1>1, <1>2, <1>3 DEF Yield
<1>7. s.h.carry[r] + Yield(s) = c
  BY <1>4, <1>5, <1>6
<1>8. PICK left : left = LeftAfter(s.left, d, c - s.h.carry[r])
  OBVIOUS
<1>9. Mine(s) = [s EXCEPT !.h.accum = 0, !.h.carry[r] = c, !.left = left]
  BY <1>1, <1>2, <1>3, <1>8 DEF Mine, LeftAfter
<1>10. Mined(s) = [s EXCEPT !.h = [Laden(s.h, r, c) EXCEPT !.accum = 0], !.left = left]
  BY <1>1, <1>2, <1>6, <1>7, <1>8 DEF Mined
<1>11. s.h \in Harvesters
  BY WorldHas
<1>12. PICK m : m = [s.h EXCEPT !.accum = 0]
  OBVIOUS
<1>13. PICK k : k = [m EXCEPT !.carry = [m.carry EXCEPT ![r] = c]]
  OBVIOUS
<1>14. k = [Laden(s.h, r, c) EXCEPT !.accum = 0]
  BY <1>11, <1>12, <1>13 DEF Laden, Harvesters
<1>15. PICK u : u = [s EXCEPT !.h = m]
  OBVIOUS
<1>16. u.h = m
  BY <1>15 DEF Worlds
<1>17. Mine(s) = [[u EXCEPT !.h = k] EXCEPT !.left = left]
  BY <1>9, <1>12, <1>13, <1>15, <1>16
<1>18. [u EXCEPT !.h = k] = [s EXCEPT !.h = k]
  BY <1>15 DEF Worlds
<1>. QED BY <1>10, <1>14, <1>17, <1>18

LEMMA MineIsOk ==
  ASSUME NEW s, Ok(s), s.h.res \in DOMAIN s.left
  PROVE  LET t == Mine(s)
         IN  /\ Ok(t) /\ SameBut(s.h, t.h, {"accum", "carry"})
             /\ t.g = s.g /\ t.used = s.used
             /\ Burdened(s.h) => Burdened(t.h)
<1>1. s \in Worlds /\ s.h \in Harvesters
  BY WorldHas DEF Ok, Sane
<1>2. PICK r : r = KindOf[s.h.res]
  OBVIOUS
<1>3. PICK n : n = Yield(s)
  OBVIOUS
<1>4. /\ r \in Resource /\ n \in Nat /\ n <= s.left[s.h.res]
      /\ s.h.carry[r] \in Nat /\ s.h.carry[r] + n <= MaxCarry[r]
  BY <1>1, <1>2, <1>3, YieldIs
<1>5. PICK l : l = Laden(s.h, r, s.h.carry[r] + n)
  OBVIOUS
<1>6. /\ l \in Harvesters /\ SameBut(s.h, l, {"carry"})
      /\ \A q \in Resource : l.carry[q] = IF q = r THEN s.h.carry[r] + n ELSE s.h.carry[q]
  <2>1. s.h.carry[r] + n \in Nat
    BY <1>4
  <2>. QED BY <1>1, <1>4, <1>5, <2>1, LadenIs
<1>7. PICK k : k = [l EXCEPT !.accum = 0]
  OBVIOUS
<1>8. 0 \in 0..CycleUnits
  BY HarvesterAssumption
<1>9. k \in Harvesters /\ SameBut(l, k, {"accum"}) /\ k.carry = l.carry
  BY <1>6, <1>7, <1>8 DEF Harvesters, SameBut, HFields
<1>10. SameBut(s.h, k, {"accum", "carry"})
  BY <1>6, <1>9 DEF SameBut
<1>11. PICK left : left = LeftAfter(s.left, s.h.res, n)
  OBVIOUS
<1>12. s.left \in PartialOn(Deposits, Nat \ {0})
  BY <1>1 DEF Worlds
<1>13. /\ left \in PartialOn(Deposits, Nat \ {0})
       /\ \A q \in Resource :
            /\ InGroundOf(s.left, q) \in Int /\ InGroundOf(left, q) \in Int
            /\ InGroundOf(left, q) = InGroundOf(s.left, q) - (IF q = KindOf[s.h.res] THEN n ELSE 0)
  BY <1>4, <1>11, <1>12, MinedFrom
<1>14. PICK t : t = Mine(s)
  OBVIOUS
<1>15. t = [s EXCEPT !.h = k, !.left = left]
  BY <1>1, <1>2, <1>3, <1>5, <1>7, <1>11, <1>14, MineIs DEF Mined
<1>16. t \in Worlds /\ t.h = k /\ t.left = left /\ t.g = s.g /\ t.used = s.used /\ t.bad = s.bad
  BY <1>1, <1>9, <1>13, <1>15 DEF Worlds
<1>17. ASSUME NEW q \in Resource
       PROVE  GoodsOf(t, q) = GoodsOf(s, q)
  <2>1. InSites(s.g, q) + SpentInAll(s.used, q) = InSites(t.g, q) + SpentInAll(t.used, q)
    BY <1>16
  <2>2. t.h.carry[q] = IF q = r THEN s.h.carry[r] + n ELSE s.h.carry[q]
    BY <1>6, <1>9, <1>16
  <2>3. s.h.carry[q] \in Nat
    BY <1>1 DEF Harvesters, Loads
  <2>4. InSites(s.g, q) \in Int /\ SpentInAll(s.used, q) \in Int
    <3>1. Shape(s.g) /\ s.used \in Spents
      BY <1>1, WorldHas
    <3>2. Apart(s.g, s.g, None)
      BY DEF Apart
    <3>3. InSites(s.g, q) \in Int
      BY <3>1, <3>2, SitesApart
    <3>4. \A x \in Faction : s.used[x][q] = s.used[x][q] + (IF x = Us THEN 0 ELSE 0)
      BY <3>1 DEF Spents
    <3>5. Us \in Faction
      BY HarvesterAssumption
    <3>6. SpentInAll(s.used, q) \in Int
      BY <3>1, <3>4, <3>5, SpentApart
    <3>. QED BY <3>3, <3>6
  <2>5. InGroundOf(t.left, q) + t.h.carry[q] = InGroundOf(s.left, q) + s.h.carry[q]
    BY <1>2, <1>4, <1>13, <1>16, <2>2, <2>3
  <2>6. InGroundOf(t.left, q) \in Int /\ InGroundOf(s.left, q) \in Int /\ t.h.carry[q] \in Int
    BY <1>4, <1>13, <1>16, <2>2, <2>3
  <2>7. InSites(t.g, q) = InSites(s.g, q) /\ SpentInAll(t.used, q) = SpentInAll(s.used, q)
    BY <1>16
  <2>. QED BY <2>3, <2>4, <2>5, <2>6, <2>7 DEF GoodsOf
<1>18. Sane(t, outside)
  BY <1>16, <1>17 DEF Ok, Sane
<1>19. t.h.building = s.h.building
  BY <1>10, <1>16 DEF SameBut, HFields
<1>20. Ok(t)
  BY <1>16, <1>18, <1>19 DEF Ok, ZombiesOK
<1>21. ASSUME Burdened(s.h) PROVE Burdened(t.h)
  BY <1>4, <1>6, <1>9, <1>16, <1>21 DEF Burdened
<1>. QED BY <1>10, <1>14, <1>16, <1>20, <1>21
-----------------------------------------------------------------------------
(* At work at a deposit *)

LEMMA FinishHarvestingIsFree ==
  ASSUME NEW s, Ok(s), s.h.handlers \subseteq Harvesting, NEW t, t = FinishHarvesting(s)
  PROVE  /\ Free(t) /\ Fit(t.h) /\ Good(t) /\ t.h.state = "NOT_HARVESTING"
         /\ Turns(s, t, {"res", "resName", "accum", "handlers", "state"})
         /\ t \in Worlds /\ t.g = s.g /\ t.used = s.used /\ t.left = s.left
<1>1. s \in Worlds
  BY DEF Ok, Sane
<1>2. /\ Turns(s, t, {"res", "resName", "accum", "handlers", "state"})
      /\ t.h.state = "NOT_HARVESTING" /\ t.h.handlers = s.h.handlers \ Harvesting
  BY <1>1, FinishHarvestingDoes
<1>3. t \in Worlds /\ t.g = s.g /\ t.used = s.used /\ t.left = s.left
  BY <1>1, <1>2, TurnsOnly
<1>4. t.h.handlers = {}
  BY <1>2
<1>5. Free(t)
  BY <1>2, <1>4, FreeIfTurned
<1>6. t.h \in Harvesters
  BY <1>3, WorldHas
<1>7. Fit(t.h)
  BY <1>2, <1>4, <1>6, FitOnErrand
<1>. QED BY <1>2, <1>3, <1>5, <1>7 DEF Good, Free

LEMMA AccumulateIsGood ==
  ASSUME NEW s, Good(s), s.h.res \in DOMAIN s.left, Gathered(s) = 0
  PROVE  Good(Accumulate(s))
<1>1. s \in Worlds /\ s.h \in Harvesters
  BY WorldHas DEF Good, Ok, Sane
<1>2. PICK n : n = s.h.accum + Speed[KindOf[s.h.res]]
  OBVIOUS
<1>3. n \in 0..CycleUnits
  BY <1>1, <1>2, YieldIs
<1>4. PICK k : k = [s.h EXCEPT !.accum = n]
  OBVIOUS
<1>5. k \in Harvesters /\ SameBut(s.h, k, {"accum"})
  BY <1>1, <1>3, <1>4 DEF Harvesters, SameBut, HFields
<1>6. Accumulate(s) = [s EXCEPT !.h = k]
  BY <1>1, <1>2, <1>4 DEF Accumulate, Worlds
<1>7. Turns(s, Accumulate(s), {"accum"})
  BY <1>1, <1>5, <1>6, TurnedInto
<1>. QED BY <1>7, TurnedIsGood

LEMMA FullIsBurdened ==
  ASSUME NEW s \in Worlds, NEW r \in Resource, HandsFull(s, r)
  PROVE  Burdened(s.h) /\ Carried(s) # {}
<1>1. MaxCarry[r] \in Nat \ {0}
  BY HarvesterAssumption
<1>2. s.h.carry[r] > 0
  BY <1>1 DEF HandsFull
<1>. QED BY <1>2 DEF Burdened, Carried

\* The harvester goes on working, with what it has in its hands.
LEMMA MineAtWork ==
  ASSUME NEW s, Good(s), s.h.state \in Work, s.h.handlers = HandlersFor(s.h),
         s.h.res \in DOMAIN s.left, NEW t, t = Mine(s)
  PROVE  /\ Good(t) /\ Ok(t) /\ t \in Worlds /\ t.h.handlers = s.h.handlers
         /\ t.g = s.g /\ t.used = s.used /\ t.h.dest = s.h.dest /\ t.h.state = s.h.state
<1>1. Ok(s) /\ Fit(s.h)
  BY DEF Good
<1>2. /\ Ok(t) /\ SameBut(s.h, t.h, {"accum", "carry"}) /\ t.g = s.g /\ t.used = s.used
  BY <1>1, MineIsOk
<1>3. t \in Worlds /\ t.h \in Harvesters
  BY <1>2, WorldHas DEF Ok, Sane
<1>4. t.h.state = s.h.state /\ t.h.handlers = s.h.handlers /\ t.h.res = s.h.res /\ t.h.dest = s.h.dest
  BY <1>2 DEF SameBut, HFields
<1>5. HandlersFor(t.h) = HandlersFor(s.h)
  BY <1>4 DEF HandlersFor
<1>6. s.h.res # None
  BY <1>1 DEF Fit, Equipped
<1>7. Fit(t.h)
  BY <1>3, <1>4, <1>5, <1>6, FitAtWork
<1>. QED BY <1>2, <1>3, <1>4, <1>7 DEF Good

LEMMA OnHarvestAnimIsGood ==
  ASSUME NEW s, Good(s), "on_harvest_anim_finished" \in s.h.handlers, NEW near,
         NEW u \in OnHarvestAnim(s, near)
  PROVE  Good(u)
<1>1. s \in Worlds /\ s.h \in Harvesters /\ Fit(s.h) /\ Ok(s)
  BY WorldHas DEF Good, Ok, Sane
<1>2. s.h.handlers = AtWork /\ s.h.state = "HARVESTING"
  BY <1>1, ErrandIs
<1>3. AtWork \subseteq Harvesting /\ s.h.state \in Work /\ s.h.handlers = HandlersFor(s.h)
  BY <1>2, StatesHandlers DEF Harvesting, Work
<1>4. PICK t : t = Mine(s)
  OBVIOUS
<1>5. PICK r : r = KindOf[s.h.res]
  OBVIOUS
<1>6. CASE s.h.res \notin DOMAIN s.left
  <2>1. u \in TryGatherNearest(FinishHarvesting(s), s.h.resName, near)
    BY <1>6 DEF OnHarvestAnim
  <2>2. Free(FinishHarvesting(s)) /\ Fit(FinishHarvesting(s).h)
    BY <1>1, <1>2, <1>3, FinishHarvestingIsFree
  <2>. QED BY <2>1, <2>2, TryGatherNearestIsGood
<1>7. CASE s.h.res \in DOMAIN s.left
  <2>1. Good(t) /\ Ok(t) /\ t \in Worlds /\ t.h.handlers = AtWork
    BY <1>1, <1>2, <1>3, <1>4, <1>7, MineAtWork
  <2>2. \/ u = Accumulate(s) /\ Gathered(s) = 0
        \/ u \in TryGatherNearest(FinishHarvesting(t), s.h.resName, near)
        \/ u \in TryDropOff(Drop(t, AtWork))
        \/ u = t
    BY <1>4, <1>7 DEF OnHarvestAnim
  <2>3. Free(FinishHarvesting(t)) /\ Fit(FinishHarvesting(t).h)
    BY <1>3, <2>1, FinishHarvestingIsFree
  <2>4. Free(Drop(t, AtWork))
    <3>1. PICK v : v = Drop(t, AtWork)
      OBVIOUS
    <3>2. Turns(t, v, {"handlers"}) /\ v.h.handlers = {}
      BY <2>1, <3>1, DropDoes
    <3>. QED BY <2>1, <3>1, <3>2, FreeIfTurned
  <2>5. CASE u = Accumulate(s) /\ Gathered(s) = 0
    BY <1>7, <2>5, AccumulateIsGood
  <2>6. CASE u \in TryGatherNearest(FinishHarvesting(t), s.h.resName, near)
    BY <2>3, <2>6, TryGatherNearestIsGood
  <2>7. CASE u \in TryDropOff(Drop(t, AtWork))
    BY <2>4, <2>7, TryDropOffIsGood
  <2>. QED BY <2>1, <2>2, <2>5, <2>6, <2>7
<1>. QED BY <1>6, <1>7

LEMMA OnMotionBeginIsGood ==
  ASSUME NEW s, Good(s), "on_motion_begin_harvest" \in s.h.handlers
  PROVE  Good(OnMotionBegin(s))
<1>1. s \in Worlds /\ s.h \in Harvesters /\ Fit(s.h) /\ Ok(s)
  BY WorldHas DEF Good, Ok, Sane
<1>2. s.h.state \in Work
  BY <1>1, ErrandIs
<1>3. s.h.handlers \subseteq Harvesting
  <2>1. s.h.handlers = HandlersFor(s.h)
    BY <1>1, <1>2 DEF Fit, OneErrand, Work
  <2>. QED BY <1>2, <2>1, StatesHandlers DEF Work, Harvesting
<1>4. PICK t : t = FinishHarvesting(s)
  OBVIOUS
<1>5. Good(t) /\ t \in Worlds
  BY <1>1, <1>3, <1>4, FinishHarvestingIsFree
<1>6. PICK b : b = (t.bad \/ s.h.state \notin {"HARVESTING", "TRANSPORT_HARVESTING"})
  OBVIOUS
<1>7. t.bad \in BOOLEAN
  BY <1>5, WorldHas
<1>8. b = t.bad
  <2>1. s.h.state \in {"HARVESTING", "TRANSPORT_HARVESTING"}
    BY <1>2 DEF Work
  <2>. QED BY <1>6, <1>7, <2>1, Zenon
<1>9. OnMotionBegin(s) = [t EXCEPT !.bad = b]
  BY <1>4, <1>6, Zenon DEF OnMotionBegin
<1>10. [t EXCEPT !.bad = b] = t
  BY <1>5, <1>8 DEF Worlds
<1>. QED BY <1>5, <1>9, <1>10
-----------------------------------------------------------------------------
(* Putting down and taking *)

LEMMA StoringIsSound ==
  ASSUME NEW g, NEW s \in Spents, Sound(g, s), NEW e \in Entity, e \in DOMAIN g.site,
         NEW r \in Resource, NEW n \in Nat, CurrAllowed(g, e, r, n), NEW h, h = SetCurr(g, e, r, n)
  PROVE  /\ Sound(h, s) /\ Shape(h) /\ Beside(g, h, e)
         /\ h.build = g.build /\ h.faction = g.faction /\ DOMAIN h.site = DOMAIN g.site
         /\ g.site[e].curr[r] \in Nat
         /\ \A q \in Resource :
              /\ InSites(g, q) \in Int /\ InSites(h, q) \in Int
              /\ InSites(h, q) = InSites(g, q) + (IF q = r THEN n - g.site[e].curr[r] ELSE 0)
<1>1. /\ Shape(g) /\ EntityOK(g, e) /\ Owned(g, e) /\ SiteOK(g, e) /\ g.site[e] \in SiteRecord
  BY EntityFacts
<1>2. /\ Beside(g, h, e) /\ h.cap = g.cap /\ ResKept(g, h, e) /\ CapKept(g, h, e)
      /\ SameSite(g.site[e], h.site[e], {"curr"})
      /\ \A q \in Resource : h.site[e].curr[q] = IF q = r THEN n ELSE g.site[e].curr[q]
      /\ h.changed[e] = IF n = g.site[e].curr[r] THEN g.changed[e] ELSE g.changed[e] + 1
  BY <1>1, SetCurrDoes
<1>3. /\ Shape(h) /\ h.build = g.build /\ h.faction = g.faction /\ DOMAIN h.site = DOMAIN g.site
  BY <1>2 DEF Beside
<1>4. g.site[e].curr \in [Resource -> Nat] /\ h.site[e] \in SiteRecord
  <2>1. h.site[e] \in SiteRecord
    BY <1>3 DEF Shape
  <2>. QED BY <1>1, <2>1, SiteTables
<1>5. Sound(h, s)
  <2>1. CASE n # g.site[e].curr[r]
    BY <2>1, StoreSound
  <2>2. CASE n = g.site[e].curr[r]
    <3>1. h.site[e].curr \in [Resource -> Nat]
      BY <1>4, SiteTables
    <3>2. h.site[e].curr = g.site[e].curr
      <4>1. \A q \in Resource : h.site[e].curr[q] = g.site[e].curr[q]
        BY <1>2, <2>2
      <4>. QED BY <1>4, <3>1, <4>1
    <3>3. h.site[e] = g.site[e]
      BY <1>1, <1>2, <1>4, <3>2 DEF SiteRecord, SameSite
    <3>4. SiteOK(h, e)
      <4>1. UnderWork(h, e) <=> UnderWork(g, e)
        BY <1>3 DEF UnderWork
      <4>2. Asked(h, e) = Asked(g, e)
        BY <1>3 DEF Asked, IsFounded
      <4>. QED BY <1>1, <3>3, <4>1, <4>2 DEF SiteOK
    <3>5. IsFounded(h, e) /\ IsSaturated(h, e) /\ h.build[e].required # Zero => h.changed[e] > 0
      BY <1>1, <1>2, <1>3, <2>2, <3>3 DEF EntityOK, IsFounded, IsSaturated
    <3>. QED BY <1>2, <3>4, <3>5, SiteStep
  <2>. QED BY <2>1, <2>2
<1>6. Apart(g, h, e)
  BY <1>1, <1>2, BesideWorks DEF Works
<1>7. ASSUME NEW q \in Resource
      PROVE  /\ InSites(g, q) \in Int /\ InSites(h, q) \in Int
             /\ InSites(h, q) = InSites(g, q) + (IF q = r THEN n - g.site[e].curr[r] ELSE 0)
  <2>1. /\ InSites(g, q) \in Int /\ InSites(h, q) \in Int
        /\ InSites(h, q) - Holds(h, e, q) = InSites(g, q) - Holds(g, e, q)
    BY <1>1, <1>3, <1>6, SitesApart
  <2>2. /\ Holds(g, e, q) = g.site[e].curr[q]
        /\ Holds(h, e, q) = IF q = r THEN n ELSE g.site[e].curr[q]
    BY <1>2, <1>3 DEF Holds
  <2>3. g.site[e].curr[q] \in Nat
    BY <1>4
  <2>. QED BY <2>1, <2>2, <2>3
<1>. QED BY <1>2, <1>3, <1>4, <1>5, <1>7

LEMMA GoodsAreInt ==
  ASSUME NEW s \in Worlds, NEW r \in Resource
  PROVE  /\ InGroundOf(s.left, r) \in Int /\ s.h.carry[r] \in Nat
         /\ InSites(s.g, r) \in Int /\ SpentInAll(s.used, r) \in Int
<1>1. Shape(s.g) /\ s.used \in Spents /\ s.h \in Harvesters
  BY WorldHas
<1>2. Apart(s.g, s.g, None)
  BY DEF Apart
<1>3. InSites(s.g, r) \in Int
  BY <1>1, <1>2, SitesApart
<1>4. \A x \in Faction : s.used[x][r] = s.used[x][r] + (IF x = Us THEN 0 ELSE 0)
  BY <1>1 DEF Spents
<1>5. SpentInAll(s.used, r) \in Int
  <2>1. Us \in Faction /\ 0 \in Int
    BY HarvesterAssumption
  <2>2. PICK u : u = s.used
    OBVIOUS
  <2>3. u \in Spents /\ \A x \in Faction : u[x][r] = u[x][r] + (IF x = Us THEN 0 ELSE 0)
    BY <1>1, <1>4, <2>2
  <2>4. SpentInAll(u, r) \in Int
    BY <2>1, <2>3, SpentApart
  <2>. QED BY <2>2, <2>4
<1>6. s.h.carry[r] \in Nat
  BY <1>1 DEF Harvesters, Loads
<1>7. InGroundOf(s.left, r) \in Int
  <2> DEFINE S == {x \in DOMAIN s.left : KindOf[x] = r}
             f == [x \in S |-> s.left[x]]
  <2>1. S \subseteq Deposits /\ f \in [S -> Int]
    BY WorldHas
  <2>2. IsFiniteSet(S)
    BY <2>1, HarvesterAssumption, FS_Subset
  <2>3. InGroundOf(s.left, r) = SumFunction(f)
    BY DEF InGroundOf
  <2> HIDE DEF S, f
  <2>. QED BY <2>1, <2>2, <2>3, SumTakeOut
<1>. QED BY <1>3, <1>5, <1>6, <1>7

\* What the harvester has and what a site has change by the same amount.
Passes(s, e, r, m, n) == [s EXCEPT !.h = Laden(s.h, r, m), !.g = SetCurr(s.g, e, r, n)]

LEMMA PassingIsOk ==
  ASSUME NEW s, Ok(s), NEW e, e \in DOMAIN s.g.site, NEW r \in Resource,
         NEW m \in Nat, m <= MaxCarry[r], NEW n \in Nat, CurrAllowed(s.g, e, r, n),
         m + n = s.h.carry[r] + s.g.site[e].curr[r],
         NEW t, t = Passes(s, e, r, m, n)
  PROVE  /\ Ok(t) /\ SameBut(s.h, t.h, {"carry"})
         /\ t.left = s.left /\ t.used = s.used
         /\ t.g.build = s.g.build /\ t.g.faction = s.g.faction
         /\ DOMAIN t.g.site = DOMAIN s.g.site
         /\ t.h.carry[r] = m
<1>1. /\ s \in Worlds /\ s.h \in Harvesters /\ Sound(s.g, s.used) /\ s.used \in Spents
      /\ e \in Entity
  BY WorldHas, SitesAre DEF Ok, Sane
<1>2. PICK h : h = SetCurr(s.g, e, r, n)
  OBVIOUS
<1>3. /\ Sound(h, s.used) /\ Shape(h)
      /\ h.build = s.g.build /\ h.faction = s.g.faction /\ DOMAIN h.site = DOMAIN s.g.site
      /\ s.g.site[e].curr[r] \in Nat
      /\ \A q \in Resource :
           /\ InSites(s.g, q) \in Int /\ InSites(h, q) \in Int
           /\ InSites(h, q) = InSites(s.g, q) + (IF q = r THEN n - s.g.site[e].curr[r] ELSE 0)
  BY <1>1, <1>2, StoringIsSound
<1>4. PICK l : l = Laden(s.h, r, m)
  OBVIOUS
<1>5. /\ l \in Harvesters /\ SameBut(s.h, l, {"carry"})
      /\ \A q \in Resource : l.carry[q] = IF q = r THEN m ELSE s.h.carry[q]
  BY <1>1, <1>4, LadenIs
<1>6. h \in Games
  BY <1>3, GamesHaveShape
<1>7. /\ t \in Worlds /\ t.h = l /\ t.g = h
      /\ t.left = s.left /\ t.used = s.used /\ t.bad = s.bad
  BY <1>1, <1>2, <1>4, <1>5, <1>6 DEF Passes, Worlds
<1>8. ASSUME NEW q \in Resource
      PROVE  GoodsOf(t, q) = GoodsOf(s, q)
  <2>1. /\ InGroundOf(s.left, q) \in Int /\ s.h.carry[q] \in Nat
        /\ InSites(s.g, q) \in Int /\ SpentInAll(s.used, q) \in Int
    BY <1>1, GoodsAreInt
  <2>2. t.h.carry[q] = IF q = r THEN m ELSE s.h.carry[q]
    BY <1>5, <1>7
  <2>3. InSites(t.g, q) = InSites(s.g, q) + (IF q = r THEN n - s.g.site[e].curr[r] ELSE 0)
    BY <1>3, <1>7
  <2>4. InGroundOf(t.left, q) = InGroundOf(s.left, q) /\ SpentInAll(t.used, q) = SpentInAll(s.used, q)
    BY <1>7
  <2>5. t.h.carry[q] + InSites(t.g, q) = s.h.carry[q] + InSites(s.g, q)
    BY <1>3, <2>1, <2>2, <2>3
  <2>6. t.h.carry[q] \in Int /\ InSites(t.g, q) \in Int
    BY <1>3, <2>1, <2>2, <2>3
  <2>. QED BY <2>1, <2>4, <2>5, <2>6 DEF GoodsOf
<1>9. Sane(t, outside)
  BY <1>3, <1>7, <1>8 DEF Ok, Sane
<1>10. t.h.building = s.h.building /\ Active(t.g) = Active(s.g)
  BY <1>3, <1>5, <1>7 DEF SameBut, HFields, Active
<1>11. Ok(t)
  BY <1>9, <1>10 DEF Ok, ZombiesOK
<1>. QED BY <1>3, <1>5, <1>7, <1>11

\* What passing goods to or from a site leaves as it was.
GoodsPassed(s, t) ==
  /\ Ok(t) /\ t \in Worlds /\ SameBut(s.h, t.h, {"carry"})
  /\ t.left = s.left /\ t.used = s.used
  /\ t.g.build = s.g.build /\ t.g.faction = s.g.faction /\ DOMAIN t.g.site = DOMAIN s.g.site

LEMMA SiteAmounts ==
  ASSUME NEW s, Ok(s), NEW e, e \in DOMAIN s.g.site, NEW r \in Resource
  PROVE  /\ s.g.site[e].curr[r] \in Nat /\ EffectiveCapacity(s.g.site[e])[r] \in Nat
         /\ EffectiveDesired(s.g.site[e])[r] \in Nat
         /\ s.g.site[e].curr[r] <= EffectiveCapacity(s.g.site[e])[r]
         /\ s.h.carry[r] \in Nat /\ MaxCarry[r] \in Nat /\ s.h.carry[r] <= MaxCarry[r]
<1>1. s \in Worlds /\ s.h \in Harvesters /\ Sound(s.g, s.used) /\ e \in Entity
  BY WorldHas, SitesAre DEF Ok, Sane
<1>2. SiteOK(s.g, e) /\ s.g.site[e] \in SiteRecord
  BY <1>1, EntityFacts
<1>3. /\ s.g.site[e].curr \in [Resource -> Nat]
      /\ EffectiveCapacity(s.g.site[e]) \in [Resource -> Nat]
      /\ EffectiveDesired(s.g.site[e]) \in [Resource -> Nat]
  BY <1>2, SiteTables
<1>4. s.g.site[e].curr[r] <= EffectiveCapacity(s.g.site[e])[r]
  BY <1>2 DEF SiteOK
<1>5. s.h.carry[r] \in Nat /\ MaxCarry[r] \in Nat /\ s.h.carry[r] <= MaxCarry[r]
  BY <1>1, HarvesterAssumption DEF Harvesters, Loads
<1>. QED BY <1>3, <1>4, <1>5

\* How much is put down.
Down(s, e) ==
  LET r == CarriedName(s)
  IN  IF LeftIn(s, e, r) >= s.h.carry[r] THEN s.h.carry[r] ELSE LeftIn(s, e, r)

LEMMA PutDownIsOk ==
  ASSUME NEW s, Ok(s), NEW e, e \in DOMAIN s.g.site, Carried(s) # {}, NEW t, t = PutDown(s, e)
  PROVE  GoodsPassed(s, t)
<1>1. s \in Worlds
  BY DEF Ok, Sane
<1>2. PICK r : r = CarriedName(s)
  OBVIOUS
<1>3. r \in Resource
  BY <1>1, <1>2, CarriedIs
<1>4. /\ s.g.site[e].curr[r] \in Nat /\ EffectiveCapacity(s.g.site[e])[r] \in Nat
      /\ s.g.site[e].curr[r] <= EffectiveCapacity(s.g.site[e])[r]
      /\ s.h.carry[r] \in Nat /\ MaxCarry[r] \in Nat /\ s.h.carry[r] <= MaxCarry[r]
  BY <1>3, SiteAmounts
<1>5. PICK n : n = Down(s, e)
  OBVIOUS
<1>6. /\ n \in Nat /\ n <= s.h.carry[r]
      /\ s.g.site[e].curr[r] + n <= EffectiveCapacity(s.g.site[e])[r]
  BY <1>2, <1>4, <1>5 DEF Down, LeftIn
<1>7. PICK m : m = s.h.carry[r] - n
  OBVIOUS
<1>8. PICK c : c = s.g.site[e].curr[r] + n
  OBVIOUS
<1>9. /\ m \in Nat /\ m <= MaxCarry[r] /\ c \in Nat /\ c <= EffectiveCapacity(s.g.site[e])[r]
      /\ m + c = s.h.carry[r] + s.g.site[e].curr[r]
  BY <1>4, <1>6, <1>7, <1>8
<1>10. CurrAllowed(s.g, e, r, c)
  BY <1>9 DEF CurrAllowed
<1>11. t = Passes(s, e, r, m, c)
  <2>1. t = [s EXCEPT !.h.carry[r] = @ - n, !.g = SetCurr(@, e, r, @.site[e].curr[r] + n)]
    BY <1>2, <1>5 DEF PutDown, Down
  <2>. QED BY <1>1, <1>7, <1>8, <2>1 DEF Passes, Laden, Worlds
<1>12. /\ Ok(t) /\ SameBut(s.h, t.h, {"carry"})
       /\ t.left = s.left /\ t.used = s.used
       /\ t.g.build = s.g.build /\ t.g.faction = s.g.faction
       /\ DOMAIN t.g.site = DOMAIN s.g.site
  BY <1>3, <1>9, <1>10, <1>11, PassingIsOk
<1>13. t \in Worlds
  BY <1>12 DEF Ok, Sane
<1>. QED BY <1>12, <1>13 DEF GoodsPassed

LEMMA TakesAre ==
  ASSUME NEW s, Ok(s), s.h.src \in DOMAIN s.g.site, NEW r \in Resource, r = s.h.resName,
         NEW n \in Takes(s)
  PROVE  n \in Nat /\ n <= s.g.site[s.h.src].curr[r] /\ s.h.carry[r] + n <= MaxCarry[r]
<1>1. PICK site : site = s.g.site[s.h.src]
  OBVIOUS
<1>2. /\ site.curr[r] \in Nat /\ EffectiveDesired(site)[r] \in Nat
      /\ s.h.carry[r] \in Nat /\ MaxCarry[r] \in Nat /\ s.h.carry[r] <= MaxCarry[r]
  BY <1>1, SiteAmounts
<1>3. PICK space : space = MaxCarry[r] - s.h.carry[r]
  OBVIOUS
<1>4. PICK all : all = Lesser(space, site.curr[r])
  OBVIOUS
<1>5. PICK excess : excess = Lesser(space, site.curr[r] - EffectiveDesired(site)[r])
  OBVIOUS
<1>6. n = all \/ n = (IF excess > 0 THEN excess ELSE 0)
  BY <1>1, <1>3, <1>4, <1>5, Zenon DEF Takes
<1>7. PICK d : d = EffectiveDesired(site)[r]
  OBVIOUS
<1>8. PICK c : c = site.curr[r]
  OBVIOUS
<1>9. PICK h : h = s.h.carry[r]
  OBVIOUS
<1>10. PICK x : x = MaxCarry[r]
  OBVIOUS
<1>11. /\ c \in Nat /\ d \in Nat /\ h \in Nat /\ x \in Nat /\ h <= x
       /\ space = x - h /\ all = Lesser(space, c) /\ excess = Lesser(space, c - d)
  BY <1>2, <1>3, <1>4, <1>5, <1>7, <1>8, <1>9, <1>10
<1>12. n \in Nat /\ n <= c /\ h + n <= x
  BY <1>6, <1>11 DEF Lesser
<1>. QED BY <1>1, <1>8, <1>9, <1>10, <1>12

LEMMA TakeIsOk ==
  ASSUME NEW s, Ok(s), s.h.src \in DOMAIN s.g.site, s.h.resName \in Resource,
         NEW n \in Takes(s), NEW t, t = Take(s, n)
  PROVE  GoodsPassed(s, t)
<1>1. s \in Worlds
  BY DEF Ok, Sane
<1>2. PICK r \in Resource : r = s.h.resName
  OBVIOUS
<1>3. PICK e : e = s.h.src
  OBVIOUS
<1>4. /\ s.g.site[e].curr[r] \in Nat /\ EffectiveCapacity(s.g.site[e])[r] \in Nat
      /\ s.g.site[e].curr[r] <= EffectiveCapacity(s.g.site[e])[r]
      /\ s.h.carry[r] \in Nat /\ MaxCarry[r] \in Nat /\ s.h.carry[r] <= MaxCarry[r]
  BY <1>2, <1>3, SiteAmounts
<1>5. n \in Nat /\ n <= s.g.site[e].curr[r] /\ s.h.carry[r] + n <= MaxCarry[r]
  BY <1>2, <1>3, TakesAre
<1>6. PICK m : m = s.h.carry[r] + n
  OBVIOUS
<1>7. PICK c : c = s.g.site[e].curr[r] - n
  OBVIOUS
<1>8. /\ m \in Nat /\ m <= MaxCarry[r] /\ c \in Nat /\ c <= EffectiveCapacity(s.g.site[e])[r]
      /\ m + c = s.h.carry[r] + s.g.site[e].curr[r]
  BY <1>4, <1>5, <1>6, <1>7
<1>9. CurrAllowed(s.g, e, r, c)
  BY <1>8 DEF CurrAllowed
<1>10. t = Passes(s, e, r, m, c)
  BY <1>1, <1>2, <1>3, <1>6, <1>7 DEF Take, Passes, Laden, Worlds
<1>11. e \in DOMAIN s.g.site
  BY <1>3
<1>12. /\ Ok(t) /\ SameBut(s.h, t.h, {"carry"})
       /\ t.left = s.left /\ t.used = s.used
       /\ t.g.build = s.g.build /\ t.g.faction = s.g.faction
       /\ DOMAIN t.g.site = DOMAIN s.g.site
  BY <1>8, <1>9, <1>10, <1>11, PassingIsOk
<1>13. t \in Worlds
  BY <1>12 DEF Ok, Sane
<1>. QED BY <1>12, <1>13 DEF GoodsPassed
-----------------------------------------------------------------------------
(* Transporting *)

LEMMA FinishTransportingIsGood ==
  ASSUME NEW s, Free(s), NEW t, t = FinishTransporting(s)
  PROVE  /\ Good(t) /\ Free(t) /\ Fit(t.h) /\ t \in Worlds
         /\ t.g = s.g /\ t.used = s.used /\ t.left = s.left
<1>1. s \in Worlds /\ Ok(s) /\ s.h.handlers = {}
  BY FreeIs
<1>2. Turns(s, t, {"dest", "src", "resName", "state"}) /\ t.h.state = "NOT_HARVESTING"
  BY <1>1, FinishTransportingDoes
<1>3. t \in Worlds /\ t.g = s.g /\ t.used = s.used /\ t.left = s.left
  BY <1>1, <1>2, TurnsOnly
<1>4. t.h.handlers = {} /\ t.h \in Harvesters
  BY <1>1, <1>2 DEF Turns, SameBut, HFields
<1>5. Free(t)
  BY <1>1, <1>2, <1>4, FreeIfTurned
<1>6. Fit(t.h)
  BY <1>2, <1>4, FitOnErrand
<1>. QED BY <1>3, <1>5, <1>6 DEF Good, Free

LEMMA GoToIsOk ==
  ASSUME NEW s, Free(s), NEW x \in Handlers, NEW t, t = GoTo(s, x)
  PROVE  /\ Ok(t) /\ t \in Worlds /\ t.h \in Harvesters /\ t.h.handlers = {x}
         /\ SameBut(s.h, t.h, {"motion", "inbox", "handlers"})
<1>1. s \in Worlds /\ Ok(s) /\ s.h.handlers = {}
  BY FreeIs
<1>2. /\ Turns(s, t, {"motion", "inbox", "handlers"}) /\ t.h.handlers = s.h.handlers \union {x}
      /\ t \in Worlds
  BY <1>1, GoToDoes, TurnsOnly
<1>3. Ok(t)
  BY <1>1, <1>2, TurnedIsOk
<1>. QED BY <1>1, <1>2, <1>3 DEF Turns

LEMMA PutIntoIsGood ==
  ASSUME NEW s, Free(s), Burdened(s.h)
  PROVE  Good(PutInto(s))
<1>1. s \in Worlds /\ Ok(s) /\ s.h.handlers = {}
  BY FreeIs
<1>2. PICK t : t = [s EXCEPT !.h.state = "TRANSPORT_PUTTING"]
  OBVIOUS
<1>3. Turns(s, t, {"state"}) /\ t.h.state = "TRANSPORT_PUTTING"
  BY <1>1, <1>2, StateDoes DEF HStates
<1>4. t.h.handlers = {} /\ t.h.carry = s.h.carry
  BY <1>1, <1>3 DEF Turns, SameBut, HFields
<1>5. Free(t)
  BY <1>1, <1>3, <1>4, FreeIfTurned
<1>6. PICK u : u = GoTo(t, "on_arrive_at_transport_dest")
  OBVIOUS
<1>7. "on_arrive_at_transport_dest" \in Handlers
  BY DEF Handlers, OnArrival
<1>8. /\ Ok(u) /\ u.h \in Harvesters /\ u.h.handlers = {"on_arrive_at_transport_dest"}
      /\ SameBut(t.h, u.h, {"motion", "inbox", "handlers"})
  BY <1>5, <1>6, <1>7, GoToIsOk
<1>9. u.h.state = "TRANSPORT_PUTTING" /\ u.h.carry = s.h.carry
  BY <1>3, <1>4, <1>8 DEF SameBut, HFields
<1>10. u.h.handlers \subseteq HandlersFor(u.h) /\ Burdened(u.h)
  BY <1>8, <1>9, StatesHandlers DEF Burdened
<1>11. Fit(u.h)
  BY <1>8, <1>9, <1>10, FitOnErrand
<1>. QED BY <1>2, <1>6, <1>8, <1>11 DEF Good, PutInto

LEMMA ToSourceIsGood ==
  ASSUME NEW s, Free(s), s.h.state = "TRANSPORT_GETTING", s.h.resName \in Resource
  PROVE  Good(GoTo(s, "on_arrive_at_transport_source"))
<1>1. PICK u : u = GoTo(s, "on_arrive_at_transport_source")
  OBVIOUS
<1>2. "on_arrive_at_transport_source" \in Handlers
  BY DEF Handlers, OnArrival
<1>3. /\ Ok(u) /\ u.h \in Harvesters /\ u.h.handlers = {"on_arrive_at_transport_source"}
      /\ SameBut(s.h, u.h, {"motion", "inbox", "handlers"})
  BY <1>1, <1>2, GoToIsOk
<1>4. u.h.state = "TRANSPORT_GETTING" /\ u.h.resName = s.h.resName
  BY <1>3 DEF SameBut, HFields
<1>5. u.h.resName # None
  BY <1>4, NoneIsNothing DEF NoneIs
<1>6. u.h.handlers \subseteq HandlersFor(u.h)
  BY <1>3, <1>4, StatesHandlers
<1>7. Fit(u.h)
  BY <1>3, <1>4, <1>5, <1>6, FitOnErrand
<1>. QED BY <1>1, <1>3, <1>7 DEF Good

LEMMA SrcDoes ==
  ASSUME NEW s \in Worlds, NEW e \in Entity \union {None}
  PROVE  Turns(s, [s EXCEPT !.h.src = e], {"src"})
<1>1. PICK k : k = [s.h EXCEPT !.src = e]
  OBVIOUS
<1>2. s.h \in Harvesters
  BY WorldHas
<1>3. k \in Harvesters /\ SameBut(s.h, k, {"src"})
  BY <1>1, <1>2 DEF Harvesters, SameBut, HFields
<1>4. [s EXCEPT !.h.src = e] = [s EXCEPT !.h = k]
  BY <1>1 DEF Worlds
<1>. QED BY <1>3, <1>4, TurnedInto

\* Where it goes with what it has taken.
Onward(s, t) ==
  LET r == s.h.resName
      others == IF HandsFull(t, r) THEN {} ELSE Sources(t, r, s.h.dest, FactionOf(t, s.h.dest))
  IN  IF others # {}
      THEN {[GoTo(t, "on_arrive_at_transport_source") EXCEPT !.h.src = e] : e \in others}
      ELSE IF t.h.carry[r] = 0 THEN {FinishTransporting(t)}
      ELSE {PutInto(t)}

LEMMA OnwardIs ==
  ASSUME NEW s, NEW u \in AtSource(s)
  PROVE  \E n \in Takes(s) :
           \/ u = FinishTransporting(Take(s, n))
           \/ u = PutInto(Take(s, n)) /\ Take(s, n).h.carry[s.h.resName] # 0
           \/ \E e \in Sources(Take(s, n), s.h.resName, s.h.dest, FactionOf(Take(s, n), s.h.dest)) :
                u = [GoTo(Take(s, n), "on_arrive_at_transport_source") EXCEPT !.h.src = e]
<1>1. AtSource(s) = UNION {IF Exists(s, s.h.dest) THEN Onward(s, Take(s, n))
                           ELSE {FinishTransporting(Take(s, n))} : n \in Takes(s)}
  BY DEF AtSource, Onward
<1>2. PICK n \in Takes(s) : \/ u \in Onward(s, Take(s, n))
                           \/ u \in {FinishTransporting(Take(s, n))}
  BY <1>1
<1>3. ASSUME NEW t, u \in Onward(s, t)
      PROVE  \/ u = FinishTransporting(t)
             \/ u = PutInto(t) /\ t.h.carry[s.h.resName] # 0
             \/ \E e \in Sources(t, s.h.resName, s.h.dest, FactionOf(t, s.h.dest)) :
                  u = [GoTo(t, "on_arrive_at_transport_source") EXCEPT !.h.src = e]
  BY <1>3 DEF Onward
<1>. QED BY <1>2, <1>3

LEMMA AtSourceIsGood ==
  ASSUME NEW s, Free(s), s.h.state = "TRANSPORT_GETTING", s.h.resName \in Resource,
         s.h.src \in DOMAIN s.g.site, NEW u \in AtSource(s)
  PROVE  Good(u)
<1>1. s \in Worlds /\ Ok(s) /\ s.h.handlers = {}
  BY FreeIs
<1>2. PICK r : r = s.h.resName
  OBVIOUS
<1>3. PICK n \in Takes(s) :
        \/ u = FinishTransporting(Take(s, n))
        \/ u = PutInto(Take(s, n)) /\ Take(s, n).h.carry[r] # 0
        \/ \E e \in Sources(Take(s, n), r, s.h.dest, FactionOf(Take(s, n), s.h.dest)) :
             u = [GoTo(Take(s, n), "on_arrive_at_transport_source") EXCEPT !.h.src = e]
  BY <1>2, OnwardIs
<1>4. PICK t : t = Take(s, n)
  OBVIOUS
<1>5. GoodsPassed(s, t)
  BY <1>1, <1>4, TakeIsOk
<1>6. /\ Ok(t) /\ t \in Worlds /\ t.h.handlers = {} /\ t.h.state = "TRANSPORT_GETTING"
      /\ t.h.resName = r
  BY <1>1, <1>2, <1>5 DEF GoodsPassed, SameBut, HFields
<1>7. Free(t)
  BY <1>6 DEF Free
<1>8. CASE u = FinishTransporting(t)
  BY <1>7, <1>8, FinishTransportingIsGood
<1>9. CASE u = PutInto(t) /\ t.h.carry[r] # 0
  <2>1. t.h.carry[r] \in Nat
    BY <1>2, <1>6, GoodsAreInt
  <2>2. Burdened(t.h)
    BY <1>2, <1>9, <2>1 DEF Burdened
  <2>. QED BY <1>7, <1>9, <2>2, PutIntoIsGood
<1>10. CASE \E e \in Sources(t, r, s.h.dest, FactionOf(t, s.h.dest)) :
              u = [GoTo(t, "on_arrive_at_transport_source") EXCEPT !.h.src = e]
  <2>1. PICK e \in Sources(t, r, s.h.dest, FactionOf(t, s.h.dest)) :
              u = [GoTo(t, "on_arrive_at_transport_source") EXCEPT !.h.src = e]
    BY <1>10
  <2>2. e \in Entity
    BY <1>6, <2>1, SitesAre
  <2>3. PICK v : v = GoTo(t, "on_arrive_at_transport_source")
    OBVIOUS
  <2>4. Good(v)
    BY <1>2, <1>6, <1>7, <2>3, ToSourceIsGood
  <2>5. v \in Worlds
    BY <2>4 DEF Good, Ok, Sane
  <2>6. Turns(v, u, {"src"})
    BY <2>1, <2>2, <2>3, <2>5, SrcDoes
  <2>. QED BY <2>4, <2>6, TurnedIsGood
<1>. QED BY <1>3, <1>4, <1>8, <1>9, <1>10

LEMMA StopIsFree ==
  ASSUME NEW s, Free(s), NEW t, t = HarvesterStop(s)
  PROVE  /\ Free(t) /\ t \in Worlds /\ t.h.state = "NOT_HARVESTING"
         /\ Turns(s, t, {"handlers", "state"})
<1>1. s \in Worlds /\ Ok(s) /\ s.h.handlers = {}
  BY FreeIs
<1>2. /\ Turns(s, t, {"handlers", "state"}) /\ t.h.state = "NOT_HARVESTING"
      /\ t.h.handlers = s.h.handlers \intersect {"on_motion_end"} /\ t \in Worlds
  BY <1>1, HarvesterStopDoes, TurnsOnly
<1>3. t.h.handlers = {}
  BY <1>1, <1>2
<1>4. Free(t)
  BY <1>1, <1>2, <1>3, FreeIfTurned
<1>. QED BY <1>2, <1>4

\* On the way to a source.
Getting(s, src, dest, r) ==
  [s EXCEPT !.h.state = "TRANSPORT_GETTING", !.h.src = src, !.h.dest = dest, !.h.resName = r]

LEMMA GettingDoes ==
  ASSUME NEW s, Free(s), NEW src \in Entity, NEW dest \in Entity \union {None},
         NEW r \in Resource, NEW t, t = Getting(s, src, dest, r)
  PROVE  /\ Free(t) /\ t \in Worlds /\ t.g = s.g /\ Fit(t.h)
         /\ t.h.state = "TRANSPORT_GETTING" /\ t.h.src = src /\ t.h.resName = r
<1>1. s \in Worlds /\ Ok(s) /\ s.h \in Harvesters /\ s.h.handlers = {}
  BY FreeIs
<1>2. PICK k : k = [s.h EXCEPT !.state = "TRANSPORT_GETTING", !.src = src, !.dest = dest, !.resName = r]
  OBVIOUS
<1>3. /\ k \in Harvesters /\ SameBut(s.h, k, {"state", "src", "dest", "resName"})
      /\ k.state = "TRANSPORT_GETTING" /\ k.src = src /\ k.resName = r /\ k.handlers = {}
  BY <1>1, <1>2 DEF Harvesters, SameBut, HFields, HStates
<1>4. t = [s EXCEPT !.h = k]
  BY <1>1, <1>2 DEF Worlds, Getting
<1>5. /\ Turns(s, t, {"state", "src", "dest", "resName"}) /\ t.h = k
      /\ t \in Worlds /\ t.g = s.g
  BY <1>1, <1>3, <1>4, TurnedInto, TurnsOnly
<1>6. Free(t)
  BY <1>1, <1>3, <1>5, FreeIfTurned
<1>7. Fit(k)
  BY <1>3, FitOnErrand, NoneIsNothing DEF NoneIs
<1>. QED BY <1>3, <1>5, <1>6, <1>7

LEMMA FetchIsGood ==
  ASSUME NEW s, Free(s), NEW src, src \in DOMAIN s.g.site, NEW dest \in Entity \union {None},
         NEW r \in Resource, NEW near, NEW u \in Fetch(s, src, dest, r, near)
  PROVE  Good(u)
<1>1. PICK v : v = HarvesterStop(s)
  OBVIOUS
<1>2. Free(v) /\ v \in Worlds /\ Turns(s, v, {"handlers", "state"})
  BY <1>1, StopIsFree
<1>3. s \in Worlds /\ v.g = s.g
  BY <1>2, FreeIs, TurnsOnly
<1>4. src \in Entity
  BY <1>3, SitesAre
<1>5. PICK t : t = Getting(v, src, dest, r)
  OBVIOUS
<1>6. /\ Free(t) /\ t.g = s.g /\ Fit(t.h)
      /\ t.h.state = "TRANSPORT_GETTING" /\ t.h.src = src /\ t.h.resName = r
  BY <1>2, <1>3, <1>4, <1>5, GettingDoes
<1>7. \/ u = GoTo(t, "on_arrive_at_transport_source")
      \/ u = t
      \/ u = FinishTransporting(t)
      \/ u \in AtSource(t)
  BY <1>1, <1>5 DEF Fetch, Getting
<1>8. CASE u = GoTo(t, "on_arrive_at_transport_source")
  BY <1>6, <1>8, ToSourceIsGood
<1>9. CASE u = t
  BY <1>6, <1>9 DEF Good, Free
<1>10. CASE u = FinishTransporting(t)
  BY <1>6, <1>10, FinishTransportingIsGood
<1>11. CASE u \in AtSource(t)
  BY <1>6, <1>11, AtSourceIsGood
<1>. QED BY <1>7, <1>8, <1>9, <1>10, <1>11

LEMMA AtResourceSourceIsGood ==
  ASSUME NEW s, Free(s), s.h.res # None, s.h.resName \in Resource, NEW u \in AtResourceSource(s)
  PROVE  Good(u)
<1>1. s \in Worlds
  BY FreeIs
<1>2. CASE HandsFull(s, s.h.resName)
  <2>1. u = PutInto(s)
    BY <1>2 DEF AtResourceSource
  <2>2. Burdened(s.h)
    BY <1>1, <1>2, FullIsBurdened
  <2>. QED BY <2>1, <2>2, PutIntoIsGood
<1>3. CASE ~HandsFull(s, s.h.resName)
  <2>1. u = [s EXCEPT !.h.state = "TRANSPORT_HARVESTING", !.h.handlers = @ \union AtWorkSource]
    BY <1>3 DEF AtResourceSource
  <2>2. "TRANSPORT_HARVESTING" \in Work
    BY DEF Work
  <2>. QED BY <2>1, <2>2, AtWorkIsGood
<1>. QED BY <1>2, <1>3

\* From here on the resource is that of the deposit.
Chosen(s, d) == [s EXCEPT !.h.res = d, !.h.resName = KindOf[d]]

LEMMA ChosenDoes ==
  ASSUME NEW s, Free(s), NEW d, d \in DOMAIN s.left, NEW t, t = Chosen(s, d)
  PROVE  /\ Turns(s, t, {"res", "resName"}) /\ t \in Worlds /\ Free(t)
         /\ t.h.res = d /\ t.h.resName \in Resource /\ d # None /\ t.h.resName # None
         /\ t.h.state = s.h.state
<1>1. s \in Worlds /\ Ok(s) /\ s.h \in Harvesters /\ s.h.handlers = {}
  BY FreeIs
<1>2. d \in Deposits
  BY <1>1, WorldHas
<1>3. d # None /\ KindOf[d] \in Resource /\ KindOf[d] # None
  <2>1. KindOf[d] \in Resource
    BY <1>2, HarvesterAssumption
  <2>. QED BY <1>2, <2>1, NoneIsNothing DEF NoneIs
<1>4. PICK k : k = [s.h EXCEPT !.res = d, !.resName = KindOf[d]]
  OBVIOUS
<1>5. /\ k \in Harvesters /\ SameBut(s.h, k, {"res", "resName"})
      /\ k.res = d /\ k.resName = KindOf[d] /\ k.handlers = s.h.handlers /\ k.state = s.h.state
  BY <1>1, <1>2, <1>3, <1>4 DEF Harvesters, SameBut, HFields
<1>6. t = [s EXCEPT !.h = k]
  BY <1>1, <1>4 DEF Worlds, Chosen
<1>7. Turns(s, t, {"res", "resName"}) /\ t \in Worlds /\ t.h = k
  BY <1>1, <1>5, <1>6, TurnedInto, TurnsOnly
<1>8. Free(t)
  BY <1>1, <1>5, <1>7, FreeIfTurned
<1>. QED BY <1>3, <1>5, <1>7, <1>8

LEMMA SeekSourceIsGood ==
  ASSUME NEW s, Free(s), s.h.state = "NOT_HARVESTING" \/ s.h.state = "TRANSPORT_SEEK_RESOURCE",
         NEW d, d \in DOMAIN s.left, NEW near, NEW u \in SeekSource(s, d, near)
  PROVE  Good(u)
<1>1. PICK t : t = Chosen(s, d)
  OBVIOUS
<1>2. /\ t \in Worlds /\ Free(t) /\ t.h.res = d /\ t.h.resName \in Resource /\ d # None
      /\ t.h.resName # None /\ t.h.state = s.h.state
  BY <1>1, ChosenDoes
<1>3. t.h \in Harvesters /\ t.h.handlers = {} /\ Ok(t)
  BY <1>2, FreeIs
<1>4. PICK v : v = Drop(t, {"on_arrive_at_resource_source"})
  OBVIOUS
<1>5. \/ u = GoTo(t, "on_arrive_at_resource_source")
      \/ u = t
      \/ u \in AtResourceSource(v)
      \/ u = FinishTransporting(v)
  BY <1>1, <1>4 DEF SeekSource, Chosen
<1>6. Turns(t, v, {"handlers"}) /\ v.h.handlers = t.h.handlers \ {"on_arrive_at_resource_source"}
  BY <1>2, <1>4, DropDoes
<1>7. v.h.handlers = {} /\ v.h.res # None /\ v.h.resName \in Resource
  BY <1>2, <1>3, <1>6 DEF Turns, SameBut, HFields
<1>8. Free(v)
  BY <1>3, <1>6, <1>7, FreeIfTurned
<1>9. CASE u = GoTo(t, "on_arrive_at_resource_source")
  <2>1. "on_arrive_at_resource_source" \in Handlers
    BY DEF Handlers, OnArrival
  <2>2. /\ Ok(u) /\ u.h \in Harvesters /\ u.h.handlers = {"on_arrive_at_resource_source"}
        /\ SameBut(t.h, u.h, {"motion", "inbox", "handlers"})
    BY <1>2, <1>9, <2>1, GoToIsOk
  <2>3. u.h.state = s.h.state /\ u.h.res # None /\ u.h.resName # None
    BY <1>2, <2>2 DEF SameBut, HFields
  <2>4. Fit(u.h)
    BY <2>2, <2>3, FitSeeking
  <2>. QED BY <2>2, <2>4 DEF Good
<1>10. CASE u = t
  <2>1. Fit(t.h)
    BY <1>2, <1>3, FitSeeking
  <2>. QED BY <1>3, <1>10, <2>1 DEF Good
<1>11. CASE u \in AtResourceSource(v)
  BY <1>7, <1>8, <1>11, AtResourceSourceIsGood
<1>12. CASE u = FinishTransporting(v)
  BY <1>8, <1>12, FinishTransportingIsGood
<1>. QED BY <1>5, <1>9, <1>10, <1>11, <1>12

\* The first of the places at which something is wanted.
LEMMA LeastIsThere ==
  ASSUME NEW S, S \subseteq Nat, S # {}
  PROVE  Min(S) \in S
<1> DEFINE R == OpToRel(<, Nat)
<1>1. IsWellFoundedOn(R, Nat)
  BY NatLessThanWellFounded
<1>2. PICK x \in S : \A y \in S : ~(<<y, x>> \in R)
  <2> HIDE DEF R
  <2>. QED BY <1>1, WFMin
<1>3. ASSUME NEW y \in S PROVE x <= y
  <2>1. x \in Nat /\ y \in Nat
    OBVIOUS
  <2>2. y < x => <<y, x>> \in R
    BY <2>1 DEF OpToRel
  <2>3. ~(y < x)
    BY <1>2, <2>2
  <2>. QED BY <2>1, <2>3
<1>4. \E z \in S : \A y \in S : z <= y
  BY <1>3
<1>. QED BY <1>4, Zenon DEF Min

LEMMA FirstIsResource ==
  ASSUME NEW S, S \subseteq DOMAIN Priority, S # {}
  PROVE  Priority[Min(S)] \in Resource /\ Min(S) \in S
<1>1. Priority \in Seq(Resource)
  BY HarvesterAssumption
<1>2. S \subseteq Nat
  BY <1>1
<1>3. Min(S) \in S
  BY <1>2, LeastIsThere
<1>. QED BY <1>1, <1>3

LEMMA WantedIs ==
  ASSUME NEW s, NEW e, Wanted(s, e) # None
  PROVE  Wanted(s, e) \in Resource
<1> DEFINE S == {i \in DOMAIN Priority : Desires(s.g, e, Priority[i])}
<1>1. S # {} /\ Wanted(s, e) = Priority[Min(S)]
  BY DEF Wanted
<1>2. S \subseteq DOMAIN Priority
  OBVIOUS
<1> HIDE DEF S
<1>. QED BY <1>1, <1>2, FirstIsResource

LEMMA OnOfferIs ==
  ASSUME NEW s, NEW e, OnOffer(s, e) # None
  PROVE  OnOffer(s, e) \in Resource
<1> DEFINE S == {i \in DOMAIN Priority : s.g.site[e].curr[Priority[i]] > 0}
<1>1. S # {} /\ OnOffer(s, e) = Priority[Min(S)]
  BY DEF OnOffer
<1>2. S \subseteq DOMAIN Priority
  OBVIOUS
<1> HIDE DEF S
<1>. QED BY <1>1, <1>2, FirstIsResource

\* A resource is sought for a site.
SeekFor(s, e) == [s EXCEPT !.h.state = "TRANSPORT_SEEK_RESOURCE", !.h.dest = e]

LEMMA SeekForDoes ==
  ASSUME NEW s, Free(s), NEW e \in Entity, NEW t, t = SeekFor(s, e)
  PROVE  /\ Free(t) /\ t \in Worlds /\ t.h.state = "TRANSPORT_SEEK_RESOURCE"
         /\ t.left = s.left /\ t.g = s.g
<1>1. s \in Worlds /\ Ok(s) /\ s.h \in Harvesters /\ s.h.handlers = {}
  BY FreeIs
<1>2. PICK k : k = [s.h EXCEPT !.state = "TRANSPORT_SEEK_RESOURCE", !.dest = e]
  OBVIOUS
<1>3. /\ k \in Harvesters /\ SameBut(s.h, k, {"state", "dest"})
      /\ k.state = "TRANSPORT_SEEK_RESOURCE" /\ k.handlers = s.h.handlers
  BY <1>1, <1>2 DEF Harvesters, SameBut, HFields, HStates
<1>4. t = [s EXCEPT !.h = k]
  BY <1>1, <1>2 DEF Worlds, SeekFor
<1>5. Turns(s, t, {"state", "dest"}) /\ t.h = k
  BY <1>1, <1>3, <1>4, TurnedInto
<1>6. t \in Worlds /\ t.left = s.left /\ t.g = s.g
  BY <1>1, <1>5, TurnsOnly
<1>7. Free(t)
  BY <1>1, <1>3, <1>5, FreeIfTurned
<1>. QED BY <1>3, <1>5, <1>6, <1>7

\* An order is queued behind what is to be done first.
Ordered(s, c, a) == [s EXCEPT !.h.cmd = c, !.h.arg = a]

LEMMA OrderedIsGood ==
  ASSUME NEW s, Good(s), NEW c \in {None, "gather", "transport", "build", "supply"},
         NEW a \in Things \union {None}, NEW t, t = Ordered(s, c, a)
  PROVE  Good(t) /\ t.h.handlers = s.h.handlers /\ t.h.carry = s.h.carry /\ t.g = s.g
         /\ t.used = s.used /\ t.left = s.left
<1>1. s \in Worlds
  BY DEF Good, Ok, Sane
<1>2. Turns(s, t, {"cmd", "arg"})
  BY <1>1, OrderDoes DEF Ordered
<1>3. Good(t)
  BY <1>2, TurnedIsGood
<1>4. t.g = s.g /\ t.used = s.used /\ t.left = s.left
  BY <1>1, <1>2, TurnsOnly
<1>. QED BY <1>2, <1>3, <1>4 DEF Turns, SameBut, HFields

LEMMA TransportNowIsGood ==
  ASSUME NEW s, Free(s), NEW e, Accepts(s, e), NEW near, NEW u \in TransportNow(s, e, near)
  PROVE  Good(u)
<1>1. s \in Worlds /\ s.h.handlers = {} /\ Ok(s)
  BY FreeIs
<1>2. e \in DOMAIN s.g.site /\ e \in Entity
  BY <1>1, SitesAre DEF Accepts, IsSite
<1>3. CASE Carried(s) # {}
  <2>1. PICK f \in DOMAIN s.g.site :
          u = [DropOff(s, f) EXCEPT !.h.cmd = "transport", !.h.arg = e]
    <3>1. PICK f \in (IF Desires(s.g, e, CarriedName(s)) THEN {e} ELSE DropOffSites(s, CarriedName(s))) :
            u = [DropOff(s, f) EXCEPT !.h.cmd = "transport", !.h.arg = e]
      BY <1>3 DEF TransportNow
    <3>2. DropOffSites(s, CarriedName(s)) \subseteq DOMAIN s.g.site
      BY <1>1, SitesAre
    <3>. QED BY <1>2, <3>1, <3>2
  <2>2. PICK v : v = DropOff(s, f)
    OBVIOUS
  <2>3. Good(v)
    BY <1>3, <2>2, DropOffIsGood
  <2>4. u = Ordered(v, "transport", e)
    BY <2>1, <2>2 DEF Ordered
  <2>5. e \in Things \union {None}
    BY <1>2 DEF Things
  <2>. QED BY <2>3, <2>4, <2>5, OrderedIsGood
<1>4. CASE Carried(s) = {} /\ FromResources(s, e) # {}
  <2>1. PICK t : t = SeekFor(s, e)
    OBVIOUS
  <2>2. PICK d \in FromResources(s, e) : u \in SeekSource(t, d, near)
    BY <1>4, <2>1 DEF TransportNow, SeekFor
  <2>3. d \in DOMAIN s.left
    BY <2>2 DEF FromResources, OfKind
  <2>4. /\ Free(t) /\ t.h.state = "TRANSPORT_SEEK_RESOURCE" /\ t.left = s.left
    BY <1>2, <2>1, SeekForDoes
  <2>. QED BY <2>2, <2>3, <2>4, SeekSourceIsGood
<1>5. CASE Carried(s) = {} /\ FromResources(s, e) = {}
  <2>1. PICK src \in Sources(s, Wanted(s, e), e, Owner(s.g, e)) :
          u \in Fetch(s, src, e, Wanted(s, e), near)
    BY <1>5 DEF TransportNow
  <2>2. src \in DOMAIN s.g.site
    BY <1>1, <2>1, SitesAre
  <2>3. Wanted(s, e) # None
    BY <1>5 DEF Accepts
  <2>4. Wanted(s, e) \in Resource
    BY <2>3, WantedIs
  <2>. QED BY <1>2, <2>1, <2>2, <2>4, FetchIsGood
<1>. QED BY <1>3, <1>4, <1>5
-----------------------------------------------------------------------------
(* Supplying a building *)

\* What it held goes into a building that is supplied.
LEMMA SupplyGoods ==
  ASSUME NEW g, spent \in Spents, Sound(g, spent), NEW e \in Entity, e \in DOMAIN g.build,
         g.build[e].state = Founded, NEW n \in Nat,
         NEW m, m = [g EXCEPT !.changed = [g.changed EXCEPT ![e] = n]],
         NEW h, h = Supply(m, e), NEW t, t = SpentBy(g, h)
  PROVE  /\ Sound(h, t) /\ t \in Spents /\ Shape(h) /\ h.faction = g.faction
         /\ DOMAIN h.build = DOMAIN g.build /\ h.build[e].state = Supplied
         /\ \A r \in Resource :
              /\ InSites(g, r) \in Int /\ SpentInAll(spent, r) \in Int
              /\ InSites(h, r) \in Int /\ SpentInAll(t, r) \in Int
              /\ InSites(h, r) + SpentInAll(t, r) = InSites(g, r) + SpentInAll(spent, r)
<1>1. /\ Sound(h, t) /\ t \in Spents
      /\ Works(g, h, e) /\ h.faction = g.faction /\ DOMAIN h.build = DOMAIN g.build
      /\ DOMAIN h.site = DOMAIN g.site /\ h.site[e].curr = Zero /\ Owned(g, e)
      /\ h.build[e].state = Supplied
      /\ \A f \in Faction, r \in Resource :
           t[f][r] = spent[f][r] + (IF f = Owner(g, e) THEN g.site[e].curr[r] ELSE 0)
  BY SupplySound
<1>2. /\ Shape(g) /\ Shape(h) /\ Apart(g, h, e) /\ e \in DOMAIN g.site /\ e \in DOMAIN h.site
      /\ Owner(g, e) \in Faction
  BY <1>1 DEF Works, Owned, Owner, Shape
<1>3. ASSUME NEW r \in Resource
      PROVE  /\ InSites(g, r) \in Int /\ SpentInAll(spent, r) \in Int
             /\ InSites(h, r) \in Int /\ SpentInAll(t, r) \in Int
             /\ InSites(h, r) + SpentInAll(t, r) = InSites(g, r) + SpentInAll(spent, r)
  <2>1. /\ InSites(g, r) \in Int /\ InSites(h, r) \in Int
        /\ Holds(g, e, r) \in Int /\ Holds(h, e, r) \in Int
        /\ InSites(h, r) - Holds(h, e, r) = InSites(g, r) - Holds(g, e, r)
    BY <1>2, SitesApart
  <2>2. Holds(h, e, r) = 0 /\ Holds(g, e, r) = g.site[e].curr[r]
    BY <1>1, <1>2, Tables DEF Holds
  <2>3. PICK k : k = Holds(g, e, r)
    OBVIOUS
  <2>4. PICK f \in Faction : f = Owner(g, e)
    BY <1>2
  <2>5. k \in Int /\ \A x \in Faction : t[x][r] = spent[x][r] + (IF x = f THEN k ELSE 0)
    BY <1>1, <2>1, <2>2, <2>3, <2>4
  <2>6. /\ SpentInAll(spent, r) \in Int /\ SpentInAll(t, r) \in Int
        /\ SpentInAll(t, r) = SpentInAll(spent, r) + k
    BY <1>1, <2>5, SpentApart
  <2>. QED BY <2>1, <2>2, <2>3, <2>6
<1>. QED BY <1>1, <1>2, <1>3

\* The harvester has reached the building, which it supplies if it can.
Fed(s, b) ==
  LET g == IF s.g.build[b].state = Founded /\ IsSaturated(s.g, b) THEN Supply(s.g, b) ELSE s.g
  IN  [s EXCEPT !.g = g, !.used = SpentBy(s.g, g), !.h.building = None]

LEMMA FedIsFree ==
  ASSUME NEW s, Free(s), Fit(s.h), s.used = spent, NEW b, b \in DOMAIN s.g.build,
         NEW t, t = Fed(s, b)
  PROVE  /\ Free(t) /\ Fit(t.h) /\ t \in Worlds
<1>1. s \in Worlds /\ Ok(s) /\ s.h \in Harvesters /\ s.h.handlers = {}
  BY FreeIs
<1>2. Shape(s.g) /\ spent \in Spents /\ Sound(s.g, spent)
  BY <1>1, WorldHas DEF Ok, Sane
<1>3. b \in Entity
  BY <1>2 DEF Shape
<1>4. PICK g : g = IF s.g.build[b].state = Founded /\ IsSaturated(s.g, b) THEN Supply(s.g, b) ELSE s.g
  OBVIOUS
<1>5. PICK used : used = SpentBy(s.g, g)
  OBVIOUS
<1>6. /\ Sound(g, used) /\ used \in Spents /\ Shape(g) /\ g.faction = s.g.faction
      /\ \A r \in Resource : InSites(g, r) + SpentInAll(used, r) = InSites(s.g, r) + SpentInAll(s.used, r)
      /\ \A r \in Resource : InSites(g, r) \in Int /\ SpentInAll(used, r) \in Int
  <2>1. CASE s.g.build[b].state = Founded /\ IsSaturated(s.g, b)
    <3>1. PICK n \in Nat : n = s.g.changed[b]
      BY <1>2, <1>3 DEF Shape
    <3>2. PICK m : m = [s.g EXCEPT !.changed = [s.g.changed EXCEPT ![b] = n]]
      OBVIOUS
    <3>3. m = s.g
      BY <1>2, <1>3, <3>1, <3>2 DEF Shape, IsGame, Fields
    <3>4. g = Supply(m, b)
      BY <1>4, <2>1, <3>3
    <3>. QED BY <1>2, <1>3, <1>5, <2>1, <3>2, <3>4, SupplyGoods
  <2>2. CASE ~(s.g.build[b].state = Founded /\ IsSaturated(s.g, b))
    <3>1. g = s.g
      BY <1>4, <2>2
    <3>2. Used(s.g, g) = {}
      BY <3>1 DEF Used, Founded, Supplied
    <3>3. used = spent
      BY <1>2, <1>5, <3>2, NothingSpent
    <3>4. \A r \in Resource : InSites(s.g, r) \in Int /\ SpentInAll(s.used, r) \in Int
      BY <1>1, GoodsAreInt
    <3>. QED BY <1>2, <3>1, <3>3, <3>4
  <2>. QED BY <2>1, <2>2
<1>7. PICK k : k = [s.h EXCEPT !.building = None]
  OBVIOUS
<1>8. k \in Harvesters /\ SameBut(s.h, k, {"building"}) /\ k.building = None
  BY <1>1, <1>7 DEF Harvesters, SameBut, HFields
<1>9. t = [s EXCEPT !.g = g, !.used = used, !.h = k]
  BY <1>1, <1>4, <1>5, <1>7 DEF Fed, Worlds
<1>10. g \in Games
  BY <1>6, GamesHaveShape
<1>11. /\ t \in Worlds /\ t.h = k /\ t.g = g /\ t.used = used
       /\ t.left = s.left /\ t.bad = s.bad
  BY <1>1, <1>6, <1>8, <1>9, <1>10 DEF Worlds
<1>12. /\ k.handlers = {} /\ k.carry = s.h.carry /\ k.state = s.h.state /\ k.ss = s.h.ss
       /\ k.res = s.h.res /\ k.resName = s.h.resName
  BY <1>1, <1>8 DEF SameBut, HFields
<1>13. ASSUME NEW r \in Resource
       PROVE  GoodsOf(t, r) = GoodsOf(s, r)
  <2>1. /\ InGroundOf(s.left, r) \in Int /\ s.h.carry[r] \in Nat
        /\ InSites(s.g, r) \in Int /\ SpentInAll(s.used, r) \in Int
    BY <1>1, GoodsAreInt
  <2>2. t.h.carry = s.h.carry /\ t.left = s.left
    BY <1>11, <1>12
  <2>3. /\ InSites(t.g, r) + SpentInAll(t.used, r) = InSites(s.g, r) + SpentInAll(s.used, r)
        /\ InSites(t.g, r) \in Int /\ SpentInAll(t.used, r) \in Int
    BY <1>6, <1>11
  <2>. QED BY <2>1, <2>2, <2>3 DEF GoodsOf
<1>14. Sane(t, outside)
  BY <1>1, <1>6, <1>11, <1>13 DEF Ok, Sane
<1>15. ZombiesOK(t)
  <2>1. DOMAIN zombies \subseteq Entity \ Active(t.g)
    BY <1>1, <1>6, <1>11 DEF Ok, ZombiesOK, Active
  <2>2. t.h.building \notin DOMAIN zombies
    BY <1>8, <1>11, <2>1, NoneIsNothing DEF NoneIs
  <2>. QED BY <2>1, <2>2 DEF ZombiesOK
<1>16. Fit(k)
  <2>1. s.h.state \notin Work
    BY <1>1, FreeStates
  <2>2. HandlersFor(k) = HandlersFor(s.h)
    BY <1>12 DEF HandlersFor
  <2>. QED BY <1>1, <1>12, <2>1, <2>2 DEF Fit, OneErrand, Equipped, Awaits, Burdened
<1>. QED BY <1>11, <1>12, <1>14, <1>15, <1>16 DEF Free, Ok

LEMMA SupplyBuildingIsGood ==
  ASSUME NEW s, Free(s), Fit(s.h), NEW b \in Entity, NEW near, NEW u \in SupplyBuilding(s, b, near)
  PROVE  Good(u)
<1>1. Ok(s) /\ s.h.handlers = {} /\ Good(s) /\ b \in Things \union {None}
  BY DEF Free, Good, Things
<1>2. CASE Carried(s) # {} /\ ~Desires(s.g, b, CarriedName(s))
  <2>1. PICK v : v = Ordered(s, "supply", b)
    OBVIOUS
  <2>2. Good(v) /\ v.h.handlers = s.h.handlers /\ v.h.carry = s.h.carry
    <3>1. Good(s) /\ "supply" \in {None, "gather", "transport", "build", "supply"}
      BY <1>1
    <3>2. b \in Things \union {None}
      BY <1>1
    <3>3. s \in Worlds
      BY <3>1 DEF Good, Ok, Sane
    <3>4. Turns(s, v, {"cmd", "arg"})
      BY <2>1, <3>1, <3>2, <3>3, OrderDoes DEF Ordered
    <3>5. Good(v)
      BY <3>1, <3>4, TurnedIsGood
    <3>. QED BY <3>4, <3>5 DEF Turns, SameBut, HFields
  <2>3. Free(v) /\ Fit(v.h) /\ Carried(v) # {}
    BY <1>1, <1>2, <2>2 DEF Free, Good, Carried
  <2>4. u \in DropOffNearest(v)
    BY <1>2, <2>1 DEF SupplyBuilding, Ordered
  <2>. QED BY <2>3, <2>4, DropOffNearestIsGood
<1>3. CASE u = s
  BY <1>1, <1>3
<1>4. CASE /\ ~(Carried(s) # {} /\ ~Desires(s.g, b, CarriedName(s)))
           /\ u # s
  <2>1. Accepts(s, b) /\ \E t \in TransportNow(s, b, near) : u = Ordered(t, "build", b)
    BY <1>4 DEF SupplyBuilding, Ordered
  <2>2. PICK t \in TransportNow(s, b, near) : u = Ordered(t, "build", b)
    BY <2>1
  <2>3. Good(t)
    BY <2>1, <2>2, TransportNowIsGood
  <2>. QED BY <1>1, <2>2, <2>3, OrderedIsGood
<1>. QED BY <1>2, <1>3, <1>4

LEMMA AtBuildingIsGood ==
  ASSUME NEW s, Free(s), Fit(s.h), s.used = spent, NEW b, b \in DOMAIN s.g.build,
         NEW near, NEW u \in AtBuilding(s, b, near)
  PROVE  Good(u)
<1>1. PICK t : t = Fed(s, b)
  OBVIOUS
<1>2. Free(t) /\ Fit(t.h) /\ t \in Worlds
  BY <1>1, FedIsFree
<1>3. b \in Entity
  BY FreeIs, WorldHas DEF Shape
<1>4. PICK v : v = HarvesterStop(t)
  OBVIOUS
<1>5. u \in SupplyBuilding(v, b, near) \/ u = t
  BY <1>1, <1>4 DEF AtBuilding, Fed
<1>6. Free(v) /\ v.h.state = "NOT_HARVESTING"
  BY <1>2, <1>4, StopIsFree
<1>7. Fit(v.h)
  BY <1>6, FreeIs, FitOnErrand
<1>. QED BY <1>2, <1>3, <1>5, <1>6, <1>7, SupplyBuildingIsGood DEF Good, Free

\* What it is to build makes no difference to one that listens for nothing.
LEMMA BuildingAside ==
  ASSUME NEW h \in Harvesters, h.handlers = {}, Fit(h), NEW k, SameBut(h, k, {"building"})
  PROVE  Fit(k)
<1>1. /\ k.handlers = {} /\ k.carry = h.carry /\ k.state = h.state /\ k.ss = h.ss
      /\ k.res = h.res /\ k.resName = h.resName
  BY DEF SameBut, HFields
<1>2. h.state \notin Work
  BY FreeStates
<1>3. HandlersFor(k) = HandlersFor(h)
  BY <1>1 DEF HandlersFor
<1>. QED BY <1>1, <1>2, <1>3 DEF Fit, OneErrand, Equipped, Awaits, Burdened

LEMMA BadIsGood ==
  ASSUME NEW s, Good(s), ~Blameless, NEW t, t = [s EXCEPT !.bad = TRUE]
  PROVE  Good(t)
<1>1. s \in Worlds /\ Ok(s)
  BY DEF Good, Ok, Sane
<1>2. t \in Worlds /\ t.h = s.h /\ t.g = s.g /\ t.left = s.left /\ t.used = s.used
  BY <1>1 DEF Worlds
<1>3. \A r \in Resource : GoodsOf(t, r) = GoodsOf(s, r)
  BY <1>2 DEF GoodsOf
<1>4. Sane(t, outside)
  BY <1>1, <1>2, <1>3 DEF Sane, Ok
<1>. QED BY <1>1, <1>2, <1>4 DEF Good, Ok, ZombiesOK

LEMMA ArriveAtBuildingIsGood ==
  ASSUME NEW s, Good(s), s.h.state \notin Work, s.h.handlers \subseteq {"on_motion_end"},
         s.used = spent, NEW near, NEW u \in ArriveAtBuilding(s, near)
  PROVE  Good(u)
<1>1. s \in Worlds /\ s.h \in Harvesters /\ Fit(s.h) /\ Ok(s) /\ Sound(s.g, s.used)
  BY WorldHas DEF Good, Ok, Sane
<1>2. PICK b : b = s.h.building
  OBVIOUS
<1>3. PICK t : t = Drop(s, {"on_motion_end"})
  OBVIOUS
<1>4. Free(t) /\ Fit(t.h) /\ t \in Worlds /\ Turns(s, t, {"handlers"})
  BY <1>3, HandlerDropped
<1>5. t.g = s.g /\ t.used = spent /\ t.h \in Harvesters /\ t.h.handlers = {} /\ Ok(t)
  BY <1>1, <1>4, TurnsOnly, FreeIs
<1>6. \/ u = s
      \/ u = [t EXCEPT !.h.building = None]
      \/ b \in DOMAIN zombies /\ u = [t EXCEPT !.bad = TRUE]
      \/ b \in Active(s.g) /\ u \in AtBuilding(t, b, near)
  BY <1>2, <1>3 DEF ArriveAtBuilding, Exists
<1>7. CASE u = [t EXCEPT !.h.building = None]
  <2>1. Turns(t, u, {"building"}) /\ u.h.building = None
    BY <1>4, <1>7, BuildingDoes
  <2>2. Ok(u)
    BY <1>5, <2>1, TurnedIsOk
  <2>3. Fit(u.h)
    BY <1>4, <1>5, <2>1, BuildingAside DEF Turns
  <2>. QED BY <2>2, <2>3 DEF Good
<1>8. CASE b \in DOMAIN zombies /\ u = [t EXCEPT !.bad = TRUE]
  <2>1. Zombies
    BY <1>1, <1>2, <1>8 DEF Ok, ZombiesOK
  <2>2. ~Blameless
    BY <2>1 DEF Blameless
  <2>3. Good(t)
    BY <1>4 DEF Good, Free
  <2>. QED BY <1>8, <2>2, <2>3, BadIsGood
<1>9. CASE b \in Active(s.g) /\ u \in AtBuilding(t, b, near)
  <2>1. b \in Entity /\ b \in DOMAIN s.g.faction
    BY <1>1, <1>9, WorldHas DEF Active, Shape
  <2>2. b \in Buildings
    BY <1>1, <1>2, <2>1, NoneIsNothing DEF Harvesters, NoneIs
  <2>3. Placed(s.g, b)
    <3>1. s.used \in Spents
      BY <1>1, WorldHas
    <3>. QED BY <1>1, <2>1, <3>1, EntityFacts
  <2>4. b \in DOMAIN t.g.build
    BY <1>5, <2>1, <2>2, <2>3 DEF Placed
  <2>. QED BY <1>4, <1>5, <1>9, <2>4, AtBuildingIsGood
<1>. QED BY <1>6, <1>7, <1>8, <1>9

LEMMA BuildIsGood ==
  ASSUME NEW s, Free(s), Fit(s.h), s.used = spent, NEW b, NEW near, NEW u \in Build(s, b, near)
  PROVE  Good(u)
<1>1. s \in Worlds /\ Ok(s) /\ s.h \in Harvesters /\ s.h.handlers = {} /\ Good(s)
  BY FreeIs DEF Good
<1>2. CASE b \notin DOMAIN s.g.build
  BY <1>1, <1>2 DEF Build
<1>3. CASE b \in DOMAIN s.g.build
  <2>1. Sound(s.g, s.used) /\ s.used \in Spents /\ b \in Entity
    BY <1>1, <1>3, WorldHas DEF Ok, Sane, Shape
  <2>2. Placed(s.g, b)
    BY <2>1, EntityFacts
  <2>3. b \in Buildings /\ b \in Active(s.g) /\ b # None
    BY <1>3, <2>1, <2>2, NoneIsNothing DEF Placed, Active, NoneIs
  <2>4. PICK t : t = [s EXCEPT !.h.building = b]
    OBVIOUS
  <2>5. Turns(s, t, {"building"}) /\ t.h.building = b
    BY <1>1, <2>3, <2>4, BuildingDoes
  <2>6. /\ t \in Worlds /\ t.g = s.g /\ t.left = s.left /\ t.used = s.used /\ t.bad = s.bad
    BY <1>1, <2>5, TurnsOnly
  <2>7. t.h.handlers = {} /\ t.h.carry = s.h.carry /\ t.h \in Harvesters
    BY <1>1, <2>5 DEF Turns, SameBut, HFields
  <2>8. \A r \in Resource : GoodsOf(t, r) = GoodsOf(s, r)
    BY <2>6, <2>7 DEF GoodsOf
  <2>9. Ok(t)
    <3>1. Sane(t, outside)
      BY <1>1, <2>6, <2>8 DEF Ok, Sane
    <3>2. ZombiesOK(t)
      BY <1>1, <2>3, <2>5, <2>6 DEF Ok, ZombiesOK
    <3>. QED BY <3>1, <3>2 DEF Ok
  <2>10. Fit(t.h)
    BY <1>1, <2>5, BuildingAside DEF Turns
  <2>11. Good(t) /\ Free(t) /\ t.h.state \notin Work
    BY <2>7, <2>9, <2>10, FreeStates DEF Good, Free
  <2>12. CASE b \in near
    <3>1. PICK v : v = Drop(t, {"on_motion_end"})
      OBVIOUS
    <3>2. Free(v) /\ Fit(v.h) /\ v \in Worlds /\ Turns(t, v, {"handlers"})
      BY <2>7, <2>11, <3>1, HandlerDropped
    <3>3. Good(v) /\ v.h.handlers = {} /\ v.h.state = t.h.state
      BY <3>2 DEF Free, Good, Turns, SameBut, HFields
    <3>4. v.used = spent
      BY <2>6, <3>2, TurnsOnly
    <3>5. u \in ArriveAtBuilding(v, near)
      BY <1>3, <2>4, <2>12, <3>1 DEF Build
    <3>. QED BY <2>11, <3>3, <3>4, <3>5, ArriveAtBuildingIsGood
  <2>13. CASE b \notin near
    <3>1. u = GoTo(t, "on_motion_end")
      BY <1>3, <2>4, <2>13 DEF Build
    <3>2. "on_motion_end" \in Handlers
      BY DEF Handlers, OnArrival
    <3>3. /\ Ok(u) /\ u.h \in Harvesters /\ u.h.handlers = {"on_motion_end"}
          /\ SameBut(t.h, u.h, {"motion", "inbox", "handlers"})
      BY <2>11, <3>1, <3>2, GoToIsOk
    <3>4. /\ u.h.state = t.h.state /\ u.h.ss = t.h.ss /\ u.h.res = t.h.res
          /\ u.h.resName = t.h.resName /\ u.h.carry = t.h.carry /\ u.h.building = t.h.building
      BY <3>3 DEF SameBut, HFields
    <3>5. HandlersFor(u.h) = HandlersFor(t.h)
      BY <3>4 DEF HandlersFor
    <3>6. OneErrand(u.h)
      BY <2>3, <2>5, <2>11, <3>3, <3>4 DEF OneErrand
    <3>7. Equipped(u.h)
      BY <2>10, <3>3, <3>4, <3>5 DEF Fit, Equipped, Awaits, Burdened
    <3>. QED BY <3>3, <3>6, <3>7 DEF Good, Fit
  <2>. QED BY <2>12, <2>13
<1>. QED BY <1>2, <1>3
-----------------------------------------------------------------------------
(* What is queued, and transporting on *)

\* What the harvester accepts does not depend on what is queued.
LEMMA AcceptsSame ==
  ASSUME NEW s, NEW t, t.h.carry = s.h.carry, t.h.strategy = s.h.strategy,
         t.g = s.g, t.left = s.left, NEW e, Accepts(s, e)
  PROVE  Accepts(t, e)
<1>1. /\ Carried(t) = Carried(s) /\ CarriedName(t) = CarriedName(s)
  BY DEF Carried, CarriedName
<1>2. \A r : DropOffSites(t, r) = DropOffSites(s, r)
  BY DEF DropOffSites, LeftIn
<1>3. Wanted(t, e) = Wanted(s, e)
  BY DEF Wanted
<1>4. \A r, x, f : Sources(t, r, x, f) = Sources(s, r, x, f)
  <2>1. \A r, x, f, st : ValidSources(t, r, x, f, st) = ValidSources(s, r, x, f, st)
    BY DEF ValidSources
  <2>. QED BY <2>1 DEF Sources
<1>5. FromResources(t, e) = FromResources(s, e)
  BY <1>3 DEF FromResources, OfKind
<1>. QED BY <1>1, <1>2, <1>3, <1>4, <1>5 DEF Accepts, IsSite

LEMMA DoQueuedIsGood ==
  ASSUME NEW s, Free(s), Fit(s.h), s.used = spent, NEW near, NEW u \in DoQueued(s, near)
  PROVE  Good(u)
<1>1. s \in Worlds /\ Ok(s) /\ s.h \in Harvesters /\ s.h.handlers = {} /\ Good(s)
  BY FreeIs DEF Good
<1>2. PICK t : t = ClearQueuedCmd(s)
  OBVIOUS
<1>3. Turns(s, t, {"cmd", "arg"})
  BY <1>1, <1>2, OrderDoes DEF ClearQueuedCmd
<1>4. /\ Good(t) /\ t.h.handlers = {} /\ t.h.carry = s.h.carry /\ t.h.strategy = s.h.strategy
      /\ t.g = s.g /\ t.left = s.left /\ t.used = spent
  <2>1. Good(t)
    BY <1>1, <1>3, TurnedIsGood
  <2>. QED BY <1>1, <1>3, <2>1, TurnsOnly DEF Turns, SameBut, HFields
<1>5. Free(t) /\ Fit(t.h)
  BY <1>4 DEF Good, Free
<1>6. PICK a : a = s.h.arg
  OBVIOUS
<1>7. PICK outcomes : outcomes =
        CASE s.h.cmd = "gather" -> Gather(t, a, near)
          [] s.h.cmd = "transport" /\ Accepts(s, a) -> TransportNow(t, a, near)
          [] s.h.cmd = "build" /\ Exists(s, a) -> Build(t, a, near)
          [] s.h.cmd = "supply" /\ Exists(s, a) -> SupplyBuilding(t, a, near)
          [] OTHER -> {t}
  OBVIOUS
<1>8. PICK v \in outcomes : u = [v EXCEPT !.h.dropOffOnly = FALSE]
  BY <1>2, <1>6, <1>7 DEF DoQueued
<1>9. Good(v)
  <2>1. CASE s.h.cmd = "gather"
    BY <1>5, <1>7, <1>8, <2>1, GatherIsGood
  <2>2. CASE s.h.cmd = "transport" /\ Accepts(s, a)
    <3>1. Accepts(t, a)
      BY <1>4, <2>2, AcceptsSame
    <3>2. v \in TransportNow(t, a, near)
      BY <1>7, <1>8, <2>2
    <3>. QED BY <1>5, <3>1, <3>2, TransportNowIsGood
  <2>3. CASE s.h.cmd = "build" /\ Exists(s, a)
    <3>1. v \in Build(t, a, near)
      BY <1>7, <1>8, <2>3
    <3>. QED BY <1>4, <1>5, <3>1, BuildIsGood
  <2>4. CASE s.h.cmd = "supply" /\ Exists(s, a)
    <3>1. v \in SupplyBuilding(t, a, near)
      BY <1>7, <1>8, <2>4
    <3>2. a \in Entity
      BY <1>1, <2>4, WorldHas DEF Exists, Active, Shape, Ok, ZombiesOK
    <3>. QED BY <1>5, <3>1, <3>2, SupplyBuildingIsGood
  <2>5. CASE /\ s.h.cmd # "gather" /\ ~(s.h.cmd = "transport" /\ Accepts(s, a))
             /\ ~(s.h.cmd = "build" /\ Exists(s, a)) /\ ~(s.h.cmd = "supply" /\ Exists(s, a))
    <3>1. outcomes = {t}
      BY <1>7, <2>5, Zenon
    <3>. QED BY <1>4, <1>8, <3>1
  <2>. QED BY <2>1, <2>2, <2>3, <2>4, <2>5
<1>10. v \in Worlds
  BY <1>9 DEF Good, Ok, Sane
<1>11. Turns(v, u, {"dropOffOnly"})
  BY <1>8, <1>10, DropOffOnlyDoes
<1>. QED BY <1>9, <1>11, TurnedIsGood

LEMMA TransportIsGood ==
  ASSUME NEW s, Free(s), Fit(s.h), s.used = spent, NEW e, NEW near, NEW u \in Transport(s, e, near)
  PROVE  Good(u)
<1>1. Good(s)
  BY DEF Free, Good
<1>2. \/ u = s
      \/ u \in DoQueued(s, near)
      \/ Accepts(s, e) /\ u \in TransportNow(s, e, near)
  BY DEF Transport
<1>. QED BY <1>1, <1>2, DoQueuedIsGood, TransportNowIsGood

LEMMA PickUpIsGood ==
  ASSUME NEW s, Free(s), Fit(s.h), NEW e, NEW near, NEW u \in PickUp(s, e, near)
  PROVE  Good(u)
<1>1. Good(s)
  BY DEF Free, Good
<1>2. CASE u = s
  BY <1>1, <1>2
<1>3. CASE u # s
  <2>1. /\ IsSite(s, e) /\ OnOffer(s, e) # None
        /\ u \in Fetch(s, e, None, OnOffer(s, e), near)
    BY <1>3 DEF PickUp
  <2>2. OnOffer(s, e) \in Resource
    BY <2>1, OnOfferIs
  <2>3. e \in DOMAIN s.g.site /\ None \in Entity \union {None}
    BY <2>1 DEF IsSite
  <2>. QED BY <2>1, <2>2, <2>3, FetchIsGood
<1>. QED BY <1>2, <1>3
-----------------------------------------------------------------------------
(* Arrivals *)

LEMMA PutDownIsFree ==
  ASSUME NEW s, Free(s), NEW e, e \in DOMAIN s.g.site, Burdened(s.h), NEW t, t = PutDown(s, e)
  PROVE  /\ Free(t) /\ t \in Worlds /\ t.left = s.left /\ t.used = s.used
         /\ DOMAIN t.g.site = DOMAIN s.g.site /\ SameBut(s.h, t.h, {"carry"})
<1>1. s \in Worlds /\ Ok(s) /\ s.h.handlers = {}
  BY FreeIs
<1>2. Carried(s) # {}
  BY <1>1, CarriedIs
<1>3. GoodsPassed(s, t)
  BY <1>1, <1>2, PutDownIsOk
<1>4. t.h.handlers = {}
  BY <1>1, <1>3 DEF GoodsPassed, SameBut, HFields
<1>. QED BY <1>3, <1>4 DEF GoodsPassed, Free

\* What has been put down is done.
Done(s) == [Idle(s) EXCEPT !.h.ss = None, !.h.resName = None]

LEMMA DoneIsFree ==
  ASSUME NEW s, Free(s), NEW t, t = Done(s)
  PROVE  Free(t) /\ Fit(t.h) /\ t.used = s.used
<1>1. s \in Worlds /\ Ok(s) /\ s.h \in Harvesters /\ s.h.handlers = {}
  BY FreeIs
<1>2. PICK u : u = Idle(s)
  OBVIOUS
<1>3. Turns(s, u, {"state"}) /\ u.h.state = "NOT_HARVESTING" /\ u \in Worlds
  BY <1>1, <1>2, IdleDoes, TurnsOnly
<1>4. PICK k : k = [u.h EXCEPT !.ss = None, !.resName = None]
  OBVIOUS
<1>5. u.h \in Harvesters
  BY <1>3, WorldHas
<1>6. k \in Harvesters /\ SameBut(u.h, k, {"ss", "resName"})
  BY <1>4, <1>5 DEF Harvesters, SameBut, HFields
<1>7. t = [u EXCEPT !.h = k]
  BY <1>2, <1>3, <1>4 DEF Done, Worlds
<1>8. Turns(u, t, {"ss", "resName"}) /\ t.h = k
  BY <1>3, <1>6, <1>7, TurnedInto
<1>9. Turns(s, t, {"state"} \union {"ss", "resName"})
  BY <1>1, <1>3, <1>8, TurnsAgain
<1>10. k.handlers = {} /\ k.state = "NOT_HARVESTING"
  BY <1>1, <1>3, <1>6 DEF Turns, SameBut, HFields
<1>11. Free(t)
  <2>1. /\ "carry" \notin {"state"} \union {"ss", "resName"}
        /\ "building" \notin {"state"} \union {"ss", "resName"}
    OBVIOUS
  <2>. QED BY <1>1, <1>8, <1>9, <1>10, <2>1, FreeIfTurned
<1>12. Fit(k)
  BY <1>6, <1>10, FitOnErrand
<1>. QED BY <1>1, <1>8, <1>9, <1>11, <1>12, TurnsOnly

LEMMA ArriveAtStorageIsGood ==
  ASSUME NEW s, Good(s), "on_arrive_at_storage" \in s.h.handlers, s.used = spent, NEW near,
         NEW u \in ArriveAtStorage(s, near)
  PROVE  Good(u)
<1>1. s \in Worlds /\ s.h \in Harvesters /\ Fit(s.h)
  BY WorldHas DEF Good, Ok, Sane
<1>2. /\ s.h.handlers = {"on_arrive_at_storage"} /\ s.h.state \notin Work
      /\ s.h.ss # None /\ Burdened(s.h)
  BY <1>1, ErrandIs DEF Work
<1>3. PICK t : t = Drop(s, {"on_arrive_at_storage"})
  OBVIOUS
<1>4. Free(t) /\ Fit(t.h) /\ t \in Worlds /\ Turns(s, t, {"handlers"})
  BY <1>2, <1>3, HandlerDropped
<1>5. /\ t.g = s.g /\ t.left = s.left /\ t.used = spent
      /\ t.h.ss = s.h.ss /\ t.h.carry = s.h.carry
  BY <1>1, <1>4, TurnsOnly DEF Turns, SameBut, HFields
<1>6. Carried(s) # {} /\ Burdened(t.h)
  BY <1>1, <1>2, <1>5, CarriedIs DEF Burdened
<1>7. PICK v : v = PutDown(t, s.h.ss)
  OBVIOUS
<1>8. PICK w : w = Done(v)
  OBVIOUS
<1>9. \/ u = s
      \/ u \in TryDropOff(t)
      \/ /\ s.h.ss \in DOMAIN s.g.site
         /\ \/ u \in TryDropOff(v)
            \/ /\ Carried(v) = {}
               /\ \/ \E d \in DOMAIN s.left : u \in Gather(v, d, near)
                  \/ u \in DoQueued(w, near)
  <2>1. PICK again : again = IF s.h.res \in DOMAIN s.left THEN {s.h.res}
                             ELSE OfKind(s, CarriedName(s)) \union {None}
    OBVIOUS
  <2>2. again \subseteq DOMAIN s.left \union {None}
    BY <2>1 DEF OfKind
  <2>3. \/ u = s
        \/ u \in TryDropOff(t)
        \/ /\ s.h.ss \in DOMAIN s.g.site
           /\ \/ u \in TryDropOff(v)
              \/ /\ Carried(v) = {}
                 /\ \E d \in again : u \in (IF d # None /\ ~v.h.dropOffOnly THEN Gather(v, d, near)
                                          ELSE DoQueued(w, near))
    BY <1>2, <1>3, <1>6, <1>7, <1>8, <2>1 DEF ArriveAtStorage, IsSite, Done
  <2>4. ASSUME NEW d \in again, u \in (IF d # None /\ ~v.h.dropOffOnly THEN Gather(v, d, near)
                                       ELSE DoQueued(w, near))
        PROVE  (\E x \in DOMAIN s.left : u \in Gather(v, x, near)) \/ u \in DoQueued(w, near)
    BY <2>2, <2>4
  <2>. QED BY <2>3, <2>4
<1>10. CASE u = s
  BY <1>10
<1>11. CASE u \in TryDropOff(t)
  BY <1>4, <1>11, TryDropOffIsGood
<1>12. CASE /\ s.h.ss \in DOMAIN s.g.site
            /\ \/ u \in TryDropOff(v)
               \/ /\ Carried(v) = {}
                  /\ \/ \E d \in DOMAIN s.left : u \in Gather(v, d, near)
                     \/ u \in DoQueued(w, near)
  <2>1. Free(v) /\ v \in Worlds /\ v.left = t.left /\ v.used = t.used
    BY <1>4, <1>5, <1>6, <1>7, <1>12, PutDownIsFree
  <2>2. Free(w) /\ Fit(w.h) /\ w.used = v.used
    BY <1>8, <2>1, DoneIsFree
  <2>3. CASE u \in TryDropOff(v)
    BY <2>1, <2>3, TryDropOffIsGood
  <2>4. CASE Carried(v) = {} /\ \E d \in DOMAIN s.left : u \in Gather(v, d, near)
    <3>1. PICK d \in DOMAIN s.left : u \in Gather(v, d, near)
      BY <2>4
    <3>. QED BY <1>5, <2>1, <2>4, <3>1, GatherIsGood
  <2>5. CASE u \in DoQueued(w, near)
    BY <1>5, <2>1, <2>2, <2>5, DoQueuedIsGood
  <2>. QED BY <1>12, <2>3, <2>4, <2>5
<1>. QED BY <1>9, <1>10, <1>11, <1>12

LEMMA ArriveAtTransportSourceIsGood ==
  ASSUME NEW s, Good(s), "on_arrive_at_transport_source" \in s.h.handlers, s.used = spent,
         NEW near, NEW u \in ArriveAtTransportSource(s, near)
  PROVE  Good(u)
<1>1. s \in Worlds /\ s.h \in Harvesters /\ Fit(s.h)
  BY WorldHas DEF Good, Ok, Sane
<1>2. /\ s.h.handlers = {"on_arrive_at_transport_source"} /\ s.h.state \notin Work
      /\ s.h.state = "TRANSPORT_GETTING" /\ s.h.resName \in Resource
  BY <1>1, ErrandIs DEF Work, Harvesters
<1>3. PICK t : t = Drop(s, {"on_arrive_at_transport_source"})
  OBVIOUS
<1>4. Free(t) /\ Fit(t.h) /\ t \in Worlds /\ Turns(s, t, {"handlers"})
  BY <1>2, <1>3, HandlerDropped
<1>5. /\ t.g = s.g /\ t.used = spent /\ t.h.src = s.h.src /\ t.h.resName = s.h.resName
      /\ t.h.state = s.h.state
  BY <1>1, <1>4, TurnsOnly DEF Turns, SameBut, HFields
<1>6. PICK v : v = FinishTransporting(t)
  OBVIOUS
<1>7. Good(v) /\ Free(v) /\ Fit(v.h) /\ v.used = spent
  BY <1>4, <1>5, <1>6, FinishTransportingIsGood
<1>8. \/ u = s
      \/ s.h.src \in DOMAIN s.g.site /\ u \in AtSource(t)
      \/ u \in Transport(v, s.h.dest, near)
      \/ u = v
  BY <1>3, <1>6 DEF ArriveAtTransportSource, IsSite
<1>9. CASE s.h.src \in DOMAIN s.g.site /\ u \in AtSource(t)
  BY <1>2, <1>4, <1>5, <1>9, AtSourceIsGood
<1>10. CASE u \in Transport(v, s.h.dest, near)
  BY <1>7, <1>10, TransportIsGood
<1>. QED BY <1>7, <1>8, <1>9, <1>10

LEMMA ArriveAtTransportDestIsGood ==
  ASSUME NEW s, Good(s), "on_arrive_at_transport_dest" \in s.h.handlers, s.used = spent,
         NEW near, NEW u \in ArriveAtTransportDest(s, near)
  PROVE  Good(u)
<1>1. s \in Worlds /\ s.h \in Harvesters /\ Fit(s.h)
  BY WorldHas DEF Good, Ok, Sane
<1>2. /\ s.h.handlers = {"on_arrive_at_transport_dest"} /\ s.h.state \notin Work
      /\ Burdened(s.h)
  BY <1>1, ErrandIs DEF Work
<1>3. PICK t : t = Drop(s, {"on_arrive_at_transport_dest"})
  OBVIOUS
<1>4. Free(t) /\ Fit(t.h) /\ t \in Worlds /\ Turns(s, t, {"handlers"})
  BY <1>2, <1>3, HandlerDropped
<1>5. t.g = s.g /\ t.used = spent /\ t.h.carry = s.h.carry
  BY <1>1, <1>4, TurnsOnly DEF Turns, SameBut, HFields
<1>6. Carried(s) # {} /\ Burdened(t.h)
  BY <1>1, <1>2, <1>5, CarriedIs DEF Burdened
<1>7. PICK v : v = PutDown(t, s.h.dest)
  OBVIOUS
<1>8. PICK w : w = FinishTransporting(v)
  OBVIOUS
<1>9. \/ u = s
      \/ u = FinishTransporting(t)
      \/ s.h.dest \in DOMAIN s.g.site /\ u \in Transport(w, s.h.dest, near)
  BY <1>3, <1>6, <1>7, <1>8 DEF ArriveAtTransportDest, IsSite
<1>10. CASE u = FinishTransporting(t)
  BY <1>4, <1>10, FinishTransportingIsGood
<1>11. CASE s.h.dest \in DOMAIN s.g.site /\ u \in Transport(w, s.h.dest, near)
  <2>1. Free(v) /\ v.used = t.used
    BY <1>4, <1>5, <1>6, <1>7, <1>11, PutDownIsFree
  <2>2. Free(w) /\ Fit(w.h) /\ w.used = v.used
    BY <1>8, <2>1, FinishTransportingIsGood
  <2>. QED BY <1>5, <1>11, <2>1, <2>2, TransportIsGood
<1>. QED BY <1>9, <1>10, <1>11

LEMMA TryGatherNearestSourceIsGood ==
  ASSUME NEW s, Free(s), Fit(s.h), s.used = spent,
         s.h.state = "NOT_HARVESTING" \/ s.h.state = "TRANSPORT_SEEK_RESOURCE",
         NEW r, NEW near, NEW u \in TryGatherNearestSource(s, r, near)
  PROVE  Good(u)
<1>1. CASE u \in Transport(s, s.h.dest, near)
  BY <1>1, TransportIsGood
<1>2. CASE \E d \in OfKind(s, r) : u \in SeekSource(s, d, near)
  <2>1. PICK d \in OfKind(s, r) : u \in SeekSource(s, d, near)
    BY <1>2
  <2>2. d \in DOMAIN s.left
    BY <2>1 DEF OfKind
  <2>. QED BY <2>1, <2>2, SeekSourceIsGood
<1>. QED BY <1>1, <1>2 DEF TryGatherNearestSource

LEMMA ArriveAtResourceSourceIsGood ==
  ASSUME NEW s, Good(s), "on_arrive_at_resource_source" \in s.h.handlers, s.used = spent,
         NEW near, NEW u \in ArriveAtResourceSource(s, near)
  PROVE  Good(u)
<1>1. s \in Worlds /\ s.h \in Harvesters /\ Fit(s.h)
  BY WorldHas DEF Good, Ok, Sane
<1>2. /\ s.h.handlers = {"on_arrive_at_resource_source"}
      /\ s.h.state = "NOT_HARVESTING" \/ s.h.state = "TRANSPORT_SEEK_RESOURCE"
      /\ s.h.res # None /\ s.h.resName \in Resource
  BY <1>1, ErrandIs DEF Harvesters
<1>3. s.h.state \notin Work
  BY <1>2 DEF Work
<1>4. PICK t : t = Drop(s, {"on_arrive_at_resource_source"})
  OBVIOUS
<1>5. Free(t) /\ Fit(t.h) /\ t \in Worlds /\ Turns(s, t, {"handlers"})
  BY <1>2, <1>3, <1>4, HandlerDropped
<1>6. /\ t.used = spent /\ t.h.res = s.h.res /\ t.h.resName = s.h.resName
      /\ t.h.state = s.h.state
  BY <1>1, <1>5, TurnsOnly DEF Turns, SameBut, HFields
<1>7. \/ u = s
      \/ u = FinishTransporting(t)
      \/ u \in AtResourceSource(t)
      \/ u \in TryGatherNearestSource(t, s.h.resName, near)
  BY <1>2, <1>4 DEF ArriveAtResourceSource
<1>8. CASE u = FinishTransporting(t)
  BY <1>5, <1>8, FinishTransportingIsGood
<1>9. CASE u \in AtResourceSource(t)
  BY <1>2, <1>5, <1>6, <1>9, AtResourceSourceIsGood
<1>10. CASE u \in TryGatherNearestSource(t, s.h.resName, near)
  BY <1>2, <1>5, <1>6, <1>10, TryGatherNearestSourceIsGood
<1>. QED BY <1>7, <1>8, <1>9, <1>10

LEMMA OnHarvestAnimSourceIsGood ==
  ASSUME NEW s, Good(s), "on_harvest_anim_finished_source" \in s.h.handlers, s.used = spent,
         NEW near, NEW u \in OnHarvestAnimSource(s, near)
  PROVE  Good(u)
<1>1. s \in Worlds /\ s.h \in Harvesters /\ Fit(s.h) /\ Ok(s)
  BY WorldHas DEF Good, Ok, Sane
<1>2. s.h.handlers = AtWorkSource /\ s.h.state = "TRANSPORT_HARVESTING"
  BY <1>1, ErrandIs
<1>3. AtWorkSource \subseteq Harvesting /\ s.h.state \in Work /\ s.h.handlers = HandlersFor(s.h)
  BY <1>2, StatesHandlers DEF Harvesting, Work
<1>4. PICK t : t = Mine(s)
  OBVIOUS
<1>5. PICK r : r = KindOf[s.h.res]
  OBVIOUS
<1>6. PICK v : v = FinishHarvesting(s)
  OBVIOUS
<1>7. /\ Free(v) /\ Fit(v.h) /\ Good(v) /\ v \in Worlds /\ v.h.state = "NOT_HARVESTING"
      /\ v.used = spent
  BY <1>1, <1>2, <1>3, <1>6, FinishHarvestingIsFree
<1>8. ASSUME NEW x, Good(x), u = [x EXCEPT !.h.dest = None, !.h.src = None]
      PROVE  Good(u)
  <2>1. x \in Worlds
    BY <1>8 DEF Good, Ok, Sane
  <2>2. PICK k : k = [x.h EXCEPT !.dest = None, !.src = None]
    OBVIOUS
  <2>3. x.h \in Harvesters
    BY <2>1, WorldHas
  <2>4. k \in Harvesters /\ SameBut(x.h, k, {"dest", "src"})
    BY <2>2, <2>3 DEF Harvesters, SameBut, HFields
  <2>5. u = [x EXCEPT !.h = k]
    BY <1>8, <2>1, <2>2 DEF Worlds
  <2>6. Turns(x, u, {"dest", "src"})
    BY <2>1, <2>4, <2>5, TurnedInto
  <2>. QED BY <1>8, <2>6, TurnedIsGood
<1>9. CASE s.h.res \notin DOMAIN s.left
  <2>1. \/ u = [v EXCEPT !.h.dest = None, !.h.src = None]
        \/ u \in TryGatherNearestSource(v, s.h.resName, near)
    BY <1>6, <1>9 DEF OnHarvestAnimSource
  <2>. QED BY <1>7, <1>8, <2>1, TryGatherNearestSourceIsGood
<1>10. CASE s.h.res \in DOMAIN s.left
  <2>1. Good(t) /\ Ok(t) /\ t \in Worlds /\ t.h.handlers = AtWorkSource /\ t.used = spent
    BY <1>1, <1>2, <1>3, <1>4, <1>10, MineAtWork
  <2>2. PICK w : w = FinishHarvesting(t)
    OBVIOUS
  <2>3. /\ Free(w) /\ Fit(w.h) /\ Good(w) /\ w.h.state = "NOT_HARVESTING" /\ w.used = spent
    BY <1>3, <2>1, <2>2, FinishHarvestingIsFree
  <2>4. PICK y : y = Drop(t, AtWorkSource)
    OBVIOUS
  <2>5. \/ u = [v EXCEPT !.h.dest = None, !.h.src = None]
        \/ u = Accumulate(s) /\ Gathered(s) = 0
        \/ u \in TryGatherNearestSource(w, s.h.resName, near)
        \/ u = [w EXCEPT !.h.dest = None, !.h.src = None]
        \/ HandsFull(t, r) /\ u = PutInto(y)
        \/ u = t
    BY <1>4, <1>5, <1>6, <1>10, <2>2, <2>4 DEF OnHarvestAnimSource
  <2>6. CASE u = Accumulate(s) /\ Gathered(s) = 0
    BY <1>10, <2>6, AccumulateIsGood
  <2>7. CASE u \in TryGatherNearestSource(w, s.h.resName, near)
    BY <2>3, <2>7, TryGatherNearestSourceIsGood
  <2>8. CASE HandsFull(t, r) /\ u = PutInto(y)
    <3>1. Turns(t, y, {"handlers"}) /\ y.h.handlers = t.h.handlers \ AtWorkSource
      BY <2>1, <2>4, DropDoes
    <3>2. y.h.handlers = {} /\ y.h.carry = t.h.carry
      BY <2>1, <3>1 DEF Turns, SameBut, HFields
    <3>3. Free(y)
      BY <2>1, <3>1, <3>2, FreeIfTurned
    <3>4. r \in Resource
      BY <1>1, <1>5, <1>10, YieldIs
    <3>5. Burdened(t.h)
      BY <2>1, <2>8, <3>4, FullIsBurdened
    <3>6. Burdened(y.h)
      BY <3>2, <3>5 DEF Burdened
    <3>. QED BY <2>8, <3>3, <3>6, PutIntoIsGood
  <2>. QED BY <1>7, <1>8, <2>1, <2>3, <2>5, <2>6, <2>7, <2>8
<1>. QED BY <1>9, <1>10

\* Every handler that is called while it is registered leaves a good world.
LEMMA HandleIsGood ==
  ASSUME NEW s, Good(s), s.used = spent, NEW x \in s.h.handlers, NEW near,
         NEW u \in Handle(x, s, near)
  PROVE  Good(u)
<1>1. s \in Worlds /\ s.h \in Harvesters /\ Fit(s.h)
  BY WorldHas DEF Good, Ok, Sane
<1>2. x \in Handlers
  BY <1>1 DEF Harvesters
<1>3. CASE x = "on_harvest_anim_finished"
  BY <1>3, OnHarvestAnimIsGood DEF Handle
<1>4. CASE x = "on_harvest_anim_finished_source"
  BY <1>4, OnHarvestAnimSourceIsGood DEF Handle
<1>5. CASE x = "on_motion_begin_harvest"
  BY <1>5, OnMotionBeginIsGood DEF Handle
<1>6. CASE x = "on_arrive_at_resource"
  BY <1>6, ArriveAtResourceIsGood DEF Handle
<1>7. CASE x = "on_arrive_at_resource_source"
  BY <1>7, ArriveAtResourceSourceIsGood DEF Handle
<1>8. CASE x = "on_arrive_at_storage"
  BY <1>8, ArriveAtStorageIsGood DEF Handle
<1>9. CASE x = "on_arrive_at_transport_source"
  BY <1>9, ArriveAtTransportSourceIsGood DEF Handle
<1>10. CASE x = "on_arrive_at_transport_dest"
  BY <1>10, ArriveAtTransportDestIsGood DEF Handle
<1>11. CASE x = "on_motion_end"
  <2>1. s.h.handlers = {"on_motion_end"} /\ s.h.state \notin Work
    BY <1>1, <1>11, ErrandIs
  <2>2. u \in ArriveAtBuilding(s, near)
    BY <1>11 DEF Handle
  <2>. QED BY <2>1, <2>2, ArriveAtBuildingIsGood
<1>. QED BY <1>2, <1>3, <1>4, <1>5, <1>6, <1>7, <1>8, <1>9, <1>10, <1>11
         DEF Handlers, Harvesting, OnArrival, AtWork, AtWorkSource
-----------------------------------------------------------------------------
(* What an order or a handler leaves *)

LEMMA HeardSound ==
  ASSUME NEW g, NEW s, Sound(g, s), NEW h, h = Heard(g)
  PROVE  /\ Sound(h, s) /\ Shape(h)
         /\ h.site = g.site /\ h.build = g.build /\ h.faction = g.faction
<1>1. Shape(g) /\ IsGame(g) /\ GameOK(g) /\ BooksOK(g, s) /\ \A e \in Entity : EntityOK(g, e)
  BY SoundShape DEF Sound
<1>2. PICK c : c = [e \in Entity |-> IF e \in g.listening THEN g.changed[e] ELSE 0]
  OBVIOUS
<1>3. c \in [Entity -> Nat]
  BY <1>1, <1>2 DEF Shape
<1>4. h = [g EXCEPT !.changed = c]
  BY <1>2 DEF Heard
<1>5. /\ IsGame(h) /\ h.changed = c
      /\ h.site = g.site /\ h.build = g.build /\ h.faction = g.faction /\ h.pos = g.pos
      /\ h.listening = g.listening /\ h.blockers = g.blockers
      /\ h.res = g.res /\ h.cap = g.cap
  BY <1>1, <1>4 DEF IsGame, Fields
<1>6. GameOK(h)
  BY <1>1, <1>3, <1>5 DEF GameOK, Active
<1>7. ASSUME NEW e \in Entity
      PROVE  EntityOK(h, e)
  <2>1. EntityOK(g, e) /\ (e \in DOMAIN g.build => BuildOK(g, e))
    BY <1>1 DEF EntityOK
  <2>2. /\ UnderWork(h, e) <=> UnderWork(g, e)
        /\ IsFounded(h, e) <=> IsFounded(g, e)
        /\ IsSaturated(h, e) <=> IsSaturated(g, e)
        /\ BuildOK(h, e) <=> BuildOK(g, e)
        /\ Asked(h, e) = Asked(g, e) /\ Active(h) = Active(g)
    BY <1>5 DEF UnderWork, IsFounded, IsSaturated, BuildOK, Asked, Active
  <2>3. SiteOK(h, e) <=> SiteOK(g, e)
    BY <1>5, <2>2 DEF SiteOK
  <2>4. IsFounded(h, e) => h.changed[e] = g.changed[e]
    BY <1>2, <1>5, <2>1, <2>2 DEF BuildOK, IsFounded
  <2>. QED BY <1>5, <2>1, <2>2, <2>3, <2>4 DEF EntityOK
<1>8. BooksOK(h, s)
  <2>1. \A f : SitesOf(h, f) = SitesOf(g, f)
    BY <1>5 DEF SitesOf, Owner
  <2>2. \A f, r : StoredBy(h, f, r) = StoredBy(g, f, r) /\ CapacityOf(h, f, r) = CapacityOf(g, f, r)
    BY <1>5, <2>1 DEF StoredBy, CapacityOf
  <2>3. \A f, p : Standing(h, f, p) = Standing(g, f, p)
    BY <1>5 DEF Standing, Owner
  <2>. QED BY <1>1, <1>5, <2>2, <2>3 DEF BooksOK
<1>9. Sound(h, s)
  BY <1>5, <1>6, <1>7, <1>8 DEF Sound
<1>. QED BY <1>5, <1>9, SoundShape

LEMMA RememberedFits ==
  ASSUME NEW h \in Harvesters, Fit(h), NEW k, k = Remembered(h)
  PROVE  k \in Harvesters /\ SameBut(h, k, {"ss", "src", "dest", "resName"}) /\ Fit(k)
<1>1. PICK ss : ss = IF Awaits(h) \intersect {"on_arrive_at_storage"} = {} THEN None ELSE h.ss
  OBVIOUS
<1>2. PICK src : src = IF Awaits(h) \intersect {"on_arrive_at_transport_source"} = {}
                       THEN None ELSE h.src
  OBVIOUS
<1>3. PICK dest : dest = IF Awaits(h) \intersect
                             ({"on_arrive_at_transport_source"} \union
                               {"on_arrive_at_transport_dest", "on_arrive_at_resource_source",
                                "on_harvest_anim_finished_source"}) = {}
                         THEN None ELSE h.dest
  OBVIOUS
<1>4. PICK read : read = {"on_arrive_at_transport_source"} \union
                     (AtWork \union AtWorkSource \union {"on_arrive_at_resource",
                                                         "on_arrive_at_resource_source"})
  OBVIOUS
<1>5. PICK name : name = IF Awaits(h) \intersect read = {} THEN None ELSE h.resName
  OBVIOUS
<1>6. k = [h EXCEPT !.ss = ss, !.src = src, !.dest = dest, !.resName = name]
  BY <1>1, <1>2, <1>3, <1>4, <1>5, Zenon DEF Remembered, Awaits
<1>7. /\ ss \in Entity \union {None} /\ src \in Entity \union {None}
      /\ dest \in Entity \union {None} /\ name \in Resource \union {None}
  <2>1. /\ h.ss \in Entity \union {None} /\ h.src \in Entity \union {None}
        /\ h.dest \in Entity \union {None} /\ h.resName \in Resource \union {None}
    BY DEF Harvesters
  <2>. QED BY <1>1, <1>2, <1>3, <1>5, <2>1
<1>8. /\ k \in Harvesters /\ SameBut(h, k, {"ss", "src", "dest", "resName"})
      /\ k.ss = ss /\ k.resName = name
  <2>1. k \in Harvesters
    BY <1>6, <1>7 DEF Harvesters
  <2>2. k.ss = ss /\ k.resName = name
    BY <1>6 DEF Harvesters
  <2>3. SameBut(h, k, {"ss", "src", "dest", "resName"})
    BY <1>6 DEF Harvesters, SameBut, HFields
  <2>. QED BY <2>1, <2>2, <2>3
<1>9. /\ k.state = h.state /\ k.handlers = h.handlers /\ k.res = h.res /\ k.carry = h.carry
      /\ k.building = h.building
  BY <1>8 DEF SameBut, HFields
<1>10. HandlersFor(k) = HandlersFor(h) /\ Awaits(k) = Awaits(h)
  BY <1>9 DEF HandlersFor, Awaits
<1>11. OneErrand(k)
  BY <1>9, <1>10 DEF Fit, OneErrand
<1>12. h.state = "SEEK_STORAGE" => k.ss = h.ss
  BY <1>1, <1>8, StatesHandlers DEF Awaits
<1>13. h.state = "TRANSPORT_GETTING" => k.resName = h.resName
  BY <1>4, <1>5, <1>8, StatesHandlers DEF Awaits
<1>14. Awaits(h) \intersect {"on_arrive_at_resource", "on_arrive_at_resource_source"} # {} =>
         k.resName = h.resName
  BY <1>4, <1>5, <1>8
<1>15. Equipped(k)
  BY <1>9, <1>10, <1>12, <1>13, <1>14 DEF Fit, Equipped, Burdened
<1>. QED BY <1>8, <1>11, <1>15 DEF Fit
-----------------------------------------------------------------------------
(* What a step leaves *)

LEMMA WorldStep ==
  ASSUME NEW s, Sane(s, outside'), Fit(s.h),
         DOMAIN zombies' \subseteq Entity \ Active(s.g),
         ~Zombies => s.h.building \notin DOMAIN zombies',
         harvester' = s.h, game' = s.g, deposits' = s.left, spent' = s.used, failed' = s.bad,
         kept' \subseteq Entity, events' \in 0..MaxEvents, outside' \in Table
  PROVE  HIInv'
<1>1. s = [h |-> s.h, g |-> s.g, left |-> s.left, used |-> s.used, bad |-> s.bad]
  BY DEF Sane, Worlds
<1>2. World' = s
  BY <1>1 DEF World
<1>3. Good(World)'
  BY <1>2 DEF Good, Ok, ZombiesOK
<1>. QED BY <1>3 DEF HIInv

LEMMA WorldIs ==
  World.h = harvester /\ World.g = game /\ World.left = deposits
    /\ World.used = spent /\ World.bad = failed
BY DEF World

LEMMA ActiveSame ==
  ASSUME NEW g, NEW h, h.faction = g.faction
  PROVE  Active(h) = Active(g)
BY DEF Active

\* An order or a handler: what is forgotten is not missed.
LEMMA LeavesIsGood ==
  ASSUME HIInv, NEW s, Good(s), Leaves(s)
  PROVE  HIInv'
<1>1. /\ s \in Worlds /\ Sound(s.g, s.used) /\ (Blameless => ~s.bad) /\ Fit(s.h)
      /\ s.h \in Harvesters /\ s.used \in Spents
      /\ DOMAIN zombies \subseteq Entity \ Active(s.g)
      /\ ~Zombies => s.h.building \notin DOMAIN zombies
  BY WorldHas DEF Good, Ok, Sane, ZombiesOK
<1>2. \A r \in Resource : GoodsOf(s, r) + outside[r] = GoodsAtFirst(r)
  BY DEF Good, Ok, Sane
<1>3. PICK k : k = Remembered(s.h)
  OBVIOUS
<1>4. /\ k \in Harvesters /\ SameBut(s.h, k, {"ss", "src", "dest", "resName"}) /\ Fit(k)
  BY <1>1, <1>3, RememberedFits
<1>5. k.building = s.h.building /\ k.carry = s.h.carry
  BY <1>4 DEF SameBut, HFields
<1>6. PICK g : g = Heard(s.g)
  OBVIOUS
<1>7. /\ Sound(g, s.used) /\ Shape(g) /\ g.site = s.g.site /\ g.faction = s.g.faction
  BY <1>1, <1>6, HeardSound
<1>8. Active(g) = Active(s.g)
  BY <1>7, ActiveSame
<1>9. PICK t : t = [h |-> k, g |-> g, left |-> s.left, used |-> s.used, bad |-> s.bad]
  OBVIOUS
<1>10. t \in Worlds
  BY <1>1, <1>4, <1>7, <1>9, GamesHaveShape DEF Worlds
<1>11. \A r \in Resource : GoodsOf(t, r) = GoodsOf(s, r)
  BY <1>5, <1>7, <1>9 DEF GoodsOf, InSites
<1>12. /\ harvester' = k /\ game' = g /\ spent' = s.used /\ deposits' = s.left /\ failed' = s.bad
       /\ zombies' = zombies /\ kept' = kept /\ events' = events /\ outside' = outside
  BY <1>3, <1>6 DEF Leaves
<1>13. Sane(t, outside')
  BY <1>1, <1>2, <1>7, <1>9, <1>10, <1>11, <1>12 DEF Sane
<1>14. kept \subseteq Entity /\ events \in 0..MaxEvents /\ outside \in Table
  BY DEF HIInv
<1>15. Fit(t.h) /\ DOMAIN zombies' \subseteq Entity \ Active(t.g)
       /\ (~Zombies => t.h.building \notin DOMAIN zombies')
  BY <1>1, <1>4, <1>5, <1>8, <1>9, <1>12
<1>16. /\ harvester' = t.h /\ game' = t.g /\ deposits' = t.left /\ spent' = t.used /\ failed' = t.bad
       /\ kept' \subseteq Entity /\ events' \in 0..MaxEvents /\ outside' \in Table
  BY <1>9, <1>12, <1>14
<1>. QED BY <1>13, <1>15, <1>16, WorldStep

LEMMA ObeysIsGood ==
  ASSUME HIInv, NEW outcomes, \A s \in outcomes : Good(s), Obeys(outcomes)
  PROVE  HIInv'
BY LeavesIsGood DEF Obeys

LEMMA DeliverIsGood ==
  ASSUME HIInv, NEW near, Deliver(near)
  PROVE  HIInv'
<1>1. Good(World) /\ World \in Worlds /\ World.used = spent /\ World.h = harvester
  BY WorldIs DEF HIInv, Good, Ok, Sane
<1>2. harvester \in Harvesters /\ harvester.inbox # <<>>
  BY <1>1, WorldHas DEF Deliver
<1>3. PICK i : i = Tail(harvester.inbox)
  OBVIOUS
<1>4. harvester.inbox \in Seq(HEvents)
  BY <1>2 DEF Harvesters
<1>5. i \in Seq(HEvents)
  BY <1>2, <1>3, <1>4
<1>6. PICK k : k = [harvester EXCEPT !.inbox = i]
  OBVIOUS
<1>7. k \in Harvesters /\ SameBut(harvester, k, {"inbox"})
  BY <1>2, <1>5, <1>6 DEF Harvesters, SameBut, HFields
<1>8. PICK s : s = [World EXCEPT !.h = k]
  OBVIOUS
<1>9. [World EXCEPT !.h.inbox = Tail(@)] = s
  BY <1>1, <1>3, <1>6, <1>8 DEF Worlds
<1>10. Turns(World, s, {"inbox"}) /\ s.h = k
  BY <1>1, <1>7, <1>8, TurnedInto
<1>11. Good(s)
  BY <1>1, <1>10, TurnedIsGood
<1>12. s.used = spent /\ s.h.handlers = harvester.handlers
  BY <1>1, <1>8, <1>7, <1>10 DEF SameBut, HFields, Worlds
<1>13. \/ Leaves(s)
       \/ \E x \in harvester.handlers : \E t \in Handle(x, s, near) : Leaves(t)
  BY <1>9 DEF Deliver
<1>14. CASE Leaves(s)
  BY <1>11, <1>14, LeavesIsGood
<1>15. ASSUME NEW x \in harvester.handlers, NEW t \in Handle(x, s, near), Leaves(t)
       PROVE  HIInv'
  <2>1. Good(t)
    BY <1>11, <1>12, <1>15, HandleIsGood
  <2>. QED BY <1>15, <2>1, LeavesIsGood
<1>. QED BY <1>13, <1>14, <1>15
-----------------------------------------------------------------------------
(* Orders *)

LEMMA StopEntityIsFree ==
  ASSUME NEW s, Good(s), NEW stopMove \in BOOLEAN, NEW t, t = StopEntity(s, stopMove)
  PROVE  /\ Free(t) /\ Fit(t.h) /\ Good(t) /\ t \in Worlds
         /\ t.used = s.used /\ t.left = s.left /\ t.g = s.g /\ t.h.carry = s.h.carry
<1>1. s \in Worlds /\ Ok(s)
  BY DEF Good, Ok, Sane
<1>2. PICK a : a = HarvesterStop(s)
  OBVIOUS
<1>3. /\ Turns(s, a, {"handlers", "state"}) /\ a \in Worlds /\ a.h.state = "NOT_HARVESTING"
      /\ a.h.handlers = s.h.handlers \intersect {"on_motion_end"}
  BY <1>1, <1>2, HarvesterStopDoes, TurnsOnly
<1>4. PICK b : b = ClearQueuedCmd(a)
  OBVIOUS
<1>5. Turns(a, b, {"cmd", "arg"}) /\ b \in Worlds
  BY <1>3, <1>4, OrderDoes, TurnsOnly DEF ClearQueuedCmd
<1>6. b.h.state = "NOT_HARVESTING" /\ b.h.handlers \subseteq {"on_motion_end"}
  BY <1>3, <1>5 DEF Turns, SameBut, HFields
<1>7. PICK c : c = Drop(b, {"on_motion_end"})
  OBVIOUS
<1>8. Turns(b, c, {"handlers"}) /\ c \in Worlds /\ c.h.handlers = {}
  BY <1>5, <1>6, <1>7, DropDoes, TurnsOnly
<1>9. c.h.state = "NOT_HARVESTING"
  BY <1>6, <1>8 DEF Turns, SameBut, HFields
<1>10. PICK d : d = [c EXCEPT !.h.building = None]
  OBVIOUS
<1>11. Turns(c, d, {"building"}) /\ d \in Worlds /\ d.h.building = None
  BY <1>8, <1>10, BuildingDoes, TurnsOnly
<1>12. d.h.state = "NOT_HARVESTING" /\ d.h.handlers = {}
  BY <1>8, <1>9, <1>11 DEF Turns, SameBut, HFields
<1>13. PICK k : k = StopMoving(d.h)
  OBVIOUS
<1>14. d.h \in Harvesters /\ k \in Harvesters /\ SameBut(d.h, k, {"motion", "inbox"})
  BY <1>11, <1>13, WorldHas, Moving
<1>15. PICK e : e = [d EXCEPT !.h = k]
  OBVIOUS
<1>16. Turns(d, e, {"motion", "inbox"}) /\ e.h = k /\ e \in Worlds
  BY <1>11, <1>14, <1>15, TurnedInto, TurnsOnly
<1>17. t = d \/ t = e
  <2>1. e = [d EXCEPT !.h = StopMoving(@)]
    BY <1>11, <1>13, <1>15 DEF Worlds
  <2>2. CASE stopMove
    BY <1>2, <1>4, <1>7, <1>10, <2>1, <2>2 DEF StopEntity
  <2>3. CASE ~stopMove
    BY <1>2, <1>4, <1>7, <1>10, <2>3 DEF StopEntity
  <2>. QED BY <2>2, <2>3
<1>18. PICK but : but = ((({"handlers", "state"} \union {"cmd", "arg"}) \union {"handlers"}) \union {"building"})
  OBVIOUS
<1>19. Turns(s, d, but)
  <2>1. Turns(s, b, {"handlers", "state"} \union {"cmd", "arg"})
    BY <1>1, <1>3, <1>5, TurnsAgain
  <2>2. Turns(s, c, ({"handlers", "state"} \union {"cmd", "arg"}) \union {"handlers"})
    BY <1>1, <1>8, <2>1, TurnsAgain
  <2>. QED BY <1>1, <1>11, <1>18, <2>2, TurnsAgain
<1>20. Turns(s, e, but \union {"motion", "inbox"})
  BY <1>1, <1>16, <1>19, TurnsAgain
<1>21. PICK more : Turns(s, t, more) /\ more \subseteq but \union {"motion", "inbox"}
  BY <1>17, <1>19, <1>20
<1>22. "carry" \notin but \union {"motion", "inbox"}
  BY <1>18
<1>23. t.h.state = "NOT_HARVESTING" /\ t.h.handlers = {} /\ t.h.building = None
  BY <1>11, <1>12, <1>14, <1>16, <1>17 DEF SameBut, HFields
<1>24. Ok(t) /\ t \in Worlds /\ t.used = s.used /\ t.left = s.left /\ t.g = s.g
  BY <1>1, <1>21, <1>22, <1>23, TurnedIsOk, TurnsOnly
<1>25. t.h.carry = s.h.carry
  BY <1>21, <1>22 DEF Turns, SameBut, HFields
<1>26. t.h \in Harvesters
  BY <1>24, WorldHas
<1>27. Fit(t.h)
  BY <1>23, <1>26, FitOnErrand
<1>. QED BY <1>23, <1>24, <1>25, <1>27 DEF Free, Good

\* At the start of an order.
LEMMA StoppedWorld ==
  ASSUME HIInv, NEW t, t = StopEntity(World, TRUE)
  PROVE  /\ Free(t) /\ Fit(t.h) /\ t \in Worlds /\ t.used = spent
         /\ t.left = deposits /\ t.g = game /\ t.h.carry = harvester.carry
<1>1. Good(World)
  BY DEF HIInv
<1>2. PICK b \in BOOLEAN : b = TRUE
  OBVIOUS
<1>3. t = StopEntity(World, b)
  BY <1>2
<1>. QED BY <1>1, <1>3, StopEntityIsFree, WorldIs

LEMMA NotifiedIsGood ==
  ASSUME NEW outcomes, \A s \in outcomes : Good(s)
  PROVE  \A s \in Notified(outcomes) : Good(s)
<1>1. ASSUME NEW s \in outcomes PROVE Good(ClearQueuedCmd(s))
  <2>1. Good(s) /\ s \in Worlds
    BY <1>1 DEF Good, Ok, Sane
  <2>2. Turns(s, ClearQueuedCmd(s), {"cmd", "arg"})
    BY <2>1, OrderDoes DEF ClearQueuedCmd
  <2>. QED BY <2>1, <2>2, TurnedIsGood
<1>. QED BY <1>1 DEF Notified

LEMMA GatherOrders ==
  ASSUME HIInv, NEW d, ScriptGather(d) \/ PlayerGather(d)
  PROVE  HIInv'
<1>1. PICK t : t = StopEntity(World, TRUE)
  OBVIOUS
<1>2. Free(t) /\ Fit(t.h)
  BY <1>1, StoppedWorld
<1>3. \A near : \A u \in Gather(t, d, near) : Good(u)
  BY <1>2, GatherIsGood
<1>4. \E near : Obeys(Gather(t, d, near)) \/ Obeys(Notified(Gather(t, d, near)))
  BY <1>1 DEF ScriptGather, PlayerGather
<1>. QED BY <1>3, <1>4, ObeysIsGood, NotifiedIsGood

LEMMA DropOffOrder ==
  ASSUME HIInv, NEW e, OrderDropOff(e)
  PROVE  HIInv'
<1>1. PICK t : t = StopEntity(World, TRUE)
  OBVIOUS
<1>2. Free(t) /\ t.g = game /\ t.h.carry = harvester.carry
  BY <1>1, StoppedWorld
<1>3. e \in DOMAIN t.g.site /\ Carried(t) # {}
  BY <1>2, WorldIs DEF OrderDropOff, IsSite, Carried
<1>4. Good(DropOff(t, e))
  BY <1>2, <1>3, DropOffIsGood
<1>5. Obeys({DropOff(t, e)})
  BY <1>1 DEF OrderDropOff
<1>. QED BY <1>4, <1>5, ObeysIsGood

LEMMA TransportOrders ==
  ASSUME HIInv, NEW e, ScriptTransport(e) \/ PlayerTransport(e)
  PROVE  HIInv'
<1>1. PICK t : t = StopEntity(World, TRUE)
  OBVIOUS
<1>2. Free(t) /\ Fit(t.h) /\ t.used = spent
  BY <1>1, StoppedWorld
<1>3. \A near : \A u \in Transport(t, e, near) : Good(u)
  BY <1>2, TransportIsGood
<1>4. \E near : Obeys(Transport(t, e, near)) \/ Obeys(Notified(Transport(t, e, near)))
  BY <1>1 DEF ScriptTransport, PlayerTransport
<1>. QED BY <1>3, <1>4, ObeysIsGood, NotifiedIsGood

LEMMA PickUpOrder ==
  ASSUME HIInv, NEW e, PlayerPickUp(e)
  PROVE  HIInv'
<1>1. PICK t : t = StopEntity(World, TRUE)
  OBVIOUS
<1>2. Free(t) /\ Fit(t.h)
  BY <1>1, StoppedWorld
<1>3. \A near : \A u \in PickUp(t, e, near) : Good(u)
  BY <1>2, PickUpIsGood
<1>4. \E near : Obeys(Notified(PickUp(t, e, near)))
  BY <1>1 DEF PlayerPickUp
<1>. QED BY <1>3, <1>4, ObeysIsGood, NotifiedIsGood

LEMMA BuildOrder ==
  ASSUME HIInv, NEW e, NEW near, PlayerBuild(e, near)
  PROVE  HIInv'
<1>1. PICK t : t = StopEntity(World, TRUE)
  OBVIOUS
<1>2. Free(t) /\ Fit(t.h) /\ t.used = spent
  BY <1>1, StoppedWorld
<1>3. \A u \in Build(t, e, near) : Good(u)
  BY <1>2, BuildIsGood
<1>4. Obeys(Notified(Build(t, e, near)))
  BY <1>1 DEF PlayerBuild
<1>. QED BY <1>3, <1>4, ObeysIsGood, NotifiedIsGood

LEMMA StopOrder ==
  ASSUME HIInv, NEW stopMove \in BOOLEAN, Stop(stopMove)
  PROVE  HIInv'
<1>1. PICK t : t = StopEntity(World, stopMove)
  OBVIOUS
<1>2. Good(t)
  BY <1>1, StopEntityIsFree DEF HIInv
<1>. QED BY <1>1, <1>2, ObeysIsGood DEF Stop
-----------------------------------------------------------------------------
(* The harvester by itself *)

LEMMA WorldFacts ==
  ASSUME HIInv
  PROVE  /\ World \in Worlds /\ harvester \in Harvesters /\ Fit(harvester)
         /\ Sound(game, spent) /\ Shape(game) /\ spent \in Spents /\ failed \in BOOLEAN
         /\ deposits \in PartialOn(Deposits, Nat \ {0})
         /\ (Blameless => ~failed)
         /\ DOMAIN zombies \subseteq Entity \ Active(game)
         /\ (~Zombies => harvester.building \notin DOMAIN zombies)
         /\ kept \subseteq Entity /\ events \in 0..MaxEvents /\ outside \in Table
<1>1. Good(World) /\ kept \subseteq Entity /\ events \in 0..MaxEvents /\ outside \in Table
  BY DEF HIInv
<1>2. /\ World \in Worlds /\ Sound(World.g, World.used) /\ Fit(World.h)
      /\ (Blameless => ~World.bad)
      /\ DOMAIN zombies \subseteq Entity \ Active(World.g)
      /\ (~Zombies => World.h.building \notin DOMAIN zombies)
  BY <1>1 DEF Good, Ok, Sane, ZombiesOK
<1>3. World.left \in PartialOn(Deposits, Nat \ {0})
  BY <1>2 DEF Worlds
<1>. QED BY <1>1, <1>2, <1>3, WorldHas, WorldIs

LEMMA GoodsNow ==
  ASSUME HIInv, NEW r \in Resource
  PROVE  /\ InGroundOf(deposits, r) \in Int /\ harvester.carry[r] \in Nat
         /\ InSites(game, r) \in Int /\ SpentInAll(spent, r) \in Int /\ outside[r] \in Int
         /\ InGroundOf(deposits, r) + harvester.carry[r] + InSites(game, r)
              + SpentInAll(spent, r) + outside[r] = GoodsAtFirst(r)
<1>1. World \in Worlds /\ outside \in Table
  BY WorldFacts
<1>2. GoodsOf(World, r) + outside[r] = GoodsAtFirst(r)
  BY DEF HIInv, Good, Ok, Sane
<1>3. outside[r] \in Int
  BY <1>1 DEF Table
<1>. QED BY <1>1, <1>2, <1>3, GoodsAreInt, WorldIs DEF GoodsOf

\* Nothing is another but the harvester; what it put aside is away.
LEMMA HarvesterStep ==
  ASSUME HIInv, NEW k \in Harvesters, Fit(k), k.building = harvester.building, harvester' = k,
         UNCHANGED <<vars, deposits, zombies, kept, failed>>,
         events' \in 0..MaxEvents, outside' \in Table,
         \A r \in Resource : k.carry[r] + outside'[r] = harvester.carry[r] + outside[r]
  PROVE  HIInv'
<1>1. PICK t : t = [h |-> k, g |-> game, left |-> deposits, used |-> spent, bad |-> failed]
  OBVIOUS
<1>2. t \in Worlds
  BY <1>1, WorldFacts, GamesHaveShape DEF Worlds
<1>3. ASSUME NEW r \in Resource PROVE GoodsOf(t, r) + outside'[r] = GoodsAtFirst(r)
  <2>1. PICK a, c, b, d : a = InGroundOf(deposits, r) /\ c = harvester.carry[r]
          /\ b = InSites(game, r) /\ d = SpentInAll(spent, r)
    OBVIOUS
  <2>2. PICK o, p, q : o = outside[r] /\ p = outside'[r] /\ q = k.carry[r]
    OBVIOUS
  <2>3. q \in Nat /\ p \in Int
    BY <2>2 DEF Harvesters, Loads, Table
  <2>4. a \in Int /\ c \in Nat /\ b \in Int /\ d \in Int /\ o \in Int /\ a + c + b + d + o = GoodsAtFirst(r)
    BY <2>1, <2>2, GoodsNow
  <2>5. GoodsOf(t, r) = a + q + b + d
    BY <1>1, <2>1, <2>2 DEF GoodsOf
  <2>6. q + p = c + o
    BY <2>1, <2>2
  <2>7. PICK z : z = GoodsOf(t, r)
    OBVIOUS
  <2>8. PICK y : y = GoodsAtFirst(r)
    OBVIOUS
  <2>9. z = a + q + b + d /\ a + c + b + d + o = y
    BY <2>4, <2>5, <2>7, <2>8
  <2>10. a \in Int /\ c \in Int /\ b \in Int /\ d \in Int /\ o \in Int /\ p \in Int /\ q \in Int
    BY <2>3, <2>4
  <2>11. z + p = y
    BY <2>6, <2>9, <2>10
  <2>. QED BY <2>2, <2>7, <2>8, <2>11
<1>4. Sane(t, outside')
  BY <1>1, <1>2, <1>3, WorldFacts DEF Sane
<1>5. /\ t.h = k /\ t.g = game /\ t.left = deposits /\ t.used = spent /\ t.bad = failed
  BY <1>1
<1>6. /\ game' = game /\ spent' = spent /\ deposits' = deposits /\ failed' = failed
      /\ kept' = kept /\ zombies' = zombies
  BY DEF vars
<1>7. /\ DOMAIN zombies' \subseteq Entity \ Active(t.g)
      /\ (~Zombies => t.h.building \notin DOMAIN zombies') /\ kept' \subseteq Entity
  BY <1>5, <1>6, WorldFacts
<1>. QED BY <1>4, <1>5, <1>6, <1>7, WorldStep

LEMMA MovesStep ==
  ASSUME HIInv, NEW k \in Harvesters, NEW but, SameBut(harvester, k, but),
         but \subseteq {"motion", "inbox", "strategy"},
         harvester' = k, UNCHANGED <<vars, deposits, zombies, kept, outside, failed>>,
         events' \in 0..MaxEvents
  PROVE  HIInv'
<1>1. Fit(k)
  BY WorldFacts, FitSame
<1>2. k.building = harvester.building /\ k.carry = harvester.carry
  BY DEF SameBut, HFields
<1>3. outside' = outside /\ outside \in Table
  BY WorldFacts
<1>4. UNCHANGED <<vars, deposits, zombies, kept, failed>>
  OBVIOUS
<1>. QED BY <1>1, <1>2, <1>3, <1>4, HarvesterStep

LEMMA MotionSteps ==
  ASSUME HIInv, Walk \/ Arrive \/ Wait \/ Halt
  PROVE  HIInv'
<1>1. PICK k \in {StopMoving(harvester), StartMoving(harvester), SurroundEntity(harvester),
                  FinishMoving(harvester, "arrived"), FinishMoving(harvester, "waiting")} :
        Moves(k)
  BY DEF Walk, Arrive, Wait, Halt
<1>2. k \in Harvesters /\ SameBut(harvester, k, {"motion", "inbox"})
  BY WorldFacts, Moving
<1>3. /\ harvester' = k /\ UNCHANGED <<vars, deposits, zombies, kept, outside, failed>>
      /\ events' = events
  BY <1>1 DEF Moves
<1>. QED BY <1>2, <1>3, WorldFacts, MovesStep

LEMMA AnimStep ==
  ASSUME HIInv, AnimCycle
  PROVE  HIInv'
<1>1. harvester \in Harvesters /\ events \in 0..MaxEvents
  BY WorldFacts
<1>2. PICK i : i = Append(harvester.inbox, "ANIM_CYCLE_FINISHED")
  OBVIOUS
<1>3. harvester.inbox \in Seq(HEvents) /\ "ANIM_CYCLE_FINISHED" \in HEvents
  BY <1>1 DEF Harvesters, HEvents
<1>4. i \in Seq(HEvents)
  BY <1>2, <1>3
<1>5. PICK k : k = [harvester EXCEPT !.inbox = i]
  OBVIOUS
<1>6. k \in Harvesters /\ SameBut(harvester, k, {"inbox"})
  BY <1>1, <1>4, <1>5 DEF Harvesters, SameBut, HFields
<1>7. Queue(harvester, "ANIM_CYCLE_FINISHED") = k
  BY <1>2, <1>5 DEF Queue
<1>8. /\ harvester' = k /\ UNCHANGED <<vars, deposits, zombies, kept, outside, failed>>
      /\ events' = events
  BY <1>7 DEF AnimCycle, Moves
<1>. QED BY <1>1, <1>6, <1>8, MovesStep

LEMMA StrategyStep ==
  ASSUME HIInv, NEW x \in Strategies, SetStrategy(x)
  PROVE  HIInv'
<1>1. harvester \in Harvesters /\ events \in 0..MaxEvents
  BY WorldFacts
<1>2. PICK k : k = [harvester EXCEPT !.strategy = x]
  OBVIOUS
<1>3. k \in Harvesters /\ SameBut(harvester, k, {"strategy"})
  BY <1>1, <1>2 DEF Harvesters, SameBut, HFields
<1>4. /\ harvester' = k /\ UNCHANGED <<vars, deposits, zombies, kept, outside, failed>>
      /\ events' = events + 1 /\ events < MaxEvents
  BY <1>2 DEF SetStrategy
<1>5. events' \in 0..MaxEvents
  BY <1>1, <1>4, HarvesterAssumption
<1>. QED BY <1>3, <1>4, <1>5, MovesStep

\* It gives up bringing what it has no more.
LEMMA ClearCarryStep ==
  ASSUME HIInv, ClearCarry
  PROVE  HIInv'
<1>1. /\ harvester \in Harvesters /\ Fit(harvester) /\ events \in 0..MaxEvents
      /\ outside \in Table
  BY WorldFacts
<1>2. PICK h : h = [harvester EXCEPT !.carry = Zero]
  OBVIOUS
<1>3. Zero \in Loads
  BY HarvesterAssumption DEF Loads, Zero
<1>4. /\ h \in Harvesters /\ SameBut(harvester, h, {"carry"}) /\ h.carry = Zero
  BY <1>1, <1>2, <1>3 DEF Harvesters, SameBut, HFields
<1>5. PICK k : k = IF h.state \in {"SEEK_STORAGE", "TRANSPORT_PUTTING"}
                   THEN [h EXCEPT !.state = "NOT_HARVESTING",
                                  !.handlers = h.handlers \ {"on_arrive_at_storage",
                                                             "on_arrive_at_transport_dest"}]
                   ELSE h
  OBVIOUS
<1>6. /\ harvester' = k /\ outside' = Plus(outside, harvester.carry)
      /\ events' = events + 1 /\ events < MaxEvents
      /\ UNCHANGED <<vars, deposits, zombies, kept, failed>>
  BY <1>2, <1>5 DEF ClearCarry
<1>7. h.state = harvester.state /\ h.handlers = harvester.handlers /\ h.building = harvester.building
  BY <1>4 DEF SameBut, HFields
<1>10. k \in Harvesters /\ Fit(k) /\ k.building = harvester.building /\ k.carry = Zero
  <2>1. k.carry = Zero
    BY <1>4, <1>5 DEF Harvesters
  <2>2. CASE h.state \in {"SEEK_STORAGE", "TRANSPORT_PUTTING"}
    <3>1. k = [h EXCEPT !.state = "NOT_HARVESTING",
                        !.handlers = h.handlers \ {"on_arrive_at_storage", "on_arrive_at_transport_dest"}]
      BY <1>5, <2>2
    <3>2. /\ k \in Harvesters /\ k.state = "NOT_HARVESTING"
          /\ k.building = harvester.building
          /\ k.handlers = harvester.handlers \ {"on_arrive_at_storage", "on_arrive_at_transport_dest"}
      BY <1>4, <1>7, <3>1 DEF Harvesters, HStates
    <3>3. \/ harvester.handlers \subseteq HandlersFor(harvester)
          \/ harvester.handlers = {"on_motion_end"} /\ harvester.building # None
      BY <1>1, <1>7, <2>2 DEF Fit, OneErrand
    <3>4. HandlersFor(harvester) \subseteq {"on_arrive_at_storage", "on_arrive_at_transport_dest"}
      BY <1>7, <2>2, StatesHandlers
    <3>5. k.handlers = {} \/ (k.handlers = {"on_motion_end"} /\ k.building # None)
      BY <3>2, <3>3, <3>4
    <3>6. CASE k.handlers = {}
      <4>1. Fit(k)
        BY <3>2, <3>6, FitOnErrand
      <4>. QED BY <2>1, <3>2, <4>1
    <3>7. CASE k.handlers = {"on_motion_end"} /\ k.building # None
      <4>1. Fit(k)
        BY <3>2, <3>7, StatesHandlers DEF Fit, OneErrand, Equipped, Awaits, Work
      <4>. QED BY <2>1, <3>2, <4>1
    <3>. QED BY <3>5, <3>6, <3>7
  <2>3. CASE h.state \notin {"SEEK_STORAGE", "TRANSPORT_PUTTING"}
    <3>1. k = h
      BY <1>5, <2>3
    <3>2. h.res = harvester.res /\ h.resName = harvester.resName
      BY <1>4 DEF SameBut, HFields
    <3>3. HandlersFor(h) = HandlersFor(harvester) /\ Awaits(h) = Awaits(harvester)
      BY <1>7 DEF HandlersFor, Awaits
    <3>4. OneErrand(h)
      BY <1>1, <1>7, <3>3 DEF Fit, OneErrand
    <3>5. Equipped(h)
      BY <1>1, <1>7, <2>3, <3>2, <3>3 DEF Fit, Equipped
    <3>. QED BY <1>4, <1>7, <3>1, <3>4, <3>5 DEF Fit
  <2>. QED BY <2>2, <2>3
<1>11. events' \in 0..MaxEvents
  BY <1>1, <1>6, HarvesterAssumption
<1>12. harvester.carry \in [Resource -> Nat]
  BY <1>1 DEF Harvesters, Loads
<1>13. ASSUME NEW r \in Resource
       PROVE  outside'[r] \in Int /\ k.carry[r] + outside'[r] = harvester.carry[r] + outside[r]
  <2>1. outside'[r] = outside[r] + harvester.carry[r] /\ k.carry[r] = 0
    BY <1>6, <1>10 DEF Plus, Zero
  <2>2. outside[r] \in Int /\ harvester.carry[r] \in Nat
    BY <1>1, <1>12 DEF Table
  <2>. QED BY <2>1, <2>2
<1>14. outside' \in Table
  BY <1>6, <1>13 DEF Table, Plus
<1>. QED BY <1>6, <1>10, <1>11, <1>13, <1>14, HarvesterStep

\* The handlers for the state are registered, and that of the builder remains.
LEMMA ReloadStep ==
  ASSUME HIInv, StaleSaves = FALSE, Reload
  PROVE  HIInv'
<1>1. /\ harvester \in Harvesters /\ Fit(harvester) /\ events \in 0..MaxEvents /\ outside \in Table
  BY WorldFacts
<1>2. PICK H : H = HandlersFor(harvester) \union (harvester.handlers \intersect {"on_motion_end"})
  OBVIOUS
<1>3. H \in SUBSET Handlers
  <2>1. HandlersFor(harvester) \subseteq Handlers
    BY <1>1, StatesHandlers DEF Harvesters, HStates, Work, Handlers, Harvesting, OnArrival,
                               AtWork, AtWorkSource
  <2>2. "on_motion_end" \in Handlers
    BY DEF Handlers, OnArrival
  <2>. QED BY <1>2, <2>1, <2>2
<1>4. PICK k : k = [harvester EXCEPT !.handlers = H]
  OBVIOUS
<1>5. k \in Harvesters /\ SameBut(harvester, k, {"handlers"}) /\ k.handlers = H
  BY <1>1, <1>3, <1>4 DEF Harvesters, SameBut, HFields
<1>6. /\ harvester' = k /\ UNCHANGED <<vars, deposits, zombies, kept, events, outside, failed>>
      /\ \/ "on_motion_end" \notin harvester.handlers
         \/ HandlersFor(harvester) \subseteq harvester.handlers
  BY <1>2, <1>4 DEF Reload
<1>7. /\ k.state = harvester.state /\ k.res = harvester.res /\ k.resName = harvester.resName
      /\ k.ss = harvester.ss /\ k.carry = harvester.carry /\ k.building = harvester.building
  BY <1>5 DEF SameBut, HFields
<1>8. HandlersFor(k) = HandlersFor(harvester)
  BY <1>7 DEF HandlersFor
<1>9. OneErrand(k)
  <2>1. CASE "on_motion_end" \notin harvester.handlers
    <3>1. k.handlers = HandlersFor(k)
      BY <1>2, <1>5, <1>8, <2>1
    <3>. QED BY <3>1 DEF OneErrand
  <2>2. CASE "on_motion_end" \in harvester.handlers
    <3>1. /\ harvester.handlers = {"on_motion_end"} /\ harvester.state \notin Work
          /\ harvester.building # None
      BY <1>1, <2>2, ErrandIs
    <3>2. k.handlers = {"on_motion_end"}
      BY <1>2, <1>5, <1>6, <3>1
    <3>. QED BY <1>7, <3>1, <3>2 DEF OneErrand
  <2>. QED BY <2>1, <2>2
<1>10. Awaits(k) \subseteq Awaits(harvester)
  BY <1>2, <1>5, <1>8 DEF Awaits
<1>11. Equipped(k)
  BY <1>1, <1>7, <1>10 DEF Fit, Equipped, Burdened
<1>12. Fit(k)
  BY <1>9, <1>11 DEF Fit
<1>13. UNCHANGED <<vars, deposits, zombies, kept, failed>> /\ events' = events /\ outside' = outside
  BY <1>6
<1>. QED BY <1>1, <1>5, <1>6, <1>7, <1>12, <1>13, HarvesterStep
-----------------------------------------------------------------------------
(* What others do *)

\* The harvester is as it was, and what is elsewhere adds up to the same.
LEMMA OthersStep ==
  ASSUME HIInv, NEW g, NEW used \in Spents, Sound(g, used),
         NEW left \in PartialOn(Deposits, Nat \ {0}),
         harvester' = harvester, game' = g, deposits' = left, spent' = used, failed' = failed,
         DOMAIN zombies' \subseteq Entity \ Active(g),
         ~Zombies => harvester.building \notin DOMAIN zombies',
         kept' \subseteq Entity, events' \in 0..MaxEvents, outside' \in Table,
         \A r \in Resource :
           InGroundOf(left, r) + InSites(g, r) + SpentInAll(used, r) + outside'[r]
             = InGroundOf(deposits, r) + InSites(game, r) + SpentInAll(spent, r) + outside[r]
  PROVE  HIInv'
<1>1. harvester \in Harvesters /\ Fit(harvester) /\ failed \in BOOLEAN /\ (Blameless => ~failed)
  BY WorldFacts
<1>2. PICK t : t = [h |-> harvester, g |-> g, left |-> left, used |-> used, bad |-> failed]
  OBVIOUS
<1>3. /\ t.h = harvester /\ t.g = g /\ t.left = left /\ t.used = used /\ t.bad = failed
  BY <1>2
<1>4. t \in Worlds
  BY <1>1, <1>2, SoundShape, GamesHaveShape DEF Worlds
<1>5. ASSUME NEW r \in Resource PROVE GoodsOf(t, r) + outside'[r] = GoodsAtFirst(r)
  <2>1. PICK a, b, c, d, o : a = InGroundOf(deposits, r) /\ b = InSites(game, r)
          /\ c = harvester.carry[r] /\ d = SpentInAll(spent, r) /\ o = outside[r]
    OBVIOUS
  <2>2. PICK l, m, n, p : l = InGroundOf(left, r) /\ m = InSites(g, r)
          /\ n = SpentInAll(used, r) /\ p = outside'[r]
    OBVIOUS
  <2>3. PICK y, z : y = GoodsAtFirst(r) /\ z = GoodsOf(t, r)
    OBVIOUS
  <2>4. a \in Int /\ b \in Int /\ c \in Int /\ d \in Int /\ o \in Int /\ a + c + b + d + o = y
    BY <2>1, <2>3, GoodsNow
  <2>5. l \in Int /\ m \in Int /\ n \in Int
    BY <1>3, <1>4, <2>2, GoodsAreInt
  <2>6. p \in Int
    BY <2>2 DEF Table
  <2>7. z = l + c + m + n
    BY <1>3, <2>1, <2>2, <2>3 DEF GoodsOf
  <2>8. l + m + n + p = a + b + d + o
    BY <2>1, <2>2
  <2>9. z + p = y
    BY <2>4, <2>5, <2>6, <2>7, <2>8
  <2>. QED BY <2>2, <2>3, <2>9
<1>6. Sane(t, outside')
  BY <1>1, <1>3, <1>4, <1>5 DEF Sane
<1>. QED BY <1>1, <1>3, <1>6, WorldStep

LEMMA MeanwhileStep ==
  ASSUME HIInv, NEW g, Sound(g, spent), NEW left \in PartialOn(Deposits, Nat \ {0}),
         NEW gone \in Table, Meanwhile(g, left, gone),
         \A r \in Resource :
           InGroundOf(left, r) + InSites(g, r) + gone[r] = InGroundOf(deposits, r) + InSites(game, r),
         DOMAIN zombies' \subseteq Entity \ Active(g),
         ~Zombies => harvester.building \notin DOMAIN zombies',
         kept' \subseteq Entity
  PROVE  HIInv'
<1>1. PICK h : h = Heard(g)
  OBVIOUS
<1>2. Sound(h, spent) /\ h.site = g.site /\ h.faction = g.faction
  BY <1>1, HeardSound
<1>3. spent \in Spents /\ events \in 0..MaxEvents /\ outside \in Table
  BY WorldFacts
<1>4. /\ game' = h /\ spent' = spent /\ deposits' = left /\ harvester' = harvester
      /\ failed' = failed /\ outside' = Plus(outside, gone) /\ events' = events + 1
      /\ events < MaxEvents
  BY <1>1 DEF Meanwhile, Becomes
<1>5. events' \in 0..MaxEvents
  BY <1>3, <1>4, HarvesterAssumption
<1>6. \A r \in Resource : outside'[r] = outside[r] + gone[r] /\ outside[r] \in Int /\ gone[r] \in Int
  BY <1>3, <1>4 DEF Plus, Table
<1>7. outside' \in Table
  BY <1>4, <1>6 DEF Table, Plus
<1>8. Active(h) = Active(g)
  BY <1>2, ActiveSame
<1>9. ASSUME NEW r \in Resource
      PROVE  InGroundOf(left, r) + InSites(h, r) + SpentInAll(spent, r) + outside'[r]
               = InGroundOf(deposits, r) + InSites(game, r) + SpentInAll(spent, r) + outside[r]
  <2>1. PICK a, b, d, o : a = InGroundOf(deposits, r) /\ b = InSites(game, r)
          /\ d = SpentInAll(spent, r) /\ o = outside[r]
    OBVIOUS
  <2>2. PICK l, m, n, p : l = InGroundOf(left, r) /\ m = InSites(g, r)
          /\ n = gone[r] /\ p = outside'[r]
    OBVIOUS
  <2>3. a \in Int /\ b \in Int /\ d \in Int /\ o \in Int
    BY <2>1, GoodsNow
  <2>4. PICK w : w = [h |-> harvester, g |-> g, left |-> left, used |-> spent, bad |-> failed]
    OBVIOUS
  <2>5. w \in Worlds
    BY <1>3, <2>4, WorldFacts, SoundShape, GamesHaveShape DEF Worlds
  <2>6. l \in Int /\ m \in Int
    BY <2>2, <2>4, <2>5, GoodsAreInt
  <2>7. n \in Int /\ p = o + n
    BY <1>6, <2>1, <2>2
  <2>8. l + m + n = a + b
    BY <2>1, <2>2
  <2>9. InSites(h, r) = m
    BY <1>2, <2>2 DEF InSites
  <2>10. l + m + d + p = a + b + d + o
    BY <2>3, <2>6, <2>7, <2>8
  <2>. QED BY <2>1, <2>2, <2>9, <2>10
<1>. QED BY <1>2, <1>3, <1>4, <1>5, <1>7, <1>8, <1>9, OthersStep

\* What is taken of one resource.
LEMMA OnlyIs ==
  ASSUME NEW r \in Resource, NEW n \in Int
  PROVE  /\ Only(r, n) \in Table
         /\ \A q \in Resource : Only(r, n)[q] = IF q = r THEN n ELSE 0
BY DEF Only, Zero, Table

LEMMA OthersStoreStep ==
  ASSUME HIInv, NEW e \in Entity, NEW r \in Resource, NEW n \in Amount, OthersStore(e, r, n)
  PROVE  HIInv'
<1>1. /\ Sound(game, spent) /\ spent \in Spents
      /\ deposits \in PartialOn(Deposits, Nat \ {0})
      /\ DOMAIN zombies \subseteq Entity \ Active(game)
      /\ (~Zombies => harvester.building \notin DOMAIN zombies) /\ kept \subseteq Entity
  BY WorldFacts
<1>2. e \in DOMAIN game.site /\ CurrAllowed(game, e, r, n)
  BY WorldIs DEF OthersStore, IsSite
<1>3. n \in Nat
  BY StorageAssumption DEF Amount
<1>4. PICK h : h = SetCurr(game, e, r, n)
  OBVIOUS
<1>5. /\ Sound(h, spent) /\ h.faction = game.faction /\ game.site[e].curr[r] \in Nat
      /\ \A q \in Resource :
           /\ InSites(game, q) \in Int /\ InSites(h, q) \in Int
           /\ InSites(h, q) = InSites(game, q) + (IF q = r THEN n - game.site[e].curr[r] ELSE 0)
  BY <1>1, <1>2, <1>3, <1>4, StoringIsSound
<1>6. PICK c \in Nat : c = game.site[e].curr[r]
  BY <1>5
<1>7. PICK gone : gone = Only(r, c - n)
  OBVIOUS
<1>8. c - n \in Int
  BY <1>3
<1>9. gone \in Table /\ \A q \in Resource : gone[q] = IF q = r THEN c - n ELSE 0
  BY <1>7, <1>8, OnlyIs
<1>10. Meanwhile(h, deposits, gone) /\ UNCHANGED <<zombies, kept>>
  BY <1>4, <1>6, <1>7 DEF OthersStore
<1>11. ASSUME NEW q \in Resource
       PROVE  InGroundOf(deposits, q) + InSites(h, q) + gone[q]
                = InGroundOf(deposits, q) + InSites(game, q)
  <2>1. InGroundOf(deposits, q) \in Int
    BY GoodsNow
  <2>. QED BY <1>3, <1>5, <1>6, <1>9, <2>1
<1>12. Active(h) = Active(game)
  BY <1>5, ActiveSame
<1>. QED BY <1>1, <1>5, <1>9, <1>10, <1>11, <1>12, MeanwhileStep

LEMMA OthersMineStep ==
  ASSUME HIInv, NEW d \in Deposits, NEW n \in Amount, OthersMine(d, n)
  PROVE  HIInv'
<1>1. /\ Sound(game, spent) /\ spent \in Spents
      /\ deposits \in PartialOn(Deposits, Nat \ {0})
      /\ DOMAIN zombies \subseteq Entity \ Active(game)
      /\ (~Zombies => harvester.building \notin DOMAIN zombies) /\ kept \subseteq Entity
  BY WorldFacts
<1>2. n \in Nat /\ d \in DOMAIN deposits /\ n < deposits[d]
  BY StorageAssumption DEF Amount, OthersMine
<1>3. PICK c \in Nat : c = deposits[d]
  BY <1>1, <1>2 DEF PartialOn
<1>4. PICK m \in Nat : m = c - n
  BY <1>2, <1>3
<1>5. PICK left : left = LeftAfter(deposits, d, m)
  OBVIOUS
<1>6. m <= deposits[d] /\ deposits[d] - m = n
  BY <1>2, <1>3, <1>4
<1>7. /\ left \in PartialOn(Deposits, Nat \ {0})
      /\ \A r \in Resource :
           /\ InGroundOf(deposits, r) \in Int /\ InGroundOf(left, r) \in Int
           /\ InGroundOf(left, r) = InGroundOf(deposits, r) - (IF r = KindOf[d] THEN m ELSE 0)
  BY <1>1, <1>2, <1>5, <1>6, MinedFrom
<1>8. left = IF n = 0 THEN Restrict(deposits, DOMAIN deposits \ {d})
                      ELSE [deposits EXCEPT ![d] = n]
  BY <1>5, <1>6 DEF LeftAfter
<1>9. PICK gone : gone = Only(KindOf[d], m)
  OBVIOUS
<1>10. KindOf[d] \in Resource /\ m \in Int
  BY <1>4, HarvesterAssumption
<1>11. gone \in Table /\ \A q \in Resource : gone[q] = IF q = KindOf[d] THEN m ELSE 0
  BY <1>9, <1>10, OnlyIs
<1>12. Meanwhile(game, left, gone) /\ UNCHANGED <<zombies, kept>>
  BY <1>3, <1>4, <1>8, <1>9 DEF OthersMine
<1>13. ASSUME NEW q \in Resource
       PROVE  InGroundOf(left, q) + InSites(game, q) + gone[q]
                = InGroundOf(deposits, q) + InSites(game, q)
  <2>1. InSites(game, q) \in Int
    BY GoodsNow
  <2>. QED BY <1>7, <1>11, <2>1
<1>. QED BY <1>1, <1>7, <1>11, <1>12, <1>13, MeanwhileStep

LEMMA HandOverStep ==
  ASSUME HIInv, NEW e \in Entity, NEW f \in Faction, HandOver(e, f)
  PROVE  HIInv'
<1>1. /\ Sound(game, spent) /\ spent \in Spents
      /\ deposits \in PartialOn(Deposits, Nat \ {0})
      /\ DOMAIN zombies \subseteq Entity \ Active(game)
      /\ (~Zombies => harvester.building \notin DOMAIN zombies) /\ kept \subseteq Entity
  BY WorldFacts
<1>2. e \in Active(game)
  BY DEF HandOver
<1>3. PICK h : h = SetFactionID(game, e, f)
  OBVIOUS
<1>4. Sound(h, spent)
  BY <1>1, <1>2, <1>3, HandSound
<1>5. h.site = game.site /\ DOMAIN h.faction = DOMAIN game.faction
  <2>1. /\ Shape(game) /\ Placed(game, e) /\ (e \in DOMAIN game.build => BuildOK(game, e))
    BY <1>1, EntityFacts
  <2>2. BlocksThere(game, e)
    BY <2>1 DEF BlocksThere, BuildOK
  <2>3. Hands(game, h, e, f)
    BY <1>2, <1>3, <2>1, <2>2, SetFactionIDDoes DEF Active
  <2>. QED BY <2>3 DEF Hands
<1>6. Active(h) = Active(game)
  BY <1>5 DEF Active
<1>7. Zero \in Table /\ \A q \in Resource : Zero[q] = 0
  BY DEF Zero, Table
<1>8. Meanwhile(h, deposits, Zero) /\ UNCHANGED <<zombies, kept>>
  BY <1>3 DEF HandOver
<1>9. ASSUME NEW q \in Resource
      PROVE  InGroundOf(deposits, q) + InSites(h, q) + Zero[q]
               = InGroundOf(deposits, q) + InSites(game, q)
  <2>1. InGroundOf(deposits, q) \in Int /\ InSites(game, q) \in Int
    BY GoodsNow
  <2>2. InSites(h, q) = InSites(game, q)
    BY <1>5 DEF InSites
  <2>. QED BY <1>7, <2>1, <2>2
<1>. QED BY <1>1, <1>4, <1>6, <1>7, <1>8, <1>9, MeanwhileStep

LEMMA DoNotTakeStep ==
  ASSUME HIInv, NEW e \in Entity, SetDoNotTake(e)
  PROVE  HIInv'
<1>1. /\ Sound(game, spent) /\ spent \in Spents
      /\ deposits \in PartialOn(Deposits, Nat \ {0})
      /\ DOMAIN zombies \subseteq Entity \ Active(game)
      /\ (~Zombies => harvester.building \notin DOMAIN zombies) /\ kept \subseteq Entity
  BY WorldFacts
<1>2. Zero \in Table /\ \A q \in Resource : Zero[q] = 0
  BY DEF Zero, Table
<1>3. Meanwhile(game, deposits, Zero) /\ zombies' = zombies /\ kept' \subseteq Entity
  BY <1>1 DEF SetDoNotTake
<1>4. ASSUME NEW q \in Resource
      PROVE  InGroundOf(deposits, q) + InSites(game, q) + Zero[q]
               = InGroundOf(deposits, q) + InSites(game, q)
  <2>1. InGroundOf(deposits, q) \in Int /\ InSites(game, q) \in Int
    BY GoodsNow
  <2>. QED BY <1>2, <2>1
<1>. QED BY <1>1, <1>2, <1>3, <1>4, MeanwhileStep

\* What it holds is gone with an entity; a script may keep it as a zombie.
LEMMA RazeStep ==
  ASSUME HIInv, NEW e \in Entity, NEW zombie \in BOOLEAN, Raze(e, zombie)
  PROVE  HIInv'
<1>1. /\ Sound(game, spent) /\ Shape(game) /\ spent \in Spents
      /\ deposits \in PartialOn(Deposits, Nat \ {0})
      /\ DOMAIN zombies \subseteq Entity \ Active(game)
      /\ (~Zombies => harvester.building \notin DOMAIN zombies) /\ kept \subseteq Entity
  BY WorldFacts
<1>2. PICK h : h = RemoveEntity(game, e)
  OBVIOUS
<1>3. Sound(h, spent)
  BY <1>1, <1>2, DestroySound
<1>4. Works(game, h, e) /\ Absent(h, e)
  <2>1. Placed(game, e) /\ (e \in DOMAIN game.build => BuildOK(game, e))
    BY <1>1, EntityFacts
  <2>. QED BY <1>1, <1>2, <2>1, RemoveEntityDoes
<1>5. Active(h) \subseteq Active(game) /\ e \notin Active(h)
  <2>1. DOMAIN h.faction \subseteq Entity
    BY <1>4 DEF Works, Shape
  <2>2. \A x \in Entity \ {e} : x \in DOMAIN game.faction <=> x \in DOMAIN h.faction
    BY <1>4 DEF Works, Apart
  <2>3. e \notin DOMAIN h.faction
    BY <1>4 DEF Absent
  <2>. QED BY <2>1, <2>2, <2>3 DEF Active
<1>6. PICK gone : gone = IF e \in DOMAIN game.site THEN game.site[e].curr ELSE Zero
  OBVIOUS
<1>7. gone \in Table /\ \A r \in Resource : gone[r] = Holds(game, e, r)
  <2>1. Zero \in Table /\ \A r \in Resource : Zero[r] = 0
    BY DEF Zero, Table
  <2>2. e \in DOMAIN game.site => game.site[e].curr \in Table
    BY <1>1, SiteTables DEF Shape
  <2>. QED BY <1>6, <2>1, <2>2 DEF Holds
<1>8. Meanwhile(h, deposits, gone)
  BY <1>2, <1>6 DEF Raze
<1>9. ASSUME NEW r \in Resource
      PROVE  InGroundOf(deposits, r) + InSites(h, r) + gone[r]
               = InGroundOf(deposits, r) + InSites(game, r)
  <2>1. InGroundOf(deposits, r) \in Int
    BY GoodsNow
  <2>2. Holds(h, e, r) = 0
    BY <1>4 DEF Absent, Holds
  <2>3. /\ InSites(game, r) \in Int /\ InSites(h, r) \in Int
        /\ Holds(game, e, r) \in Int
        /\ InSites(h, r) - Holds(h, e, r) = InSites(game, r) - Holds(game, e, r)
    BY <1>1, <1>4, SitesApart DEF Works
  <2>. QED BY <1>7, <2>1, <2>2, <2>3
<1>10. DOMAIN zombies' \subseteq DOMAIN zombies \union {e}
  BY DEF Raze, With
<1>11. DOMAIN zombies' \subseteq Entity \ Active(h)
  BY <1>1, <1>5, <1>10
<1>12. ~Zombies => harvester.building \notin DOMAIN zombies'
  <2>1. CASE zombie
    BY <1>1, <1>10, <2>1 DEF Raze
  <2>2. CASE ~zombie
    <3>1. zombies' = zombies
      BY <2>2 DEF Raze
    <3>. QED BY <1>1, <3>1
  <2>. QED BY <2>1, <2>2
<1>13. kept' \subseteq Entity
  BY <1>1 DEF Raze
<1>. QED BY <1>1, <1>3, <1>7, <1>8, <1>9, <1>11, <1>12, <1>13, MeanwhileStep

LEMMA ForgetStep ==
  ASSUME HIInv, NEW e, Forget(e)
  PROVE  HIInv'
<1>1. DOMAIN zombies' \subseteq DOMAIN zombies
  BY DEF Forget, Restrict
<1>2. /\ game' = game /\ spent' = spent /\ harvester' = harvester /\ deposits' = deposits
      /\ kept' = kept /\ events' = events /\ outside' = outside /\ failed' = failed
  BY DEF Forget, vars
<1>3. /\ Sane(World, outside) /\ Fit(harvester)
      /\ DOMAIN zombies \subseteq Entity \ Active(game)
      /\ (~Zombies => harvester.building \notin DOMAIN zombies)
      /\ kept \subseteq Entity /\ events \in 0..MaxEvents /\ outside \in Table
  BY WorldFacts DEF HIInv, Good, Ok
<1>4. PICK t : t = World
  OBVIOUS
<1>5. /\ Sane(t, outside') /\ Fit(t.h) /\ t.h = harvester /\ t.g = game /\ t.left = deposits
      /\ t.used = spent /\ t.bad = failed
  BY <1>2, <1>3, <1>4, WorldIs
<1>. QED BY <1>1, <1>2, <1>3, <1>5, WorldStep

\* The goods for a building may be what is spent.
LEMMA OnSuppliedStep ==
  ASSUME HIInv, NEW e \in Entity, OnSupplied(e)
  PROVE  HIInv'
<1>1. /\ Sound(game, spent) /\ Shape(game) /\ spent \in Spents
      /\ deposits \in PartialOn(Deposits, Nat \ {0})
      /\ DOMAIN zombies \subseteq Entity \ Active(game)
      /\ (~Zombies => harvester.building \notin DOMAIN zombies) /\ kept \subseteq Entity
      /\ events \in 0..MaxEvents /\ outside \in Table
  BY WorldFacts
<1>2. game.changed[e] > 0
  BY DEF OnSupplied, OnAmountChanged
<1>3. PICK n \in Nat : n = game.changed[e] - 1
  <2>1. game.changed[e] \in Nat
    BY <1>1 DEF Shape
  <2>. QED BY <1>2, <2>1
<1>4. PICK m : m = [game EXCEPT !.changed = [game.changed EXCEPT ![e] = n]]
  OBVIOUS
<1>5. m = [game EXCEPT !.changed[e] = @ - 1]
  BY <1>3, <1>4
<1>6. PICK h : h = IF e \in m.listening /\ IsSaturated(m, e) THEN Supply(m, e) ELSE m
  OBVIOUS
<1>7. PICK used : used = SpentBy(game, h)
  OBVIOUS
<1>8. Sound(h, used) /\ used \in Spents
  BY <1>1, <1>2, <1>5, <1>6, <1>7, DeliveredSound
<1>9. /\ game' = h /\ spent' = used /\ harvester' = harvester /\ deposits' = deposits
      /\ failed' = failed /\ zombies' = zombies /\ kept' = kept /\ events' = events
      /\ outside' = outside
  BY <1>5, <1>6, <1>7 DEF OnSupplied, OnAmountChanged, Supplies, hvars
<1>10. /\ IsGame(m) /\ m.site = game.site /\ m.build = game.build /\ m.faction = game.faction
       /\ m.listening = game.listening
  BY <1>1, <1>4 DEF Shape, IsGame, Fields
<1>11. /\ h.faction = game.faction
       /\ \A r \in Resource :
            InSites(h, r) + SpentInAll(used, r) = InSites(game, r) + SpentInAll(spent, r)
  <2>1. CASE e \in m.listening /\ IsSaturated(m, e)
    <3>1. e \in DOMAIN game.build /\ game.build[e].state = Founded
      <4>1. Placed(game, e) /\ (e \in DOMAIN game.build => BuildOK(game, e))
        BY <1>1, EntityFacts
      <4>. QED BY <1>10, <2>1, <4>1 DEF Placed, BuildOK
    <3>2. h = Supply(m, e)
      BY <1>6, <2>1
    <3>. QED BY <1>1, <1>4, <1>7, <3>1, <3>2, SupplyGoods
  <2>2. CASE ~(e \in m.listening /\ IsSaturated(m, e))
    <3>1. h = m
      BY <1>6, <2>2
    <3>2. Used(game, h) = {}
      BY <1>10, <3>1 DEF Used, Founded, Supplied
    <3>3. used = spent
      BY <1>1, <1>7, <3>2, NothingSpent
    <3>4. \A r \in Resource : InSites(h, r) = InSites(game, r)
      BY <1>10, <3>1 DEF InSites
    <3>. QED BY <1>10, <3>1, <3>3, <3>4
  <2>. QED BY <2>1, <2>2
<1>12. Active(h) = Active(game)
  BY <1>11, ActiveSame
<1>13. ASSUME NEW r \in Resource
       PROVE  InGroundOf(deposits, r) + InSites(h, r) + SpentInAll(used, r) + outside'[r]
                = InGroundOf(deposits, r) + InSites(game, r) + SpentInAll(spent, r) + outside[r]
  <2>1. PICK a, b, c, d, o : a = InGroundOf(deposits, r) /\ b = InSites(game, r)
          /\ c = InSites(h, r) /\ d = SpentInAll(spent, r) /\ o = outside[r]
    OBVIOUS
  <2>2. PICK l : l = SpentInAll(used, r)
    OBVIOUS
  <2>3. a \in Int /\ b \in Int /\ d \in Int /\ o \in Int
    BY <2>1, GoodsNow
  <2>4. PICK w : w = [h |-> harvester, g |-> h, left |-> deposits, used |-> used, bad |-> failed]
    OBVIOUS
  <2>5. w \in Worlds
    BY <1>1, <1>8, <2>4, WorldFacts, SoundShape, GamesHaveShape DEF Worlds
  <2>6. c \in Int /\ l \in Int
    BY <2>1, <2>2, <2>4, <2>5, GoodsAreInt
  <2>7. c + l = b + d
    BY <1>11, <2>1, <2>2
  <2>8. a + c + l + o = a + b + d + o
    BY <2>3, <2>6, <2>7
  <2>. QED BY <1>9, <2>1, <2>2, <2>8
<1>. QED BY <1>1, <1>8, <1>9, <1>12, <1>13, OthersStep

\* Each step.
LEMMA HNextKeeps ==
  ASSUME StaleSaves = FALSE, HIInv, HNext
  PROVE  HIInv'
<1>1. CASE \E d \in Deposits : ScriptGather(d) \/ PlayerGather(d)
  BY <1>1, GatherOrders
<1>2. CASE \E e \in Entity :
             OrderDropOff(e) \/ ScriptTransport(e) \/ PlayerTransport(e) \/ PlayerPickUp(e)
  BY <1>2, DropOffOrder, TransportOrders, PickUpOrder
<1>3. CASE \E near \in Reach : Deliver(near) \/ \E e \in Entity : PlayerBuild(e, near)
  BY <1>3, DeliverIsGood, BuildOrder
<1>4. CASE \E stopMove \in BOOLEAN : Stop(stopMove)
  BY <1>4, StopOrder
<1>5. CASE Walk \/ Arrive \/ Wait \/ Halt
  BY <1>5, MotionSteps
<1>6. CASE AnimCycle
  BY <1>6, AnimStep
<1>7. CASE Reload
  BY <1>7, ReloadStep
<1>8. CASE Interference
  <2>1. ASSUME NEW e \in Entity, NEW r \in Resource, NEW n \in Amount, OthersStore(e, r, n)
        PROVE  HIInv'
    BY <2>1, OthersStoreStep
  <2>2. ASSUME NEW e \in Entity, NEW zombie \in BOOLEAN, Raze(e, zombie)
        PROVE  HIInv'
    BY <2>2, RazeStep
  <2>3. ASSUME NEW e \in Entity, Forget(e) \/ SetDoNotTake(e) \/ OnSupplied(e)
        PROVE  HIInv'
    BY <2>3, ForgetStep, DoNotTakeStep, OnSuppliedStep
  <2>4. ASSUME NEW e \in Entity, NEW f \in Faction, HandOver(e, f)
        PROVE  HIInv'
    BY <2>4, HandOverStep
  <2>5. ASSUME NEW d \in Deposits, NEW n \in Amount, OthersMine(d, n)
        PROVE  HIInv'
    BY <2>5, OthersMineStep
  <2>6. ASSUME NEW x \in Strategies, SetStrategy(x)
        PROVE  HIInv'
    BY <2>6, StrategyStep
  <2>7. CASE ClearCarry
    BY <2>7, ClearCarryStep
  <2>. QED BY <1>8, <2>1, <2>2, <2>3, <2>4, <2>5, <2>6, <2>7 DEF Interference
<1>. QED BY <1>1, <1>2, <1>3, <1>4, <1>5, <1>6, <1>7, <1>8 DEF HNext

LEMMA HStutterKeeps ==
  ASSUME HIInv, UNCHANGED allVars
  PROVE  HIInv'
<1>1. /\ game' = game /\ spent' = spent /\ harvester' = harvester /\ deposits' = deposits
      /\ zombies' = zombies /\ kept' = kept /\ events' = events /\ outside' = outside
      /\ failed' = failed
  BY DEF allVars, vars, hvars
<1>2. /\ Sane(World, outside) /\ Fit(harvester)
      /\ DOMAIN zombies \subseteq Entity \ Active(game)
      /\ (~Zombies => harvester.building \notin DOMAIN zombies)
      /\ kept \subseteq Entity /\ events \in 0..MaxEvents /\ outside \in Table
  BY WorldFacts DEF HIInv, Good, Ok
<1>3. PICK t : t = World
  OBVIOUS
<1>4. /\ Sane(t, outside') /\ Fit(t.h) /\ t.h = harvester /\ t.g = game /\ t.left = deposits
      /\ t.used = spent /\ t.bad = failed
  BY <1>1, <1>2, <1>3, WorldIs
<1>. QED BY <1>1, <1>2, <1>4, WorldStep
-----------------------------------------------------------------------------
(* The beginning *)

\* A sum is that of what is not nothing.
LEMMA SumOfPart ==
  ASSUME NEW U, IsFiniteSet(U), NEW f \in [U -> Int], NEW S \in SUBSET U,
         \A x \in U \ S : f[x] = 0
  PROVE  SumFunction(f) = SumFunction([x \in S |-> f[x]])
<1> DEFINE R == U \ S
           part(T) == SumFunction([x \in S \union T |-> f[x]])
           G == {T \in SUBSET R : part(T) = part({})}
<1>1. IsFiniteSet(R)
  BY FS_Subset
<1>2. ASSUME NEW T \in SUBSET R, \A x \in T : T \ {x} \in G
      PROVE  T \in G
  <2>1. CASE T = {}
    BY <2>1
  <2>2. ASSUME NEW x \in T PROVE T \in G
    <3>1. PICK k : k = [y \in S \union T |-> f[y]]
      OBVIOUS
    <3>2. k \in [S \union T -> Int] /\ x \in S \union T /\ k[x] = 0
      BY <1>2, <2>2, <3>1
    <3>3. IsFiniteSet(S \union T)
      BY FS_Subset
    <3>4. /\ SumFunction([y \in (S \union T) \ {x} |-> k[y]]) \in Int
          /\ SumFunction(k) = k[x] + SumFunction([y \in (S \union T) \ {x} |-> k[y]])
      BY <3>2, <3>3, SumTakeOut
    <3>5. [y \in (S \union T) \ {x} |-> k[y]] = [y \in S \union (T \ {x}) |-> f[y]]
      <4>1. (S \union T) \ {x} = S \union (T \ {x})
        BY <2>2
      <4>. QED BY <3>1, <4>1
    <3>6. SumFunction(k) = part(T \ {x})
      BY <3>2, <3>4, <3>5
    <3>7. part(T \ {x}) = part({})
      BY <1>2, <2>2
    <3>. QED BY <3>1, <3>6, <3>7
  <2>. QED BY <2>1, <2>2
<1>3. \A T \in SUBSET R : T \in G
  <2> HIDE DEF G
  <2>. QED BY <1>1, <1>2, SetInduction
<1>4. part(R) = part({})
  BY <1>3
<1>5. S \union R = U /\ S \union {} = S
  OBVIOUS
<1>6. [x \in U |-> f[x]] = f
  OBVIOUS
<1>7. part(R) = SumFunction(f) /\ part({}) = SumFunction([x \in S |-> f[x]])
  BY <1>5, <1>6
<1>. QED BY <1>4, <1>7

LEMMA SumOfNothing ==
  ASSUME NEW U, IsFiniteSet(U), NEW f \in [U -> Int], \A x \in U : f[x] = 0
  PROVE  SumFunction(f) = 0
<1>1. SumFunction(f) = SumFunction([x \in {} |-> f[x]])
  <2>1. PICK S \in SUBSET U : S = {}
    OBVIOUS
  <2>2. \A x \in U \ S : f[x] = 0
    OBVIOUS
  <2>3. SumFunction(f) = SumFunction([x \in S |-> f[x]])
    BY <2>2, SumOfPart
  <2>. QED BY <2>1, <2>3
<1>2. PICK k : k = [x \in {} |-> f[x]]
  OBVIOUS
<1>3. k \in [{} -> Int] /\ IsFiniteSet({})
  BY <1>2, FS_EmptySet
<1>4. SumFunction(k) = 0
  BY <1>3, SumTakeOut
<1>. QED BY <1>1, <1>2, <1>4

\* A script tells a building what it needs before the building is marked.
LEMMA RequiredPut ==
  ASSUME NEW g, NEW s \in Spents, Sound(g, s), NEW e \in Entity, e \in DOMAIN g.build,
         g.build[e].state = Placement, NEW c \in BuildRecord,
         c.state = Placement, c.isSite = g.build[e].isSite,
         c.blocking = g.build[e].blocking, c.place = g.build[e].place,
         NEW h, PutWork(g, h, e, c), h.blockers = g.blockers, h.listening = g.listening
  PROVE  /\ Sound(h, s) /\ Works(g, h, e) /\ h.site = g.site
         /\ DOMAIN h.build = DOMAIN g.build /\ h.build[e].state = Placement
<1>1. /\ Shape(g) /\ Placed(g, e) /\ EntityOK(g, e) /\ BuildOK(g, e)
      /\ g.build[e] \in BuildRecord
  BY EntityFacts
<1>2. PICK b : b = g.build[e]
  OBVIOUS
<1>4. /\ c.state = b.state /\ c.isSite = b.isSite
      /\ c.blocking = b.blocking /\ c.place = b.place
  BY <1>2
<1>7. h.listening \subseteq Entity /\ h.listening \ {e} = g.listening \ {e}
  BY <1>1 DEF Shape
<1>8. /\ Works(g, h, e) /\ ResKept(g, h, e) /\ CapKept(g, h, e)
      /\ DOMAIN h.build = DOMAIN g.build /\ h.build[e] = c
  <2>1. Stands(c) <=> Stands(g.build[e])
    BY DEF Stands
  <2>. QED BY <1>1, <1>7, <2>1, WorkPut
<1>9. /\ h.site = g.site /\ h.faction = g.faction /\ h.pos = g.pos /\ h.changed = g.changed
  BY DEF PutWork
<1>10. Placed(h, e)
  BY <1>1, <1>8, <1>9 DEF Placed
<1>11. /\ UnderWork(h, e) <=> UnderWork(g, e)
       /\ ~IsFounded(h, e) /\ ~IsFounded(g, e) /\ Active(h) = Active(g)
  BY <1>2, <1>4, <1>8, <1>9 DEF UnderWork, IsFounded, Active, Placement, Founded
<1>12. BuildOK(h, e)
  BY <1>1, <1>2, <1>4, <1>8, <1>9 DEF BuildOK
<1>13. SiteOK(h, e) <=> SiteOK(g, e)
  BY <1>9, <1>11 DEF SiteOK, Asked
<1>14. EntityOK(h, e)
  BY <1>1, <1>9, <1>11, <1>12, <1>13 DEF EntityOK
<1>15. Sound(h, s)
  BY <1>8, <1>10, <1>14, WorkStep
<1>. QED BY <1>2, <1>4, <1>8, <1>9, <1>15

LEMMA RequiredSound ==
  ASSUME NEW g, NEW s \in Spents, Sound(g, s), NEW e \in Entity, e \in DOMAIN g.build,
         g.build[e].state = Placement, NEW needs \in [Resource -> Nat],
         NEW h, h = [g EXCEPT !.build[e].required = needs]
  PROVE  /\ Sound(h, s) /\ Works(g, h, e) /\ h.site = g.site
         /\ DOMAIN h.build = DOMAIN g.build /\ h.build[e].state = Placement
<1>1. Shape(g) /\ g.build[e] \in BuildRecord
  BY EntityFacts
<1>2. PICK b : b = g.build[e]
  OBVIOUS
<1>3. PICK c : c = [b EXCEPT !.required = needs]
  OBVIOUS
<1>4. /\ c \in BuildRecord /\ c.state = b.state /\ c.isSite = b.isSite
      /\ c.blocking = b.blocking /\ c.place = b.place
  BY <1>1, <1>2, <1>3 DEF BuildRecord
<1>5. PICK k : k = [g EXCEPT !.build = [g.build EXCEPT ![e] = c]]
  OBVIOUS
<1>6. PutWork(g, k, e, c) /\ k.blockers = g.blockers /\ k.listening = g.listening
  BY <1>1, <1>5 DEF PutWork, Shape, IsGame, Fields
<1>7. h = k
  BY <1>2, <1>3, <1>5
<1>8. /\ c.state = Placement /\ c.isSite = g.build[e].isSite
      /\ c.blocking = g.build[e].blocking /\ c.place = g.build[e].place
  BY <1>2, <1>4
<1>9. /\ Sound(k, s) /\ Works(g, k, e) /\ k.site = g.site
      /\ DOMAIN k.build = DOMAIN g.build /\ k.build[e].state = Placement
  BY <1>4, <1>6, <1>8, RequiredPut
<1>. QED BY <1>7, <1>9

\* An entity is there, and nothing has been done with it.
Laid(g, e) ==
  /\ e \in DOMAIN g.site /\ g.site[e] = NewSiteOf(e)
  /\ e \in Buildings => e \in DOMAIN g.build /\ g.build[e].state = Placement

Added(g, e) ==
  LET place == CHOOSE p \in Place : TRUE
  IN  SetFactionID(AddEntity(g, e, place, e \in Sites), e, Us)

LEMMA AddedDoes ==
  ASSUME NEW g, NEW s \in Spents, Sound(g, s), NEW e \in Entity, e \notin Active(g),
         NEW h, h = Added(g, e)
  PROVE  Sound(h, s) /\ Works(g, h, e) /\ Laid(h, e)
<1>1. PICK p \in Place : p = CHOOSE x \in Place : TRUE
  BY HarvesterAssumption
<1>2. PICK i \in BOOLEAN : i = (e \in Sites)
  <2>1. (e \in Sites) \in BOOLEAN
    OBVIOUS
  <2>. QED BY <2>1
<1>3. PICK a : a = AddEntity(g, e, p, i)
  OBVIOUS
<1>4. Shape(g) /\ Absent(g, e) /\ Us \in Faction
  BY EntityFacts, HarvesterAssumption
<1>5. Works(g, a, e) /\ Entered(a, e, p, Neutral, i)
  BY <1>3, <1>4, AddEntityDoes
<1>6. Shape(a)
  BY <1>5 DEF Works
<1>7. Sound(a, s)
  <2>1. Zero \in [Resource -> Nat]
    BY Tables
  <2>2. Sound(IF e \in Buildings THEN [a EXCEPT !.build[e].required = Zero] ELSE a, s)
    BY <1>2, <1>3, <2>1, CreateSound
  <2>3. CASE e \notin Buildings
    BY <2>2, <2>3
  <2>4. CASE e \in Buildings
    <3>1. PICK b : b = a.build[e]
      OBVIOUS
    <3>2. e \in DOMAIN a.build /\ b = Fresh(p, i)
      BY <1>5, <2>4, <3>1 DEF Entered
    <3>3. [b EXCEPT !.required = Zero] = b
      <4>1. b \in BuildRecord /\ b.required = Zero
        <5>1. \A x \in DOMAIN a.build : a.build[x] \in BuildRecord
          BY <1>6 DEF Shape
        <5>. HIDE DEF Fresh
        <5>3. b \in BuildRecord
          BY <3>1, <3>2, <5>1
        <5>2. b.required = Zero
          BY <3>2 DEF Fresh
        <5>. QED BY <5>2, <5>3
      <4>2. PICK z : z = Zero
        OBVIOUS
      <4>3. b \in BuildRecord /\ b.required = z
        BY <4>1, <4>2
      <4>4. [b EXCEPT !.required = z] = b
        BY <4>3 DEF BuildRecord
      <4>. QED BY <4>2, <4>4
    <3>4. PICK c : c = [b EXCEPT !.required = Zero]
      OBVIOUS
    <3>5. [a EXCEPT !.build[e].required = Zero] = [a EXCEPT !.build = [a.build EXCEPT ![e] = c]]
      BY <3>1, <3>4
    <3>6. [a.build EXCEPT ![e] = c] = a.build
      BY <1>6, <3>1, <3>2, <3>3, <3>4 DEF Shape
    <3>7. [a EXCEPT !.build = a.build] = a
      BY <1>6 DEF Shape, IsGame, Fields
    <3>. QED BY <2>2, <2>4, <3>5, <3>6, <3>7
  <2>. QED BY <2>3, <2>4
<1>8. PICK k : k = SetFactionID(a, e, Us)
  OBVIOUS
<1>9. h = k
  BY <1>1, <1>2, <1>3, <1>8 DEF Added
<1>10. e \in Active(a) /\ Placed(a, e)
  BY <1>5, <1>7, EntityFacts DEF Entered, Active
<1>11. Sound(k, s)
  BY <1>4, <1>7, <1>8, <1>10, HandSound
<1>12. BlocksThere(a, e)
  <2>1. e \in DOMAIN a.build => ~a.build[e].blocking
    BY <1>5 DEF Entered, Fresh
  <2>. QED BY <2>1 DEF BlocksThere
<1>13. Hands(a, k, e, Us)
  BY <1>4, <1>6, <1>8, <1>10, <1>12, SetFactionIDDoes DEF Active
<1>14. Works(g, k, e)
  BY <1>5, <1>13, WorksAfter DEF Hands
<1>15. Laid(k, e)
  <2>1. e \in DOMAIN a.site /\ a.site[e] = NewSiteOf(e)
    BY <1>2, <1>5 DEF Entered, Entity
  <2>2. e \in Buildings => e \in DOMAIN a.build /\ a.build[e].state = Placement
    BY <1>5 DEF Entered, Fresh
  <2>. QED BY <1>13, <2>1, <2>2 DEF Laid, Hands
<1>. QED BY <1>9, <1>11, <1>14, <1>15

LEMMA LaidApart ==
  ASSUME NEW g, NEW h, NEW e, Works(g, h, e), NEW x \in Entity \ {e}
  PROVE  /\ Laid(g, x) => Laid(h, x)
         /\ x \in Active(h) <=> x \in Active(g)
BY DEF Works, Apart, Laid, Active

\* The entities have been added as far as T.
Peopled(h, T) ==
  /\ Sound(h, NothingSpentYet)
  /\ \A x \in T : Laid(h, x)
  /\ \A x \in Entity \ T : x \notin Active(h)

People(g) == EachEntity(LAMBDA h, e : Added(h, e), g, Entity)

LEMMA SpentNothingYet ==
  NothingSpentYet \in Spents /\ IsFiniteSet(Entity)
<1>1. Zero \in [Resource -> Nat]
  BY Tables
<1>2. IsFiniteSet(Entity)
  BY StorageAssumption, FS_Union DEF Entity
<1>. QED BY <1>1, <1>2 DEF NothingSpentYet, Spents

LEMMA PeopleLaid ==
  ASSUME NEW g, Peopled(g, {})
  PROVE  Peopled(People(g), Entity)
<1> DEFINE S == Entity
           Step(e, h) == Added(h, e)
           Rec(f) == f = [T \in SUBSET S |->
                            IF T = {} THEN g
                            ELSE LET x == CHOOSE x \in T : TRUE IN Step(x, f[T \ {x}])]
           it == CHOOSE f : Rec(f)
           V == Games
           st == [p \in S \X V |-> Step(p[1], p[2])]
           good == [T \in SUBSET S |-> {h \in Games : Peopled(h, T)}]
<1>1. People(g) = it[S]
  BY DEF People, EachEntity, FoldSet, MapThenFoldSet
<1>2. DOMAIN st = S \X V /\ \A e \in S, h \in V : st[<<e, h>>] = Step(e, h)
  OBVIOUS
<1>3. \A T \in SUBSET S : \A h : h \in good[T] <=> h \in Games /\ Peopled(h, T)
  OBVIOUS
<1> HIDE DEF st, V, good
<1>4. IsFiniteSet(S)
  BY SpentNothingYet
<1>5. ASSUME NEW T \in SUBSET S, NEW e \in T, NEW h \in Games, Peopled(h, T \ {e})
      PROVE  Step(e, h) \in Games /\ Peopled(Step(e, h), T)
  <2>1. PICK k : k = Added(h, e)
    OBVIOUS
  <2>2. Sound(h, NothingSpentYet) /\ e \in Entity /\ e \notin Active(h)
    BY <1>5 DEF Peopled
  <2>3. Sound(k, NothingSpentYet) /\ Works(h, k, e) /\ Laid(k, e)
    BY <2>1, <2>2, SpentNothingYet, AddedDoes
  <2>4. \A x \in T : Laid(k, x)
    <3> SUFFICES ASSUME NEW x \in T \ {e} PROVE Laid(k, x)
      BY <2>3
    <3>1. x \in Entity \ {e} /\ Laid(h, x)
      BY <1>5 DEF Peopled
    <3>. QED BY <2>3, <3>1, LaidApart
  <2>5. \A x \in Entity \ T : x \notin Active(k)
    <3> SUFFICES ASSUME NEW x \in Entity \ T PROVE x \notin Active(k)
      OBVIOUS
    <3>1. x \in Entity \ {e} /\ x \notin Active(h)
      BY <1>5 DEF Peopled
    <3>. QED BY <2>3, <3>1, LaidApart
  <2>6. k \in Games
    BY <2>3, GamesHaveShape DEF Works
  <2>. QED BY <2>1, <2>3, <2>4, <2>5, <2>6 DEF Peopled
<1>6. Shape(g) /\ Peopled(g, {})
  BY SoundShape DEF Peopled
<1> HIDE DEF Step, S
<1>7. ASSUME NEW f, Follows(f, S, V, Firsts(S), g, st)
      PROVE  Runs(it, S, V, g, st)
  <2> DEFINE ch == Firsts(S)
  <2>1. \A T \in SUBSET S : T # {} => ch[T] \in T /\ ch[T] = CHOOSE x \in T : TRUE
    BY FirstsAre
  <2>2. \A T \in SUBSET S : T # {} => f[T] = Step(ch[T], f[T \ {ch[T]}])
    BY <1>2, <1>7 DEF Follows
  <2>3. /\ f = [T \in SUBSET S |-> f[T]]
        /\ \A T \in SUBSET S :
             f[T] = IF T = {} THEN g
                    ELSE LET x == CHOOSE x \in T : TRUE IN Step(x, f[T \ {x}])
    BY <1>7, <2>1, <2>2 DEF Follows
  <2>4. Rec(f)
    BY <2>3
  <2>5. Rec(it)
    <3> HIDE DEF Rec
    <3>. QED BY <2>4
  <2> HIDE DEF it
  <2>. QED BY <1>2, <2>1, <2>5 DEF Runs
<1> HIDE DEF it
<1>8. \A f : Follows(f, S, Games, Firsts(S), g, st) => Runs(it, S, Games, g, st)
  BY <1>7 DEF V
<1>9. ASSUME NEW T \in SUBSET S, NEW e \in T, NEW h \in good[T \ {e}]
      PROVE  st[<<e, h>>] \in good[T]
  <2>1. h \in Games /\ Peopled(h, T \ {e})
    BY <1>3
  <2>2. st[<<e, h>>] = Step(e, h)
    BY <1>2, <2>1 DEF V
  <2>3. Step(e, h) \in Games /\ Peopled(Step(e, h), T)
    BY <1>5, <2>1
  <2>. QED BY <1>3, <2>2, <2>3
<1>10. Leads(S, Games, good, g, st)
  <2>1. \A T \in SUBSET S : good[T] \subseteq Games
    BY <1>3
  <2>2. g \in good[{}]
    BY <1>3, <1>6, GamesHaveShape
  <2>3. DOMAIN st = S \X Games
    BY <1>2 DEF V
  <2>. QED BY <1>4, <1>9, <2>1, <2>2, <2>3 DEF Leads
<1>11. it[S] \in good[S]
  BY <1>8, <1>10, FoldReaches
<1>12. Peopled(it[S], S)
  BY <1>3, <1>11
<1>. QED BY <1>1, <1>12 DEF S


\* Room is made for a resource in a site, and what is stored there put into it.
Lay(h, e, r) ==
  SetDesired(SetCurr(SetCapacity(h, e, r, Room[e][r]), e, r, Stock[e][r]), e, r, Wish[e][r])

\* The site e of g has been filled as far as T.
Filling(g, h, e, T) ==
  /\ Sound(h, NothingSpentYet) /\ Beside(g, h, e)
  /\ h.site[e].useAlt <=> e \in Buildings
  /\ \A q \in T : h.site[e].curr[q] = Stock[e][q]
  /\ \A q \in Resource \ T : h.site[e].curr[q] = 0 /\ h.site[e].capacity[q] = 0

LEMMA OpeningStock ==
  ASSUME NEW e \in Sites, NEW r \in Resource
  PROVE  /\ Room[e][r] \in Nat /\ Stock[e][r] \in Nat /\ Wish[e][r] \in Nat
         /\ Stock[e][r] <= IF e \in Buildings THEN 0 ELSE Room[e][r]
         /\ e \in Entity
<1>1. {Stock, Room, Wish} \subseteq [Sites -> [Resource -> Nat]]
  BY HarvesterAssumption
<1>2. Stock[e][r] <= IF e \in Buildings THEN 0 ELSE Room[e][r]
  BY HarvesterAssumption
<1>3. /\ Stock \in [Sites -> [Resource -> Nat]] /\ Room \in [Sites -> [Resource -> Nat]]
      /\ Wish \in [Sites -> [Resource -> Nat]]
  BY <1>1
<1>. QED BY <1>2, <1>3 DEF Entity

LEMMA LayFills ==
  ASSUME NEW g, NEW e \in Sites, e \in DOMAIN g.site, NEW T \in SUBSET Resource, NEW r \in T,
         NEW h, Filling(g, h, e, T \ {r}), NEW k, k = Lay(h, e, r)
  PROVE  Filling(g, k, e, T) /\ Shape(k)
<1>1. /\ Sound(h, NothingSpentYet) /\ Beside(g, h, e) /\ e \in DOMAIN h.site
      /\ h.site[e].useAlt <=> e \in Buildings
      /\ \A q \in T \ {r} : h.site[e].curr[q] = Stock[e][q]
      /\ \A q \in Resource \ (T \ {r}) : h.site[e].curr[q] = 0 /\ h.site[e].capacity[q] = 0
  BY DEF Filling, Beside
<1>2. e \in Entity /\ r \in Resource /\ NothingSpentYet \in Spents
  BY OpeningStock, SpentNothingYet
<1>3. PICK room \in Nat : room = Room[e][r]
  BY <1>2, OpeningStock
<1>4. PICK n \in Nat : n = Stock[e][r]
  BY <1>2, OpeningStock
<1>5. PICK wish \in Nat : wish = Wish[e][r]
  BY <1>2, OpeningStock
<1>6. PICK a : a = SetCapacity(h, e, r, room)
  OBVIOUS
<1>7. PICK b : b = SetCurr(a, e, r, n)
  OBVIOUS
<1>8. PICK c : c = SetDesired(b, e, r, wish)
  OBVIOUS
<1>9. k = c
  BY <1>3, <1>4, <1>5, <1>6, <1>7, <1>8 DEF Lay
<1>10. /\ Sound(a, NothingSpentYet) /\ Beside(h, a, e)
       /\ a.site[e].curr = h.site[e].curr /\ a.site[e].useAlt = h.site[e].useAlt
       /\ \A q \in Resource : a.site[e].capacity[q] = IF q = r THEN room ELSE h.site[e].capacity[q]
  <2>1. Owned(h, e) /\ h.site[e].curr[r] = 0 /\ h.site[e].capacity[r] = 0
    BY <1>1, <1>2, EntityFacts
  <2>2. Sound(a, NothingSpentYet)
    BY <1>1, <1>2, <1>6, <2>1, CapacitySound
  <2>3. /\ Beside(h, a, e) /\ SameSite(h.site[e], a.site[e], {"capacity", "desired"})
        /\ \A q \in Resource : a.site[e].capacity[q] = IF q = r THEN room ELSE h.site[e].capacity[q]
    BY <1>2, <1>6, <2>1, SetCapacityDoes
  <2>4. a.site[e].curr = h.site[e].curr /\ a.site[e].useAlt = h.site[e].useAlt
    BY <2>3 DEF SameSite
  <2>. QED BY <2>2, <2>3, <2>4
<1>11. e \in DOMAIN a.site /\ Owned(a, e) /\ a.site[e] \in SiteRecord
  <2>1. e \in DOMAIN a.site
    BY <1>1, <1>10 DEF Beside
  <2>. QED BY <1>2, <1>10, <2>1, EntityFacts
<1>12. CurrAllowed(a, e, r, n)
  <2>1. PICK s \in SiteRecord : s = a.site[e]
    BY <1>11
  <2>2. CASE e \in Buildings
    <3>1. n = 0
      BY <1>2, <1>4, <2>2, OpeningStock
    <3>2. EffectiveCapacity(s)[r] \in Nat
      BY <1>2, SiteTables
    <3>. QED BY <2>1, <3>1, <3>2 DEF CurrAllowed
  <2>3. CASE e \notin Buildings
    <3>1. n <= room
      BY <1>2, <1>3, <1>4, <2>3, OpeningStock
    <3>2. EffectiveCapacity(s)[r] = room
      BY <1>1, <1>2, <1>10, <2>1, <2>3 DEF EffectiveCapacity
    <3>. QED BY <2>1, <3>1, <3>2 DEF CurrAllowed
  <2>. QED BY <2>2, <2>3
<1>13. /\ Sound(b, NothingSpentYet) /\ Beside(a, b, e)
       /\ b.site[e].capacity = a.site[e].capacity /\ b.site[e].useAlt = a.site[e].useAlt
       /\ \A q \in Resource : b.site[e].curr[q] = IF q = r THEN n ELSE a.site[e].curr[q]
  <2>1. Sound(b, NothingSpentYet) /\ Beside(a, b, e)
    BY <1>2, <1>7, <1>10, <1>11, <1>12, StoringIsSound
  <2>2. /\ SameSite(a.site[e], b.site[e], {"curr"})
        /\ \A q \in Resource : b.site[e].curr[q] = IF q = r THEN n ELSE a.site[e].curr[q]
    BY <1>2, <1>7, <1>11, <1>12, SetCurrDoes
  <2>. QED BY <2>1, <2>2 DEF SameSite
<1>14. /\ Sound(c, NothingSpentYet) /\ Beside(b, c, e) /\ Shape(c)
       /\ c.site[e].capacity = b.site[e].capacity /\ c.site[e].useAlt = b.site[e].useAlt
       /\ c.site[e].curr = b.site[e].curr
  <2>1. e \in DOMAIN b.site
    BY <1>11, <1>13 DEF Beside
  <2>2. Owned(b, e)
    BY <1>2, <1>13, <2>1, EntityFacts
  <2>3. Sound(c, NothingSpentYet)
    BY <1>2, <1>8, <1>13, <2>1, DesiredSound
  <2>4. Beside(b, c, e) /\ SameSite(b.site[e], c.site[e], {"desired"})
    BY <1>2, <1>8, <2>2, SetDesiredDoes
  <2>. QED BY <2>3, <2>4 DEF SameSite, Beside
<1>15. Beside(g, c, e)
  BY <1>1, <1>10, <1>13, <1>14 DEF Beside
<1>16. c.site[e].useAlt <=> e \in Buildings
  BY <1>1, <1>10, <1>13, <1>14
<1>17. \A q \in T : c.site[e].curr[q] = Stock[e][q]
  BY <1>1, <1>4, <1>10, <1>13, <1>14
<1>18. \A q \in Resource \ T : c.site[e].curr[q] = 0 /\ c.site[e].capacity[q] = 0
  BY <1>1, <1>10, <1>13, <1>14
<1>. QED BY <1>9, <1>14, <1>15, <1>16, <1>17, <1>18 DEF Filling

Fill(g, e) == EachResource(LAMBDA h, r : Lay(h, e, r), g)

LEMMA Filled ==
  ASSUME NEW g, NEW y \in Sites, y \in DOMAIN g.site, Filling(g, g, y, {})
  PROVE  Filling(g, Fill(g, y), y, Resource)
<1> DEFINE S == Resource
           Step(e, h) == Lay(h, y, e)
           Rec(f) == f = [T \in SUBSET S |->
                            IF T = {} THEN g
                            ELSE LET x == CHOOSE x \in T : TRUE IN Step(x, f[T \ {x}])]
           it == CHOOSE f : Rec(f)
           V == Games
           st == [p \in S \X V |-> Step(p[1], p[2])]
           good == [T \in SUBSET S |-> {h \in Games : Filling(g, h, y, T)}]
<1>1. Fill(g, y) = it[S]
  BY DEF Fill, EachResource, FoldSet, MapThenFoldSet
<1>2. DOMAIN st = S \X V /\ \A e \in S, h \in V : st[<<e, h>>] = Step(e, h)
  OBVIOUS
<1>3. \A T \in SUBSET S : \A h : h \in good[T] <=> h \in Games /\ Filling(g, h, y, T)
  OBVIOUS
<1> HIDE DEF st, V, good
<1>4. IsFiniteSet(S)
  BY StorageAssumption
<1>5. ASSUME NEW T \in SUBSET S, NEW e \in T, NEW h \in Games, Filling(g, h, y, T \ {e})
      PROVE  Step(e, h) \in Games /\ Filling(g, Step(e, h), y, T)
  BY <1>5, GamesHaveShape, LayFills
<1>6. Shape(g) /\ Filling(g, g, y, {})
  BY DEF Filling, Beside
<1> HIDE DEF Step, S
<1>7. ASSUME NEW f, Follows(f, S, V, Firsts(S), g, st)
      PROVE  Runs(it, S, V, g, st)
  <2> DEFINE ch == Firsts(S)
  <2>1. \A T \in SUBSET S : T # {} => ch[T] \in T /\ ch[T] = CHOOSE x \in T : TRUE
    BY FirstsAre
  <2>2. \A T \in SUBSET S : T # {} => f[T] = Step(ch[T], f[T \ {ch[T]}])
    BY <1>2, <1>7 DEF Follows
  <2>3. /\ f = [T \in SUBSET S |-> f[T]]
        /\ \A T \in SUBSET S :
             f[T] = IF T = {} THEN g
                    ELSE LET x == CHOOSE x \in T : TRUE IN Step(x, f[T \ {x}])
    BY <1>7, <2>1, <2>2 DEF Follows
  <2>4. Rec(f)
    BY <2>3
  <2>5. Rec(it)
    <3> HIDE DEF Rec
    <3>. QED BY <2>4
  <2> HIDE DEF it
  <2>. QED BY <1>2, <2>1, <2>5 DEF Runs
<1> HIDE DEF it
<1>8. \A f : Follows(f, S, Games, Firsts(S), g, st) => Runs(it, S, Games, g, st)
  BY <1>7 DEF V
<1>9. ASSUME NEW T \in SUBSET S, NEW e \in T, NEW h \in good[T \ {e}]
      PROVE  st[<<e, h>>] \in good[T]
  <2>1. h \in Games /\ Filling(g, h, y, T \ {e})
    BY <1>3
  <2>2. st[<<e, h>>] = Step(e, h)
    BY <1>2, <2>1 DEF V
  <2>3. Step(e, h) \in Games /\ Filling(g, Step(e, h), y, T)
    BY <1>5, <2>1
  <2>. QED BY <1>3, <2>2, <2>3
<1>10. Leads(S, Games, good, g, st)
  <2>1. \A T \in SUBSET S : good[T] \subseteq Games
    BY <1>3
  <2>2. g \in good[{}]
    BY <1>3, <1>6, GamesHaveShape
  <2>3. DOMAIN st = S \X Games
    BY <1>2 DEF V
  <2>. QED BY <1>4, <1>9, <2>1, <2>2, <2>3 DEF Leads
<1>11. it[S] \in good[S]
  BY <1>8, <1>10, FoldReaches
<1>12. Filling(g, it[S], y, S)
  BY <1>3, <1>11
<1>. QED BY <1>1, <1>12 DEF S


\* The sites have been filled as far as T.
Stocking(h, T) ==
  /\ Sound(h, NothingSpentYet) /\ DOMAIN h.site = Entity
  /\ \A x \in Buildings : x \in DOMAIN h.build /\ h.build[x].state = Placement
  /\ \A x \in T : \A r \in Resource : h.site[x].curr[r] = Stock[x][r]
  /\ \A x \in Entity \ T : h.site[x] = NewSiteOf(x)

LEMMA FillStocks ==
  ASSUME NEW T \in SUBSET Sites, NEW e \in T, NEW h, Stocking(h, T \ {e}), NEW k, k = Fill(h, e)
  PROVE  Stocking(k, T) /\ Shape(k)
<1>1. /\ Sound(h, NothingSpentYet) /\ DOMAIN h.site = Entity /\ e \in Sites /\ e \in Entity
      /\ \A x \in Buildings : x \in DOMAIN h.build /\ h.build[x].state = Placement
      /\ h.site[e] = NewSiteOf(e)
  BY DEF Stocking, Entity
<1>2. \A q \in Resource : NewSiteOf(e).curr[q] = 0 /\ NewSiteOf(e).capacity[q] = 0
  BY NewSites, Tables
<1>3. Filling(h, h, e, {})
  <2>1. Beside(h, h, e)
    BY <1>1, SoundShape DEF Beside
  <2>2. h.site[e].useAlt <=> e \in Buildings
    <3>1. NewSiteOf(e).useAlt = (e \in Buildings)
      BY NewSites
    <3>. QED BY <1>1, <3>1
  <2>. QED BY <1>1, <1>2, <2>1, <2>2 DEF Filling
<1>4. Filling(h, k, e, Resource)
  BY <1>1, <1>3, Filled
<1>5. Sound(k, NothingSpentYet) /\ Beside(h, k, e)
  BY <1>4 DEF Filling
<1>6. DOMAIN k.site = Entity /\ k.build = h.build /\ Shape(k)
  BY <1>1, <1>5 DEF Beside
<1>7. \A x \in T : \A r \in Resource : k.site[x].curr[r] = Stock[x][r]
  <2>1. \A r \in Resource : k.site[e].curr[r] = Stock[e][r]
    BY <1>4 DEF Filling
  <2>2. ASSUME NEW x \in T \ {e} PROVE \A r \in Resource : k.site[x].curr[r] = Stock[x][r]
    <3>1. \A r \in Resource : h.site[x].curr[r] = Stock[x][r]
      BY DEF Stocking
    <3>2. x \in Entity
      BY DEF Entity
    <3>. QED BY <1>1, <1>5, <3>1, <3>2 DEF Beside
  <2>. QED BY <2>1, <2>2
<1>8. \A x \in Entity \ T : k.site[x] = NewSiteOf(x)
  <2>1. ASSUME NEW x \in Entity \ T PROVE k.site[x] = NewSiteOf(x)
    <3>1. h.site[x] = NewSiteOf(x)
      BY DEF Stocking
    <3>. QED BY <1>1, <1>5, <3>1 DEF Beside
  <2>. QED BY <2>1
<1>. QED BY <1>1, <1>5, <1>6, <1>7, <1>8 DEF Stocking

Stocks(g) == EachEntity(LAMBDA h, e : Fill(h, e), g, Sites)

LEMMA StocksFilled ==
  ASSUME NEW g, Stocking(g, {})
  PROVE  Stocking(Stocks(g), Sites)
<1> DEFINE S == Sites
           Step(e, h) == Fill(h, e)
           Rec(f) == f = [T \in SUBSET S |->
                            IF T = {} THEN g
                            ELSE LET x == CHOOSE x \in T : TRUE IN Step(x, f[T \ {x}])]
           it == CHOOSE f : Rec(f)
           V == Games
           st == [p \in S \X V |-> Step(p[1], p[2])]
           good == [T \in SUBSET S |-> {h \in Games : Stocking(h, T)}]
<1>1. Stocks(g) = it[S]
  BY DEF Stocks, EachEntity, FoldSet, MapThenFoldSet
<1>2. DOMAIN st = S \X V /\ \A e \in S, h \in V : st[<<e, h>>] = Step(e, h)
  OBVIOUS
<1>3. \A T \in SUBSET S : \A h : h \in good[T] <=> h \in Games /\ Stocking(h, T)
  OBVIOUS
<1> HIDE DEF st, V, good
<1>4. IsFiniteSet(S)
  BY StorageAssumption
<1>5. ASSUME NEW T \in SUBSET S, NEW e \in T, NEW h \in Games, Stocking(h, T \ {e})
      PROVE  Step(e, h) \in Games /\ Stocking(Step(e, h), T)
  BY <1>5, GamesHaveShape, FillStocks
<1>6. Shape(g) /\ Stocking(g, {})
  BY SoundShape DEF Stocking
<1> HIDE DEF Step, S
<1>7. ASSUME NEW f, Follows(f, S, V, Firsts(S), g, st)
      PROVE  Runs(it, S, V, g, st)
  <2> DEFINE ch == Firsts(S)
  <2>1. \A T \in SUBSET S : T # {} => ch[T] \in T /\ ch[T] = CHOOSE x \in T : TRUE
    BY FirstsAre
  <2>2. \A T \in SUBSET S : T # {} => f[T] = Step(ch[T], f[T \ {ch[T]}])
    BY <1>2, <1>7 DEF Follows
  <2>3. /\ f = [T \in SUBSET S |-> f[T]]
        /\ \A T \in SUBSET S :
             f[T] = IF T = {} THEN g
                    ELSE LET x == CHOOSE x \in T : TRUE IN Step(x, f[T \ {x}])
    BY <1>7, <2>1, <2>2 DEF Follows
  <2>4. Rec(f)
    BY <2>3
  <2>5. Rec(it)
    <3> HIDE DEF Rec
    <3>. QED BY <2>4
  <2> HIDE DEF it
  <2>. QED BY <1>2, <2>1, <2>5 DEF Runs
<1> HIDE DEF it
<1>8. \A f : Follows(f, S, Games, Firsts(S), g, st) => Runs(it, S, Games, g, st)
  BY <1>7 DEF V
<1>9. ASSUME NEW T \in SUBSET S, NEW e \in T, NEW h \in good[T \ {e}]
      PROVE  st[<<e, h>>] \in good[T]
  <2>1. h \in Games /\ Stocking(h, T \ {e})
    BY <1>3
  <2>2. st[<<e, h>>] = Step(e, h)
    BY <1>2, <2>1 DEF V
  <2>3. Step(e, h) \in Games /\ Stocking(Step(e, h), T)
    BY <1>5, <2>1
  <2>. QED BY <1>3, <2>2, <2>3
<1>10. Leads(S, Games, good, g, st)
  <2>1. \A T \in SUBSET S : good[T] \subseteq Games
    BY <1>3
  <2>2. g \in good[{}]
    BY <1>3, <1>6, GamesHaveShape
  <2>3. DOMAIN st = S \X Games
    BY <1>2 DEF V
  <2>. QED BY <1>4, <1>9, <2>1, <2>2, <2>3 DEF Leads
<1>11. it[S] \in good[S]
  BY <1>8, <1>10, FoldReaches
<1>12. Stocking(it[S], S)
  BY <1>3, <1>11
<1>. QED BY <1>1, <1>12 DEF S

\* The buildings have been founded as far as T, and the amounts are those of g.
Founding(g, h, T) ==
  /\ Sound(h, NothingSpentYet) /\ DOMAIN h.site = Entity
  /\ \A x \in Entity : h.site[x].curr = g.site[x].curr
  /\ \A x \in Buildings \ T : x \in DOMAIN h.build /\ h.build[x].state = Placement

LayOut(h, e) == Found(Mark([h EXCEPT !.build[e].required = Needs[e]], e), e, FALSE)

LEMMA LayOutFounds ==
  ASSUME NEW g, NEW T \in SUBSET Buildings, NEW e \in T, NEW h, Founding(g, h, T \ {e}),
         NEW k, k = LayOut(h, e)
  PROVE  Founding(g, k, T) /\ Shape(k)
<1>1. /\ Sound(h, NothingSpentYet) /\ DOMAIN h.site = Entity /\ e \in Buildings /\ e \in Entity
      /\ e \in DOMAIN h.build /\ h.build[e].state = Placement
      /\ NothingSpentYet \in Spents
  BY SpentNothingYet DEF Founding, Entity
<1>2. PICK needs \in [Resource -> Nat] : needs = Needs[e]
  <2>1. Needs \in [Buildings -> [Resource -> Nat]]
    BY HarvesterAssumption
  <2>. QED BY <1>1, <2>1
<1>3. PICK a : a = [h EXCEPT !.build[e].required = needs]
  OBVIOUS
<1>4. PICK b : b = Mark(a, e)
  OBVIOUS
<1>5. PICK c : c = Found(b, e, FALSE)
  OBVIOUS
<1>6. k = c
  BY <1>2, <1>3, <1>4, <1>5 DEF LayOut
<1>7. /\ Sound(a, NothingSpentYet) /\ Works(h, a, e) /\ a.site = h.site
      /\ DOMAIN a.build = DOMAIN h.build /\ a.build[e].state = Placement
  BY <1>1, <1>2, <1>3, RequiredSound
<1>8. Shape(a) /\ e \in DOMAIN a.build
  BY <1>1, <1>7 DEF Works
<1>9. Sound(b, NothingSpentYet)
  BY <1>1, <1>4, <1>7, <1>8, MarkSound
<1>10. /\ Works(a, b, e) /\ b.site = a.site /\ DOMAIN b.build = DOMAIN a.build
       /\ b.build[e].state = Marked
  <2>1. /\ Works(a, b, e) /\ b.site = a.site /\ DOMAIN b.build = DOMAIN a.build
        /\ b.build[e] = [a.build[e] EXCEPT !.state = Marked]
    BY <1>1, <1>4, <1>7, <1>8, MarkDoes
  <2>2. a.build[e] \in BuildRecord
    BY <1>8 DEF Shape
  <2>. QED BY <2>1, <2>2 DEF BuildRecord
<1>11. e \in DOMAIN b.build /\ e \in DOMAIN b.site /\ DOMAIN b.site = Entity
  BY <1>1, <1>7, <1>8, <1>10
<1>12. Owned(b, e) /\ SiteOK(b, e) /\ b.site[e] \in SiteRecord /\ e \in DOMAIN b.pos
  BY <1>1, <1>9, <1>11, EntityFacts
<1>13. UnderWork(b, e) /\ ~IsFounded(b, e)
  BY <1>10, <1>11 DEF UnderWork, IsFounded, Marked, Founded, Completed
<1>14. b.site[e].curr = Zero /\ b.site[e].altCapacity = Zero
  BY <1>1, <1>12, <1>13, HoldsNothing
<1>15. Sound(c, NothingSpentYet)
  BY <1>1, <1>5, <1>9, <1>10, <1>11, FoundSound
<1>16. /\ Works(b, c, e) /\ DOMAIN c.site = DOMAIN b.site
       /\ SameSite(b.site[e], c.site[e], {"altCapacity", "altDesired"})
  BY <1>5, <1>10, <1>11, <1>12, <1>14, FoundDoes
<1>17. c.site[e].curr = b.site[e].curr
  BY <1>16 DEF SameSite
<1>18. Works(h, c, e)
  <2>1. Works(h, b, e)
    BY <1>7, <1>10, WorksAfter
  <2>. QED BY <1>16, <2>1, WorksAfter
<1>19. \A x \in Entity : c.site[x].curr = g.site[x].curr
  <2>1. \A x \in Entity : h.site[x].curr = g.site[x].curr
    BY DEF Founding
  <2>2. \A x \in Entity \ {e} : c.site[x] = h.site[x]
    BY <1>1, <1>18 DEF Works, Apart
  <2>3. c.site[e].curr = h.site[e].curr
    BY <1>7, <1>10, <1>17
  <2>. QED BY <2>1, <2>2, <2>3
<1>20. \A x \in Buildings \ T : x \in DOMAIN c.build /\ c.build[x].state = Placement
  <2> SUFFICES ASSUME NEW x \in Buildings \ T
               PROVE  x \in DOMAIN c.build /\ c.build[x].state = Placement
    OBVIOUS
  <2>1. x \in Entity \ {e} /\ x \in DOMAIN h.build /\ h.build[x].state = Placement
    BY DEF Founding, Entity
  <2>. QED BY <1>18, <2>1 DEF Works, Apart
<1>21. Shape(c) /\ DOMAIN c.site = Entity
  BY <1>11, <1>16 DEF Works
<1>. QED BY <1>6, <1>15, <1>19, <1>20, <1>21 DEF Founding

Foundations(g) == EachEntity(LAMBDA h, e : LayOut(h, e), g, Buildings)

LEMMA FoundationsLaid ==
  ASSUME NEW g, Founding(g, g, {})
  PROVE  Founding(g, Foundations(g), Buildings)
<1> DEFINE S == Buildings
           Step(e, h) == LayOut(h, e)
           Rec(f) == f = [T \in SUBSET S |->
                            IF T = {} THEN g
                            ELSE LET x == CHOOSE x \in T : TRUE IN Step(x, f[T \ {x}])]
           it == CHOOSE f : Rec(f)
           V == Games
           st == [p \in S \X V |-> Step(p[1], p[2])]
           good == [T \in SUBSET S |-> {h \in Games : Founding(g, h, T)}]
<1>1. Foundations(g) = it[S]
  BY DEF Foundations, EachEntity, FoldSet, MapThenFoldSet
<1>2. DOMAIN st = S \X V /\ \A e \in S, h \in V : st[<<e, h>>] = Step(e, h)
  OBVIOUS
<1>3. \A T \in SUBSET S : \A h : h \in good[T] <=> h \in Games /\ Founding(g, h, T)
  OBVIOUS
<1> HIDE DEF st, V, good
<1>4. IsFiniteSet(S)
  BY StorageAssumption
<1>5. ASSUME NEW T \in SUBSET S, NEW e \in T, NEW h \in Games, Founding(g, h, T \ {e})
      PROVE  Step(e, h) \in Games /\ Founding(g, Step(e, h), T)
  BY <1>5, GamesHaveShape, LayOutFounds
<1>6. Shape(g) /\ Founding(g, g, {})
  BY SoundShape DEF Founding
<1> HIDE DEF Step, S
<1>7. ASSUME NEW f, Follows(f, S, V, Firsts(S), g, st)
      PROVE  Runs(it, S, V, g, st)
  <2> DEFINE ch == Firsts(S)
  <2>1. \A T \in SUBSET S : T # {} => ch[T] \in T /\ ch[T] = CHOOSE x \in T : TRUE
    BY FirstsAre
  <2>2. \A T \in SUBSET S : T # {} => f[T] = Step(ch[T], f[T \ {ch[T]}])
    BY <1>2, <1>7 DEF Follows
  <2>3. /\ f = [T \in SUBSET S |-> f[T]]
        /\ \A T \in SUBSET S :
             f[T] = IF T = {} THEN g
                    ELSE LET x == CHOOSE x \in T : TRUE IN Step(x, f[T \ {x}])
    BY <1>7, <2>1, <2>2 DEF Follows
  <2>4. Rec(f)
    BY <2>3
  <2>5. Rec(it)
    <3> HIDE DEF Rec
    <3>. QED BY <2>4
  <2> HIDE DEF it
  <2>. QED BY <1>2, <2>1, <2>5 DEF Runs
<1> HIDE DEF it
<1>8. \A f : Follows(f, S, Games, Firsts(S), g, st) => Runs(it, S, Games, g, st)
  BY <1>7 DEF V
<1>9. ASSUME NEW T \in SUBSET S, NEW e \in T, NEW h \in good[T \ {e}]
      PROVE  st[<<e, h>>] \in good[T]
  <2>1. h \in Games /\ Founding(g, h, T \ {e})
    BY <1>3
  <2>2. st[<<e, h>>] = Step(e, h)
    BY <1>2, <2>1 DEF V
  <2>3. Step(e, h) \in Games /\ Founding(g, Step(e, h), T)
    BY <1>5, <2>1
  <2>. QED BY <1>3, <2>2, <2>3
<1>10. Leads(S, Games, good, g, st)
  <2>1. \A T \in SUBSET S : good[T] \subseteq Games
    BY <1>3
  <2>2. g \in good[{}]
    BY <1>3, <1>6, GamesHaveShape
  <2>3. DOMAIN st = S \X Games
    BY <1>2 DEF V
  <2>. QED BY <1>4, <1>9, <2>1, <2>2, <2>3 DEF Leads
<1>11. it[S] \in good[S]
  BY <1>8, <1>10, FoldReaches
<1>12. Founding(g, it[S], S)
  BY <1>3, <1>11
<1>. QED BY <1>1, <1>12 DEF S


\* The game in which the harvester begins, as the folds above.
LEMMA OpeningIs ==
  Opening = Heard(Foundations(Stocks(People(EmptyGame))))
BY DEF Opening, Foundations, Stocks, People, LayOut, Fill, Lay, Added, EachEntity,
       EachResource, FoldSet, MapThenFoldSet

LEMMA OpeningSound ==
  ASSUME NEW h, h = Opening
  PROVE  /\ Sound(h, NothingSpentYet) /\ Shape(h)
         /\ \A r \in Resource : InSites(h, r) = SumFunction([e \in Sites |-> Stock[e][r]])
<1>1. PICK g : g = People(EmptyGame)
  OBVIOUS
<1>2. PICK k : k = Stocks(g)
  OBVIOUS
<1>3. PICK m : m = Foundations(k)
  OBVIOUS
<1>4. h = Heard(m)
  BY <1>1, <1>2, <1>3, OpeningIs
<1>5. Peopled(g, Entity)
  <2>1. Peopled(EmptyGame, {})
    BY EmptyIsSound DEF Peopled, Absent, Active
  <2>. QED BY <1>1, <2>1, PeopleLaid
<1>6. Stocking(g, {})
  <2>1. Sound(g, NothingSpentYet) /\ \A x \in Entity : Laid(g, x)
    BY <1>5 DEF Peopled
  <2>2. DOMAIN g.site = Entity
    <3>1. DOMAIN g.site \subseteq Entity
      BY <2>1, SoundShape DEF Shape
    <3>. QED BY <2>1, <3>1 DEF Laid
  <2>3. Buildings \subseteq Entity
    BY DEF Entity
  <2>. QED BY <2>1, <2>2, <2>3 DEF Stocking, Laid
<1>7. Stocking(k, Sites)
  BY <1>2, <1>6, StocksFilled
<1>8. Founding(k, k, {})
  BY <1>7 DEF Stocking, Founding
<1>9. Founding(k, m, Buildings)
  BY <1>3, <1>8, FoundationsLaid
<1>10. Sound(m, NothingSpentYet) /\ DOMAIN m.site = Entity
  BY <1>9 DEF Founding
<1>11. Sound(h, NothingSpentYet) /\ Shape(h) /\ h.site = m.site
  BY <1>4, <1>10, HeardSound
<1>12. ASSUME NEW r \in Resource
       PROVE  InSites(h, r) = SumFunction([e \in Sites |-> Stock[e][r]])
  <2>1. PICK f : f = [e \in Entity |-> h.site[e].curr[r]]
    OBVIOUS
  <2>2. InSites(h, r) = SumFunction(f)
    BY <1>10, <1>11, <2>1 DEF InSites
  <2>3. \A x \in Entity : f[x] = k.site[x].curr[r]
    BY <1>9, <1>11, <2>1 DEF Founding
  <2>4. \A x \in Sites : f[x] = Stock[x][r]
    <3>1. \A x \in Sites : k.site[x].curr[r] = Stock[x][r]
      BY <1>7 DEF Stocking
    <3>. QED BY <2>3, <3>1 DEF Entity
  <2>5. \A x \in Entity \ Sites : f[x] = 0
    <3>1. \A x \in Entity \ Sites : k.site[x].curr = Zero
      BY <1>7, NewSites DEF Stocking
    <3>2. Zero[r] = 0
      BY Tables
    <3>. QED BY <2>3, <3>1, <3>2
  <2>6. f \in [Entity -> Int]
    <3>1. \A x \in Sites : Stock[x][r] \in Nat
      BY OpeningStock
    <3>2. \A x \in Entity : f[x] \in Int
      BY <2>4, <2>5, <3>1
    <3>. QED BY <2>1, <3>2
  <2>7. Sites \in SUBSET Entity /\ IsFiniteSet(Entity)
    BY SpentNothingYet DEF Entity
  <2>8. SumFunction(f) = SumFunction([x \in Sites |-> f[x]])
    BY <2>5, <2>6, <2>7, SumOfPart
  <2>9. [x \in Sites |-> f[x]] = [e \in Sites |-> Stock[e][r]]
    BY <2>4
  <2>. QED BY <2>2, <2>8, <2>9
<1>. QED BY <1>11, <1>12

LEMMA NewHarvesterFits ==
  NewHarvester \in Harvesters /\ Fit(NewHarvester)
<1>1. Zero \in Loads
  <2>1. \A r \in Resource : MaxCarry[r] \in Nat \ {0}
    BY HarvesterAssumption
  <2>2. Zero \in [Resource -> Nat] /\ \A r \in Resource : Zero[r] = 0
    BY Tables
  <2>. QED BY <2>1, <2>2 DEF Loads
<1>2. PICK z \in Loads : z = Zero
  BY <1>1
<1>3. Strategy \in Strategies /\ CycleUnits \in Nat
  BY HarvesterAssumption
<1>4. <<>> \in Seq(HEvents)
  OBVIOUS
<1>5. NewHarvester \in Harvesters
  BY <1>2, <1>3, <1>4 DEF NewHarvester, Harvesters, HStates, Motions
<1>6. NewHarvester.state = "NOT_HARVESTING" /\ NewHarvester.handlers = {}
  BY DEF NewHarvester
<1>7. Fit(NewHarvester)
  <2> HIDE DEF NewHarvester
  <2>. QED BY <1>5, <1>6, FitOnErrand
<1>. QED BY <1>5, <1>7

LEMMA HBeginning ==
  ASSUME HInit
  PROVE  HIInv
<1>1. /\ game = Opening /\ spent = NothingSpentYet /\ harvester = NewHarvester
      /\ deposits = InGround /\ zombies = <<>> /\ kept = {} /\ events = 0
      /\ outside = Zero /\ failed = FALSE
  BY DEF HInit, NothingSpentYet
<1>2. /\ Sound(game, spent) /\ Shape(game) /\ spent \in Spents
      /\ \A r \in Resource : InSites(game, r) = SumFunction([e \in Sites |-> Stock[e][r]])
  BY <1>1, OpeningSound, SpentNothingYet
<1>3. harvester \in Harvesters /\ Fit(harvester)
  BY <1>1, NewHarvesterFits
<1>4. DOMAIN deposits = Deposits /\ deposits \in PartialOn(Deposits, Nat \ {0})
  <2>1. InGround \in [Deposits -> Nat \ {0}]
    BY HarvesterAssumption
  <2>. QED BY <1>1, <2>1, Partial
<1>5. World \in Worlds
  <2>1. game \in Games
    BY <1>2, GamesHaveShape
  <2>. QED BY <1>1, <1>2, <1>3, <1>4, <2>1 DEF World, Worlds
<1>6. \A r \in Resource : Zero[r] = 0
  BY Tables
<1>7. ASSUME NEW r \in Resource
      PROVE  GoodsOf(World, r) + outside[r] = GoodsAtFirst(r)
  <2>1. harvester.carry[r] = 0 /\ outside[r] = 0
    BY <1>1, <1>6 DEF NewHarvester
  <2>2. SpentInAll(spent, r) = 0
    <3>1. PICK f : f = [x \in Faction |-> spent[x][r]]
      OBVIOUS
    <3>2. \A x \in Faction : f[x] = 0
      BY <1>1, <1>6, <3>1 DEF NothingSpentYet
    <3>3. f \in [Faction -> Int]
      BY <3>1, <3>2
    <3>4. IsFiniteSet(Faction)
      BY HarvesterAssumption
    <3>5. SumFunction(f) = 0
      BY <3>2, <3>3, <3>4, SumOfNothing
    <3>. QED BY <3>1, <3>5 DEF SpentInAll
  <2>3. PICK a : a = InGroundOf(deposits, r)
    OBVIOUS
  <2>4. PICK b : b = InSites(game, r)
    OBVIOUS
  <2>5. a \in Int /\ b \in Int
    BY <1>5, <2>3, <2>4, GoodsAreInt, WorldIs
  <2>6. GoodsAtFirst(r) = a + b
    BY <1>1, <1>2, <1>4, <2>3, <2>4 DEF GoodsAtFirst, InGroundOf
  <2>7. GoodsOf(World, r) = a + 0 + b + 0
    BY <2>1, <2>2, <2>3, <2>4, WorldIs DEF GoodsOf
  <2>. QED BY <2>1, <2>5, <2>6, <2>7
<1>8. DOMAIN zombies = {}
  BY <1>1
<1>9. Good(World)
  <2>1. Sane(World, outside)
    BY <1>1, <1>2, <1>5, <1>7, WorldIs DEF Sane
  <2>2. ZombiesOK(World)
    BY <1>8 DEF ZombiesOK
  <2>. QED BY <1>3, <2>1, <2>2, WorldIs DEF Good, Ok
<1>10. outside \in Table /\ events \in 0..MaxEvents
  <2>1. MaxEvents \in Nat
    BY HarvesterAssumption
  <2>2. Zero \in Table
    BY Tables
  <2>. QED BY <1>1, <2>1, <2>2
<1>. QED BY <1>1, <1>9, <1>10 DEF HIInv
-----------------------------------------------------------------------------
(* What holds of every state *)

\* A state waits for one arrival at most.
LEMMA OneHandler ==
  ASSUME NEW h \in Harvesters
  PROVE  /\ "on_motion_end" \notin HandlersFor(h)
         /\ \E x : HandlersFor(h) \intersect OnArrival \subseteq {x}
<1>1. PICK st \in HStates : st = h.state
  BY DEF Harvesters
<1>2. CASE st \in Work
  <2>1. HandlersFor(h) = AtWork \/ HandlersFor(h) = AtWorkSource
    BY <1>1, <1>2, StatesHandlers DEF Work
  <2>. QED BY <2>1 DEF AtWork, AtWorkSource, OnArrival
<1>3. CASE st = "NOT_HARVESTING"
  <2>1. HandlersFor(h) = {}
    BY <1>1, <1>3, StatesHandlers
  <2>. QED BY <2>1
<1>4. CASE st \notin Work \union {"NOT_HARVESTING"}
  <2>1. \E x \in {"on_arrive_at_resource", "on_arrive_at_storage",
                  "on_arrive_at_transport_source", "on_arrive_at_transport_dest",
                  "on_arrive_at_resource_source"} : HandlersFor(h) = {x}
    BY <1>1, <1>4, StatesHandlers DEF HStates
  <2>. QED BY <2>1
<1>. QED BY <1>2, <1>3, <1>4

\* While saved games do not go stale, every order, handler and step of others
\* leaves the goods accounted for and the harvester fit for its errand.
THEOREM HInvariance ==
  ASSUME StaleSaves = FALSE
  PROVE  HSpec => []HIInv
<1>1. HInit => HIInv
  BY HBeginning
<1>2. HIInv /\ [HNext]_allVars => HIInv'
  BY HNextKeeps, HStutterKeeps
<1>. QED BY <1>1, <1>2, PTL DEF HSpec

\* harvester.c neither makes nor loses goods when it gathers, drops off, takes
\* up, delivers and is stopped, whatever happens to the sites in between.
THEOREM GoodsKeptHolds ==
  ASSUME StaleSaves = FALSE
  PROVE  HSpec => []GoodsKept
<1>1. HIInv => GoodsKept
  <2> SUFFICES ASSUME HIInv, NEW r \in Resource PROVE Goods(r) = GoodsAtFirst(r)
    BY DEF GoodsKept
  <2>1. PICK a \in Int : a = InGroundOf(deposits, r)
    BY GoodsNow
  <2>2. PICK b \in Int : b = InSites(game, r)
    BY GoodsNow
  <2>3. PICK c \in Int : c = SpentInAll(spent, r)
    BY GoodsNow
  <2>4. OfKind(World, r) = {x \in DOMAIN deposits : KindOf[x] = r}
    BY WorldIs DEF OfKind
  <2>5. Goods(r) = a + harvester.carry[r] + b + c + outside[r]
    BY <2>1, <2>2, <2>3, <2>4 DEF Goods, InGroundOf, InSites, SpentInAll
  <2>. QED BY <2>1, <2>2, <2>3, <2>5, GoodsNow
<1>. QED BY <1>1, HInvariance, PTL

\* The handlers that harvester.c has registered are those of the errand that the
\* harvester's state names, and what they read is there.
THEOREM HarvestHandlersExactHolds ==
  ASSUME StaleSaves = FALSE
  PROVE  HSpec => []HarvestHandlersExact
<1>1. HIInv => HarvestHandlersExact
  <2> SUFFICES ASSUME HIInv PROVE HarvestHandlersExact
    OBVIOUS
  <2>1. /\ World \in Worlds /\ harvester \in Harvesters /\ Fit(harvester)
        /\ Sound(game, spent) /\ deposits \in PartialOn(Deposits, Nat \ {0})
        /\ DOMAIN zombies \subseteq Entity /\ kept \subseteq Entity
        /\ events \in 0..MaxEvents /\ outside \in Table /\ failed \in BOOLEAN
    BY WorldFacts
  <2>2. PICK h \in Harvesters : h = harvester
    BY <2>1
  <2>3. HTypeOK
    <3>1. GameOK(game)
      BY <2>1 DEF Sound
    <3>2. DOMAIN deposits \subseteq Deposits /\ \A d \in DOMAIN deposits : deposits[d] \in Nat \ {0}
      BY <2>1, Partial
    <3>3. /\ h.state \in HStates /\ h.strategy \in Strategies
          /\ {h.ss, h.src, h.dest, h.building} \subseteq Entity \union {None}
          /\ h.res \in Deposits \union {None} /\ h.resName \in Resource \union {None}
          /\ h.carry \in [Resource -> Nat] /\ h.accum \in 0..CycleUnits
          /\ h.dropOffOnly \in BOOLEAN
          /\ h.cmd \in {None, "gather", "transport", "build", "supply"}
          /\ h.arg \in Things \union {None} /\ h.handlers \subseteq Handlers
      BY DEF Harvesters, Loads, Entity
    <3>4. h.state \in {"NOT_HARVESTING", "SEEK_RESOURCE", "HARVESTING", "SEEK_STORAGE",
                       "TRANSPORT_GETTING", "TRANSPORT_PUTTING",
                       "TRANSPORT_SEEK_RESOURCE", "TRANSPORT_HARVESTING"}
      BY <3>3 DEF HStates, Work
    <3>. QED BY <2>1, <2>2, <3>1, <3>2, <3>3, <3>4 DEF HTypeOK
  <2>4. OneErrand(h)
    BY <2>1, <2>2 DEF Fit
  <2>5. PICK errand : errand = h.handlers \ {"on_motion_end"}
    OBVIOUS
  <2>6. \/ errand \subseteq HandlersFor(h)
        \/ h.state = "NOT_HARVESTING" /\ errand = {"on_arrive_at_resource_source"}
    BY <2>4, <2>5 DEF OneErrand
  <2>7. h.state \in {"HARVESTING", "TRANSPORT_HARVESTING"} => h.handlers = HandlersFor(h)
    BY <2>4 DEF OneErrand, Work
  <2>8. "on_motion_end" \in h.handlers => h.building # None
    <3>1. "on_motion_end" \notin HandlersFor(h)
      BY OneHandler
    <3>. QED BY <2>4, <3>1 DEF OneErrand
  <2>9. Cardinality(h.handlers \intersect OnArrival) <= 1
    <3>1. \E x : h.handlers \intersect OnArrival \subseteq {x}
      <4>1. PICK x : HandlersFor(h) \intersect OnArrival \subseteq {x}
        BY OneHandler
      <4>. QED BY <2>4, <4>1 DEF OneErrand
    <3>2. PICK x : h.handlers \intersect OnArrival \subseteq {x}
      BY <3>1
    <3>3. IsFiniteSet({x}) /\ Cardinality({x}) = 1
      BY FS_Singleton
    <3>. QED BY <3>2, <3>3, FS_Subset
  <2>. QED BY <2>2, <2>3, <2>5, <2>6, <2>7, <2>8, <2>9 DEF HarvestHandlersExact
<1>. QED BY <1>1, HInvariance, PTL

\* Where destroyed sites are not kept by scripts, and there is room for what is
\* put back, no assertion of harvester.c fails and no NULL is read.
THEOREM NoneFailedHolds ==
  ASSUME StaleSaves = FALSE, Zombies = FALSE, RoomAssured = TRUE
  PROVE  HSpec => []NoneFailed
<1>1. HIInv => NoneFailed
  BY WorldFacts DEF NoneFailed, Blameless
<1>. QED BY <1>1, HInvariance, PTL
=============================================================================
