-------------------------------- MODULE Nav --------------------------------
(* Path requests, the caches of flow fields and lines of sight, and the      *)
(* blockers that make them stale (navigation/nav.c, fieldcache.c, field.c,   *)
(* a_star.c), for one layer and no faction.                                  *)
(*                                                                           *)
(* A flow field is a function from the tiles of its chunk to the next place, *)
(* or to None.  Its identifier is its target: a tile, or a portal with the   *)
(* local islands on its two sides.  A line-of-sight field is the set of its  *)
(* chunk's tiles that were blocked when it was made.                         *)
EXTENDS NavMap, SequencesExt

CONSTANTS
    Dests,              \* tiles that units are sent to
    Sources,            \* tiles from which units ask
    Objects, Covers,    \* what can block: an object and the tiles under it
    None,
    MaxChanges,         \* bound: times that an object stops or starts
    MaxDisplaced        \* bound: entries pushed out by those of other paths

ASSUME NavAssumption ==
    /\ Dests \cup Sources \subseteq Passable
    /\ Covers \in [Objects -> SUBSET Passable]
    /\ None \notin Passable /\ None \notin Portal
    /\ {MaxChanges, MaxDisplaced} \subseteq Nat

VARIABLES
    map,                \* what was derived when the map was built (NavMap)
    standing,           \* objects that hold their blockers
    blockers,           \* chunk->blockers
    dirty,              \* s_dirty_chunks
    islandsDirty,       \* s_local_islands_dirty
    liid,               \* chunk->local_islands, 0 for ISLAND_NONE
    active,             \* links of portals in EDGE_STATE_ACTIVE
    fc,                 \* the caches
    changes, displaced

vars == <<map, standing, blockers, dirty, islandsDirty, liid, active, fc, changes, displaced>>

Blocked == {t \in Passable : blockers[t] > 0}
Free(k) == map.tiles[k] \ Blocked

-----------------------------------------------------------------------------
(* Local islands: the connected parts of a chunk that blockers leave,        *)
(* numbered in the order of their first tiles.                               *)
First(isle) == Min({Local(t)[1] * Cols + Local(t)[2] : t \in isle})
LocalIslands(k) ==
    LET isles == {IslandOf(Free(k), t) : t \in Free(k)}
        Number(t) == Cardinality({i \in isles : First(i) <= First(IslandOf(Free(k), t))})
    IN  [t \in map.tiles[k] |-> IF t \in Blocked THEN 0 ELSE Number(t)]
UpdateLocalIslands ==
    LET isles == [k \in dirty |-> LocalIslands(k)]
    IN  [t \in Passable |->
            IF islandsDirty /\ ChunkOf(t) \in dirty THEN isles[ChunkOf(t)][t] ELSE liid[t]]

(* In the operators below L is the numbering of local islands in force.      *)
IsleAt(L, t) == IF t \in Passable THEN L[t] ELSE 0
ClosestPathableLocalIsland(L, t) ==
    LET near == {u \in map.tiles[ChunkOf(t)] : L[u] # 0}
    IN  IF IsleAt(L, t) # 0 THEN IsleAt(L, t)
        ELSE IF near = {} THEN 0
        ELSE L[CHOOSE u \in near : \A v \in near : Dist(t, u) <= Dist(t, v)]

Around(t) == {u \in Passable : /\ ChunkOf(u) = ChunkOf(t)
                               /\ Abs(u[1] - t[1]) <= 1 /\ Abs(u[2] - t[2]) <= 1}
PortalReachableFromTile(L, p, t) ==
    \E u \in p.tiles, v \in Around(t) : L[u] # 0 /\ L[v] = L[u]

ClosestReachablePortal(L, t, unblocked) ==
    LET near == {p \in map.portals[ChunkOf(t)] :
                    /\ t \in DOMAIN map.travel[p]
                    /\ unblocked => PortalReachableFromTile(L, p, t)}
    IN  IF near = {} THEN None
        ELSE CHOOSE p \in near : \A q \in near : map.travel[p][t] <= map.travel[q][t]

NormallyReachable(a, b) ==
    \A p \in map.portals[ChunkOf(a)] : (a \in DOMAIN map.travel[p]) = (b \in DOMAIN map.travel[p])
BlockedOff(L, t) == \A p \in map.portals[ChunkOf(t)] : ~PortalReachableFromTile(L, p, t)

-----------------------------------------------------------------------------
(* The way through the portals.  A hop is a portal and the local island, on  *)
(* the portal's chunk, from which it is used.                                *)
Hop(p, i) == [port |-> p, iid |-> i]

ConnectedIslands(L, h) ==
    {L[Ahead(t, h.port.next)] : t \in {u \in h.port.tiles : L[u] = h.iid}} \ {0}
NeighboursPortalGraph(L, h) ==
    {Hop(q, h.iid) : q \in {r \in map.portals[h.port.chunk] :
        <<h.port, r>> \in active /\ \E t \in r.tiles : L[t] = h.iid}}
    \cup {Hop(map.connected[h.port], i) : i \in ConnectedIslands(L, h)}

Hops == {Hop(p, i) : p \in DOMAIN map.connected, i \in 0 .. Rows * Cols}
HopsOn(L) == UNION {{Hop(p, L[t]) : t \in p.tiles} : p \in DOMAIN map.connected}

(* How many hops away each hop is from the portals of the source's chunk     *)
(* that can be reached from the source.                                      *)
HopsFrom(L, src) ==
    LET start == ClosestPathableLocalIsland(L, src)
        first == {Hop(p, start) : p \in {q \in map.portals[ChunkOf(src)] :
                    PortalReachableFromTile(L, q, src) /\ src \in DOMAIN map.travel[q]}}
    IN  IF start = 0 THEN <<>>
        ELSE Layers([h \in Hops |-> NeighboursPortalGraph(L, h)], first,
                    Cardinality(HopsOn(L)))

(* The path with the fewest hops, of those counted in cost, to the portal p  *)
(* as used from the local island of dst.  A portal of the source's own chunk *)
(* that is reached without a hop is not found.                               *)
LastHop(L, dst, p) == Hop(p, ClosestPathableLocalIsland(L, dst))
Found(cost, h) == h \in DOMAIN cost /\ cost[h] > 0
PortalGraphPath(L, cost, last) ==
    LET Back(n, path) ==
            <<CHOOSE h \in DOMAIN cost : /\ cost[h] = cost[path[1]] - 1
                                        /\ path[1] \in NeighboursPortalGraph(L, h)>> \o path
    IN  FoldSet(Back, <<last>>, 1 .. cost[last])

(* The portal of dst's chunk, and the tile on it, that the shortest path     *)
(* leads to.                                                                 *)
ClosestReachableFromLocation(L, cost, dst) ==
    LET ways == {w \in UNION {{<<p, t>> : t \in p.tiles} : p \in map.portals[ChunkOf(dst)]} :
                    Found(cost, LastHop(L, w[2], w[1]))}
        length(w) == cost[LastHop(L, w[2], w[1])]
    IN  IF ways = {} THEN <<None, dst>>
        ELSE CHOOSE w \in ways : \A v \in ways : length(w) <= length(v)

-----------------------------------------------------------------------------
(* Flow fields.                                                              *)
TileTarget(t) == [chunk |-> ChunkOf(t), tile |-> t]
PortalTarget(p, i, j) == [chunk |-> p.chunk, port |-> p, iid |-> i, next |-> j]
OfTile(id) == "tile" \in DOMAIN id

InitialFrontier(L, id) ==
    IF OfTile(id) THEN {id.tile} \ Blocked
    ELSE {t \in id.port.tiles \ Blocked :
            /\ id.iid # 0 => L[t] = id.iid
            /\ L[Ahead(t, id.port.next)] = id.next}

NoFlow(k) == [t \in map.tiles[k] |-> None]

(* Integration from the frontier F over the free tiles, and the flow along   *)
(* it.  The tiles that were not reached keep what they had.                  *)
FlowFrom(F, id, ff) ==
    LET cost == StepsFrom(Free(id.chunk), F)
        Down(t) == CHOOSE u \in Beside(t) \cap DOMAIN cost : cost[u] = cost[t] - 1
        flow == [t \in DOMAIN cost |->
                    IF t \notin F THEN Down(t)
                    ELSE IF OfTile(id) THEN None ELSE Ahead(t, id.port.next)]
    IN  Over(flow, ff)
FlowFieldUpdate(L, id, ff) == FlowFrom(InitialFrontier(L, id), id, ff)

(* From a blocked tile to the nearest free one, over blocked tiles.          *)
FlowFieldUpdateToNearestPathable(t, id, ff) ==
    LET held == map.tiles[id.chunk] \cap Blocked
        F == {u \in Free(id.chunk) : Beside(u) \cap IslandOf(held, t) # {}}
        cost == StepsFrom(held, F)
        Down(u) == CHOOSE v \in Beside(u) \cap DOMAIN cost : cost[v] = cost[u] - 1
    IN  Over([u \in DOMAIN cost \ F |-> Down(u)], ff)

(* Over the local island i, to those of its tiles nearest to the target.     *)
FlowFieldUpdateIslandToNearest(L, i, id, ff) ==
    LET free == InitialFrontier(L, id)
        goal == IF free = {} /\ OfTile(id) THEN {id.tile} ELSE free
        isle == {t \in Free(id.chunk) : L[t] = i}
        away(t) == Min({Dist(t, g) : g \in goal})
        F == IF goal = {} THEN {} ELSE {t \in isle : \A u \in isle : away(t) <= away(u)}
    IN  FlowFrom(F, id, ff)

-----------------------------------------------------------------------------
(* The caches: flow fields by identifier, the identifier in use for a        *)
(* destination and chunk, lines of sight by destination and chunk, and the   *)
(* lists of the keys that were put, by which a chunk's entries are found.    *)
NoCache == [flow |-> <<>>, mapping |-> <<>>, los |-> <<>>, flowKeys |-> {}, losKeys |-> {}]

PutAt(f, k, v) == Over([x \in {k} |-> v], f)
Without(f, keys) == [k \in DOMAIN f \ keys |-> f[k]]
PutFlowField(c, id, ff) ==
    [c EXCEPT !.flow = PutAt(@, id, ff), !.flowKeys = @ \cup {id}]
PutDestFFMapping(c, d, k, id) == [c EXCEPT !.mapping = PutAt(@, <<d, k>>, id)]
PutLOSField(c, d, k) ==
    [c EXCEPT !.los = PutAt(@, <<d, k>>, Blocked \cap map.tiles[k]),
              !.losKeys = @ \cup {<<d, k>>}]
HasMapping(c, d, k) == <<d, k>> \in DOMAIN c.mapping
HasField(c, d, k) == HasMapping(c, d, k) /\ c.mapping[<<d, k>>] \in DOMAIN c.flow

InvalidateAllAtChunks(c, K) ==
    LET flows == {id \in c.flowKeys : id.chunk \in K}
        sights == {x \in c.losKeys : x[2] \in K}
    IN  [c EXCEPT !.flow = Without(@, flows), !.flowKeys = @ \ flows,
                  !.los = Without(@, sights), !.losKeys = @ \ sights]

(* The lines of sight of every destination with a mapping for the chunks.    *)
(* The flow cache is searched for those destinations too, but its keys are   *)
(* no destinations: nothing is found in it.                                  *)
InvalidateAllThroughChunks(c, K) ==
    LET paths == {x[1] : x \in {y \in DOMAIN c.mapping : y[2] \in K}}
    IN  [c EXCEPT !.los = Without(@, {x \in DOMAIN @ : x[1] \in paths})]

-----------------------------------------------------------------------------
(* n_request_path.                                                           *)

(* The field of the destination's own chunk.                                 *)
DestField(L, c, dst) ==
    LET id == TileTarget(dst)
        made == IF id \in DOMAIN c.flow THEN c
                ELSE PutFlowField(c, id, FlowFieldUpdate(L, id, NoFlow(id.chunk)))
        mapped == IF HasField(c, dst, id.chunk) THEN c
                  ELSE PutDestFFMapping(made, dst, id.chunk, id)
    IN  IF <<dst, id.chunk>> \in DOMAIN c.los THEN mapped
        ELSE PutLOSField(mapped, dst, id.chunk)

(* Variant: the field in use is not updated for this hop.                    *)
ReuseField(L, c, dst, id) ==
    LET k == id.chunk
        mapped == PutDestFFMapping(c, dst, k, id)
    IN  IF HasField(c, dst, k) \/ id \in DOMAIN c.flow THEN c
        ELSE PutFlowField(mapped, id, FlowFieldUpdate(L, id, NoFlow(k)))

(* The field of one hop: the one already in use, updated for this hop; or    *)
(* the one of that identifier, made if there is none.                        *)
HopField(L, c, dst, id) ==
    LET k == id.chunk
        exist == c.mapping[<<dst, k>>]
        mapped == PutDestFFMapping(c, dst, k, id)
    IN  IF HasField(c, dst, k)
        THEN IF exist = id THEN c
             ELSE PutFlowField(mapped, id, FlowFieldUpdate(L, id, c.flow[exist]))
        ELSE IF id \in DOMAIN c.flow THEN mapped
        ELSE PutFlowField(mapped, id, FlowFieldUpdate(L, id, NoFlow(k)))

(* The line of sight of a hop's chunk continues that of the chunk before it. *)
HopSight(w, dst, k) ==
    IF <<dst, k>> \in DOMAIN w.fc.los THEN [w EXCEPT !.prev = k]
    ELSE [fc |-> PutLOSField(w.fc, dst, k), prev |-> k,
          sound |-> w.sound /\ k \in Adjacent(w.prev) /\ <<dst, w.prev>> \in DOMAIN w.fc.los]

(* The last hop may lead from another portal of the destination's chunk to   *)
(* the closest portal: no field is wanted for it.  The local island of the   *)
(* destination is looked up in the chunk of the source.                      *)
DestIsland(L, src, dst) == ClosestPathableLocalIsland(L, SamePlace(ChunkOf(src), dst))
Unwanted(L, h, g, src, dst, dstPort) ==
    /\ h.port.chunk = ChunkOf(dst)
    /\ g.port = dstPort
    /\ g.iid = DestIsland(L, src, dst)

(* Variant: no field for a source's chunk that the path leaves at once.      *)
OwnHop(path, i, src) == i

(* The hop of the path that the i-th turn of the loop makes a field for: its *)
(* own, or the first one if the path leaves the source's chunk at once.      *)
NextHop(path, i, src) ==
    IF i = 2 /\ path[2].port.chunk # ChunkOf(src) THEN 1 ELSE i

(* One turn: goal is the tile that the path ends at, dst names the path.     *)
Turn(L, w, path, i, src, goal, dst, dstPort) ==
    LET n == NextHop(path, i, src)
        h == path[Max({n - 1, 1})]
        g == path[n]
        next == IF i < Len(path) THEN path[n + 1].iid ELSE ClosestPathableLocalIsland(L, goal)
        id == PortalTarget(g.port, g.iid, next)
    IN  IF map.connected[h.port] = g.port \/ Unwanted(L, h, g, src, goal, dstPort) THEN w
        ELSE HopSight([w EXCEPT !.fc = HopField(L, w.fc, dst, id)], dst, id.chunk)

PathFields(L, c, path, src, goal, dst, dstPort) ==
    FoldRight(LAMBDA i, w : Turn(L, w, path, i, src, goal, dst, dstPort),
              [i \in 1 .. Len(path) - 1 |-> i + 1],
              [fc |-> c, prev |-> ChunkOf(dst), sound |-> TRUE])

Reply(c, ok) == [ok |-> ok, fc |-> c, sound |-> TRUE]

(* By the hops counted in cost to the destination, or as near as they lead;  *)
(* port is the portal of the destination's chunk that is closest to it.      *)
Follow(L, c, cost, src, goal, dst, dstPort) ==
    Of(PortalGraphPath(L, cost, LastHop(L, goal, dstPort)),
       LAMBDA path : Of(PathFields(L, c, path, src, goal, dst, dstPort),
                        LAMBDA w : [ok |-> TRUE, fc |-> w.fc, sound |-> w.sound]))
Routed(L, c, cost, src, dst, port) ==
    LET same == ChunkOf(src) = ChunkOf(dst)
        isle(t) == ClosestPathableLocalIsland(L, t)
    IN  IF Found(cost, LastHop(L, dst, port)) THEN Follow(L, c, cost, src, dst, dst, port)
        ELSE Of(ClosestReachableFromLocation(L, cost, dst),
                LAMBDA other :
                   IF same /\ isle(other[2]) # isle(dst) THEN Reply(c, TRUE)
                   ELSE IF other[1] # None
                   THEN Follow(L, c, cost, src, other[2], dst, other[1])
                   ELSE Reply(c, same))

ClosestPortal(L, dst) ==
    Of(ClosestReachablePortal(L, dst, TRUE),
       LAMBDA p : IF p # None THEN p ELSE ClosestReachablePortal(L, dst, FALSE))

Requested(L, c, src, dst) ==
    LET same == ChunkOf(src) = ChunkOf(dst)
        isle(t) == ClosestPathableLocalIsland(L, t)
        Proceed(made, port) ==
            IF \/ same /\ isle(src) = isle(dst)
               \/ /\ same
                  /\ BlockedOff(L, src) \/ BlockedOff(L, dst)
                  /\ NormallyReachable(src, dst)
            THEN Reply(made, TRUE)
            ELSE IF port = None THEN Reply(made, FALSE)
            ELSE Of(HopsFrom(L, src), LAMBDA cost : Routed(L, made, cost, src, dst, port))
    IN  IF dst \notin map.region[src] THEN Reply(c, FALSE)
        ELSE Of(DestField(L, c, dst),
                LAMBDA made : Of(ClosestPortal(L, dst), LAMBDA port : Proceed(made, port)))

-----------------------------------------------------------------------------
(* N_DesiredPointSeekVelocity: where a unit at t is steered, the caches      *)
(* after it, whether the field that it asserts is there (sound), and whether *)
(* it made a request for it.                                                 *)
DirAt(c, d, t) ==
    IF HasField(c, d, ChunkOf(t)) THEN c.flow[c.mapping[<<d, ChunkOf(t)>>]][t] ELSE None

Steer(c, dir, sound) == [dir |-> dir, fc |-> c, sound |-> sound, asked |-> TRUE]

Better(L, c, t, id) ==
    IF L[t] = 0 THEN FlowFieldUpdateToNearestPathable(t, id, c.flow[id])
    ELSE FlowFieldUpdateIslandToNearest(L, L[t], id, c.flow[id])
Steered(L, c, t, d) ==
    IF ~HasField(c, d, ChunkOf(t)) THEN Steer(c, None, FALSE)
    ELSE IF DirAt(c, d, t) # None THEN Steer(c, DirAt(c, d, t), TRUE)
    ELSE Of(c.mapping[<<d, ChunkOf(t)>>],
            LAMBDA id : Of(Better(L, c, t, id),
                           LAMBDA ff : Steer(PutFlowField(c, id, ff), ff[t], TRUE)))

(* After a request that was answered with r.                                 *)
Answered(L, t, d, r) ==
    IF r.ok THEN Steered(L, r.fc, t, d) ELSE Steer(r.fc, None, TRUE)

(* A chunk that had no mapping and whose new field does not lead on from t   *)
(* is asked for again.                                                       *)
AskedFor(L, t, d, r) ==
    IF HasMapping(fc, d, ChunkOf(t)) \/ ~r.ok \/ DirAt(r.fc, d, t) # None
    THEN Answered(L, t, d, r)
    ELSE Of(Requested(L, r.fc, t, d),
            LAMBDA again : Answered(L, t, d, again))

Sought(t, d) ==
    IF DirAt(fc, d, t) # None THEN [Steer(fc, DirAt(fc, d, t), TRUE) EXCEPT !.asked = FALSE]
    ELSE Of(UpdateLocalIslands,
            LAMBDA L : Of(Requested(L, fc, t, d), LAMBDA r : AskedFor(L, t, d, r)))

-----------------------------------------------------------------------------
NavInit ==
    /\ map = BuildForMapData
    /\ standing = {}
    /\ blockers = [t \in Passable |-> 0]
    /\ dirty = {}
    /\ islandsDirty = FALSE
    /\ liid = [t \in Passable |-> LocalIslands(ChunkOf(t))[t]]
    /\ active = map.links
    /\ fc = NoCache
    /\ changes = 0
    /\ displaced = 0

(* Variant: only a tile that becomes held makes its chunk dirty.             *)
UpdateHeld(tiles, delta) ==
    LET turned == {t \in tiles : blockers[t] = 0 /\ delta = 1}
    IN  /\ blockers' =
              [t \in Passable |-> IF t \in tiles THEN blockers[t] + delta ELSE blockers[t]]
        /\ dirty' = dirty \cup {ChunkOf(t) : t \in turned}
        /\ islandsDirty' = (islandsDirty \/ turned # {})

(* n_update_blockers: a chunk becomes dirty when one of its tiles changes    *)
(* between free and held.                                                    *)
UpdateBlockers(tiles, delta) ==
    LET after == [t \in Passable |-> IF t \in tiles THEN blockers[t] + delta ELSE blockers[t]]
        turned == {t \in tiles : (after[t] = 0) # (blockers[t] = 0)}
    IN  /\ blockers' = after
        /\ dirty' = dirty \cup {ChunkOf(t) : t \in turned}
        /\ islandsDirty' = (islandsDirty \/ turned # {})

BlockersIncref(o) ==
    /\ o \notin standing /\ changes < MaxChanges
    /\ standing' = standing \cup {o}
    /\ changes' = changes + 1
    /\ UpdateBlockers(Covers[o], 1)
    /\ UNCHANGED <<map, liid, active, fc, displaced>>

BlockersDecref(o) ==
    /\ o \in standing /\ changes < MaxChanges
    /\ standing' = standing \ {o}
    /\ changes' = changes + 1
    /\ UpdateBlockers(Covers[o], -1)
    /\ UNCHANGED <<map, liid, active, fc, displaced>>

RequestPath(s, d) ==
    /\ liid' = UpdateLocalIslands
    /\ islandsDirty' = FALSE
    /\ \E L \in {UpdateLocalIslands} : fc' = Requested(L, fc, s, d).fc
    /\ UNCHANGED <<map, standing, blockers, dirty, active, changes, displaced>>

(* The islands are brought up to date by the request that seeking makes.     *)
DesiredPointSeekVelocity(t, d) ==
    \E r \in {Sought(t, d)} :
        /\ liid' = IF r.asked THEN UpdateLocalIslands ELSE liid
        /\ islandsDirty' = (islandsDirty /\ ~r.asked)
        /\ fc' = r.fc
        /\ UNCHANGED <<map, standing, blockers, dirty, active, changes, displaced>>

(* n_local_ports_connected, over the links of a chunk.                       *)
LocalPortsConnected(L, p, q) ==
    \E a \in p.tiles \ Blocked, b \in q.tiles \ Blocked : L[a] = L[b]
EdgesOf(L, k) == {e \in map.links : e[1].chunk = k /\ LocalPortsConnected(L, e[1], e[2])}

NavUpdate ==
    LET L == UpdateLocalIslands
        before(k) == {e \in active : e[1].chunk = k}
        flipped == {k \in dirty : EdgesOf(L, k) # before(k)}
    IN  /\ dirty # {}
        /\ liid' = L
        /\ islandsDirty' = FALSE
        /\ active' = {e \in active : e[1].chunk \notin dirty}
                        \cup UNION {EdgesOf(L, k) : k \in dirty}
        /\ fc' = InvalidateAllThroughChunks(InvalidateAllAtChunks(fc, dirty), flipped)
        /\ dirty' = {}
        /\ UNCHANGED <<map, standing, blockers, changes, displaced>>

(* An entry is the least recently used one when those of paths outside the   *)
(* model fill the cache.                                                     *)
Displace ==
    /\ displaced < MaxDisplaced
    /\ displaced' = displaced + 1
    /\ \/ \E id \in DOMAIN fc.flow : fc' = [fc EXCEPT !.flow = Without(@, {id})]
       \/ \E x \in DOMAIN fc.mapping : fc' = [fc EXCEPT !.mapping = Without(@, {x})]
       \/ \E x \in DOMAIN fc.los : fc' = [fc EXCEPT !.los = Without(@, {x})]
    /\ UNCHANGED <<map, standing, blockers, dirty, islandsDirty, liid, active, changes>>

NavNext ==
    \/ \E o \in Objects : BlockersIncref(o) \/ BlockersDecref(o)
    \/ \E s \in Sources, d \in Dests : RequestPath(s, d) \/ DesiredPointSeekVelocity(s, d)
    \/ NavUpdate
    \/ Displace

NavSpec == NavInit /\ [][NavNext]_vars

-----------------------------------------------------------------------------
(* Types, and what the caches rest on: whatever is cached is listed for its  *)
(* chunk, and a mapping names a field of the chunk it is for.                *)
NavTypeOK ==
    /\ standing \subseteq Objects
    /\ \A t \in Passable : blockers[t] = Cardinality({o \in standing : t \in Covers[o]})
    /\ dirty \subseteq Chunk /\ islandsDirty \in BOOLEAN
    /\ islandsDirty => dirty # {}
    /\ liid \in [Passable -> 0 .. Rows * Cols]
    /\ active \subseteq map.links
    /\ DOMAIN fc.flow \subseteq fc.flowKeys /\ DOMAIN fc.los \subseteq fc.losKeys
    /\ \A id \in DOMAIN fc.flow : DOMAIN fc.flow[id] = map.tiles[id.chunk]
    /\ \A x \in DOMAIN fc.mapping : x[1] \in Dests /\ fc.mapping[x].chunk = x[2]
    /\ changes \in 0 .. MaxChanges /\ displaced \in 0 .. MaxDisplaced

(* The local islands of a chunk are those that its blockers leave, unless    *)
(* they are known to be out of date, and its links are active exactly when   *)
(* they can be walked, unless the next update will look at them.             *)
GraphExact ==
    \A k \in Chunk :
        /\ k \notin dirty \/ ~islandsDirty => [t \in map.tiles[k] |-> liid[t]] = LocalIslands(k)
        /\ k \notin dirty => {e \in active : e[1].chunk = k} = EdgesOf(liid, k)

(* In a chunk whose blockers have not changed since the last update, a       *)
(* cached field still leads somewhere: its directions never go in a circle   *)
(* over free tiles, those of a destination's field lead all of its island to *)
(* it, and a line of sight was made with the blockers that are there now.    *)
Led(id, t) ==
    FoldSet(LAMBDA n, u : IF u \in Free(id.chunk) THEN fc.flow[id][u] ELSE u, t, 0 .. Rows * Cols)
FieldsCurrent ==
    /\ \A id \in DOMAIN fc.flow : id.chunk \notin dirty =>
          /\ \A t \in Free(id.chunk) : Led(id, t) \notin Free(id.chunk)
          /\ OfTile(id) /\ id.tile \notin Blocked =>
                /\ fc.flow[id][id.tile] = None
                /\ \A t \in IslandOf(Free(id.chunk), id.tile) : Led(id, t) = None
    /\ \A x \in DOMAIN fc.los : x[2] \notin dirty => fc.los[x] = Blocked \cap map.tiles[x[2]]

(* What is derived from the blockers, islands, links, fields and lines of    *)
(* sight, is what would be derived from those that are there now, unless it  *)
(* is known to be out of date.                                               *)
DerivedExact == NavTypeOK /\ GraphExact /\ FieldsCurrent

(* Wherever a unit asks for its way, the field it is steered by exists after *)
(* a successful request: the assertion of N_DesiredPointSeekVelocity.        *)
FieldThere == \A s \in Sources, d \in Dests : Sought(s, d).sound

(* The lines of sight of a path are made in a row of neighbouring chunks,    *)
(* each from that of the chunk before it: the assertions of n_request_path,  *)
(* where they can be relied on.  Looked up in the chunk of the source, the   *)
(* local island of a tile in the destination's chunk has the number it has   *)
(* there.                                                                    *)
LookedUp(L, src, dst) ==
    \A t \in map.tiles[ChunkOf(dst)] : DestIsland(L, src, t) = ClosestPathableLocalIsland(L, t)
SightsInRow == \A s \in Sources, d \in Dests : \A L \in {UpdateLocalIslands} :
    LookedUp(L, s, d) => Requested(L, fc, s, d).sound

(* The same, of every request: it is not true of every map. *)
SightsAsserted == \A s \in Sources, d \in Dests : \A L \in {UpdateLocalIslands} :
    Requested(L, fc, s, d).sound

(* Free tiles joined by steps over free tiles that cross borders at portals. *)
Crossings == UNION {{<<t, Ahead(t, p.next)>> : t \in p.tiles} : p \in DOMAIN map.connected}
Joined(a, b) ==
    LET free == Passable \ Blocked
        Next(u) == {t \in free : /\ Dist(t, u) = 1
                                 /\ ChunkOf(t) # ChunkOf(u) => <<u, t>> \in Crossings}
    IN  b \in FoldSet(LAMBDA n, I : I \cup UNION {Next(u) : u \in I}, {a} \cap free,
                      1 .. Cardinality(Passable))

(* No request is refused, on an updated map, for a way that is there,        *)
(* whatever earlier ones have left in the caches.                            *)
RefusalsTrue == dirty = {} =>
    \A s \in Sources, d \in Dests :
        Joined(s, d) => Requested(liid, fc, s, d).ok

(* A request is served: its assertions hold, and those of who makes it; it   *)
(* is not refused for a way that is there.                                   *)
Served == FieldThere /\ SightsInRow /\ RefusalsTrue

(* A unit that can reach its destination is given a direction.               *)
Guided == dirty = {} =>
    \A s \in Sources, d \in Dests :
        Joined(s, d) /\ s # d => Sought(s, d).dir # None

(* The field of a hop leads the island it was made for out of the chunk, or  *)
(* to a stop.                                                                *)
HopsLead ==
    \A id \in DOMAIN fc.flow : id.chunk \notin dirty /\ ~OfTile(id) =>
        \A t \in Free(id.chunk) : liid[t] = id.iid => Led(id, t) \notin map.tiles[id.chunk]

(* Whoever can reach the destination finds the way, whatever earlier         *)
(* requests, blockers and displaced entries have left in the caches.         *)
WaysFound == Guided /\ HopsLead

(* The field in use for a destination in its own chunk leads the tiles of    *)
(* the destination's island to it.                                           *)
DestinationFieldKept ==
    \A d \in Dests :
        HasField(fc, d, ChunkOf(d)) /\ ChunkOf(d) \notin dirty /\ d \notin Blocked =>
            \A t \in IslandOf(Free(ChunkOf(d)), d) :
                Led(fc.mapping[<<d, ChunkOf(d)>>], t) = None
=============================================================================
