------------------------------- MODULE NavMap -------------------------------
(* The part of a map that the navigation derives once, when the map is       *)
(* built: tiles, chunks, the portals on the borders of chunks, the links     *)
(* between the portals of a chunk and the regions of mutually reachable      *)
(* tiles (nav.c, n_create_portals, n_link_chunk_portals,                     *)
(* n_build_portal_travel_index, n_update_island_field).                      *)
(*                                                                           *)
(* A tile is a pair <<row, column>> of the whole map.  Only the tiles that   *)
(* are not impassable are represented.  Steps are counted: every tile costs  *)
(* the same and there are no diagonal steps.                                 *)
EXTENDS Integers, FiniteSets, FiniteSetsExt, TLC

CONSTANTS
    Height, Width,      \* chunks of the map
    Rows, Cols,         \* tiles of a chunk
    Passable            \* tiles whose base cost is not COST_IMPASSABLE

ASSUME NavMapAssumption ==
    /\ {Height, Width, Rows, Cols} \subseteq Nat \ {0}
    /\ IsFiniteSet(Passable)
    /\ Passable \subseteq (0 .. Height * Rows - 1) \X (0 .. Width * Cols - 1)

(* F of what v is.                                                           *)
Of(v, F(_)) == CHOOSE y \in {F(x) : x \in {v}} : TRUE

(* The function f and, where it is not defined, g. *)
Over(f, g) == [x \in DOMAIN f \cup DOMAIN g |-> IF x \in DOMAIN f THEN f[x] ELSE g[x]]

Chunk == (0 .. Height - 1) \X (0 .. Width - 1)
ChunkOf(t) == <<t[1] \div Rows, t[2] \div Cols>>
Local(t) == <<t[1] % Rows, t[2] % Cols>>

(* The tile of chunk k at the place that t has in its own chunk. *)
SamePlace(k, t) == <<k[1] * Rows + Local(t)[1], k[2] * Cols + Local(t)[2]>>

TilesOf == [k \in Chunk |-> {t \in Passable : ChunkOf(t) = k}]
Abs(n) == IF n < 0 THEN -n ELSE n
Dist(a, b) == Abs(a[1] - b[1]) + Abs(a[2] - b[2])
Adjacent(k) == {l \in Chunk : Dist(k, l) = 1}

(* The place one step from t in the direction of the chunk l beside t's. *)
Ahead(t, l) == <<t[1] + l[1] - ChunkOf(t)[1], t[2] + l[2] - ChunkOf(t)[2]>>

(* How many times near is followed from the set first to get to what it      *)
(* leads to, a layer at a time.                                              *)
Grown(near, w) ==
    LET next == (UNION {near[x] : x \in w.last}) \ DOMAIN w.count
    IN  IF w.last = {} THEN w
        ELSE [count |-> Over([x \in next |-> w.far + 1], w.count), last |-> next,
              far |-> w.far + 1]
Layers(near, first, bound) ==
    FoldSet(LAMBDA n, w : Grown(near, w),
            [count |-> [x \in first |-> 0], last |-> first, far |-> 0], 1 .. bound).count

(* Steps through S to the nearest tile of F, for the tiles that reach one,   *)
(* and the tiles of S connected to t.                                        *)
Beside(t) ==
    {<<t[1] - 1, t[2]>>, <<t[1] + 1, t[2]>>, <<t[1], t[2] - 1>>, <<t[1], t[2] + 1>>}
StepsFrom(S, F) == Layers([t \in S \cup F |-> Beside(t) \cap S], F, Cardinality(S))
IslandOf(S, t) == DOMAIN StepsFrom(S, {t})

(* Portals: the maximal runs of a border that can be crossed.  A run that    *)
(* begins at the last tile of the border is opened and never closed.         *)
Border(k, l) == {t \in TilesOf[k] : Ahead(t, l) \in TilesOf[l]}
LastOfBorder(k, l) ==
    {t \in TilesOf[k] : IF k[1] = l[1] THEN Local(t)[1] = Rows - 1
                                       ELSE Local(t)[2] = Cols - 1}
Runs(k, l) == {IslandOf(Border(k, l), t) : t \in Border(k, l)}
OpenedAtLast(run, k, l) == run \subseteq LastOfBorder(k, l)
PortalsBetween(k, l) ==
    {[chunk |-> k, next |-> l, tiles |-> run] :
        run \in {u \in Runs(k, l) : ~OpenedAtLast(u, k, l)}}
Portal == UNION {UNION {PortalsBetween(k, l) : l \in Adjacent(k)} : k \in Chunk}
PortalsOf == [k \in Chunk |-> {p \in Portal : p.chunk = k}]
Connected == [p \in Portal |->
                CHOOSE q \in Portal : /\ q.chunk = p.next /\ q.next = p.chunk
                                      /\ q.tiles = {Ahead(t, p.next) : t \in p.tiles}]

TravelCost == [p \in Portal |-> StepsFrom(TilesOf[p.chunk], p.tiles)]

(* Links of a portal: the other portals of its chunk that can be walked to.  *)
Link ==
    UNION {{p} \X {q \in PortalsOf[p.chunk] \ {p} : q.tiles \cap DOMAIN TravelCost[p] # {}} :
                p \in Portal}

Region == [t \in Passable |-> IslandOf(Passable, t)]

(* What a map keeps of this.                                                 *)
BuildForMapData ==
    [tiles |-> TilesOf, portals |-> PortalsOf, connected |-> Connected,
     travel |-> TravelCost, links |-> Link, region |-> Region]
=============================================================================
