------------------------------ MODULE NavProofs ------------------------------
(* Proofs about navigation, for any map of passable tiles, any destinations, *)
(* sources and objects: what the map derives from blockers is what would be  *)
(* derived from those that are there now, unless it is known to be out of    *)
(* date (DerivedExact).                                                      *)
EXTENDS Nav, FiniteSetTheorems, WellFoundedInduction, SequenceTheorems, TLAPS
-----------------------------------------------------------------------------
(* Induction over numbers and finite sets, and folds.  The sets G and V and  *)
(* the functions st and ch stand for what would be a predicate, a type and   *)
(* operators: each lemma is about values only, and so fits every fold.       *)

\* A set that holds 0, and the successor of every number it holds, holds them all.
LEMMA NatSetInduction ==
  ASSUME NEW G, 0 \in G, \A n \in Nat : n \in G => n + 1 \in G
  PROVE  \A n \in Nat : n \in G
<1> DEFINE R == OpToRel(<, Nat)
           T == Nat \ G
<1>1. IsWellFoundedOn(R, Nat)
  BY NatLessThanWellFounded
<1>2. SUFFICES ASSUME T # {} PROVE FALSE
  OBVIOUS
<1>3. PICK x \in T : \A y \in T : ~ (<<y, x>> \in R)
  <2> HIDE DEF R
  <2>. QED BY <1>1, <1>2, WFMin
<1>4. x # 0 /\ x - 1 \in Nat
  BY SMT
<1>5. <<x - 1, x>> \in R
  BY <1>4 DEF OpToRel
<1>6. x - 1 \in G
  <2> HIDE DEF R
  <2>. QED BY <1>3, <1>4, <1>5
<1>. QED BY <1>4, <1>6

\* A set of sets that holds every set of which it holds all that are one element
\* less, and so the empty one, holds all subsets of a finite set.
LEMMA SetInduction ==
  ASSUME NEW S, IsFiniteSet(S), NEW G,
         \A T \in SUBSET S : (\A x \in T : T \ {x} \in G) => T \in G
  PROVE  \A T \in SUBSET S : T \in G
<1> DEFINE N == {n \in Nat : \A T \in SUBSET S : Cardinality(T) = n => T \in G}
<1>1. \A T \in SUBSET S : IsFiniteSet(T) /\ Cardinality(T) \in Nat
  BY FS_Subset, FS_CardinalityType
<1>2. 0 \in N
  BY <1>1, FS_EmptySet
<1>3. ASSUME NEW n \in Nat, n \in N PROVE n + 1 \in N
  <2> SUFFICES ASSUME NEW T \in SUBSET S, Cardinality(T) = n + 1 PROVE T \in G
    OBVIOUS
  <2>1. ASSUME NEW x \in T PROVE Cardinality(T \ {x}) = n
    BY <1>1, FS_RemoveElement
  <2>. QED BY <1>3, <2>1
<1>4. \A n \in Nat : n \in N
  <2> HIDE DEF N
  <2>. QED BY <1>2, <1>3, NatSetInduction
<1>. QED BY <1>1, <1>4
\* A fold over S that starts at b, chooses elements by ch and steps by st.
Folds(S, ch, V, b, st) ==
  /\ IsFiniteSet(S) /\ b \in V /\ st \in [S \X V -> V]
  /\ \A T \in SUBSET S : T # {} => ch[T] \in T

\* g is its value, for each subset of S.
FoldedBy(g, S, ch, V, b, st) ==
  /\ g \in [SUBSET S -> V]
  /\ g[{}] = b
  /\ \A T \in SUBSET S :
       T # {} => g[T] = st[<<ch[T], g[T \ {ch[T]}]>>] /\ ch[T] \in T /\ g[T \ {ch[T]}] \in V

\* A fold over a finite set is defined: there is a function that takes, of every
\* subset, the element chosen, and steps with it from the value of the others.
LEMMA FoldExists ==
  ASSUME NEW S, NEW ch, NEW V, NEW b, NEW st, Folds(S, ch, V, b, st)
  PROVE  \E g : FoldedBy(g, S, ch, V, b, st)
<1> USE DEF Folds
<1> DEFINE Val(g, T) == IF T = {} THEN b ELSE st[<<ch[T], g[T \ {ch[T]}]>>]
           F == [SUBSET S -> V]
           Good(g, n) == \A T \in SUBSET S : Cardinality(T) <= n => g[T] = Val(g, T)
           N == {n \in Nat : \E g \in F : Good(g, n)}
           base == [T \in SUBSET S |-> b]
<1>1. \A T \in SUBSET S : IsFiniteSet(T) /\ Cardinality(T) \in Nat
                          /\ (T # {} => Cardinality(T \ {ch[T]}) = Cardinality(T) - 1)
  BY FS_Subset, FS_CardinalityType, FS_RemoveElement
<1>2. 0 \in N
  <2>1. ASSUME NEW T \in SUBSET S, Cardinality(T) <= 0 PROVE T = {}
    <3>1. Cardinality(T) \in Nat /\ IsFiniteSet(T)
      BY <1>1
    <3>2. Cardinality(T) = 0
      BY <2>1, <3>1
    <3>. QED BY <3>1, <3>2, FS_EmptySet
  <2>2. base \in F
    OBVIOUS
  <2>3. Good(base, 0)
    BY <2>1
  <2> HIDE DEF Good, F, base
  <2>. QED BY <2>2, <2>3
<1>3. ASSUME NEW n \in Nat, n \in N PROVE n + 1 \in N
  <2>1. PICK g \in F : Good(g, n)
    BY <1>3
  <2> DEFINE h == [T \in SUBSET S |-> Val(g, T)]
  <2>2. h \in F
    <3>1. ASSUME NEW T \in SUBSET S PROVE Val(g, T) \in V
      <4>1. T # {} => <<ch[T], g[T \ {ch[T]}]>> \in S \X V
        OBVIOUS
      <4>. QED BY <4>1
    <3>. QED BY <3>1
  <2>3. ASSUME NEW T \in SUBSET S, Cardinality(T) <= n + 1 PROVE h[T] = Val(h, T)
    <3>1. CASE T = {}
      BY <3>1
    <3>2. CASE T # {}
      <4> DEFINE U == T \ {ch[T]}
      <4>1. U \in SUBSET S /\ Cardinality(U) <= n
        <5>1. U \in SUBSET S /\ Cardinality(U) = Cardinality(T) - 1
          BY <1>1, <3>2
        <5>2. Cardinality(T) \in Nat
          BY <1>1
        <5> HIDE DEF U
        <5>. QED BY <2>3, <5>1, <5>2
      <4>2. h[U] = g[U]
        BY <2>1, <4>1
      <4>. QED BY <3>2, <4>2
    <3>. QED BY <3>1, <3>2
  <2> HIDE DEF h, Val
  <2>4. Good(h, n + 1)
    BY <2>3
  <2> HIDE DEF Good, F
  <2>. QED BY <2>2, <2>4
<1>4. \A n \in Nat : n \in N
  <2> HIDE DEF N
  <2>. QED BY <1>2, <1>3, NatSetInduction
<1>5. PICK g \in F : Good(g, Cardinality(S))
  BY <1>1, <1>4
<1>6. \A T \in SUBSET S : Cardinality(T) <= Cardinality(S)
  BY FS_Subset
<1>. QED BY <1>5, <1>6 DEF FoldedBy
\* good[T] are the values a fold over S may have when it has come to the subset T:
\* b with none, and a step with one element more leads from one to the next.
Leads(S, V, good, b, st) ==
  /\ IsFiniteSet(S) /\ DOMAIN st = S \X V
  /\ \A T \in SUBSET S : good[T] \subseteq V
  /\ b \in good[{}]
  /\ \A T \in SUBSET S : \A x \in T : \A v \in good[T \ {x}] : st[<<x, v>>] \in good[T]

\* g is the fold that takes the elements that ch chooses.
Follows(g, S, V, ch, b, st) ==
  /\ g = [T \in SUBSET S |-> g[T]]
  /\ g[{}] = b
  /\ \A T \in SUBSET S :
       T # {} => g[T] = st[<<ch[T], g[T \ {ch[T]}]>>] /\ ch[T] \in T /\ g[T \ {ch[T]}] \in V

\* Such a fold is defined.
LEMMA FoldWithin ==
  ASSUME NEW S, NEW V, NEW good, NEW b, NEW st, Leads(S, V, good, b, st),
         NEW ch, \A T \in SUBSET S : T # {} => ch[T] \in T
  PROVE  \E g : Follows(g, S, V, ch, b, st)
<1> USE DEF Leads
<1> DEFINE safe == [p \in S \X V |-> IF st[p] \in V THEN st[p] ELSE b]
<1>1. b \in V /\ safe \in [S \X V -> V]
  OBVIOUS
<1>2. \A x \in S, v \in V : st[<<x, v>>] \in V => safe[<<x, v>>] = st[<<x, v>>]
  OBVIOUS
<1> HIDE DEF safe
<1>3. PICK g : FoldedBy(g, S, ch, V, b, safe)
  BY <1>1, FoldExists DEF Folds
<1>4. \A T \in SUBSET S :
        T # {} => g[T] = safe[<<ch[T], g[T \ {ch[T]}]>>] /\ ch[T] \in T /\ g[T \ {ch[T]}] \in V
  BY <1>3 DEF FoldedBy
<1> DEFINE G == {T \in SUBSET S : g[T] \in good[T]}
<1>5. ASSUME NEW T \in SUBSET S, T # {}, T \ {ch[T]} \in G
      PROVE  g[T] = st[<<ch[T], g[T \ {ch[T]}]>>] /\ T \in G
  <2>1. ch[T] \in T /\ g[T \ {ch[T]}] \in V /\ g[T \ {ch[T]}] \in good[T \ {ch[T]}]
    BY <1>4, <1>5
  <2>2. st[<<ch[T], g[T \ {ch[T]}]>>] \in good[T]
    BY <2>1
  <2>3. st[<<ch[T], g[T \ {ch[T]}]>>] \in V
    BY <2>2
  <2>4. g[T] = safe[<<ch[T], g[T \ {ch[T]}]>>]
    BY <1>4, <1>5
  <2>5. g[T] = st[<<ch[T], g[T \ {ch[T]}]>>]
    BY <1>2, <2>1, <2>3, <2>4
  <2>. QED BY <2>2, <2>5
<1>6. \A T \in SUBSET S : T \in G
  <2>1. ASSUME NEW T \in SUBSET S, \A x \in T : T \ {x} \in G PROVE T \in G
    <3>1. CASE T = {}
      BY <1>3, <3>1 DEF FoldedBy
    <3>2. CASE T # {}
      BY <1>4, <1>5, <2>1, <3>2
    <3>. QED BY <3>1, <3>2
  <2> HIDE DEF G
  <2>. QED BY <2>1, SetInduction
<1>7. \A T \in SUBSET S : T # {} => g[T] = st[<<ch[T], g[T \ {ch[T]}]>>]
  BY <1>4, <1>5, <1>6
<1>8. g = [T \in SUBSET S |-> g[T]] /\ g[{}] = b
  BY <1>3 DEF FoldedBy
<1>. QED BY <1>4, <1>7, <1>8 DEF Follows

\* it steps from value to value, in whatever order.
Recurs(it, S, V, b, st) ==
  /\ it[{}] = b
  /\ \A T \in SUBSET S : T # {} =>
       \E c \in T : it[T \ {c}] \in V => it[T] = st[<<c, it[T \ {c}]>>]

\* It ends with a value that is good for all of S.
LEMMA FoldLands ==
  ASSUME NEW S, NEW V, NEW good, NEW b, NEW st, Leads(S, V, good, b, st),
         NEW it, Recurs(it, S, V, b, st)
  PROVE  it[S] \in good[S]
<1> USE DEF Leads, Recurs
<1> DEFINE G == {T \in SUBSET S : it[T] \in good[T]}
<1>1. ASSUME NEW T \in SUBSET S, \A x \in T : T \ {x} \in G PROVE T \in G
  <2>1. CASE T = {}
    BY <2>1
  <2>2. CASE T # {}
    <3>1. PICK c \in T : it[T \ {c}] \in V => it[T] = st[<<c, it[T \ {c}]>>]
      BY <2>2
    <3>2. it[T \ {c}] \in good[T \ {c}] /\ T \ {c} \in SUBSET S
      BY <1>1
    <3>. QED BY <3>1, <3>2
  <2>. QED BY <2>1, <2>2
<1>2. \A T \in SUBSET S : T \in G
  <2> HIDE DEF G
  <2>. QED BY <1>1, SetInduction
<1>. QED BY <1>2

\* What comes first, of every subset: what a fold takes out next.
Firsts(S) == [T \in SUBSET S |-> CHOOSE x \in T : TRUE]

LEMMA FirstsAre ==
  ASSUME NEW S
  PROVE  \A T \in SUBSET S : T # {} => Firsts(S)[T] \in T /\ Firsts(S)[T] = CHOOSE x \in T : TRUE
BY DEF Firsts

\* A recursion that has a solution, and follows it, ends with a good value.
LEMMA FoldReaches ==
  ASSUME NEW S, NEW V, NEW good, NEW b, NEW st, Leads(S, V, good, b, st),
         NEW it, \A k : Follows(k, S, V, Firsts(S), b, st) => Recurs(it, S, V, b, st)
  PROVE  it[S] \in good[S]
<1>1. \A T \in SUBSET S : T # {} => Firsts(S)[T] \in T
  BY FirstsAre
<1>2. PICK k : Follows(k, S, V, Firsts(S), b, st)
  BY <1>1, FoldWithin
<1>3. Recurs(it, S, V, b, st)
  BY <1>2
<1>. QED BY <1>3, FoldLands
-----------------------------------------------------------------------------
(* Searches *)

\* What is in one of the sets near[x].
LEMMA UnionIs ==
  ASSUME NEW A, NEW near
  PROVE  \A y : y \in UNION {near[x] : x \in A} <=> \E x \in A : y \in near[x]
<1>1. \A B : B \in {near[x] : x \in A} <=> \E x \in A : B = near[x]
  OBVIOUS
<1> DEFINE all == {near[x] : x \in A}
<1>2. \A y : y \in UNION all <=> \E B \in all : y \in B
  <2> HIDE DEF all
  <2>. QED OBVIOUS
<1> HIDE DEF all
<1>3. \A B : B \in all <=> \E x \in A : B = near[x]
  BY <1>1 DEF all
<1>4. \A y : y \in UNION all <=> \E x \in A : y \in near[x]
  BY <1>2, <1>3
<1>. QED BY <1>4 DEF all

\* One function over another.
LEMMA OverDomain ==
  ASSUME NEW f, NEW g
  PROVE  DOMAIN Over(f, g) = DOMAIN f \union DOMAIN g
BY DEF Over

LEMMA OverAt ==
  ASSUME NEW f, NEW g, NEW x \in DOMAIN f \union DOMAIN g
  PROVE  Over(f, g)[x] = IF x \in DOMAIN f THEN f[x] ELSE g[x]
BY DEF Over

Waves(X) == [count : UNION {[D -> Nat] : D \in SUBSET X}, last : SUBSET X, far : Nat]

\* w is what a search from first along near, into N, may have found in n rounds.
Layered(X, N, near, first, n, w) ==
  /\ w \in Waves(X) /\ w.far <= n
  /\ first \subseteq DOMAIN w.count /\ w.last \subseteq DOMAIN w.count
  /\ \A x \in DOMAIN w.count : w.count[x] <= w.far /\ (w.count[x] = 0 <=> x \in first)
  /\ \A x \in DOMAIN w.count \ first :
       \E y \in DOMAIN w.count : w.count[y] = w.count[x] - 1 /\ x \in near[y]
  /\ \A x \in w.last : w.count[x] = w.far
  /\ \A x \in DOMAIN w.count \ w.last : near[x] \subseteq DOMAIN w.count
  /\ IsFiniteSet(N) => w.last = {} \/ Cardinality(N \intersect DOMAIN w.count) >= n

\* A round more keeps it so: it counts what it finds as one farther than the last.
LEMMA GrownOnce ==
  ASSUME NEW X, NEW N \in SUBSET X, NEW near \in [X -> SUBSET N], NEW first \in SUBSET X,
         NEW n \in Nat, NEW w, Layered(X, N, near, first, n, w)
  PROVE  Layered(X, N, near, first, n + 1, Grown(near, w))
<1> DEFINE c == w.count
           next == (UNION {near[x] : x \in w.last}) \ DOMAIN c
           new == [x \in next |-> w.far + 1]
           count == Over(new, c)
           v == [count |-> count, last |-> next, far |-> w.far + 1]
<1>1. CASE w.last = {}
  <2>1. Grown(near, w) = w
    BY <1>1 DEF Grown
  <2>. QED BY <1>1, <2>1 DEF Layered, Waves
<1>2. CASE w.last # {}
  <2>1. Grown(near, w) = v
    BY <1>2 DEF Grown
  <2>2. PICK D \in SUBSET X : c \in [D -> Nat] /\ DOMAIN c = D
    BY DEF Layered, Waves
  <2>3. /\ w.last \subseteq D /\ first \subseteq D /\ w.far \in Nat /\ w.far <= n
        /\ next \subseteq N /\ \A y : y \in next <=> (\E x \in w.last : y \in near[x]) /\ y \notin D
    <3>1. w.last \subseteq D /\ first \subseteq D /\ w.far \in Nat /\ w.far <= n
      BY <2>2 DEF Layered, Waves
    <3>2. \A y : y \in UNION {near[x] : x \in w.last} <=> \E x \in w.last : y \in near[x]
      BY UnionIs
    <3>3. \A y : y \in next <=> (\E x \in w.last : y \in near[x]) /\ y \notin D
      BY <2>2, <3>2
    <3>. QED BY <3>1, <3>3
  <2> HIDE DEF next
  <2>a. DOMAIN new = next /\ \A x \in next : new[x] = w.far + 1
    OBVIOUS
  <2>b. count = Over(new, c) /\ DOMAIN c = D
    BY <2>2
  <2> HIDE DEF new, count, c
  <2>4. DOMAIN count = D \union next /\ next \intersect D = {}
    <3>1. DOMAIN count = DOMAIN new \union DOMAIN c
      BY <2>b, OverDomain
    <3>2. next \intersect D = {}
      BY <2>3
    <3>. QED BY <2>a, <2>b, <3>1, <3>2
  <2>5. \A x \in D : count[x] = c[x]
    BY <2>4, <2>a, <2>b, OverAt
  <2>6. \A x \in next : count[x] = w.far + 1
    BY <2>4, <2>a, <2>b, OverAt
  <2> USE DEF c
  <2>7. v \in Waves(X)
    <3>1. count = [x \in D \union next |-> count[x]]
      <4>1. DOMAIN c = D
        BY <2>2
      <4> HIDE DEF c
      <4>. QED BY <2>a, <4>1 DEF count, Over
    <3>2. \A x \in D \union next : count[x] \in Nat
      BY <2>2, <2>3, <2>5, <2>6
    <3>3. count \in [D \union next -> Nat]
      BY <3>1, <3>2
    <3>4. D \union next \in SUBSET X /\ next \in SUBSET X /\ w.far + 1 \in Nat
      BY <2>3
    <3>. QED BY <3>3, <3>4 DEF Waves
  <2>8. \A x \in D \union next : count[x] <= w.far + 1 /\ (count[x] = 0 <=> x \in first)
    BY <2>2, <2>3, <2>4, <2>5, <2>6 DEF Layered
  <2>9. \A x \in (D \union next) \ first :
          \E y \in D \union next : count[y] = count[x] - 1 /\ x \in near[y]
    <3>1. ASSUME NEW x \in D \ first
          PROVE  \E y \in D \union next : count[y] = count[x] - 1 /\ x \in near[y]
      <4>1. PICK y \in D : c[y] = c[x] - 1 /\ x \in near[y]
        BY <2>2 DEF Layered
      <4>. QED BY <2>5, <4>1
    <3>2. ASSUME NEW x \in next
          PROVE  \E y \in D \union next : count[y] = count[x] - 1 /\ x \in near[y]
      <4>1. PICK y \in w.last : x \in near[y]
        BY <2>3
      <4>2. c[y] = w.far
        BY DEF Layered
      <4>. QED BY <2>3, <2>5, <2>6, <4>1, <4>2
    <3>. QED BY <3>1, <3>2
  <2>10. \A x \in D : near[x] \subseteq D \union next
    <3>1. \A x \in D \ w.last : near[x] \subseteq D
      BY <2>2 DEF Layered
    <3>2. \A x \in w.last : near[x] \subseteq D \union next
      BY <2>3
    <3>. QED BY <3>1, <3>2
  <2>11. IsFiniteSet(N) => next = {} \/ Cardinality(N \intersect (D \union next)) >= n + 1
    <3> SUFFICES ASSUME IsFiniteSet(N), NEW x \in next
                 PROVE  Cardinality(N \intersect (D \union next)) >= n + 1
      OBVIOUS
    <3> DEFINE E == N \intersect D
    <3>1. Cardinality(E) >= n
      BY <1>2, <2>2 DEF Layered
    <3>2. IsFiniteSet(E) /\ Cardinality(E) \in Nat
      BY FS_Subset, FS_CardinalityType
    <3>3. x \in N /\ x \notin E
      BY <2>3, <2>4
    <3>4. IsFiniteSet(E \union {x}) /\ Cardinality(E \union {x}) = Cardinality(E) + 1
      BY <3>2, <3>3, FS_AddElement
    <3>5. E \union {x} \subseteq N \intersect (D \union next)
      BY <3>3
    <3>6. IsFiniteSet(N \intersect (D \union next))
      BY FS_Subset
    <3>7. Cardinality(E \union {x}) <= Cardinality(N \intersect (D \union next))
      BY <3>5, <3>6, FS_Subset
    <3>8. Cardinality(N \intersect (D \union next)) \in Nat
      BY <3>6, FS_CardinalityType
    <3> HIDE DEF E
    <3>. QED BY <3>1, <3>2, <3>4, <3>7, <3>8
  <2>12. /\ v.count = count /\ v.last = next /\ v.far = w.far + 1
    OBVIOUS
  <2> HIDE DEF v
  <2>13. w.far + 1 <= n + 1
    BY <2>3
  <2>14. first \subseteq D \union next /\ next \subseteq D \union next
    BY <2>3
  <2>15. \A x \in (D \union next) \ next : near[x] \subseteq D \union next
    BY <2>10
  <2>. QED BY <2>1, <2>4, <2>6, <2>7, <2>8, <2>9, <2>11, <2>12, <2>13, <2>14, <2>15 DEF Layered
<1>. QED BY <1>1, <1>2

\* A search from first is what it may have found in as many rounds as it has.
LEMMA LayersAre ==
  ASSUME NEW X, NEW N \in SUBSET X, NEW near \in [X -> SUBSET N], NEW first \in SUBSET X,
         NEW bound \in Nat
  PROVE  \E w : /\ Layered(X, N, near, first, bound, w)
                /\ Layers(near, first, bound) = w.count
<1> DEFINE S == 1..bound
           b == [count |-> [x \in first |-> 0], last |-> first, far |-> 0]
           Rec(f) == f = [T \in SUBSET S |->
                            IF T = {} THEN b
                            ELSE LET x == CHOOSE x \in T : TRUE IN Grown(near, f[T \ {x}])]
           it == CHOOSE f : Rec(f)
           V == Waves(X)
           st == [p \in S \X V |-> Grown(near, p[2])]
           good == [T \in SUBSET S |-> {w \in V : Layered(X, N, near, first, Cardinality(T), w)}]
<1>1. Layers(near, first, bound) = it[S].count
  BY DEF Layers, FoldSet, MapThenFoldSet
<1>2. DOMAIN st = S \X V /\ \A e \in S, w \in V : st[<<e, w>>] = Grown(near, w)
  OBVIOUS
<1>3. \A T \in SUBSET S : \A w : w \in good[T] <=> w \in V /\ Layered(X, N, near, first, Cardinality(T), w)
  OBVIOUS
<1>4. IsFiniteSet(S) /\ Cardinality(S) = bound
  BY FS_Interval
<1>5. \A T \in SUBSET S : IsFiniteSet(T) /\ Cardinality(T) \in Nat
  BY <1>4, FS_Subset, FS_CardinalityType
<1>6. b \in V /\ Layered(X, N, near, first, 0, b)
  <2> DEFINE c == [x \in first |-> 0]
  <2>1. c \in [first -> Nat] /\ DOMAIN c = first /\ \A x \in first : c[x] = 0
    OBVIOUS
  <2>2. b.count = c /\ b.last = first /\ b.far = 0 /\ b = [count |-> c, last |-> first, far |-> 0]
    OBVIOUS
  <2> HIDE DEF c, b
  <2>3. b \in V
    BY <2>1, <2>2 DEF Waves
  <2>4. IsFiniteSet(N) => Cardinality(N \intersect first) >= 0
    BY FS_Subset, FS_CardinalityType
  <2>. QED BY <2>1, <2>2, <2>3, <2>4 DEF Layered
<1> HIDE DEF st, V, good, b, S
<1>7. ASSUME NEW f, Follows(f, S, V, Firsts(S), b, st)
      PROVE  Recurs(it, S, V, b, st)
  <2> DEFINE ch == Firsts(S)
  <2>1. \A T \in SUBSET S : T # {} => ch[T] \in T /\ ch[T] = CHOOSE x \in T : TRUE
    BY FirstsAre
  <2>2. \A T \in SUBSET S : T # {} => f[T] = Grown(near, f[T \ {ch[T]}])
    BY <1>2, <1>7 DEF Follows
  <2>3. /\ f = [T \in SUBSET S |-> f[T]]
        /\ \A T \in SUBSET S :
             f[T] = IF T = {} THEN b
                    ELSE LET x == CHOOSE x \in T : TRUE IN Grown(near, f[T \ {x}])
    BY <1>7, <2>1, <2>2 DEF Follows
  <2>4. Rec(f)
    BY <2>3
  <2>5. Rec(it)
    <3> HIDE DEF Rec
    <3>. QED BY <2>4
  <2> HIDE DEF it
  <2>6. \A T \in SUBSET S :
          it[T] = IF T = {} THEN b
                  ELSE LET x == CHOOSE x \in T : TRUE IN Grown(near, it[T \ {x}])
    BY <2>5
  <2>7. it[{}] = b /\ \A T \in SUBSET S : T # {} => it[T] = Grown(near, it[T \ {ch[T]}])
    BY <2>1, <2>6
  <2> HIDE DEF Rec, ch
  <2>8. \A T \in SUBSET S : T # {} =>
          ch[T] \in T /\ (it[T \ {ch[T]}] \in V => it[T] = st[<<ch[T], it[T \ {ch[T]}]>>])
    BY <1>2, <2>1, <2>7
  <2>. QED BY <2>7, <2>8 DEF Recurs
<1> HIDE DEF it
<1>8. \A f : Follows(f, S, V, Firsts(S), b, st) => Recurs(it, S, V, b, st)
  BY <1>7
<1>9. ASSUME NEW T \in SUBSET S, NEW e \in T, NEW w \in good[T \ {e}]
      PROVE  st[<<e, w>>] \in good[T]
  <2>1. w \in V /\ Layered(X, N, near, first, Cardinality(T \ {e}), w)
    BY <1>3
  <2>2. Cardinality(T \ {e}) \in Nat /\ Cardinality(T) = Cardinality(T \ {e}) + 1
    BY <1>5, FS_RemoveElement
  <2>3. Layered(X, N, near, first, Cardinality(T), Grown(near, w))
    BY <2>1, <2>2, GrownOnce
  <2>4. Grown(near, w) \in V
    BY <2>3 DEF Layered, V
  <2>5. st[<<e, w>>] = Grown(near, w)
    BY <1>2, <2>1
  <2>. QED BY <1>3, <2>3, <2>4, <2>5
<1>10. Leads(S, V, good, b, st)
  <2>1. \A T \in SUBSET S : good[T] \subseteq V
    BY <1>3
  <2>2. b \in good[{}]
    BY <1>3, <1>6, FS_EmptySet
  <2>. QED BY <1>2, <1>4, <1>9, <2>1, <2>2 DEF Leads
<1>11. it[S] \in good[S]
  BY <1>8, <1>10, FoldReaches
<1>12. Layered(X, N, near, first, bound, it[S])
  BY <1>3, <1>4, <1>11
<1>. QED BY <1>1, <1>12
-----------------------------------------------------------------------------
(* Steps and islands *)

Place == Int \X Int

LEMMA BesideIs ==
  /\ \A t \in Place : Beside(t) \subseteq Place /\ t \notin Beside(t)
  /\ \A t, u \in Place : t \in Beside(u) <=> u \in Beside(t)
<1>1. \A t \in Place : t = <<t[1], t[2]>> /\ t[1] \in Int /\ t[2] \in Int
  BY DEF Place
<1>2. ASSUME NEW t \in Place, NEW u \in Place, t \in Beside(u) PROVE u \in Beside(t)
  <2>1. /\ t = <<t[1], t[2]>> /\ t[1] \in Int /\ t[2] \in Int
        /\ u = <<u[1], u[2]>> /\ u[1] \in Int /\ u[2] \in Int
    BY <1>1
  <2>2. \/ t = <<u[1] - 1, u[2]>> \/ t = <<u[1] + 1, u[2]>>
        \/ t = <<u[1], u[2] - 1>> \/ t = <<u[1], u[2] + 1>>
    BY <1>2 DEF Beside
  <2>3. \/ u = <<t[1] + 1, t[2]>> \/ u = <<t[1] - 1, t[2]>>
        \/ u = <<t[1], t[2] + 1>> \/ u = <<t[1], t[2] - 1>>
    <3>1. CASE t = <<u[1] - 1, u[2]>>
      <4>1. t[1] = u[1] - 1 /\ t[2] = u[2]
        BY <3>1
      <4>. QED BY <2>1, <4>1
    <3>2. CASE t = <<u[1] + 1, u[2]>>
      <4>1. t[1] = u[1] + 1 /\ t[2] = u[2]
        BY <3>2
      <4>. QED BY <2>1, <4>1
    <3>3. CASE t = <<u[1], u[2] - 1>>
      <4>1. t[1] = u[1] /\ t[2] = u[2] - 1
        BY <3>3
      <4>. QED BY <2>1, <4>1
    <3>4. CASE t = <<u[1], u[2] + 1>>
      <4>1. t[1] = u[1] /\ t[2] = u[2] + 1
        BY <3>4
      <4>. QED BY <2>1, <4>1
    <3>. QED BY <2>2, <3>1, <3>2, <3>3, <3>4
  <2>. QED BY <2>3 DEF Beside
<1>3. ASSUME NEW t \in Place PROVE Beside(t) \subseteq Place /\ t \notin Beside(t)
  BY <1>1 DEF Beside, Place
<1>. QED BY <1>2, <1>3

\* c counts steps through S from the nearest tile of F, and is defined wherever
\* such steps lead.
Steps(S, F, c) ==
  /\ F \subseteq DOMAIN c /\ DOMAIN c \subseteq S \union F
  /\ \A t \in DOMAIN c : c[t] \in 0..Cardinality(S) /\ (c[t] = 0 <=> t \in F)
  /\ \A t \in DOMAIN c \ F : t \in S /\ \E u \in Beside(t) \intersect DOMAIN c : c[u] = c[t] - 1
  /\ \A t \in DOMAIN c : Beside(t) \intersect S \subseteq DOMAIN c

LEMMA StepsAre ==
  ASSUME NEW S \in SUBSET Place, IsFiniteSet(S), NEW F \in SUBSET Place
  PROVE  Steps(S, F, StepsFrom(S, F))
<1> DEFINE X == S \union F
           near == [t \in X |-> Beside(t) \intersect S]
           n == Cardinality(S)
           c == StepsFrom(S, F)
<1>1. n \in Nat
  BY FS_CardinalityType
<1>2. near \in [X -> SUBSET S] /\ S \in SUBSET X /\ F \in SUBSET X
  OBVIOUS
<1>3. \A t \in X : near[t] = Beside(t) \intersect S
  OBVIOUS
<1>4. c = Layers(near, F, n)
  BY DEF StepsFrom
<1> HIDE DEF near, n, c
<1>5. PICK w : Layered(X, S, near, F, n, w) /\ c = w.count
  <2> HIDE DEF X
  <2>. QED BY <1>1, <1>2, <1>4, LayersAre
<1>6. PICK D \in SUBSET X : c \in [D -> Nat] /\ DOMAIN c = D
  BY <1>5 DEF Layered, Waves
<1>7. F \subseteq D /\ w.last \subseteq D /\ w.far \in Nat /\ w.far <= n
  BY <1>5, <1>6 DEF Layered, Waves
<1>8. \A t \in D : c[t] \in 0..n /\ (c[t] = 0 <=> t \in F)
  <2>1. \A t \in D : c[t] \in Nat /\ c[t] <= w.far /\ (c[t] = 0 <=> t \in F)
    BY <1>5, <1>6 DEF Layered
  <2>. QED BY <1>1, <1>7, <2>1
<1>9. ASSUME NEW t \in D \ F
      PROVE  t \in S /\ \E u \in Beside(t) \intersect D : c[u] = c[t] - 1
  <2>1. PICK u \in D : c[u] = c[t] - 1 /\ t \in near[u]
    BY <1>5, <1>6 DEF Layered
  <2>2. t \in Beside(u) /\ t \in S
    BY <1>3, <1>6, <2>1
  <2>3. t \in Place /\ u \in Place
    BY <1>6
  <2>4. u \in Beside(t)
    BY <2>2, <2>3, BesideIs
  <2>. QED BY <2>1, <2>2, <2>4
<1>10. \A t \in D : Beside(t) \intersect S \subseteq D
  <2>1. CASE w.last = {}
    <3>1. \A t \in D : near[t] \subseteq D
      BY <1>5, <1>6, <2>1 DEF Layered
    <3>. QED BY <1>3, <1>6, <3>1
  <2>2. CASE w.last # {}
    <3>1. Cardinality(S \intersect D) >= n
      BY <1>5, <1>6, <2>2 DEF Layered
    <3>2. /\ S \intersect D \in SUBSET S /\ Cardinality(S \intersect D) <= n
          /\ Cardinality(S) = Cardinality(S \intersect D) => S = S \intersect D
      BY FS_Subset DEF n
    <3>3. Cardinality(S \intersect D) \in Nat
      BY FS_Subset, FS_CardinalityType
    <3>4. Cardinality(S) = Cardinality(S \intersect D)
      BY <1>1, <3>1, <3>2, <3>3 DEF n
    <3>. QED BY <3>2, <3>4
  <2>. QED BY <2>1, <2>2
<1>. QED BY <1>6, <1>7, <1>8, <1>9, <1>10 DEF Steps, c, n

\* Steps stay in every set that holds where they begin and what is beside it.
LEMMA StepsStay ==
  ASSUME NEW S \in SUBSET Place, NEW F \in SUBSET Place, NEW c, Steps(S, F, c),
         NEW C, F \subseteq C, \A t \in C \intersect DOMAIN c : Beside(t) \intersect S \subseteq C
  PROVE  DOMAIN c \subseteq C
<1> DEFINE G == {n \in Nat : \A t \in DOMAIN c : c[t] = n => t \in C}
<1>1. 0 \in G
  BY DEF Steps
<1>2. ASSUME NEW n \in Nat, n \in G PROVE n + 1 \in G
  <2> SUFFICES ASSUME NEW t \in DOMAIN c, c[t] = n + 1 PROVE t \in C
    OBVIOUS
  <2>1. t \in DOMAIN c \ F
    <3>1. c[t] # 0
      OBVIOUS
    <3>. QED BY <3>1 DEF Steps
  <2>2. PICK u \in Beside(t) \intersect DOMAIN c : c[u] = c[t] - 1
    BY <2>1 DEF Steps
  <2>3. t \in S /\ u \in DOMAIN c /\ c[u] = n
    BY <2>1, <2>2 DEF Steps
  <2>4. u \in C
    BY <1>2, <2>3
  <2>5. t \in Place /\ u \in Place
    BY <2>3 DEF Steps
  <2>6. t \in Beside(u)
    BY <2>2, <2>5, BesideIs
  <2>. QED BY <2>3, <2>4, <2>6
<1>3. \A n \in Nat : n \in G
  <2> HIDE DEF G
  <2>. QED BY <1>1, <1>2, NatSetInduction
<1>4. \A t \in DOMAIN c : c[t] \in Nat
  BY DEF Steps
<1>. QED BY <1>3, <1>4

\* The island of a tile holds it, is part of S, and holds what is beside it.
LEMMA IslandIs ==
  ASSUME NEW S \in SUBSET Place, IsFiniteSet(S), NEW t \in S
  PROVE  /\ t \in IslandOf(S, t) /\ IslandOf(S, t) \subseteq S
         /\ \A u \in IslandOf(S, t) : Beside(u) \intersect S \subseteq IslandOf(S, t)
<1>1. Steps(S, {t}, StepsFrom(S, {t}))
  BY StepsAre
<1>. QED BY <1>1 DEF Steps, IslandOf

\* It is the smallest such set,
LEMMA IslandLeast ==
  ASSUME NEW S \in SUBSET Place, IsFiniteSet(S), NEW t \in S,
         NEW C, t \in C, \A u \in C \intersect S : Beside(u) \intersect S \subseteq C
  PROVE  IslandOf(S, t) \subseteq C
<1>1. Steps(S, {t}, StepsFrom(S, {t})) /\ {t} \in SUBSET Place
  BY StepsAre
<1>2. DOMAIN StepsFrom(S, {t}) \subseteq S
  BY <1>1 DEF Steps
<1>. QED BY <1>1, <1>2, StepsStay DEF IslandOf

\* and that of every tile in it.
LEMMA IslandSame ==
  ASSUME NEW S \in SUBSET Place, IsFiniteSet(S), NEW t \in S, NEW u \in IslandOf(S, t)
  PROVE  IslandOf(S, u) = IslandOf(S, t)
<1> DEFINE A == IslandOf(S, t)
           B == IslandOf(S, u)
<1>1. /\ u \in S /\ t \in A /\ A \subseteq S
      /\ \A x \in A : Beside(x) \intersect S \subseteq A
  BY IslandIs
<1>2. u \in B /\ B \subseteq S /\ \A x \in B : Beside(x) \intersect S \subseteq B
  BY <1>1, IslandIs
<1> HIDE DEF A, B
<1>3. B \subseteq A
  <2>1. \A x \in A \intersect S : Beside(x) \intersect S \subseteq A
    BY <1>1
  <2>2. u \in A
    BY DEF A
  <2>. QED BY <1>1, <2>1, <2>2, IslandLeast DEF B
<1>4. t \in B
  <2> SUFFICES ASSUME t \notin B PROVE FALSE
    OBVIOUS
  <2> DEFINE C == S \ B
  <2>1. \A x \in C \intersect S : Beside(x) \intersect S \subseteq C
    <3> SUFFICES ASSUME NEW x \in S \ B, NEW y \in Beside(x) \intersect S, y \in B PROVE FALSE
      OBVIOUS
    <3>1. x \in Beside(y)
      BY BesideIs
    <3>. QED BY <1>2, <3>1
  <2>2. t \in C
    OBVIOUS
  <2> HIDE DEF C
  <2>3. A \subseteq C
    BY <2>1, <2>2, IslandLeast DEF A
  <2>. QED BY <1>2, <2>3 DEF A, C
<1>5. A \subseteq B
  <2>1. \A x \in B \intersect S : Beside(x) \intersect S \subseteq B
    BY <1>2
  <2>. QED BY <1>4, <2>1, IslandLeast DEF A
<1>. QED BY <1>3, <1>5 DEF A, B
-----------------------------------------------------------------------------
(* The map *)

\* Division of a place into chunks.
LEMMA Divided ==
  ASSUME NEW r \in Nat \ {0}, NEW x \in Int
  PROVE  \E q \in Int, m \in 0..(r - 1) : x \div r = q /\ x % r = m /\ x = r * q + m
<1>1. x \div r \in Int
  OBVIOUS
<1>2. x % r \in 0..(r - 1)
  OBVIOUS
<1>3. x % r = x - r * (x \div r)
  OBVIOUS
<1>4. PICK q \in Int, m \in 0..(r - 1) : x \div r = q /\ x % r = m
  BY <1>1, <1>2
<1>5. m = x - r * q
  BY <1>3, <1>4
<1>6. x = r * q + m
  BY <1>5
<1>. QED BY <1>4, <1>6

LEMMA DivideWithin ==
  ASSUME NEW r \in Nat \ {0}, NEW h \in Nat \ {0}, NEW x \in 0..(h * r - 1)
  PROVE  x \div r \in 0..(h - 1)
<1>1. PICK q \in Int, m \in 0..(r - 1) : x \div r = q /\ x % r = m /\ x = r * q + m
  BY Divided
<1>2. q >= 0
  <2> SUFFICES ASSUME q <= -1 PROVE FALSE
    BY <1>1
  <2>1. r * q <= r * (-1)
    BY <1>1
  <2>. QED BY <1>1, <2>1
<1>3. q <= h - 1
  <2> SUFFICES ASSUME q >= h PROVE FALSE
    BY <1>1
  <2>1. r * q >= r * h
    BY <1>1
  <2>. QED BY <1>1, <2>1
<1>. QED BY <1>1, <1>2, <1>3

LEMMA PassableAre ==
  /\ Passable \in SUBSET Place /\ IsFiniteSet(Passable) /\ None \notin Passable
  /\ \A t \in Passable : ChunkOf(t) \in Chunk
  /\ Dests \subseteq Passable /\ Sources \subseteq Passable
<1>1. /\ Height \in Nat \ {0} /\ Width \in Nat \ {0} /\ Rows \in Nat \ {0} /\ Cols \in Nat \ {0}
      /\ IsFiniteSet(Passable)
      /\ Passable \subseteq (0 .. Height * Rows - 1) \X (0 .. Width * Cols - 1)
  BY NavMapAssumption
<1>2. Height * Rows \in Int /\ Width * Cols \in Int
  BY <1>1
<1>3. Passable \in SUBSET Place
  BY <1>1, <1>2 DEF Place
<1>4. ASSUME NEW t \in Passable PROVE ChunkOf(t) \in Chunk
  <2>1. t[1] \in 0..(Height * Rows - 1) /\ t[2] \in 0..(Width * Cols - 1)
    BY <1>1
  <2>2. t[1] \div Rows \in 0..(Height - 1) /\ t[2] \div Cols \in 0..(Width - 1)
    BY <1>1, <2>1, DivideWithin
  <2>. QED BY <2>2 DEF ChunkOf, Chunk
<1>. QED BY <1>1, <1>3, <1>4, NavAssumption

LEMMA TilesAre ==
  /\ \A k \in Chunk : /\ TilesOf[k] \in SUBSET Passable /\ TilesOf[k] \in SUBSET Place
                      /\ IsFiniteSet(TilesOf[k])
                      /\ \A t : t \in TilesOf[k] <=> t \in Passable /\ ChunkOf(t) = k
  /\ \A t \in Passable : t \in TilesOf[ChunkOf(t)]
<1>1. \A k \in Chunk : TilesOf[k] = {t \in Passable : ChunkOf(t) = k}
  BY DEF TilesOf
<1>. QED BY <1>1, PassableAre, FS_Subset

\* A chunk has no more tiles than places.
LEMMA TilesCounted ==
  ASSUME NEW k \in Chunk
  PROVE  Cardinality(TilesOf[k]) \in Nat /\ Cardinality(TilesOf[k]) <= Rows * Cols
<1> DEFINE T == TilesOf[k]
           U == (0..(Rows - 1)) \X (0..(Cols - 1))
           f == [t \in T |-> Local(t)]
<1>1. Rows \in Nat \ {0} /\ Cols \in Nat \ {0}
  BY NavMapAssumption
<1>2. T \in SUBSET Place /\ IsFiniteSet(T) /\ \A t \in T : ChunkOf(t) = k
  BY TilesAre
<1>3. ASSUME NEW t \in T
      PROVE  \E a \in 0..(Rows - 1), b \in 0..(Cols - 1) :
               Local(t) = <<a, b>> /\ t = <<Rows * k[1] + a, Cols * k[2] + b>>
  <2>1. t = <<t[1], t[2]>> /\ t[1] \in Int /\ t[2] \in Int
    BY <1>2 DEF Place
  <2>2. k = <<t[1] \div Rows, t[2] \div Cols>>
    BY <1>2 DEF ChunkOf
  <2>3. PICK p \in Int, a \in 0..(Rows - 1) :
          t[1] \div Rows = p /\ t[1] % Rows = a /\ t[1] = Rows * p + a
    BY <1>1, <2>1, Divided
  <2>4. PICK q \in Int, b \in 0..(Cols - 1) :
          t[2] \div Cols = q /\ t[2] % Cols = b /\ t[2] = Cols * q + b
    BY <1>1, <2>1, Divided
  <2>5. Local(t) = <<a, b>> /\ k = <<p, q>>
    BY <2>2, <2>3, <2>4 DEF Local
  <2>6. t = <<Rows * p + a, Cols * q + b>>
    BY <2>1, <2>3, <2>4
  <2>. QED BY <2>5, <2>6
<1>4. f \in Injection(T, U)
  <2>1. f \in [T -> U]
    <3>1. \A t \in T : Local(t) \in U
      BY <1>3
    <3>. QED BY <3>1
  <2>2. ASSUME NEW t \in T, NEW u \in T, Local(t) = Local(u) PROVE t = u
    <3>1. PICK a, b : Local(t) = <<a, b>> /\ t = <<Rows * k[1] + a, Cols * k[2] + b>>
      BY <1>3
    <3>2. PICK c, d : Local(u) = <<c, d>> /\ u = <<Rows * k[1] + c, Cols * k[2] + d>>
      BY <1>3
    <3>3. <<a, b>> = <<c, d>>
      BY <2>2, <3>1, <3>2, Zenon
    <3>4. a = c /\ b = d
      BY <3>3
    <3>. QED BY <3>1, <3>2, <3>4, Zenon
  <2>. QED BY <2>1, <2>2 DEF Injection, IsInjective
<1>5. IsFiniteSet(0..(Rows - 1)) /\ Cardinality(0..(Rows - 1)) = Rows
  BY <1>1, FS_Interval
<1>6. IsFiniteSet(0..(Cols - 1)) /\ Cardinality(0..(Cols - 1)) = Cols
  BY <1>1, FS_Interval
<1>7. IsFiniteSet(U) /\ Cardinality(U) = Rows * Cols
  <2> DEFINE A == 0..(Rows - 1)
             B == 0..(Cols - 1)
  <2> HIDE DEF A, B
  <2>1. IsFiniteSet(A) /\ Cardinality(A) = Rows /\ IsFiniteSet(B) /\ Cardinality(B) = Cols
    BY <1>5, <1>6 DEF A, B
  <2>2. IsFiniteSet(A \X B) /\ Cardinality(A \X B) = Rows * Cols
    BY <2>1, FS_Product
  <2>. QED BY <2>2 DEF A, B
<1> HIDE DEF f, U
<1>8. Cardinality(T) <= Cardinality(U)
  BY <1>4, <1>7, FS_Injection
<1>. QED BY <1>2, <1>7, <1>8, FS_CardinalityType

LEMMA AdjacentAre ==
  ASSUME NEW k \in Chunk, NEW l \in Adjacent(k)
  PROVE  /\ l \in Chunk /\ k \in Adjacent(l)
         /\ k \in Place /\ l \in Place
         /\ \/ k[1] = l[1] /\ (l[2] = k[2] + 1 \/ l[2] = k[2] - 1)
            \/ k[2] = l[2] /\ (l[1] = k[1] + 1 \/ l[1] = k[1] - 1)
<1>1. l \in Chunk /\ Dist(k, l) = 1
  BY DEF Adjacent
<1>2. Height \in Int /\ Width \in Int
  BY NavMapAssumption
<1>3. k[1] \in Int /\ k[2] \in Int /\ l[1] \in Int /\ l[2] \in Int /\ k \in Place /\ l \in Place
  BY <1>1, <1>2 DEF Chunk, Place
<1>4. Dist(l, k) = 1
  BY <1>1, <1>3 DEF Dist, Abs
<1>5. \/ k[1] = l[1] /\ (l[2] = k[2] + 1 \/ l[2] = k[2] - 1)
      \/ k[2] = l[2] /\ (l[1] = k[1] + 1 \/ l[1] = k[1] - 1)
  BY <1>1, <1>3 DEF Dist, Abs
<1>. QED BY <1>1, <1>3, <1>4, <1>5 DEF Adjacent

\* A place as far from t as the chunk l is from k.
Moved(t, k, l) == <<t[1] + l[1] - k[1], t[2] + l[2] - k[2]>>

LEMMA MovedIs ==
  ASSUME NEW k \in Place, NEW l \in Place, NEW t \in Place
  PROVE  /\ Moved(t, k, l) \in Place /\ Moved(Moved(t, k, l), l, k) = t
         /\ \A u \in Place : u \in Beside(t) => Moved(u, k, l) \in Beside(Moved(t, k, l))
<1> DEFINE a == l[1] - k[1]
           b == l[2] - k[2]
           s == Moved(t, k, l)
<1>1. /\ t = <<t[1], t[2]>> /\ t[1] \in Int /\ t[2] \in Int
      /\ k[1] \in Int /\ k[2] \in Int /\ l[1] \in Int /\ l[2] \in Int
  BY DEF Place
<1>2. /\ s \in Place /\ s[1] = t[1] + l[1] - k[1] /\ s[2] = t[2] + l[2] - k[2]
      /\ s = <<s[1], s[2]>>
  BY <1>1 DEF Moved, Place
<1>3. Moved(s, l, k) = t
  <2>1. s[1] + k[1] - l[1] = t[1] /\ s[2] + k[2] - l[2] = t[2]
    BY <1>1, <1>2
  <2>. QED BY <1>1, <2>1 DEF Moved
<1>4. ASSUME NEW u \in Place, u \in Beside(t) PROVE Moved(u, k, l) \in Beside(s)
  <2> DEFINE v == Moved(u, k, l)
  <2>1. /\ u = <<u[1], u[2]>> /\ u[1] \in Int /\ u[2] \in Int
        /\ v = <<u[1] + l[1] - k[1], u[2] + l[2] - k[2]>>
    BY <1>4 DEF Place, Moved
  <2> HIDE DEF v, s
  <2>2. CASE u = <<t[1] - 1, t[2]>>
    <3>1. u[1] = t[1] - 1 /\ u[2] = t[2]
      BY <2>2
    <3>2. v = <<s[1] - 1, s[2]>>
      BY <1>1, <1>2, <2>1, <3>1
    <3>. QED BY <3>2 DEF Beside, v
  <2>3. CASE u = <<t[1] + 1, t[2]>>
    <3>1. u[1] = t[1] + 1 /\ u[2] = t[2]
      BY <2>3
    <3>2. v = <<s[1] + 1, s[2]>>
      BY <1>1, <1>2, <2>1, <3>1
    <3>. QED BY <3>2 DEF Beside, v
  <2>4. CASE u = <<t[1], t[2] - 1>>
    <3>1. u[1] = t[1] /\ u[2] = t[2] - 1
      BY <2>4
    <3>2. v = <<s[1], s[2] - 1>>
      BY <1>1, <1>2, <2>1, <3>1
    <3>. QED BY <3>2 DEF Beside, v
  <2>5. CASE u = <<t[1], t[2] + 1>>
    <3>1. u[1] = t[1] /\ u[2] = t[2] + 1
      BY <2>5
    <3>2. v = <<s[1], s[2] + 1>>
      BY <1>1, <1>2, <2>1, <3>1
    <3>. QED BY <3>2 DEF Beside, v
  <2>. QED BY <1>4, <2>2, <2>3, <2>4, <2>5 DEF Beside
<1>. QED BY <1>2, <1>3, <1>4

LEMMA AheadIs ==
  ASSUME NEW k \in Chunk, NEW t \in TilesOf[k], NEW l
  PROVE  Ahead(t, l) = Moved(t, k, l)
<1>1. ChunkOf(t) = k
  BY TilesAre
<1>. QED BY <1>1 DEF Ahead, Moved

\* The border of a chunk is that of its neighbour, moved.
LEMMA BorderIs ==
  ASSUME NEW k \in Chunk, NEW l \in Adjacent(k)
  PROVE  /\ Border(k, l) \in SUBSET TilesOf[k] /\ Border(k, l) \in SUBSET Place
         /\ IsFiniteSet(Border(k, l))
         /\ \A t : t \in Border(k, l) <=> t \in TilesOf[k] /\ Moved(t, k, l) \in TilesOf[l]
         /\ \A t \in Border(k, l) : Ahead(t, l) = Moved(t, k, l) /\ Moved(t, k, l) \in Border(l, k)
<1>1. Border(k, l) = {t \in TilesOf[k] : Ahead(t, l) \in TilesOf[l]}
  BY DEF Border
<1>2. l \in Chunk /\ k \in Place /\ l \in Place /\ k \in Adjacent(l)
  BY AdjacentAre
<1>3. TilesOf[k] \in SUBSET Place /\ IsFiniteSet(TilesOf[k])
  BY TilesAre
<1>4. \A t \in TilesOf[k] : Ahead(t, l) = Moved(t, k, l)
  BY AheadIs
<1>5. ASSUME NEW t \in Border(k, l) PROVE Moved(t, k, l) \in Border(l, k)
  <2> DEFINE u == Moved(t, k, l)
  <2>1. t \in TilesOf[k] /\ u \in TilesOf[l] /\ t \in Place
    BY <1>1, <1>3, <1>4
  <2>2. Moved(u, l, k) = t
    BY <1>2, <2>1, MovedIs
  <2>3. Ahead(u, k) = t
    BY <1>2, <2>1, <2>2, AheadIs
  <2>. QED BY <2>1, <2>3 DEF Border
<1>. QED BY <1>1, <1>3, <1>4, <1>5, FS_Subset

\* So are the runs of it,
LEMMA RunMoved ==
  ASSUME NEW k \in Chunk, NEW l \in Adjacent(k), NEW t \in Border(k, l)
  PROVE  IslandOf(Border(l, k), Moved(t, k, l)) =
           {Moved(u, k, l) : u \in IslandOf(Border(k, l), t)}
<1> DEFINE A == Border(k, l)
           B == Border(l, k)
           I == IslandOf(A, t)
           J == IslandOf(B, Moved(t, k, l))
           M(u) == Moved(u, k, l)
           N(u) == Moved(u, l, k)
<1>1. l \in Chunk /\ k \in Place /\ l \in Place /\ k \in Adjacent(l)
  BY AdjacentAre
<1>2. /\ A \in SUBSET Place /\ IsFiniteSet(A) /\ B \in SUBSET Place /\ IsFiniteSet(B)
      /\ \A u \in A : M(u) \in B
      /\ \A u \in B : N(u) \in A
      /\ t \in A /\ M(t) \in B
  BY <1>1, BorderIs
<1>3. \A u \in A : N(M(u)) = u
  BY <1>1, <1>2, MovedIs
<1>4. \A u \in B : M(N(u)) = u
  BY <1>1, <1>2, MovedIs
<1>5. \A u, v \in A : v \in Beside(u) => M(v) \in Beside(M(u))
  BY <1>1, <1>2, MovedIs
<1>6. \A u, v \in B : v \in Beside(u) => N(v) \in Beside(N(u))
  BY <1>1, <1>2, MovedIs
<1>7. /\ t \in I /\ I \subseteq A /\ \A u \in I : Beside(u) \intersect A \subseteq I
  BY <1>2, IslandIs
<1>8. /\ M(t) \in J /\ J \subseteq B /\ \A u \in J : Beside(u) \intersect B \subseteq J
  BY <1>2, IslandIs
<1>9. J \subseteq {M(u) : u \in I}
  <2> DEFINE C == {u \in B : N(u) \in I}
  <2>1. M(t) \in C
    BY <1>2, <1>3, <1>7
  <2>2. \A u \in C \intersect B : Beside(u) \intersect B \subseteq C
    <3> SUFFICES ASSUME NEW u \in C, NEW v \in Beside(u) \intersect B PROVE N(v) \in I
      OBVIOUS
    <3>1. N(v) \in Beside(N(u)) /\ N(v) \in A /\ N(u) \in I
      BY <1>2, <1>6
    <3> HIDE DEF I, A, N
    <3>. QED BY <1>7, <3>1
  <2> HIDE DEF C, I, A, N
  <2>3. J \subseteq C
    BY <1>2, <2>1, <2>2, IslandLeast
  <2>4. ASSUME NEW v \in J PROVE \E u \in I : v = M(u)
    <3>1. N(v) \in I /\ v \in B
      BY <2>3, <2>4 DEF C
    <3>2. v = M(N(v))
      BY <1>4, <3>1
    <3>. QED BY <3>1, <3>2
  <2>. QED BY <2>4
<1>10. {M(u) : u \in I} \subseteq J
  <2> DEFINE C == {u \in A : M(u) \in J}
  <2>1. t \in C
    BY <1>8
  <2>2. \A u \in C \intersect A : Beside(u) \intersect A \subseteq C
    <3> SUFFICES ASSUME NEW u \in C, NEW v \in Beside(u) \intersect A PROVE M(v) \in J
      OBVIOUS
    <3>1. M(v) \in Beside(M(u)) /\ M(v) \in B /\ M(u) \in J
      BY <1>2, <1>5
    <3> HIDE DEF J, B, M
    <3>. QED BY <1>8, <3>1
  <2> HIDE DEF C, J, B, M
  <2>3. I \subseteq C
    BY <1>2, <2>1, <2>2, IslandLeast
  <2>. QED BY <2>3 DEF C
<1>. QED BY <1>9, <1>10

\* and whether a run ends where the border does.
LEMMA LastMoved ==
  ASSUME NEW k \in Chunk, NEW l \in Adjacent(k), NEW run \in SUBSET Border(k, l),
         OpenedAtLast({Moved(u, k, l) : u \in run}, l, k)
  PROVE  OpenedAtLast(run, k, l)
<1>1. l \in Chunk /\ k \in Adjacent(l) /\ k \in Place /\ l \in Place
  BY AdjacentAre
<1>2. \/ k[1] = l[1] /\ (l[2] = k[2] + 1 \/ l[2] = k[2] - 1)
      \/ k[2] = l[2] /\ (l[1] = k[1] + 1 \/ l[1] = k[1] - 1)
  BY AdjacentAre
<1>3. k[1] \in Int /\ k[2] \in Int /\ l[1] \in Int /\ l[2] \in Int
  BY <1>1 DEF Place
<1> SUFFICES ASSUME NEW t \in run PROVE t \in LastOfBorder(k, l)
  BY DEF OpenedAtLast
<1> DEFINE u == Moved(t, k, l)
<1>4. t \in Border(k, l) /\ t \in TilesOf[k] /\ t[1] \in Int /\ t[2] \in Int
  BY BorderIs DEF Place
<1>5. u \in LastOfBorder(l, k)
  <2>1. u \in {Moved(v, k, l) : v \in run}
    OBVIOUS
  <2> HIDE DEF u
  <2>. QED BY <2>1 DEF OpenedAtLast
<1>6. u[1] = t[1] + l[1] - k[1] /\ u[2] = t[2] + l[2] - k[2]
  BY DEF Moved
<1> HIDE DEF u
<1>7. CASE k[1] = l[1]
  <2>1. u[1] % Rows = Rows - 1
    BY <1>5, <1>7 DEF LastOfBorder, Local
  <2>2. u[1] = t[1]
    BY <1>3, <1>4, <1>6, <1>7
  <2>. QED BY <1>4, <1>7, <2>1, <2>2 DEF LastOfBorder, Local
<1>8. CASE k[1] # l[1]
  <2>1. u[2] % Cols = Cols - 1
    BY <1>5, <1>8 DEF LastOfBorder, Local
  <2>2. u[2] = t[2]
    BY <1>2, <1>3, <1>4, <1>6, <1>8
  <2>. QED BY <1>4, <1>8, <2>1, <2>2 DEF LastOfBorder, Local
<1>. QED BY <1>7, <1>8

\* A portal is a run of the border of its chunk with the next, closed before its end.
LEMMA PortalsAre ==
  /\ \A k \in Chunk : \A l \in Adjacent(k) : \A run \in Runs(k, l) :
       ~OpenedAtLast(run, k, l) => [chunk |-> k, next |-> l, tiles |-> run] \in Portal
  /\ \A p \in Portal : /\ p.chunk \in Chunk /\ p.next \in Adjacent(p.chunk)
                       /\ p.tiles \in Runs(p.chunk, p.next)
                       /\ ~OpenedAtLast(p.tiles, p.chunk, p.next)
<1> DEFINE of(k) == UNION {PortalsBetween(k, l) : l \in Adjacent(k)}
<1>1. \A k : \A p : p \in of(k) <=> \E l \in Adjacent(k) : p \in PortalsBetween(k, l)
  OBVIOUS
<1> HIDE DEF of
<1>2. Portal = UNION {of(k) : k \in Chunk}
  BY DEF Portal, of
<1>3. \A p : p \in Portal <=> \E k \in Chunk : p \in of(k)
  BY <1>2
<1>4. \A p : p \in Portal <=> \E k \in Chunk : \E l \in Adjacent(k) : p \in PortalsBetween(k, l)
  BY <1>1, <1>3
<1>5. ASSUME NEW k, NEW l, NEW p
      PROVE  p \in PortalsBetween(k, l) <=>
               \E run \in Runs(k, l) : /\ ~OpenedAtLast(run, k, l)
                                       /\ p = [chunk |-> k, next |-> l, tiles |-> run]
  BY DEF PortalsBetween
<1>. QED BY <1>4, <1>5

LEMMA PortalTiles ==
  ASSUME NEW p \in Portal
  PROVE  /\ p.chunk \in Chunk /\ p.next \in Adjacent(p.chunk) /\ p.next \in Chunk
         /\ p.tiles \in SUBSET TilesOf[p.chunk] /\ p.tiles \in SUBSET Place
         /\ p.tiles \subseteq Border(p.chunk, p.next)
         /\ \A t \in p.tiles : /\ Ahead(t, p.next) = Moved(t, p.chunk, p.next)
                               /\ Ahead(t, p.next) \in TilesOf[p.next]
<1>1. p.chunk \in Chunk /\ p.next \in Adjacent(p.chunk) /\ p.tiles \in Runs(p.chunk, p.next)
  BY PortalsAre
<1>2. PICK t \in Border(p.chunk, p.next) : p.tiles = IslandOf(Border(p.chunk, p.next), t)
  BY <1>1 DEF Runs
<1>3. p.tiles \subseteq Border(p.chunk, p.next)
  <2>1. Border(p.chunk, p.next) \in SUBSET Place /\ IsFiniteSet(Border(p.chunk, p.next))
    BY <1>1, BorderIs
  <2>. QED BY <1>2, <2>1, IslandIs
<1>4. p.next \in Chunk
  BY <1>1, AdjacentAre
<1>5. ASSUME NEW u \in Border(p.chunk, p.next)
      PROVE  /\ u \in TilesOf[p.chunk] /\ u \in Place
             /\ Ahead(u, p.next) = Moved(u, p.chunk, p.next) /\ Ahead(u, p.next) \in TilesOf[p.next]
  BY <1>1, BorderIs
<1>. QED BY <1>1, <1>3, <1>4, <1>5

\* On the other side of every portal there is one.
LEMMA Mirrored ==
  /\ DOMAIN Connected = Portal
  /\ \A p \in Portal : /\ Connected[p] \in Portal
                       /\ Connected[p].chunk = p.next /\ Connected[p].next = p.chunk
                       /\ Connected[p].tiles = {Ahead(t, p.next) : t \in p.tiles}
<1>1. ASSUME NEW p \in Portal
      PROVE  /\ Connected[p] \in Portal /\ Connected[p].chunk = p.next /\ Connected[p].next = p.chunk
             /\ Connected[p].tiles = {Ahead(t, p.next) : t \in p.tiles}
  <2> DEFINE k == p.chunk
             l == p.next
             run == {Moved(t, k, l) : t \in p.tiles}
             q == [chunk |-> l, next |-> k, tiles |-> run]
  <2>1. /\ k \in Chunk /\ l \in Adjacent(k) /\ l \in Chunk /\ k \in Adjacent(l)
        /\ p.tiles \in Runs(k, l) /\ ~OpenedAtLast(p.tiles, k, l)
        /\ p.tiles \in SUBSET Border(k, l)
        /\ \A t \in p.tiles : Ahead(t, l) = Moved(t, k, l)
    BY PortalsAre, PortalTiles, AdjacentAre
  <2>2. PICK t \in Border(k, l) : p.tiles = IslandOf(Border(k, l), t)
    BY <2>1 DEF Runs
  <2>3. run \in Runs(l, k)
    <3>1. run = IslandOf(Border(l, k), Moved(t, k, l))
      BY <2>1, <2>2, RunMoved
    <3>2. Moved(t, k, l) \in Border(l, k)
      BY <2>1, BorderIs
    <3>. QED BY <3>1, <3>2 DEF Runs
  <2>4. ~OpenedAtLast(run, l, k)
    BY <2>1, LastMoved
  <2>5. run = {Ahead(t_1, l) : t_1 \in p.tiles}
    <3> HIDE DEF k, l
    <3>. QED BY <2>1
  <2>6. q \in Portal /\ q.chunk = p.next /\ q.next = p.chunk /\ q.tiles = run
    <3>1. q.chunk = p.next /\ q.next = p.chunk /\ q.tiles = run
      OBVIOUS
    <3> HIDE DEF run
    <3>. QED BY <2>1, <2>3, <2>4, <3>1, PortalsAre
  <2> HIDE DEF q, run
  <2>7. \E x \in Portal : /\ x.chunk = p.next /\ x.next = p.chunk
                          /\ x.tiles = {Ahead(t_1, p.next) : t_1 \in p.tiles}
    BY <2>5, <2>6
  <2>. QED BY <2>7 DEF Connected
<1>. QED BY <1>1 DEF Connected
-----------------------------------------------------------------------------
(* Local islands *)

MapKept == map = BuildForMapData

LEMMA MapIs ==
  ASSUME MapKept
  PROVE  /\ map.tiles = TilesOf /\ map.portals = PortalsOf /\ map.connected = Connected
         /\ map.links = Link /\ map.travel = TravelCost /\ map.region = Region
BY DEF MapKept, BuildForMapData

LEMMA FreeIs ==
  ASSUME MapKept, NEW k \in Chunk
  PROVE  /\ Free(k) \in SUBSET TilesOf[k] /\ Free(k) \in SUBSET Place /\ IsFiniteSet(Free(k))
         /\ Free(k) \in SUBSET Passable
         /\ \A t : t \in Free(k) <=> t \in TilesOf[k] /\ t \notin Blocked
         /\ Cardinality(Free(k)) \in Nat /\ Cardinality(Free(k)) <= Rows * Cols
         /\ \A t \in Free(k) : ChunkOf(t) = k
<1>1. TilesOf[k] \in SUBSET Place /\ TilesOf[k] \in SUBSET Passable /\ IsFiniteSet(TilesOf[k])
  BY TilesAre
<1>2. Cardinality(TilesOf[k]) \in Nat /\ Cardinality(TilesOf[k]) <= Rows * Cols
  BY TilesCounted
<1>3. Free(k) = TilesOf[k] \ Blocked
  BY MapIs DEF Free
<1>4. Free(k) \in SUBSET TilesOf[k]
  BY <1>3
<1>5. IsFiniteSet(Free(k)) /\ Cardinality(Free(k)) <= Cardinality(TilesOf[k])
  BY <1>1, <1>4, FS_Subset
<1>6. Cardinality(Free(k)) \in Nat
  BY <1>5, FS_CardinalityType
<1>7. Cardinality(Free(k)) <= Rows * Cols
  <2>1. Rows * Cols \in Int
    BY NavMapAssumption
  <2>. QED BY <1>2, <1>5, <1>6, <2>1
<1>8. \A t \in Free(k) : ChunkOf(t) = k
  BY <1>4, TilesAre
<1>. QED BY <1>1, <1>3, <1>4, <1>5, <1>6, <1>7, <1>8

\* The number of a tile's island is between 0 and the tiles of a chunk, and the
\* same for all free tiles of the island.
LEMMA LocalIslandsAre ==
  ASSUME MapKept, NEW k \in Chunk
  PROVE  /\ LocalIslands(k) \in [TilesOf[k] -> 0..Rows * Cols]
         /\ \A t, u \in Free(k) : u \in IslandOf(Free(k), t) =>
              LocalIslands(k)[u] = LocalIslands(k)[t]
<1> DEFINE F == Free(k)
           isles == {IslandOf(F, t) : t \in F}
           Upto(t) == {i \in isles : First(i) <= First(IslandOf(F, t))}
           l == LocalIslands(k)
<1>1. l = [t \in TilesOf[k] |-> IF t \in Blocked THEN 0 ELSE Cardinality(Upto(t))]
  BY MapIs DEF LocalIslands
<1>2. /\ F \in SUBSET Place /\ IsFiniteSet(F) /\ Cardinality(F) \in Nat /\ Cardinality(F) <= Rows * Cols
      /\ \A t : t \in F <=> t \in TilesOf[k] /\ t \notin Blocked
  BY FreeIs
<1>3. IsFiniteSet(isles) /\ Cardinality(isles) <= Cardinality(F)
  <2> HIDE DEF F
  <2> DEFINE f == [t \in F |-> IslandOf(F, t)]
  <2>1. f \in Surjection(F, isles)
    BY DEF Surjection
  <2>. QED BY <1>2, <2>1, FS_Surjection
<1>4. ASSUME NEW t PROVE Cardinality(Upto(t)) \in 0..Rows * Cols
  <2> HIDE DEF isles
  <2>1. Upto(t) \in SUBSET isles
    OBVIOUS
  <2> HIDE DEF Upto
  <2>2. Cardinality(Upto(t)) \in Nat /\ Cardinality(Upto(t)) <= Cardinality(isles)
    BY <1>3, <2>1, FS_Subset, FS_CardinalityType
  <2>3. Cardinality(isles) \in Nat /\ Rows * Cols \in Int
    BY <1>3, FS_CardinalityType, NavMapAssumption
  <2>. QED BY <1>2, <1>3, <2>2, <2>3
<1>5. ASSUME NEW t \in F, NEW u \in F, u \in IslandOf(F, t) PROVE l[u] = l[t]
  <2>1. IslandOf(F, u) = IslandOf(F, t)
    <3> HIDE DEF F
    <3>. QED BY <1>2, <1>5, IslandSame
  <2>2. Upto(u) = Upto(t)
    <3> HIDE DEF isles, F
    <3>. QED BY <2>1
  <2> HIDE DEF Upto, l, F
  <2>. QED BY <1>1, <1>2, <2>2
<1>6. 0 \in 0..Rows * Cols
  BY NavMapAssumption
<1> HIDE DEF Upto, l, F
<1>7. l \in [TilesOf[k] -> 0..Rows * Cols]
  BY <1>1, <1>4, <1>6
<1>. QED BY <1>5, <1>7 DEF l, F

\* L numbers the local islands that the blockers leave.
Current(L) ==
  /\ L \in [Passable -> 0..Rows * Cols]
  /\ \A k \in Chunk : \A t \in TilesOf[k] : L[t] = LocalIslands(k)[t]

LEMMA CurrentIs ==
  ASSUME MapKept, NEW L, Current(L), NEW k \in Chunk
  PROVE  \A t, u \in Free(k) : u \in Beside(t) => L[u] = L[t]
<1> SUFFICES ASSUME NEW t \in Free(k), NEW u \in Free(k), u \in Beside(t) PROVE L[u] = L[t]
  OBVIOUS
<1>1. Free(k) \in SUBSET Place /\ IsFiniteSet(Free(k)) /\ Free(k) \in SUBSET TilesOf[k]
  BY FreeIs
<1>2. u \in IslandOf(Free(k), t)
  BY <1>1, IslandIs
<1>3. LocalIslands(k)[u] = LocalIslands(k)[t]
  BY <1>2, LocalIslandsAre
<1>. QED BY <1>1, <1>3 DEF Current

\* What GraphExact says of local islands.
IslandsExact ==
  \A k \in Chunk :
    k \notin dirty \/ ~islandsDirty => [t \in map.tiles[k] |-> liid[t]] = LocalIslands(k)

\* A request has the numbers that the blockers leave.
LEMMA UpdateCurrent ==
  ASSUME MapKept, dirty \subseteq Chunk, liid \in [Passable -> 0..Rows * Cols], IslandsExact
  PROVE  Current(UpdateLocalIslands)
<1> DEFINE isles == [k \in dirty |-> LocalIslands(k)]
           L == UpdateLocalIslands
<1>1. L = [t \in Passable |->
             IF islandsDirty /\ ChunkOf(t) \in dirty THEN isles[ChunkOf(t)][t] ELSE liid[t]]
  BY DEF UpdateLocalIslands
<1>2. \A k \in dirty : isles[k] = LocalIslands(k)
  OBVIOUS
<1> HIDE DEF isles, L
<1>3. ASSUME NEW t \in Passable PROVE L[t] = LocalIslands(ChunkOf(t))[t]
  <2>1. ChunkOf(t) \in Chunk /\ t \in TilesOf[ChunkOf(t)]
    BY PassableAre, TilesAre
  <2>2. CASE islandsDirty /\ ChunkOf(t) \in dirty
    BY <1>1, <1>2, <2>2
  <2>3. CASE ~(islandsDirty /\ ChunkOf(t) \in dirty)
    <3>1. [u \in TilesOf[ChunkOf(t)] |-> liid[u]] = LocalIslands(ChunkOf(t))
      BY <2>1, <2>3, MapIs DEF IslandsExact
    <3>2. LocalIslands(ChunkOf(t))[t] = liid[t]
      BY <2>1, <3>1
    <3>. QED BY <1>1, <2>3, <3>2
  <2>. QED BY <2>2, <2>3
<1>4. ASSUME NEW t \in Passable PROVE L[t] \in 0..Rows * Cols
  <2>1. ChunkOf(t) \in Chunk /\ t \in TilesOf[ChunkOf(t)]
    BY PassableAre, TilesAre
  <2>2. LocalIslands(ChunkOf(t)) \in [TilesOf[ChunkOf(t)] -> 0..Rows * Cols]
    BY <2>1, LocalIslandsAre
  <2>. QED BY <1>3, <2>1, <2>2
<1>5. L = [t \in Passable |-> L[t]]
  BY <1>1
<1>6. L \in [Passable -> 0..Rows * Cols]
  BY <1>4, <1>5
<1>7. ASSUME NEW k \in Chunk, NEW t \in TilesOf[k] PROVE L[t] = LocalIslands(k)[t]
  BY <1>3, TilesAre
<1>. QED BY <1>6, <1>7 DEF Current, L

\* Where L is current, its numbers are those of each chunk.
LEMMA CurrentExact ==
  ASSUME MapKept, NEW L, Current(L), NEW k \in Chunk
  PROVE  [t \in map.tiles[k] |-> L[t]] = LocalIslands(k)
<1>1. LocalIslands(k) = [t \in TilesOf[k] |-> LocalIslands(k)[t]]
  BY LocalIslandsAre
<1>2. \A t \in TilesOf[k] : L[t] = LocalIslands(k)[t]
  BY DEF Current
<1>3. [t \in TilesOf[k] |-> L[t]] = [t \in TilesOf[k] |-> LocalIslands(k)[t]]
  BY <1>2
<1>. QED BY <1>1, <1>3, MapIs
-----------------------------------------------------------------------------
(* Flow fields *)

Target(id) ==
  \/ \E d \in Dests : id = TileTarget(d)
  \/ \E p \in Portal : \E i, j : id = PortalTarget(p, i, j)

LEMMA TargetIs ==
  ASSUME NEW id, Target(id)
  PROVE  /\ id.chunk \in Chunk
         /\ OfTile(id) => id.tile \in Dests /\ id.tile \in Passable /\ id.chunk = ChunkOf(id.tile)
         /\ ~OfTile(id) => id.port \in Portal /\ id.chunk = id.port.chunk
<1>1. ASSUME NEW d \in Dests, id = TileTarget(d)
      PROVE  OfTile(id) /\ id.tile = d /\ id.chunk = ChunkOf(d) /\ d \in Passable /\ id.chunk \in Chunk
  <2>1. d \in Passable /\ ChunkOf(d) \in Chunk
    BY PassableAre
  <2>2. id = [chunk |-> ChunkOf(d), tile |-> d]
    BY <1>1 DEF TileTarget
  <2>3. DOMAIN id = {"chunk", "tile"} /\ id.chunk = ChunkOf(d) /\ id.tile = d
    BY <2>2
  <2>. QED BY <2>1, <2>3 DEF OfTile
<1>2. ASSUME NEW p \in Portal, NEW i, NEW j, id = PortalTarget(p, i, j)
      PROVE  ~OfTile(id) /\ id.port = p /\ id.chunk = p.chunk /\ id.chunk \in Chunk
  <2>1. id = [chunk |-> p.chunk, port |-> p, iid |-> i, next |-> j]
    BY <1>2 DEF PortalTarget
  <2>2. DOMAIN id = {"chunk", "port", "iid", "next"} /\ id.chunk = p.chunk /\ id.port = p
    BY <2>1
  <2>3. p.chunk \in Chunk
    BY PortalTiles
  <2>. QED BY <2>2, <2>3 DEF OfTile
<1>. QED BY <1>1, <1>2 DEF Target

\* Over free tiles the directions of ff go to tiles beside, and down in r.
Descends(k, ff, r) ==
  /\ r \in [Free(k) -> 0..Rows * Cols]
  /\ \A t \in Free(k) : ff[t] \in Free(k) => ff[t] \in Beside(t) /\ r[ff[t]] < r[t]
Acyclic(k, ff) == \E r : Descends(k, ff, r)

\* Those of the island of a free destination stay on the island or stop.
Homing(id, ff) ==
  OfTile(id) /\ id.tile \notin Blocked =>
    /\ ff[id.tile] = None
    /\ \A t \in IslandOf(Free(id.chunk), id.tile) :
         ff[t] \in IslandOf(Free(id.chunk), id.tile) \union {None}

FlowOK(id, ff) == DOMAIN ff = TilesOf[id.chunk] /\ Acyclic(id.chunk, ff) /\ Homing(id, ff)

LEMMA HomeIs ==
  ASSUME MapKept, NEW id, Target(id), OfTile(id), id.tile \notin Blocked
  PROVE  /\ id.tile \in Free(id.chunk)
         /\ id.tile \in IslandOf(Free(id.chunk), id.tile)
         /\ IslandOf(Free(id.chunk), id.tile) \subseteq Free(id.chunk)
         /\ \A u \in IslandOf(Free(id.chunk), id.tile) :
              Beside(u) \intersect Free(id.chunk) \subseteq IslandOf(Free(id.chunk), id.tile)
<1>1. id.chunk \in Chunk /\ id.tile \in TilesOf[id.chunk]
  BY TargetIs, TilesAre
<1>2. id.tile \in Free(id.chunk) /\ Free(id.chunk) \in SUBSET Place /\ IsFiniteSet(Free(id.chunk))
  BY <1>1, FreeIs
<1>. QED BY <1>2, IslandIs

\* A field without directions is one.
LEMMA NoFlowKeeps ==
  ASSUME MapKept, NEW id, Target(id)
  PROVE  FlowOK(id, NoFlow(id.chunk))
<1> DEFINE k == id.chunk
           ff == NoFlow(k)
           r == [t \in Free(k) |-> 0]
<1>1. k \in Chunk
  BY TargetIs
<1>2. Free(k) \in SUBSET TilesOf[k] /\ None \notin Free(k)
  BY <1>1, FreeIs, PassableAre, TilesAre
<1>3. ff = [t \in TilesOf[k] |-> None]
  BY MapIs DEF NoFlow
<1> HIDE DEF ff
<1>4. DOMAIN ff = TilesOf[k] /\ \A t \in TilesOf[k] : ff[t] = None
  BY <1>3
<1>5. 0 \in 0..Rows * Cols
  BY NavMapAssumption
<1>6. Descends(k, ff, r)
  BY <1>2, <1>4, <1>5 DEF Descends
<1>7. ASSUME OfTile(id), id.tile \notin Blocked
      PROVE  /\ ff[id.tile] = None
             /\ \A t \in IslandOf(Free(k), id.tile) : ff[t] \in IslandOf(Free(k), id.tile) \union {None}
  BY <1>2, <1>4, <1>7, HomeIs
<1>8. Homing(id, ff)
  BY <1>7 DEF Homing
<1>. QED BY <1>4, <1>6, <1>8 DEF FlowOK, Acyclic, ff

\* A flow from tiles that lead out of the chunk or stop does not go in a circle,
\* nor does what it replaces.
LEMMA FlowFromKeeps ==
  ASSUME MapKept, NEW id, Target(id), NEW ff, FlowOK(id, ff), NEW F \in SUBSET Free(id.chunk),
         ~OfTile(id) => \A t \in F : Ahead(t, id.port.next) \notin Free(id.chunk),
         OfTile(id) /\ id.tile \notin Blocked =>
           id.tile \in F \/ id.tile \notin DOMAIN StepsFrom(Free(id.chunk), F)
  PROVE  FlowOK(id, FlowFrom(F, id, ff))
<1> DEFINE k == id.chunk
           free == Free(k)
           cost == StepsFrom(free, F)
           D == DOMAIN cost
           Down(t) == CHOOSE u \in Beside(t) \intersect D : cost[u] = cost[t] - 1
           flow == [t \in D |-> IF t \notin F THEN Down(t)
                                ELSE IF OfTile(id) THEN None ELSE Ahead(t, id.port.next)]
           new == FlowFrom(F, id, ff)
<1>1. k \in Chunk
  BY TargetIs
<1>2. /\ free \in SUBSET TilesOf[k] /\ free \in SUBSET Place /\ IsFiniteSet(free) /\ None \notin free
      /\ Cardinality(free) \in Nat /\ Cardinality(free) <= Rows * Cols
  BY <1>1, FreeIs, PassableAre, TilesAre
<1>3. Steps(free, F, cost)
  BY <1>2, StepsAre
<1>4. new = Over(flow, ff)
  BY DEF FlowFrom
<1>5. /\ F \subseteq D /\ D \subseteq free
      /\ \A t \in D : cost[t] \in 0..Rows * Cols
      /\ \A t \in D : Beside(t) \intersect free \subseteq D
  <2>1. Rows * Cols \in Int
    BY NavMapAssumption
  <2>2. 0..Cardinality(free) \subseteq 0..Rows * Cols /\ F \subseteq free
    BY <1>2, <2>1
  <2> HIDE DEF cost, free
  <2>. QED BY <1>3, <2>2 DEF Steps
<1>6. ASSUME NEW t \in D \ F
      PROVE  Down(t) \in Beside(t) /\ Down(t) \in D /\ cost[Down(t)] = cost[t] - 1
  <2>1. \E u \in Beside(t) \intersect D : cost[u] = cost[t] - 1
    <3> HIDE DEF cost, free
    <3>. QED BY <1>3 DEF Steps
  <2> HIDE DEF cost, free
  <2>. QED BY <2>1
<1> HIDE DEF cost, D, Down
<1>7. /\ DOMAIN flow = D /\ \A t \in D : t \notin F => flow[t] = Down(t)
      /\ \A t \in F : t \in D => flow[t] = IF OfTile(id) THEN None ELSE Ahead(t, id.port.next)
  OBVIOUS
<1> HIDE DEF flow, new
<1>8. DOMAIN ff = TilesOf[k]
  BY DEF FlowOK
<1>9. DOMAIN new = TilesOf[k]
  <2>1. DOMAIN new = D \union TilesOf[k]
    BY <1>4, <1>7, <1>8, OverDomain
  <2>. QED BY <1>2, <1>5, <2>1
<1>10. ASSUME NEW t \in free
       PROVE  new[t] = IF t \in D THEN flow[t] ELSE ff[t]
  BY <1>2, <1>4, <1>7, <1>8, OverAt
<1>11. Acyclic(k, new)
  <2>1. PICK r : Descends(k, ff, r)
    BY DEF FlowOK, Acyclic
  <2> DEFINE s == [t \in free |-> IF t \in D THEN cost[t] ELSE r[t]]
  <2>2. s \in [free -> 0..Rows * Cols]
    BY <1>5, <2>1 DEF Descends
  <2>3. \A t \in free : s[t] = IF t \in D THEN cost[t] ELSE r[t]
    OBVIOUS
  <2> HIDE DEF s
  <2>4. ASSUME NEW t \in free, new[t] \in free
        PROVE  new[t] \in Beside(t) /\ s[new[t]] < s[t]
    <3>1. CASE t \in D /\ t \notin F
      <4>1. new[t] = Down(t)
        BY <1>7, <1>10, <3>1
      <4>2. Down(t) \in Beside(t) /\ Down(t) \in D /\ cost[Down(t)] = cost[t] - 1 /\ cost[t] \in Int
        BY <1>5, <1>6, <3>1
      <4>. QED BY <1>5, <2>3, <3>1, <4>1, <4>2
    <3>2. CASE t \in F
      <4>1. new[t] = None \/ (~OfTile(id) /\ new[t] = Ahead(t, id.port.next))
        BY <1>5, <1>7, <1>10, <3>2
      <4>. QED BY <1>2, <2>4, <3>2, <4>1
    <3>3. CASE t \notin D
      <4>1. new[t] = ff[t]
        BY <1>10, <3>3
      <4>2. ff[t] \in Beside(t) /\ r[ff[t]] < r[t]
        BY <2>1, <2>4, <4>1 DEF Descends
      <4>3. t \in Beside(ff[t])
        BY <1>2, <2>4, <4>1, <4>2, BesideIs
      <4>4. ff[t] \notin D
        BY <1>5, <3>3, <4>3
      <4>. QED BY <2>3, <2>4, <3>3, <4>1, <4>2, <4>4
    <3>. QED BY <1>5, <3>1, <3>2, <3>3
  <2>. QED BY <2>2, <2>4 DEF Acyclic, Descends
<1>12. Homing(id, new)
  <2> SUFFICES ASSUME OfTile(id), id.tile \notin Blocked
               PROVE  /\ new[id.tile] = None
                      /\ \A t \in IslandOf(free, id.tile) : new[t] \in IslandOf(free, id.tile) \union {None}
    BY DEF Homing
  <2> DEFINE I == IslandOf(free, id.tile)
  <2>1. id.tile \in I /\ I \subseteq free /\ \A u \in I : Beside(u) \intersect free \subseteq I
    BY HomeIs
  <2>2. ff[id.tile] = None /\ \A t \in I : ff[t] \in I \union {None}
    BY DEF FlowOK, Homing
  <2>3. id.tile \in F \/ id.tile \notin D
    BY DEF D, cost
  <2> HIDE DEF I, free
  <2>4. new[id.tile] = None
    BY <1>5, <1>7, <1>10, <2>1, <2>2, <2>3
  <2>5. ASSUME NEW t \in I PROVE new[t] \in I \union {None}
    <3>1. CASE t \in D /\ t \notin F
      <4>1. new[t] = Down(t) /\ Down(t) \in Beside(t) /\ Down(t) \in free
        BY <1>5, <1>6, <1>7, <1>10, <2>1, <3>1
      <4>. QED BY <2>1, <4>1
    <3>2. CASE t \in F
      BY <1>5, <1>7, <1>10, <2>1, <3>2
    <3>3. CASE t \notin D
      BY <1>10, <2>1, <2>2, <3>3
    <3>. QED BY <3>1, <3>2, <3>3
  <2>. QED BY <2>4, <2>5 DEF I
<1>. QED BY <1>9, <1>11, <1>12 DEF FlowOK, new

\* So does an update from where a field leads,
LEMMA UpdateKeeps ==
  ASSUME MapKept, NEW id, Target(id), NEW ff, FlowOK(id, ff), NEW L
  PROVE  FlowOK(id, FlowFieldUpdate(L, id, ff))
<1> DEFINE k == id.chunk
           F == InitialFrontier(L, id)
<1>1. k \in Chunk
  BY TargetIs
<1>2. CASE OfTile(id)
  <2>1. F = {id.tile} \ Blocked
    BY <1>2 DEF InitialFrontier
  <2>2. id.tile \in TilesOf[k]
    BY <1>2, TargetIs, TilesAre
  <2>3. F \in SUBSET Free(k)
    BY <1>1, <2>1, <2>2, FreeIs
  <2>4. id.tile \notin Blocked => id.tile \in F
    BY <2>1
  <2> HIDE DEF F
  <2>. QED BY <1>2, <2>3, <2>4, FlowFromKeeps DEF FlowFieldUpdate, F
<1>3. CASE ~OfTile(id)
  <2> DEFINE p == id.port
  <2>1. p \in Portal /\ p.chunk = k
    BY <1>3, TargetIs
  <2>2. F \subseteq p.tiles \ Blocked
    BY <1>3 DEF InitialFrontier
  <2>3. /\ p.tiles \in SUBSET TilesOf[k] /\ p.next \in Chunk /\ p.next \in Adjacent(k)
        /\ \A t \in p.tiles : Ahead(t, p.next) \in TilesOf[p.next]
    BY <2>1, PortalTiles
  <2>4. F \in SUBSET Free(k)
    BY <1>1, <2>2, <2>3, FreeIs
  <2>5. p.next # k
    <3>1. k[1] \in Int /\ k[2] \in Int
      BY <2>3, <1>1, AdjacentAre DEF Place
    <3>. QED BY <1>1, <2>3, <3>1, AdjacentAre
  <2>6. \A t \in F : Ahead(t, p.next) \notin Free(k)
    BY <1>1, <2>2, <2>3, <2>5, FreeIs, TilesAre
  <2> HIDE DEF F
  <2>. QED BY <1>3, <2>4, <2>6, FlowFromKeeps DEF FlowFieldUpdate, F
<1>. QED BY <1>2, <1>3

\* and one for blocked tiles, which are the only ones it changes.
LEMMA ToPathableKeeps ==
  ASSUME MapKept, NEW id, Target(id), NEW ff, FlowOK(id, ff), NEW t
  PROVE  FlowOK(id, FlowFieldUpdateToNearestPathable(t, id, ff))
<1> DEFINE k == id.chunk
           held == map.tiles[k] \intersect Blocked
           F == {u \in Free(k) : Beside(u) \intersect IslandOf(held, t) # {}}
           cost == StepsFrom(held, F)
           Down(u) == CHOOSE v \in Beside(u) \intersect DOMAIN cost : cost[v] = cost[u] - 1
           flow == [u \in DOMAIN cost \ F |-> Down(u)]
           new == FlowFieldUpdateToNearestPathable(t, id, ff)
<1>1. k \in Chunk
  BY TargetIs
<1>2. /\ held \in SUBSET TilesOf[k] /\ held \in SUBSET Place /\ IsFiniteSet(held)
      /\ F \in SUBSET Place
      /\ held \subseteq Blocked
  <2>1. TilesOf[k] \in SUBSET Place /\ IsFiniteSet(TilesOf[k]) /\ Free(k) \in SUBSET Place
    BY <1>1, TilesAre, FreeIs
  <2>2. held = TilesOf[k] \intersect Blocked
    BY MapIs
  <2> HIDE DEF held
  <2>. QED BY <2>1, <2>2, FS_Subset
<1>3. Steps(held, F, cost)
  <2> HIDE DEF held, F
  <2>. QED BY <1>2, StepsAre
<1>4. new = Over(flow, ff)
  BY DEF FlowFieldUpdateToNearestPathable
<1>5. DOMAIN flow \subseteq held
  <2>1. DOMAIN cost \ F \subseteq held
    <3> HIDE DEF held, F, cost
    <3>. QED BY <1>3 DEF Steps
  <2> HIDE DEF cost, F, Down
  <2>. QED BY <2>1
<1> HIDE DEF flow, new, held, F, cost
<1>6. DOMAIN ff = TilesOf[k]
  BY DEF FlowOK
<1>7. DOMAIN new = TilesOf[k]
  <2>1. DOMAIN new = DOMAIN flow \union TilesOf[k]
    BY <1>4, <1>6, OverDomain
  <2>. QED BY <1>2, <1>5, <2>1
<1>8. ASSUME NEW u \in Free(k) PROVE new[u] = ff[u]
  <2>1. u \in DOMAIN ff /\ u \notin DOMAIN flow
    BY <1>1, <1>2, <1>5, <1>6, FreeIs
  <2>. QED BY <1>4, <2>1, OverAt
<1>9. Acyclic(k, new)
  <2>1. PICK r : Descends(k, ff, r)
    BY DEF FlowOK, Acyclic
  <2>2. Descends(k, new, r)
    BY <1>8, <2>1 DEF Descends
  <2>. QED BY <2>2 DEF Acyclic
<1>10. Homing(id, new)
  <2> SUFFICES ASSUME OfTile(id), id.tile \notin Blocked PROVE Homing(id, new)
    BY DEF Homing
  <2>1. id.tile \in Free(k) /\ IslandOf(Free(k), id.tile) \subseteq Free(k)
    BY HomeIs
  <2>2. Homing(id, ff)
    BY DEF FlowOK
  <2>. QED BY <1>8, <2>1, <2>2 DEF Homing
<1>. QED BY <1>7, <1>9, <1>10 DEF FlowOK, new

\* A set of natural numbers has a least.
LEMMA LeastIs ==
  ASSUME NEW S \in SUBSET Nat, S # {}
  PROVE  Min(S) \in S /\ \A y \in S : Min(S) <= y
<1> DEFINE R == OpToRel(<, Nat)
<1>1. IsWellFoundedOn(R, Nat)
  BY NatLessThanWellFounded
<1>2. PICK x \in S : \A y \in S : ~ (<<y, x>> \in R)
  <2> HIDE DEF R
  <2>. QED BY <1>1, WFMin
<1>3. ASSUME NEW y \in S PROVE x <= y
  <2>1. ~ (y < x)
    BY <1>2 DEF OpToRel
  <2>. QED BY <2>1
<1>4. \E z \in S : \A y \in S : z <= y
  BY <1>3
<1>. QED BY <1>4 DEF Min

LEMMA DistIs ==
  ASSUME NEW a \in Place, NEW b \in Place
  PROVE  Dist(a, b) \in Nat /\ Dist(a, a) = 0 /\ (Dist(a, b) = 0 => a = b)
<1>1. /\ a = <<a[1], a[2]>> /\ a[1] \in Int /\ a[2] \in Int
      /\ b = <<b[1], b[2]>> /\ b[1] \in Int /\ b[2] \in Int
  BY DEF Place
<1>2. Dist(a, b) \in Nat /\ Dist(a, a) = 0
  BY <1>1 DEF Dist, Abs
<1>3. Dist(a, b) = 0 => a[1] = b[1] /\ a[2] = b[2]
  BY <1>1 DEF Dist, Abs
<1>. QED BY <1>1, <1>2, <1>3

\* Of two numbers of one part, only the one that ends it is followed by the next.
LEMMA PartEnds ==
  ASSUME NEW r \in Nat \ {0}, NEW x \in Int, NEW y \in Int, NEW a \in Int
  PROVE  /\ (x + 1) \div r = a /\ (y + 1) \div r = a + 1 => x + 1 <= y
         /\ (x - 1) \div r = a /\ (y - 1) \div r = a - 1 => x - 1 >= y
<1>1. ASSUME (x + 1) \div r = a, (y + 1) \div r = a + 1 PROVE x + 1 <= y
  <2>1. PICK q \in Int, m \in 0..(r - 1) : (x + 1) \div r = q /\ (x + 1) % r = m /\ x + 1 = r * q + m
    BY Divided
  <2>2. PICK p \in Int, n \in 0..(r - 1) : (y + 1) \div r = p /\ (y + 1) % r = n /\ y + 1 = r * p + n
    BY Divided
  <2>3. x + 1 = r * a + m /\ y + 1 = r * (a + 1) + n
    BY <1>1, <2>1, <2>2
  <2>4. r * (a + 1) = r * a + r /\ r * a \in Int
    OBVIOUS
  <2>. QED BY <2>3, <2>4
<1>2. ASSUME (x - 1) \div r = a, (y - 1) \div r = a - 1 PROVE x - 1 >= y
  <2>1. PICK q \in Int, m \in 0..(r - 1) : (x - 1) \div r = q /\ (x - 1) % r = m /\ x - 1 = r * q + m
    BY Divided
  <2>2. PICK p \in Int, n \in 0..(r - 1) : (y - 1) \div r = p /\ (y - 1) % r = n /\ y - 1 = r * p + n
    BY Divided
  <2>3. x - 1 = r * a + m /\ y - 1 = r * (a - 1) + n
    BY <1>2, <2>1, <2>2
  <2>4. r * (a - 1) = r * a - r /\ r * a \in Int
    OBVIOUS
  <2>. QED BY <2>3, <2>4
<1>. QED BY <1>1, <1>2

\* One step within a chunk towards the next is a step nearer to the border.
LEMMA Nearer ==
  ASSUME NEW k \in Chunk, NEW l \in Adjacent(k), NEW t \in TilesOf[k],
         Moved(t, k, l) \in TilesOf[k], NEW g \in Border(k, l)
  PROVE  Dist(Moved(t, k, l), g) < Dist(t, g) /\ Moved(t, k, l) \in Beside(t)
<1> DEFINE v == Moved(t, k, l)
           h == Moved(g, k, l)
<1>1. l \in Chunk /\ k \in Place /\ l \in Place
  BY AdjacentAre
<1>2. \/ k[1] = l[1] /\ (l[2] = k[2] + 1 \/ l[2] = k[2] - 1)
      \/ k[2] = l[2] /\ (l[1] = k[1] + 1 \/ l[1] = k[1] - 1)
  BY AdjacentAre
<1>3. g \in TilesOf[k] /\ h \in TilesOf[l] /\ g \in Place /\ t \in Place
  BY BorderIs, TilesAre
<1>4. /\ k[1] \in Int /\ k[2] \in Int /\ l[1] \in Int /\ l[2] \in Int
      /\ t = <<t[1], t[2]>> /\ t[1] \in Int /\ t[2] \in Int /\ g[1] \in Int /\ g[2] \in Int
  BY <1>1, <1>3 DEF Place
<1>5. ChunkOf(v) = k /\ ChunkOf(h) = l
  BY <1>1, <1>3, TilesAre
<1>6. /\ v = <<t[1] + l[1] - k[1], t[2] + l[2] - k[2]>>
      /\ h[1] = g[1] + l[1] - k[1] /\ h[2] = g[2] + l[2] - k[2]
      /\ v[1] = t[1] + l[1] - k[1] /\ v[2] = t[2] + l[2] - k[2]
  BY DEF Moved
<1> HIDE DEF v, h
<1>7. /\ v[1] \div Rows = k[1] /\ v[2] \div Cols = k[2]
      /\ h[1] \div Rows = l[1] /\ h[2] \div Cols = l[2]
  <2>1. <<v[1] \div Rows, v[2] \div Cols>> = k /\ <<h[1] \div Rows, h[2] \div Cols>> = l
    BY <1>5 DEF ChunkOf
  <2>. QED BY <2>1
<1>8. Rows \in Nat \ {0} /\ Cols \in Nat \ {0}
  BY NavMapAssumption
<1>9. CASE k[1] = l[1] /\ l[2] = k[2] + 1
  <2>1. v[1] = t[1] /\ v[2] = t[2] + 1 /\ v = <<t[1], t[2] + 1>> /\ h[2] = g[2] + 1
    BY <1>4, <1>6, <1>9
  <2>2. t[2] + 1 <= g[2]
    BY <1>4, <1>7, <1>8, <1>9, <2>1, PartEnds
  <2>. QED BY <1>4, <2>1, <2>2 DEF Dist, Abs, Beside, v
<1>10. CASE k[1] = l[1] /\ l[2] = k[2] - 1
  <2>1. v[1] = t[1] /\ v[2] = t[2] - 1 /\ v = <<t[1], t[2] - 1>> /\ h[2] = g[2] - 1
    BY <1>4, <1>6, <1>10
  <2>2. t[2] - 1 >= g[2]
    BY <1>4, <1>7, <1>8, <1>10, <2>1, PartEnds
  <2>. QED BY <1>4, <2>1, <2>2 DEF Dist, Abs, Beside, v
<1>11. CASE k[2] = l[2] /\ l[1] = k[1] + 1
  <2>1. v[2] = t[2] /\ v[1] = t[1] + 1 /\ v = <<t[1] + 1, t[2]>> /\ h[1] = g[1] + 1
    BY <1>4, <1>6, <1>11
  <2>2. t[1] + 1 <= g[1]
    BY <1>4, <1>7, <1>8, <1>11, <2>1, PartEnds
  <2>. QED BY <1>4, <2>1, <2>2 DEF Dist, Abs, Beside, v
<1>12. CASE k[2] = l[2] /\ l[1] = k[1] - 1
  <2>1. v[2] = t[2] /\ v[1] = t[1] - 1 /\ v = <<t[1] - 1, t[2]>> /\ h[1] = g[1] - 1
    BY <1>4, <1>6, <1>12
  <2>2. t[1] - 1 >= g[1]
    BY <1>4, <1>7, <1>8, <1>12, <2>1, PartEnds
  <2>. QED BY <1>4, <2>1, <2>2 DEF Dist, Abs, Beside, v
<1>. QED BY <1>2, <1>9, <1>10, <1>11, <1>12

\* How far a place is from the nearest of some.
Away(goal, t) == Min({Dist(t, g) : g \in goal})

LEMMA AwayIs ==
  ASSUME NEW goal \in SUBSET Place, goal # {}, NEW t \in Place
  PROVE  /\ Away(goal, t) \in Nat /\ \A g \in goal : Away(goal, t) <= Dist(t, g)
         /\ \E g \in goal : Away(goal, t) = Dist(t, g)
<1> DEFINE S == {Dist(t, g) : g \in goal}
<1>1. S \in SUBSET Nat /\ S # {}
  BY DistIs
<1>2. \A g \in goal : Dist(t, g) \in S
  OBVIOUS
<1>3. \A n \in S : \E g \in goal : n = Dist(t, g)
  OBVIOUS
<1> HIDE DEF S
<1>4. Away(goal, t) = Min(S)
  BY DEF S, Away
<1>5. Min(S) \in S /\ \A n \in S : Min(S) <= n
  BY <1>1, LeastIs
<1>. QED BY <1>1, <1>2, <1>3, <1>4, <1>5

\* So does an update of an island towards what of it is nearest to the target: were
\* a step to the border of the chunk possible, its tile would be nearer.
LEMMA ToNearestKeeps ==
  ASSUME MapKept, NEW id, Target(id), NEW ff, FlowOK(id, ff), NEW L, Current(L), NEW i
  PROVE  FlowOK(id, FlowFieldUpdateIslandToNearest(L, i, id, ff))
<1> DEFINE k == id.chunk
           free == InitialFrontier(L, id)
           goal == IF free = {} /\ OfTile(id) THEN {id.tile} ELSE free
           isle == {t \in Free(k) : L[t] = i}
           away(t) == Away(goal, t)
           F == IF goal = {} THEN {} ELSE {t \in isle : \A u \in isle : away(t) <= away(u)}
           new == FlowFieldUpdateIslandToNearest(L, i, id, ff)
<1>1. k \in Chunk
  BY TargetIs
<1>2. /\ Free(k) \in SUBSET Place /\ IsFiniteSet(Free(k)) /\ Free(k) \in SUBSET TilesOf[k]
      /\ isle \in SUBSET Free(k) /\ F \in SUBSET isle
  BY <1>1, FreeIs
<1>3. new = FlowFrom(F, id, ff)
  BY DEF FlowFieldUpdateIslandToNearest, Away
<1>4. \A t \in isle : Beside(t) \intersect Free(k) \subseteq isle
  BY <1>1, CurrentIs
<1>5. \A t : away(t) = Away(goal, t)
  OBVIOUS
<1>6. goal # {} => F = {t \in isle : \A u \in isle : away(t) <= away(u)}
  OBVIOUS
<1>7. goal = {} => F = {}
  OBVIOUS
<1>8. \A t \in Free(k) : t \in isle <=> L[t] = i
  OBVIOUS
<1> HIDE DEF away, F, isle, new
<1>9. ASSUME ~OfTile(id), NEW t \in F, Ahead(t, id.port.next) \in Free(k) PROVE FALSE
  <2> DEFINE p == id.port
             l == p.next
             v == Ahead(t, l)
  <2>1. p \in Portal /\ p.chunk = k
    BY <1>9, TargetIs
  <2>2. /\ goal = free /\ goal # {} /\ free \subseteq p.tiles
        /\ p.tiles \in SUBSET Place /\ p.tiles \subseteq Border(k, l) /\ l \in Adjacent(k)
    <3>1. goal = free /\ goal # {}
      BY <1>7, <1>9
    <3>2. free \subseteq p.tiles
      BY <1>9 DEF InitialFrontier
    <3>. QED BY <2>1, <3>1, <3>2, PortalTiles
  <2> HIDE DEF goal, free
  <2>3. t \in TilesOf[k] /\ t \in Place /\ v = Moved(t, k, l) /\ v \in TilesOf[k] /\ v \in Place
    BY <1>1, <1>2, <1>9, AheadIs
  <2>4. goal \in SUBSET Place /\ goal # {}
    BY <2>2
  <2>5. PICK g \in goal : away(t) = Dist(t, g)
    BY <1>5, <2>3, <2>4, AwayIs
  <2>6. away(v) \in Nat /\ away(v) <= Dist(v, g)
    BY <1>5, <2>3, <2>4, AwayIs
  <2>7. g \in Border(k, l) /\ g \in Place
    BY <2>2
  <2>8. Dist(v, g) < Dist(t, g) /\ v \in Beside(t)
    BY <1>1, <2>2, <2>3, <2>7, Nearer
  <2>9. v \in isle
    BY <1>2, <1>4, <1>9, <2>8
  <2>10. away(t) <= away(v)
    BY <1>6, <1>9, <2>2, <2>9
  <2>11. Dist(v, g) \in Nat /\ Dist(t, g) \in Nat
    BY <2>3, <2>7, DistIs
  <2> HIDE DEF v
  <2>. QED BY <2>5, <2>6, <2>8, <2>10, <2>11
<1>10. ASSUME OfTile(id), id.tile \notin Blocked
       PROVE  id.tile \in F \/ id.tile \notin DOMAIN StepsFrom(Free(k), F)
  <2> DEFINE t == id.tile
  <2>1. goal = {t}
    BY <1>10 DEF InitialFrontier
  <2>2. t \in Place /\ t \in Free(k)
    BY <1>2, <1>10, HomeIs
  <2> HIDE DEF goal
  <2>3. CASE t \in isle
    <3>1. away(t) = 0
      BY <1>5, <2>1, <2>2, AwayIs, DistIs
    <3>2. \A u \in isle : away(u) \in Nat
      BY <1>2, <1>5, <2>1, <2>2, AwayIs
    <3>. QED BY <1>6, <2>1, <2>3, <3>1, <3>2
  <2>4. CASE t \notin isle
    <3>1. Steps(Free(k), F, StepsFrom(Free(k), F)) /\ F \in SUBSET Place
      BY <1>2, StepsAre
    <3>2. DOMAIN StepsFrom(Free(k), F) \subseteq isle
      BY <1>2, <1>4, <3>1, StepsStay
    <3>. QED BY <2>4, <3>2
  <2>. QED BY <2>3, <2>4
<1>11. F \in SUBSET Free(k)
  BY <1>2
<1>. QED BY <1>3, <1>9, <1>10, <1>11, FlowFromKeeps DEF new

\* Where a field that goes down leads, it leaves the free tiles of its chunk, and
\* it stays in what its directions stay in.
LEMMA LedIs ==
  ASSUME MapKept, NEW id, id.chunk \in Chunk, NEW r, Descends(id.chunk, fc.flow[id], r),
         NEW C, NEW t \in C, \A u \in C \intersect Free(id.chunk) : fc.flow[id][u] \in C
  PROVE  Led(id, t) \in C /\ Led(id, t) \notin Free(id.chunk)
<1> DEFINE m == Rows * Cols
           S == 0..m
           k == id.chunk
           ff == fc.flow[id]
           Next(u) == IF u \in Free(k) THEN ff[u] ELSE u
           Rec(f) == f = [T \in SUBSET S |->
                            IF T = {} THEN t
                            ELSE LET x == CHOOSE x \in T : TRUE IN Next(f[T \ {x}])]
           it == CHOOSE f : Rec(f)
           st == [p \in S \X C |-> Next(p[2])]
           good == [T \in SUBSET S |-> {u \in C : u \in Free(k) => r[u] + Cardinality(T) <= m}]
<1>1. Led(id, t) = it[S]
  BY DEF Led, FoldSet, MapThenFoldSet
<1>2. m \in Nat
  BY NavMapAssumption
<1>3. IsFiniteSet(S) /\ Cardinality(S) = m + 1
  <2> HIDE DEF m
  <2>. QED BY <1>2, FS_Interval
<1>4. DOMAIN st = S \X C /\ \A e \in S, u \in C : st[<<e, u>>] = Next(u)
  OBVIOUS
<1>5. \A T \in SUBSET S : \A u : u \in good[T] <=> u \in C /\ (u \in Free(k) => r[u] + Cardinality(T) <= m)
  OBVIOUS
<1>6. \A T \in SUBSET S : IsFiniteSet(T) /\ Cardinality(T) \in Nat
  BY <1>3, FS_Subset, FS_CardinalityType
<1>7. \A u \in Free(k) : /\ r[u] \in 0..m
                         /\ ff[u] \in Free(k) => r[ff[u]] < r[u] /\ r[ff[u]] \in 0..m
  BY DEF Descends
<1> HIDE DEF st, good, S, m
<1>8. ASSUME NEW f, Follows(f, S, C, Firsts(S), t, st)
      PROVE  Recurs(it, S, C, t, st)
  <2> DEFINE ch == Firsts(S)
  <2>1. \A T \in SUBSET S : T # {} => ch[T] \in T /\ ch[T] = CHOOSE x \in T : TRUE
    BY FirstsAre
  <2> HIDE DEF Next
  <2>2. \A T \in SUBSET S : T # {} => f[T] = Next(f[T \ {ch[T]}])
    BY <1>4, <1>8 DEF Follows
  <2>3. /\ f = [T \in SUBSET S |-> f[T]]
        /\ \A T \in SUBSET S :
             f[T] = IF T = {} THEN t
                    ELSE LET x == CHOOSE x \in T : TRUE IN Next(f[T \ {x}])
    BY <1>8, <2>1, <2>2 DEF Follows
  <2>4. Rec(f)
    BY <2>3
  <2>5. Rec(it)
    <3> HIDE DEF Rec
    <3>. QED BY <2>4
  <2> HIDE DEF it
  <2>6. \A T \in SUBSET S :
          it[T] = IF T = {} THEN t
                  ELSE LET x == CHOOSE x \in T : TRUE IN Next(it[T \ {x}])
    BY <2>5
  <2>7. it[{}] = t /\ \A T \in SUBSET S : T # {} => it[T] = Next(it[T \ {ch[T]}])
    BY <2>1, <2>6
  <2> HIDE DEF Rec, ch
  <2>8. \A T \in SUBSET S : T # {} =>
          ch[T] \in T /\ (it[T \ {ch[T]}] \in C => it[T] = st[<<ch[T], it[T \ {ch[T]}]>>])
    BY <1>4, <2>1, <2>7
  <2>. QED BY <2>7, <2>8 DEF Recurs
<1> HIDE DEF it
<1>9. \A f : Follows(f, S, C, Firsts(S), t, st) => Recurs(it, S, C, t, st)
  BY <1>8
<1>10. ASSUME NEW T \in SUBSET S, NEW e \in T, NEW u \in good[T \ {e}]
       PROVE  st[<<e, u>>] \in good[T]
  <2>1. u \in C /\ (u \in Free(k) => r[u] + Cardinality(T \ {e}) <= m)
    BY <1>5
  <2>2. Cardinality(T \ {e}) \in Nat /\ Cardinality(T) = Cardinality(T \ {e}) + 1
    BY <1>6, FS_RemoveElement
  <2>3. st[<<e, u>>] = Next(u)
    BY <1>4, <2>1
  <2>4. CASE u \in Free(k)
    <3>1. Next(u) = ff[u] /\ ff[u] \in C
      BY <2>1, <2>4
    <3>2. ff[u] \in Free(k) => r[ff[u]] + Cardinality(T) <= m
      BY <1>2, <1>7, <2>1, <2>2, <2>4
    <3>. QED BY <1>5, <2>3, <3>1, <3>2
  <2>5. CASE u \notin Free(k)
    BY <1>5, <2>1, <2>3, <2>5
  <2>. QED BY <2>4, <2>5
<1>11. Leads(S, C, good, t, st)
  <2>1. \A T \in SUBSET S : good[T] \subseteq C
    BY <1>5
  <2>2. t \in good[{}]
    <3>1. t \in Free(k) => r[t] + 0 <= m
      BY <1>2, <1>7
    <3>. QED BY <1>5, <3>1, FS_EmptySet
  <2>. QED BY <1>3, <1>4, <1>10, <2>1, <2>2 DEF Leads
<1>12. it[S] \in good[S]
  BY <1>9, <1>11, FoldReaches
<1>13. it[S] \in C /\ (it[S] \in Free(k) => r[it[S]] + (m + 1) <= m)
  BY <1>3, <1>5, <1>12
<1>14. it[S] \notin Free(k)
  BY <1>2, <1>7, <1>13
<1>. QED BY <1>1, <1>13, <1>14

\* What FieldsCurrent says of one field.
LEMMA FlowLeads ==
  ASSUME MapKept, NEW id, Target(id), FlowOK(id, fc.flow[id])
  PROVE  /\ \A t \in Free(id.chunk) : Led(id, t) \notin Free(id.chunk)
         /\ OfTile(id) /\ id.tile \notin Blocked =>
              /\ fc.flow[id][id.tile] = None
              /\ \A t \in IslandOf(Free(id.chunk), id.tile) : Led(id, t) = None
<1> DEFINE k == id.chunk
           ff == fc.flow[id]
<1>1. k \in Chunk
  BY TargetIs
<1>2. PICK r : Descends(k, ff, r)
  BY DEF FlowOK, Acyclic
<1>3. ASSUME NEW t \in Free(k) PROVE Led(id, t) \notin Free(k)
  <2> DEFINE C == Free(k) \union {ff[u] : u \in Free(k)}
  <2>1. t \in C /\ \A u \in C \intersect Free(k) : ff[u] \in C
    OBVIOUS
  <2> HIDE DEF C
  <2>. QED BY <1>1, <1>2, <2>1, LedIs
<1>4. ASSUME OfTile(id), id.tile \notin Blocked, NEW t \in IslandOf(Free(k), id.tile)
      PROVE  Led(id, t) = None
  <2> DEFINE C == IslandOf(Free(k), id.tile) \union {None}
  <2>1. \A u \in C \intersect Free(k) : ff[u] \in C
    <3>1. None \notin Free(k)
      BY <1>1, FreeIs, PassableAre
    <3>. QED BY <1>4, <3>1 DEF FlowOK, Homing
  <2>2. t \in C
    OBVIOUS
  <2>3. IslandOf(Free(k), id.tile) \subseteq Free(k)
    BY <1>4, HomeIs
  <2> HIDE DEF C
  <2>4. Led(id, t) \in C /\ Led(id, t) \notin Free(k)
    BY <1>1, <1>2, <2>1, <2>2, LedIs
  <2>. QED BY <2>3, <2>4 DEF C
<1>. QED BY <1>3, <1>4 DEF FlowOK, Homing
-----------------------------------------------------------------------------
(* The caches *)

\* The free tiles of a chunk under the blockers b.
FreeAt(k, b) == {t \in TilesOf[k] : ~ (b[t] > 0)}

LEMMA FreeAtIs ==
  ASSUME MapKept, NEW k \in Chunk
  PROVE  /\ Free(k) = FreeAt(k, blockers)
         /\ Blocked \intersect TilesOf[k] = TilesOf[k] \ FreeAt(k, blockers)
<1>1. \A t \in TilesOf[k] : t \in Blocked <=> blockers[t] > 0
  BY TilesAre DEF Blocked
<1>2. Free(k) = TilesOf[k] \ Blocked
  BY MapIs DEF Free
<1>. QED BY <1>1, <1>2 DEF FreeAt

\* A field is sound where those tiles are free.
Sound(id, free, ff) ==
  /\ \E r \in [free -> 0..Rows * Cols] :
       \A t \in free : ff[t] \in free => ff[t] \in Beside(t) /\ r[ff[t]] < r[t]
  /\ OfTile(id) /\ id.tile \in free =>
       /\ ff[id.tile] = None
       /\ \A t \in IslandOf(free, id.tile) : ff[t] \in IslandOf(free, id.tile) \union {None}

LEMMA SoundIs ==
  ASSUME MapKept, NEW id, Target(id), NEW ff
  PROVE  FlowOK(id, ff) <=>
           DOMAIN ff = TilesOf[id.chunk] /\ Sound(id, FreeAt(id.chunk, blockers), ff)
<1> DEFINE free == FreeAt(id.chunk, blockers)
<1>1. id.chunk \in Chunk /\ Free(id.chunk) = free
  BY TargetIs, FreeAtIs
<1>2. OfTile(id) => (id.tile \notin Blocked <=> id.tile \in free)
  BY <1>1, TargetIs, TilesAre, FreeIs
<1> HIDE DEF free
<1>3. Acyclic(id.chunk, ff) <=>
        \E r \in [free -> 0..Rows * Cols] :
          \A t \in free : ff[t] \in free => ff[t] \in Beside(t) /\ r[ff[t]] < r[t]
  BY <1>1 DEF Acyclic, Descends
<1>4. Homing(id, ff) <=>
        (OfTile(id) /\ id.tile \in free =>
          /\ ff[id.tile] = None
          /\ \A t \in IslandOf(free, id.tile) : ff[t] \in IslandOf(free, id.tile) \union {None})
  BY <1>1, <1>2 DEF Homing
<1>. QED BY <1>3, <1>4 DEF FlowOK, Sound, free

\* What a cache holds where the chunks D are dirty: fields of tiles of their chunk,
\* listed, and sound, as lines of sight are true, for chunks that are not dirty.
FieldAt(id, ff, b, D) ==
  /\ Target(id) /\ DOMAIN ff = TilesOf[id.chunk]
  /\ id.chunk \notin D => Sound(id, FreeAt(id.chunk, b), ff)
CacheAt(c, b, D) ==
  /\ c = [flow |-> c.flow, mapping |-> c.mapping, los |-> c.los, flowKeys |-> c.flowKeys,
          losKeys |-> c.losKeys]
  /\ DOMAIN c.flow \subseteq c.flowKeys /\ DOMAIN c.los \subseteq c.losKeys
  /\ \A id \in DOMAIN c.flow : FieldAt(id, c.flow[id], b, D)
  /\ \A x \in DOMAIN c.mapping :
       x[1] \in Dests /\ Target(c.mapping[x]) /\ c.mapping[x].chunk = x[2]
  /\ \A x \in DOMAIN c.los :
       x[2] \in Chunk /\ (x[2] \notin D => c.los[x] = TilesOf[x[2]] \ FreeAt(x[2], b))

FieldOK(id, ff) == FieldAt(id, ff, blockers, dirty)
CacheOK(c) == CacheAt(c, blockers, dirty)

\* A field of dirty chunks has its tiles still.
LEMMA FieldIs ==
  ASSUME MapKept, NEW id, Target(id), NEW ff
  PROVE  FieldOK(id, ff) <=>
           DOMAIN ff = TilesOf[id.chunk] /\ (id.chunk \notin dirty => FlowOK(id, ff))
BY SoundIs DEF FieldOK, FieldAt

\* Any change to a field leaves its tiles.
LEMMA FieldChanges ==
  ASSUME MapKept, NEW id, Target(id), NEW ff, FieldOK(id, ff), NEW L, Current(L)
  PROVE  /\ FieldOK(id, NoFlow(id.chunk))
         /\ FieldOK(id, FlowFieldUpdate(L, id, ff))
         /\ \A t : FieldOK(id, FlowFieldUpdateToNearestPathable(t, id, ff))
         /\ \A i : FieldOK(id, FlowFieldUpdateIslandToNearest(L, i, id, ff))
<1> DEFINE gg == NoFlow(id.chunk)
<1>1. FlowOK(id, gg) /\ DOMAIN ff = TilesOf[id.chunk] /\ DOMAIN gg = DOMAIN ff
  BY NoFlowKeeps, FieldIs DEF FlowOK
<1> HIDE DEF gg
<1>2. ASSUME NEW F PROVE DOMAIN FlowFrom(F, id, ff) = DOMAIN FlowFrom(F, id, gg)
  <2> DEFINE cost == StepsFrom(Free(id.chunk), F)
             Down(t) == CHOOSE u \in Beside(t) \cap DOMAIN cost : cost[u] = cost[t] - 1
             flow == [t \in DOMAIN cost |->
                        IF t \notin F THEN Down(t)
                        ELSE IF OfTile(id) THEN None ELSE Ahead(t, id.port.next)]
  <2>1. FlowFrom(F, id, ff) = Over(flow, ff) /\ FlowFrom(F, id, gg) = Over(flow, gg)
    BY DEF FlowFrom
  <2> HIDE DEF flow
  <2>2. /\ DOMAIN Over(flow, ff) = DOMAIN flow \union DOMAIN ff
        /\ DOMAIN Over(flow, gg) = DOMAIN flow \union DOMAIN gg
    BY OverDomain, Zenon
  <2>. QED BY <1>1, <2>1, <2>2, Zenon
<1>3. FieldOK(id, FlowFieldUpdate(L, id, ff))
  <2>1. FlowOK(id, FlowFieldUpdate(L, id, gg))
    BY <1>1, UpdateKeeps
  <2>2. DOMAIN FlowFieldUpdate(L, id, ff) = TilesOf[id.chunk]
    BY <1>2, <2>1 DEF FlowFieldUpdate, FlowOK
  <2>. QED BY <2>2, FieldIs, UpdateKeeps
<1>4. ASSUME NEW t PROVE FieldOK(id, FlowFieldUpdateToNearestPathable(t, id, ff))
  <2>1. FlowOK(id, FlowFieldUpdateToNearestPathable(t, id, gg))
    BY <1>1, ToPathableKeeps
  <2>2. DOMAIN FlowFieldUpdateToNearestPathable(t, id, ff)
          = DOMAIN FlowFieldUpdateToNearestPathable(t, id, gg)
    <3> DEFINE held == map.tiles[id.chunk] \cap Blocked
               F == {u \in Free(id.chunk) : Beside(u) \cap IslandOf(held, t) # {}}
               cost == StepsFrom(held, F)
               Down(u) == CHOOSE v \in Beside(u) \cap DOMAIN cost : cost[v] = cost[u] - 1
               flow == [u \in DOMAIN cost \ F |-> Down(u)]
    <3>1. /\ FlowFieldUpdateToNearestPathable(t, id, ff) = Over(flow, ff)
          /\ FlowFieldUpdateToNearestPathable(t, id, gg) = Over(flow, gg)
      BY DEF FlowFieldUpdateToNearestPathable
    <3> HIDE DEF flow
    <3>2. /\ DOMAIN Over(flow, ff) = DOMAIN flow \union DOMAIN ff
          /\ DOMAIN Over(flow, gg) = DOMAIN flow \union DOMAIN gg
      BY OverDomain, Zenon
    <3>. QED BY <1>1, <3>1, <3>2, Zenon
  <2>3. DOMAIN FlowFieldUpdateToNearestPathable(t, id, ff) = TilesOf[id.chunk]
    BY <2>1, <2>2 DEF FlowOK
  <2>. QED BY <2>3, FieldIs, ToPathableKeeps
<1>5. ASSUME NEW i PROVE FieldOK(id, FlowFieldUpdateIslandToNearest(L, i, id, ff))
  <2>1. FlowOK(id, FlowFieldUpdateIslandToNearest(L, i, id, gg))
    BY <1>1, ToNearestKeeps
  <2>2. DOMAIN FlowFieldUpdateIslandToNearest(L, i, id, ff)
          = DOMAIN FlowFieldUpdateIslandToNearest(L, i, id, gg)
    BY <1>2 DEF FlowFieldUpdateIslandToNearest
  <2>3. DOMAIN FlowFieldUpdateIslandToNearest(L, i, id, ff) = TilesOf[id.chunk]
    BY <2>1, <2>2 DEF FlowOK
  <2>. QED BY <2>3, FieldIs, ToNearestKeeps
<1>6. FieldOK(id, gg)
  BY <1>1, FieldIs
<1>. QED BY <1>3, <1>4, <1>5, <1>6 DEF gg

LEMMA PutAtDomain ==
  ASSUME NEW f, NEW k, NEW v
  PROVE  DOMAIN PutAt(f, k, v) = DOMAIN f \union {k}
<1> DEFINE one == [x \in {k} |-> v]
<1>1. DOMAIN one = {k} /\ PutAt(f, k, v) = Over(one, f)
  BY DEF PutAt
<1> HIDE DEF one
<1>2. DOMAIN Over(one, f) = DOMAIN one \union DOMAIN f
  BY OverDomain
<1>. QED BY <1>1, <1>2

LEMMA PutAtNew ==
  ASSUME NEW f, NEW k, NEW v
  PROVE  PutAt(f, k, v)[k] = v
<1> DEFINE one == [x \in {k} |-> v]
<1>1. DOMAIN one = {k} /\ one[k] = v /\ PutAt(f, k, v) = Over(one, f)
  BY DEF PutAt
<1> HIDE DEF one
<1>2. Over(one, f)[k] = one[k]
  BY <1>1, OverAt
<1>. QED BY <1>1, <1>2

LEMMA PutAtOld ==
  ASSUME NEW f, NEW k, NEW v, NEW x \in DOMAIN f, x # k
  PROVE  PutAt(f, k, v)[x] = f[x]
<1> DEFINE one == [y \in {k} |-> v]
<1>1. DOMAIN one = {k} /\ PutAt(f, k, v) = Over(one, f)
  BY DEF PutAt
<1> HIDE DEF one
<1>2. Over(one, f)[x] = f[x]
  BY <1>1, OverAt
<1>. QED BY <1>1, <1>2

\* A cache by its parts.
LEMMA CacheIs ==
  ASSUME NEW f, NEW m, NEW l, NEW fk, NEW lk
  PROVE  LET c == [flow |-> f, mapping |-> m, los |-> l, flowKeys |-> fk, losKeys |-> lk]
         IN  CacheOK(c) <=>
               /\ DOMAIN f \subseteq fk /\ DOMAIN l \subseteq lk
               /\ \A id \in DOMAIN f : FieldOK(id, f[id])
               /\ \A x \in DOMAIN m : x[1] \in Dests /\ Target(m[x]) /\ m[x].chunk = x[2]
               /\ \A x \in DOMAIN l :
                    x[2] \in Chunk /\ (x[2] \notin dirty => l[x] = TilesOf[x[2]] \ FreeAt(x[2], blockers))
BY DEF CacheOK, CacheAt, FieldOK

LEMMA CacheParts ==
  ASSUME NEW c, CacheOK(c)
  PROVE  \E f, m, l, fk, lk :
           c = [flow |-> f, mapping |-> m, los |-> l, flowKeys |-> fk, losKeys |-> lk]
BY DEF CacheOK, CacheAt

\* What is put keeps a cache right.
LEMMA PutFlowKeeps ==
  ASSUME NEW c, CacheOK(c), NEW id, NEW ff, FieldOK(id, ff)
  PROVE  CacheOK(PutFlowField(c, id, ff))
<1>1. PICK f, m, l, fk, lk :
        c = [flow |-> f, mapping |-> m, los |-> l, flowKeys |-> fk, losKeys |-> lk]
  BY CacheParts
<1> DEFINE g == PutAt(f, id, ff)
<1>2. PutFlowField(c, id, ff) =
        [flow |-> g, mapping |-> m, los |-> l, flowKeys |-> fk \union {id}, losKeys |-> lk]
  <2> HIDE DEF g
  <2>1. c.flow = f /\ c.flowKeys = fk
    BY <1>1
  <2>2. PutFlowField(c, id, ff) = [c EXCEPT !.flow = g, !.flowKeys = fk \union {id}]
    BY <2>1 DEF PutFlowField, g
  <2>. QED BY <1>1, <2>2
<1>3. DOMAIN g = DOMAIN f \union {id} /\ g[id] = ff /\ \A x \in DOMAIN f : x # id => g[x] = f[x]
  <2>1. DOMAIN g = DOMAIN f \union {id}
    BY PutAtDomain
  <2>2. g[id] = ff
    BY PutAtNew
  <2>3. ASSUME NEW x \in DOMAIN f, x # id PROVE g[x] = f[x]
    BY <2>3, PutAtOld
  <2> HIDE DEF g
  <2>. QED BY <2>1, <2>2, <2>3
<1> HIDE DEF g
<1>4. /\ DOMAIN f \subseteq fk /\ DOMAIN l \subseteq lk
      /\ \A x \in DOMAIN f : FieldOK(x, f[x])
      /\ \A x \in DOMAIN m : x[1] \in Dests /\ Target(m[x]) /\ m[x].chunk = x[2]
      /\ \A x \in DOMAIN l :
           x[2] \in Chunk /\ (x[2] \notin dirty => l[x] = TilesOf[x[2]] \ FreeAt(x[2], blockers))
  BY <1>1, CacheIs
<1>5. \A x \in DOMAIN g : FieldOK(x, g[x])
  BY <1>3, <1>4
<1>. QED BY <1>2, <1>3, <1>4, <1>5, CacheIs

LEMMA PutMappingKeeps ==
  ASSUME NEW c, CacheOK(c), NEW dst \in Dests, NEW id, Target(id)
  PROVE  CacheOK(PutDestFFMapping(c, dst, id.chunk, id))
<1>1. PICK f, m, l, fk, lk :
        c = [flow |-> f, mapping |-> m, los |-> l, flowKeys |-> fk, losKeys |-> lk]
  BY CacheParts
<1> DEFINE k == id.chunk
           y == <<dst, k>>
           g == PutAt(m, y, id)
<1>2. PutDestFFMapping(c, dst, k, id) =
        [flow |-> f, mapping |-> g, los |-> l, flowKeys |-> fk, losKeys |-> lk]
  BY <1>1 DEF PutDestFFMapping
<1>3. DOMAIN g = DOMAIN m \union {y} /\ g[y] = id /\ \A x \in DOMAIN m : x # y => g[x] = m[x]
  <2>1. DOMAIN g = DOMAIN m \union {y}
    BY PutAtDomain
  <2>2. g[y] = id
    BY PutAtNew
  <2>3. ASSUME NEW x \in DOMAIN m, x # y PROVE g[x] = m[x]
    BY <2>3, PutAtOld
  <2> HIDE DEF g
  <2>. QED BY <2>1, <2>2, <2>3
<1>4. y[1] = dst /\ y[2] = k
  OBVIOUS
<1> HIDE DEF g, y
<1>5. /\ DOMAIN f \subseteq fk /\ DOMAIN l \subseteq lk
      /\ \A x \in DOMAIN f : FieldOK(x, f[x])
      /\ \A x \in DOMAIN m : x[1] \in Dests /\ Target(m[x]) /\ m[x].chunk = x[2]
      /\ \A x \in DOMAIN l :
           x[2] \in Chunk /\ (x[2] \notin dirty => l[x] = TilesOf[x[2]] \ FreeAt(x[2], blockers))
  BY <1>1, CacheIs
<1>6. \A x \in DOMAIN g : x[1] \in Dests /\ Target(g[x]) /\ g[x].chunk = x[2]
  BY <1>3, <1>4, <1>5
<1>. QED BY <1>2, <1>5, <1>6, CacheIs

LEMMA PutLOSKeeps ==
  ASSUME MapKept, NEW c, CacheOK(c), NEW dst, NEW k \in Chunk
  PROVE  CacheOK(PutLOSField(c, dst, k))
<1>1. PICK f, m, l, fk, lk :
        c = [flow |-> f, mapping |-> m, los |-> l, flowKeys |-> fk, losKeys |-> lk]
  BY CacheParts
<1> DEFINE y == <<dst, k>>
           seen == Blocked \intersect map.tiles[k]
           g == PutAt(l, y, seen)
<1>2. PutLOSField(c, dst, k) =
        [flow |-> f, mapping |-> m, los |-> g, flowKeys |-> fk, losKeys |-> lk \union {y}]
  <2> HIDE DEF g, y
  <2>1. c.los = l /\ c.losKeys = lk
    BY <1>1
  <2>2. PutLOSField(c, dst, k) = [c EXCEPT !.los = g, !.losKeys = lk \union {y}]
    BY <2>1 DEF PutLOSField, g, y
  <2>. QED BY <1>1, <2>2
<1>3. DOMAIN g = DOMAIN l \union {y} /\ g[y] = seen /\ \A x \in DOMAIN l : x # y => g[x] = l[x]
  <2>1. DOMAIN g = DOMAIN l \union {y}
    BY PutAtDomain
  <2>2. g[y] = seen
    BY PutAtNew
  <2>3. ASSUME NEW x \in DOMAIN l, x # y PROVE g[x] = l[x]
    BY <2>3, PutAtOld
  <2> HIDE DEF g
  <2>. QED BY <2>1, <2>2, <2>3
<1>4. y[2] = k /\ seen = TilesOf[k] \ FreeAt(k, blockers)
  BY FreeAtIs, MapIs
<1> HIDE DEF g, y, seen
<1>5. /\ DOMAIN f \subseteq fk /\ DOMAIN l \subseteq lk
      /\ \A x \in DOMAIN f : FieldOK(x, f[x])
      /\ \A x \in DOMAIN m : x[1] \in Dests /\ Target(m[x]) /\ m[x].chunk = x[2]
      /\ \A x \in DOMAIN l :
           x[2] \in Chunk /\ (x[2] \notin dirty => l[x] = TilesOf[x[2]] \ FreeAt(x[2], blockers))
  BY <1>1, CacheIs
<1>6. \A x \in DOMAIN g :
        x[2] \in Chunk /\ (x[2] \notin dirty => g[x] = TilesOf[x[2]] \ FreeAt(x[2], blockers))
  BY <1>3, <1>4, <1>5
<1>. QED BY <1>2, <1>3, <1>5, <1>6, CacheIs
-----------------------------------------------------------------------------
(* Paths *)

LEMMA PortalsFinite == IsFiniteSet(Portal)
<1> DEFINE of(k) == UNION {PortalsBetween(k, l) : l \in Adjacent(k)}
<1>1. ASSUME NEW k \in Chunk, NEW l \in Adjacent(k) PROVE IsFiniteSet(PortalsBetween(k, l))
  <2> DEFINE runs == {u \in Runs(k, l) : ~OpenedAtLast(u, k, l)}
             f == [t \in Border(k, l) |-> IslandOf(Border(k, l), t)]
             g == [run \in runs |-> [chunk |-> k, next |-> l, tiles |-> run]]
  <2>1. IsFiniteSet(Border(k, l))
    BY <1>1, BorderIs
  <2>2. f \in Surjection(Border(k, l), Runs(k, l))
    BY DEF Surjection, Runs
  <2>3. IsFiniteSet(Runs(k, l))
    <3> HIDE DEF f
    <3>. QED BY <2>1, <2>2, FS_Surjection
  <2>4. IsFiniteSet(runs)
    BY <2>3, FS_Subset
  <2>5. g \in Surjection(runs, PortalsBetween(k, l))
    BY DEF Surjection, PortalsBetween
  <2> HIDE DEF g, runs
  <2>. QED BY <2>4, <2>5, FS_Surjection
<1>2. IsFiniteSet(Chunk)
  <2> DEFINE A == 0..Height - 1
             B == 0..Width - 1
  <2>a. Height - 1 \in Int /\ Width - 1 \in Int
    BY NavMapAssumption
  <2>1. IsFiniteSet(A) /\ IsFiniteSet(B)
    BY <2>a, FS_Interval
  <2> HIDE DEF A, B
  <2>2. IsFiniteSet(A \X B)
    BY <2>1, FS_Product
  <2>. QED BY <2>2 DEF Chunk, A, B
<1>3. ASSUME NEW k \in Chunk PROVE IsFiniteSet(of(k))
  <2> DEFINE C == {PortalsBetween(k, l) : l \in Adjacent(k)}
             f == [l \in Adjacent(k) |-> PortalsBetween(k, l)]
  <2>1. IsFiniteSet(Adjacent(k))
    BY <1>2, FS_Subset DEF Adjacent
  <2>2. f \in Surjection(Adjacent(k), C)
    BY DEF Surjection
  <2>3. \A S \in C : IsFiniteSet(S)
    BY <1>1, <1>3
  <2> HIDE DEF f, C
  <2>4. IsFiniteSet(C)
    BY <2>1, <2>2, FS_Surjection
  <2>5. IsFiniteSet(UNION C)
    BY <2>3, <2>4, FS_UNION
  <2>. QED BY <2>5 DEF C
<1> HIDE DEF of
<1> DEFINE C == {of(k) : k \in Chunk}
           f == [k \in Chunk |-> of(k)]
<1>4. f \in Surjection(Chunk, C) /\ \A S \in C : IsFiniteSet(S)
  BY <1>3 DEF Surjection
<1>5. Portal = UNION C
  BY DEF Portal, of
<1> HIDE DEF f, C
<1>6. IsFiniteSet(C)
  BY <1>2, <1>4, FS_Surjection
<1>. QED BY <1>4, <1>5, <1>6, FS_UNION

LEMMA ClosestIslandIs ==
  ASSUME MapKept, NEW L, Current(L), NEW t \in Passable
  PROVE  ClosestPathableLocalIsland(L, t) \in 0..Rows * Cols
<1> DEFINE k == ChunkOf(t)
           near == {u \in map.tiles[k] : L[u] # 0}
           u0 == CHOOSE u \in near : \A v \in near : Dist(t, u) <= Dist(t, v)
<1>1. L \in [Passable -> 0..Rows * Cols] /\ 0 \in 0..Rows * Cols
  BY NavMapAssumption DEF Current
<1>2. k \in Chunk /\ TilesOf[k] \in SUBSET Passable /\ TilesOf[k] \in SUBSET Place /\ t \in Place
  BY PassableAre, TilesAre
<1>3. near \in SUBSET TilesOf[k]
  BY MapIs
<1>4. ClosestPathableLocalIsland(L, t) =
        IF IsleAt(L, t) # 0 THEN IsleAt(L, t) ELSE IF near = {} THEN 0 ELSE L[u0]
  BY DEF ClosestPathableLocalIsland
<1>5. IsleAt(L, t) = L[t]
  BY DEF IsleAt
<1>6. ASSUME near # {} PROVE u0 \in near
  <2> HIDE DEF near, k
  <2> DEFINE S == {Dist(t, u) : u \in near}
  <2>1. \A u \in near : Dist(t, u) \in Nat
    BY <1>2, <1>3, DistIs
  <2>2. S \in SUBSET Nat /\ S # {}
    BY <1>6, <2>1
  <2>3. Min(S) \in S /\ \A n \in S : Min(S) <= n
    <3> HIDE DEF S
    <3>. QED BY <2>2, LeastIs
  <2>4. \E u \in near : \A v \in near : Dist(t, u) <= Dist(t, v)
    BY <2>3
  <2>. QED BY <2>4
<1> HIDE DEF near, u0
<1>. QED BY <1>1, <1>2, <1>3, <1>4, <1>5, <1>6

LEMMA HopIs ==
  ASSUME MapKept
  PROVE  /\ \A p \in Portal, i \in 0..Rows * Cols : Hop(p, i) \in Hops
         /\ \A h \in Hops : h.port \in Portal /\ h.iid \in 0..Rows * Cols
<1>1. DOMAIN map.connected = Portal
  BY MapIs, Mirrored
<1>. QED BY <1>1 DEF Hops, Hop

\* The hops that are somewhere on a portal.
LEMMA HopsOnAre ==
  ASSUME MapKept, NEW L, Current(L)
  PROVE  /\ HopsOn(L) \in SUBSET Hops /\ IsFiniteSet(HopsOn(L))
         /\ \A h : h \in HopsOn(L) <=> \E p \in Portal : \E t \in p.tiles : h = Hop(p, L[t])
<1> DEFINE at == [p \in Portal |-> {Hop(p, L[t]) : t \in p.tiles}]
           all == {at[p] : p \in Portal}
<1>1. HopsOn(L) = UNION all
  <2>1. DOMAIN map.connected = Portal
    BY MapIs, Mirrored
  <2>2. {{Hop(p, L[t]) : t \in p.tiles} : p \in DOMAIN map.connected} = all
    BY <2>1
  <2> HIDE DEF all
  <2>. QED BY <2>2 DEF HopsOn
<1>2. ASSUME NEW p \in Portal PROVE IsFiniteSet(at[p]) /\ at[p] \in SUBSET Hops
  <2>1. p.tiles \in SUBSET TilesOf[p.chunk] /\ p.chunk \in Chunk
    BY PortalTiles
  <2>2. IsFiniteSet(p.tiles) /\ p.tiles \in SUBSET Passable
    BY <2>1, TilesAre, FS_Subset
  <2> DEFINE f == [t \in p.tiles |-> Hop(p, L[t])]
  <2>3. f \in Surjection(p.tiles, at[p])
    BY DEF Surjection
  <2>4. IsFiniteSet(at[p])
    <3> HIDE DEF f, at
    <3>. QED BY <2>2, <2>3, FS_Surjection
  <2>5. \A t \in p.tiles : Hop(p, L[t]) \in Hops
    BY <2>2, HopIs DEF Current
  <2>. QED BY <2>4, <2>5
<1>3. \A h : h \in UNION all <=> \E p \in Portal : h \in at[p]
  <2> HIDE DEF at
  <2>. QED BY UnionIs
<1>4. IsFiniteSet(UNION all)
  <2> DEFINE f == [p \in Portal |-> at[p]]
  <2> HIDE DEF at
  <2>1. f \in Surjection(Portal, all)
    BY DEF Surjection
  <2>2. \A A \in all : IsFiniteSet(A)
    BY <1>2
  <2> HIDE DEF f, all
  <2>. QED BY <2>1, <2>2, PortalsFinite, FS_Surjection, FS_UNION
<1>5. \A p \in Portal : \A h : h \in at[p] <=> \E t \in p.tiles : h = Hop(p, L[t])
  OBVIOUS
<1> HIDE DEF at, all
<1>6. \A h : h \in HopsOn(L) <=> \E p \in Portal : h \in at[p]
  BY <1>1, <1>3
<1>7. HopsOn(L) \in SUBSET Hops
  BY <1>2, <1>6
<1>8. \A h : h \in HopsOn(L) <=> \E p \in Portal : \E t \in p.tiles : h = Hop(p, L[t])
  BY <1>5, <1>6
<1>. QED BY <1>1, <1>4, <1>7, <1>8

\* From the hop h to g, along a link that is active to a portal of the chunk that
\* h's island comes to; or across, to an island on the other side.
Along(L, h, g) ==
  \E q \in Portal : /\ q.chunk = h.port.chunk /\ <<h.port, q>> \in active
                    /\ \E t \in q.tiles : L[t] = h.iid
                    /\ g = Hop(q, h.iid)
Across(L, h, g) ==
  \E t \in h.port.tiles : /\ L[t] = h.iid /\ L[Ahead(t, h.port.next)] # 0
                          /\ g = Hop(Connected[h.port], L[Ahead(t, h.port.next)])

LEMMA NeighboursAre ==
  ASSUME MapKept, NEW L, Current(L), NEW h \in Hops
  PROVE  /\ NeighboursPortalGraph(L, h) \in SUBSET HopsOn(L)
         /\ \A g : g \in NeighboursPortalGraph(L, h) <=> Along(L, h, g) \/ Across(L, h, g)
<1> DEFINE p == h.port
<1>1. p \in Portal /\ h.iid \in 0..Rows * Cols
  BY HopIs
<1>2. p.chunk \in Chunk /\ \A t \in p.tiles : Ahead(t, p.next) \in Passable
  BY <1>1, PortalTiles, TilesAre
<1>3. \A q : q \in map.portals[p.chunk] <=> q \in Portal /\ q.chunk = p.chunk
  BY <1>2, MapIs DEF PortalsOf
<1>4. map.connected[p] = Connected[p] /\ Connected[p] \in Portal
  BY <1>1, MapIs, Mirrored
<1>5. \A i : i \in ConnectedIslands(L, h) <=>
        \E t \in p.tiles : L[t] = h.iid /\ i = L[Ahead(t, p.next)] /\ i # 0
  BY DEF ConnectedIslands
<1> HIDE DEF p
<1>6. \A g : g \in NeighboursPortalGraph(L, h) <=>
        \/ \E q \in map.portals[p.chunk] :
              /\ <<p, q>> \in active /\ \E t \in q.tiles : L[t] = h.iid
              /\ g = Hop(q, h.iid)
        \/ \E i \in ConnectedIslands(L, h) : g = Hop(map.connected[p], i)
  BY DEF NeighboursPortalGraph, p
<1>7. \A g : g \in NeighboursPortalGraph(L, h) <=>
        \/ \E q \in Portal : /\ q.chunk = p.chunk /\ <<p, q>> \in active
                             /\ \E t \in q.tiles : L[t] = h.iid
                             /\ g = Hop(q, h.iid)
        \/ \E t \in p.tiles : /\ L[t] = h.iid /\ L[Ahead(t, p.next)] # 0
                              /\ g = Hop(Connected[p], L[Ahead(t, p.next)])
  <2> SUFFICES ASSUME NEW g
               PROVE  g \in NeighboursPortalGraph(L, h) <=>
                        \/ \E q \in Portal : /\ q.chunk = p.chunk /\ <<p, q>> \in active
                                             /\ \E t \in q.tiles : L[t] = h.iid
                                             /\ g = Hop(q, h.iid)
                        \/ \E t \in p.tiles : /\ L[t] = h.iid /\ L[Ahead(t, p.next)] # 0
                                              /\ g = Hop(Connected[p], L[Ahead(t, p.next)])
    OBVIOUS
  <2>1. (\E i \in ConnectedIslands(L, h) : g = Hop(map.connected[p], i)) <=>
          \E t \in p.tiles : /\ L[t] = h.iid /\ L[Ahead(t, p.next)] # 0
                             /\ g = Hop(Connected[p], L[Ahead(t, p.next)])
    BY <1>4, <1>5
  <2>2. (\E q \in map.portals[p.chunk] :
            /\ <<p, q>> \in active /\ \E t \in q.tiles : L[t] = h.iid
            /\ g = Hop(q, h.iid)) <=>
        \E q \in Portal : /\ q.chunk = p.chunk /\ <<p, q>> \in active
                          /\ \E t \in q.tiles : L[t] = h.iid
                          /\ g = Hop(q, h.iid)
    BY <1>3
  <2>. QED BY <1>6, <2>1, <2>2
<1>8. ASSUME NEW g \in NeighboursPortalGraph(L, h) PROVE g \in HopsOn(L)
  <2>1. ASSUME NEW t \in p.tiles, g = Hop(Connected[p], L[Ahead(t, p.next)]) PROVE g \in HopsOn(L)
    <3>1. Ahead(t, p.next) \in Connected[p].tiles
      BY <1>1, Mirrored
    <3>. QED BY <1>4, <2>1, <3>1, HopsOnAre
  <2>2. ASSUME NEW q \in Portal, NEW t \in q.tiles, L[t] = h.iid, g = Hop(q, h.iid)
        PROVE  g \in HopsOn(L)
    BY <2>2, HopsOnAre
  <2>. QED BY <1>7, <1>8, <2>1, <2>2
<1>. QED BY <1>7, <1>8 DEF p, Along, Across

\* The hops from which a source can begin.
FirstHops(L, src) ==
  {Hop(p, ClosestPathableLocalIsland(L, src)) : p \in {q \in map.portals[ChunkOf(src)] :
      PortalReachableFromTile(L, q, src) /\ src \in DOMAIN map.travel[q]}}

\* A count of hops, in which each but the first follows from one before.
Counted(L, cost) ==
  /\ DOMAIN cost \subseteq Hops
  /\ \A h \in DOMAIN cost :
       /\ cost[h] \in Nat
       /\ cost[h] > 0 =>
            \E g \in DOMAIN cost : cost[g] = cost[h] - 1 /\ h \in NeighboursPortalGraph(L, g)

\* It begins with those of the source, and lacks none that follows.
CountedFrom(L, src, cost) ==
  /\ \A h \in DOMAIN cost : cost[h] = 0 => h \in FirstHops(L, src)
  /\ \A h \in DOMAIN cost : NeighboursPortalGraph(L, h) \subseteq DOMAIN cost
  /\ ClosestPathableLocalIsland(L, src) # 0 =>
       \A h \in FirstHops(L, src) : h \in DOMAIN cost /\ cost[h] = 0

LEMMA HopsAreCounted ==
  ASSUME MapKept, NEW L, Current(L), NEW src \in Passable
  PROVE  Counted(L, HopsFrom(L, src)) /\ CountedFrom(L, src, HopsFrom(L, src))
<1> DEFINE start == ClosestPathableLocalIsland(L, src)
           near == [h \in Hops |-> NeighboursPortalGraph(L, h)]
           first == FirstHops(L, src)
           bound == Cardinality(HopsOn(L))
           cost == HopsFrom(L, src)
<1>1. start \in 0..Rows * Cols
  BY ClosestIslandIs
<1>2. first \in SUBSET Hops
  <2>1. \A q \in map.portals[ChunkOf(src)] : q \in Portal
    BY PassableAre, MapIs DEF PortalsOf
  <2>2. \A h : h \in first => \E q \in map.portals[ChunkOf(src)] : h = Hop(q, start)
    BY DEF FirstHops
  <2> HIDE DEF start, first
  <2>. QED BY <1>1, <2>1, <2>2, HopIs
<1>3. /\ near \in [Hops -> SUBSET HopsOn(L)] /\ HopsOn(L) \in SUBSET Hops /\ IsFiniteSet(HopsOn(L))
      /\ \A h \in Hops : near[h] = NeighboursPortalGraph(L, h)
  BY NeighboursAre, HopsOnAre
<1>4. cost = IF start = 0 THEN <<>> ELSE Layers(near, first, bound)
  BY DEF HopsFrom, FirstHops
<1>a. start = ClosestPathableLocalIsland(L, src) /\ first = FirstHops(L, src)
  OBVIOUS
<1> HIDE DEF start, near, first, cost
<1>5. CASE start = 0
  <2>1. DOMAIN cost = {}
    BY <1>4, <1>5
  <2>. QED BY <1>5, <1>a, <2>1 DEF Counted, CountedFrom, cost
<1>6. CASE start # 0
  <2> DEFINE N == HopsOn(L)
  <2>1. bound \in Nat /\ N \in SUBSET Hops /\ IsFiniteSet(N) /\ near \in [Hops -> SUBSET N]
    BY <1>3, FS_CardinalityType
  <2>a. bound = Cardinality(N)
    OBVIOUS
  <2> HIDE DEF bound, N
  <2>2. PICK w : Layered(Hops, N, near, first, bound, w) /\ cost = w.count
    BY <1>2, <1>4, <1>6, <2>1, LayersAre
  <2>3. PICK D \in SUBSET Hops : cost \in [D -> Nat] /\ DOMAIN cost = D
    BY <2>2 DEF Layered, Waves
  <2>4. ASSUME NEW h \in D, cost[h] > 0
        PROVE  \E g \in D : cost[g] = cost[h] - 1 /\ h \in NeighboursPortalGraph(L, g)
    <3>1. h \notin first
      BY <2>2, <2>3, <2>4 DEF Layered
    <3>2. PICK g \in D : cost[g] = cost[h] - 1 /\ h \in near[g]
      BY <2>2, <2>3, <3>1 DEF Layered
    <3>. QED BY <1>3, <2>3, <3>2
  <2>5. ASSUME NEW h \in D PROVE near[h] \subseteq D
    <3>1. CASE w.last = {}
      BY <2>2, <2>3, <3>1 DEF Layered
    <3>2. CASE w.last # {}
      <4>1. Cardinality(N \intersect D) >= bound
        BY <2>1, <2>2, <2>3, <3>2 DEF Layered
      <4>2. /\ Cardinality(N \intersect D) <= bound /\ Cardinality(N \intersect D) \in Nat
            /\ Cardinality(N) = Cardinality(N \intersect D) => N = N \intersect D
        BY <2>1, <2>a, FS_Subset, FS_CardinalityType
      <4>3. Cardinality(N) = Cardinality(N \intersect D)
        BY <2>1, <2>a, <4>1, <4>2
      <4>. QED BY <2>1, <4>2, <4>3
    <3>. QED BY <3>1, <3>2
  <2>6. first \subseteq D /\ \A h \in D : cost[h] = 0 <=> h \in first
    BY <2>2, <2>3 DEF Layered
  <2>7. \A h \in D : NeighboursPortalGraph(L, h) \subseteq D
    BY <1>3, <2>5
  <2>8. Counted(L, cost)
    BY <2>3, <2>4 DEF Counted
  <2>9. CountedFrom(L, src, cost)
    BY <1>a, <2>3, <2>6, <2>7 DEF CountedFrom
  <2>. QED BY <2>8, <2>9 DEF cost
<1>. QED BY <1>5, <1>6

\* The last n steps of a path to the hop last, each hop counted one more than the
\* one before it, from which it follows.
Ends(L, cost, last, n, path) ==
  /\ path \in Seq(Hops) /\ Len(path) = n + 1 /\ path[n + 1] = last
  /\ \A i \in 1..n + 1 : path[i] \in DOMAIN cost /\ cost[path[i]] = cost[last] - n + i - 1
  /\ \A i \in 1..n : path[i + 1] \in NeighboursPortalGraph(L, path[i])

\* A step more, at the front.
LEMMA EndsBefore ==
  ASSUME NEW L, NEW cost, Counted(L, cost), NEW last \in DOMAIN cost, NEW n \in Nat,
         NEW p, Ends(L, cost, last, n, p),
         NEW h \in DOMAIN cost, cost[h] = cost[p[1]] - 1, p[1] \in NeighboursPortalGraph(L, h)
  PROVE  Ends(L, cost, last, n + 1, <<h>> \o p)
<1> DEFINE q == <<h>> \o p
<1>1. p \in Seq(Hops) /\ Len(p) = n + 1 /\ h \in Hops
  BY DEF Ends, Counted
<1>2. /\ q \in Seq(Hops) /\ Len(q) = n + 2 /\ q[1] = h
      /\ \A i \in 1..n + 1 : q[i + 1] = p[i]
  BY <1>1
<1> HIDE DEF q
<1>3. cost[last] \in Int /\ cost[p[1]] = cost[last] - n
  BY DEF Ends, Counted
<1>4. ASSUME NEW i \in 1..n + 2
      PROVE  /\ q[i] \in DOMAIN cost /\ cost[q[i]] = cost[last] - (n + 1) + i - 1
             /\ i # n + 2 => q[i + 1] \in NeighboursPortalGraph(L, q[i])
  <2>1. CASE i = 1
    <3>1. q[2] = p[1]
      BY <1>2
    <3>. QED BY <1>2, <1>3, <2>1, <3>1
  <2>2. CASE i # 1
    <3> DEFINE j == i - 1
    <3>1. j \in 1..n + 1 /\ i = j + 1
      BY <2>2
    <3> HIDE DEF j
    <3>2. q[i] = p[j] /\ p[j] \in DOMAIN cost /\ cost[p[j]] = cost[last] - n + j - 1
      BY <1>2, <3>1 DEF Ends
    <3>3. cost[q[i]] = cost[last] - (n + 1) + i - 1
      BY <1>3, <3>1, <3>2
    <3>4. ASSUME i # n + 2 PROVE q[i + 1] \in NeighboursPortalGraph(L, q[i])
      <4>1. j \in 1..n /\ q[i + 1] = p[j + 1]
        BY <1>2, <3>1, <3>4
      <4>. QED BY <3>2, <4>1 DEF Ends
    <3>. QED BY <3>2, <3>3, <3>4
  <2>. QED BY <2>1, <2>2
<1>5. q[n + 2] = last
  BY <1>2 DEF Ends
<1>6. \A i \in 1..n + 1 : i \in 1..n + 2 /\ i # n + 2
  OBVIOUS
<1>7. n + 1 + 1 = n + 2
  OBVIOUS
<1>. QED BY <1>2, <1>4, <1>5, <1>6, <1>7 DEF Ends, q

\* A path through the portals is made of hops, of which each follows from the
\* one before it and is counted one more.
PathOn(L, cost, last, path) == Ends(L, cost, last, cost[last], path)

LEMMA PathIs ==
  ASSUME NEW L, NEW cost, Counted(L, cost), NEW last \in DOMAIN cost
  PROVE  /\ PortalGraphPath(L, cost, last) \in Seq(Hops) \ {<<>>}
         /\ PathOn(L, cost, last, PortalGraphPath(L, cost, last))
<1> DEFINE m == cost[last]
           S == 1..m
           V == Seq(Hops) \ {<<>>}
           Before(path) == CHOOSE h \in DOMAIN cost : /\ cost[h] = cost[path[1]] - 1
                                                      /\ path[1] \in NeighboursPortalGraph(L, h)
           Back(path) == <<Before(path)>> \o path
           b == <<last>>
           Rec(f) == f = [T \in SUBSET S |->
                            IF T = {} THEN b
                            ELSE LET x == CHOOSE x \in T : TRUE IN Back(f[T \ {x}])]
           it == CHOOSE f : Rec(f)
           st == [p \in S \X V |-> Back(p[2])]
           good == [T \in SUBSET S |->
                      {p \in V : Ends(L, cost, last, Cardinality(T), p)}]
<1>1. PortalGraphPath(L, cost, last) = it[S]
  BY DEF PortalGraphPath, FoldSet, MapThenFoldSet
<1>2. m \in Nat /\ DOMAIN cost \subseteq Hops /\ \A h \in DOMAIN cost : cost[h] \in Nat
  BY DEF Counted
<1>3. IsFiniteSet(S) /\ Cardinality(S) = m
  <2> HIDE DEF m
  <2>. QED BY <1>2, FS_Interval
<1>4. DOMAIN st = S \X V /\ \A e \in S, p \in V : st[<<e, p>>] = Back(p)
  OBVIOUS
<1>5. \A T \in SUBSET S : \A p : p \in good[T] <=>
        p \in V /\ Ends(L, cost, last, Cardinality(T), p)
  OBVIOUS
<1>6. \A T \in SUBSET S : /\ IsFiniteSet(T) /\ Cardinality(T) \in Nat /\ Cardinality(T) <= m
  <2> HIDE DEF S
  <2>. QED BY <1>3, FS_Subset, FS_CardinalityType
<1>7. b \in V /\ Ends(L, cost, last, 0, b)
  <2>1. b \in Seq(Hops) /\ b # <<>> /\ Len(b) = 1 /\ b[1] = last
    BY <1>2
  <2> HIDE DEF b
  <2>2. m = cost[last]
    OBVIOUS
  <2>3. \A i \in 1..0 + 1 : i = 1
    OBVIOUS
  <2>. QED BY <1>2, <2>1, <2>2, <2>3 DEF Ends
<1> HIDE DEF m, st, good, b
<1>8. ASSUME NEW f, Follows(f, S, V, Firsts(S), b, st)
      PROVE  Recurs(it, S, V, b, st)
  <2> HIDE DEF S, V
  <2> DEFINE ch == Firsts(S)
  <2>1. \A T \in SUBSET S : T # {} => ch[T] \in T /\ ch[T] = CHOOSE x \in T : TRUE
    BY FirstsAre
  <2> HIDE DEF Back
  <2>2. \A T \in SUBSET S : T # {} => f[T] = Back(f[T \ {ch[T]}])
    BY <1>4, <1>8 DEF Follows
  <2>3. /\ f = [T \in SUBSET S |-> f[T]]
        /\ \A T \in SUBSET S :
             f[T] = IF T = {} THEN b
                    ELSE LET x == CHOOSE x \in T : TRUE IN Back(f[T \ {x}])
    BY <1>8, <2>1, <2>2 DEF Follows
  <2>4. Rec(f)
    BY <2>3
  <2>5. Rec(it)
    <3> HIDE DEF Rec
    <3>. QED BY <2>4
  <2> HIDE DEF it
  <2>6. \A T \in SUBSET S :
          it[T] = IF T = {} THEN b
                  ELSE LET x == CHOOSE x \in T : TRUE IN Back(it[T \ {x}])
    BY <2>5
  <2>7. it[{}] = b /\ \A T \in SUBSET S : T # {} => it[T] = Back(it[T \ {ch[T]}])
    BY <2>1, <2>6
  <2> HIDE DEF Rec, ch
  <2>8. \A T \in SUBSET S : T # {} =>
          ch[T] \in T /\ (it[T \ {ch[T]}] \in V => it[T] = st[<<ch[T], it[T \ {ch[T]}]>>])
    BY <1>4, <2>1, <2>7
  <2>. QED BY <2>7, <2>8 DEF Recurs
<1> HIDE DEF it
<1>9. \A f : Follows(f, S, V, Firsts(S), b, st) => Recurs(it, S, V, b, st)
  BY <1>8
<1>10. ASSUME NEW T \in SUBSET S, NEW e \in T, NEW p \in good[T \ {e}]
       PROVE  st[<<e, p>>] \in good[T]
  <2> DEFINE n == Cardinality(T \ {e})
  <2>1. p \in V /\ Ends(L, cost, last, n, p)
    BY <1>5
  <2>2. n \in Nat /\ Cardinality(T) = n + 1 /\ n + 1 <= m
    BY <1>6, FS_RemoveElement
  <2> HIDE DEF n
  <2>3. p[1] \in DOMAIN cost /\ cost[p[1]] = m - n /\ cost[p[1]] > 0
    BY <1>2, <2>1, <2>2 DEF Ends, m
  <2>4. \E h \in DOMAIN cost : cost[h] = cost[p[1]] - 1 /\ p[1] \in NeighboursPortalGraph(L, h)
    BY <2>1, <2>3 DEF Counted
  <2> DEFINE h == Before(p)
  <2>5. h \in DOMAIN cost /\ cost[h] = cost[p[1]] - 1 /\ p[1] \in NeighboursPortalGraph(L, h)
    BY <2>4
  <2>6. st[<<e, p>>] = Back(p) /\ Back(p) = <<h>> \o p
    BY <1>4, <2>1
  <2> HIDE DEF h, Back
  <2>7. Ends(L, cost, last, n + 1, <<h>> \o p)
    BY <2>1, <2>2, <2>5, EndsBefore
  <2>9. PICK q : q = <<h>> \o p
    OBVIOUS
  <2>8. q \in V
    <3>1. q \in Seq(Hops) /\ Len(q) = n + 2
      BY <2>2, <2>7, <2>9 DEF Ends
    <3>2. q # <<>>
      BY <2>2, <3>1
    <3>. QED BY <3>1, <3>2
  <2>10. Ends(L, cost, last, Cardinality(T), q) /\ st[<<e, p>>] = q
    BY <2>2, <2>6, <2>7, <2>9, Zenon
  <2> HIDE DEF V, S
  <2>. QED BY <1>5, <2>8, <2>10
<1>11. Leads(S, V, good, b, st)
  <2>1. \A T \in SUBSET S : good[T] \subseteq V
    BY <1>5
  <2>2. b \in good[{}]
    BY <1>5, <1>7, FS_EmptySet
  <2> HIDE DEF V, S
  <2>. QED BY <1>3, <1>4, <1>10, <2>1, <2>2 DEF Leads
<1>12. it[S] \in good[S]
  <2> HIDE DEF V, S
  <2>. QED BY <1>9, <1>11, FoldReaches
<1>13. it[S] \in V /\ Ends(L, cost, last, m, it[S])
  <2> HIDE DEF V, S
  <2>. QED BY <1>3, <1>5, <1>12
<1>. QED BY <1>1, <1>13 DEF PathOn, m
-----------------------------------------------------------------------------
(* Requests *)

\* What a cache has for a destination and a chunk is a field of the chunk.
LEMMA MappedIs ==
  ASSUME NEW c, CacheOK(c), NEW d, NEW k, HasMapping(c, d, k)
  PROVE  Target(c.mapping[<<d, k>>]) /\ c.mapping[<<d, k>>].chunk = k
<1> DEFINE x == <<d, k>>
<1>1. x \in DOMAIN c.mapping /\ x[2] = k
  BY DEF HasMapping
<1> HIDE DEF x
<1>2. Target(c.mapping[x]) /\ c.mapping[x].chunk = x[2]
  BY <1>1 DEF CacheOK, CacheAt
<1>. QED BY <1>1, <1>2 DEF x

LEMMA FlowIs ==
  ASSUME NEW c, CacheOK(c), NEW id \in DOMAIN c.flow
  PROVE  FieldOK(id, c.flow[id])
BY DEF CacheOK, CacheAt, FieldOK

\* A new field is right.
LEMMA NewField ==
  ASSUME MapKept, NEW id, Target(id), NEW L, Current(L)
  PROVE  FieldOK(id, FlowFieldUpdate(L, id, NoFlow(id.chunk)))
<1> DEFINE ff == NoFlow(id.chunk)
<1>1. FieldOK(id, ff)
  BY NoFlowKeeps, FieldIs DEF FlowOK
<1> HIDE DEF ff
<1>2. FieldOK(id, FlowFieldUpdate(L, id, ff))
  BY <1>1, FieldChanges
<1>. QED BY <1>2 DEF ff

LEMMA DestFieldKeeps ==
  ASSUME MapKept, NEW L, Current(L), NEW c, CacheOK(c), NEW dst \in Dests
  PROVE  CacheOK(DestField(L, c, dst))
<1> DEFINE id == TileTarget(dst)
           k == id.chunk
           made == IF id \in DOMAIN c.flow THEN c
                   ELSE PutFlowField(c, id, FlowFieldUpdate(L, id, NoFlow(k)))
           mapped == IF HasField(c, dst, k) THEN c ELSE PutDestFFMapping(made, dst, k, id)
<1>1. DestField(L, c, dst) = IF <<dst, k>> \in DOMAIN c.los THEN mapped
                             ELSE PutLOSField(mapped, dst, k)
  BY DEF DestField
<1>2. Target(id)
  BY DEF Target
<1>3. k \in Chunk
  BY <1>2, TargetIs
<1> HIDE DEF id
<1>4. CacheOK(made)
  BY <1>2, NewField, PutFlowKeeps
<1> HIDE DEF made
<1>5. CacheOK(mapped)
  BY <1>2, <1>4, PutMappingKeeps
<1> HIDE DEF mapped
<1>6. CacheOK(PutLOSField(mapped, dst, k))
  BY <1>3, <1>5, PutLOSKeeps
<1>. QED BY <1>1, <1>5, <1>6

LEMMA HopFieldKeeps ==
  ASSUME MapKept, NEW L, Current(L), NEW c, CacheOK(c), NEW dst \in Dests,
         NEW id, Target(id), ~OfTile(id)
  PROVE  CacheOK(HopField(L, c, dst, id))
<1> DEFINE k == id.chunk
           exist == c.mapping[<<dst, k>>]
           mapped == PutDestFFMapping(c, dst, k, id)
<1>1. HopField(L, c, dst, id) =
        IF HasField(c, dst, k)
        THEN IF exist = id THEN c
             ELSE PutFlowField(mapped, id, FlowFieldUpdate(L, id, c.flow[exist]))
        ELSE IF id \in DOMAIN c.flow THEN mapped
        ELSE PutFlowField(mapped, id, FlowFieldUpdate(L, id, NoFlow(k)))
  BY DEF HopField
<1>2. CacheOK(mapped)
  BY PutMappingKeeps
<1> HIDE DEF mapped
<1>3. ASSUME HasField(c, dst, k)
      PROVE  CacheOK(PutFlowField(mapped, id, FlowFieldUpdate(L, id, c.flow[exist])))
  <2>1. Target(exist) /\ exist.chunk = k /\ exist \in DOMAIN c.flow
    BY <1>3, MappedIs DEF HasField
  <2> HIDE DEF exist
  <2>2. FieldOK(exist, c.flow[exist])
    BY <2>1, FlowIs
  <2> DEFINE ff == c.flow[exist]
  <2>3. DOMAIN ff = TilesOf[k] /\ (k \notin dirty => FlowOK(exist, ff))
    BY <2>1, <2>2, FieldIs
  <2> HIDE DEF ff
  <2>4. k \notin dirty => FlowOK(id, ff)
    BY <2>1, <2>3 DEF FlowOK, Homing
  <2>5. FieldOK(id, ff)
    BY <2>3, <2>4, FieldIs
  <2>6. FieldOK(id, FlowFieldUpdate(L, id, ff))
    BY <2>5, FieldChanges
  <2>. QED BY <1>2, <2>6, PutFlowKeeps DEF ff
<1>4. CacheOK(PutFlowField(mapped, id, FlowFieldUpdate(L, id, NoFlow(k))))
  BY <1>2, NewField, PutFlowKeeps
<1> HIDE DEF exist
<1>. QED BY <1>1, <1>2, <1>3, <1>4

\* What is put, and what it leaves.
LEMMA PutFlowIs ==
  ASSUME NEW c, CacheOK(c), NEW id, NEW ff
  PROVE  /\ DOMAIN PutFlowField(c, id, ff).flow = DOMAIN c.flow \union {id}
         /\ PutFlowField(c, id, ff).mapping = c.mapping
         /\ PutFlowField(c, id, ff).los = c.los
<1>1. PICK f, m, l, fk, lk :
        c = [flow |-> f, mapping |-> m, los |-> l, flowKeys |-> fk, losKeys |-> lk]
  BY CacheParts
<1> DEFINE g == PutAt(f, id, ff)
<1>2. c.flow = f /\ c.mapping = m /\ c.los = l
  BY <1>1
<1>3. /\ PutFlowField(c, id, ff).flow = g /\ PutFlowField(c, id, ff).mapping = m
      /\ PutFlowField(c, id, ff).los = l
  BY <1>1 DEF PutFlowField
<1>4. DOMAIN g = DOMAIN f \union {id}
  BY PutAtDomain
<1> HIDE DEF g
<1>. QED BY <1>2, <1>3, <1>4

LEMMA PutMappingIs ==
  ASSUME NEW c, CacheOK(c), NEW id, NEW d, NEW k, NEW y, y = <<d, k>>
  PROVE  /\ PutDestFFMapping(c, d, k, id).flow = c.flow
         /\ PutDestFFMapping(c, d, k, id).los = c.los
         /\ DOMAIN PutDestFFMapping(c, d, k, id).mapping = DOMAIN c.mapping \union {y}
         /\ PutDestFFMapping(c, d, k, id).mapping[y] = id
         /\ \A x \in DOMAIN c.mapping : x # y =>
              PutDestFFMapping(c, d, k, id).mapping[x] = c.mapping[x]
<1>1. PICK f, m, l, fk, lk :
        c = [flow |-> f, mapping |-> m, los |-> l, flowKeys |-> fk, losKeys |-> lk]
  BY CacheParts
<1> DEFINE g == PutAt(m, y, id)
<1>2. c.flow = f /\ c.mapping = m /\ c.los = l
  BY <1>1
<1>3. /\ PutDestFFMapping(c, d, k, id).flow = f /\ PutDestFFMapping(c, d, k, id).mapping = g
      /\ PutDestFFMapping(c, d, k, id).los = l
  BY <1>1 DEF PutDestFFMapping
<1>4. DOMAIN g = DOMAIN m \union {y}
  BY PutAtDomain
<1>5. g[y] = id
  BY PutAtNew
<1>6. ASSUME NEW x \in DOMAIN m, x # y PROVE g[x] = m[x]
  BY <1>6, PutAtOld
<1> HIDE DEF g
<1>. QED BY <1>2, <1>3, <1>4, <1>5, <1>6

LEMMA PutLOSIs ==
  ASSUME NEW c, CacheOK(c), NEW d, NEW k
  PROVE  /\ PutLOSField(c, d, k).flow = c.flow /\ PutLOSField(c, d, k).mapping = c.mapping
         /\ DOMAIN PutLOSField(c, d, k).los = DOMAIN c.los \union {<<d, k>>}
<1>1. PICK f, m, l, fk, lk :
        c = [flow |-> f, mapping |-> m, los |-> l, flowKeys |-> fk, losKeys |-> lk]
  BY CacheParts
<1> DEFINE y == <<d, k>>
           seen == Blocked \intersect map.tiles[k]
           g == PutAt(l, y, seen)
<1>2. c.flow = f /\ c.mapping = m /\ c.los = l
  BY <1>1
<1>3. /\ PutLOSField(c, d, k).flow = f /\ PutLOSField(c, d, k).mapping = m
      /\ PutLOSField(c, d, k).los = g
  BY <1>1 DEF PutLOSField
<1>4. DOMAIN g = DOMAIN l \union {y}
  <2> HIDE DEF y, seen
  <2>. QED BY PutAtDomain
<1> HIDE DEF g
<1>. QED BY <1>2, <1>3, <1>4

\* A mapping, or a line of sight, that is put leaves a field wherever there was one.
LEMMA PutMappingHas ==
  ASSUME NEW c, CacheOK(c), NEW id \in DOMAIN c.flow, NEW d, NEW k
  PROVE  /\ \A e, l : HasField(c, e, l) => HasField(PutDestFFMapping(c, d, k, id), e, l)
         /\ HasField(PutDestFFMapping(c, d, k, id), d, k)
<1> DEFINE v == PutDestFFMapping(c, d, k, id)
           y == <<d, k>>
<1>1. /\ v.flow = c.flow /\ v.los = c.los
      /\ DOMAIN v.mapping = DOMAIN c.mapping \union {y} /\ v.mapping[y] = id
      /\ \A x \in DOMAIN c.mapping : x # y => v.mapping[x] = c.mapping[x]
  <2>1. y = <<d, k>>
    OBVIOUS
  <2> HIDE DEF y
  <2>. QED BY <2>1, PutMappingIs
<1> HIDE DEF v
<1>2. HasField(v, d, k)
  BY <1>1 DEF HasField, HasMapping
<1>3. ASSUME NEW e, NEW l, HasField(c, e, l) PROVE HasField(v, e, l)
  <2> DEFINE x == <<e, l>>
  <2>1. x \in DOMAIN c.mapping /\ c.mapping[x] \in DOMAIN c.flow
    BY <1>3 DEF HasField, HasMapping
  <2>2. x \in DOMAIN v.mapping /\ v.mapping[x] \in DOMAIN v.flow
    <3> HIDE DEF x, y
    <3>. QED BY <1>1, <2>1
  <2>. QED BY <2>2 DEF HasField, HasMapping
<1>. QED BY <1>2, <1>3 DEF v

LEMMA PutLOSHas ==
  ASSUME NEW c, CacheOK(c), NEW d, NEW k
  PROVE  \A e, l : HasField(c, e, l) => HasField(PutLOSField(c, d, k), e, l)
<1>1. PutLOSField(c, d, k).flow = c.flow /\ PutLOSField(c, d, k).mapping = c.mapping
  BY PutLOSIs
<1>. QED BY <1>1 DEF HasField, HasMapping

\* The fields of a destination's chunk and of a hop are there when they have been
\* made, and those that were there are still there.
LEMMA DestFieldHas ==
  ASSUME MapKept, NEW L, Current(L), NEW c, CacheOK(c), NEW dst \in Dests
  PROVE  /\ HasField(DestField(L, c, dst), dst, ChunkOf(dst))
         /\ <<dst, ChunkOf(dst)>> \in DOMAIN DestField(L, c, dst).los
<1> DEFINE id == TileTarget(dst)
           k == id.chunk
           put == PutFlowField(c, id, FlowFieldUpdate(L, id, NoFlow(k)))
           made == IF id \in DOMAIN c.flow THEN c ELSE put
           mapped == IF HasField(c, dst, k) THEN c ELSE PutDestFFMapping(made, dst, k, id)
<1>1. DestField(L, c, dst) = IF <<dst, k>> \in DOMAIN c.los THEN mapped
                             ELSE PutLOSField(mapped, dst, k)
  BY DEF DestField
<1>2. Target(id) /\ k = ChunkOf(dst)
  BY DEF Target, TileTarget
<1> HIDE DEF id
<1>3. CacheOK(made) /\ id \in DOMAIN made.flow /\ made.los = c.los
  <2>1. CacheOK(put)
    BY <1>2, NewField, PutFlowKeeps
  <2>2. id \in DOMAIN put.flow /\ put.los = c.los
    BY PutFlowIs
  <2> HIDE DEF put
  <2>. QED BY <2>1, <2>2
<1> HIDE DEF made
<1>4. CacheOK(mapped) /\ mapped.los = c.los /\ HasField(mapped, dst, k)
  <2>1. CacheOK(PutDestFFMapping(made, dst, k, id))
    BY <1>2, <1>3, PutMappingKeeps
  <2>2. PutDestFFMapping(made, dst, k, id).los = c.los
    <3>1. PICK y : y = <<dst, k>>
      OBVIOUS
    <3>2. PutDestFFMapping(made, dst, k, id).los = made.los
      BY <1>3, <3>1, PutMappingIs
    <3>. QED BY <1>3, <3>2
  <2>3. HasField(PutDestFFMapping(made, dst, k, id), dst, k)
    BY <1>3, PutMappingHas
  <2>. QED BY <2>1, <2>2, <2>3
<1> HIDE DEF mapped
<1>5. HasField(PutLOSField(mapped, dst, k), dst, k) /\ <<dst, k>> \in DOMAIN PutLOSField(mapped, dst, k).los
  BY <1>4, PutLOSHas, PutLOSIs
<1>. QED BY <1>1, <1>2, <1>4, <1>5

LEMMA HopFieldHas ==
  ASSUME MapKept, NEW L, Current(L), NEW c, CacheOK(c), NEW dst \in Dests,
         NEW id, Target(id), ~OfTile(id)
  PROVE  LET v == HopField(L, c, dst, id)
         IN  /\ HasField(v, dst, id.chunk) /\ v.los = c.los
             /\ \A e, l : HasField(c, e, l) => HasField(v, e, l)
<1> DEFINE k == id.chunk
           exist == c.mapping[<<dst, k>>]
           mapped == PutDestFFMapping(c, dst, k, id)
           v == HopField(L, c, dst, id)
<1>1. v = IF HasField(c, dst, k)
          THEN IF exist = id THEN c
               ELSE PutFlowField(mapped, id, FlowFieldUpdate(L, id, c.flow[exist]))
          ELSE IF id \in DOMAIN c.flow THEN mapped
          ELSE PutFlowField(mapped, id, FlowFieldUpdate(L, id, NoFlow(k)))
  BY DEF HopField
<1> DEFINE y == <<dst, k>>
<1>2. /\ CacheOK(mapped) /\ mapped.flow = c.flow /\ mapped.los = c.los
      /\ DOMAIN mapped.mapping = DOMAIN c.mapping \union {y} /\ mapped.mapping[y] = id
      /\ \A x \in DOMAIN c.mapping : x # y => mapped.mapping[x] = c.mapping[x]
  <2>1. CacheOK(mapped) /\ y = <<dst, k>>
    BY PutMappingKeeps
  <2> HIDE DEF y, k
  <2>. QED BY <2>1, PutMappingIs
<1> HIDE DEF mapped, v
<1>3. ASSUME NEW ff
      PROVE  LET u == PutFlowField(mapped, id, ff)
             IN  /\ HasField(u, dst, k) /\ u.los = c.los
                 /\ \A e, l : HasField(c, e, l) => HasField(u, e, l)
  <2> DEFINE u == PutFlowField(mapped, id, ff)
  <2>1. /\ DOMAIN u.flow = DOMAIN mapped.flow \union {id}
        /\ u.mapping = mapped.mapping /\ u.los = mapped.los
    BY <1>2, PutFlowIs
  <2> HIDE DEF u
  <2>2. HasField(u, dst, k) /\ u.los = c.los
    BY <1>2, <2>1 DEF HasField, HasMapping
  <2>3. ASSUME NEW e, NEW l, HasField(c, e, l) PROVE HasField(u, e, l)
    <3> DEFINE x == <<e, l>>
    <3>1. x \in DOMAIN c.mapping /\ c.mapping[x] \in DOMAIN c.flow
      BY <2>3 DEF HasField, HasMapping
    <3>2. x \in DOMAIN u.mapping /\ u.mapping[x] \in DOMAIN u.flow
      <4> HIDE DEF x, y
      <4>. QED BY <1>2, <2>1, <3>1
    <3>. QED BY <3>2 DEF HasField, HasMapping
  <2>. QED BY <2>2, <2>3 DEF u
<1>4. ASSUME id \in DOMAIN c.flow
      PROVE  /\ HasField(mapped, dst, k) /\ mapped.los = c.los
             /\ \A e, l : HasField(c, e, l) => HasField(mapped, e, l)
  BY <1>2, <1>4, PutMappingHas DEF mapped
<1> HIDE DEF exist, y
<1>5. /\ HasField(v, dst, k) /\ v.los = c.los
      /\ \A e, l : HasField(c, e, l) => HasField(v, e, l)
  <2>1. CASE v = c /\ HasField(c, dst, k)
    BY <2>1
  <2>2. CASE \E ff : v = PutFlowField(mapped, id, ff)
    BY <1>3, <2>2
  <2>3. CASE v = mapped /\ id \in DOMAIN c.flow
    BY <1>4, <2>3
  <2>. QED BY <1>1, <2>1, <2>2, <2>3
<1>. QED BY <1>5 DEF v

\* What the loop over the hops carries.
WayOK(w) == w = [fc |-> w.fc, prev |-> w.prev, sound |-> w.sound] /\ CacheOK(w.fc)

LEMMA HopSightKeeps ==
  ASSUME MapKept, NEW w, WayOK(w), NEW dst, NEW k \in Chunk
  PROVE  WayOK(HopSight(w, dst, k))
<1>1. PICK c, q, s : w = [fc |-> c, prev |-> q, sound |-> s] /\ CacheOK(c)
  BY DEF WayOK
<1>2. w.fc = c /\ w.prev = q /\ w.sound = s
  BY <1>1
<1>3. CacheOK(PutLOSField(c, dst, k))
  BY <1>1, PutLOSKeeps
<1>4. CASE <<dst, k>> \in DOMAIN w.fc.los
  <2>1. HopSight(w, dst, k) = [w EXCEPT !.prev = k]
    BY <1>4 DEF HopSight
  <2>2. HopSight(w, dst, k) = [fc |-> c, prev |-> k, sound |-> s]
    BY <1>1, <2>1
  <2>. QED BY <1>1, <2>2 DEF WayOK
<1>5. CASE <<dst, k>> \notin DOMAIN w.fc.los
  <2> DEFINE d == PutLOSField(c, dst, k)
             t == w.sound /\ k \in Adjacent(w.prev) /\ <<dst, w.prev>> \in DOMAIN w.fc.los
  <2>1. HopSight(w, dst, k) = [fc |-> d, prev |-> k, sound |-> t]
    BY <1>2, <1>5 DEF HopSight
  <2> HIDE DEF d, t
  <2>. QED BY <1>3, <2>1 DEF WayOK, d
<1>. QED BY <1>4, <1>5

LEMMA TurnKeeps ==
  ASSUME MapKept, NEW L, Current(L), NEW w, WayOK(w), NEW path \in Seq(Hops) \ {<<>>},
         NEW i \in 2..Len(path), NEW src, NEW goal, NEW dst \in Dests, NEW dstPort
  PROVE  WayOK(Turn(L, w, path, i, src, goal, dst, dstPort))
<1> DEFINE n == NextHop(path, i, src)
           h == path[Max({n - 1, 1})]
           g == path[n]
           next == IF i < Len(path) THEN path[n + 1].iid ELSE ClosestPathableLocalIsland(L, goal)
           id == PortalTarget(g.port, g.iid, next)
           v == [w EXCEPT !.fc = HopField(L, w.fc, dst, id)]
<1>1. Turn(L, w, path, i, src, goal, dst, dstPort) =
        IF map.connected[h.port] = g.port \/ Unwanted(L, h, g, src, goal, dstPort) THEN w
        ELSE HopSight(v, dst, id.chunk)
  BY DEF Turn
<1>2. g \in Hops
  <2>1. n \in 1..Len(path)
    BY DEF NextHop
  <2> HIDE DEF n
  <2>. QED BY <2>1
<1>3. g.port \in Portal
  BY <1>2, HopIs
<1> HIDE DEF g, next, h, n
<1>4. Target(id) /\ ~OfTile(id)
  <2>1. DOMAIN id = {"chunk", "port", "iid", "next"}
    BY DEF PortalTarget
  <2>2. Target(id)
    BY <1>3 DEF Target
  <2>. QED BY <2>1, <2>2 DEF OfTile
<1>5. id.chunk \in Chunk
  BY <1>4, TargetIs
<1> HIDE DEF id
<1>6. WayOK(v)
  <2>1. PICK c, q, s : w = [fc |-> c, prev |-> q, sound |-> s] /\ CacheOK(c)
    BY DEF WayOK
  <2> DEFINE d == HopField(L, c, dst, id)
  <2>2. CacheOK(d)
    BY <1>4, <2>1, HopFieldKeeps
  <2>3. w.fc = c
    BY <2>1
  <2>4. v = [w EXCEPT !.fc = d]
    BY <2>3
  <2> HIDE DEF d, v
  <2>5. v = [fc |-> d, prev |-> q, sound |-> s]
    BY <2>1, <2>4
  <2>. QED BY <2>2, <2>5 DEF WayOK
<1> HIDE DEF v
<1>. QED BY <1>1, <1>5, <1>6, HopSightKeeps

\* The hop that a turn makes a field for, and the one before it.
HopOf(path, i, src) == path[NextHop(path, i, src)]
HopBefore(path, i, src) == path[Max({NextHop(path, i, src) - 1, 1})]
Skipped(L, path, i, src, goal, dstPort) ==
  \/ map.connected[HopBefore(path, i, src).port] = HopOf(path, i, src).port
  \/ Unwanted(L, HopBefore(path, i, src), HopOf(path, i, src), src, goal, dstPort)

\* What a turn does: nothing, if it is skipped; or it sees to it that the chunk k
\* of its hop has a field, and a line of sight that continues the last.
Turned(w, v, dst, k, skipped) ==
  /\ \A l : HasField(w.fc, dst, l) => HasField(v.fc, dst, l)
  /\ skipped => v = w
  /\ ~skipped => /\ HasField(v.fc, dst, k) /\ v.prev = k /\ <<dst, k>> \in DOMAIN v.fc.los
                 /\ (/\ w.sound = TRUE
                     /\ \/ <<dst, k>> \in DOMAIN w.fc.los
                        \/ k \in Adjacent(w.prev) /\ <<dst, w.prev>> \in DOMAIN w.fc.los)
                    => v.sound = TRUE

LEMMA TurnDoes ==
  ASSUME MapKept, NEW L, Current(L), NEW w, WayOK(w), NEW path \in Seq(Hops) \ {<<>>},
         NEW i \in 2..Len(path), NEW src, NEW goal, NEW dst \in Dests, NEW dstPort
  PROVE  Turned(w, Turn(L, w, path, i, src, goal, dst, dstPort), dst,
                HopOf(path, i, src).port.chunk, Skipped(L, path, i, src, goal, dstPort))
<1> DEFINE n == NextHop(path, i, src)
           h == HopBefore(path, i, src)
           g == HopOf(path, i, src)
           k == g.port.chunk
           next == IF i < Len(path) THEN path[n + 1].iid ELSE ClosestPathableLocalIsland(L, goal)
           id == PortalTarget(g.port, g.iid, next)
           u == [w EXCEPT !.fc = HopField(L, w.fc, dst, id)]
           v == Turn(L, w, path, i, src, goal, dst, dstPort)
           skip == Skipped(L, path, i, src, goal, dstPort)
<1>1. v = IF skip THEN w ELSE HopSight(u, dst, id.chunk)
  BY DEF Turn, HopOf, HopBefore, Skipped
<1>2. g.port \in Portal
  <2>1. n \in 1..Len(path)
    BY DEF NextHop
  <2>2. g \in Hops
    BY <2>1 DEF HopOf
  <2>. QED BY <2>2, HopIs
<1>3. Target(id) /\ ~OfTile(id) /\ id.chunk = k
  <2>1. DOMAIN id = {"chunk", "port", "iid", "next"} /\ id.chunk = k
    BY DEF PortalTarget
  <2>2. Target(id)
    BY <1>2 DEF Target
  <2>. QED BY <2>1, <2>2 DEF OfTile
<1> HIDE DEF id, skip
<1>4. PICK c, q, s : w = [fc |-> c, prev |-> q, sound |-> s] /\ CacheOK(c)
  BY DEF WayOK
<1> DEFINE d == HopField(L, c, dst, id)
<1>5. w.fc = c /\ w.prev = q /\ w.sound = s
  BY <1>4
<1>6. CacheOK(d)
  BY <1>3, <1>4, HopFieldKeeps
<1>7. HasField(d, dst, k) /\ d.los = c.los /\ \A e, l : HasField(c, e, l) => HasField(d, e, l)
  BY <1>3, <1>4, HopFieldHas
<1>8. u = [w EXCEPT !.fc = d]
  BY <1>5
<1> HIDE DEF d, u
<1>9. u = [fc |-> d, prev |-> q, sound |-> s]
  BY <1>4, <1>8
<1>10. u.fc = d /\ u.prev = q /\ u.sound = s
  BY <1>9
<1> DEFINE x == HopSight(u, dst, k)
           e == PutLOSField(d, dst, k)
           t == u.sound /\ k \in Adjacent(u.prev) /\ <<dst, u.prev>> \in DOMAIN u.fc.los
<1>11. CASE <<dst, k>> \in DOMAIN c.los
  <2>1. x = [u EXCEPT !.prev = k]
    BY <1>7, <1>10, <1>11 DEF HopSight
  <2>2. x.fc = d /\ x.prev = k /\ x.sound = s
    BY <1>9, <2>1
  <2> HIDE DEF x
  <2>. QED BY <1>1, <1>3, <1>5, <1>7, <1>11, <2>2 DEF x, skip, v, Turned
<1>12. CASE <<dst, k>> \notin DOMAIN c.los
  <2>1. x = [fc |-> e, prev |-> k, sound |-> t]
    BY <1>7, <1>10, <1>12 DEF HopSight
  <2>2. x.fc = e /\ x.prev = k /\ x.sound = t
    BY <2>1
  <2>3. <<dst, k>> \in DOMAIN e.los /\ \A a, l : HasField(d, a, l) => HasField(e, a, l)
    BY <1>6, PutLOSHas, PutLOSIs
  <2>4. s = TRUE /\ k \in Adjacent(q) /\ <<dst, q>> \in DOMAIN c.los => t = TRUE
    BY <1>7, <1>10
  <2> HIDE DEF x, e, t
  <2>. QED BY <1>1, <1>3, <1>5, <1>7, <1>12, <2>2, <2>3, <2>4 DEF x, skip, v, Turned
<1>. QED BY <1>11, <1>12

\* From the last number down to the first.
LEMMA DownTo ==
  ASSUME NEW m \in Nat, NEW G, m \in G, \A i \in 1..m - 1 : i + 1 \in G => i \in G
  PROVE  \A i \in 1..m : i \in G
<1> DEFINE D == {n \in Nat : m - n >= 1 => m - n \in G}
<1>1. 0 \in D
  OBVIOUS
<1>2. ASSUME NEW n \in Nat, n \in D PROVE n + 1 \in D
  <2> SUFFICES ASSUME m - (n + 1) >= 1 PROVE m - (n + 1) \in G
    OBVIOUS
  <2>1. m - n \in G /\ m - (n + 1) \in 1..m - 1 /\ (m - (n + 1)) + 1 = m - n
    BY <1>2
  <2>. QED BY <2>1
<1>3. \A n \in Nat : n \in D
  <2> HIDE DEF D
  <2>. QED BY <1>1, <1>2, NatSetInduction
<1>4. ASSUME NEW i \in 1..m PROVE i \in G
  <2>1. m - i \in Nat /\ m - (m - i) = i /\ i >= 1
    OBVIOUS
  <2>. QED BY <1>3, <2>1
<1>. QED BY <1>4

\* The fields along a path, made from its end: W[i] is what the turns from that
\* of the last hop to that of the hop after i have come to.
Turns(W, L, c, path, src, goal, dst, dstPort) ==
  /\ W[Len(path)] = [fc |-> c, prev |-> ChunkOf(dst), sound |-> TRUE]
  /\ \A i \in 1..Len(path) - 1 : W[i] = Turn(L, W[i + 1], path, i + 1, src, goal, dst, dstPort)

LEMMA PathFieldsTurn ==
  ASSUME NEW L, NEW c, NEW path \in Seq(Hops) \ {<<>>}, NEW src, NEW goal, NEW dst, NEW dstPort
  PROVE  \E W : /\ Turns(W, L, c, path, src, goal, dst, dstPort)
                /\ PathFields(L, c, path, src, goal, dst, dstPort) = W[1]
<1> DEFINE m == Len(path)
           S == 1..(m - 1)
           id == [i \in S |-> i + 1]
           b == [fc |-> c, prev |-> ChunkOf(dst), sound |-> TRUE]
           One(w, i) == Turn(L, w, path, i, src, goal, dst, dstPort)
           Val(g, T) == IF T = {} THEN b ELSE LET x == Min(T) IN One(g[T \ {x}], id[x])
           Rec(g) == g = [T \in SUBSET DOMAIN id |-> Val(g, T)]
           fold == CHOOSE g : Rec(g)
           W == [i \in 1..m |-> fold[i..(m - 1)]]
<1>1. PathFields(L, c, path, src, goal, dst, dstPort) = fold[DOMAIN id]
  BY DEF PathFields, FoldRight, MapThenFoldSet
<1>2. /\ DOMAIN id = S /\ \A i \in S : id[i] = i + 1
      /\ S \in SUBSET Nat /\ IsFiniteSet(S) /\ m \in Nat \ {0} /\ S = 1..(m - 1)
  <2>1. m \in Nat \ {0} /\ m - 1 \in Int /\ S \in SUBSET Nat
    OBVIOUS
  <2>2. IsFiniteSet(S)
    <3> HIDE DEF m
    <3>. QED BY <2>1, FS_Interval
  <2>3. ASSUME NEW i \in S PROVE id[i] = i + 1
    BY <2>1, <2>3
  <2>. QED BY <2>1, <2>2, <2>3
<1>3. \A i \in 1..m : W[i] = fold[i..(m - 1)]
  OBVIOUS
<1>4. m = Len(path) /\ b = [fc |-> c, prev |-> ChunkOf(dst), sound |-> TRUE]
  OBVIOUS
<1> HIDE DEF id, b, One, S, m, W
<1>5. \A T \in SUBSET S : T # {} => Min(T) \in T
  <2>1. ASSUME NEW T \in SUBSET S, T # {} PROVE Min(T) \in T
    <3>1. T \in SUBSET Nat
      BY <1>2
    <3>. QED BY <2>1, <3>1, LeastIs
  <2>. QED BY <2>1
<1>6. \A T \in SUBSET S : /\ IsFiniteSet(T) /\ Cardinality(T) \in Nat
                          /\ Cardinality(T) <= Cardinality(S)
                          /\ T # {} => Cardinality(T \ {Min(T)}) = Cardinality(T) - 1
  BY <1>2, <1>5, FS_Subset, FS_CardinalityType, FS_RemoveElement
<1> DEFINE Good(g, n) == \A T \in SUBSET S : Cardinality(T) <= n => g[T] = Val(g, T)
           N == {n \in Nat : \E g : Good(g, n)}
<1>7. 0 \in N
  <2> DEFINE g == [T \in SUBSET S |-> b]
  <2>1. ASSUME NEW T \in SUBSET S, Cardinality(T) <= 0 PROVE T = {}
    <3>1. Cardinality(T) \in Nat /\ IsFiniteSet(T)
      BY <1>6
    <3>2. Cardinality(T) = 0
      BY <2>1, <3>1
    <3>. QED BY <3>1, <3>2, FS_EmptySet
  <2>2. Good(g, 0)
    BY <2>1
  <2> HIDE DEF Good, g
  <2>. QED BY <2>2
<1>8. ASSUME NEW n \in Nat, n \in N PROVE n + 1 \in N
  <2>1. PICK g : Good(g, n)
    BY <1>8
  <2> DEFINE h == [T \in SUBSET S |-> Val(g, T)]
  <2>2. ASSUME NEW T \in SUBSET S, Cardinality(T) <= n + 1 PROVE h[T] = Val(h, T)
    <3>1. CASE T = {}
      BY <3>1
    <3>2. CASE T # {}
      <4> DEFINE U == T \ {Min(T)}
      <4>1. U \in SUBSET S /\ Cardinality(U) <= n
        <5>1. U \in SUBSET S /\ Cardinality(U) = Cardinality(T) - 1
          BY <1>6, <3>2
        <5>2. Cardinality(T) \in Nat
          BY <1>6
        <5> HIDE DEF U
        <5>. QED BY <2>2, <5>1, <5>2
      <4>2. g[U] = Val(g, U)
        BY <2>1, <4>1
      <4>3. h[U] = g[U]
        BY <4>1, <4>2
      <4>4. h[T] = One(g[U], id[Min(T)]) /\ Val(h, T) = One(h[U], id[Min(T)])
        BY <3>2
      <4>. QED BY <4>3, <4>4
    <3>. QED BY <3>1, <3>2
  <2> HIDE DEF h, Val
  <2>3. Good(h, n + 1)
    BY <2>2
  <2> HIDE DEF Good
  <2>. QED BY <2>3
<1>9. \A n \in Nat : n \in N
  <2> HIDE DEF N
  <2>. QED BY <1>7, <1>8, NatSetInduction
<1>10. PICK g : Good(g, Cardinality(S))
  BY <1>6, <1>9
<1> DEFINE h == [T \in SUBSET S |-> Val(g, T)]
<1>11. \A T \in SUBSET S : h[T] = g[T]
  BY <1>6, <1>10
<1>12. Rec(h)
  <2>1. ASSUME NEW T \in SUBSET S PROVE Val(g, T) = Val(h, T)
    <3>1. CASE T = {}
      BY <3>1
    <3>2. CASE T # {}
      <4> DEFINE U == T \ {Min(T)}
      <4>1. h[U] = g[U]
        BY <1>11
      <4>2. Val(g, T) = One(g[U], id[Min(T)]) /\ Val(h, T) = One(h[U], id[Min(T)])
        BY <3>2
      <4>. QED BY <4>1, <4>2
    <3>. QED BY <3>1, <3>2
  <2> HIDE DEF Val
  <2>. QED BY <1>2, <2>1
<1> HIDE DEF h
<1>13. Rec(fold)
  BY <1>12
<1> HIDE DEF fold
<1>14. \A T \in SUBSET S : fold[T] = Val(fold, T)
  BY <1>2, <1>13
<1>15. W[m] = b
  <2>1. m..(m - 1) = {} /\ m \in 1..m /\ {} \in SUBSET S
    BY <1>2
  <2> HIDE DEF fold
  <2>. QED BY <1>3, <1>14, <2>1
<1>16. ASSUME NEW i \in 1..m - 1 PROVE W[i] = One(W[i + 1], i + 1)
  <2> DEFINE T == i..(m - 1)
             U == (i + 1)..(m - 1)
  <2>1. T \in SUBSET S /\ U \in SUBSET S /\ T # {} /\ i \in T /\ U = T \ {i} /\ i \in S
    <3>1. i \in Nat /\ i >= 1 /\ i <= m - 1
      BY <1>2
    <3>2. S = 1..(m - 1) /\ m \in Nat
      BY <1>2
    <3>3. \A j : j \in T <=> j \in Int /\ i <= j /\ j <= m - 1
      BY <3>1, <3>2
    <3>4. \A j : j \in U <=> j \in Int /\ i + 1 <= j /\ j <= m - 1
      BY <3>1, <3>2
    <3> HIDE DEF T, U
    <3>5. \A j : j \in S <=> j \in Int /\ 1 <= j /\ j <= m - 1
      BY <3>2
    <3>. QED BY <3>1, <3>2, <3>3, <3>4, <3>5
  <2>2. \A n \in T : i <= n
    OBVIOUS
  <2>3. Min(T) = i
    <3>1. T \in SUBSET Nat
      BY <1>2, <2>1
    <3> HIDE DEF T
    <3>2. Min(T) \in T /\ \A n \in T : Min(T) <= n
      BY <2>1, <3>1, LeastIs
    <3>3. Min(T) <= i /\ i <= Min(T) /\ Min(T) \in Nat /\ i \in Nat
      BY <2>1, <2>2, <3>1, <3>2
    <3>. QED BY <3>3
  <2>4. W[i] = fold[T] /\ W[i + 1] = fold[U]
    BY <1>2, <1>3
  <2> HIDE DEF T, U, fold
  <2>5. fold[T] = One(fold[T \ {i}], id[i])
    BY <1>14, <2>1, <2>3
  <2>. QED BY <1>2, <2>1, <2>4, <2>5
<1>17. fold[DOMAIN id] = W[1]
  BY <1>2, <1>3
<1>18. \A i \in 1..m - 1 : W[i] = Turn(L, W[i + 1], path, i + 1, src, goal, dst, dstPort)
  BY <1>16 DEF One
<1>19. Turns(W, L, c, path, src, goal, dst, dstPort)
  BY <1>4, <1>15, <1>18 DEF Turns
<1>. QED BY <1>1, <1>17, <1>19

LEMMA PathFieldsKeep ==
  ASSUME MapKept, NEW L, Current(L), NEW c, CacheOK(c), NEW path \in Seq(Hops) \ {<<>>},
         NEW src, NEW goal, NEW dst \in Dests, NEW dstPort
  PROVE  \E W : /\ Turns(W, L, c, path, src, goal, dst, dstPort)
                /\ PathFields(L, c, path, src, goal, dst, dstPort) = W[1]
                /\ \A i \in 1..Len(path) : WayOK(W[i])
<1>1. PICK W : /\ Turns(W, L, c, path, src, goal, dst, dstPort)
               /\ PathFields(L, c, path, src, goal, dst, dstPort) = W[1]
  BY PathFieldsTurn
<1> DEFINE m == Len(path)
           G == {i \in 1..m : WayOK(W[i])}
<1>2. m \in Nat \ {0} /\ m \in 1..m /\ 1 \in 1..m
  OBVIOUS
<1>3. m \in G
  BY <1>1, <1>2 DEF Turns, WayOK
<1>4. ASSUME NEW i \in 1..m - 1, i + 1 \in G PROVE i \in G
  <2>1. i + 1 \in 2..m /\ i \in 1..m
    BY <1>2
  <2>2. WayOK(Turn(L, W[i + 1], path, i + 1, src, goal, dst, dstPort))
    BY <1>4, <2>1, TurnKeeps
  <2>. QED BY <1>1, <2>1, <2>2 DEF Turns
<1>5. \A i \in 1..m : i \in G
  <2> HIDE DEF G, m
  <2>. QED BY <1>2, <1>3, <1>4, DownTo
<1>. QED BY <1>1, <1>5

\* A path that was found has two hops or more, from a portal of the source's chunk
\* to that of the destination's; each is followed by its other side or by one of
\* the same chunk.
Hopped(path, cost, src, last) ==
  /\ path \in Seq(Hops) \ {<<>>} /\ Len(path) \in Nat /\ Len(path) >= 2
  /\ path[1].port.chunk = ChunkOf(src) /\ path[Len(path)] = last
  /\ \A i \in 1..Len(path) : path[i].port \in Portal /\ cost[path[i]] = i - 1
  /\ \A i \in 1..Len(path) - 1 : \/ path[i + 1].port = Connected[path[i].port]
                                 \/ path[i + 1].port.chunk = path[i].port.chunk

LEMMA PathHops ==
  ASSUME MapKept, NEW L, Current(L), NEW src \in Passable, NEW cost, Counted(L, cost),
         CountedFrom(L, src, cost), NEW last, Found(cost, last)
  PROVE  Hopped(PortalGraphPath(L, cost, last), cost, src, last)
<1> DEFINE path == PortalGraphPath(L, cost, last)
           m == Len(path)
<1>1. last \in DOMAIN cost /\ cost[last] > 0 /\ cost[last] \in Nat
  BY DEF Found, Counted
<1>2. path \in Seq(Hops) \ {<<>>} /\ PathOn(L, cost, last, path)
  BY <1>1, PathIs
<1> HIDE DEF path
<1>3. /\ m = cost[last] + 1 /\ path[m] = last
      /\ \A i \in 1..m : path[i] \in DOMAIN cost /\ cost[path[i]] = i - 1
      /\ \A i \in 1..m - 1 : path[i + 1] \in NeighboursPortalGraph(L, path[i])
  BY <1>1, <1>2 DEF PathOn, Ends
<1>4. \A i \in 1..m : path[i] \in Hops /\ path[i].port \in Portal
  BY <1>2, HopIs
<1>5. path[1].port.chunk = ChunkOf(src)
  <2>1. path[1] \in DOMAIN cost /\ cost[path[1]] = 0
    BY <1>1, <1>3
  <2>2. path[1] \in FirstHops(L, src)
    BY <2>1 DEF CountedFrom
  <2>3. PICK q \in map.portals[ChunkOf(src)] : path[1].port = q
    BY <2>2 DEF FirstHops, Hop
  <2>. QED BY <2>3, PassableAre, MapIs DEF PortalsOf
<1>6. ASSUME NEW i \in 1..m - 1
      PROVE  \/ path[i + 1].port = Connected[path[i].port]
             \/ path[i + 1].port.chunk = path[i].port.chunk
  <2>1. path[i] \in Hops /\ path[i + 1] \in NeighboursPortalGraph(L, path[i])
    BY <1>1, <1>3, <1>4
  <2> DEFINE h == path[i]
             g == path[i + 1]
  <2>2. h \in Hops /\ g \in NeighboursPortalGraph(L, h)
    BY <2>1
  <2> HIDE DEF h, g
  <2>3. Along(L, h, g) \/ Across(L, h, g)
    BY <2>2, NeighboursAre
  <2>4. CASE Along(L, h, g)
    <3>1. PICK q \in Portal : q.chunk = h.port.chunk /\ g = Hop(q, h.iid)
      BY <2>4, Zenon DEF Along
    <3>2. g.port.chunk = h.port.chunk
      BY <3>1 DEF Hop
    <3>. QED BY <3>2 DEF h, g
  <2>5. CASE Across(L, h, g)
    <3>1. PICK j : g = Hop(Connected[h.port], j)
      BY <2>5, Zenon DEF Across
    <3>2. g.port = Connected[h.port]
      BY <3>1 DEF Hop
    <3>. QED BY <3>2 DEF h, g
  <2>. QED BY <2>3, <2>4, <2>5
<1>. QED BY <1>1, <1>2, <1>3, <1>4, <1>5, <1>6 DEF Hopped, path

\* The two sides of a portal.
LEMMA SidesAre ==
  ASSUME NEW p \in Portal
  PROVE  /\ p.chunk \in Chunk /\ p.next \in Chunk /\ p.chunk # p.next
         /\ p.chunk \in Adjacent(p.next) /\ p.next \in Adjacent(p.chunk)
         /\ Connected[p] \in Portal /\ Connected[p].chunk = p.next /\ Connected[p].next = p.chunk
<1>1. p.chunk \in Chunk /\ p.next \in Adjacent(p.chunk)
  BY PortalTiles
<1>2. p.next \in Chunk /\ p.chunk \in Adjacent(p.next)
  BY <1>1, AdjacentAre
<1>3. p.chunk # p.next
  <2>1. \/ p.chunk[1] = p.next[1] /\ (p.next[2] = p.chunk[2] + 1 \/ p.next[2] = p.chunk[2] - 1)
        \/ p.chunk[2] = p.next[2] /\ (p.next[1] = p.chunk[1] + 1 \/ p.next[1] = p.chunk[1] - 1)
    BY <1>1, AdjacentAre
  <2>2. p.chunk[1] \in Int /\ p.chunk[2] \in Int
    BY <1>1, NavMapAssumption DEF Chunk
  <2>. QED BY <2>1, <2>2
<1>. QED BY <1>1, <1>2, <1>3, Mirrored

\* A path that was found to another chunk leaves a field for the chunk of the source.
LEMMA PathServes ==
  ASSUME MapKept, NEW L, Current(L), NEW c, CacheOK(c), NEW path, NEW cost, NEW src, NEW last,
         Hopped(path, cost, src, last), NEW goal, NEW dst \in Dests, NEW dstPort,
         ChunkOf(src) # ChunkOf(goal)
  PROVE  HasField(PathFields(L, c, path, src, goal, dst, dstPort).fc, dst, ChunkOf(src))
<1> DEFINE m == Len(path)
<1>1. path \in Seq(Hops) \ {<<>>} /\ m \in Nat /\ m >= 2
  BY DEF Hopped
<1>2. PICK W : /\ Turns(W, L, c, path, src, goal, dst, dstPort)
               /\ PathFields(L, c, path, src, goal, dst, dstPort) = W[1]
               /\ \A i \in 1..m : WayOK(W[i])
  BY <1>1, PathFieldsKeep
<1> DEFINE n == NextHop(path, 2, src)
           h == HopBefore(path, 2, src)
           g == HopOf(path, 2, src)
<1>3. n = (IF path[2].port.chunk # ChunkOf(src) THEN 1 ELSE 2)
  BY DEF NextHop
<1>4. Max({n - 1, 1}) = 1
  <2>1. {n - 1, 1} = {0, 1} \/ {n - 1, 1} = {1}
    BY <1>3
  <2>2. Max({0, 1}) = 1 /\ Max({1}) = 1
    BY DEF Max
  <2> HIDE DEF n
  <2>. QED BY <2>1, <2>2
<1>5. h = path[1] /\ h.port \in Portal /\ h.port.chunk = ChunkOf(src)
  <2>1. 1 \in 1..m
    BY <1>1
  <2>2. h = path[Max({n - 1, 1})]
    BY DEF HopBefore
  <2> HIDE DEF n, h
  <2>. QED BY <1>4, <2>1, <2>2 DEF Hopped
<1>6. g.port.chunk = ChunkOf(src)
  <2>1. g = path[n]
    BY DEF HopOf
  <2> HIDE DEF g, n, h
  <2>. QED BY <1>3, <1>5, <2>1
<1>7. Connected[h.port].chunk # ChunkOf(src)
  BY <1>5, SidesAre
<1>8. ~Skipped(L, path, 2, src, goal, dstPort)
  <2>1. ~(map.connected[h.port] = g.port \/ Unwanted(L, h, g, src, goal, dstPort))
    <3> HIDE DEF h, g
    <3>. QED BY <1>5, <1>6, <1>7, MapIs DEF Unwanted
  <2>. QED BY <2>1 DEF Skipped
<1>9. 2 \in 2..m /\ WayOK(W[2]) /\ W[1] = Turn(L, W[2], path, 2, src, goal, dst, dstPort)
  BY <1>1, <1>2 DEF Turns
<1> DEFINE k == g.port.chunk
<1>10. HasField(W[1].fc, dst, k)
  <2>1. 2 \in 2..Len(path)
    BY <1>9
  <2>2. Turned(W[2], Turn(L, W[2], path, 2, src, goal, dst, dstPort), dst,
               HopOf(path, 2, src).port.chunk, Skipped(L, path, 2, src, goal, dstPort))
    BY <1>1, <1>9, <2>1, TurnDoes
  <2>. QED BY <1>8, <1>9, <2>2 DEF Turned
<1>. QED BY <1>2, <1>6, <1>10

\* The last line of sight that was made, when the turns have come to the hop p of
\* a path, is on one of the sides of p's portal; of its own chunk at the end.
InRow(w, dst, p, ends) ==
  /\ w.sound = TRUE /\ <<dst, w.prev>> \in DOMAIN w.fc.los
  /\ w.prev \in {p.chunk, p.next} /\ (ends => w.prev = p.chunk)

\* A turn that makes a field for the hop g comes to every hop whose portal is in
\* the same chunk.
LEMMA TurnInRow ==
  ASSUME MapKept, NEW L, Current(L), NEW w, WayOK(w), NEW path \in Seq(Hops) \ {<<>>},
         NEW i \in 2..Len(path), NEW src, NEW goal, NEW dst \in Dests, NEW dstPort,
         ~Skipped(L, path, i, src, goal, dstPort), HopOf(path, i, src).port \in Portal,
         \/ InRow(w, dst, HopOf(path, i, src).port, FALSE)
         \/ InRow(w, dst, Connected[HopOf(path, i, src).port], FALSE)
  PROVE  \A q : q.chunk = HopOf(path, i, src).port.chunk =>
           InRow(Turn(L, w, path, i, src, goal, dst, dstPort), dst, q, TRUE)
<1> DEFINE g == HopOf(path, i, src).port
           k == g.chunk
           v == Turn(L, w, path, i, src, goal, dst, dstPort)
<1>1. w.sound = TRUE /\ <<dst, w.prev>> \in DOMAIN w.fc.los /\ w.prev \in {g.chunk, g.next}
  BY SidesAre DEF InRow
<1>2. w.prev = k \/ k \in Adjacent(w.prev)
  BY <1>1, SidesAre
<1>3. Turned(w, v, dst, k, Skipped(L, path, i, src, goal, dstPort))
  BY TurnDoes
<1> HIDE DEF v, k, g
<1>4. v.sound = TRUE /\ v.prev = k /\ <<dst, k>> \in DOMAIN v.fc.los
  BY <1>1, <1>2, <1>3 DEF Turned
<1>5. \A q : q.chunk = k => InRow(v, dst, q, TRUE)
  BY <1>4 DEF InRow
<1>. QED BY <1>5 DEF v, k, g

LEMMA HopParts ==
  ASSUME NEW h \in Hops, NEW g \in Hops, h.port = g.port, h.iid = g.iid
  PROVE  h = g
BY DEF Hops, Hop

\* The lines of sight of a path that was found are made in a row, if the local
\* island that the path ends on is looked up rightly.
LEMMA PathInRow ==
  ASSUME MapKept, NEW L, Current(L), NEW c, CacheOK(c), NEW path, NEW cost, NEW src, NEW goal,
         NEW dst \in Dests, NEW dstPort, Hopped(path, cost, src, LastHop(L, goal, dstPort)),
         dstPort.chunk = ChunkOf(dst), ChunkOf(goal) = ChunkOf(dst),
         DestIsland(L, src, goal) = ClosestPathableLocalIsland(L, goal),
         <<dst, ChunkOf(dst)>> \in DOMAIN c.los
  PROVE  PathFields(L, c, path, src, goal, dst, dstPort).sound = TRUE
<1> DEFINE m == Len(path)
           last == LastHop(L, goal, dstPort)
<1>1. /\ path \in Seq(Hops) \ {<<>>} /\ m \in Nat /\ m >= 2 /\ path[m] = last
      /\ \A i \in 1..m : path[i] \in Hops /\ path[i].port \in Portal /\ cost[path[i]] = i - 1
      /\ last.port = dstPort /\ last.iid = ClosestPathableLocalIsland(L, goal)
  BY DEF Hopped, LastHop, Hop
<1>2. PICK W : /\ Turns(W, L, c, path, src, goal, dst, dstPort)
               /\ PathFields(L, c, path, src, goal, dst, dstPort) = W[1]
               /\ \A i \in 1..m : WayOK(W[i])
  BY <1>1, PathFieldsKeep
<1> HIDE DEF last
<1> DEFINE G == {i \in 1..m : InRow(W[i], dst, path[i].port, i = m)}
<1>3. m \in G
  <2>1. W[m] = [fc |-> c, prev |-> ChunkOf(dst), sound |-> TRUE]
    BY <1>2 DEF Turns
  <2>2. path[m].port.chunk = ChunkOf(dst) /\ m \in 1..m
    BY <1>1
  <2>3. InRow(W[m], dst, path[m].port, m = m)
    <3> HIDE DEF m
    <3>. QED BY <2>1, <2>2 DEF InRow
  <2>. QED BY <2>2, <2>3
<1>4. ASSUME NEW i \in 1..m - 1, i + 1 \in G PROVE i \in G
  <2> DEFINE j == i + 1
             n == NextHop(path, j, src)
             h == HopBefore(path, j, src)
             g == HopOf(path, j, src)
             skip == Skipped(L, path, j, src, goal, dstPort)
             p == path[i].port
             w == W[j]
             v == Turn(L, w, path, j, src, goal, dst, dstPort)
  <2>1. /\ i \in 1..m /\ j \in 2..m /\ j \in 1..m /\ i # m /\ 1 \in 1..m
        /\ W[i] = v /\ WayOK(w)
    BY <1>1, <1>2 DEF Turns
  <2>2. InRow(w, dst, path[j].port, j = m)
    BY <1>4
  <2>3. /\ p \in Portal /\ path[j].port \in Portal /\ path[i] \in Hops /\ path[j] \in Hops
        /\ path[j].port = Connected[p] \/ path[j].port.chunk = p.chunk
        /\ cost[path[i]] = i - 1 /\ cost[path[j]] = i
    BY <1>1, <2>1 DEF Hopped
  <2>4. map.connected = Connected
    BY MapIs
  <2>a. /\ h = path[Max({n - 1, 1})] /\ g = path[n]
        /\ skip <=> map.connected[h.port] = g.port \/ Unwanted(L, h, g, src, goal, dstPort)
    BY DEF HopOf, HopBefore, Skipped
  <2>b. skip => v = w
    <3> HIDE DEF j, w
    <3>1. j \in 2..Len(path)
      BY <2>1
    <3>2. Turned(w, Turn(L, w, path, j, src, goal, dst, dstPort), dst,
                 HopOf(path, j, src).port.chunk, Skipped(L, path, j, src, goal, dstPort))
      BY <1>1, <2>1, <3>1, TurnDoes
    <3>. QED BY <3>2 DEF Turned
  <2>c. ASSUME ~skip, g.port \in Portal, p.chunk = g.port.chunk,
               InRow(w, dst, g.port, FALSE) \/ InRow(w, dst, Connected[g.port], FALSE)
        PROVE  InRow(v, dst, p, TRUE)
    <3> HIDE DEF j, p
    <3>1. j \in 2..Len(path)
      BY <2>1
    <3>. QED BY <1>1, <2>1, <2>c, <3>1, TurnInRow
  <2>5. ASSUME Unwanted(L, h, g, src, goal, dstPort), g \in Hops
        PROVE  g = last /\ cost[g] = m - 1 /\ h.port.chunk = ChunkOf(dst)
    <3>1. g.port = dstPort /\ g.iid = ClosestPathableLocalIsland(L, goal) /\ h.port.chunk = ChunkOf(dst)
      BY <2>5 DEF Unwanted
    <3>2. last \in Hops /\ cost[last] = m - 1
      BY <1>1
    <3> HIDE DEF g, h, m
    <3>. QED BY <1>1, <2>5, <3>1, <3>2, HopParts
  <2>6. CASE n = j
    <3>1. h = path[i] /\ g = path[j]
      <4>1. Max({i, 1}) = i
        BY DEF Max
      <4>2. n - 1 = i
        BY <2>6
      <4> HIDE DEF n, h, g
      <4>. QED BY <2>6, <2>a, <4>1, <4>2
    <3> HIDE DEF n, h, g, skip
    <3>2. CASE map.connected[h.port] = g.port
      <4>1. v = w
        BY <2>a, <2>b, <3>2
      <4>2. Connected[p] = path[j].port /\ Connected[p].chunk = p.next /\ Connected[p].next = p.chunk
        BY <2>3, <2>4, <3>1, <3>2, SidesAre
      <4> HIDE DEF v, w, p, j, m
      <4>. QED BY <2>1, <2>2, <4>1, <4>2 DEF InRow, p
    <3>3. CASE map.connected[h.port] # g.port /\ Unwanted(L, h, g, src, goal, dstPort)
      <4>1. v = w
        BY <2>a, <2>b, <3>3
      <4>2. i = m - 1 /\ p.chunk = ChunkOf(dst) /\ path[j] = last
        BY <2>3, <2>5, <3>1, <3>3
      <4>3. j = m /\ path[j].port.chunk = ChunkOf(dst)
        BY <1>1, <4>2
      <4>4. w.prev = ChunkOf(dst)
        <5> HIDE DEF w, j, m
        <5>. QED BY <2>2, <4>3 DEF InRow
      <4> HIDE DEF v, w, p, j, m
      <4>. QED BY <2>1, <2>2, <4>1, <4>2, <4>4 DEF InRow, p
    <3>4. CASE map.connected[h.port] # g.port /\ ~Unwanted(L, h, g, src, goal, dstPort)
      <4>1. p.chunk = g.port.chunk /\ g.port \in Portal
        BY <2>3, <2>4, <3>1, <3>4
      <4>2. InRow(w, dst, g.port, FALSE)
        BY <2>2, <3>1 DEF InRow
      <4>3. InRow(v, dst, p, TRUE)
        <5> HIDE DEF v, w, p
        <5>. QED BY <2>a, <2>c, <3>4, <4>1, <4>2
      <4> HIDE DEF v, w, p, j, m
      <4>. QED BY <2>1, <4>3 DEF InRow, p
    <3>. QED BY <3>2, <3>3, <3>4
  <2>7. CASE n # j
    <3>1. i = 1 /\ n = 1 /\ path[2].port.chunk # ChunkOf(src)
      <4>1. j = 2 /\ path[2].port.chunk # ChunkOf(src) /\ n = 1
        BY <2>7 DEF NextHop
      <4>. QED BY <4>1
    <3>2. h = path[1] /\ g = path[1]
      <4>1. {n - 1, 1} = {0, 1}
        BY <3>1
      <4>2. Max({0, 1}) = 1
        BY DEF Max
      <4> HIDE DEF n, h, g
      <4>. QED BY <2>a, <3>1, <4>1, <4>2
    <3>3. p.chunk = ChunkOf(src) /\ path[j].port = Connected[p]
      BY <2>3, <3>1 DEF Hopped
    <3>4. ~Unwanted(L, h, g, src, goal, dstPort)
      <4>1. g \in Hops /\ cost[g] = 0
        BY <2>3, <3>1, <3>2
      <4> HIDE DEF n, h, g
      <4>. QED BY <1>1, <2>5, <4>1
    <3>5. h.port = p /\ g.port = p
      BY <3>1, <3>2
    <3> HIDE DEF n, h, g, skip
    <3>6. map.connected[h.port] # g.port
      BY <2>3, <2>4, <3>5, SidesAre
    <3>7. InRow(v, dst, p, TRUE)
      <4>1. /\ g.port \in Portal /\ p.chunk = g.port.chunk
            /\ InRow(w, dst, Connected[g.port], FALSE)
        BY <2>2, <2>3, <3>3, <3>5 DEF InRow
      <4> HIDE DEF v, w, p
      <4>. QED BY <2>a, <2>c, <3>4, <3>6, <4>1
    <3> HIDE DEF v, w, p, j, m
    <3>. QED BY <2>1, <3>7 DEF InRow, p
  <2>. QED BY <2>6, <2>7
<1>5. \A i \in 1..m : i \in G
  <2> HIDE DEF G, m
  <2>. QED BY <1>1, <1>3, <1>4, DownTo
<1>6. InRow(W[1], dst, path[1].port, 1 = m)
  BY <1>1, <1>5
<1>. QED BY <1>2, <1>6 DEF InRow

\* What a request answers.
ReplyOK(r) == r = [ok |-> r.ok, fc |-> r.fc, sound |-> r.sound] /\ CacheOK(r.fc)

LEMMA ReplyKeeps ==
  ASSUME NEW c, CacheOK(c), NEW ok
  PROVE  ReplyOK(Reply(c, ok))
BY DEF ReplyOK, Reply

LEMMA FollowKeeps ==
  ASSUME MapKept, NEW L, Current(L), NEW c, CacheOK(c), NEW cost, Counted(L, cost),
         NEW src, NEW goal, NEW dst \in Dests, NEW dstPort,
         LastHop(L, goal, dstPort) \in DOMAIN cost
  PROVE  ReplyOK(Follow(L, c, cost, src, goal, dst, dstPort))
<1> DEFINE path == PortalGraphPath(L, cost, LastHop(L, goal, dstPort))
           w == PathFields(L, c, path, src, goal, dst, dstPort)
<1>1. path \in Seq(Hops) \ {<<>>}
  BY PathIs
<1>2. Follow(L, c, cost, src, goal, dst, dstPort) = [ok |-> TRUE, fc |-> w.fc, sound |-> w.sound]
  BY DEF Follow, Of
<1> HIDE DEF path
<1>3. WayOK(w)
  <2>1. Len(path) \in Nat \ {0} /\ 1 \in 1..Len(path)
    BY <1>1
  <2>. QED BY <1>1, <2>1, PathFieldsKeep
<1> HIDE DEF w
<1>. QED BY <1>2, <1>3 DEF ReplyOK, WayOK

\* The portal and the tile that the shortest path found leads to are of the
\* destination's chunk; there is one if any tile of its portals was reached.
LEMMA ClosestReachableIs ==
  ASSUME MapKept, NEW L, NEW cost, Counted(L, cost), NEW dst \in Passable, NEW other,
         other = ClosestReachableFromLocation(L, cost, dst)
  PROVE  /\ other[1] # None => /\ Found(cost, LastHop(L, other[2], other[1]))
                               /\ other[1] \in Portal /\ other[1].chunk = ChunkOf(dst)
                               /\ other[2] \in TilesOf[ChunkOf(dst)]
         /\ \A p \in Portal : \A t \in p.tiles :
              p.chunk = ChunkOf(dst) /\ Found(cost, LastHop(L, t, p)) => other[1] # None
<1> DEFINE of == [p \in map.portals[ChunkOf(dst)] |-> {<<p, t>> : t \in p.tiles}]
           ways == {w \in UNION {{<<p, t>> : t \in p.tiles} : p \in map.portals[ChunkOf(dst)]} :
                      Found(cost, LastHop(L, w[2], w[1]))}
           length(w) == cost[LastHop(L, w[2], w[1])]
           best == CHOOSE w \in ways : \A v \in ways : length(w) <= length(v)
<1>1. other = IF ways = {} THEN <<None, dst>> ELSE best
  BY DEF ClosestReachableFromLocation
<1>2. \A w \in ways : length(w) \in Nat
  BY DEF Found, Counted
<1>3. \A p : p \in map.portals[ChunkOf(dst)] <=> p \in Portal /\ p.chunk = ChunkOf(dst)
  BY PassableAre, MapIs DEF PortalsOf
<1>4. \A w : w \in ways <=>
        \E p \in Portal : \E t \in p.tiles :
          p.chunk = ChunkOf(dst) /\ w = <<p, t>> /\ Found(cost, LastHop(L, t, p))
  <2>1. UNION {{<<p, t>> : t \in p.tiles} : p \in map.portals[ChunkOf(dst)]}
          = UNION {of[p] : p \in map.portals[ChunkOf(dst)]}
    OBVIOUS
  <2>2. \A w : w \in UNION {of[p] : p \in map.portals[ChunkOf(dst)]} <=>
          \E p \in map.portals[ChunkOf(dst)] : w \in of[p]
    <3> HIDE DEF of
    <3>. QED BY UnionIs
  <2>3. \A w : w \in ways <=>
          /\ w \in UNION {of[p] : p \in map.portals[ChunkOf(dst)]}
          /\ Found(cost, LastHop(L, w[2], w[1]))
    BY <2>1
  <2>4. \A p \in map.portals[ChunkOf(dst)] : \A w : w \in of[p] <=> \E t \in p.tiles : w = <<p, t>>
    OBVIOUS
  <2> HIDE DEF of, ways
  <2>5. \A w : w \in ways <=>
          \E p \in map.portals[ChunkOf(dst)] : \E t \in p.tiles :
            w = <<p, t>> /\ Found(cost, LastHop(L, w[2], w[1]))
    BY <2>2, <2>3, <2>4
  <2>. QED BY <1>3, <2>5
<1> HIDE DEF ways
<1>5. ASSUME ways # {} PROVE best \in ways
  <2> DEFINE lengths == {length(w) : w \in ways}
  <2>1. lengths \in SUBSET Nat /\ lengths # {}
    BY <1>2, <1>5
  <2>2. Min(lengths) \in lengths /\ \A n \in lengths : Min(lengths) <= n
    <3> HIDE DEF lengths
    <3>. QED BY <2>1, LeastIs
  <2>3. \E w \in ways : \A v \in ways : length(w) <= length(v)
    <3> HIDE DEF length
    <3>. QED BY <2>2
  <2> HIDE DEF length
  <2>. QED BY <2>3
<1> HIDE DEF best, length
<1>6. ASSUME ways # {}
      PROVE  \E p \in Portal : \E t \in p.tiles :
               p.chunk = ChunkOf(dst) /\ other = <<p, t>> /\ Found(cost, LastHop(L, t, p))
  BY <1>1, <1>4, <1>5, <1>6
<1>7. \A p \in Portal : p # None /\ p.tiles \subseteq TilesOf[p.chunk]
  BY NavAssumption, PortalTiles
<1>8. ASSUME other[1] # None
      PROVE  /\ Found(cost, LastHop(L, other[2], other[1]))
             /\ other[1] \in Portal /\ other[1].chunk = ChunkOf(dst)
             /\ other[2] \in TilesOf[ChunkOf(dst)]
  <2>1. ways # {}
    BY <1>1, <1>8
  <2>. QED BY <1>6, <1>7, <2>1
<1>9. ASSUME ways # {} PROVE other[1] # None
  BY <1>6, <1>7, <1>9
<1>. QED BY <1>4, <1>8, <1>9

\* What a route comes to, and a request.
Ashore(L, src, dst, other) ==
  /\ ChunkOf(src) = ChunkOf(dst)
  /\ ClosestPathableLocalIsland(L, other[2]) # ClosestPathableLocalIsland(L, dst)

Route(r, L, c, cost, src, dst, port, other) ==
  \/ /\ Found(cost, LastHop(L, dst, port))
     /\ r = Follow(L, c, cost, src, dst, dst, port)
  \/ /\ ~Found(cost, LastHop(L, dst, port)) /\ Ashore(L, src, dst, other)
     /\ r = Reply(c, TRUE)
  \/ /\ ~Found(cost, LastHop(L, dst, port)) /\ ~Ashore(L, src, dst, other) /\ other[1] # None
     /\ r = Follow(L, c, cost, src, other[2], dst, other[1])
  \/ /\ ~Found(cost, LastHop(L, dst, port)) /\ ~Ashore(L, src, dst, other) /\ other[1] = None
     /\ r = Reply(c, ChunkOf(src) = ChunkOf(dst))

LEMMA RoutedIs ==
  ASSUME NEW L, NEW c, NEW cost, NEW src, NEW dst, NEW port
  PROVE  Route(Routed(L, c, cost, src, dst, port), L, c, cost, src, dst, port,
               ClosestReachableFromLocation(L, cost, dst))
<1> DEFINE same == ChunkOf(src) = ChunkOf(dst)
           isle(t) == ClosestPathableLocalIsland(L, t)
           Near(o) == IF same /\ isle(o[2]) # isle(dst) THEN Reply(c, TRUE)
                      ELSE IF o[1] # None THEN Follow(L, c, cost, src, o[2], dst, o[1])
                      ELSE Reply(c, same)
           other == ClosestReachableFromLocation(L, cost, dst)
           answers == {Near(o) : o \in {other}}
<1>1. Routed(L, c, cost, src, dst, port) =
        IF Found(cost, LastHop(L, dst, port)) THEN Follow(L, c, cost, src, dst, dst, port)
        ELSE CHOOSE y \in answers : TRUE
  BY Zenon DEF Routed, Of
<1> HIDE DEF other
<1>2. answers = {Near(other)}
  <2> HIDE DEF Near
  <2>. QED OBVIOUS
<1>3. \A y : y \in answers <=> y = Near(other)
  <2> HIDE DEF Near, answers
  <2>. QED BY <1>2
<1>4. (CHOOSE y \in answers : TRUE) = Near(other)
  <2> HIDE DEF Near, answers
  <2>. QED BY <1>3
<1>5. Routed(L, c, cost, src, dst, port) =
        IF Found(cost, LastHop(L, dst, port)) THEN Follow(L, c, cost, src, dst, dst, port)
        ELSE Near(other)
  <2> HIDE DEF Near, answers
  <2>. QED BY <1>1, <1>4
<1>6. Ashore(L, src, dst, other) <=> same /\ isle(other[2]) # isle(dst)
  BY DEF Ashore
<1> HIDE DEF answers, isle
<1>. QED BY <1>5, <1>6, Zenon DEF Route, other

Stays(L, src, dst) ==
  /\ ChunkOf(src) = ChunkOf(dst)
  /\ \/ ClosestPathableLocalIsland(L, src) = ClosestPathableLocalIsland(L, dst)
     \/ /\ BlockedOff(L, src) \/ BlockedOff(L, dst)
        /\ NormallyReachable(src, dst)

LEMMA RequestedIs ==
  ASSUME NEW L, NEW c, NEW src, NEW dst
  PROVE  Requested(L, c, src, dst) =
           IF dst \notin map.region[src] THEN Reply(c, FALSE)
           ELSE IF Stays(L, src, dst) THEN Reply(DestField(L, c, dst), TRUE)
           ELSE IF ClosestPortal(L, dst) = None THEN Reply(DestField(L, c, dst), FALSE)
           ELSE Routed(L, DestField(L, c, dst), HopsFrom(L, src), src, dst, ClosestPortal(L, dst))
BY DEF Requested, Stays, Of

LEMMA RoutedKeeps ==
  ASSUME MapKept, NEW L, Current(L), NEW c, CacheOK(c), NEW cost, Counted(L, cost),
         NEW src, NEW dst \in Dests, NEW port
  PROVE  ReplyOK(Routed(L, c, cost, src, dst, port))
<1>1. PICK other : other = ClosestReachableFromLocation(L, cost, dst)
  OBVIOUS
<1>2. other[1] # None => LastHop(L, other[2], other[1]) \in DOMAIN cost
  BY <1>1, PassableAre, ClosestReachableIs DEF Found
<1>3. Found(cost, LastHop(L, dst, port)) => LastHop(L, dst, port) \in DOMAIN cost
  BY DEF Found
<1>4. ReplyOK(Reply(c, TRUE)) /\ ReplyOK(Reply(c, ChunkOf(src) = ChunkOf(dst)))
  BY ReplyKeeps
<1>5. ASSUME other[1] # None PROVE ReplyOK(Follow(L, c, cost, src, other[2], dst, other[1]))
  BY <1>2, <1>5, FollowKeeps
<1>6. ASSUME Found(cost, LastHop(L, dst, port)) PROVE ReplyOK(Follow(L, c, cost, src, dst, dst, port))
  BY <1>3, <1>6, FollowKeeps
<1>7. Route(Routed(L, c, cost, src, dst, port), L, c, cost, src, dst, port, other)
  BY <1>1, RoutedIs
<1>. QED BY <1>4, <1>5, <1>6, <1>7 DEF Route

LEMMA RequestedKeeps ==
  ASSUME MapKept, NEW L, Current(L), NEW c, CacheOK(c), NEW src \in Passable, NEW dst \in Dests
  PROVE  ReplyOK(Requested(L, c, src, dst))
<1>1. CacheOK(DestField(L, c, dst))
  BY DestFieldKeeps
<1>2. Counted(L, HopsFrom(L, src))
  BY HopsAreCounted
<1>3. /\ ReplyOK(Reply(c, FALSE)) /\ ReplyOK(Reply(DestField(L, c, dst), TRUE))
      /\ ReplyOK(Reply(DestField(L, c, dst), FALSE))
  BY <1>1, ReplyKeeps
<1>4. ReplyOK(Routed(L, DestField(L, c, dst), HopsFrom(L, src), src, dst, ClosestPortal(L, dst)))
  BY <1>1, <1>2, RoutedKeeps
<1>. QED BY <1>3, <1>4, RequestedIs

\* Where a unit is steered.
SteerOK(s) ==
  s = [dir |-> s.dir, fc |-> s.fc, sound |-> s.sound, asked |-> s.asked] /\ CacheOK(s.fc)

LEMMA SteerKeeps ==
  ASSUME NEW c, CacheOK(c), NEW dir, NEW sound
  PROVE  SteerOK(Steer(c, dir, sound)) /\ Steer(c, dir, sound).asked = TRUE
BY DEF SteerOK, Steer

LEMMA SteeredKeeps ==
  ASSUME MapKept, NEW L, Current(L), NEW c, CacheOK(c), NEW t, NEW d
  PROVE  SteerOK(Steered(L, c, t, d)) /\ Steered(L, c, t, d).asked = TRUE
<1> DEFINE k == ChunkOf(t)
           id == c.mapping[<<d, k>>]
           ff == Better(L, c, t, id)
<1>1. Steered(L, c, t, d) =
        IF ~HasField(c, d, k) THEN Steer(c, None, FALSE)
        ELSE IF DirAt(c, d, t) # None THEN Steer(c, DirAt(c, d, t), TRUE)
        ELSE Steer(PutFlowField(c, id, ff), ff[t], TRUE)
  BY DEF Steered, Of
<1>2. ASSUME HasField(c, d, k) PROVE CacheOK(PutFlowField(c, id, ff))
  <2>1. Target(id) /\ id \in DOMAIN c.flow
    BY <1>2, MappedIs DEF HasField
  <2> HIDE DEF id
  <2> DEFINE f == c.flow[id]
  <2>2. FieldOK(id, f)
    BY <2>1, FlowIs
  <2>3. ff = IF L[t] = 0 THEN FlowFieldUpdateToNearestPathable(t, id, f)
             ELSE FlowFieldUpdateIslandToNearest(L, L[t], id, f)
    BY DEF Better
  <2> HIDE DEF f, ff
  <2>4. FieldOK(id, ff)
    BY <2>1, <2>2, <2>3, FieldChanges
  <2>. QED BY <2>4, PutFlowKeeps
<1> HIDE DEF ff, id
<1>. QED BY <1>1, <1>2, SteerKeeps

LEMMA AnsweredKeeps ==
  ASSUME MapKept, NEW L, Current(L), NEW t, NEW d, NEW r, CacheOK(r.fc)
  PROVE  SteerOK(Answered(L, t, d, r)) /\ Answered(L, t, d, r).asked = TRUE
BY SteeredKeeps, SteerKeeps DEF Answered

\* What seeking comes to.
LEMMA SoughtIs ==
  ASSUME NEW t, NEW d
  PROVE  LET L == UpdateLocalIslands
             r == Requested(L, fc, t, d)
         IN  Sought(t, d) =
               IF DirAt(fc, d, t) # None
               THEN [Steer(fc, DirAt(fc, d, t), TRUE) EXCEPT !.asked = FALSE]
               ELSE IF HasMapping(fc, d, ChunkOf(t)) \/ ~r.ok \/ DirAt(r.fc, d, t) # None
               THEN Answered(L, t, d, r) ELSE Answered(L, t, d, Requested(L, r.fc, t, d))
BY DEF Sought, AskedFor, Of

LEMMA SoughtKeeps ==
  ASSUME MapKept, CacheOK(fc), NEW t \in Passable, NEW d \in Dests, Current(UpdateLocalIslands)
  PROVE  CacheOK(Sought(t, d).fc) /\ Sought(t, d).asked \in BOOLEAN
<1> DEFINE L == UpdateLocalIslands
           r == Requested(L, fc, t, d)
           again == Requested(L, r.fc, t, d)
           s == [Steer(fc, DirAt(fc, d, t), TRUE) EXCEPT !.asked = FALSE]
<1>1. \/ Sought(t, d) = s \/ Sought(t, d) = Answered(L, t, d, r)
      \/ Sought(t, d) = Answered(L, t, d, again)
  BY SoughtIs
<1>2. CacheOK(r.fc)
  BY RequestedKeeps DEF ReplyOK
<1> HIDE DEF r
<1>3. CacheOK(again.fc)
  BY <1>2, RequestedKeeps DEF ReplyOK
<1>4. s.fc = fc /\ s.asked = FALSE
  BY DEF Steer
<1> HIDE DEF again, s, L
<1>5. /\ SteerOK(Answered(L, t, d, r)) /\ Answered(L, t, d, r).asked = TRUE
      /\ SteerOK(Answered(L, t, d, again)) /\ Answered(L, t, d, again).asked = TRUE
  BY <1>2, <1>3, AnsweredKeeps DEF L
<1>. QED BY <1>1, <1>4, <1>5 DEF SteerOK
-----------------------------------------------------------------------------
(* A request that succeeds leaves a field for the chunk of the source, and   *)
(* its lines of sight in a row.                                              *)

\* The turns along a path leave a field wherever there was one.
LEMMA PathLeaves ==
  ASSUME MapKept, NEW L, Current(L), NEW c, CacheOK(c), NEW path \in Seq(Hops) \ {<<>>},
         NEW src, NEW goal, NEW dst \in Dests, NEW dstPort, NEW k, HasField(c, dst, k)
  PROVE  HasField(PathFields(L, c, path, src, goal, dst, dstPort).fc, dst, k)
<1> DEFINE m == Len(path)
<1>1. PICK W : /\ Turns(W, L, c, path, src, goal, dst, dstPort)
               /\ PathFields(L, c, path, src, goal, dst, dstPort) = W[1]
               /\ \A i \in 1..m : WayOK(W[i])
  BY PathFieldsKeep
<1> DEFINE G == {i \in 1..m : HasField(W[i].fc, dst, k)}
<1>2. m \in Nat \ {0} /\ m \in 1..m /\ 1 \in 1..m
  OBVIOUS
<1>3. m \in G
  <2>1. W[m] = [fc |-> c, prev |-> ChunkOf(dst), sound |-> TRUE]
    BY <1>1 DEF Turns
  <2>2. W[m].fc = c
    BY <2>1
  <2>. QED BY <1>2, <2>2
<1>4. ASSUME NEW i \in 1..m - 1, i + 1 \in G PROVE i \in G
  <2> DEFINE j == i + 1
             w == W[j]
  <2>1. j \in 2..Len(path) /\ j \in 1..m /\ i \in 1..m
    BY <1>2
  <2>2. WayOK(w) /\ W[i] = Turn(L, w, path, j, src, goal, dst, dstPort) /\ HasField(w.fc, dst, k)
    BY <1>1, <1>4, <2>1 DEF Turns
  <2> HIDE DEF j, w
  <2>3. Turned(w, Turn(L, w, path, j, src, goal, dst, dstPort), dst,
               HopOf(path, j, src).port.chunk, Skipped(L, path, j, src, goal, dstPort))
    BY <2>1, <2>2, TurnDoes
  <2>. QED BY <2>1, <2>2, <2>3 DEF Turned
<1>5. \A i \in 1..m : i \in G
  <2> HIDE DEF G, m
  <2>. QED BY <1>2, <1>3, <1>4, DownTo
<1>. QED BY <1>1, <1>2, <1>5

LEMMA FollowServes ==
  ASSUME MapKept, NEW L, Current(L), NEW c, CacheOK(c), NEW src \in Passable, NEW cost,
         Counted(L, cost), CountedFrom(L, src, cost), NEW goal, NEW dst \in Dests, NEW dstPort,
         Found(cost, LastHop(L, goal, dstPort)), ChunkOf(goal) = ChunkOf(dst),
         HasField(c, dst, ChunkOf(dst))
  PROVE  HasField(Follow(L, c, cost, src, goal, dst, dstPort).fc, dst, ChunkOf(src))
<1> DEFINE last == LastHop(L, goal, dstPort)
           path == PortalGraphPath(L, cost, last)
           w == PathFields(L, c, path, src, goal, dst, dstPort)
<1>1. Follow(L, c, cost, src, goal, dst, dstPort) = [ok |-> TRUE, fc |-> w.fc, sound |-> w.sound]
  BY DEF Follow, Of
<1> HIDE DEF last
<1>2. Hopped(path, cost, src, last)
  BY PathHops DEF last
<1> HIDE DEF path
<1>3. CASE ChunkOf(src) # ChunkOf(goal)
  <2>1. HasField(w.fc, dst, ChunkOf(src))
    BY <1>2, <1>3, PathServes
  <2>. QED BY <1>1, <2>1
<1>4. CASE ChunkOf(src) = ChunkOf(goal)
  <2>1. path \in Seq(Hops) \ {<<>>}
    BY <1>2 DEF Hopped
  <2>2. HasField(w.fc, dst, ChunkOf(src))
    BY <1>4, <2>1, PathLeaves
  <2>. QED BY <1>1, <2>2
<1>. QED BY <1>3, <1>4

LEMMA RequestedServes ==
  ASSUME MapKept, NEW L, Current(L), NEW c, CacheOK(c), NEW src \in Passable, NEW dst \in Dests,
         Requested(L, c, src, dst).ok
  PROVE  HasField(Requested(L, c, src, dst).fc, dst, ChunkOf(src))
<1> DEFINE made == DestField(L, c, dst)
           cost == HopsFrom(L, src)
           port == ClosestPortal(L, dst)
           r == Requested(L, c, src, dst)
<1>1. CacheOK(made) /\ HasField(made, dst, ChunkOf(dst))
  BY DestFieldKeeps, DestFieldHas
<1>2. Counted(L, cost) /\ CountedFrom(L, src, cost)
  BY HopsAreCounted
<1>3. \/ r = Reply(c, FALSE) \/ r = Reply(made, FALSE)
      \/ r = Reply(made, TRUE) /\ ChunkOf(src) = ChunkOf(dst)
      \/ r = Routed(L, made, cost, src, dst, port)
  BY RequestedIs DEF Stays
<1> HIDE DEF made, cost, port
<1>4. PICK other : other = ClosestReachableFromLocation(L, cost, dst)
  OBVIOUS
<1>5. Route(Routed(L, made, cost, src, dst, port), L, made, cost, src, dst, port, other)
  BY <1>4, RoutedIs
<1>6. \A e : Reply(e, FALSE).ok = FALSE /\ Reply(e, TRUE).fc = e
  BY DEF Reply
<1>7. ASSUME Found(cost, LastHop(L, dst, port))
      PROVE  HasField(Follow(L, made, cost, src, dst, dst, port).fc, dst, ChunkOf(src))
  BY <1>1, <1>2, <1>7, FollowServes
<1>8. ASSUME other[1] # None
      PROVE  HasField(Follow(L, made, cost, src, other[2], dst, other[1]).fc, dst, ChunkOf(src))
  <2>1. Found(cost, LastHop(L, other[2], other[1])) /\ other[2] \in TilesOf[ChunkOf(dst)]
    BY <1>2, <1>4, <1>8, PassableAre, ClosestReachableIs
  <2>2. ChunkOf(other[2]) = ChunkOf(dst)
    BY <2>1, PassableAre, TilesAre
  <2>. QED BY <1>1, <1>2, <2>1, <2>2, FollowServes
<1>9. ASSUME r = Routed(L, made, cost, src, dst, port) PROVE HasField(r.fc, dst, ChunkOf(src))
  <2>1. CASE r = Follow(L, made, cost, src, dst, dst, port) /\ Found(cost, LastHop(L, dst, port))
    BY <1>7, <2>1
  <2>2. CASE r = Follow(L, made, cost, src, other[2], dst, other[1]) /\ other[1] # None
    BY <1>8, <2>2
  <2>3. CASE r = Reply(made, TRUE) /\ ChunkOf(src) = ChunkOf(dst)
    BY <1>1, <1>6, <2>3
  <2>4. CASE r = Reply(made, ChunkOf(src) = ChunkOf(dst))
    <3>1. r # Reply(made, FALSE)
      BY <1>6
    <3>2. ChunkOf(src) = ChunkOf(dst)
      <4> HIDE DEF r, made
      <4>1. CASE ChunkOf(src) # ChunkOf(dst)
        <5>1. (ChunkOf(src) = ChunkOf(dst)) = FALSE
          BY <4>1
        <5>. QED BY <2>4, <3>1, <5>1
      <4>. QED BY <4>1
    <3>3. (ChunkOf(src) = ChunkOf(dst)) = TRUE
      BY <3>2
    <3>4. r.fc = made
      BY <1>6, <2>4, <3>3
    <3>. QED BY <1>1, <3>2, <3>4
  <2> HIDE DEF r
  <2>. QED BY <1>5, <1>9, <2>1, <2>2, <2>3, <2>4 DEF Route, Ashore
<1> HIDE DEF r
<1>10. r.ok
  BY DEF r
<1>11. HasField(r.fc, dst, ChunkOf(src))
  BY <1>1, <1>3, <1>6, <1>9, <1>10
<1>. QED BY <1>11 DEF r

\* The portal closest to a destination is of its chunk.
LEMMA TravelIs ==
  ASSUME MapKept, NEW p \in Portal
  PROVE  Steps(TilesOf[p.chunk], p.tiles, map.travel[p])
<1>1. map.travel[p] = StepsFrom(TilesOf[p.chunk], p.tiles)
  BY MapIs DEF TravelCost
<1>2. p.chunk \in Chunk /\ p.tiles \in SUBSET Place
  BY PortalTiles
<1>3. TilesOf[p.chunk] \in SUBSET Place /\ IsFiniteSet(TilesOf[p.chunk])
  BY <1>2, TilesAre
<1>4. Steps(TilesOf[p.chunk], p.tiles, StepsFrom(TilesOf[p.chunk], p.tiles))
  BY <1>2, <1>3, StepsAre
<1>. QED BY <1>1, <1>4

LEMMA ClosestPortalIs ==
  ASSUME MapKept, NEW L, NEW t \in Passable
  PROVE  /\ ClosestPortal(L, t) # None =>
              ClosestPortal(L, t) \in Portal /\ ClosestPortal(L, t).chunk = ChunkOf(t)
         /\ \A p \in Portal : p.chunk = ChunkOf(t) /\ t \in DOMAIN map.travel[p] =>
              ClosestPortal(L, t) # None
<1> DEFINE near(unblocked) == {p \in map.portals[ChunkOf(t)] :
                                 /\ t \in DOMAIN map.travel[p]
                                 /\ unblocked => PortalReachableFromTile(L, p, t)}
           best(unblocked) == CHOOSE p \in near(unblocked) :
                                \A q \in near(unblocked) : map.travel[p][t] <= map.travel[q][t]
           close(unblocked) == ClosestReachablePortal(L, t, unblocked)
<1>1. \A p : p \in map.portals[ChunkOf(t)] <=> p \in Portal /\ p.chunk = ChunkOf(t)
  BY PassableAre, MapIs DEF PortalsOf
<1>2. ASSUME NEW u \in BOOLEAN
      PROVE  close(u) = IF near(u) = {} THEN None ELSE best(u)
  BY DEF ClosestReachablePortal
<1>3. ASSUME NEW u \in BOOLEAN, near(u) # {} PROVE best(u) \in near(u)
  <2> DEFINE N == near(u)
             length(p) == map.travel[p][t]
             lengths == {length(p) : p \in N}
  <2>1. \A p \in N : p \in Portal /\ t \in DOMAIN map.travel[p]
    BY <1>1
  <2>2. \A p \in N : length(p) \in Nat
    BY <2>1, TravelIs DEF Steps
  <2> HIDE DEF N
  <2>3. lengths \in SUBSET Nat /\ lengths # {}
    BY <1>3, <2>2 DEF N
  <2>4. Min(lengths) \in lengths /\ \A n \in lengths : Min(lengths) <= n
    <3> HIDE DEF lengths
    <3>. QED BY <2>3, LeastIs
  <2> HIDE DEF length
  <2>5. \E p \in N : \A q \in N : length(p) <= length(q)
    BY <2>4
  <2>. QED BY <2>5 DEF N, length
<1>4. ClosestPortal(L, t) = IF close(TRUE) # None THEN close(TRUE) ELSE close(FALSE)
  <2>1. ClosestPortal(L, t) =
          CHOOSE y \in {IF x # None THEN x ELSE close(FALSE) : x \in {close(TRUE)}} : TRUE
    BY DEF ClosestPortal, Of
  <2> HIDE DEF close
  <2>2. {IF x # None THEN x ELSE close(FALSE) : x \in {close(TRUE)}} =
          {IF close(TRUE) # None THEN close(TRUE) ELSE close(FALSE)}
    OBVIOUS
  <2>3. \A v : (CHOOSE y \in {v} : TRUE) = v
    OBVIOUS
  <2>. QED BY <2>1, <2>2, <2>3
<1>5. \A p \in Portal : p # None
  BY NavAssumption
<1>6. \A u \in BOOLEAN : \A p \in near(u) : p \in Portal /\ p.chunk = ChunkOf(t)
  BY <1>1
<1>7. \A p \in Portal : p.chunk = ChunkOf(t) /\ t \in DOMAIN map.travel[p] => p \in near(FALSE)
  BY <1>1
<1> HIDE DEF near, best, close
<1>8. \A u \in BOOLEAN : close(u) # None => close(u) \in near(u)
  BY <1>2, <1>3
<1>9. near(FALSE) # {} => close(FALSE) # None
  BY <1>2, <1>3, <1>5, <1>6
<1>. QED BY <1>4, <1>6, <1>7, <1>8, <1>9

\* A path's lines of sight are sound, if the destination's island is looked up
\* rightly in the source's chunk.
LEMMA FollowInRow ==
  ASSUME MapKept, NEW L, Current(L), NEW c, CacheOK(c), NEW src \in Passable, NEW cost,
         Counted(L, cost), CountedFrom(L, src, cost), NEW dst \in Dests,
         NEW goal \in TilesOf[ChunkOf(dst)], NEW dstPort, dstPort.chunk = ChunkOf(dst),
         Found(cost, LastHop(L, goal, dstPort)), LookedUp(L, src, dst),
         <<dst, ChunkOf(dst)>> \in DOMAIN c.los
  PROVE  Follow(L, c, cost, src, goal, dst, dstPort).sound = TRUE
<1> DEFINE last == LastHop(L, goal, dstPort)
           path == PortalGraphPath(L, cost, last)
           w == PathFields(L, c, path, src, goal, dst, dstPort)
<1>1. Follow(L, c, cost, src, goal, dst, dstPort) = [ok |-> TRUE, fc |-> w.fc, sound |-> w.sound]
  BY DEF Follow, Of
<1>2. Hopped(path, cost, src, LastHop(L, goal, dstPort))
  BY PathHops
<1>3. ChunkOf(dst) \in Chunk /\ ChunkOf(goal) = ChunkOf(dst)
  BY PassableAre, TilesAre
<1>4. DestIsland(L, src, goal) = ClosestPathableLocalIsland(L, goal)
  BY MapIs DEF LookedUp
<1> HIDE DEF path
<1>5. w.sound = TRUE
  BY <1>2, <1>3, <1>4, PathInRow
<1>. QED BY <1>1, <1>5

LEMMA RequestedInRow ==
  ASSUME MapKept, NEW L, Current(L), NEW c, CacheOK(c), NEW src \in Passable, NEW dst \in Dests,
         LookedUp(L, src, dst)
  PROVE  Requested(L, c, src, dst).sound = TRUE
<1> DEFINE made == DestField(L, c, dst)
           cost == HopsFrom(L, src)
           port == ClosestPortal(L, dst)
           r == Requested(L, c, src, dst)
<1>1. CacheOK(made) /\ <<dst, ChunkOf(dst)>> \in DOMAIN made.los
  BY DestFieldKeeps, DestFieldHas
<1>2. Counted(L, cost) /\ CountedFrom(L, src, cost)
  BY HopsAreCounted
<1>3. \/ r = Reply(c, FALSE) \/ r = Reply(made, FALSE) \/ r = Reply(made, TRUE)
      \/ port # None /\ r = Routed(L, made, cost, src, dst, port)
  BY RequestedIs
<1>4. port # None => port \in Portal /\ port.chunk = ChunkOf(dst)
  BY PassableAre, ClosestPortalIs
<1>5. dst \in TilesOf[ChunkOf(dst)]
  BY PassableAre, TilesAre
<1> HIDE DEF made, cost, port
<1>6. PICK other : other = ClosestReachableFromLocation(L, cost, dst)
  OBVIOUS
<1>7. Route(Routed(L, made, cost, src, dst, port), L, made, cost, src, dst, port, other)
  BY <1>6, RoutedIs
<1>8. \A e, ok : Reply(e, ok).sound = TRUE
  BY DEF Reply
<1>9. ASSUME Found(cost, LastHop(L, dst, port)), port # None
      PROVE  Follow(L, made, cost, src, dst, dst, port).sound = TRUE
  BY <1>1, <1>2, <1>4, <1>5, <1>9, FollowInRow
<1>10. ASSUME other[1] # None
       PROVE  Follow(L, made, cost, src, other[2], dst, other[1]).sound = TRUE
  <2>1. /\ Found(cost, LastHop(L, other[2], other[1])) /\ other[2] \in TilesOf[ChunkOf(dst)]
        /\ other[1].chunk = ChunkOf(dst)
    BY <1>2, <1>6, <1>10, PassableAre, ClosestReachableIs
  <2>. QED BY <1>1, <1>2, <2>1, FollowInRow
<1>11. port # None => Routed(L, made, cost, src, dst, port).sound = TRUE
  <2> DEFINE R == Routed(L, made, cost, src, dst, port)
  <2>1. CASE Found(cost, LastHop(L, dst, port)) /\ R = Follow(L, made, cost, src, dst, dst, port)
    BY <1>9, <2>1
  <2>2. CASE R = Reply(made, TRUE)
    BY <1>8, <2>2
  <2>3. CASE other[1] # None /\ R = Follow(L, made, cost, src, other[2], dst, other[1])
    BY <1>10, <2>3
  <2>4. CASE R = Reply(made, ChunkOf(src) = ChunkOf(dst))
    BY <1>8, <2>4
  <2> HIDE DEF R, r
  <2>5. \/ Found(cost, LastHop(L, dst, port)) /\ R = Follow(L, made, cost, src, dst, dst, port)
        \/ R = Reply(made, TRUE)
        \/ other[1] # None /\ R = Follow(L, made, cost, src, other[2], dst, other[1])
        \/ R = Reply(made, ChunkOf(src) = ChunkOf(dst))
    BY <1>7 DEF Route, R
  <2>. QED BY <2>1, <2>2, <2>3, <2>4, <2>5
<1> HIDE DEF r
<1>12. r.sound = TRUE
  BY <1>3, <1>8, <1>11
<1>. QED BY <1>12 DEF r

\* Whoever asks is steered by a field that is there.
LEMMA AnsweredSound ==
  ASSUME MapKept, NEW L, Current(L), NEW t \in Passable, NEW d \in Dests, NEW r,
         r.ok => HasField(r.fc, d, ChunkOf(t))
  PROVE  Answered(L, t, d, r).sound = TRUE
<1>1. \A c, dir : Steer(c, dir, TRUE).sound = TRUE
  BY DEF Steer
<1>2. ASSUME HasField(r.fc, d, ChunkOf(t)) PROVE Steered(L, r.fc, t, d).sound = TRUE
  BY <1>1, <1>2 DEF Steered, Of
<1>. QED BY <1>1, <1>2 DEF Answered

LEMMA SoughtSound ==
  ASSUME MapKept, CacheOK(fc), Current(UpdateLocalIslands), NEW t \in Passable, NEW d \in Dests
  PROVE  Sought(t, d).sound = TRUE
<1> DEFINE L == UpdateLocalIslands
           r == Requested(L, fc, t, d)
           again == Requested(L, r.fc, t, d)
           s == [Steer(fc, DirAt(fc, d, t), TRUE) EXCEPT !.asked = FALSE]
<1>1. \/ Sought(t, d) = s \/ Sought(t, d) = Answered(L, t, d, r)
      \/ Sought(t, d) = Answered(L, t, d, again)
  BY SoughtIs
<1>2. CacheOK(r.fc)
  BY RequestedKeeps DEF ReplyOK
<1>3. r.ok => HasField(r.fc, d, ChunkOf(t))
  BY RequestedServes
<1> HIDE DEF r
<1>4. again.ok => HasField(again.fc, d, ChunkOf(t))
  BY <1>2, RequestedServes
<1>5. s.sound = TRUE
  BY DEF Steer
<1> HIDE DEF again, s, L
<1>6. Answered(L, t, d, r).sound = TRUE /\ Answered(L, t, d, again).sound = TRUE
  BY <1>3, <1>4, AnsweredSound DEF L
<1>. QED BY <1>1, <1>5, <1>6
-----------------------------------------------------------------------------
(* What is derived, as it depends on the blockers b, the dirty chunks D and  *)
(* the numbers L of local islands.                                           *)

Numbered(k, free) ==
  LET isles == {IslandOf(free, t) : t \in free}
      Number(t) == Cardinality({i \in isles : First(i) <= First(IslandOf(free, t))})
  IN  [t \in TilesOf[k] |-> IF t \in free THEN Number(t) ELSE 0]
Edges(L, k, free) ==
  {e \in Link : /\ e[1].chunk = k
                /\ \E a \in e[1].tiles \intersect free, b \in e[2].tiles \intersect free : L[a] = L[b]}

IslesAt(L, b, D, stale) ==
  \A k \in Chunk : k \notin D \/ ~stale =>
    \A t \in TilesOf[k] : L[t] = Numbered(k, FreeAt(k, b))[t]
LinksAt(links, L, b, D) ==
  \A k \in Chunk : k \notin D => {e \in links : e[1].chunk = k} = Edges(L, k, FreeAt(k, b))

LEMMA NumberedIs ==
  ASSUME MapKept, NEW k \in Chunk
  PROVE  LocalIslands(k) = Numbered(k, FreeAt(k, blockers))
<1> DEFINE F == FreeAt(k, blockers)
           isles == {IslandOf(F, t) : t \in F}
           Number(t) == Cardinality({i \in isles : First(i) <= First(IslandOf(F, t))})
<1>1. Free(k) = F
  BY FreeAtIs
<1>2. LocalIslands(k) = [t \in TilesOf[k] |-> IF t \in Blocked THEN 0 ELSE Number(t)]
  BY <1>1, MapIs DEF LocalIslands
<1>3. Numbered(k, F) = [t \in TilesOf[k] |-> IF t \in F THEN Number(t) ELSE 0]
  BY DEF Numbered
<1>4. \A t \in TilesOf[k] : t \in F <=> t \notin Blocked
  BY <1>1, FreeIs
<1> HIDE DEF F, Number
<1>5. LocalIslands(k) = Numbered(k, F)
  BY <1>2, <1>3, <1>4
<1>. QED BY <1>5 DEF F

LEMMA IslesExact ==
  ASSUME MapKept, IslesAt(liid, blockers, dirty, islandsDirty)
  PROVE  IslandsExact
<1> SUFFICES ASSUME NEW k \in Chunk, k \notin dirty \/ ~islandsDirty
             PROVE  [t \in map.tiles[k] |-> liid[t]] = LocalIslands(k)
  BY DEF IslandsExact
<1> DEFINE l == LocalIslands(k)
<1>1. \A t \in TilesOf[k] : liid[t] = l[t]
  BY NumberedIs DEF IslesAt
<1>2. l = [t \in TilesOf[k] |-> l[t]]
  BY LocalIslandsAre
<1> HIDE DEF l
<1>3. [t \in TilesOf[k] |-> liid[t]] = l
  BY <1>1, <1>2
<1>. QED BY <1>3, MapIs DEF l

LEMMA CurrentIsles ==
  ASSUME MapKept, NEW L, Current(L), NEW D, NEW stale
  PROVE  IslesAt(L, blockers, D, stale)
BY NumberedIs DEF IslesAt, Current

LEMMA LinksAre ==
  ASSUME NEW e \in Link
  PROVE  /\ e[1] \in Portal /\ e[2] \in Portal /\ e[2].chunk = e[1].chunk /\ e[1].chunk \in Chunk
         /\ e[2].tiles \intersect DOMAIN StepsFrom(TilesOf[e[1].chunk], e[1].tiles) # {}
         /\ e[1].tiles \in SUBSET TilesOf[e[1].chunk] /\ e[2].tiles \in SUBSET TilesOf[e[1].chunk]
<1> DEFINE of(p) == {q \in PortalsOf[p.chunk] \ {p} : q.tiles \intersect DOMAIN TravelCost[p] # {}}
<1>0. PICK p \in Portal : e \in {p} \X of(p)
  BY DEF Link
<1>1. PICK q \in PortalsOf[p.chunk] :
        e = <<p, q>> /\ q.tiles \intersect DOMAIN TravelCost[p] # {}
  BY <1>0
<1>2. p.chunk \in Chunk
  BY PortalTiles
<1>3. q \in Portal /\ q.chunk = p.chunk
  BY <1>2 DEF PortalsOf
<1>4. TravelCost[p] = StepsFrom(TilesOf[p.chunk], p.tiles)
  BY DEF TravelCost
<1>5. p.tiles \in SUBSET TilesOf[p.chunk] /\ q.tiles \in SUBSET TilesOf[p.chunk]
  BY <1>3, PortalTiles
<1>6. e[1] = p /\ e[2] = q
  BY <1>1
<1>. QED BY <1>1, <1>2, <1>3, <1>4, <1>5, <1>6

LEMMA EdgesAre ==
  ASSUME MapKept, NEW L, NEW k \in Chunk
  PROVE  EdgesOf(L, k) = Edges(L, k, FreeAt(k, blockers))
<1>1. ASSUME NEW e \in Link, e[1].chunk = k
      PROVE  /\ e[1].tiles \ Blocked = e[1].tiles \intersect FreeAt(k, blockers)
             /\ e[2].tiles \ Blocked = e[2].tiles \intersect FreeAt(k, blockers)
  <2>1. e[1].tiles \in SUBSET TilesOf[k] /\ e[2].tiles \in SUBSET TilesOf[k]
    BY <1>1, LinksAre
  <2>2. \A t : t \in FreeAt(k, blockers) <=> t \in TilesOf[k] /\ t \notin Blocked
    BY FreeAtIs, FreeIs
  <2>. QED BY <2>1, <2>2
<1>2. map.links = Link
  BY MapIs
<1>. QED BY <1>1, <1>2 DEF EdgesOf, Edges, LocalPortsConnected

\* The links of a chunk depend on the numbers of its own tiles.
LEMMA EdgesSame ==
  ASSUME NEW k, NEW L, NEW M, \A t \in TilesOf[k] : L[t] = M[t], NEW b
  PROVE  Edges(L, k, FreeAt(k, b)) = Edges(M, k, FreeAt(k, b))
BY DEF Edges, FreeAt

\* A request changes the numbers of no chunk that is not dirty.
LEMMA UpdateStays ==
  ASSUME MapKept, NEW k \in Chunk, k \notin dirty, NEW t \in TilesOf[k]
  PROVE  UpdateLocalIslands[t] = liid[t]
<1>1. t \in Passable /\ ChunkOf(t) = k
  BY TilesAre
<1> DEFINE isles == [l \in dirty |-> LocalIslands(l)]
<1>2. UpdateLocalIslands =
        [u \in Passable |->
           IF islandsDirty /\ ChunkOf(u) \in dirty THEN isles[ChunkOf(u)][u] ELSE liid[u]]
  BY DEF UpdateLocalIslands
<1> HIDE DEF isles
<1>. QED BY <1>1, <1>2

LEMMA UpdateLinks ==
  ASSUME MapKept, NEW links, LinksAt(links, liid, blockers, dirty)
  PROVE  LinksAt(links, UpdateLocalIslands, blockers, dirty)
<1>1. ASSUME NEW k \in Chunk, k \notin dirty
      PROVE  Edges(UpdateLocalIslands, k, FreeAt(k, blockers)) = Edges(liid, k, FreeAt(k, blockers))
  BY <1>1, UpdateStays, EdgesSame
<1>. QED BY <1>1 DEF LinksAt

\* What stays as it was when other blockers make more chunks dirty.
LEMMA BlockedElsewhere ==
  ASSUME NEW a, NEW b, NEW D, NEW E, D \subseteq E,
         \A k \in Chunk : k \notin E => FreeAt(k, b) = FreeAt(k, a),
         NEW L, NEW links, NEW c
  PROVE  /\ LinksAt(links, L, a, D) => LinksAt(links, L, b, E)
         /\ CacheAt(c, a, D) => CacheAt(c, b, E)
<1>1. LinksAt(links, L, a, D) => LinksAt(links, L, b, E)
  BY DEF LinksAt
<1>2. ASSUME NEW id, NEW ff, FieldAt(id, ff, a, D) PROVE FieldAt(id, ff, b, E)
  <2>1. id.chunk \in Chunk
    BY <1>2, TargetIs DEF FieldAt
  <2>. QED BY <1>2, <2>1 DEF FieldAt
<1>3. CacheAt(c, a, D) => CacheAt(c, b, E)
  BY <1>2 DEF CacheAt
<1>. QED BY <1>1, <1>3
-----------------------------------------------------------------------------
(* The invariant *)

\* How many of the objects standing block t.
Held(objects, t) == Cardinality({o \in objects : t \in Covers[o]})

LEMMA HeldIs ==
  ASSUME NEW objects, IsFiniteSet(objects)
  PROVE  /\ \A t : Held(objects, t) \in Nat
         /\ \A o, t : o \notin objects =>
              Held(objects \union {o}, t) = Held(objects, t) + (IF t \in Covers[o] THEN 1 ELSE 0)
         /\ \A o, t : o \in objects =>
              Held(objects \ {o}, t) = Held(objects, t) - (IF t \in Covers[o] THEN 1 ELSE 0)
<1> DEFINE on(A, t) == {o \in A : t \in Covers[o]}
<1>0. \A A, t : Held(A, t) = Cardinality(on(A, t))
  BY DEF Held
<1>1. \A t : IsFiniteSet(on(objects, t)) /\ Cardinality(on(objects, t)) \in Nat
  BY FS_Subset, FS_CardinalityType
<1>2. ASSUME NEW o, NEW t, o \notin objects
      PROVE  Held(objects \union {o}, t) = Held(objects, t) + (IF t \in Covers[o] THEN 1 ELSE 0)
  <2>1. on(objects \union {o}, t) = IF t \in Covers[o] THEN on(objects, t) \union {o} ELSE on(objects, t)
    OBVIOUS
  <2>2. o \notin on(objects, t)
    BY <1>2
  <2> HIDE DEF on
  <2>3. Cardinality(on(objects, t) \union {o}) = Cardinality(on(objects, t)) + 1
    BY <1>1, <2>2, FS_AddElement
  <2>4. CASE t \in Covers[o]
    BY <1>0, <2>1, <2>3, <2>4
  <2>5. CASE t \notin Covers[o]
    BY <1>0, <1>1, <2>1, <2>5
  <2>. QED BY <2>4, <2>5
<1>3. ASSUME NEW o, NEW t, o \in objects
      PROVE  Held(objects \ {o}, t) = Held(objects, t) - (IF t \in Covers[o] THEN 1 ELSE 0)
  <2>1. on(objects \ {o}, t) = IF t \in Covers[o] THEN on(objects, t) \ {o} ELSE on(objects, t)
    OBVIOUS
  <2>2. t \in Covers[o] => o \in on(objects, t)
    BY <1>3
  <2> HIDE DEF on
  <2>3. t \in Covers[o] => Cardinality(on(objects, t) \ {o}) = Cardinality(on(objects, t)) - 1
    BY <1>1, <2>2, FS_RemoveElement
  <2>4. CASE t \in Covers[o]
    BY <1>0, <2>1, <2>3, <2>4
  <2>5. CASE t \notin Covers[o]
    BY <1>0, <1>1, <2>1, <2>5
  <2>. QED BY <2>4, <2>5
<1>4. \A t : Held(objects, t) \in Nat
  BY <1>1 DEF Held
<1>. QED BY <1>2, <1>3, <1>4

\* The inductive invariant: what is derived, is exact for the chunks that are not
\* dirty, and the numbers of local islands for all of them unless they are stale.
NavIInv ==
  /\ MapKept
  /\ standing \subseteq Objects /\ IsFiniteSet(standing)
  /\ blockers = [t \in Passable |-> Held(standing, t)]
  /\ dirty \subseteq Chunk /\ islandsDirty \in BOOLEAN /\ (islandsDirty => dirty # {})
  /\ liid \in [Passable -> 0..Rows * Cols]
  /\ active \subseteq Link
  /\ IslesAt(liid, blockers, dirty, islandsDirty)
  /\ LinksAt(active, liid, blockers, dirty)
  /\ CacheAt(fc, blockers, dirty)
  /\ changes \in 0..MaxChanges /\ displaced \in 0..MaxDisplaced

LEMMA ExactCurrent ==
  ASSUME NavIInv
  PROVE  Current(UpdateLocalIslands)
BY IslesExact, UpdateCurrent DEF NavIInv

\* What was proved of it, as the invariant asked for.
LEMMA NavExact ==
  ASSUME NavIInv
  PROVE  DerivedExact
<1> USE DEF NavIInv
<1>1. NavTypeOK
  <2>1. \A t \in Passable : blockers[t] = Cardinality({o \in standing : t \in Covers[o]})
    BY DEF Held
  <2>2. /\ DOMAIN fc.flow \subseteq fc.flowKeys /\ DOMAIN fc.los \subseteq fc.losKeys
        /\ \A x \in DOMAIN fc.mapping : x[1] \in Dests /\ fc.mapping[x].chunk = x[2]
    BY DEF CacheAt
  <2>3. ASSUME NEW id \in DOMAIN fc.flow PROVE DOMAIN fc.flow[id] = map.tiles[id.chunk]
    BY MapIs DEF CacheAt, FieldAt
  <2>4. active \subseteq map.links
    BY MapIs
  <2>. QED BY <2>1, <2>2, <2>3, <2>4 DEF NavTypeOK
<1>2. GraphExact
  <2>1. IslandsExact
    BY IslesExact
  <2>2. ASSUME NEW k \in Chunk, k \notin dirty
        PROVE  {e \in active : e[1].chunk = k} = EdgesOf(liid, k)
    BY <2>2, EdgesAre DEF LinksAt
  <2>. QED BY <2>1, <2>2 DEF GraphExact, IslandsExact
<1>3. FieldsCurrent
  <2>1. ASSUME NEW id \in DOMAIN fc.flow, id.chunk \notin dirty
        PROVE  /\ \A t \in Free(id.chunk) : Led(id, t) \notin Free(id.chunk)
               /\ OfTile(id) /\ id.tile \notin Blocked =>
                    /\ fc.flow[id][id.tile] = None
                    /\ \A t \in IslandOf(Free(id.chunk), id.tile) : Led(id, t) = None
    <3>1. FieldAt(id, fc.flow[id], blockers, dirty)
      BY DEF CacheAt
    <3>2. Target(id) /\ FlowOK(id, fc.flow[id])
      BY <2>1, <3>1, SoundIs DEF FieldAt
    <3>. QED BY <3>2, FlowLeads
  <2>2. ASSUME NEW x \in DOMAIN fc.los, x[2] \notin dirty
        PROVE  fc.los[x] = Blocked \intersect map.tiles[x[2]]
    <3>1. x[2] \in Chunk /\ fc.los[x] = TilesOf[x[2]] \ FreeAt(x[2], blockers)
      BY <2>2 DEF CacheAt
    <3>. QED BY <3>1, FreeAtIs, MapIs
  <2>. QED BY <2>1, <2>2 DEF FieldsCurrent
<1>. QED BY <1>1, <1>2, <1>3 DEF DerivedExact

\* A chunk without blockers: each link can be walked, since its portals were linked
\* because a way leads over the tiles of the chunk from the one to the other.
LEMMA NoBlockers ==
  ASSUME MapKept, blockers = [t \in Passable |-> 0], NEW L, Current(L), NEW k \in Chunk
  PROVE  {e \in Link : e[1].chunk = k} = Edges(L, k, FreeAt(k, blockers))
<1>1. FreeAt(k, blockers) = TilesOf[k] /\ Free(k) = TilesOf[k]
  <2>1. \A t \in TilesOf[k] : blockers[t] = 0
    BY TilesAre
  <2>. QED BY <2>1, FreeAtIs DEF FreeAt
<1>2. ASSUME NEW e \in Link, e[1].chunk = k
      PROVE  \E a \in e[1].tiles \intersect TilesOf[k], b \in e[2].tiles \intersect TilesOf[k] : L[a] = L[b]
  <2> DEFINE T == TilesOf[k]
             F == e[1].tiles
             c == StepsFrom(T, F)
             C == {u \in T : \E a \in F : L[u] = L[a]}
  <2>1. /\ T \in SUBSET Place /\ IsFiniteSet(T) /\ F \in SUBSET T /\ e[2].tiles \in SUBSET T
        /\ e[2].tiles \intersect DOMAIN c # {}
    BY <1>2, LinksAre, TilesAre
  <2>2. F \in SUBSET Place
    BY <2>1
  <2>3. Steps(T, F, c)
    <3> HIDE DEF T, F
    <3>. QED BY <2>1, <2>2, StepsAre
  <2>4. \A t \in C \intersect DOMAIN c : Beside(t) \intersect T \subseteq C
    <3>1. \A t, u \in T : u \in Beside(t) => L[u] = L[t]
      BY <1>1, CurrentIs
    <3> HIDE DEF T, F, c
    <3>. QED BY <3>1
  <2>5. F \subseteq C
    BY <2>1
  <2>6. DOMAIN c \subseteq C
    <3> HIDE DEF T, F, c, C
    <3>. QED BY <2>1, <2>2, <2>3, <2>4, <2>5, StepsStay
  <2>7. PICK b \in e[2].tiles : b \in DOMAIN c
    BY <2>1
  <2>. QED BY <2>1, <2>6, <2>7
<1>. QED BY <1>1, <1>2 DEF Edges

LEMMA NavStarts ==
  ASSUME NavInit
  PROVE  NavIInv
<1> USE DEF NavInit
<1>1. MapKept
  BY DEF MapKept
<1>2. blockers = [t \in Passable |-> Held(standing, t)]
  <2>1. ASSUME NEW t PROVE Held(standing, t) = 0
    <3>1. {o \in standing : t \in Covers[o]} = {}
      OBVIOUS
    <3>. QED BY <3>1, FS_EmptySet DEF Held
  <2>. QED BY <2>1
<1>3. Current(liid)
  <2>1. liid = [t \in Passable |-> LocalIslands(ChunkOf(t))[t]]
    OBVIOUS
  <2>2. ASSUME NEW k \in Chunk, NEW t \in TilesOf[k] PROVE liid[t] = LocalIslands(k)[t]
    BY <2>1, TilesAre
  <2>3. ASSUME NEW t \in Passable PROVE LocalIslands(ChunkOf(t))[t] \in 0..Rows * Cols
    BY <1>1, PassableAre, TilesAre, LocalIslandsAre
  <2>. QED BY <2>1, <2>2, <2>3 DEF Current
<1>4. LinksAt(active, liid, blockers, dirty)
  BY <1>1, <1>3, NoBlockers, MapIs DEF LinksAt
<1>5. CacheAt(fc, blockers, dirty)
  BY DEF CacheAt, NoCache
<1>6. active \subseteq Link /\ IsFiniteSet(standing)
  BY <1>1, MapIs, FS_EmptySet
<1>7. IslesAt(liid, blockers, dirty, islandsDirty)
  BY <1>1, <1>3, CurrentIsles
<1>8. liid \in [Passable -> 0..Rows * Cols]
  BY <1>3 DEF Current
<1>9. changes \in 0..MaxChanges /\ displaced \in 0..MaxDisplaced
  BY NavAssumption
<1>10. standing \subseteq Objects /\ dirty \subseteq Chunk /\ islandsDirty = FALSE
  OBVIOUS
<1>. QED BY <1>1, <1>2, <1>4, <1>5, <1>6, <1>7, <1>8, <1>9, <1>10 DEF NavIInv

\* An object that stops or starts makes the chunks dirty in which it frees or holds
\* a tile; the tiles that are free in the others are the same.
LEMMA BlockersKeep ==
  ASSUME NavIInv, NEW o \in Objects, NEW delta \in {1, -1}, UpdateBlockers(Covers[o], delta),
         standing' \subseteq Objects, IsFiniteSet(standing'),
         \A t \in Passable :
           Held(standing', t) = Held(standing, t) + (IF t \in Covers[o] THEN delta ELSE 0),
         changes' \in 0..MaxChanges, UNCHANGED <<map, liid, active, fc, displaced>>
  PROVE  NavIInv'
<1> USE DEF NavIInv
<1> DEFINE tiles == Covers[o]
           after == [t \in Passable |-> IF t \in tiles THEN blockers[t] + delta ELSE blockers[t]]
           turned == {t \in tiles : (after[t] = 0) # (blockers[t] = 0)}
           K == {ChunkOf(t) : t \in turned}
<1>1. /\ blockers' = after /\ dirty' = dirty \union K
      /\ islandsDirty' = (islandsDirty \/ turned # {})
  BY DEF UpdateBlockers
<1>2. tiles \in SUBSET Passable
  BY NavAssumption
<1>3. \A t \in Passable : blockers[t] \in Nat /\ blockers[t] = Held(standing, t)
  BY HeldIs
<1> HIDE DEF tiles
<1>4. blockers' = [t \in Passable |-> Held(standing', t)]
  <2>1. \A t \in Passable : after[t] = Held(standing', t)
    BY <1>3 DEF tiles
  <2>. QED BY <1>1, <2>1
<1>5. \A t \in Passable : blockers'[t] \in Nat
  BY <1>4, HeldIs
<1>6. ASSUME NEW k \in Chunk, k \notin K PROVE FreeAt(k, blockers') = FreeAt(k, blockers)
  <2>1. ASSUME NEW t \in TilesOf[k] PROVE blockers'[t] > 0 <=> blockers[t] > 0
    <3>1. t \in Passable /\ t \notin turned
      BY <1>6, TilesAre
    <3>2. CASE t \in tiles
      <4>1. (blockers'[t] = 0) = (blockers[t] = 0)
        BY <1>1, <3>1, <3>2
      <4>2. blockers[t] \in Nat /\ blockers'[t] \in Nat
        BY <1>3, <1>5, <3>1
      <4>. QED BY <4>1, <4>2
    <3>3. CASE t \notin tiles
      BY <1>1, <3>1, <3>3
    <3>. QED BY <3>2, <3>3
  <2>. QED BY <2>1 DEF FreeAt
<1>7. K \subseteq Chunk
  BY <1>2, PassableAre
<1>8. turned # {} => K # {}
  OBVIOUS
<1> HIDE DEF K, turned, after
<1>9. IslesAt(liid, blockers', dirty', islandsDirty')
  <2>1. ASSUME NEW k \in Chunk, k \notin dirty' \/ ~islandsDirty'
        PROVE  (k \notin dirty \/ ~islandsDirty) /\ FreeAt(k, blockers') = FreeAt(k, blockers)
    <3>1. CASE k \notin dirty'
      BY <1>1, <1>6, <3>1
    <3>2. CASE ~islandsDirty'
      <4>1. ~islandsDirty /\ turned = {}
        BY <1>1, <3>2
      <4>2. k \notin K
        BY <4>1 DEF K
      <4>. QED BY <1>6, <4>1, <4>2
    <3>. QED BY <2>1, <3>1, <3>2
  <2>. QED BY <2>1 DEF IslesAt
<1>10. LinksAt(active, liid, blockers', dirty') /\ CacheAt(fc, blockers', dirty')
  BY <1>1, <1>6, BlockedElsewhere
<1>11. MapKept'
  BY DEF MapKept
<1>12. dirty' \subseteq Chunk /\ islandsDirty' \in BOOLEAN /\ (islandsDirty' => dirty' # {})
  BY <1>1, <1>7, <1>8
<1>. QED BY <1>4, <1>9, <1>10, <1>11, <1>12

LEMMA IncrefKeeps ==
  ASSUME NavIInv, NEW o \in Objects, BlockersIncref(o)
  PROVE  NavIInv'
<1> USE DEF BlockersIncref
<1>1. standing' \subseteq Objects /\ IsFiniteSet(standing')
  BY FS_AddElement DEF NavIInv
<1>2. \A t \in Passable :
        Held(standing', t) = Held(standing, t) + (IF t \in Covers[o] THEN 1 ELSE 0)
  BY HeldIs DEF NavIInv
<1>3. changes' \in 0..MaxChanges
  BY NavAssumption DEF NavIInv
<1>. QED BY <1>1, <1>2, <1>3, BlockersKeep

LEMMA DecrefKeeps ==
  ASSUME NavIInv, NEW o \in Objects, BlockersDecref(o)
  PROVE  NavIInv'
<1> USE DEF BlockersDecref
<1>1. standing' \subseteq Objects /\ IsFiniteSet(standing')
  BY FS_RemoveElement DEF NavIInv
<1>2. \A t \in Passable :
        Held(standing', t) = Held(standing, t) + (IF t \in Covers[o] THEN -1 ELSE 0)
  <2>1. \A t : Held(standing', t) = Held(standing, t) - (IF t \in Covers[o] THEN 1 ELSE 0)
    BY HeldIs DEF NavIInv
  <2>2. \A t : Held(standing, t) \in Nat
    BY HeldIs DEF NavIInv
  <2>3. ASSUME NEW t \in Passable
        PROVE  Held(standing', t) = Held(standing, t) + (IF t \in Covers[o] THEN -1 ELSE 0)
    <3>1. PICK n \in Nat : n = Held(standing, t)
      BY <2>2
    <3>2. PICK m : m = Held(standing', t)
      OBVIOUS
    <3>3. m = n - (IF t \in Covers[o] THEN 1 ELSE 0)
      BY <2>1, <3>1, <3>2
    <3>4. m = n + (IF t \in Covers[o] THEN -1 ELSE 0)
      BY <3>3
    <3>. QED BY <3>1, <3>2, <3>4
  <2>. QED BY <2>3
<1>3. changes' \in 0..MaxChanges
  BY NavAssumption DEF NavIInv
<1>. QED BY <1>1, <1>2, <1>3, BlockersKeep

\* Where only the numbers, which are brought up to date, and the caches change.
LEMMA RenumberedKeeps ==
  ASSUME NavIInv, liid' = UpdateLocalIslands, islandsDirty' = FALSE, CacheOK(fc'),
         UNCHANGED <<map, standing, blockers, dirty, active, changes, displaced>>
  PROVE  NavIInv'
<1> USE DEF NavIInv
<1>1. Current(UpdateLocalIslands)
  BY ExactCurrent
<1>2. IslesAt(liid', blockers, dirty, islandsDirty') /\ LinksAt(active, liid', blockers, dirty)
  BY <1>1, CurrentIsles, UpdateLinks
<1>3. liid' \in [Passable -> 0..Rows * Cols]
  BY <1>1 DEF Current
<1>4. MapKept' /\ CacheAt(fc', blockers, dirty)
  BY DEF MapKept, CacheOK
<1>. QED BY <1>2, <1>3, <1>4

LEMMA RequestPathKeeps ==
  ASSUME NavIInv, NEW s \in Sources, NEW d \in Dests, RequestPath(s, d)
  PROVE  NavIInv'
<1>1. fc' = Requested(UpdateLocalIslands, fc, s, d).fc
  BY DEF RequestPath
<1>2. MapKept /\ CacheOK(fc) /\ Current(UpdateLocalIslands) /\ s \in Passable
  BY ExactCurrent, PassableAre DEF NavIInv, CacheOK
<1>3. CacheOK(fc')
  BY <1>1, <1>2, RequestedKeeps DEF ReplyOK
<1>. QED BY <1>3, RenumberedKeeps DEF RequestPath

LEMMA SeekKeeps ==
  ASSUME NavIInv, NEW t \in Sources, NEW d \in Dests, DesiredPointSeekVelocity(t, d)
  PROVE  NavIInv'
<1> DEFINE r == Sought(t, d)
<1>1. /\ liid' = IF r.asked THEN UpdateLocalIslands ELSE liid
      /\ islandsDirty' = (islandsDirty /\ ~r.asked)
      /\ fc' = r.fc
      /\ UNCHANGED <<map, standing, blockers, dirty, active, changes, displaced>>
  BY DEF DesiredPointSeekVelocity
<1>2. MapKept /\ CacheOK(fc) /\ Current(UpdateLocalIslands) /\ t \in Passable
  BY ExactCurrent, PassableAre DEF NavIInv, CacheOK
<1>3. CacheOK(r.fc) /\ r.asked \in BOOLEAN
  BY <1>2, SoughtKeeps
<1> HIDE DEF r
<1>4. CASE r.asked
  BY <1>1, <1>3, <1>4, RenumberedKeeps
<1>5. CASE ~r.asked
  <2>1. liid' = liid /\ islandsDirty' = islandsDirty
    BY <1>1, <1>5 DEF NavIInv
  <2>2. MapKept' /\ CacheAt(fc', blockers, dirty)
    BY <1>1, <1>3 DEF MapKept, CacheOK, NavIInv
  <2>. QED BY <1>1, <2>1, <2>2 DEF NavIInv
<1>. QED BY <1>4, <1>5

\* Without the entries of some keys.
LEMMA WithoutIs ==
  ASSUME NEW f, NEW keys
  PROVE  DOMAIN Without(f, keys) = DOMAIN f \ keys
BY DEF Without

LEMMA WithoutAt ==
  ASSUME NEW f, NEW keys, NEW x \in DOMAIN f, x \notin keys
  PROVE  Without(f, keys)[x] = f[x]
BY DEF Without

\* Entries that go leave the others as they are; if those of the dirty chunks go,
\* what is left is right with fewer chunks dirty.
LEMMA LessCached ==
  ASSUME NEW b, NEW D, NEW E, NEW c, CacheAt(c, b, D), NEW f, NEW m, NEW l, NEW fk, NEW lk,
         \A id \in DOMAIN f : /\ id \in DOMAIN c.flow /\ id \in fk /\ f[id] = c.flow[id]
                              /\ id.chunk \in D => id.chunk \in E,
         \A x \in DOMAIN m : x \in DOMAIN c.mapping /\ m[x] = c.mapping[x],
         \A x \in DOMAIN l : /\ x \in DOMAIN c.los /\ x \in lk /\ l[x] = c.los[x]
                             /\ x[2] \in D => x[2] \in E
  PROVE  CacheAt([flow |-> f, mapping |-> m, los |-> l, flowKeys |-> fk, losKeys |-> lk], b, E)
<1>1. \A id \in DOMAIN f : FieldAt(id, f[id], b, E)
  BY DEF CacheAt, FieldAt
<1>2. \A x \in DOMAIN m : x[1] \in Dests /\ Target(m[x]) /\ m[x].chunk = x[2]
  BY DEF CacheAt
<1>3. \A x \in DOMAIN l :
        x[2] \in Chunk /\ (x[2] \notin E => l[x] = TilesOf[x[2]] \ FreeAt(x[2], b))
  BY DEF CacheAt
<1>. QED BY <1>1, <1>2, <1>3 DEF CacheAt

\* The entries of the dirty chunks are invalidated, and those of paths through the
\* chunks K.
LEMMA InvalidatedIs ==
  ASSUME NEW b, NEW D, NEW c, CacheAt(c, b, D), NEW K
  PROVE  CacheAt(InvalidateAllThroughChunks(InvalidateAllAtChunks(c, D), K), b, {})
<1>1. PICK f, m, l, fk, lk :
        c = [flow |-> f, mapping |-> m, los |-> l, flowKeys |-> fk, losKeys |-> lk]
  BY DEF CacheAt
<1> DEFINE flows == {id \in fk : id.chunk \in D}
           sights == {x \in lk : x[2] \in D}
           g == Without(f, flows)
           h == Without(l, sights)
           paths == {x[1] : x \in {y \in DOMAIN m : y[2] \in K}}
           gone == {x \in DOMAIN h : x[1] \in paths}
           i == Without(h, gone)
           at == [flow |-> g, mapping |-> m, los |-> h, flowKeys |-> fk \ flows,
                  losKeys |-> lk \ sights]
<1>2. InvalidateAllAtChunks(c, D) = at
  <2>1. c.flow = f /\ c.flowKeys = fk /\ c.los = l /\ c.losKeys = lk
    BY <1>1
  <2>2. InvalidateAllAtChunks(c, D) =
          [c EXCEPT !.flow = g, !.flowKeys = fk \ flows, !.los = h, !.losKeys = lk \ sights]
    BY <2>1 DEF InvalidateAllAtChunks
  <2> HIDE DEF g, h, flows, sights
  <2>. QED BY <1>1, <2>2
<1>3. InvalidateAllThroughChunks(at, K) =
        [flow |-> g, mapping |-> m, los |-> i, flowKeys |-> fk \ flows, losKeys |-> lk \ sights]
  <2>1. at.mapping = m /\ at.los = h
    OBVIOUS
  <2>2. InvalidateAllThroughChunks(at, K) = [at EXCEPT !.los = i]
    BY <2>1 DEF InvalidateAllThroughChunks
  <2> HIDE DEF g, h, i, flows, sights
  <2>. QED BY <2>2
<1>4. DOMAIN g = DOMAIN f \ flows /\ DOMAIN h = DOMAIN l \ sights /\ DOMAIN i = DOMAIN h \ gone
  <2>1. DOMAIN g = DOMAIN f \ flows
    BY WithoutIs
  <2>2. DOMAIN h = DOMAIN l \ sights
    BY WithoutIs
  <2>3. DOMAIN i = DOMAIN h \ gone
    BY WithoutIs
  <2> HIDE DEF g, h, i
  <2>. QED BY <2>1, <2>2, <2>3
<1>5. \A id \in DOMAIN g : g[id] = f[id]
  BY <1>4, WithoutAt
<1>6. \A x \in DOMAIN h : h[x] = l[x]
  BY <1>4, WithoutAt
<1>7. \A x \in DOMAIN i : i[x] = h[x]
  BY <1>4, WithoutAt
<1> HIDE DEF g, h, i
<1>8. DOMAIN f \subseteq fk /\ DOMAIN l \subseteq lk /\ c.flow = f /\ c.mapping = m /\ c.los = l
  BY <1>1 DEF CacheAt
<1>9. \A id \in DOMAIN g : /\ id \in DOMAIN f /\ id \in fk \ flows /\ g[id] = f[id]
                           /\ id.chunk \in D => id.chunk \in {}
  BY <1>4, <1>5, <1>8
<1>10. \A x \in DOMAIN i : /\ x \in DOMAIN l /\ x \in lk \ sights /\ i[x] = l[x]
                           /\ x[2] \in D => x[2] \in {}
  BY <1>4, <1>6, <1>7, <1>8
<1> HIDE DEF flows, sights
<1>11. CacheAt([flow |-> g, mapping |-> m, los |-> i, flowKeys |-> fk \ flows,
                losKeys |-> lk \ sights], b, {})
  BY <1>8, <1>9, <1>10, LessCached
<1>. QED BY <1>2, <1>3, <1>11

LEMMA UpdateAllKeeps ==
  ASSUME NavIInv, NavUpdate
  PROVE  NavIInv'
<1> USE DEF NavIInv
<1> DEFINE L == UpdateLocalIslands
           linked(k) == Edges(L, k, FreeAt(k, blockers))
<1>1. /\ liid' = L /\ islandsDirty' = FALSE /\ dirty' = {}
      /\ active' = {e \in active : e[1].chunk \notin dirty} \union UNION {EdgesOf(L, k) : k \in dirty}
      /\ UNCHANGED <<map, standing, blockers, changes, displaced>>
      /\ \E K : fc' = InvalidateAllThroughChunks(InvalidateAllAtChunks(fc, dirty), K)
  BY DEF NavUpdate
<1>2. Current(L)
  BY ExactCurrent
<1> HIDE DEF L
<1>3. liid' \in [Passable -> 0..Rows * Cols] /\ IslesAt(liid', blockers, {}, FALSE)
  BY <1>1, <1>2, CurrentIsles DEF Current
<1>4. CacheAt(fc', blockers, {})
  BY <1>1, InvalidatedIs
<1>5. \A k \in dirty : EdgesOf(L, k) = linked(k)
  BY EdgesAre
<1>6. LinksAt(active, L, blockers, dirty)
  BY UpdateLinks DEF L
<1>7. \A k : \A e \in linked(k) : e \in Link /\ e[1].chunk = k
  BY DEF Edges
<1> HIDE DEF linked
<1>8. \A e : e \in active' <=> \/ e \in active /\ e[1].chunk \notin dirty
                               \/ e[1].chunk \in dirty /\ e \in linked(e[1].chunk)
  BY <1>1, <1>5, <1>7
<1>9. active' \subseteq Link
  BY <1>7, <1>8
<1>10. ASSUME NEW k \in Chunk PROVE {e \in active' : e[1].chunk = k} = linked(k)
  <2>1. CASE k \in dirty
    BY <1>7, <1>8, <2>1
  <2>2. CASE k \notin dirty
    <3>1. {e \in active : e[1].chunk = k} = linked(k)
      BY <1>6, <2>2 DEF LinksAt, linked
    <3>. QED BY <1>7, <1>8, <2>2, <3>1
  <2>. QED BY <2>1, <2>2
<1>11. LinksAt(active', L, blockers, {})
  BY <1>10 DEF LinksAt, linked
<1>12. MapKept'
  BY <1>1 DEF MapKept
<1>. QED BY <1>1, <1>3, <1>4, <1>9, <1>11, <1>12

LEMMA DisplaceKeeps ==
  ASSUME NavIInv, Displace
  PROVE  NavIInv'
<1> USE DEF NavIInv
<1>1. PICK f, m, l, fk, lk :
        fc = [flow |-> f, mapping |-> m, los |-> l, flowKeys |-> fk, losKeys |-> lk]
  BY DEF CacheAt
<1>2. /\ fc.flow = f /\ fc.mapping = m /\ fc.los = l
      /\ DOMAIN f \subseteq fk /\ DOMAIN l \subseteq lk
  BY <1>1 DEF CacheAt
<1>3. CacheAt(fc', blockers, dirty)
  <2>1. ASSUME NEW id, fc' = [fc EXCEPT !.flow = Without(f, {id})] PROVE CacheAt(fc', blockers, dirty)
    <3>1. PICK g : g = Without(f, {id})
      OBVIOUS
    <3>2. fc' = [flow |-> g, mapping |-> m, los |-> l, flowKeys |-> fk, losKeys |-> lk]
      BY <1>1, <2>1, <3>1
    <3>3. ASSUME NEW y \in DOMAIN g PROVE y \in DOMAIN f /\ g[y] = f[y]
      <4>1. DOMAIN g = DOMAIN f \ {id}
        BY <3>1, WithoutIs
      <4>. QED BY <3>1, <3>3, <4>1, WithoutAt
    <3>. QED BY <1>2, <3>2, <3>3, LessCached
  <2>2. ASSUME NEW x, fc' = [fc EXCEPT !.mapping = Without(m, {x})] PROVE CacheAt(fc', blockers, dirty)
    <3>1. PICK g : g = Without(m, {x})
      OBVIOUS
    <3>2. fc' = [flow |-> f, mapping |-> g, los |-> l, flowKeys |-> fk, losKeys |-> lk]
      BY <1>1, <2>2, <3>1
    <3>3. ASSUME NEW y \in DOMAIN g PROVE y \in DOMAIN m /\ g[y] = m[y]
      <4>1. DOMAIN g = DOMAIN m \ {x}
        BY <3>1, WithoutIs
      <4>. QED BY <3>1, <3>3, <4>1, WithoutAt
    <3>. QED BY <1>2, <3>2, <3>3, LessCached
  <2>3. ASSUME NEW x, fc' = [fc EXCEPT !.los = Without(l, {x})] PROVE CacheAt(fc', blockers, dirty)
    <3>1. PICK g : g = Without(l, {x})
      OBVIOUS
    <3>2. fc' = [flow |-> f, mapping |-> m, los |-> g, flowKeys |-> fk, losKeys |-> lk]
      BY <1>1, <2>3, <3>1
    <3>3. ASSUME NEW y \in DOMAIN g PROVE y \in DOMAIN l /\ g[y] = l[y]
      <4>1. DOMAIN g = DOMAIN l \ {x}
        BY <3>1, WithoutIs
      <4>. QED BY <3>1, <3>3, <4>1, WithoutAt
    <3>. QED BY <1>2, <3>2, <3>3, LessCached
  <2>. QED BY <1>2, <2>1, <2>2, <2>3 DEF Displace
<1>4. MapKept' /\ displaced' \in 0..MaxDisplaced
  BY NavAssumption DEF Displace, MapKept
<1>. QED BY <1>3, <1>4 DEF Displace

\* The inductive invariant holds whatever happens.
THEOREM NavInvariance == NavSpec => []NavIInv
<1>1. NavIInv /\ [NavNext]_vars => NavIInv'
  <2> SUFFICES ASSUME NavIInv, [NavNext]_vars PROVE NavIInv'
    OBVIOUS
  <2>1. ASSUME NEW o \in Objects, BlockersIncref(o) PROVE NavIInv'
    BY <2>1, IncrefKeeps
  <2>2. ASSUME NEW o \in Objects, BlockersDecref(o) PROVE NavIInv'
    BY <2>2, DecrefKeeps
  <2>3. ASSUME NEW s \in Sources, NEW d \in Dests, RequestPath(s, d) PROVE NavIInv'
    BY <2>3, RequestPathKeeps
  <2>4. ASSUME NEW s \in Sources, NEW d \in Dests, DesiredPointSeekVelocity(s, d) PROVE NavIInv'
    BY <2>4, SeekKeeps
  <2>5. CASE NavUpdate
    BY <2>5, UpdateAllKeeps
  <2>6. CASE Displace
    BY <2>6, DisplaceKeeps
  <2>7. CASE UNCHANGED vars
    BY <2>7 DEF vars, NavIInv, MapKept
  <2>. QED BY <2>1, <2>2, <2>3, <2>4, <2>5, <2>6, <2>7 DEF NavNext
<1>. QED BY <1>1, NavStarts, PTL DEF NavSpec

\* What is derived from the blockers, local islands, links, fields and lines of
\* sight, is what would be derived from those that are there now, unless it is known
\* to be out of date (DerivedExact), on every map and with every set of objects: the
\* directions of a field never go in a circle, and those of a destination's field
\* lead all of its island to it.
THEOREM DerivedExactHolds == NavSpec => []DerivedExact
BY NavInvariance, NavExact, PTL

-----------------------------------------------------------------------------
(* Whoever is joined to a destination is not refused. *)

\* A free tile's number is that of its island: not none.
LEMMA IsleNumbered ==
  ASSUME MapKept, NEW k \in Chunk, NEW t \in Free(k)
  PROVE  LocalIslands(k)[t] # 0
<1> DEFINE F == Free(k)
           isles == {IslandOf(F, u) : u \in F}
           upto == {i \in isles : First(i) <= First(IslandOf(F, t))}
           places == {Local(u)[1] * Cols + Local(u)[2] : u \in IslandOf(F, t)}
<1>1. LocalIslands(k)[t] = Cardinality(upto)
  <2>1. t \in TilesOf[k] /\ t \notin Blocked
    BY FreeIs
  <2>. QED BY <2>1, MapIs DEF LocalIslands
<1>2. F \in SUBSET Place /\ IsFiniteSet(F)
  BY FreeIs
<1>3. t \in IslandOf(F, t) /\ IslandOf(F, t) \subseteq F
  BY <1>2, IslandIs
<1>4. IsFiniteSet(isles) /\ IslandOf(F, t) \in isles
  <2> HIDE DEF F
  <2> DEFINE f == [u \in F |-> IslandOf(F, u)]
  <2>1. f \in Surjection(F, isles)
    BY DEF Surjection
  <2>2. IsFiniteSet(isles)
    <3> HIDE DEF isles
    <3>. QED BY <1>2, <2>1, FS_Surjection
  <2>. QED BY <2>2 DEF F
<1>5. First(IslandOf(F, t)) \in Nat
  <2>1. Rows \in Nat \ {0} /\ Cols \in Nat \ {0}
    BY NavMapAssumption
  <2>2. ASSUME NEW u \in Place PROVE Local(u)[1] * Cols + Local(u)[2] \in Nat
    <3>1. u[1] \in Int /\ u[2] \in Int
      BY DEF Place
    <3>2. Local(u)[1] \in Nat /\ Local(u)[2] \in Nat
      BY <2>1, <3>1 DEF Local
    <3>3. Local(u)[1] * Cols \in Nat
      BY <2>1, <3>2
    <3>. QED BY <3>2, <3>3
  <2> HIDE DEF F
  <2>3. places \in SUBSET Nat /\ places # {}
    BY <1>2, <1>3, <2>2
  <2> HIDE DEF places
  <2>4. Min(places) \in Nat
    BY <2>3, LeastIs
  <2>. QED BY <2>4 DEF First, places
<1> HIDE DEF F, isles
<1>6. IsFiniteSet(upto) /\ upto # {}
  <2>1. IslandOf(F, t) \in upto
    BY <1>4, <1>5
  <2>. QED BY <1>4, <2>1, FS_Subset
<1> HIDE DEF upto
<1>. QED BY <1>1, <1>6, FS_EmptySet

\* The tiles of an island have its number.
LEMMA IsleIs ==
  ASSUME MapKept, NEW L, Current(L), NEW k \in Chunk, NEW t \in Free(k),
         NEW u \in IslandOf(Free(k), t)
  PROVE  /\ u \in Free(k) /\ t \in IslandOf(Free(k), u)
         /\ L[u] = L[t] /\ L[t] # 0 /\ L[t] \in 0..Rows * Cols
         /\ \A v \in Free(k) : v \in Beside(u) => v \in IslandOf(Free(k), t)
<1>1. /\ Free(k) \in SUBSET Place /\ IsFiniteSet(Free(k)) /\ Free(k) \in SUBSET TilesOf[k]
      /\ Free(k) \in SUBSET Passable
  BY FreeIs
<1>2. /\ t \in IslandOf(Free(k), t) /\ u \in Free(k)
      /\ Beside(u) \intersect Free(k) \subseteq IslandOf(Free(k), t)
  BY <1>1, IslandIs
<1>3. IslandOf(Free(k), u) = IslandOf(Free(k), t)
  BY <1>1, IslandSame
<1>4. LocalIslands(k)[u] = LocalIslands(k)[t] /\ LocalIslands(k)[t] # 0
  BY <1>2, LocalIslandsAre, IsleNumbered
<1>5. L[u] = LocalIslands(k)[u] /\ L[t] = LocalIslands(k)[t] /\ L[t] \in 0..Rows * Cols
  BY <1>1, <1>2 DEF Current
<1>. QED BY <1>2, <1>3, <1>4, <1>5

\* From a portal's tile the way over free tiles is one over the chunk's tiles.
LEMMA IsleTravelled ==
  ASSUME MapKept, NEW p \in Portal, NEW u \in p.tiles, u \in Free(p.chunk),
         NEW t \in IslandOf(Free(p.chunk), u)
  PROVE  t \in DOMAIN map.travel[p]
<1> DEFINE F == Free(p.chunk)
           T == TilesOf[p.chunk]
           D == DOMAIN map.travel[p]
<1>1. p.chunk \in Chunk
  BY PortalTiles
<1>2. F \in SUBSET Place /\ IsFiniteSet(F) /\ F \in SUBSET T
  BY <1>1, FreeIs
<1>3. u \in D /\ \A x \in D : Beside(x) \intersect T \subseteq D
  BY TravelIs DEF Steps
<1> HIDE DEF F, T, D
<1>4. \A x \in D \intersect F : Beside(x) \intersect F \subseteq D
  BY <1>2, <1>3
<1>5. IslandOf(F, u) \subseteq D
  <2>1. u \in F
    BY DEF F
  <2>. QED BY <1>2, <1>3, <1>4, <2>1, IslandLeast
<1>. QED BY <1>5 DEF F, D

LEMMA Near ==
  ASSUME NEW t \in Place, NEW u \in Place, Dist(t, u) = 1
  PROVE  t \in Beside(u)
<1>1. /\ t = <<t[1], t[2]>> /\ t[1] \in Int /\ t[2] \in Int
      /\ u[1] \in Int /\ u[2] \in Int
  BY DEF Place
<1>2. \/ t[1] = u[1] - 1 /\ t[2] = u[2]
      \/ t[1] = u[1] + 1 /\ t[2] = u[2]
      \/ t[1] = u[1] /\ t[2] = u[2] - 1
      \/ t[1] = u[1] /\ t[2] = u[2] + 1
  BY <1>1 DEF Dist, Abs
<1>3. \/ t = <<u[1] - 1, u[2]>> \/ t = <<u[1] + 1, u[2]>>
      \/ t = <<u[1], u[2] - 1>> \/ t = <<u[1], u[2] + 1>>
  BY <1>1, <1>2
<1>. QED BY <1>3 DEF Beside

\* A step that joins two free tiles.
Joins(u, t) ==
  /\ Dist(t, u) = 1
  /\ ChunkOf(t) # ChunkOf(u) => <<u, t>> \in Crossings

\* What is joined to a is in whatever has a and is not left by such steps.
LEMMA JoinedIn ==
  ASSUME NEW a, NEW b, Joined(a, b), IsFiniteSet(Passable), NEW C,
         {a} \intersect (Passable \ Blocked) \subseteq C,
         \A u \in C : \A t \in Passable \ Blocked : Joins(u, t) => t \in C
  PROVE  b \in C
<1> DEFINE free == Passable \ Blocked
           base == {a} \intersect free
           S == 1..Cardinality(Passable)
           Next(u) == {t \in free : /\ Dist(t, u) = 1
                                    /\ ChunkOf(t) # ChunkOf(u) => <<u, t>> \in Crossings}
           More(I) == I \union UNION {Next(u) : u \in I}
           Rec(f) == f = [T \in SUBSET S |->
                            IF T = {} THEN base
                            ELSE LET x == CHOOSE x \in T : TRUE IN More(f[T \ {x}])]
           it == CHOOSE f : Rec(f)
           V == SUBSET C
           st == [p \in S \X V |-> More(p[2])]
           good == [T \in SUBSET S |-> V]
<1>1. b \in it[S]
  BY DEF Joined, FoldSet, MapThenFoldSet
<1>2. IsFiniteSet(S)
  BY FS_CardinalityType, FS_Interval
<1>3. base \in V
  OBVIOUS
<1>4. ASSUME NEW I \in V PROVE More(I) \in V
  <2>1. ASSUME NEW u \in I PROVE Next(u) \subseteq C
    BY DEF Joins
  <2> HIDE DEF Next
  <2>. QED BY <2>1
<1>5. DOMAIN st = S \X V /\ \A e \in S, I \in V : st[<<e, I>>] = More(I)
  <2> HIDE DEF More
  <2>. QED OBVIOUS
<1>6. \A T \in SUBSET S : good[T] = V
  OBVIOUS
<1> HIDE DEF S, base, More, V, st, good
<1>7. ASSUME NEW f, Follows(f, S, V, Firsts(S), base, st)
      PROVE  Recurs(it, S, V, base, st)
  <2> DEFINE ch == Firsts(S)
  <2>1. \A T \in SUBSET S : T # {} => ch[T] \in T /\ ch[T] = CHOOSE x \in T : TRUE
    BY FirstsAre
  <2>2. \A T \in SUBSET S : T # {} => f[T] = More(f[T \ {ch[T]}])
    BY <1>5, <1>7 DEF Follows
  <2>3. /\ f = [T \in SUBSET S |-> f[T]]
        /\ \A T \in SUBSET S :
             f[T] = IF T = {} THEN base
                    ELSE LET x == CHOOSE x \in T : TRUE IN More(f[T \ {x}])
    BY <1>7, <2>1, <2>2 DEF Follows
  <2>4. Rec(f)
    BY <2>3
  <2>5. Rec(it)
    <3> HIDE DEF Rec
    <3>. QED BY <2>4
  <2> HIDE DEF it
  <2>6. \A T \in SUBSET S :
          it[T] = IF T = {} THEN base
                  ELSE LET x == CHOOSE x \in T : TRUE IN More(it[T \ {x}])
    BY <2>5
  <2>7. it[{}] = base /\ \A T \in SUBSET S : T # {} => it[T] = More(it[T \ {ch[T]}])
    BY <2>1, <2>6
  <2> HIDE DEF Rec, ch
  <2>8. \A T \in SUBSET S : T # {} =>
          ch[T] \in T /\ (it[T \ {ch[T]}] \in V => it[T] = st[<<ch[T], it[T \ {ch[T]}]>>])
    BY <1>5, <2>1, <2>7
  <2>. QED BY <2>7, <2>8 DEF Recurs
<1> HIDE DEF it
<1>8. Leads(S, V, good, base, st)
  BY <1>2, <1>3, <1>4, <1>5, <1>6 DEF Leads
<1>9. it[S] \in good[S]
  BY <1>7, <1>8, FoldReaches
<1>10. it[S] \in V
  BY <1>6, <1>9
<1>. QED BY <1>1, <1>10 DEF V

\* A free tile is of an island of its chunk.
LEMMA FreeIsle ==
  ASSUME MapKept, NEW L, Current(L), NEW t \in Passable \ Blocked
  PROVE  /\ ChunkOf(t) \in Chunk /\ t \in Free(ChunkOf(t))
         /\ t \in IslandOf(Free(ChunkOf(t)), t)
         /\ L[t] # 0 /\ L[t] \in 0..Rows * Cols /\ ClosestPathableLocalIsland(L, t) = L[t]
<1>1. ChunkOf(t) \in Chunk /\ t \in TilesOf[ChunkOf(t)]
  BY PassableAre, TilesAre
<1>2. /\ t \in Free(ChunkOf(t)) /\ Free(ChunkOf(t)) \in SUBSET Place
      /\ IsFiniteSet(Free(ChunkOf(t)))
  BY <1>1, FreeIs
<1>3. t \in IslandOf(Free(ChunkOf(t)), t)
  BY <1>2, IslandIs
<1>4. L[t] # 0 /\ L[t] \in 0..Rows * Cols
  BY <1>1, <1>2, <1>3, IsleIs
<1>5. IsleAt(L, t) = L[t]
  BY DEF IsleAt
<1>6. ClosestPathableLocalIsland(L, t) = L[t]
  BY <1>4, <1>5 DEF ClosestPathableLocalIsland
<1>. QED BY <1>1, <1>2, <1>3, <1>4, <1>6

\* A tile of the island of s, and one of that from which a counted hop is used.
OwnWay(s, t) == ChunkOf(t) = ChunkOf(s) /\ t \in IslandOf(Free(ChunkOf(s)), s)
HopWay(L, cost, t) ==
  \E p \in Portal : \E u \in p.tiles :
     /\ u \in Free(p.chunk) /\ ChunkOf(t) = p.chunk /\ t \in IslandOf(Free(p.chunk), u)
     /\ Hop(p, L[u]) \in DOMAIN cost
Way(L, cost, s, t) == OwnWay(s, t) \/ HopWay(L, cost, t)

\* From there every hop over a portal that is on the island is counted.
LEMMA HopCounted ==
  ASSUME MapKept, NEW L, Current(L), LinksAt(active, L, blockers, {}),
         NEW s \in Passable \ Blocked, NEW cost, Counted(L, cost), CountedFrom(L, s, cost),
         NEW t \in Passable \ Blocked, Way(L, cost, s, t), NEW p \in Portal, t \in p.tiles
  PROVE  Hop(p, L[t]) \in DOMAIN cost
<1> DEFINE k == ChunkOf(t)
<1>1. k \in Chunk /\ t \in Free(k) /\ t \in IslandOf(Free(k), t) /\ L[t] # 0
  BY FreeIsle
<1>2. p.chunk = k
  BY PortalTiles, TilesAre
<1> HIDE DEF k
<1>3. CASE OwnWay(s, t)
  <2>1. ChunkOf(s) = k /\ s \in Free(k) /\ t \in IslandOf(Free(k), s)
    BY <1>3, FreeIsle DEF OwnWay, k
  <2>2. s \in IslandOf(Free(k), t) /\ L[t] = L[s]
    BY <1>1, <2>1, IsleIs
  <2>3. s \in DOMAIN map.travel[p]
    BY <1>1, <1>2, <2>2, IsleTravelled
  <2>4. s \in Around(s)
    <3>1. s[1] \in Int /\ s[2] \in Int
      BY PassableAre DEF Place
    <3>2. Abs(s[1] - s[1]) <= 1 /\ Abs(s[2] - s[2]) <= 1
      BY <3>1 DEF Abs
    <3>. QED BY <3>2 DEF Around
  <2>5. PortalReachableFromTile(L, p, s)
    BY <1>1, <2>2, <2>4 DEF PortalReachableFromTile
  <2>6. p \in map.portals[ChunkOf(s)]
    BY <1>1, <1>2, <2>1, MapIs DEF PortalsOf
  <2>7. ClosestPathableLocalIsland(L, s) = L[t] /\ L[t] # 0
    BY <1>1, <2>2, FreeIsle
  <2>8. Hop(p, ClosestPathableLocalIsland(L, s)) \in FirstHops(L, s)
    BY <2>3, <2>5, <2>6 DEF FirstHops
  <2>. QED BY <2>7, <2>8 DEF CountedFrom
<1>4. CASE HopWay(L, cost, t)
  <2>1. PICK q \in Portal : \E u \in q.tiles :
          /\ u \in Free(q.chunk) /\ k = q.chunk /\ t \in IslandOf(Free(q.chunk), u)
          /\ Hop(q, L[u]) \in DOMAIN cost
    BY <1>4 DEF HopWay, k
  <2>2. PICK u \in q.tiles : /\ u \in Free(k) /\ t \in IslandOf(Free(k), u)
                             /\ Hop(q, L[u]) \in DOMAIN cost
    BY <2>1
  <2>3. q.chunk = k
    BY <2>1
  <2>4. L[t] = L[u]
    BY <1>1, <2>2, IsleIs
  <2>5. CASE q = p
    BY <2>2, <2>4, <2>5
  <2>6. CASE q # p
    <3>1. t \in DOMAIN map.travel[q]
      BY <2>2, <2>3, IsleTravelled
    <3>2. <<q, p>> \in Link
      <4> DEFINE of(r) == {x \in PortalsOf[r.chunk] \ {r} : x.tiles \intersect DOMAIN TravelCost[r] # {}}
      <4>1. p \in PortalsOf[q.chunk] \ {q}
        BY <1>1, <1>2, <2>3, <2>6 DEF PortalsOf
      <4>2. p.tiles \intersect DOMAIN TravelCost[q] # {}
        BY <3>1, MapIs
      <4>3. <<q, p>> \in {q} \X of(q)
        BY <4>1, <4>2
      <4> HIDE DEF of
      <4>4. Link = UNION {{r} \X of(r) : r \in Portal}
        BY DEF Link, of
      <4>. QED BY <4>3, <4>4
    <3>3. <<q, p>> \in Edges(L, k, FreeAt(k, blockers))
      <4>1. u \in FreeAt(k, blockers) /\ t \in FreeAt(k, blockers)
        BY <1>1, <2>2, FreeAtIs
      <4>. QED BY <2>3, <2>4, <3>2, <4>1 DEF Edges
    <3>4. <<q, p>> \in active
      BY <1>1, <3>3 DEF LinksAt
    <3> DEFINE h == Hop(q, L[u])
    <3>5. h \in Hops /\ h.port = q /\ h.iid = L[u]
      BY <2>2 DEF Counted, Hop
    <3> HIDE DEF h
    <3>6. Along(L, h, Hop(p, L[u]))
      BY <1>2, <2>3, <2>4, <3>4, <3>5 DEF Along
    <3>7. Hop(p, L[u]) \in NeighboursPortalGraph(L, h)
      BY <3>5, <3>6, NeighboursAre
    <3>8. h \in DOMAIN cost
      BY <2>2 DEF h
    <3>. QED BY <2>4, <3>7, <3>8 DEF CountedFrom
  <2>. QED BY <2>5, <2>6
<1>. QED BY <1>3, <1>4 DEF Way

LEMMA WayGoesOn ==
  ASSUME MapKept, NEW L, Current(L), LinksAt(active, L, blockers, {}),
         NEW s \in Passable \ Blocked, NEW cost, Counted(L, cost), CountedFrom(L, s, cost),
         NEW u \in Passable \ Blocked, Way(L, cost, s, u),
         NEW t \in Passable \ Blocked, Joins(u, t)
  PROVE  Way(L, cost, s, t)
<1>1. /\ ChunkOf(u) \in Chunk /\ u \in Free(ChunkOf(u))
      /\ ChunkOf(t) \in Chunk /\ t \in Free(ChunkOf(t)) /\ t \in IslandOf(Free(ChunkOf(t)), t)
      /\ L[t] # 0 /\ s \in Free(ChunkOf(s)) /\ ChunkOf(s) \in Chunk
  BY FreeIsle
<1>2. t \in Beside(u)
  BY PassableAre, Near DEF Joins
<1>3. CASE ChunkOf(t) = ChunkOf(u)
  <2>1. CASE OwnWay(s, u)
    <3>1. t \in IslandOf(Free(ChunkOf(s)), s)
      BY <1>1, <1>2, <1>3, <2>1, IsleIs DEF OwnWay
    <3>. QED BY <1>3, <2>1, <3>1 DEF Way, OwnWay
  <2>2. CASE HopWay(L, cost, u)
    <3>0. PICK p \in Portal : \E x \in p.tiles :
            /\ x \in Free(p.chunk) /\ ChunkOf(u) = p.chunk /\ u \in IslandOf(Free(p.chunk), x)
            /\ Hop(p, L[x]) \in DOMAIN cost
      BY <2>2 DEF HopWay
    <3>1. PICK x \in p.tiles :
            /\ x \in Free(p.chunk) /\ ChunkOf(u) = p.chunk /\ u \in IslandOf(Free(p.chunk), x)
            /\ Hop(p, L[x]) \in DOMAIN cost
      BY <3>0
    <3>2. t \in IslandOf(Free(p.chunk), x)
      BY <1>1, <1>2, <1>3, <3>1, IsleIs
    <3>3. HopWay(L, cost, t)
      BY <1>3, <3>1, <3>2 DEF HopWay
    <3>. QED BY <3>3 DEF Way
  <2>. QED BY <2>1, <2>2 DEF Way
<1>4. CASE ChunkOf(t) # ChunkOf(u)
  <2>1. <<u, t>> \in Crossings
    BY <1>4 DEF Joins
  <2>2. PICK p \in Portal : <<u, t>> \in {<<x, Ahead(x, p.next)>> : x \in p.tiles}
    BY <2>1, MapIs, Mirrored DEF Crossings
  <2>3. u \in p.tiles /\ t = Ahead(u, p.next)
    BY <2>2
  <2> DEFINE q == Connected[p]
             h == Hop(p, L[u])
  <2>4. q \in Portal /\ q.chunk = p.next /\ t \in q.tiles
    BY <2>3, Mirrored
  <2>5. ChunkOf(t) = q.chunk
    BY <2>4, PortalTiles, TilesAre
  <2>6. h \in DOMAIN cost
    BY <2>3, HopCounted
  <2>7. h \in Hops /\ h.port = p /\ h.iid = L[u]
    BY <2>6 DEF Counted, Hop
  <2>8. Across(L, h, Hop(q, L[t]))
    BY <1>1, <2>3, <2>7 DEF Across
  <2> HIDE DEF h, q
  <2>9. Hop(q, L[t]) \in DOMAIN cost
    <3>1. Hop(q, L[t]) \in NeighboursPortalGraph(L, h)
      BY <2>7, <2>8, NeighboursAre
    <3>. QED BY <2>6, <3>1 DEF CountedFrom
  <2>10. HopWay(L, cost, t)
    BY <1>1, <2>4, <2>5, <2>9 DEF HopWay
  <2>. QED BY <2>10 DEF Way
<1>. QED BY <1>3, <1>4

\* A way over free tiles is found.
LEMMA WayFound ==
  ASSUME MapKept, NEW L, Current(L), LinksAt(active, L, blockers, {}),
         NEW s \in Passable, NEW d \in Passable, Joined(s, d),
         NEW cost, Counted(L, cost), CountedFrom(L, s, cost)
  PROVE  s \notin Blocked /\ d \notin Blocked /\ d \in Region[s] /\ Way(L, cost, s, d)
<1> DEFINE C == {t \in Passable \ Blocked : t \in Region[s] /\ Way(L, cost, s, t)}
<1>1. Passable \in SUBSET Place /\ IsFiniteSet(Passable)
  BY PassableAre
<1>2. s \notin Blocked
  <2>1. CASE s \in Blocked
    <3>1. {s} \intersect (Passable \ Blocked) \subseteq {}
      BY <2>1
    <3>. QED BY <1>1, <3>1, JoinedIn
  <2>. QED BY <2>1
<1>3. Region[s] = IslandOf(Passable, s)
  BY DEF Region
<1>4. s \in Region[s] /\ \A u \in Region[s] : Beside(u) \intersect Passable \subseteq Region[s]
  BY <1>1, <1>3, IslandIs
<1>5. s \in C
  <2>1. s \in IslandOf(Free(ChunkOf(s)), s)
    BY <1>2, FreeIsle
  <2>. QED BY <1>2, <1>4, <2>1 DEF Way, OwnWay
<1>6. ASSUME NEW u \in C, NEW t \in Passable \ Blocked, Joins(u, t) PROVE t \in C
  <2>1. t \in Beside(u)
    BY <1>1, <1>6, Near DEF Joins
  <2>2. t \in Region[s]
    BY <1>4, <2>1
  <2>3. Way(L, cost, s, t)
    BY <1>2, <1>6, WayGoesOn
  <2>. QED BY <2>2, <2>3
<1>7. d \in C
  <2> HIDE DEF C
  <2>. QED BY <1>1, <1>5, <1>6, JoinedIn
<1>. QED BY <1>2, <1>7

LEMMA NotRefused ==
  ASSUME MapKept, NEW L, Current(L), LinksAt(active, L, blockers, {}),
         NEW s \in Passable, NEW d \in Passable, Joined(s, d), NEW c
  PROVE  Requested(L, c, s, d).ok
<1> DEFINE made == DestField(L, c, d)
           cost == HopsFrom(L, s)
           port == ClosestPortal(L, d)
           r == Requested(L, c, s, d)
<1>1. Counted(L, cost) /\ CountedFrom(L, s, cost)
  BY HopsAreCounted
<1>2. /\ s \in Passable \ Blocked /\ d \in Passable \ Blocked /\ d \in map.region[s]
      /\ Way(L, cost, s, d)
  <2> HIDE DEF cost
  <2>. QED BY <1>1, WayFound, MapIs
<1>3. \/ Stays(L, s, d) /\ r = Reply(made, TRUE)
      \/ ~Stays(L, s, d) /\ port # None /\ r = Routed(L, made, cost, s, d, port)
      \/ ~Stays(L, s, d) /\ port = None
  BY <1>2, RequestedIs
<1>4. \A e : Reply(e, TRUE).ok = TRUE
  BY DEF Reply
<1>5. ASSUME NEW e, NEW a, NEW g, NEW p PROVE Follow(L, e, a, s, g, d, p).ok = TRUE
  <2> DEFINE path == PortalGraphPath(L, a, LastHop(L, g, p))
             w == PathFields(L, e, path, s, g, d, p)
  <2>1. Follow(L, e, a, s, g, d, p) = [ok |-> TRUE, fc |-> w.fc, sound |-> w.sound]
    BY DEF Follow, Of
  <2> HIDE DEF w
  <2>. QED BY <2>1
<1> HIDE DEF made, cost, port, r
<1>6. CASE OwnWay(s, d)
  <2>1. ChunkOf(s) = ChunkOf(d) /\ L[d] = L[s]
    BY <1>2, <1>6, FreeIsle, IsleIs DEF OwnWay
  <2>2. Stays(L, s, d)
    BY <1>2, <2>1, FreeIsle DEF Stays
  <2>3. r.ok
    BY <1>3, <1>4, <2>2
  <2>. QED BY <2>3 DEF r
<1>7. CASE HopWay(L, cost, d)
  <2>0. PICK p \in Portal : \E u \in p.tiles :
          /\ u \in Free(p.chunk) /\ ChunkOf(d) = p.chunk /\ d \in IslandOf(Free(p.chunk), u)
          /\ Hop(p, L[u]) \in DOMAIN cost
    BY <1>7 DEF HopWay
  <2>1. PICK u \in p.tiles :
          /\ u \in Free(p.chunk) /\ ChunkOf(d) = p.chunk /\ d \in IslandOf(Free(p.chunk), u)
          /\ Hop(p, L[u]) \in DOMAIN cost
    BY <2>0
  <2>2. d \in DOMAIN map.travel[p]
    BY <2>1, IsleTravelled
  <2>3. port # None
    BY <2>1, <2>2, ClosestPortalIs DEF port
  <2>4. PICK other : other = ClosestReachableFromLocation(L, cost, d)
    OBVIOUS
  <2>5. ChunkOf(s) # ChunkOf(d) => other[1] # None
    <3> SUFFICES ASSUME ChunkOf(s) # ChunkOf(d) PROVE other[1] # None
      OBVIOUS
    <3>1. u \in Passable \ Blocked
      BY <2>1, PortalTiles, FreeIs
    <3>2. LastHop(L, u, p) = Hop(p, L[u])
      BY <3>1, FreeIsle DEF LastHop
    <3>3. cost[Hop(p, L[u])] # 0
      <4>1. ASSUME Hop(p, L[u]) \in FirstHops(L, s) PROVE p.chunk = ChunkOf(s)
        <5>1. PICK q \in map.portals[ChunkOf(s)] :
                Hop(p, L[u]) = Hop(q, ClosestPathableLocalIsland(L, s))
          BY <4>1 DEF FirstHops
        <5>2. p = q
          BY <5>1 DEF Hop
        <5>. QED BY <5>1, <5>2, PassableAre, MapIs DEF PortalsOf
      <4>. QED BY <1>1, <2>1, <4>1 DEF CountedFrom
    <3>4. cost[Hop(p, L[u])] \in Nat
      BY <1>1, <2>1 DEF Counted
    <3>5. Found(cost, LastHop(L, u, p))
      BY <2>1, <3>2, <3>3, <3>4 DEF Found
    <3>. QED BY <1>1, <2>1, <2>4, <3>5, ClosestReachableIs
  <2>6. Route(Routed(L, made, cost, s, d, port), L, made, cost, s, d, port, other)
    BY <2>4, RoutedIs
  <2>7. Routed(L, made, cost, s, d, port).ok
    <3> DEFINE R == Routed(L, made, cost, s, d, port)
    <3>1. \/ \E g, p1 : R = Follow(L, made, cost, s, g, d, p1)
          \/ R = Reply(made, TRUE)
          \/ other[1] = None /\ R = Reply(made, ChunkOf(s) = ChunkOf(d))
      <4> HIDE DEF R
      <4>. QED BY <2>6 DEF Route, R
    <3>2. CASE other[1] = None /\ R = Reply(made, ChunkOf(s) = ChunkOf(d))
      <4>1. (ChunkOf(s) = ChunkOf(d)) = TRUE
        BY <2>5, <3>2
      <4> HIDE DEF R
      <4>2. R = Reply(made, TRUE)
        BY <3>2, <4>1
      <4>3. R.ok
        BY <1>4, <4>2
      <4>. QED BY <4>3 DEF R
    <3> HIDE DEF R
    <3>3. R.ok
      BY <1>4, <1>5, <3>1, <3>2 DEF R
    <3>. QED BY <3>3 DEF R
  <2>8. r.ok
    BY <1>3, <1>4, <2>3, <2>7
  <2>. QED BY <2>8 DEF r
<1>. QED BY <1>2, <1>6, <1>7 DEF Way
-----------------------------------------------------------------------------
(* What is answered in every state. *)

LEMMA NavSound ==
  ASSUME NavIInv
  PROVE  Served
<1>1. /\ MapKept /\ CacheOK(fc) /\ Current(UpdateLocalIslands)
      /\ \A s \in Sources : s \in Passable
  BY ExactCurrent, PassableAre DEF NavIInv, CacheOK
<1>2. \A s \in Sources, d \in Dests : Sought(s, d).sound = TRUE
  BY <1>1, SoughtSound
<1>3. \A s \in Sources, d \in Dests :
        LookedUp(UpdateLocalIslands, s, d) => Requested(UpdateLocalIslands, fc, s, d).sound = TRUE
  BY <1>1, RequestedInRow
<1>4. RefusalsTrue
  <2> SUFFICES ASSUME dirty = {}, NEW s \in Sources, NEW d \in Dests, Joined(s, d)
               PROVE  Requested(liid, fc, s, d).ok
    BY DEF RefusalsTrue
  <2>1. Current(liid)
    <3>1. \A k \in Chunk : \A t \in TilesOf[k] : liid[t] = LocalIslands(k)[t]
      BY <1>1, NumberedIs DEF NavIInv, IslesAt
    <3>. QED BY <3>1 DEF Current, NavIInv
  <2>2. LinksAt(active, liid, blockers, {})
    BY DEF NavIInv
  <2>3. s \in Passable /\ d \in Passable
    BY PassableAre
  <2>. QED BY <1>1, <2>1, <2>2, <2>3, NotRefused
<1>. QED BY <1>2, <1>3, <1>4 DEF Served, FieldThere, SightsInRow

\* Requests are served (Served).  Whoever is told that there is a way is steered by
\* a field that is in the cache: the assertion of N_DesiredPointSeekVelocity never
\* fails, whatever the caches have lost and whichever blockers have changed since.
\* The lines of sight of a path are made in a row of neighbouring chunks, each from
\* one that is there: the assertions of n_request_path never fail, if the
\* destination's island has, looked up in the chunk of the source, the number that
\* it has in its own.  When nothing is known to be out of date, no request is
\* refused for a way that is there: wherever steps over free tiles lead, across the
\* borders at the portals, the search through the portals leads too.
THEOREM ServedHolds == NavSpec => []Served
<1>1. NavIInv => Served
  BY NavSound
<1>. QED BY <1>1, NavInvariance, PTL
=============================================================================
