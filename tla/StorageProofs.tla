---------------------------- MODULE StorageProofs ----------------------------
(* Proofs about storage sites and buildings, for any number of entities,     *)
(* resources, factions and grounds: IInv (Storage) is inductive if no script *)
(* changes a capacity that is in use.                                        *)
EXTENDS Storage, FiniteSetTheorems, WellFoundedInduction, TLAPS
-----------------------------------------------------------------------------
(* Induction over numbers and finite sets, and what follows of it for the    *)
(* folds and sums of Storage.  The sets G and V and the function st stand    *)
(* for what would be a predicate, a type and an operator: each lemma is      *)
(* about values only, and so fits every property, fold and sum.              *)

\* A set that holds 0, and the successor of every number it holds, holds them all.
LEMMA NatSetInduction ==
  ASSUME NEW G, 0 \in G, \A n \in Nat : n \in G => n + 1 \in G
  PROVE  \A n \in Nat : n \in G
<1> DEFINE R == OpToRel(<, Nat)
           T == Nat \ G
<1>1. IsWellFoundedOn(R, Nat)
  BY NatLessThanWellFounded
<1>2. SUFFICES ASSUME T # {} PROVE FALSE
  OBVIOUS
<1>3. PICK x \in T : \A y \in T : ~ (<<y, x>> \in R)
  <2> HIDE DEF R
  <2>. QED BY <1>1, <1>2, WFMin
<1>4. x # 0 /\ x - 1 \in Nat
  BY SMT
<1>5. <<x - 1, x>> \in R
  BY <1>4 DEF OpToRel
<1>6. x - 1 \in G
  <2> HIDE DEF R
  <2>. QED BY <1>3, <1>4, <1>5
<1>. QED BY <1>4, <1>6

\* A set of sets that holds every set of which it holds all that are one element
\* less, and so the empty one, holds all subsets of a finite set.
LEMMA SetInduction ==
  ASSUME NEW S, IsFiniteSet(S), NEW G,
         \A T \in SUBSET S : (\A x \in T : T \ {x} \in G) => T \in G
  PROVE  \A T \in SUBSET S : T \in G
<1> DEFINE N == {n \in Nat : \A T \in SUBSET S : Cardinality(T) = n => T \in G}
<1>1. \A T \in SUBSET S : IsFiniteSet(T) /\ Cardinality(T) \in Nat
  BY FS_Subset, FS_CardinalityType
<1>2. 0 \in N
  BY <1>1, FS_EmptySet
<1>3. ASSUME NEW n \in Nat, n \in N PROVE n + 1 \in N
  <2> SUFFICES ASSUME NEW T \in SUBSET S, Cardinality(T) = n + 1 PROVE T \in G
    OBVIOUS
  <2>1. ASSUME NEW x \in T PROVE Cardinality(T \ {x}) = n
    BY <1>1, FS_RemoveElement
  <2>. QED BY <1>3, <2>1
<1>4. \A n \in Nat : n \in N
  <2> HIDE DEF N
  <2>. QED BY <1>2, <1>3, NatSetInduction
<1>. QED BY <1>1, <1>4
-----------------------------------------------------------------------------
(* Folds *)

\* A fold over S that starts at b, chooses elements by ch and steps by st.
Folds(S, ch, V, b, st) ==
  /\ IsFiniteSet(S) /\ b \in V /\ st \in [S \X V -> V]
  /\ \A T \in SUBSET S : T # {} => ch[T] \in T

\* g is its value, for each subset of S.
FoldedBy(g, S, ch, V, b, st) ==
  /\ g \in [SUBSET S -> V]
  /\ g[{}] = b
  /\ \A T \in SUBSET S :
       T # {} => g[T] = st[<<ch[T], g[T \ {ch[T]}]>>] /\ ch[T] \in T /\ g[T \ {ch[T]}] \in V

\* A fold over a finite set is defined: there is a function that takes, of every
\* subset, the element chosen, and steps with it from the value of the others.
LEMMA FoldExists ==
  ASSUME NEW S, NEW ch, NEW V, NEW b, NEW st, Folds(S, ch, V, b, st)
  PROVE  \E g : FoldedBy(g, S, ch, V, b, st)
<1> USE DEF Folds
<1> DEFINE Val(g, T) == IF T = {} THEN b ELSE st[<<ch[T], g[T \ {ch[T]}]>>]
           F == [SUBSET S -> V]
           Good(g, n) == \A T \in SUBSET S : Cardinality(T) <= n => g[T] = Val(g, T)
           N == {n \in Nat : \E g \in F : Good(g, n)}
           base == [T \in SUBSET S |-> b]
<1>1. \A T \in SUBSET S : IsFiniteSet(T) /\ Cardinality(T) \in Nat
                          /\ (T # {} => Cardinality(T \ {ch[T]}) = Cardinality(T) - 1)
  BY FS_Subset, FS_CardinalityType, FS_RemoveElement
<1>2. 0 \in N
  <2>1. ASSUME NEW T \in SUBSET S, Cardinality(T) <= 0 PROVE T = {}
    <3>1. Cardinality(T) \in Nat /\ IsFiniteSet(T)
      BY <1>1
    <3>2. Cardinality(T) = 0
      BY <2>1, <3>1
    <3>. QED BY <3>1, <3>2, FS_EmptySet
  <2>2. base \in F
    OBVIOUS
  <2>3. Good(base, 0)
    BY <2>1
  <2> HIDE DEF Good, F, base
  <2>. QED BY <2>2, <2>3
<1>3. ASSUME NEW n \in Nat, n \in N PROVE n + 1 \in N
  <2>1. PICK g \in F : Good(g, n)
    BY <1>3
  <2> DEFINE h == [T \in SUBSET S |-> Val(g, T)]
  <2>2. h \in F
    <3>1. ASSUME NEW T \in SUBSET S PROVE Val(g, T) \in V
      <4>1. T # {} => <<ch[T], g[T \ {ch[T]}]>> \in S \X V
        OBVIOUS
      <4>. QED BY <4>1
    <3>. QED BY <3>1
  <2>3. ASSUME NEW T \in SUBSET S, Cardinality(T) <= n + 1 PROVE h[T] = Val(h, T)
    <3>1. CASE T = {}
      BY <3>1
    <3>2. CASE T # {}
      <4> DEFINE U == T \ {ch[T]}
      <4>1. U \in SUBSET S /\ Cardinality(U) <= n
        <5>1. U \in SUBSET S /\ Cardinality(U) = Cardinality(T) - 1
          BY <1>1, <3>2
        <5>2. Cardinality(T) \in Nat
          BY <1>1
        <5> HIDE DEF U
        <5>. QED BY <2>3, <5>1, <5>2
      <4>2. h[U] = g[U]
        BY <2>1, <4>1
      <4>. QED BY <3>2, <4>2
    <3>. QED BY <3>1, <3>2
  <2> HIDE DEF h, Val
  <2>4. Good(h, n + 1)
    BY <2>3
  <2> HIDE DEF Good, F
  <2>. QED BY <2>2, <2>4
<1>4. \A n \in Nat : n \in N
  <2> HIDE DEF N
  <2>. QED BY <1>2, <1>3, NatSetInduction
<1>5. PICK g \in F : Good(g, Cardinality(S))
  BY <1>1, <1>4
<1>6. \A T \in SUBSET S : Cardinality(T) <= Cardinality(S)
  BY FS_Subset
<1>. QED BY <1>5, <1>6 DEF FoldedBy
-----------------------------------------------------------------------------
(* Sums *)

\* What a sum of numbers is: nothing of none, and that of the others and one more.
\* The order in which the numbers are added does not matter.
LEMMA SumOver ==
  ASSUME NEW S, IsFiniteSet(S), NEW f \in [S -> Int]
  PROVE  \E g \in [SUBSET S -> Int] :
           /\ g[{}] = 0
           /\ \A T \in SUBSET S : \A x \in T : g[T] = f[x] + g[T \ {x}]
           /\ SumFunction(f) = g[S]
<1> DEFINE ch == [T \in SUBSET S |-> CHOOSE x \in T : TRUE]
           st == [p \in S \X Int |-> f[p[1]] + p[2]]
           Rec(g) == g = [T \in SUBSET S |->
                            IF T = {} THEN 0
                            ELSE LET x == CHOOSE x \in T : TRUE IN f[x] + g[T \ {x}]]
           sum == CHOOSE g : Rec(g)
           V == Int
<1>1. SumFunction(f) = sum[S]
  BY DEF SumFunction, SumFunctionOnSet, FoldFunctionOnSet, MapThenFoldSet
<1>2. \A T \in SUBSET S : T # {} => (CHOOSE x \in T : TRUE) \in T
  OBVIOUS
<1>3. Rec(sum)
  <2>1. st \in [S \X V -> V]
    OBVIOUS
  <2>2. \A x \in S, v \in V : st[<<x, v>>] = f[x] + v
    OBVIOUS
  <2>3. \A T \in SUBSET S : T # {} => ch[T] \in T
    BY <1>2
  <2>4. \A T \in SUBSET S : ch[T] = CHOOSE x \in T : TRUE
    OBVIOUS
  <2>5. PICK b \in V : b = 0
    OBVIOUS
  <2> HIDE DEF st, ch, V
  <2>6. PICK g : FoldedBy(g, S, ch, V, b, st)
    BY <2>1, <2>3, FoldExists DEF Folds
  <2>7. Rec(g)
    <3>1. ASSUME NEW T \in SUBSET S, T # {}
          PROVE  g[T] = LET x == CHOOSE x \in T : TRUE IN f[x] + g[T \ {x}]
      <4>1. g[T] = st[<<ch[T], g[T \ {ch[T]}]>>] /\ ch[T] \in S /\ g[T \ {ch[T]}] \in V
        BY <2>6, <3>1 DEF FoldedBy
      <4>2. g[T] = f[ch[T]] + g[T \ {ch[T]}]
        BY <2>2, <4>1
      <4>. QED BY <2>4, <4>2
    <3>2. g[{}] = 0 /\ DOMAIN g = SUBSET S
      BY <2>5, <2>6 DEF FoldedBy
    <3>. QED BY <2>6, <3>1, <3>2 DEF FoldedBy
  <2>. QED BY <2>7
<1> HIDE DEF sum
<1>4. /\ DOMAIN sum = SUBSET S /\ sum[{}] = 0
      /\ \A T \in SUBSET S : T # {} => \E c \in T : sum[T] = f[c] + sum[T \ {c}]
  BY <1>2, <1>3
<1> DEFINE I == {T \in SUBSET S : sum[T] \in Int}
           G == {T \in SUBSET S : \A x \in T : sum[T] = f[x] + sum[T \ {x}]}
<1>5. \A T \in SUBSET S : T \in I
  <2>1. ASSUME NEW T \in SUBSET S, \A x \in T : T \ {x} \in I PROVE T \in I
    <3>1. CASE T = {}
      BY <1>4, <3>1
    <3>2. CASE T # {}
      <4>1. PICK c \in T : sum[T] = f[c] + sum[T \ {c}]
        BY <1>4, <3>2
      <4>. QED BY <2>1, <4>1
    <3>. QED BY <3>1, <3>2
  <2> HIDE DEF I
  <2>. QED BY <2>1, SetInduction
<1>6. ASSUME NEW T \in SUBSET S, \A x \in T : T \ {x} \in G PROVE T \in G
  <2>1. CASE T = {}
    BY <1>4, <2>1
  <2>2. CASE T # {}
    <3>1. PICK c \in T : sum[T] = f[c] + sum[T \ {c}]
      BY <1>4, <2>2
    <3>2. ASSUME NEW x \in T, x # c PROVE sum[T] = f[x] + sum[T \ {x}]
      <4> DEFINE rest == sum[(T \ {x}) \ {c}]
      <4>1. sum[T \ {c}] = f[x] + rest
        <5>1. (T \ {c}) \ {x} = (T \ {x}) \ {c}
          OBVIOUS
        <5>2. sum[T \ {c}] = f[x] + sum[(T \ {c}) \ {x}]
          BY <1>6, <3>2
        <5>. QED BY <5>1, <5>2
      <4>2. sum[T \ {x}] = f[c] + rest
        BY <1>6, <3>2
      <4>3. rest \in Int /\ f[x] \in Int /\ f[c] \in Int
        BY <1>5
      <4> HIDE DEF rest
      <4>. QED BY <3>1, <4>1, <4>2, <4>3
    <3>. QED BY <3>1, <3>2
  <2>. QED BY <2>1, <2>2
<1>7. \A T \in SUBSET S : T \in G
  <2> HIDE DEF G
  <2>. QED BY <1>6, SetInduction
<1>8. sum \in [SUBSET S -> Int]
  <2>1. \A T \in SUBSET S : sum[T] \in Int
    BY <1>5
  <2>. QED BY <1>3, <2>1
<1>. QED BY <1>1, <1>4, <1>7, <1>8

\* A sum is a number; it is nothing of none, and one term and the sum of the others.
LEMMA SumTakeOut ==
  ASSUME NEW S, IsFiniteSet(S), NEW f \in [S -> Int]
  PROVE  /\ SumFunction(f) \in Int
         /\ S = {} => SumFunction(f) = 0
         /\ \A x \in S : /\ SumFunction([y \in S \ {x} |-> f[y]]) \in Int
                        /\ SumFunction(f) = f[x] + SumFunction([y \in S \ {x} |-> f[y]])
<1>1. PICK g \in [SUBSET S -> Int] :
        /\ g[{}] = 0
        /\ \A T \in SUBSET S : \A x \in T : g[T] = f[x] + g[T \ {x}]
        /\ SumFunction(f) = g[S]
  BY SumOver
<1>2. ASSUME NEW x \in S
      PROVE  SumFunction([y \in S \ {x} |-> f[y]]) = g[S \ {x}]
  <2> DEFINE U == S \ {x}
             d == [y \in U |-> f[y]]
  <2>1. IsFiniteSet(U) /\ d \in [U -> Int]
    BY FS_Subset
  <2>2. PICK h \in [SUBSET U -> Int] :
          /\ h[{}] = 0
          /\ \A T \in SUBSET U : \A y \in T : h[T] = d[y] + h[T \ {y}]
          /\ SumFunction(d) = h[U]
    <3> HIDE DEF d, U
    <3>. QED BY <2>1, SumOver
  <2> DEFINE G == {T \in SUBSET U : h[T] = g[T]}
  <2>3. ASSUME NEW T \in SUBSET U, \A y \in T : T \ {y} \in G PROVE T \in G
    <3>1. CASE T = {}
      BY <1>1, <2>2, <3>1
    <3>2. CASE T # {}
      <4>1. PICK y \in T : TRUE
        BY <3>2
      <4>2. T \in SUBSET S /\ d[y] = f[y]
        OBVIOUS
      <4>3. g[T] = f[y] + g[T \ {y}]
        BY <1>1, <4>2
      <4>4. h[T] = d[y] + h[T \ {y}] /\ h[T \ {y}] = g[T \ {y}]
        BY <2>2, <2>3
      <4>. QED BY <4>2, <4>3, <4>4
    <3>. QED BY <3>1, <3>2
  <2>4. \A T \in SUBSET U : T \in G
    <3> HIDE DEF G, U
    <3>. QED BY <2>1, <2>3, SetInduction
  <2>. QED BY <2>2, <2>4
<1>. QED BY <1>1, <1>2

\* Of two sums over the same terms but one, the rest is the same.
LEMMA SumApart ==
  ASSUME NEW S, IsFiniteSet(S), NEW f \in [S -> Int],
         NEW U, IsFiniteSet(U), NEW h \in [U -> Int],
         NEW x, S \ {x} = U \ {x}, \A y \in S \ {x} : f[y] = h[y]
  PROVE  /\ SumFunction(f) \in Int /\ SumFunction(h) \in Int
         /\ SumFunction(f) - (IF x \in S THEN f[x] ELSE 0)
              = SumFunction(h) - (IF x \in U THEN h[x] ELSE 0)
<1> DEFINE rest == [y \in S \ {x} |-> f[y]]
<1>1. SumFunction(f) \in Int /\ SumFunction(h) \in Int
  BY SumTakeOut
<1>2. IsFiniteSet(S \ {x}) /\ rest \in [S \ {x} -> Int] /\ SumFunction(rest) \in Int
  <2>1. IsFiniteSet(S \ {x}) /\ rest \in [S \ {x} -> Int]
    BY FS_Subset
  <2> HIDE DEF rest
  <2>. QED BY <2>1, SumTakeOut
<1>3. SumFunction(f) - (IF x \in S THEN f[x] ELSE 0) = SumFunction(rest)
  <2>1. CASE x \in S
    BY <1>1, <1>2, <2>1, SumTakeOut
  <2>2. CASE x \notin S
    <3>1. S \ {x} = S
      BY <2>2
    <3>2. rest = f
      BY <3>1
    <3>. QED BY <1>1, <2>2, <3>2
  <2>. QED BY <2>1, <2>2
<1>4. SumFunction(h) - (IF x \in U THEN h[x] ELSE 0) = SumFunction(rest)
  <2>1. rest = [y \in U \ {x} |-> h[y]]
    OBVIOUS
  <2>2. CASE x \in U
    <3>1. SumFunction(h) = h[x] + SumFunction([y \in U \ {x} |-> h[y]])
      BY <2>2, SumTakeOut
    <3> HIDE DEF rest
    <3>. QED BY <1>1, <1>2, <2>1, <2>2, <3>1
  <2>3. CASE x \notin U
    <3>1. U \ {x} = U
      BY <2>3
    <3>2. rest = h
      BY <2>1, <3>1
    <3>. QED BY <1>1, <2>3, <3>2
  <2>. QED BY <2>2, <2>3
<1>. QED BY <1>1, <1>3, <1>4

\* Of two sets with the same elements but one, the rest counts the same.
LEMMA CountApart ==
  ASSUME NEW S, IsFiniteSet(S), NEW U, IsFiniteSet(U), NEW x, S \ {x} = U \ {x}
  PROVE  /\ Cardinality(S) \in Nat /\ Cardinality(U) \in Nat
         /\ Cardinality(S) - (IF x \in S THEN 1 ELSE 0)
              = Cardinality(U) - (IF x \in U THEN 1 ELSE 0)
<1>1. Cardinality(S) \in Nat /\ Cardinality(U) \in Nat
  BY FS_CardinalityType
<1>2. Cardinality(S \ {x}) = Cardinality(S) - (IF x \in S THEN 1 ELSE 0)
  <2>1. CASE x \in S
    BY <2>1, FS_RemoveElement
  <2>2. CASE x \notin S
    <3>1. Cardinality(S \ {x}) = Cardinality(S)
      <4>1. S \ {x} = S
        BY <2>2
      <4>. QED BY <4>1
    <3>. QED BY <1>1, <2>2, <3>1
  <2>. QED BY <2>1, <2>2
<1>3. Cardinality(U \ {x}) = Cardinality(U) - (IF x \in U THEN 1 ELSE 0)
  <2>1. CASE x \in U
    BY <2>1, FS_RemoveElement
  <2>2. CASE x \notin U
    <3>1. Cardinality(U \ {x}) = Cardinality(U)
      <4>1. U \ {x} = U
        BY <2>2
      <4>. QED BY <4>1
    <3>. QED BY <1>1, <2>2, <3>1
  <2>. QED BY <2>1, <2>2
<1>. QED BY <1>1, <1>2, <1>3
-----------------------------------------------------------------------------
(* Folds that keep a property *)

\* good[T] are the values a fold over S may have when it has come to the subset T:
\* b with none, and a step with one element more leads from one to the next.
Leads(S, V, good, b, st) ==
  /\ IsFiniteSet(S) /\ DOMAIN st = S \X V
  /\ \A T \in SUBSET S : good[T] \subseteq V
  /\ b \in good[{}]
  /\ \A T \in SUBSET S : \A x \in T : \A v \in good[T \ {x}] : st[<<x, v>>] \in good[T]

\* g is the fold that takes the elements that ch chooses.
Follows(g, S, V, ch, b, st) ==
  /\ g = [T \in SUBSET S |-> g[T]]
  /\ g[{}] = b
  /\ \A T \in SUBSET S :
       T # {} => g[T] = st[<<ch[T], g[T \ {ch[T]}]>>] /\ ch[T] \in T /\ g[T \ {ch[T]}] \in V

\* Such a fold is defined.
LEMMA FoldWithin ==
  ASSUME NEW S, NEW V, NEW good, NEW b, NEW st, Leads(S, V, good, b, st),
         NEW ch, \A T \in SUBSET S : T # {} => ch[T] \in T
  PROVE  \E g : Follows(g, S, V, ch, b, st)
<1> USE DEF Leads
<1> DEFINE safe == [p \in S \X V |-> IF st[p] \in V THEN st[p] ELSE b]
<1>1. b \in V /\ safe \in [S \X V -> V]
  OBVIOUS
<1>2. \A x \in S, v \in V : st[<<x, v>>] \in V => safe[<<x, v>>] = st[<<x, v>>]
  OBVIOUS
<1> HIDE DEF safe
<1>3. PICK g : FoldedBy(g, S, ch, V, b, safe)
  BY <1>1, FoldExists DEF Folds
<1>4. \A T \in SUBSET S :
        T # {} => g[T] = safe[<<ch[T], g[T \ {ch[T]}]>>] /\ ch[T] \in T /\ g[T \ {ch[T]}] \in V
  BY <1>3 DEF FoldedBy
<1> DEFINE G == {T \in SUBSET S : g[T] \in good[T]}
<1>5. ASSUME NEW T \in SUBSET S, T # {}, T \ {ch[T]} \in G
      PROVE  g[T] = st[<<ch[T], g[T \ {ch[T]}]>>] /\ T \in G
  <2>1. ch[T] \in T /\ g[T \ {ch[T]}] \in V /\ g[T \ {ch[T]}] \in good[T \ {ch[T]}]
    BY <1>4, <1>5
  <2>2. st[<<ch[T], g[T \ {ch[T]}]>>] \in good[T]
    BY <2>1
  <2>3. st[<<ch[T], g[T \ {ch[T]}]>>] \in V
    BY <2>2
  <2>4. g[T] = safe[<<ch[T], g[T \ {ch[T]}]>>]
    BY <1>4, <1>5
  <2>5. g[T] = st[<<ch[T], g[T \ {ch[T]}]>>]
    BY <1>2, <2>1, <2>3, <2>4
  <2>. QED BY <2>2, <2>5
<1>6. \A T \in SUBSET S : T \in G
  <2>1. ASSUME NEW T \in SUBSET S, \A x \in T : T \ {x} \in G PROVE T \in G
    <3>1. CASE T = {}
      BY <1>3, <3>1 DEF FoldedBy
    <3>2. CASE T # {}
      BY <1>4, <1>5, <2>1, <3>2
    <3>. QED BY <3>1, <3>2
  <2> HIDE DEF G
  <2>. QED BY <2>1, SetInduction
<1>7. \A T \in SUBSET S : T # {} => g[T] = st[<<ch[T], g[T \ {ch[T]}]>>]
  BY <1>4, <1>5, <1>6
<1>8. g = [T \in SUBSET S |-> g[T]] /\ g[{}] = b
  BY <1>3 DEF FoldedBy
<1>. QED BY <1>4, <1>7, <1>8 DEF Follows

\* it steps from value to value, in whatever order.
Runs(it, S, V, b, st) ==
  /\ it[{}] = b
  /\ \A T \in SUBSET S : T # {} =>
       \E c \in T : it[T \ {c}] \in V => it[T] = st[<<c, it[T \ {c}]>>]

\* It ends with a value that is good for all of S.
LEMMA FoldLands ==
  ASSUME NEW S, NEW V, NEW good, NEW b, NEW st, Leads(S, V, good, b, st),
         NEW it, Runs(it, S, V, b, st)
  PROVE  it[S] \in good[S]
<1> USE DEF Leads, Runs
<1> DEFINE G == {T \in SUBSET S : it[T] \in good[T]}
<1>1. ASSUME NEW T \in SUBSET S, \A x \in T : T \ {x} \in G PROVE T \in G
  <2>1. CASE T = {}
    BY <2>1
  <2>2. CASE T # {}
    <3>1. PICK c \in T : it[T \ {c}] \in V => it[T] = st[<<c, it[T \ {c}]>>]
      BY <2>2
    <3>2. it[T \ {c}] \in good[T \ {c}] /\ T \ {c} \in SUBSET S
      BY <1>1
    <3>. QED BY <3>1, <3>2
  <2>. QED BY <2>1, <2>2
<1>2. \A T \in SUBSET S : T \in G
  <2> HIDE DEF G
  <2>. QED BY <1>1, SetInduction
<1>. QED BY <1>2

\* What comes first, of every subset: what a fold takes out next.
Firsts(S) == [T \in SUBSET S |-> CHOOSE x \in T : TRUE]

LEMMA FirstsAre ==
  ASSUME NEW S
  PROVE  \A T \in SUBSET S : T # {} => Firsts(S)[T] \in T /\ Firsts(S)[T] = CHOOSE x \in T : TRUE
BY DEF Firsts

\* A recursion that has a solution, and follows it, ends with a good value.
LEMMA FoldReaches ==
  ASSUME NEW S, NEW V, NEW good, NEW b, NEW st, Leads(S, V, good, b, st),
         NEW it, \A k : Follows(k, S, V, Firsts(S), b, st) => Runs(it, S, V, b, st)
  PROVE  it[S] \in good[S]
<1>1. \A T \in SUBSET S : T # {} => Firsts(S)[T] \in T
  BY FirstsAre
<1>2. PICK k : Follows(k, S, V, Firsts(S), b, st)
  BY <1>1, FoldWithin
<1>3. Runs(it, S, V, b, st)
  BY <1>2
<1>. QED BY <1>3, FoldLands
-----------------------------------------------------------------------------
USE StorageAssumption
-----------------------------------------------------------------------------
(* The values a game has while one of the functions is under way *)

PartialOn(S, V) == UNION {[D -> V] : D \in SUBSET S}
Games ==
  [site : PartialOn(Entity, SiteRecord), build : PartialOn(Entity, BuildRecord),
   faction : PartialOn(Entity, Faction), res : [Faction -> Table], cap : [Faction -> Table],
   blockers : [Faction -> [Place -> Int]], pos : PartialOn(Entity, Place),
   listening : SUBSET Entity, changed : [Entity -> Nat]]

Shape(g) ==
  /\ IsGame(g)
  /\ DOMAIN g.site \subseteq Entity /\ g.site \in [DOMAIN g.site -> SiteRecord]
  /\ DOMAIN g.build \subseteq Entity /\ g.build \in [DOMAIN g.build -> BuildRecord]
  /\ DOMAIN g.faction \subseteq Entity /\ g.faction \in [DOMAIN g.faction -> Faction]
  /\ DOMAIN g.pos \subseteq Entity /\ g.pos \in [DOMAIN g.pos -> Place]
  /\ g.res \in [Faction -> Table] /\ g.cap \in [Faction -> Table]
  /\ g.blockers \in [Faction -> [Place -> Int]]
  /\ g.listening \subseteq Entity /\ g.changed \in [Entity -> Nat]

LEMMA Partial ==
  ASSUME NEW S, NEW V, NEW f
  PROVE  f \in PartialOn(S, V) <=> DOMAIN f \subseteq S /\ f \in [DOMAIN f -> V]
BY DEF PartialOn

LEMMA GamesHaveShape == \A g : g \in Games <=> Shape(g)
<1> TAKE g
<1>1. ASSUME g \in Games PROVE Shape(g)
  <2>1. IsGame(g)
    BY <1>1 DEF Games, IsGame, Fields
  <2>2. /\ g.site \in PartialOn(Entity, SiteRecord) /\ g.build \in PartialOn(Entity, BuildRecord)
        /\ g.faction \in PartialOn(Entity, Faction) /\ g.pos \in PartialOn(Entity, Place)
        /\ g.res \in [Faction -> Table] /\ g.cap \in [Faction -> Table]
        /\ g.blockers \in [Faction -> [Place -> Int]]
        /\ g.listening \subseteq Entity /\ g.changed \in [Entity -> Nat]
    BY <1>1 DEF Games
  <2>. QED BY <2>1, <2>2, Partial DEF Shape
<1>2. ASSUME Shape(g) PROVE g \in Games
  <2>1. /\ g.site \in PartialOn(Entity, SiteRecord) /\ g.build \in PartialOn(Entity, BuildRecord)
        /\ g.faction \in PartialOn(Entity, Faction) /\ g.pos \in PartialOn(Entity, Place)
    BY <1>2, Partial DEF Shape
  <2>2. /\ IsGame(g)
        /\ g.res \in [Faction -> Table] /\ g.cap \in [Faction -> Table]
        /\ g.blockers \in [Faction -> [Place -> Int]]
        /\ g.listening \subseteq Entity /\ g.changed \in [Entity -> Nat]
    BY <1>2 DEF Shape
  <2>. QED BY <2>1, <2>2 DEF Games, IsGame, Fields
<1>. QED BY <1>1, <1>2

LEMMA Tables ==
  /\ Zero \in Table /\ Zero \in [Resource -> Nat]
  /\ \A r \in Resource : Zero[r] = 0
  /\ \A s, t \in Table : /\ Plus(s, t) \in Table /\ Minus(s, t) \in Table
                         /\ \A r \in Resource : /\ Plus(s, t)[r] = s[r] + t[r]
                                                /\ Minus(s, t)[r] = s[r] - t[r]
  /\ \A r \in Resource, n \in Int :
       /\ Only(r, n) \in Table
       /\ \A q \in Resource : Only(r, n)[q] = IF q = r THEN n ELSE 0
  /\ \A t \in [Resource -> Nat] : t \in Table
BY DEF Zero, Table, Plus, Minus, Only

LEMMA SiteTables ==
  ASSUME NEW s \in SiteRecord
  PROVE  /\ s.capacity \in [Resource -> Nat] /\ s.curr \in [Resource -> Nat]
         /\ s.desired \in [Resource -> Nat] /\ s.altCapacity \in [Resource -> Nat]
         /\ s.altDesired \in [Resource -> Nat] /\ s.useAlt \in BOOLEAN
         /\ EffectiveCapacity(s) \in [Resource -> Nat]
         /\ EffectiveDesired(s) \in [Resource -> Nat]
         /\ s.capacity \in Table /\ s.curr \in Table /\ s.altCapacity \in Table
         /\ EffectiveCapacity(s) \in Table
BY Tables DEF SiteRecord, EffectiveCapacity, EffectiveDesired
-----------------------------------------------------------------------------
(* A step that is about one entity *)

\* What there is of an entity exists only with it.
Placed(g, e) ==
  /\ e \in DOMAIN g.pos <=> e \in DOMAIN g.faction
  /\ e \in DOMAIN g.build <=> e \in DOMAIN g.faction /\ e \in Buildings
  /\ e \in DOMAIN g.site => e \in DOMAIN g.faction
  /\ e \in g.listening => e \in DOMAIN g.build

\* All that is known of the other entities is as it was.
Apart(g, h, e) ==
  \A x \in Entity \ {e} :
    /\ x \in DOMAIN g.site <=> x \in DOMAIN h.site
    /\ x \in DOMAIN g.site => h.site[x] = g.site[x]
    /\ x \in DOMAIN g.build <=> x \in DOMAIN h.build
    /\ x \in DOMAIN g.build => h.build[x] = g.build[x]
    /\ x \in DOMAIN g.faction <=> x \in DOMAIN h.faction
    /\ x \in DOMAIN g.faction => h.faction[x] = g.faction[x]
    /\ x \in DOMAIN g.pos <=> x \in DOMAIN h.pos
    /\ x \in DOMAIN g.pos => h.pos[x] = g.pos[x]
    /\ x \in g.listening <=> x \in h.listening
    /\ h.changed[x] = g.changed[x]

\* What an entity adds to the totals of a faction, and to the blockers of a place.
CurrOf(g, e, f, r) == IF e \in SitesOf(g, f) THEN g.site[e].curr[r] ELSE 0
RoomOf(g, e, f, r) == IF e \in SitesOf(g, f) THEN EffectiveCapacity(g.site[e])[r] ELSE 0
BlockOf(g, e, f, p) == IF e \in Standing(g, f, p) THEN 1 ELSE 0

\* The totals change by what this entity adds to them, and no more.
ResKept(g, h, e) ==
  \A f \in Faction, r \in Resource :
    h.res[f][r] - CurrOf(h, e, f, r) = g.res[f][r] - CurrOf(g, e, f, r)
CapKept(g, h, e) ==
  \A f \in Faction, r \in Resource :
    h.cap[f][r] - RoomOf(h, e, f, r) = g.cap[f][r] - RoomOf(g, e, f, r)
BlockersKept(g, h, e) ==
  \A f \in Faction, p \in Place :
    h.blockers[f][p] - BlockOf(h, e, f, p) = g.blockers[f][p] - BlockOf(g, e, f, p)

LEMMA OthersPlaced ==
  ASSUME NEW g, NEW h, NEW e, Apart(g, h, e),
         \A x \in Entity : Placed(g, x), Placed(h, e)
  PROVE  \A x \in Entity : Placed(h, x)
BY DEF Apart, Placed

\* The sites of a faction are a finite set, and what they hold are numbers.
LEMMA SitesFinite ==
  ASSUME NEW g, Shape(g), NEW f
  PROVE  /\ SitesOf(g, f) \subseteq DOMAIN g.site /\ IsFiniteSet(SitesOf(g, f))
         /\ \A x \in SitesOf(g, f) : g.site[x] \in SiteRecord
<1>1. IsFiniteSet(Entity)
  BY FS_Union DEF Entity
<1>2. SitesOf(g, f) \subseteq DOMAIN g.site /\ DOMAIN g.site \subseteq Entity
  BY DEF SitesOf, Shape
<1>3. IsFiniteSet(SitesOf(g, f))
  BY <1>1, <1>2, FS_Subset
<1>. QED BY <1>2, <1>3 DEF Shape

\* Two games that differ in one entity have the same other sites.
LEMMA OtherSites ==
  ASSUME NEW g, Shape(g), NEW h, Shape(h), NEW e \in Entity, Apart(g, h, e),
         \A x \in Entity : Placed(g, x) /\ Placed(h, x), NEW f
  PROVE  /\ SitesOf(g, f) \ {e} = SitesOf(h, f) \ {e}
         /\ \A x \in SitesOf(g, f) \ {e} : h.site[x] = g.site[x]
<1>1. ASSUME NEW x \in Entity \ {e}
      PROVE  x \in SitesOf(g, f) <=> x \in SitesOf(h, f)
  BY <1>1 DEF Apart, Placed, SitesOf, Owner
<1>2. SitesOf(g, f) \subseteq Entity /\ SitesOf(h, f) \subseteq Entity
  BY DEF SitesOf, Shape
<1>3. \A x \in SitesOf(g, f) \ {e} : h.site[x] = g.site[x]
  BY <1>2 DEF Apart, SitesOf
<1>. QED BY <1>1, <1>2, <1>3

LEMMA StoredApart ==
  ASSUME NEW g, Shape(g), NEW h, Shape(h), NEW e \in Entity, Apart(g, h, e),
         \A x \in Entity : Placed(g, x) /\ Placed(h, x),
         NEW f \in Faction, NEW r \in Resource
  PROVE  /\ StoredBy(g, f, r) \in Int /\ StoredBy(h, f, r) \in Int
         /\ CurrOf(g, e, f, r) \in Int /\ CurrOf(h, e, f, r) \in Int
         /\ StoredBy(h, f, r) - CurrOf(h, e, f, r) = StoredBy(g, f, r) - CurrOf(g, e, f, r)
<1> DEFINE F == [x \in SitesOf(g, f) |-> g.site[x].curr[r]]
           H == [x \in SitesOf(h, f) |-> h.site[x].curr[r]]
<1>1. IsFiniteSet(SitesOf(g, f)) /\ IsFiniteSet(SitesOf(h, f))
  BY SitesFinite
<1>2. F \in [SitesOf(g, f) -> Int] /\ H \in [SitesOf(h, f) -> Int]
  BY SitesFinite, SiteTables
<1>3. /\ SitesOf(g, f) \ {e} = SitesOf(h, f) \ {e}
      /\ \A x \in SitesOf(g, f) \ {e} : F[x] = H[x]
  BY OtherSites
<1>4. /\ StoredBy(g, f, r) = SumFunction(F) /\ StoredBy(h, f, r) = SumFunction(H)
      /\ CurrOf(g, e, f, r) = IF e \in SitesOf(g, f) THEN F[e] ELSE 0
      /\ CurrOf(h, e, f, r) = IF e \in SitesOf(h, f) THEN H[e] ELSE 0
  BY DEF StoredBy, CurrOf
<1>5. CurrOf(g, e, f, r) \in Int /\ CurrOf(h, e, f, r) \in Int
  BY <1>2, <1>4
<1> HIDE DEF F, H
<1>. QED BY <1>1, <1>2, <1>3, <1>4, <1>5, SumApart

LEMMA RoomApart ==
  ASSUME NEW g, Shape(g), NEW h, Shape(h), NEW e \in Entity, Apart(g, h, e),
         \A x \in Entity : Placed(g, x) /\ Placed(h, x),
         NEW f \in Faction, NEW r \in Resource
  PROVE  /\ CapacityOf(g, f, r) \in Int /\ CapacityOf(h, f, r) \in Int
         /\ RoomOf(g, e, f, r) \in Int /\ RoomOf(h, e, f, r) \in Int
         /\ CapacityOf(h, f, r) - RoomOf(h, e, f, r) = CapacityOf(g, f, r) - RoomOf(g, e, f, r)
<1> DEFINE F == [x \in SitesOf(g, f) |-> EffectiveCapacity(g.site[x])[r]]
           H == [x \in SitesOf(h, f) |-> EffectiveCapacity(h.site[x])[r]]
<1>1. IsFiniteSet(SitesOf(g, f)) /\ IsFiniteSet(SitesOf(h, f))
  BY SitesFinite
<1>2. F \in [SitesOf(g, f) -> Int] /\ H \in [SitesOf(h, f) -> Int]
  BY SitesFinite, SiteTables
<1>3. /\ SitesOf(g, f) \ {e} = SitesOf(h, f) \ {e}
      /\ \A x \in SitesOf(g, f) \ {e} : F[x] = H[x]
  BY OtherSites
<1>4. /\ CapacityOf(g, f, r) = SumFunction(F) /\ CapacityOf(h, f, r) = SumFunction(H)
      /\ RoomOf(g, e, f, r) = IF e \in SitesOf(g, f) THEN F[e] ELSE 0
      /\ RoomOf(h, e, f, r) = IF e \in SitesOf(h, f) THEN H[e] ELSE 0
  BY DEF CapacityOf, RoomOf
<1>5. RoomOf(g, e, f, r) \in Int /\ RoomOf(h, e, f, r) \in Int
  BY <1>2, <1>4
<1> HIDE DEF F, H
<1>. QED BY <1>1, <1>2, <1>3, <1>4, <1>5, SumApart

LEMMA StandingApart ==
  ASSUME NEW g, Shape(g), NEW h, Shape(h), NEW e \in Entity, Apart(g, h, e),
         \A x \in Entity : Placed(g, x) /\ Placed(h, x),
         NEW f \in Faction, NEW p \in Place
  PROVE  /\ Cardinality(Standing(g, f, p)) \in Nat /\ Cardinality(Standing(h, f, p)) \in Nat
         /\ Cardinality(Standing(h, f, p)) - BlockOf(h, e, f, p)
              = Cardinality(Standing(g, f, p)) - BlockOf(g, e, f, p)
<1>1. IsFiniteSet(Entity)
  BY FS_Union DEF Entity
<1>2. Standing(g, f, p) \subseteq Entity /\ Standing(h, f, p) \subseteq Entity
  BY DEF Standing, Shape
<1>3. IsFiniteSet(Standing(g, f, p)) /\ IsFiniteSet(Standing(h, f, p))
  BY <1>1, <1>2, FS_Subset
<1>4. ASSUME NEW x \in Entity \ {e}
      PROVE  x \in Standing(g, f, p) <=> x \in Standing(h, f, p)
  BY <1>4 DEF Apart, Placed, Standing, Owner
<1>5. Standing(g, f, p) \ {e} = Standing(h, f, p) \ {e}
  BY <1>2, <1>4
<1>. QED BY <1>3, <1>5, CountApart DEF BlockOf

LEMMA SoundShape ==
  ASSUME NEW g, NEW s, Sound(g, s)
  PROVE  /\ Shape(g) /\ \A x \in Entity : Placed(g, x) /\ EntityOK(g, x)
         /\ g.blockers \in [Faction -> [Place -> Nat]]
<1>1. IsGame(g) /\ GameOK(g) /\ \A x \in Entity : EntityOK(g, x)
  BY DEF Sound
<1>2. Shape(g)
  BY <1>1 DEF GameOK, Shape, Active, Entity
<1>3. \A x \in Entity : Placed(g, x)
  BY <1>1 DEF GameOK, Placed, Active
<1>. QED BY <1>1, <1>2, <1>3 DEF GameOK

\* The invariant of the other entities is not disturbed.
LEMMA OthersOK ==
  ASSUME NEW g, NEW h, NEW e \in Entity, Apart(g, h, e),
         \A x \in Entity : Placed(g, x) /\ EntityOK(g, x), EntityOK(h, e)
  PROVE  \A x \in Entity : EntityOK(h, x)
<1> SUFFICES ASSUME NEW x \in Entity \ {e} PROVE EntityOK(h, x)
  OBVIOUS
<1>1. Placed(g, x) /\ EntityOK(g, x)
  OBVIOUS
<1>2. /\ x \in DOMAIN g.site <=> x \in DOMAIN h.site
      /\ x \in DOMAIN g.site => h.site[x] = g.site[x]
      /\ x \in DOMAIN g.build <=> x \in DOMAIN h.build
      /\ x \in DOMAIN g.build => h.build[x] = g.build[x] /\ h.pos[x] = g.pos[x]
      /\ x \in Active(g) <=> x \in Active(h)
      /\ x \in g.listening <=> x \in h.listening
      /\ h.changed[x] = g.changed[x]
  BY <1>1 DEF Apart, Placed, Active
<1>3. (UnderWork(h, x) <=> UnderWork(g, x)) /\ (IsFounded(h, x) <=> IsFounded(g, x))
  BY <1>2 DEF UnderWork, IsFounded
<1>4. x \in DOMAIN h.build => BuildOK(h, x)
  BY <1>1, <1>2 DEF EntityOK, BuildOK
<1>5. x \in DOMAIN h.site <=> x \in Active(h) /\ (x \in Sites \/ UnderWork(h, x))
  BY <1>1, <1>2, <1>3 DEF EntityOK
<1>6. x \in DOMAIN h.site => SiteOK(h, x)
  <2>1. Asked(h, x) = Asked(g, x)
    BY <1>2, <1>3 DEF Asked, IsFounded
  <2>. QED BY <1>1, <1>2, <1>3, <2>1 DEF EntityOK, SiteOK
<1>7. IsFounded(h, x) /\ IsSaturated(h, x) /\ h.build[x].required # Zero => h.changed[x] > 0
  <2> SUFFICES ASSUME IsFounded(h, x), IsSaturated(h, x), h.build[x].required # Zero
               PROVE  g.changed[x] > 0
    BY <1>2
  <2>1. IsFounded(g, x) /\ UnderWork(g, x)
    BY <1>3 DEF IsFounded, UnderWork, Founded, Completed
  <2>2. x \in DOMAIN g.site /\ x \in DOMAIN g.build
    BY <1>1, <2>1 DEF EntityOK, IsFounded, Placed, Active
  <2>3. IsSaturated(g, x) /\ g.build[x].required # Zero
    BY <1>2, <2>2 DEF IsSaturated
  <2>. QED BY <1>1, <2>1, <2>3 DEF EntityOK
<1>. QED BY <1>4, <1>5, <1>6, <1>7 DEF EntityOK

Spents == [Faction -> [Resource -> Nat]]

\* The totals of resources change by what the entity holds and what is spent.
SpentKept(g, s, h, t, e) ==
  \A f \in Faction, r \in Resource :
    h.res[f][r] - CurrOf(h, e, f, r) - t[f][r] = g.res[f][r] - CurrOf(g, e, f, r) - s[f][r]

\* A step that is about one entity, leaves it as it should be and keeps the books
\* leads to a sound game.
LEMMA EntityStep ==
  ASSUME NEW g, NEW s \in Spents, Sound(g, s), NEW h, NEW t \in Spents, NEW e \in Entity,
         Shape(h), Apart(g, h, e), Placed(h, e), EntityOK(h, e),
         SpentKept(g, s, h, t, e), CapKept(g, h, e), BlockersKept(g, h, e)
  PROVE  Sound(h, t)
<1>1. Shape(g) /\ \A x \in Entity : Placed(g, x) /\ EntityOK(g, x)
  BY SoundShape
<1>2. \A x \in Entity : Placed(h, x) /\ EntityOK(h, x)
  BY <1>1, OthersPlaced, OthersOK
<1>3. BooksOK(g, s)
  BY DEF Sound
<1>4. ASSUME NEW f \in Faction, NEW r \in Resource
      PROVE  /\ h.res[f][r] = StoredBy(h, f, r) + t[f][r]
             /\ h.cap[f][r] = CapacityOf(h, f, r)
  <2>1. /\ g.res[f][r] \in Int /\ h.res[f][r] \in Int
        /\ g.cap[f][r] \in Int /\ h.cap[f][r] \in Int
        /\ s[f][r] \in Int /\ t[f][r] \in Int
    BY <1>1 DEF Shape, Table, Spents
  <2>2. g.res[f][r] = StoredBy(g, f, r) + s[f][r] /\ g.cap[f][r] = CapacityOf(g, f, r)
    BY <1>3 DEF BooksOK
  <2>3. h.res[f][r] - CurrOf(h, e, f, r) - t[f][r] = g.res[f][r] - CurrOf(g, e, f, r) - s[f][r]
    BY DEF SpentKept
  <2>4. h.cap[f][r] - RoomOf(h, e, f, r) = g.cap[f][r] - RoomOf(g, e, f, r)
    BY DEF CapKept
  <2>5. /\ StoredBy(g, f, r) \in Int /\ StoredBy(h, f, r) \in Int
        /\ CurrOf(g, e, f, r) \in Int /\ CurrOf(h, e, f, r) \in Int
        /\ StoredBy(h, f, r) - CurrOf(h, e, f, r) = StoredBy(g, f, r) - CurrOf(g, e, f, r)
    BY <1>1, <1>2, StoredApart
  <2>6. /\ CapacityOf(g, f, r) \in Int /\ CapacityOf(h, f, r) \in Int
        /\ RoomOf(g, e, f, r) \in Int /\ RoomOf(h, e, f, r) \in Int
        /\ CapacityOf(h, f, r) - RoomOf(h, e, f, r) = CapacityOf(g, f, r) - RoomOf(g, e, f, r)
    BY <1>1, <1>2, RoomApart
  <2>. QED BY <2>1, <2>2, <2>3, <2>4, <2>5, <2>6
<1>5. ASSUME NEW f \in Faction, NEW p \in Place
      PROVE  h.blockers[f][p] = Cardinality(Standing(h, f, p)) /\ h.blockers[f][p] \in Nat
  <2>1. g.blockers[f][p] \in Int /\ h.blockers[f][p] \in Int
    BY <1>1 DEF Shape
  <2>2. g.blockers[f][p] = Cardinality(Standing(g, f, p))
    BY <1>3 DEF BooksOK
  <2>3. h.blockers[f][p] - BlockOf(h, e, f, p) = g.blockers[f][p] - BlockOf(g, e, f, p)
    BY DEF BlockersKept
  <2>4. /\ Cardinality(Standing(g, f, p)) \in Nat /\ Cardinality(Standing(h, f, p)) \in Nat
        /\ Cardinality(Standing(h, f, p)) - BlockOf(h, e, f, p)
             = Cardinality(Standing(g, f, p)) - BlockOf(g, e, f, p)
    BY <1>1, <1>2, StandingApart
  <2>5. BlockOf(g, e, f, p) \in Int /\ BlockOf(h, e, f, p) \in Int
    BY DEF BlockOf
  <2>. QED BY <2>1, <2>2, <2>3, <2>4, <2>5
<1>6. GameOK(h)
  <2>1. DOMAIN h.build = Active(h) \cap Buildings
    BY <1>2 DEF Placed, Shape, Active
  <2>2. DOMAIN h.pos = Active(h) /\ DOMAIN h.site \subseteq Active(h)
        /\ h.listening \subseteq DOMAIN h.build
    BY <1>2 DEF Placed, Shape, Active
  <2>3. h.blockers \in [Faction -> [Place -> Nat]]
    BY <1>5 DEF Shape
  <2>4. /\ Active(h) \subseteq Entity /\ h.faction \in [Active(h) -> Faction]
        /\ h.pos \in [DOMAIN h.pos -> Place] /\ h.build \in [DOMAIN h.build -> BuildRecord]
        /\ h.site \in [DOMAIN h.site -> SiteRecord]
        /\ h.res \in [Faction -> Table] /\ h.cap \in [Faction -> Table]
        /\ h.changed \in [Entity -> Nat]
    BY DEF Shape, Active
  <2>. QED BY <2>1, <2>2, <2>3, <2>4 DEF GameOK
<1>. QED BY <1>2, <1>4, <1>5, <1>6 DEF Sound, BooksOK, Shape
-----------------------------------------------------------------------------
(* storage_site.c *)

\* Nothing changes but the site of e, the totals and what waits for delivery.
Beside(g, h, e) ==
  /\ Shape(h)
  /\ h.build = g.build /\ h.faction = g.faction /\ h.pos = g.pos
  /\ h.blockers = g.blockers /\ h.listening = g.listening
  /\ DOMAIN h.site = DOMAIN g.site
  /\ \A x \in DOMAIN g.site \ {e} : h.site[x] = g.site[x]
  /\ \A x \in Entity \ {e} : h.changed[x] = g.changed[x]

\* A site of an entity that exists.
Owned(g, e) == Shape(g) /\ e \in Entity /\ e \in DOMAIN g.site /\ e \in DOMAIN g.faction

LEMMA OwnedSite ==
  ASSUME NEW g, NEW e, Owned(g, e)
  PROVE  /\ g.site[e] \in SiteRecord /\ Owner(g, e) \in Faction
         /\ \A h : Beside(g, h, e) => Owned(h, e) /\ Owner(h, e) = Owner(g, e)
BY DEF Owned, Shape, Owner, Beside

\* Only the totals are others; the site of e is s too, and n changes wait for delivery.
Totals(g, h) ==
  /\ h.res \in [Faction -> Table] /\ h.cap \in [Faction -> Table]
  /\ IsGame(h) /\ h.site = g.site /\ h.changed = g.changed
  /\ h.build = g.build /\ h.faction = g.faction /\ h.pos = g.pos
  /\ h.blockers = g.blockers /\ h.listening = g.listening
PutAt(g, h, e, s, n) ==
  /\ IsGame(h) /\ h.site = [g.site EXCEPT ![e] = s] /\ h.changed = [g.changed EXCEPT ![e] = n]
  /\ h.build = g.build /\ h.faction = g.faction /\ h.pos = g.pos
  /\ h.blockers = g.blockers /\ h.listening = g.listening

\* A game of which one site, the totals and the count of changes are replaced.
LEMMA SiteReplaced ==
  ASSUME NEW g, NEW e, Owned(g, e), NEW s \in SiteRecord, NEW n \in Nat,
         NEW h, PutAt(g, h, e, s, n),
         h.res \in [Faction -> Table], h.cap \in [Faction -> Table]
  PROVE  /\ Beside(g, h, e) /\ Owned(h, e) /\ h.site[e] = s /\ h.changed[e] = n
         /\ n = g.changed[e] => h.changed = g.changed
<1>1. g.site \in [DOMAIN g.site -> SiteRecord] /\ g.changed \in [Entity -> Nat]
      /\ e \in DOMAIN g.site /\ e \in Entity
  BY DEF Owned, Shape
<1>2. Shape(h)
  BY <1>1 DEF Owned, Shape, PutAt
<1>3. /\ h.site[e] = s /\ h.changed[e] = n /\ DOMAIN h.site = DOMAIN g.site
      /\ \A x \in DOMAIN g.site \ {e} : h.site[x] = g.site[x]
      /\ \A x \in Entity \ {e} : h.changed[x] = g.changed[x]
  BY <1>1 DEF PutAt
<1>4. n = g.changed[e] => h.changed = g.changed
  BY <1>1 DEF PutAt
<1>5. /\ h.build = g.build /\ h.faction = g.faction /\ h.pos = g.pos
      /\ h.blockers = g.blockers /\ h.listening = g.listening
  BY DEF PutAt
<1>. QED BY <1>1, <1>2, <1>3, <1>4, <1>5 DEF Owned, Beside

\* The totals of one faction, changed by a table.
RaisedBy(old, new, f, d) ==
  /\ new \in [Faction -> Table]
  /\ \A i \in Faction, r \in Resource :
       new[i][r] = IF i = f THEN old[i][r] + d[r] ELSE old[i][r]

LEMMA BesideFacts ==
  ASSUME NEW g, NEW e, Owned(g, e), NEW h, Beside(g, h, e)
  PROVE  /\ \A f : /\ e \in SitesOf(g, f) <=> f = Owner(g, e)
                   /\ e \in SitesOf(h, f) <=> f = Owner(g, e)
         /\ \A r \in Resource :
              /\ h.site[e].curr[r] \in Int /\ g.site[e].curr[r] \in Int
              /\ EffectiveCapacity(h.site[e])[r] \in Int
              /\ EffectiveCapacity(g.site[e])[r] \in Int
         /\ \A f \in Faction, r \in Resource :
              /\ h.res[f][r] \in Int /\ g.res[f][r] \in Int
              /\ h.cap[f][r] \in Int /\ g.cap[f][r] \in Int
<1>1. \A f : /\ e \in SitesOf(g, f) <=> f = Owner(g, e)
             /\ e \in SitesOf(h, f) <=> f = Owner(g, e)
  BY DEF SitesOf, Owner, Owned, Beside
<1>2. g.site[e] \in SiteRecord /\ h.site[e] \in SiteRecord
  BY OwnedSite
<1>3. \A r \in Resource :
        /\ h.site[e].curr[r] \in Int /\ g.site[e].curr[r] \in Int
        /\ EffectiveCapacity(h.site[e])[r] \in Int /\ EffectiveCapacity(g.site[e])[r] \in Int
  BY <1>2, SiteTables
<1>4. \A f \in Faction, r \in Resource :
        /\ h.res[f][r] \in Int /\ g.res[f][r] \in Int
        /\ h.cap[f][r] \in Int /\ g.cap[f][r] \in Int
  BY DEF Owned, Beside, Shape, Table
<1>. QED BY <1>1, <1>3, <1>4

\* The totals match the site again if they are raised by what the site has more.
LEMMA ResIfRaised ==
  ASSUME NEW g, NEW e, Owned(g, e), NEW h, Beside(g, h, e),
         NEW d, RaisedBy(g.res, h.res, Owner(g, e), d),
         \A r \in Resource : d[r] = h.site[e].curr[r] - g.site[e].curr[r]
  PROVE  ResKept(g, h, e)
BY BesideFacts DEF ResKept, CurrOf, RaisedBy

LEMMA CapIfRaised ==
  ASSUME NEW g, NEW e, Owned(g, e), NEW h, Beside(g, h, e),
         NEW d, RaisedBy(g.cap, h.cap, Owner(g, e), d),
         \A r \in Resource : d[r] = EffectiveCapacity(h.site[e])[r]
                                     - EffectiveCapacity(g.site[e])[r]
  PROVE  CapKept(g, h, e)
BY BesideFacts DEF CapKept, RoomOf, RaisedBy

\* They still match if neither is changed; and the blockers always do.
LEMMA KeptIfSame ==
  ASSUME NEW g, NEW e, Owned(g, e), NEW h, Beside(g, h, e)
  PROVE  /\ h.res = g.res /\ h.site[e].curr = g.site[e].curr => ResKept(g, h, e)
         /\ h.cap = g.cap /\ EffectiveCapacity(h.site[e]) = EffectiveCapacity(g.site[e])
              => CapKept(g, h, e)
         /\ BlockersKept(g, h, e)
<1>1. h.res = g.res /\ h.site[e].curr = g.site[e].curr => ResKept(g, h, e)
  BY BesideFacts DEF ResKept, CurrOf
<1>2. h.cap = g.cap /\ EffectiveCapacity(h.site[e]) = EffectiveCapacity(g.site[e])
        => CapKept(g, h, e)
  BY BesideFacts DEF CapKept, RoomOf
<1>3. \A f, p : Standing(h, f, p) = Standing(g, f, p)
  BY DEF Standing, Owner, Beside
<1>4. BlockersKept(g, h, e)
  BY <1>3 DEF BlockersKept, BlockOf, Beside
<1>. QED BY <1>1, <1>2, <1>4

\* A change of the totals changes nothing else.
LEMMA UpdateDoes ==
  ASSUME NEW g, Shape(g), NEW f \in Faction, NEW d \in Table
  PROVE  /\ Totals(g, UpdateCap(g, f, d))
         /\ UpdateCap(g, f, d).res = g.res /\ RaisedBy(g.cap, UpdateCap(g, f, d).cap, f, d)
         /\ Totals(g, UpdateRes(g, f, d))
         /\ UpdateRes(g, f, d).cap = g.cap /\ RaisedBy(g.res, UpdateRes(g, f, d).res, f, d)
<1>1. IsGame(g) /\ g.res \in [Faction -> Table] /\ g.cap \in [Faction -> Table]
  BY DEF Shape
<1>2. /\ IsGame(UpdateCap(g, f, d)) /\ UpdateCap(g, f, d).cap = [g.cap EXCEPT ![f] = Plus(@, d)]
      /\ \A k \in Fields \ {"cap"} : UpdateCap(g, f, d)[k] = g[k]
  BY <1>1 DEF UpdateCap, IsGame, Fields
<1>3. /\ IsGame(UpdateRes(g, f, d)) /\ UpdateRes(g, f, d).res = [g.res EXCEPT ![f] = Plus(@, d)]
      /\ \A k \in Fields \ {"res"} : UpdateRes(g, f, d)[k] = g[k]
  BY <1>1 DEF UpdateRes, IsGame, Fields
<1>4. RaisedBy(g.cap, UpdateCap(g, f, d).cap, f, d)
  <2>1. /\ Plus(g.cap[f], d) \in Table
        /\ \A r \in Resource : Plus(g.cap[f], d)[r] = g.cap[f][r] + d[r]
    BY <1>1, Tables
  <2>. QED BY <1>1, <1>2, <2>1 DEF RaisedBy
<1>5. RaisedBy(g.res, UpdateRes(g, f, d).res, f, d)
  <2>1. /\ Plus(g.res[f], d) \in Table
        /\ \A r \in Resource : Plus(g.res[f], d)[r] = g.res[f][r] + d[r]
    BY <1>1, Tables
  <2>. QED BY <1>1, <1>3, <2>1 DEF RaisedBy
<1>6. Totals(g, UpdateCap(g, f, d)) /\ Totals(g, UpdateRes(g, f, d))
  BY <1>1, <1>2, <1>3, <1>4, <1>5 DEF Totals, RaisedBy, Fields
<1>7. UpdateCap(g, f, d).res = g.res /\ UpdateRes(g, f, d).cap = g.cap
  BY <1>2, <1>3 DEF Fields
<1>. QED BY <1>4, <1>5, <1>6, <1>7

\* What is there of a site, for the proofs about the setters.
LEMMA SiteThere ==
  ASSUME NEW g, NEW e, Owned(g, e)
  PROVE  /\ g.site[e] \in SiteRecord /\ Owner(g, e) \in Faction /\ Shape(g) /\ IsGame(g)
         /\ g.cap \in [Faction -> Table] /\ g.res \in [Faction -> Table]
         /\ g.changed \in [Entity -> Nat] /\ e \in Entity /\ g.changed[e] \in Nat
         /\ Totals(g, g) /\ RaisedBy(g.cap, g.cap, Owner(g, e), Zero)
         /\ RaisedBy(g.res, g.res, Owner(g, e), Zero)
<1>1. /\ g.site[e] \in SiteRecord /\ Owner(g, e) \in Faction /\ Shape(g) /\ IsGame(g)
      /\ g.cap \in [Faction -> Table] /\ g.res \in [Faction -> Table]
      /\ g.changed \in [Entity -> Nat] /\ e \in Entity
  BY OwnedSite DEF Owned, Shape
<1>2. Totals(g, g)
  BY <1>1 DEF Totals
<1>3. RaisedBy(g.cap, g.cap, Owner(g, e), Zero) /\ RaisedBy(g.res, g.res, Owner(g, e), Zero)
  BY <1>1, Tables DEF RaisedBy, Table
<1>. QED BY <1>1, <1>2, <1>3

\* h is m with another site of e.
PutIn(m, h, e, s) == h = [m EXCEPT !.site[e] = s]

\* A site is replaced in a game whose totals may have been changed before.
LEMMA PutSite ==
  ASSUME NEW g, NEW e, Owned(g, e), NEW m, Totals(g, m),
         NEW s \in SiteRecord, NEW h, PutIn(m, h, e, s)
  PROVE  /\ Beside(g, h, e) /\ Owned(h, e) /\ h.site[e] = s /\ h.changed = g.changed
         /\ h.res = m.res /\ h.cap = m.cap
<1>1. g.changed[e] \in Nat /\ g.changed \in [Entity -> Nat]
  BY SiteThere
<1>2. PutAt(g, h, e, s, g.changed[e]) /\ h.res = m.res /\ h.cap = m.cap
  BY <1>1 DEF Totals, PutAt, PutIn, IsGame, Fields
<1>3. h.res \in [Faction -> Table] /\ h.cap \in [Faction -> Table]
  BY <1>2 DEF Totals
<1>4. /\ Beside(g, h, e) /\ Owned(h, e) /\ h.site[e] = s
      /\ g.changed[e] = g.changed[e] => h.changed = g.changed
  BY <1>1, <1>2, <1>3, SiteReplaced
<1>. QED BY <1>2, <1>4

\* The site has changed in some of its fields only.
SameSite(s, t, but) ==
  \A k \in {"capacity", "curr", "desired", "altCapacity", "altDesired", "useAlt"} \ but : t[k] = s[k]

LEMMA SetCapacityDoes ==
  ASSUME NEW g, NEW e, Owned(g, e), NEW r \in Resource, NEW n \in Nat
  PROVE  LET h == SetCapacity(g, e, r, n)
             s == g.site[e]
             t == h.site[e]
         IN  /\ Beside(g, h, e) /\ h.res = g.res /\ h.changed = g.changed
             /\ SameSite(s, t, {"capacity", "desired"})
             /\ \A q \in Resource :
                  /\ t.capacity[q] = IF q = r THEN n ELSE s.capacity[q]
                  /\ t.desired[q] = IF q = r THEN Lesser(s.desired[q], n) ELSE s.desired[q]
             /\ s.curr[r] = s.capacity[r] => CapKept(g, h, e)
<1> DEFINE s == g.site[e]
           d == Only(r, n - s.curr[r])
           h == SetCapacity(g, e, r, n)
           t == [s EXCEPT !.capacity[r] = n, !.desired[r] = Lesser(@, n)]
           c == IF s.useAlt THEN Zero ELSE d
<1>1. s \in SiteRecord /\ Owner(g, e) \in Faction /\ Shape(g)
  BY SiteThere
<1>2. d \in Table /\ \A q \in Resource : d[q] = IF q = r THEN n - s.curr[r] ELSE 0
  <2>1. n - s.curr[r] \in Int
    BY <1>1, SiteTables
  <2>. QED BY <2>1, Tables
<1>3. /\ t \in SiteRecord /\ SameSite(s, t, {"capacity", "desired"})
      /\ \A q \in Resource :
           /\ t.capacity[q] = IF q = r THEN n ELSE s.capacity[q]
           /\ t.desired[q] = IF q = r THEN Lesser(s.desired[q], n) ELSE s.desired[q]
  BY <1>1 DEF SiteRecord, Lesser, SameSite
<1>4. PICK m : m = IF s.useAlt THEN g ELSE UpdateCap(g, Owner(g, e), d)
  OBVIOUS
<1>5. /\ Totals(g, m) /\ m.res = g.res /\ RaisedBy(g.cap, m.cap, Owner(g, e), c)
      /\ RaisedBy(g.res, m.res, Owner(g, e), Zero)
  <2>1. CASE s.useAlt
    BY <1>4, <2>1, SiteThere
  <2>2. CASE ~s.useAlt
    <3>1. Totals(g, m) /\ m.res = g.res /\ RaisedBy(g.cap, m.cap, Owner(g, e), d)
      <4> HIDE DEF d
      <4>. QED BY <1>1, <1>2, <1>4, <2>2, UpdateDoes
    <3>. QED BY <2>2, <3>1, SiteThere
  <2>. QED BY <2>1, <2>2
<1>6. PutIn(m, h, e, t)
  BY <1>4 DEF SetCapacity, PutIn
<1>7. /\ Beside(g, h, e) /\ h.site[e] = t /\ h.changed = g.changed
      /\ h.res = g.res /\ h.cap = m.cap
  <2> HIDE DEF h, t, c
  <2>. QED BY <1>3, <1>5, <1>6, PutSite
<1>8. ASSUME s.curr[r] = s.capacity[r] PROVE CapKept(g, h, e)
  <2>1. t.useAlt = s.useAlt /\ t.altCapacity = s.altCapacity
    BY <1>3 DEF SameSite
  <2>2. \A q \in Resource : c[q] = EffectiveCapacity(t)[q] - EffectiveCapacity(s)[q]
    <3>1. \A q \in Resource : s.capacity[q] \in Int /\ s.altCapacity[q] \in Int
      BY <1>1, SiteTables
    <3> HIDE DEF d, t, s
    <3>. QED BY <1>2, <1>3, <1>8, <2>1, <3>1, Tables DEF EffectiveCapacity
  <2> HIDE DEF h, t, c
  <2>. QED BY <1>5, <1>7, <2>2, CapIfRaised
<1>. QED BY <1>3, <1>7, <1>8

LEMMA SetAltCapacityDoes ==
  ASSUME NEW g, NEW e, Owned(g, e), NEW r \in Resource, NEW n \in Nat
  PROVE  LET h == SetAltCapacity(g, e, r, n)
             s == g.site[e]
             t == h.site[e]
         IN  /\ Beside(g, h, e) /\ h.res = g.res /\ h.changed = g.changed
             /\ SameSite(s, t, {"altCapacity"})
             /\ \A q \in Resource : t.altCapacity[q] = IF q = r THEN n ELSE s.altCapacity[q]
             /\ s.curr[r] = s.altCapacity[r] => CapKept(g, h, e)
<1> DEFINE s == g.site[e]
           d == Only(r, n - s.curr[r])
           h == SetAltCapacity(g, e, r, n)
           t == [s EXCEPT !.altCapacity[r] = n]
           c == IF s.useAlt THEN d ELSE Zero
<1>1. s \in SiteRecord /\ Owner(g, e) \in Faction /\ Shape(g)
  BY SiteThere
<1>2. d \in Table /\ \A q \in Resource : d[q] = IF q = r THEN n - s.curr[r] ELSE 0
  <2>1. n - s.curr[r] \in Int
    BY <1>1, SiteTables
  <2>. QED BY <2>1, Tables
<1>3. /\ t \in SiteRecord /\ SameSite(s, t, {"altCapacity"})
      /\ \A q \in Resource : t.altCapacity[q] = IF q = r THEN n ELSE s.altCapacity[q]
  BY <1>1 DEF SiteRecord, SameSite
<1>4. PICK m : m = IF s.useAlt THEN UpdateCap(g, Owner(g, e), d) ELSE g
  OBVIOUS
<1>5. /\ Totals(g, m) /\ m.res = g.res /\ RaisedBy(g.cap, m.cap, Owner(g, e), c)
      /\ RaisedBy(g.res, m.res, Owner(g, e), Zero) /\ m.site[e] = s
  <2>1. CASE ~s.useAlt
    BY <1>4, <2>1, SiteThere
  <2>2. CASE s.useAlt
    <3>1. Totals(g, m) /\ m.res = g.res /\ RaisedBy(g.cap, m.cap, Owner(g, e), d)
      <4> HIDE DEF d
      <4>. QED BY <1>1, <1>2, <1>4, <2>2, UpdateDoes
    <3>. QED BY <2>2, <3>1, SiteThere DEF Totals
  <2>. QED BY <2>1, <2>2
<1>6. PutIn(m, h, e, t)
  <2>1. h = [m EXCEPT !.site[e].altCapacity[r] = n]
    BY <1>4 DEF SetAltCapacity
  <2> HIDE DEF h, s
  <2>. QED BY <1>5, <2>1 DEF PutIn
<1>7. /\ Beside(g, h, e) /\ h.site[e] = t /\ h.changed = g.changed
      /\ h.res = g.res /\ h.cap = m.cap
  <2> HIDE DEF h, t, c
  <2>. QED BY <1>3, <1>5, <1>6, PutSite
<1>8. ASSUME s.curr[r] = s.altCapacity[r] PROVE CapKept(g, h, e)
  <2>1. t.useAlt = s.useAlt /\ t.capacity = s.capacity
    BY <1>3 DEF SameSite
  <2>2. \A q \in Resource : c[q] = EffectiveCapacity(t)[q] - EffectiveCapacity(s)[q]
    <3>1. \A q \in Resource : s.capacity[q] \in Int /\ s.altCapacity[q] \in Int
      BY <1>1, SiteTables
    <3> HIDE DEF d, t, s
    <3>. QED BY <1>2, <1>3, <1>8, <2>1, <3>1, Tables DEF EffectiveCapacity
  <2> HIDE DEF h, t, c
  <2>. QED BY <1>5, <1>7, <2>2, CapIfRaised
<1>. QED BY <1>3, <1>7, <1>8

LEMMA SetDesiredDoes ==
  ASSUME NEW g, NEW e, Owned(g, e), NEW r \in Resource, NEW n \in Nat
  PROVE  LET h == SetDesired(g, e, r, n)
             s == g.site[e]
             t == h.site[e]
         IN  /\ Beside(g, h, e) /\ h.res = g.res /\ h.cap = g.cap /\ h.changed = g.changed
             /\ SameSite(s, t, {"desired"})
             /\ \A q \in Resource :
                  t.desired[q] = IF q = r THEN Lesser(n, s.capacity[q]) ELSE s.desired[q]
<1> DEFINE s == g.site[e]
           h == SetDesired(g, e, r, n)
           t == [s EXCEPT !.desired[r] = Lesser(n, s.capacity[r])]
<1>1. s \in SiteRecord
  BY SiteThere
<1>2. /\ t \in SiteRecord /\ SameSite(s, t, {"desired"})
      /\ \A q \in Resource :
           t.desired[q] = IF q = r THEN Lesser(n, s.capacity[q]) ELSE s.desired[q]
  BY <1>1 DEF SiteRecord, SameSite, Lesser
<1>3. PutIn(g, h, e, t)
  BY DEF SetDesired, PutIn
<1>4. /\ Beside(g, h, e) /\ h.site[e] = t /\ h.changed = g.changed
      /\ h.res = g.res /\ h.cap = g.cap
  <2> HIDE DEF h, t
  <2>. QED BY <1>2, <1>3, PutSite, SiteThere
<1>. QED BY <1>2, <1>4

LEMMA SetAltDesiredDoes ==
  ASSUME NEW g, NEW e, Owned(g, e), NEW r \in Resource, NEW n \in Nat
  PROVE  LET h == SetAltDesired(g, e, r, n)
             s == g.site[e]
             t == h.site[e]
         IN  /\ Beside(g, h, e) /\ h.res = g.res /\ h.cap = g.cap /\ h.changed = g.changed
             /\ SameSite(s, t, {"altDesired"})
             /\ \A q \in Resource : t.altDesired[q] = IF q = r THEN n ELSE s.altDesired[q]
<1> DEFINE s == g.site[e]
           h == SetAltDesired(g, e, r, n)
           t == [s EXCEPT !.altDesired[r] = n]
<1>1. s \in SiteRecord
  BY SiteThere
<1>2. /\ t \in SiteRecord /\ SameSite(s, t, {"altDesired"})
      /\ \A q \in Resource : t.altDesired[q] = IF q = r THEN n ELSE s.altDesired[q]
  BY <1>1 DEF SiteRecord, SameSite
<1>3. PutIn(g, h, e, t)
  BY DEF SetAltDesired, PutIn
<1>4. /\ Beside(g, h, e) /\ h.site[e] = t /\ h.changed = g.changed
      /\ h.res = g.res /\ h.cap = g.cap
  <2> HIDE DEF h, t
  <2>. QED BY <1>2, <1>3, PutSite, SiteThere
<1>. QED BY <1>2, <1>4

LEMMA SetCurrDoes ==
  ASSUME NEW g, NEW e, Owned(g, e), NEW r \in Resource, NEW n \in Nat, CurrAllowed(g, e, r, n)
  PROVE  LET h == SetCurr(g, e, r, n)
             s == g.site[e]
             t == h.site[e]
         IN  /\ Beside(g, h, e) /\ h.cap = g.cap /\ ResKept(g, h, e) /\ CapKept(g, h, e)
             /\ SameSite(s, t, {"curr"})
             /\ \A q \in Resource : t.curr[q] = IF q = r THEN n ELSE s.curr[q]
             /\ h.changed[e] = IF n = s.curr[r] THEN g.changed[e] ELSE g.changed[e] + 1
<1> DEFINE s == g.site[e]
           d == Only(r, n - s.curr[r])
           h == SetCurr(g, e, r, n)
           t == [s EXCEPT !.curr[r] = n]
           k == IF n = s.curr[r] THEN g.changed[e] ELSE g.changed[e] + 1
<1>1. s \in SiteRecord /\ Owner(g, e) \in Faction /\ Shape(g) /\ k \in Nat
  BY SiteThere
<1>2. /\ d \in Table /\ \A q \in Resource : d[q] = IF q = r THEN n - s.curr[r] ELSE 0
      /\ n - s.curr[r] = 0 <=> n = s.curr[r]
  <2>1. PICK c \in Int : c = s.curr[r]
    BY <1>1, SiteTables
  <2>2. n - c \in Int /\ (n - c = 0 <=> n = c)
    BY <2>1
  <2>3. d = Only(r, n - c)
    BY <2>1
  <2>4. d \in Table /\ \A q \in Resource : d[q] = IF q = r THEN n - c ELSE 0
    <3> HIDE DEF d
    <3>. QED BY <2>2, <2>3, Tables
  <2> HIDE DEF d, s
  <2>. QED BY <2>1, <2>2, <2>4
<1>3. /\ t \in SiteRecord /\ SameSite(s, t, {"curr"})
      /\ \A q \in Resource : t.curr[q] = IF q = r THEN n ELSE s.curr[q]
  BY <1>1 DEF SiteRecord, SameSite
<1>4. PICK m : m = UpdateRes(g, Owner(g, e), d)
  OBVIOUS
<1>5. Totals(g, m) /\ m.cap = g.cap /\ RaisedBy(g.res, m.res, Owner(g, e), d) /\ m.site[e] = s
  <2>1. Totals(g, m) /\ m.cap = g.cap /\ RaisedBy(g.res, m.res, Owner(g, e), d)
    <3> HIDE DEF d
    <3>. QED BY <1>1, <1>2, <1>4, UpdateDoes
  <2>. QED BY <2>1 DEF Totals
<1>6. PutAt(g, h, e, t, k) /\ h.res = m.res /\ h.cap = m.cap
  <2>1. h = [m EXCEPT !.site[e].curr[r] = n,
                      !.changed[e] = IF n - s.curr[r] = 0 THEN @ ELSE @ + 1]
    BY <1>4 DEF SetCurr
  <2>2. m.changed[e] = g.changed[e]
    BY <1>5 DEF Totals
  <2> HIDE DEF h, s, d
  <2>. QED BY <1>2, <1>5, <2>1, <2>2 DEF PutAt, Totals, IsGame, Fields
<1>7. /\ Beside(g, h, e) /\ h.site[e] = t /\ h.changed[e] = k
      /\ h.res = m.res /\ h.cap = m.cap
  <2>1. h.res \in [Faction -> Table] /\ h.cap \in [Faction -> Table]
    BY <1>5, <1>6 DEF Totals
  <2> HIDE DEF h, t, k
  <2>. QED BY <1>1, <1>3, <1>6, <2>1, SiteReplaced
<1>8. ResKept(g, h, e)
  <2>1. \A q \in Resource : d[q] = t.curr[q] - s.curr[q]
    <3>1. \A q \in Resource : s.curr[q] \in Int
      BY <1>1, SiteTables
    <3> HIDE DEF d, t, s
    <3>. QED BY <1>2, <1>3, <3>1
  <2> HIDE DEF h, t, d
  <2>. QED BY <1>5, <1>7, <2>1, ResIfRaised
<1>9. CapKept(g, h, e)
  <2>1. EffectiveCapacity(t) = EffectiveCapacity(s)
    BY <1>3 DEF SameSite, EffectiveCapacity
  <2> HIDE DEF h, t
  <2>. QED BY <1>5, <1>7, <2>1, KeptIfSame
<1>. QED BY <1>3, <1>5, <1>7, <1>8, <1>9

LEMMA SetUseAltDoes ==
  ASSUME NEW g, NEW e, Owned(g, e), NEW use \in BOOLEAN
  PROVE  LET h == SetUseAlt(g, e, use)
             t == h.site[e]
         IN  /\ Beside(g, h, e) /\ h.res = g.res /\ h.changed = g.changed
             /\ SameSite(g.site[e], t, {"useAlt"}) /\ t.useAlt = use
             /\ CapKept(g, h, e)
<1> DEFINE s == g.site[e]
           t == [s EXCEPT !.useAlt = use]
           d == Minus(EffectiveCapacity(t), EffectiveCapacity(s))
           h == SetUseAlt(g, e, use)
<1>1. s \in SiteRecord /\ Owner(g, e) \in Faction /\ Shape(g)
  BY SiteThere
<1>2. t \in SiteRecord /\ SameSite(s, t, {"useAlt"}) /\ t.useAlt = use
  BY <1>1, Zenon DEF SiteRecord, SameSite
<1>3. CASE use = s.useAlt
  <2>1. h = g
    BY <1>3 DEF SetUseAlt
  <2>2. Beside(g, g, e)
    BY DEF Owned, Beside
  <2>3. CapKept(g, g, e)
    BY <2>2, KeptIfSame
  <2>4. SameSite(s, s, {"useAlt"})
    BY DEF SameSite
  <2>5. Beside(g, h, e) /\ h.res = g.res /\ h.changed = g.changed /\ CapKept(g, h, e)
    <3> HIDE DEF h
    <3>. QED BY <2>1, <2>2, <2>3
  <2>6. SameSite(g.site[e], h.site[e], {"useAlt"}) /\ h.site[e].useAlt = use
    <3> HIDE DEF h
    <3>. QED BY <1>3, <2>1, <2>4
  <2>. QED BY <2>5, <2>6
<1>4. CASE use # s.useAlt
  <2>1. d \in Table /\ \A q \in Resource : d[q] = EffectiveCapacity(t)[q] - EffectiveCapacity(s)[q]
    <3> HIDE DEF t, s
    <3>. QED BY <1>1, <1>2, SiteTables, Tables
  <2>2. PICK m : m = UpdateCap(g, Owner(g, e), d)
    OBVIOUS
  <2>3. Totals(g, m) /\ m.res = g.res /\ RaisedBy(g.cap, m.cap, Owner(g, e), d)
    <3> HIDE DEF d
    <3>. QED BY <1>1, <2>1, <2>2, UpdateDoes
  <2>4. PutIn(m, h, e, t)
    BY <1>4, <2>2 DEF SetUseAlt, PutIn
  <2>5. /\ Beside(g, h, e) /\ h.site[e] = t /\ h.changed = g.changed
        /\ h.res = g.res /\ h.cap = m.cap
    <3> HIDE DEF h, t
    <3>. QED BY <1>2, <2>3, <2>4, PutSite
  <2>6. CapKept(g, h, e)
    <3> HIDE DEF h, t, d
    <3>. QED BY <2>1, <2>3, <2>5, CapIfRaised
  <2>. QED BY <1>2, <2>5, <2>6
<1>. QED BY <1>3, <1>4

\* The tables for the materials are emptied.
LEMMA ClearAltDoes ==
  ASSUME NEW g, NEW e, Owned(g, e)
  PROVE  LET h == ClearAlt(g, e)
             t == h.site[e]
         IN  /\ Beside(g, h, e) /\ h.res = g.res /\ h.changed = g.changed
             /\ SameSite(g.site[e], t, {"altCapacity", "altDesired"})
             /\ t.altCapacity = Zero /\ t.altDesired = Zero
             /\ CapKept(g, h, e)
<1> DEFINE s == g.site[e]
           t == [s EXCEPT !.altCapacity = Zero, !.altDesired = Zero]
           d == IF s.useAlt THEN Minus(Zero, s.altCapacity) ELSE Zero
           h == ClearAlt(g, e)
<1>1. s \in SiteRecord /\ Owner(g, e) \in Faction /\ Shape(g)
  BY SiteThere
<1>2. /\ t \in SiteRecord /\ SameSite(s, t, {"altCapacity", "altDesired"})
      /\ t.altCapacity = Zero /\ t.altDesired = Zero
  BY <1>1, Tables DEF SiteRecord, SameSite
<1>3. /\ d \in Table
      /\ \A q \in Resource : d[q] = EffectiveCapacity(t)[q] - EffectiveCapacity(s)[q]
  <2>1. t.useAlt = s.useAlt /\ t.capacity = s.capacity /\ t.altCapacity = Zero
    BY <1>2 DEF SameSite
  <2>2. /\ s.altCapacity \in Table /\ Zero \in Table
        /\ \A q \in Resource : /\ s.capacity[q] \in Int /\ s.altCapacity[q] \in Int
                             /\ Zero[q] = 0
    <3> HIDE DEF s
    <3>. QED BY <1>1, SiteTables, Tables
  <2>3. CASE s.useAlt
    <3>1. d = Minus(Zero, s.altCapacity)
      BY <2>3
    <3>2. EffectiveCapacity(t) = Zero /\ EffectiveCapacity(s) = s.altCapacity
      BY <2>1, <2>3 DEF EffectiveCapacity
    <3> HIDE DEF t, s, d
    <3>. QED BY <2>2, <3>1, <3>2, Tables
  <2>4. CASE ~s.useAlt
    <3>1. d = Zero
      BY <2>4
    <3>2. EffectiveCapacity(t) = s.capacity /\ EffectiveCapacity(s) = s.capacity
      BY <2>1, <2>4 DEF EffectiveCapacity
    <3> HIDE DEF t, s, d
    <3>. QED BY <2>2, <3>1, <3>2
  <2>. QED BY <2>3, <2>4
<1>4. PICK m : m = IF s.useAlt THEN UpdateCap(g, Owner(g, e), Minus(Zero, s.altCapacity)) ELSE g
  OBVIOUS
<1>5. Totals(g, m) /\ m.res = g.res /\ RaisedBy(g.cap, m.cap, Owner(g, e), d)
  <2>1. CASE ~s.useAlt
    BY <1>4, <2>1, SiteThere
  <2>2. CASE s.useAlt
    <3>1. d = Minus(Zero, s.altCapacity) /\ m = UpdateCap(g, Owner(g, e), d)
      BY <1>4, <2>2
    <3> HIDE DEF d
    <3>. QED BY <1>1, <1>3, <3>1, UpdateDoes
  <2>. QED BY <2>1, <2>2
<1>6. PutIn(m, h, e, t)
  BY <1>4 DEF ClearAlt, PutIn
<1>7. /\ Beside(g, h, e) /\ h.site[e] = t /\ h.changed = g.changed
      /\ h.res = g.res /\ h.cap = m.cap
  <2> HIDE DEF h, t, d
  <2>. QED BY <1>2, <1>5, <1>6, PutSite
<1>8. CapKept(g, h, e)
  <2> HIDE DEF h, t, d
  <2>. QED BY <1>3, <1>5, <1>7, CapIfRaised
<1>. QED BY <1>2, <1>7, <1>8

\* What a site holds is used up; its faction's total of resources does not notice.
LEMMA ClearCurrDoes ==
  ASSUME NEW g, NEW e, Owned(g, e), g.site[e].altCapacity = Zero
  PROVE  LET h == ClearCurr(g, e)
             t == h.site[e]
         IN  /\ Beside(g, h, e) /\ h.res = g.res /\ h.changed = g.changed
             /\ SameSite(g.site[e], t, {"curr"}) /\ t.curr = Zero
             /\ CapKept(g, h, e)
<1> DEFINE s == g.site[e]
           t == [s EXCEPT !.curr = Zero]
           d == Minus(Zero, s.altCapacity)
           h == ClearCurr(g, e)
<1>1. s \in SiteRecord /\ Owner(g, e) \in Faction /\ Shape(g)
  BY SiteThere
<1>2. t \in SiteRecord /\ SameSite(s, t, {"curr"}) /\ t.curr = Zero
  BY <1>1, Tables DEF SiteRecord, SameSite
<1>3. /\ d \in Table
      /\ \A q \in Resource : d[q] = EffectiveCapacity(t)[q] - EffectiveCapacity(s)[q]
  <2>1. EffectiveCapacity(t) = EffectiveCapacity(s)
    BY <1>2 DEF SameSite, EffectiveCapacity
  <2>2. s.altCapacity = Zero
    OBVIOUS
  <2> HIDE DEF t, s
  <2>. QED BY <1>1, <2>1, <2>2, SiteTables, Tables
<1>4. PICK m : m = UpdateCap(g, Owner(g, e), d)
  OBVIOUS
<1>5. Totals(g, m) /\ m.res = g.res /\ RaisedBy(g.cap, m.cap, Owner(g, e), d) /\ m.site[e] = s
  <2>1. Totals(g, m) /\ m.res = g.res /\ RaisedBy(g.cap, m.cap, Owner(g, e), d)
    <3> HIDE DEF d
    <3>. QED BY <1>1, <1>3, <1>4, UpdateDoes
  <2>. QED BY <2>1 DEF Totals
<1>6. PutIn(m, h, e, t)
  <2>1. h = [m EXCEPT !.site[e].curr = Zero]
    BY <1>4 DEF ClearCurr
  <2> HIDE DEF h, s
  <2>. QED BY <1>5, <2>1 DEF PutIn
<1>7. /\ Beside(g, h, e) /\ h.site[e] = t /\ h.changed = g.changed
      /\ h.res = g.res /\ h.cap = m.cap
  <2> HIDE DEF h, t
  <2>. QED BY <1>2, <1>5, <1>6, PutSite
<1>8. CapKept(g, h, e)
  <2> HIDE DEF h, t, d
  <2>. QED BY <1>3, <1>5, <1>7, CapIfRaised
<1>. QED BY <1>2, <1>7, <1>8

\* A step that is about e, and steps that follow one another.
Kept(g, h, e) == ResKept(g, h, e) /\ CapKept(g, h, e) /\ BlockersKept(g, h, e)

LEMMA ApartFrom ==
  ASSUME NEW g, NEW h, NEW e, Beside(g, h, e)
  PROVE  Apart(g, h, e)
<1>1. DOMAIN h.site = DOMAIN g.site /\ \A x \in DOMAIN g.site \ {e} : h.site[x] = g.site[x]
  BY DEF Beside
<1>2. /\ h.build = g.build /\ h.faction = g.faction /\ h.pos = g.pos /\ h.listening = g.listening
      /\ \A x \in Entity \ {e} : h.changed[x] = g.changed[x]
  BY DEF Beside
<1>. QED BY <1>1, <1>2 DEF Apart

LEMMA ApartAfter ==
  ASSUME NEW g, NEW h, NEW k, NEW e, Apart(g, h, e), Apart(h, k, e)
  PROVE  Apart(g, k, e)
<1> SUFFICES ASSUME NEW x \in Entity \ {e}
             PROVE  /\ x \in DOMAIN g.site <=> x \in DOMAIN k.site
                    /\ x \in DOMAIN g.site => k.site[x] = g.site[x]
                    /\ x \in DOMAIN g.build <=> x \in DOMAIN k.build
                    /\ x \in DOMAIN g.build => k.build[x] = g.build[x]
                    /\ x \in DOMAIN g.faction <=> x \in DOMAIN k.faction
                    /\ x \in DOMAIN g.faction => k.faction[x] = g.faction[x]
                    /\ x \in DOMAIN g.pos <=> x \in DOMAIN k.pos
                    /\ x \in DOMAIN g.pos => k.pos[x] = g.pos[x]
                    /\ x \in g.listening <=> x \in k.listening
                    /\ k.changed[x] = g.changed[x]
  BY DEF Apart
<1>. QED BY DEF Apart

LEMMA KeptAfter ==
  ASSUME NEW g, NEW h, NEW k, NEW e
  PROVE  /\ ResKept(g, h, e) /\ ResKept(h, k, e) => ResKept(g, k, e)
         /\ CapKept(g, h, e) /\ CapKept(h, k, e) => CapKept(g, k, e)
         /\ BlockersKept(g, h, e) /\ BlockersKept(h, k, e) => BlockersKept(g, k, e)
BY DEF ResKept, CapKept, BlockersKept

\* The totals match if what they count is where it was.
LEMMA KeptIfAlike ==
  ASSUME NEW g, NEW h, NEW e
  PROVE  /\ h.res = g.res /\ h.site = g.site /\ h.faction = g.faction => ResKept(g, h, e)
         /\ h.cap = g.cap /\ h.site = g.site /\ h.faction = g.faction => CapKept(g, h, e)
         /\ (/\ h.blockers = g.blockers /\ h.build = g.build
             /\ h.faction = g.faction /\ h.pos = g.pos) => BlockersKept(g, h, e)
<1>1. ASSUME h.site = g.site, h.faction = g.faction
      PROVE  \A f : SitesOf(h, f) = SitesOf(g, f)
  BY <1>1 DEF SitesOf, Owner
<1>2. ASSUME h.build = g.build, h.faction = g.faction, h.pos = g.pos
      PROVE  \A f, p : BlockOf(h, e, f, p) = BlockOf(g, e, f, p)
  <2>1. \A f, p : Standing(h, f, p) = Standing(g, f, p)
    BY <1>2 DEF Standing, Owner
  <2>. QED BY <2>1 DEF BlockOf
<1>3. h.res = g.res /\ h.site = g.site /\ h.faction = g.faction => ResKept(g, h, e)
  BY <1>1 DEF ResKept, CurrOf
<1>4. h.cap = g.cap /\ h.site = g.site /\ h.faction = g.faction => CapKept(g, h, e)
  BY <1>1 DEF CapKept, RoomOf
<1>5. ASSUME h.blockers = g.blockers, h.build = g.build, h.faction = g.faction, h.pos = g.pos
      PROVE  BlockersKept(g, h, e)
  BY <1>2, <1>5 DEF BlockersKept
<1>. QED BY <1>3, <1>4, <1>5

\* Nothing but the sites and the totals of their factions.
SitesOnly(g, h) ==
  /\ Shape(h)
  /\ h.build = g.build /\ h.faction = g.faction /\ h.pos = g.pos
  /\ h.blockers = g.blockers /\ h.listening = g.listening /\ h.changed = g.changed

NewSiteOf(e) == [NewSite EXCEPT !.useAlt = e \in Buildings]

LEMMA NewSites ==
  /\ NewSite \in SiteRecord /\ \A e : NewSiteOf(e) \in SiteRecord
  /\ NewSite.curr = Zero /\ NewSite.capacity = Zero /\ NewSite.desired = Zero
  /\ NewSite.altCapacity = Zero /\ NewSite.altDesired = Zero /\ NewSite.useAlt = FALSE
  /\ EffectiveCapacity(NewSite) = Zero
  /\ \A e : /\ NewSiteOf(e).curr = Zero /\ NewSiteOf(e).capacity = Zero
            /\ NewSiteOf(e).desired = Zero /\ NewSiteOf(e).altCapacity = Zero
            /\ NewSiteOf(e).altDesired = Zero /\ NewSiteOf(e).useAlt = (e \in Buildings)
            /\ EffectiveCapacity(NewSiteOf(e)) = Zero
<1>1. Zero \in [Resource -> Nat]
  BY Tables
<1>2. NewSite \in SiteRecord
  BY <1>1 DEF NewSite, SiteRecord
<1>3. ASSUME NEW e PROVE NewSiteOf(e) \in SiteRecord
  <2>1. PICK b \in BOOLEAN : b = (e \in Buildings)
    <3>1. (e \in Buildings) \in BOOLEAN
      OBVIOUS
    <3>. QED BY <3>1
  <2>2. NewSiteOf(e) = [NewSite EXCEPT !.useAlt = b]
    BY <2>1, Zenon DEF NewSiteOf
  <2>. QED BY <1>1, <2>2 DEF NewSite, SiteRecord
<1>4. /\ NewSite.curr = Zero /\ NewSite.capacity = Zero /\ NewSite.desired = Zero
      /\ NewSite.altCapacity = Zero /\ NewSite.altDesired = Zero /\ NewSite.useAlt = FALSE
  BY Zenon DEF NewSite
<1>5. ASSUME NEW e
      PROVE  /\ NewSiteOf(e).curr = Zero /\ NewSiteOf(e).capacity = Zero
             /\ NewSiteOf(e).desired = Zero /\ NewSiteOf(e).altCapacity = Zero
             /\ NewSiteOf(e).altDesired = Zero /\ NewSiteOf(e).useAlt = (e \in Buildings)
  BY Zenon DEF NewSite, NewSiteOf
<1>6. EffectiveCapacity(NewSite) = Zero /\ \A e : EffectiveCapacity(NewSiteOf(e)) = Zero
  BY <1>4, <1>5 DEF EffectiveCapacity
<1>. QED BY <1>2, <1>3, <1>4, <1>5, <1>6

LEMMA AddSiteDoes ==
  ASSUME NEW g, Shape(g), NEW e \in Entity, e \notin DOMAIN g.site
  PROVE  LET h == AddSite(g, e)
         IN  /\ SitesOnly(g, h) /\ Apart(g, h, e) /\ h.res = g.res /\ h.cap = g.cap
             /\ DOMAIN h.site = DOMAIN g.site \union {e} /\ h.site[e] = NewSite
             /\ Kept(g, h, e)
<1> DEFINE h == AddSite(g, e)
<1>1. /\ h.site = [x \in DOMAIN g.site \union {e} |-> IF x = e THEN NewSite ELSE g.site[x]]
      /\ IsGame(h) /\ \A k \in Fields \ {"site"} : h[k] = g[k]
  <2>1. IsGame(g)
    BY DEF Shape
  <2>2. PICK t : t = [x \in DOMAIN g.site \union {e} |-> IF x = e THEN NewSite ELSE g.site[x]]
    OBVIOUS
  <2>3. h = [g EXCEPT !.site = t]
    BY <2>2 DEF AddSite
  <2>4. h.site = t /\ IsGame(h) /\ \A k \in Fields \ {"site"} : h[k] = g[k]
    BY <2>1, <2>3 DEF IsGame, Fields
  <2>. QED BY <2>2, <2>4
<1>2. /\ h.build = g.build /\ h.faction = g.faction /\ h.pos = g.pos /\ h.cap = g.cap
      /\ h.blockers = g.blockers /\ h.listening = g.listening /\ h.changed = g.changed
      /\ h.res = g.res
  BY <1>1 DEF Fields
<1>3. /\ DOMAIN h.site = DOMAIN g.site \union {e} /\ h.site[e] = NewSite
      /\ \A x \in DOMAIN g.site : h.site[x] = g.site[x]
  BY <1>1
<1> HIDE DEF h
<1>4. Shape(h)
  <2>1. h.site \in [DOMAIN h.site -> SiteRecord] /\ DOMAIN h.site \subseteq Entity
    BY <1>1, <1>3, NewSites DEF Shape
  <2>. QED BY <1>1, <1>2, <2>1 DEF Shape
<1>5. SitesOnly(g, h)
  BY <1>2, <1>4 DEF SitesOnly
<1>6. Apart(g, h, e)
  BY <1>2, <1>3 DEF Apart
<1>7. \A f \in Faction, r \in Resource :
        /\ CurrOf(h, e, f, r) = 0 /\ RoomOf(h, e, f, r) = 0
        /\ CurrOf(g, e, f, r) = 0 /\ RoomOf(g, e, f, r) = 0
  BY <1>3, NewSites, Tables DEF CurrOf, RoomOf, SitesOf
<1>8. ResKept(g, h, e) /\ CapKept(g, h, e)
  BY <1>2, <1>7 DEF ResKept, CapKept
<1>9. BlockersKept(g, h, e)
  BY <1>2, KeptIfAlike
<1>. QED BY <1>2, <1>3, <1>5, <1>6, <1>8, <1>9 DEF Kept, h

LEMMA RemoveSiteDoes ==
  ASSUME NEW g, Shape(g), NEW e \in Entity, e \in DOMAIN g.site => e \in DOMAIN g.faction
  PROVE  LET h == RemoveSite(g, e)
         IN  /\ SitesOnly(g, h) /\ Apart(g, h, e)
             /\ DOMAIN h.site = DOMAIN g.site \ {e}
             /\ Kept(g, h, e)
<1>1. CASE e \notin DOMAIN g.site
  <2>1. RemoveSite(g, e) = g
    BY <1>1 DEF RemoveSite
  <2>2. SitesOnly(g, g) /\ Apart(g, g, e) /\ Kept(g, g, e) /\ DOMAIN g.site = DOMAIN g.site \ {e}
    <3>1. ResKept(g, g, e) /\ CapKept(g, g, e) /\ BlockersKept(g, g, e)
      BY KeptIfAlike
    <3>2. Apart(g, g, e) /\ SitesOnly(g, g)
      BY DEF SitesOnly, Apart
    <3>. QED BY <1>1, <3>1, <3>2 DEF Kept
  <2>. QED BY <2>1, <2>2
<1>2. CASE e \in DOMAIN g.site
  <2> DEFINE s == g.site[e]
             f == Owner(g, e)
             c == Minus(Zero, s.curr)
             d == Minus(Zero, EffectiveCapacity(s))
             h == RemoveSite(g, e)
  <2>1. Owned(g, e) /\ s \in SiteRecord /\ f \in Faction
    BY <1>2, OwnedSite DEF Owned
  <2>2. /\ c \in Table /\ d \in Table
        /\ \A r \in Resource : c[r] = 0 - s.curr[r] /\ d[r] = 0 - EffectiveCapacity(s)[r]
    <3>1. Zero \in Table /\ s.curr \in Table /\ EffectiveCapacity(s) \in Table
      <4> HIDE DEF s
      <4>. QED BY <2>1, SiteTables, Tables
    <3> HIDE DEF s
    <3>. QED BY <3>1, Tables
  <2>3. PICK m : m = UpdateRes(g, f, c)
    OBVIOUS
  <2>4. Totals(g, m) /\ m.cap = g.cap /\ RaisedBy(g.res, m.res, f, c)
    <3> HIDE DEF c, f
    <3>. QED BY <2>1, <2>2, <2>3, UpdateDoes
  <2>5. Shape(m)
    BY <2>4 DEF Shape, Totals
  <2>6. PICK k : k = UpdateCap(m, f, d)
    OBVIOUS
  <2>7. Totals(m, k) /\ k.res = m.res /\ RaisedBy(m.cap, k.cap, f, d)
    <3> HIDE DEF d, f
    <3>. QED BY <2>1, <2>2, <2>5, <2>6, UpdateDoes
  <2>8. h = [k EXCEPT !.site = Restrict(@, DOMAIN @ \ {e})]
    BY <1>2, <2>3, <2>6 DEF RemoveSite
  <2> HIDE DEF h, c, d
  <2>9. /\ IsGame(h) /\ h.site = [x \in DOMAIN g.site \ {e} |-> g.site[x]]
        /\ \A i \in Fields \ {"site"} : h[i] = k[i]
    BY <2>4, <2>7, <2>8 DEF Totals, IsGame, Fields, Restrict
  <2>10. /\ h.build = g.build /\ h.faction = g.faction /\ h.pos = g.pos
         /\ h.blockers = g.blockers /\ h.listening = g.listening /\ h.changed = g.changed
         /\ h.res = k.res /\ h.cap = k.cap
    BY <2>4, <2>7, <2>9 DEF Totals, Fields
  <2>11. /\ DOMAIN h.site = DOMAIN g.site \ {e}
         /\ \A x \in DOMAIN g.site \ {e} : h.site[x] = g.site[x]
    BY <2>9
  <2>12. Shape(h)
    <3>1. h.site \in [DOMAIN h.site -> SiteRecord] /\ DOMAIN h.site \subseteq Entity
      BY <2>9, <2>11 DEF Shape
    <3>2. h.res \in [Faction -> Table] /\ h.cap \in [Faction -> Table]
      BY <2>7, <2>10 DEF Totals
    <3>. QED BY <2>9, <2>10, <3>1, <3>2 DEF Shape
  <2>13. SitesOnly(g, h) /\ Apart(g, h, e)
    BY <2>10, <2>11, <2>12 DEF SitesOnly, Apart
  <2>14. \A i \in Faction, r \in Resource :
           /\ CurrOf(h, e, i, r) = 0 /\ RoomOf(h, e, i, r) = 0
           /\ CurrOf(g, e, i, r) = IF i = f THEN s.curr[r] ELSE 0
           /\ RoomOf(g, e, i, r) = IF i = f THEN EffectiveCapacity(s)[r] ELSE 0
    BY <1>2, <2>11 DEF CurrOf, RoomOf, SitesOf
  <2>15. \A i \in Faction, r \in Resource :
           /\ s.curr[r] \in Int /\ EffectiveCapacity(s)[r] \in Int
           /\ g.res[i][r] \in Int /\ g.cap[i][r] \in Int
    <3> HIDE DEF s
    <3>. QED BY <2>1, SiteTables DEF Shape, Table
  <2> HIDE DEF s, f
  <2>16. ResKept(g, h, e)
    BY <2>2, <2>4, <2>7, <2>10, <2>14, <2>15 DEF ResKept, RaisedBy
  <2>17. CapKept(g, h, e)
    BY <2>2, <2>4, <2>7, <2>10, <2>14, <2>15 DEF CapKept, RaisedBy
  <2>18. BlockersKept(g, h, e)
    BY <2>10, KeptIfAlike
  <2>. QED BY <2>11, <2>13, <2>16, <2>17, <2>18 DEF Kept, h
<1>. QED BY <1>1, <1>2
-----------------------------------------------------------------------------
(* Entities that are added *)

Works(g, h, e) == Shape(h) /\ Apart(g, h, e) /\ BlockersKept(g, h, e)

LEMMA WorksAfter ==
  ASSUME NEW g, NEW h, NEW k, NEW e, Works(g, h, e), Works(h, k, e)
  PROVE  Works(g, k, e)
<1>1. Apart(g, k, e)
  BY ApartAfter DEF Works
<1>2. BlockersKept(g, k, e)
  BY KeptAfter DEF Works
<1>. QED BY <1>1, <1>2 DEF Works

LEMMA BesideWorks ==
  ASSUME NEW g, NEW e, Owned(g, e), NEW h, Beside(g, h, e)
  PROVE  Works(g, h, e)
<1>1. Apart(g, h, e)
  BY ApartFrom
<1>2. BlockersKept(g, h, e)
  BY KeptIfSame
<1>. QED BY <1>1, <1>2 DEF Works, Beside

Absent(g, e) ==
  /\ e \notin DOMAIN g.faction /\ e \notin DOMAIN g.pos
  /\ e \notin DOMAIN g.build /\ e \notin DOMAIN g.site /\ e \notin g.listening

\* What is there of an entity that has been added, and of one whose faction was set.
Fresh(p, isSite) == [state |-> Placement, blocking |-> FALSE, isSite |-> isSite,
                     place |-> p, required |-> Zero]
Entered(h, e, p, f, isSite) ==
  /\ e \in DOMAIN h.faction /\ h.faction[e] = f
  /\ e \in DOMAIN h.pos /\ h.pos[e] = p
  /\ e \in DOMAIN h.build <=> e \in Buildings
  /\ e \in Buildings => h.build[e] = Fresh(p, isSite)
  /\ e \in DOMAIN h.site <=> isSite \/ e \in Buildings
  /\ e \in DOMAIN h.site => h.site[e] = NewSiteOf(e)
  /\ e \notin h.listening

\* An entity with a faction and a place, and nothing else yet.
Enter(g, e, p) == [g EXCEPT !.faction = With(@, e, Neutral), !.pos = With(@, e, p)]

LEMMA Enters ==
  ASSUME NEW g, Shape(g), NEW e \in Entity, Absent(g, e), NEW p \in Place
  PROVE  LET h == Enter(g, e, p)
         IN  /\ Works(g, h, e) /\ ResKept(g, h, e) /\ CapKept(g, h, e)
             /\ h.changed = g.changed /\ h.site = g.site /\ h.build = g.build
             /\ h.listening = g.listening
             /\ e \in DOMAIN h.faction /\ h.faction[e] = Neutral
             /\ e \in DOMAIN h.pos /\ h.pos[e] = p
<1>1. PICK fac : fac = [x \in DOMAIN g.faction \union {e} |-> IF x = e THEN Neutral ELSE g.faction[x]]
  OBVIOUS
<1>2. PICK pos : pos = [x \in DOMAIN g.pos \union {e} |-> IF x = e THEN p ELSE g.pos[x]]
  OBVIOUS
<1>3. PICK h : h = Enter(g, e, p)
  OBVIOUS
<1>4. h = [g EXCEPT !.faction = fac, !.pos = pos]
  BY <1>1, <1>2, <1>3 DEF With, Enter
<1>5. IsGame(h) /\ h.faction = fac /\ h.pos = pos /\ \A k \in Fields \ {"faction", "pos"} : h[k] = g[k]
  BY <1>4 DEF Shape, IsGame, Fields
<1>6. /\ h.build = g.build /\ h.site = g.site /\ h.res = g.res /\ h.cap = g.cap
      /\ h.blockers = g.blockers /\ h.listening = g.listening /\ h.changed = g.changed
  BY <1>5 DEF Fields
<1>7. /\ DOMAIN h.faction = DOMAIN g.faction \union {e} /\ h.faction[e] = Neutral
      /\ \A x \in DOMAIN g.faction : h.faction[x] = g.faction[x]
      /\ DOMAIN h.pos = DOMAIN g.pos \union {e} /\ h.pos[e] = p
      /\ \A x \in DOMAIN g.pos : h.pos[x] = g.pos[x]
  BY <1>1, <1>2, <1>5 DEF Absent
<1>8. Shape(h)
  <2>1. h.faction \in [DOMAIN h.faction -> Faction] /\ h.pos \in [DOMAIN h.pos -> Place]
    BY <1>1, <1>2, <1>5, <1>7 DEF Shape
  <2>. QED BY <1>5, <1>6, <1>7, <2>1 DEF Shape
<1>9. Apart(g, h, e)
  BY <1>6, <1>7 DEF Apart
<1>10. \A f, r : /\ CurrOf(h, e, f, r) = 0 /\ RoomOf(h, e, f, r) = 0
                 /\ CurrOf(g, e, f, r) = 0 /\ RoomOf(g, e, f, r) = 0
  BY <1>6 DEF CurrOf, RoomOf, SitesOf, Absent
<1>11. \A f, q : BlockOf(h, e, f, q) = 0 /\ BlockOf(g, e, f, q) = 0
  BY <1>6 DEF BlockOf, Standing, Absent
<1>12. ResKept(g, h, e) /\ CapKept(g, h, e) /\ BlockersKept(g, h, e)
  BY <1>6, <1>10, <1>11 DEF ResKept, CapKept, BlockersKept
<1>. QED BY <1>3, <1>6, <1>7, <1>8, <1>9, <1>12 DEF Works

\* The record of a building that blocks nothing.
PutBuilding(g, e, b) ==
  [g EXCEPT !.build = [x \in DOMAIN @ \union {e} |-> IF x = e THEN b ELSE @[x]]]

LEMMA BuildingPut ==
  ASSUME NEW g, Shape(g), NEW e \in Entity, e \notin DOMAIN g.build,
         NEW b \in BuildRecord, ~b.blocking
  PROVE  LET h == PutBuilding(g, e, b)
         IN  /\ Works(g, h, e) /\ ResKept(g, h, e) /\ CapKept(g, h, e)
             /\ h.changed = g.changed /\ h.site = g.site /\ h.faction = g.faction
             /\ h.pos = g.pos /\ h.listening = g.listening
             /\ e \in DOMAIN h.build /\ h.build[e] = b
<1>1. PICK t : t = [x \in DOMAIN g.build \union {e} |-> IF x = e THEN b ELSE g.build[x]]
  OBVIOUS
<1>2. PICK h : h = PutBuilding(g, e, b)
  OBVIOUS
<1>3. h = [g EXCEPT !.build = t]
  BY <1>1, <1>2 DEF PutBuilding
<1>4. IsGame(h) /\ h.build = t /\ \A k \in Fields \ {"build"} : h[k] = g[k]
  BY <1>3 DEF Shape, IsGame, Fields
<1>5. /\ h.site = g.site /\ h.res = g.res /\ h.cap = g.cap /\ h.faction = g.faction
      /\ h.pos = g.pos /\ h.blockers = g.blockers /\ h.listening = g.listening
      /\ h.changed = g.changed
  BY <1>4 DEF Fields
<1>6. /\ DOMAIN h.build = DOMAIN g.build \union {e} /\ h.build[e] = b
      /\ \A x \in DOMAIN g.build : h.build[x] = g.build[x]
  BY <1>1, <1>4
<1>7. Shape(h)
  <2>1. h.build \in [DOMAIN h.build -> BuildRecord]
    BY <1>1, <1>4, <1>6 DEF Shape
  <2>. QED BY <1>4, <1>5, <1>6, <2>1 DEF Shape
<1>8. Apart(g, h, e)
  BY <1>5, <1>6 DEF Apart
<1>9. ResKept(g, h, e) /\ CapKept(g, h, e)
  BY <1>5, KeptIfAlike
<1>10. \A f, q : BlockOf(h, e, f, q) = 0 /\ BlockOf(g, e, f, q) = 0
  BY <1>6 DEF BlockOf, Standing
<1>11. BlockersKept(g, h, e)
  BY <1>5, <1>10 DEF BlockersKept
<1>. QED BY <1>2, <1>5, <1>6, <1>7, <1>8, <1>9, <1>11 DEF Works

\* A site that is added, with the alternative tables in use for a building.
LEMMA SiteEnters ==
  ASSUME NEW g, Shape(g), NEW e \in Entity, e \notin DOMAIN g.site
  PROVE  LET h == AddSite(g, e)
         IN  /\ Works(g, h, e) /\ ResKept(g, h, e) /\ CapKept(g, h, e)
             /\ h.changed = g.changed /\ h.build = g.build /\ h.faction = g.faction
             /\ h.pos = g.pos /\ h.listening = g.listening
             /\ e \in DOMAIN h.site /\ h.site[e] = NewSite
<1> DEFINE h == AddSite(g, e)
<1>1. /\ SitesOnly(g, h) /\ Apart(g, h, e) /\ Kept(g, h, e)
      /\ DOMAIN h.site = DOMAIN g.site \union {e} /\ h.site[e] = NewSite
  BY AddSiteDoes
<1> HIDE DEF h
<1>2. QED BY <1>1 DEF SitesOnly, Kept, Works, h

LEMMA UsesAlt ==
  ASSUME NEW g, NEW e, Owned(g, e), g.site[e] = NewSite, e \in Buildings
  PROVE  LET h == SetUseAlt(g, e, TRUE)
         IN  /\ Works(g, h, e) /\ ResKept(g, h, e) /\ CapKept(g, h, e)
             /\ h.changed = g.changed /\ h.build = g.build /\ h.faction = g.faction
             /\ h.pos = g.pos /\ h.listening = g.listening
             /\ e \in DOMAIN h.site /\ h.site[e] = NewSiteOf(e)
<1> DEFINE h == SetUseAlt(g, e, TRUE)
<1>1. /\ Beside(g, h, e) /\ h.res = g.res /\ h.changed = g.changed /\ CapKept(g, h, e)
      /\ SameSite(g.site[e], h.site[e], {"useAlt"}) /\ h.site[e].useAlt = TRUE
  BY SetUseAltDoes
<1> HIDE DEF h
<1>2. h.site[e].curr = g.site[e].curr
  BY <1>1 DEF SameSite
<1>3. Works(g, h, e) /\ ResKept(g, h, e)
  BY <1>1, <1>2, BesideWorks, KeptIfSame
<1>4. /\ h.build = g.build /\ h.faction = g.faction /\ h.pos = g.pos
      /\ h.listening = g.listening /\ e \in DOMAIN h.site
  BY <1>1 DEF Beside, Owned
<1>5. h.site[e] = NewSiteOf(e)
  <2>1. h.site[e] \in SiteRecord
    BY <1>1, OwnedSite
  <2>2. NewSiteOf(e) \in SiteRecord /\ NewSiteOf(e).useAlt = TRUE
    BY NewSites
  <2>3. SameSite(NewSite, NewSiteOf(e), {"useAlt"})
    BY NewSites DEF SameSite
  <2>4. SameSite(NewSite, h.site[e], {"useAlt"})
    BY <1>1
  <2>. QED BY <1>1, <2>1, <2>2, <2>3, <2>4 DEF SameSite, SiteRecord
<1>. QED BY <1>1, <1>3, <1>4, <1>5 DEF h

LEMMA AddBuildingDoes ==
  ASSUME NEW g, Shape(g), NEW e \in Entity, e \in Buildings, NEW isSite \in BOOLEAN,
         NEW p \in Place, e \in DOMAIN g.pos, g.pos[e] = p, e \in DOMAIN g.faction,
         e \notin DOMAIN g.build,
         e \in DOMAIN g.site <=> isSite, isSite => g.site[e] = NewSite
  PROVE  LET h == AddBuilding(g, e, isSite)
         IN  /\ Works(g, h, e) /\ ResKept(g, h, e) /\ CapKept(g, h, e)
             /\ h.changed = g.changed /\ h.faction = g.faction
             /\ h.pos = g.pos /\ h.listening = g.listening
             /\ e \in DOMAIN h.build /\ h.build[e] = Fresh(p, isSite)
             /\ e \in DOMAIN h.site /\ h.site[e] = NewSiteOf(e)
<1>1. PICK b : b = Fresh(p, isSite)
  OBVIOUS
<1>2. b \in BuildRecord /\ ~b.blocking
  BY <1>1, Tables DEF Fresh, BuildRecord, Placement, Completed
<1>3. PICK h : h = PutBuilding(g, e, b)
  OBVIOUS
<1>4. /\ Works(g, h, e) /\ ResKept(g, h, e) /\ CapKept(g, h, e)
      /\ h.changed = g.changed /\ h.site = g.site /\ h.faction = g.faction
      /\ h.pos = g.pos /\ h.listening = g.listening
      /\ e \in DOMAIN h.build /\ h.build[e] = b
  BY <1>2, <1>3, BuildingPut
<1>5. PICK k : k = IF isSite THEN h ELSE AddSite(h, e)
  OBVIOUS
<1>6. /\ Works(g, k, e) /\ ResKept(g, k, e) /\ CapKept(g, k, e)
      /\ k.changed = g.changed /\ k.faction = g.faction
      /\ k.pos = g.pos /\ k.listening = g.listening /\ k.build = h.build
      /\ e \in DOMAIN k.site /\ k.site[e] = NewSite
  <2>1. CASE isSite
    BY <1>4, <1>5, <2>1
  <2>2. CASE ~isSite
    <3>1. k = AddSite(h, e) /\ Shape(h) /\ e \notin DOMAIN h.site
      BY <1>4, <1>5, <2>2 DEF Works
    <3>2. /\ Works(h, k, e) /\ ResKept(h, k, e) /\ CapKept(h, k, e)
          /\ k.changed = h.changed /\ k.build = h.build /\ k.faction = h.faction
          /\ k.pos = h.pos /\ k.listening = h.listening
          /\ e \in DOMAIN k.site /\ k.site[e] = NewSite
      BY <3>1, SiteEnters
    <3>. QED BY <1>4, <3>2, WorksAfter, KeptAfter
  <2>. QED BY <2>1, <2>2
<1>7. PICK m : m = SetUseAlt(k, e, TRUE)
  OBVIOUS
<1>8. Owned(k, e)
  BY <1>6 DEF Owned, Works
<1>9. /\ Works(k, m, e) /\ ResKept(k, m, e) /\ CapKept(k, m, e)
      /\ m.changed = k.changed /\ m.build = k.build /\ m.faction = k.faction
      /\ m.pos = k.pos /\ m.listening = k.listening
      /\ e \in DOMAIN m.site /\ m.site[e] = NewSiteOf(e)
  BY <1>6, <1>7, <1>8, UsesAlt
<1>10. Works(g, m, e) /\ ResKept(g, m, e) /\ CapKept(g, m, e)
  BY <1>6, <1>9, WorksAfter, KeptAfter
<1>11. AddBuilding(g, e, isSite) = m
  BY <1>1, <1>3, <1>5, <1>7 DEF AddBuilding, Fresh, PutBuilding
<1>. QED BY <1>1, <1>4, <1>6, <1>9, <1>10, <1>11

LEMMA AddEntityDoes ==
  ASSUME NEW g, Shape(g), NEW e \in Entity, Absent(g, e), NEW p \in Place,
         NEW hasSite \in BOOLEAN
  PROVE  LET h == AddEntity(g, e, p, hasSite)
         IN  /\ Works(g, h, e) /\ ResKept(g, h, e) /\ CapKept(g, h, e)
             /\ h.changed = g.changed /\ Entered(h, e, p, Neutral, hasSite)
<1>1. PICK h : h = Enter(g, e, p)
  OBVIOUS
<1>2. /\ Works(g, h, e) /\ ResKept(g, h, e) /\ CapKept(g, h, e)
      /\ h.changed = g.changed /\ h.site = g.site /\ h.build = g.build
      /\ h.listening = g.listening
      /\ e \in DOMAIN h.faction /\ h.faction[e] = Neutral
      /\ e \in DOMAIN h.pos /\ h.pos[e] = p
  BY <1>1, Enters
<1>3. /\ Shape(h) /\ e \notin DOMAIN h.site /\ e \notin DOMAIN h.build
      /\ e \notin h.listening
  BY <1>2 DEF Works, Absent
<1>4. PICK k : k = IF hasSite THEN AddSite(h, e) ELSE h
  OBVIOUS
<1>5. /\ Works(g, k, e) /\ ResKept(g, k, e) /\ CapKept(g, k, e)
      /\ k.changed = g.changed /\ k.faction = h.faction /\ k.pos = h.pos
      /\ k.listening = h.listening /\ k.build = h.build
      /\ e \in DOMAIN k.site <=> hasSite
      /\ hasSite => k.site[e] = NewSite
  <2>1. CASE hasSite
    <3>1. /\ Works(h, k, e) /\ ResKept(h, k, e) /\ CapKept(h, k, e)
          /\ k.changed = h.changed /\ k.build = h.build /\ k.faction = h.faction
          /\ k.pos = h.pos /\ k.listening = h.listening
          /\ e \in DOMAIN k.site /\ k.site[e] = NewSite
      BY <1>3, <1>4, <2>1, SiteEnters
    <3>. QED BY <1>2, <2>1, <3>1, WorksAfter, KeptAfter
  <2>2. CASE ~hasSite
    BY <1>2, <1>3, <1>4, <2>2
  <2>. QED BY <2>1, <2>2
<1>6. CASE e \notin Buildings
  <2>1. AddEntity(g, e, p, hasSite) = k
    BY <1>1, <1>4, <1>6 DEF AddEntity, Enter
  <2>2. NewSiteOf(e) = NewSite
    <3>1. PICK b \in BOOLEAN : b = (e \in Buildings)
      <4>1. (e \in Buildings) \in BOOLEAN
        OBVIOUS
      <4>. QED BY <4>1
    <3>2. NewSiteOf(e) = [NewSite EXCEPT !.useAlt = b]
      BY <3>1, Zenon DEF NewSiteOf
    <3>3. b = FALSE
      BY <1>6, <3>1
    <3>. QED BY <3>2, <3>3 DEF NewSite
  <2>3. Entered(k, e, p, Neutral, hasSite)
    BY <1>2, <1>3, <1>5, <1>6, <2>2 DEF Entered
  <2>. QED BY <1>5, <2>1, <2>3
<1>7. CASE e \in Buildings
  <2>1. PICK m : m = AddBuilding(k, e, hasSite)
    OBVIOUS
  <2>2. AddEntity(g, e, p, hasSite) = m
    BY <1>1, <1>4, <1>7, <2>1 DEF AddEntity, Enter
  <2>3. Shape(k)
    BY <1>5 DEF Works
  <2>4. /\ Works(k, m, e) /\ ResKept(k, m, e) /\ CapKept(k, m, e)
        /\ m.changed = k.changed /\ m.faction = k.faction
        /\ m.pos = k.pos /\ m.listening = k.listening
        /\ e \in DOMAIN m.build /\ m.build[e] = Fresh(p, hasSite)
        /\ e \in DOMAIN m.site /\ m.site[e] = NewSiteOf(e)
    BY <1>2, <1>3, <1>5, <1>7, <2>1, <2>3, AddBuildingDoes
  <2>5. Works(g, m, e) /\ ResKept(g, m, e) /\ CapKept(g, m, e)
    BY <1>5, <2>4, WorksAfter, KeptAfter
  <2>6. Entered(m, e, p, Neutral, hasSite)
    BY <1>2, <1>3, <1>5, <1>7, <2>4 DEF Entered
  <2>. QED BY <1>2, <1>5, <2>2, <2>4, <2>5, <2>6
<1>. QED BY <1>6, <1>7
-----------------------------------------------------------------------------
(* building.c *)

\* The blockers of one faction on one place, counted up or down.
CountedBy(old, new, f, p, n) ==
  /\ new \in [Faction -> [Place -> Int]]
  /\ \A i \in Faction, q \in Place :
       new[i][q] = IF i = f /\ q = p THEN old[i][q] + n ELSE old[i][q]
BlockersOnly(g, h) ==
  /\ IsGame(h) /\ h.site = g.site /\ h.build = g.build /\ h.faction = g.faction
  /\ h.res = g.res /\ h.cap = g.cap /\ h.pos = g.pos
  /\ h.listening = g.listening /\ h.changed = g.changed

LEMMA CountDoes ==
  ASSUME NEW g, IsGame(g), g.blockers \in [Faction -> [Place -> Int]],
         NEW f \in Faction, NEW p \in Place
  PROVE  /\ BlockersOnly(g, Incref(g, f, p)) /\ BlockersOnly(g, Decref(g, f, p))
         /\ CountedBy(g.blockers, Incref(g, f, p).blockers, f, p, 1)
         /\ CountedBy(g.blockers, Decref(g, f, p).blockers, f, p, -1)
<1>1. PICK up : up = [g.blockers EXCEPT ![f][p] = @ + 1]
  OBVIOUS
<1>2. PICK down : down = [g.blockers EXCEPT ![f][p] = @ - 1]
  OBVIOUS
<1>3. CountedBy(g.blockers, up, f, p, 1)
  BY <1>1 DEF CountedBy
<1>4. CountedBy(g.blockers, down, f, p, -1)
  BY <1>2 DEF CountedBy
<1>5. /\ IsGame(Incref(g, f, p)) /\ Incref(g, f, p).blockers = up
      /\ \A k \in Fields \ {"blockers"} : Incref(g, f, p)[k] = g[k]
  <2>1. Incref(g, f, p) = [g EXCEPT !.blockers = up]
    BY <1>1 DEF Incref
  <2>. QED BY <2>1 DEF IsGame, Fields
<1>6. /\ IsGame(Decref(g, f, p)) /\ Decref(g, f, p).blockers = down
      /\ \A k \in Fields \ {"blockers"} : Decref(g, f, p)[k] = g[k]
  <2>1. Decref(g, f, p) = [g EXCEPT !.blockers = down]
    BY <1>2 DEF Decref
  <2>. QED BY <2>1 DEF IsGame, Fields
<1>7. BlockersOnly(g, Incref(g, f, p))
  BY <1>5 DEF BlockersOnly, Fields
<1>8. BlockersOnly(g, Decref(g, f, p))
  BY <1>6 DEF BlockersOnly, Fields
<1>. QED BY <1>3, <1>4, <1>5, <1>6, <1>7, <1>8

\* The record of a building is replaced.
PutWork(g, h, e, b) ==
  /\ IsGame(h) /\ h.build = [g.build EXCEPT ![e] = b]
  /\ h.site = g.site /\ h.faction = g.faction /\ h.res = g.res /\ h.cap = g.cap
  /\ h.pos = g.pos /\ h.changed = g.changed

LEMMA BuildReplaced ==
  ASSUME NEW g, Shape(g), NEW e \in Entity, e \in DOMAIN g.build, NEW b \in BuildRecord,
         NEW h, PutWork(g, h, e, b), h.blockers \in [Faction -> [Place -> Int]],
         h.listening \subseteq Entity, h.listening \ {e} = g.listening \ {e}
  PROVE  /\ Shape(h) /\ Apart(g, h, e) /\ ResKept(g, h, e) /\ CapKept(g, h, e)
         /\ DOMAIN h.build = DOMAIN g.build /\ h.build[e] = b
<1>1. /\ DOMAIN h.build = DOMAIN g.build /\ h.build[e] = b
      /\ \A x \in DOMAIN g.build \ {e} : h.build[x] = g.build[x]
      /\ h.build \in [DOMAIN h.build -> BuildRecord]
  BY DEF PutWork, Shape
<1>2. Shape(h)
  BY <1>1 DEF Shape, PutWork
<1>3. Apart(g, h, e)
  <2>1. \A x \in Entity \ {e} : x \in g.listening <=> x \in h.listening
    OBVIOUS
  <2>. QED BY <1>1, <2>1 DEF Apart, PutWork
<1>4. ResKept(g, h, e) /\ CapKept(g, h, e)
  BY KeptIfAlike DEF PutWork
<1>. QED BY <1>1, <1>2, <1>3, <1>4

\* Where a building of an entity that is placed blocks.
LEMMA BlockWhere ==
  ASSUME NEW g, NEW e, e \in DOMAIN g.build, NEW f, NEW p
  PROVE  BlockOf(g, e, f, p) =
           IF /\ g.build[e].state >= Founded /\ g.build[e].blocking
              /\ Owner(g, e) = f /\ g.pos[e] = p
           THEN 1 ELSE 0
BY DEF BlockOf, Standing

LEMMA RemoveBuildingDoes ==
  ASSUME NEW g, Shape(g), NEW e \in Entity, Placed(g, e),
         e \in DOMAIN g.build => BuildOK(g, e)
  PROVE  LET h == RemoveBuilding(g, e)
         IN  /\ Works(g, h, e) /\ ResKept(g, h, e) /\ CapKept(g, h, e)
             /\ h.site = g.site /\ h.faction = g.faction /\ h.pos = g.pos
             /\ h.changed = g.changed
             /\ e \notin DOMAIN h.build /\ e \notin h.listening
<1>1. CASE e \notin DOMAIN g.build
  <2>1. RemoveBuilding(g, e) = g
    BY <1>1 DEF RemoveBuilding
  <2>2. ResKept(g, g, e) /\ CapKept(g, g, e) /\ BlockersKept(g, g, e)
    BY KeptIfAlike
  <2>3. Apart(g, g, e) /\ e \notin g.listening
    BY <1>1 DEF Apart, Placed
  <2>. QED BY <1>1, <2>1, <2>2, <2>3 DEF Works
<1>2. CASE e \in DOMAIN g.build
  <2> DEFINE b == g.build[e]
             blocks == b.state >= Founded /\ b.blocking
  <2>1. /\ b \in BuildRecord /\ Owner(g, e) \in Faction /\ b.place \in Place
        /\ blocks => b.place = g.pos[e]
    BY <1>2 DEF Shape, Placed, Owner, BuildRecord, BuildOK
  <2>2. PICK m : m = IF blocks THEN Decref(g, Owner(g, e), b.place) ELSE g
    OBVIOUS
  <2>3. /\ BlockersOnly(g, m) /\ m.blockers \in [Faction -> [Place -> Int]]
        /\ \A i \in Faction, q \in Place :
             m.blockers[i][q] = IF blocks /\ i = Owner(g, e) /\ q = b.place
                                THEN g.blockers[i][q] + -1 ELSE g.blockers[i][q]
    <3>1. CASE blocks
      <4>1. m = Decref(g, Owner(g, e), b.place)
        BY <2>2, <3>1
      <4>2. CountedBy(g.blockers, m.blockers, Owner(g, e), b.place, -1) /\ BlockersOnly(g, m)
        <5> HIDE DEF b
        <5>. QED BY <2>1, <4>1, CountDoes DEF Shape
      <4>. QED BY <3>1, <4>2 DEF CountedBy
    <3>2. CASE ~blocks
      <4>1. m = g
        BY <2>2, <3>2
      <4>. QED BY <3>2, <4>1 DEF BlockersOnly, Shape
    <3>. QED BY <3>1, <3>2
  <2>4. PICK h : h = RemoveBuilding(g, e)
    OBVIOUS
  <2>5. PICK t : t = [x \in DOMAIN g.build \ {e} |-> g.build[x]]
    OBVIOUS
  <2>6. h = [m EXCEPT !.build = t, !.listening = g.listening \ {e}]
    BY <1>2, <2>2, <2>3, <2>4, <2>5 DEF RemoveBuilding, Restrict, BlockersOnly
  <2>7. /\ IsGame(h) /\ h.build = t /\ h.listening = g.listening \ {e}
        /\ \A k \in Fields \ {"build", "listening"} : h[k] = m[k]
    BY <2>3, <2>6 DEF IsGame, Fields, BlockersOnly
  <2>8. /\ h.site = g.site /\ h.faction = g.faction /\ h.pos = g.pos /\ h.res = g.res
        /\ h.cap = g.cap /\ h.changed = g.changed /\ h.blockers = m.blockers
    BY <2>3, <2>7 DEF BlockersOnly, Fields
  <2>9. /\ DOMAIN h.build = DOMAIN g.build \ {e}
        /\ \A x \in DOMAIN g.build \ {e} : h.build[x] = g.build[x]
    BY <2>5, <2>7
  <2>10. Shape(h)
    <3>1. h.build \in [DOMAIN h.build -> BuildRecord]
      BY <2>5, <2>7, <2>9 DEF Shape
    <3>. QED BY <2>3, <2>7, <2>8, <2>9, <3>1 DEF Shape
  <2>11. Apart(g, h, e)
    BY <2>7, <2>8, <2>9 DEF Apart
  <2>12. ResKept(g, h, e) /\ CapKept(g, h, e)
    BY <2>8, KeptIfAlike
  <2>13. BlockersKept(g, h, e)
    <3>1. \A f, p : BlockOf(h, e, f, p) = 0
      BY <2>9 DEF BlockOf, Standing
    <3>2. \A f, p : BlockOf(g, e, f, p) = IF blocks /\ Owner(g, e) = f /\ g.pos[e] = p THEN 1 ELSE 0
      BY <1>2, BlockWhere
    <3>3. \A f \in Faction, p \in Place : g.blockers[f][p] \in Int
      BY DEF Shape
    <3> HIDE DEF b
    <3>. QED BY <2>1, <2>3, <2>8, <3>1, <3>2, <3>3 DEF BlockersKept
  <2>. QED BY <2>4, <2>7, <2>8, <2>9, <2>10, <2>11, <2>12, <2>13 DEF Works
<1>. QED BY <1>1, <1>2

\* Nothing is left of an entity that is removed.
LEMMA RemoveEntityDoes ==
  ASSUME NEW g, Shape(g), NEW e \in Entity, Placed(g, e),
         e \in DOMAIN g.build => BuildOK(g, e)
  PROVE  LET h == RemoveEntity(g, e)
         IN  /\ Works(g, h, e) /\ ResKept(g, h, e) /\ CapKept(g, h, e)
             /\ Absent(h, e) /\ h.changed[e] = 0
<1>1. PICK m : m = RemoveBuilding(g, e)
  OBVIOUS
<1>2. /\ Works(g, m, e) /\ ResKept(g, m, e) /\ CapKept(g, m, e)
      /\ m.site = g.site /\ m.faction = g.faction /\ m.pos = g.pos /\ m.changed = g.changed
      /\ e \notin DOMAIN m.build /\ e \notin m.listening
  BY <1>1, RemoveBuildingDoes
<1>3. PICK k : k = RemoveSite(m, e)
  OBVIOUS
<1>4. SitesOnly(m, k) /\ Apart(m, k, e) /\ DOMAIN k.site = DOMAIN m.site \ {e} /\ Kept(m, k, e)
  <2>1. Shape(m) /\ (e \in DOMAIN m.site => e \in DOMAIN m.faction)
    BY <1>2 DEF Works, Placed
  <2>. QED BY <1>3, <2>1, RemoveSiteDoes
<1>5. PICK h : h = RemoveEntity(g, e)
  OBVIOUS
<1>6. PICK fac : fac = [x \in DOMAIN k.faction \ {e} |-> k.faction[x]]
  OBVIOUS
<1>7. PICK pos : pos = [x \in DOMAIN k.pos \ {e} |-> k.pos[x]]
  OBVIOUS
<1>8. Shape(k)
  BY <1>4 DEF SitesOnly
<1>9. h = [k EXCEPT !.faction = fac, !.pos = pos, !.changed[e] = 0]
  BY <1>1, <1>3, <1>5, <1>6, <1>7 DEF RemoveEntity, Restrict
<1>10. /\ IsGame(h) /\ h.faction = fac /\ h.pos = pos /\ h.changed = [k.changed EXCEPT ![e] = 0]
       /\ \A i \in Fields \ {"faction", "pos", "changed"} : h[i] = k[i]
  BY <1>8, <1>9 DEF Shape, IsGame, Fields
<1>11. /\ h.site = k.site /\ h.build = k.build /\ h.res = k.res /\ h.cap = k.cap
       /\ h.blockers = k.blockers /\ h.listening = k.listening
  BY <1>10 DEF Fields
<1>12. /\ DOMAIN h.faction = DOMAIN k.faction \ {e} /\ DOMAIN h.pos = DOMAIN k.pos \ {e}
       /\ \A x \in DOMAIN h.faction : h.faction[x] = k.faction[x]
       /\ \A x \in DOMAIN h.pos : h.pos[x] = k.pos[x]
       /\ h.changed[e] = 0 /\ \A x \in Entity \ {e} : h.changed[x] = k.changed[x]
       /\ h.changed \in [Entity -> Nat]
  BY <1>6, <1>7, <1>8, <1>10 DEF Shape
<1>13. Shape(h)
  <2>1. h.faction \in [DOMAIN h.faction -> Faction] /\ h.pos \in [DOMAIN h.pos -> Place]
    BY <1>6, <1>7, <1>8, <1>10, <1>12 DEF Shape
  <2>. QED BY <1>8, <1>10, <1>11, <1>12, <2>1 DEF Shape
<1>14. Apart(k, h, e)
  BY <1>11, <1>12 DEF Apart
<1>15. /\ e \notin DOMAIN k.site /\ e \notin DOMAIN k.build /\ e \notin k.listening
  BY <1>2, <1>4 DEF SitesOnly
<1>16. ResKept(k, h, e) /\ CapKept(k, h, e) /\ BlockersKept(k, h, e)
  <2>1. \A f, r : /\ CurrOf(h, e, f, r) = 0 /\ RoomOf(h, e, f, r) = 0
                  /\ CurrOf(k, e, f, r) = 0 /\ RoomOf(k, e, f, r) = 0
    BY <1>11, <1>15 DEF CurrOf, RoomOf, SitesOf
  <2>2. \A f, p : BlockOf(h, e, f, p) = 0 /\ BlockOf(k, e, f, p) = 0
    BY <1>11, <1>15 DEF BlockOf, Standing
  <2>. QED BY <1>11, <2>1, <2>2 DEF ResKept, CapKept, BlockersKept
<1>17. Works(m, k, e) /\ ResKept(m, k, e) /\ CapKept(m, k, e)
  BY <1>4, <1>8 DEF Works, Kept
<1>18. Works(k, h, e)
  BY <1>13, <1>14, <1>16 DEF Works
<1>19. Works(m, h, e) /\ ResKept(m, h, e) /\ CapKept(m, h, e)
  BY <1>16, <1>17, <1>18, WorksAfter, KeptAfter
<1>20. Works(g, h, e) /\ ResKept(g, h, e) /\ CapKept(g, h, e)
  BY <1>2, <1>19, WorksAfter, KeptAfter
<1>21. Absent(h, e)
  BY <1>11, <1>12, <1>15 DEF Absent
<1>. QED BY <1>5, <1>12, <1>20, <1>21

\* A change of the totals leaves a game in shape, and changes add up.
LEMMA TotalsShape ==
  ASSUME NEW g, Shape(g), NEW h, Totals(g, h)
  PROVE  Shape(h)
BY DEF Shape, Totals

\* Taken from one faction, given to another.
Passed(old, new, from, to, d) ==
  /\ new \in [Faction -> Table]
  /\ \A i \in Faction, r \in Resource :
       new[i][r] = IF i = from THEN old[i][r] - d[r]
                   ELSE IF i = to THEN old[i][r] + d[r] ELSE old[i][r]

LEMMA PassedOn ==
  ASSUME NEW from \in Faction, NEW to \in Faction, from # to,
         NEW d \in Table, NEW old \in [Faction -> Table], NEW mid, NEW new,
         RaisedBy(old, mid, from, Minus(Zero, d)), RaisedBy(mid, new, to, d)
  PROVE  Passed(old, new, from, to, d)
<1>1. \A r \in Resource : Minus(Zero, d)[r] = 0 - d[r] /\ d[r] \in Int
  <2>1. \A r \in Resource : Minus(Zero, d)[r] = Zero[r] - d[r] /\ Zero[r] = 0
    BY Tables
  <2>2. \A r \in Resource : d[r] \in Int
    BY DEF Table
  <2>. QED BY <2>1, <2>2
<1>2. \A i \in Faction, r \in Resource : old[i][r] \in Int
  BY DEF Table
<1>3. new \in [Faction -> Table]
  BY DEF RaisedBy
<1>. QED BY <1>1, <1>2, <1>3 DEF RaisedBy, Passed

LEMMA SiteHanded ==
  ASSUME NEW g, Shape(g), NEW e \in DOMAIN g.site, NEW old \in Faction, NEW new \in Faction,
         old # new
  PROVE  LET k == UpdateSiteFaction(g, e, old, new)
         IN  /\ Totals(g, k)
             /\ Passed(g.cap, k.cap, old, new, EffectiveCapacity(g.site[e]))
             /\ Passed(g.res, k.res, old, new, g.site[e].curr)
<1>1. PICK cap : cap = EffectiveCapacity(g.site[e])
  OBVIOUS
<1>2. PICK curr : curr = g.site[e].curr
  OBVIOUS
<1>3. /\ cap \in Table /\ curr \in Table
      /\ Minus(Zero, cap) \in Table /\ Minus(Zero, curr) \in Table
  <2>1. g.site[e] \in SiteRecord
    BY DEF Shape
  <2>2. cap \in Table /\ curr \in Table
    BY <1>1, <1>2, <2>1, SiteTables
  <2>. QED BY <2>2, Tables
<1>4. PICK a : a = UpdateCap(g, old, Minus(Zero, cap))
  OBVIOUS
<1>5. Totals(g, a) /\ a.res = g.res /\ RaisedBy(g.cap, a.cap, old, Minus(Zero, cap)) /\ Shape(a)
  BY <1>3, <1>4, UpdateDoes, TotalsShape
<1>6. PICK b : b = UpdateCap(a, new, cap)
  OBVIOUS
<1>7. Totals(a, b) /\ b.res = a.res /\ RaisedBy(a.cap, b.cap, new, cap) /\ Shape(b)
  BY <1>3, <1>5, <1>6, UpdateDoes, TotalsShape
<1>8. PICK c : c = UpdateRes(b, old, Minus(Zero, curr))
  OBVIOUS
<1>9. Totals(b, c) /\ c.cap = b.cap /\ RaisedBy(b.res, c.res, old, Minus(Zero, curr)) /\ Shape(c)
  BY <1>3, <1>7, <1>8, UpdateDoes, TotalsShape
<1>10. PICK k : k = UpdateRes(c, new, curr)
  OBVIOUS
<1>11. Totals(c, k) /\ k.cap = c.cap /\ RaisedBy(c.res, k.res, new, curr)
  BY <1>3, <1>9, <1>10, UpdateDoes
<1>12. UpdateSiteFaction(g, e, old, new) = k
  BY <1>1, <1>2, <1>4, <1>6, <1>8, <1>10 DEF UpdateSiteFaction
<1>13. Totals(g, k)
  BY <1>5, <1>7, <1>9, <1>11 DEF Totals
<1>14. g.cap \in [Faction -> Table] /\ g.res \in [Faction -> Table]
  BY DEF Shape
<1>15. Passed(g.cap, k.cap, old, new, cap)
  BY <1>3, <1>5, <1>7, <1>9, <1>11, <1>14, PassedOn
<1>16. Passed(g.res, k.res, old, new, curr)
  BY <1>3, <1>5, <1>7, <1>9, <1>11, <1>14, PassedOn
<1>. QED BY <1>1, <1>2, <1>12, <1>13, <1>15, <1>16

\* A founded building that blocks is counted for the faction that gets it.
LEMMA BlockersHanded ==
  ASSUME NEW g, Shape(g), NEW e \in Entity, e \in DOMAIN g.build,
         NEW old \in Faction, NEW new \in Faction, old # new
  PROVE  LET k == UpdateBuildingFaction(g, e, old, new)
             b == g.build[e]
         IN  /\ BlockersOnly(g, k) /\ k.blockers \in [Faction -> [Place -> Int]]
             /\ \A i \in Faction, p \in Place :
                  k.blockers[i][p] =
                    IF b.state >= Founded /\ b.blocking /\ p = b.place
                    THEN IF i = old THEN g.blockers[i][p] - 1
                         ELSE IF i = new THEN g.blockers[i][p] + 1 ELSE g.blockers[i][p]
                    ELSE g.blockers[i][p]
<1> DEFINE b == g.build[e]
           k == UpdateBuildingFaction(g, e, old, new)
<1>1. b \in BuildRecord
  BY DEF Shape
<1>2. CASE ~(b.state >= Founded /\ b.blocking)
  <2>1. b.state \in Int /\ Founded \in Int
    BY <1>1 DEF BuildRecord, Placement, Completed, Founded
  <2>2. b.state < Founded \/ ~b.blocking
    <3> HIDE DEF b
    <3>. QED BY <1>2, <2>1
  <2>3. k = g
    BY <2>2 DEF UpdateBuildingFaction
  <2>4. BlockersOnly(g, g) /\ g.blockers \in [Faction -> [Place -> Int]]
    BY DEF BlockersOnly, Shape
  <2>. QED BY <1>2, <2>3, <2>4
<1>3. CASE b.state >= Founded /\ b.blocking
  <2>1. b.place \in Place /\ b.state \in Int /\ Founded \in Int
    BY <1>1 DEF BuildRecord, Placement, Completed, Founded
  <2>2. PICK m : m = Decref(g, old, b.place)
    OBVIOUS
  <2>3. BlockersOnly(g, m) /\ CountedBy(g.blockers, m.blockers, old, b.place, -1)
    <3> HIDE DEF b
    <3>. QED BY <2>1, <2>2, CountDoes DEF Shape
  <2>4. PICK h : h = Incref(m, new, b.place)
    OBVIOUS
  <2>5. BlockersOnly(m, h) /\ CountedBy(m.blockers, h.blockers, new, b.place, 1)
    <3>1. IsGame(m) /\ m.blockers \in [Faction -> [Place -> Int]]
      BY <2>3 DEF BlockersOnly, CountedBy
    <3> HIDE DEF b
    <3>. QED BY <2>1, <2>4, <3>1, CountDoes
  <2>6. ~(b.state < Founded)
    <3> HIDE DEF b
    <3>. QED BY <1>3, <2>1
  <2>7. k = h
    BY <1>3, <2>2, <2>4, <2>6 DEF UpdateBuildingFaction
  <2>8. BlockersOnly(g, h) /\ h.blockers \in [Faction -> [Place -> Int]]
    BY <2>3, <2>5 DEF BlockersOnly, CountedBy
  <2>9. \A i \in Faction, p \in Place : g.blockers[i][p] \in Int
    BY DEF Shape
  <2>10. \A i \in Faction, p \in Place :
           h.blockers[i][p] =
             IF p = b.place
             THEN IF i = old THEN g.blockers[i][p] - 1
                  ELSE IF i = new THEN g.blockers[i][p] + 1 ELSE g.blockers[i][p]
             ELSE g.blockers[i][p]
    <3> HIDE DEF b
    <3>. QED BY <2>3, <2>5, <2>9 DEF CountedBy
  <2>. QED BY <1>3, <2>7, <2>8, <2>10
<1>. QED BY <1>2, <1>3

\* Of another faction, and otherwise as it was.
Hands(g, h, e, f) ==
  /\ Works(g, h, e) /\ ResKept(g, h, e) /\ CapKept(g, h, e)
  /\ h.site = g.site /\ h.build = g.build /\ h.pos = g.pos
  /\ h.listening = g.listening /\ h.changed = g.changed
  /\ DOMAIN h.faction = DOMAIN g.faction /\ h.faction[e] = f

\* A building blocks the place where it is, if any.
BlocksThere(g, e) ==
  e \in DOMAIN g.build /\ g.build[e].blocking =>
    g.build[e].state >= Founded /\ g.build[e].place = g.pos[e]

LEMMA SetFactionIDDoes ==
  ASSUME NEW g, Shape(g), NEW e \in Entity, Placed(g, e), e \in DOMAIN g.faction,
         BlocksThere(g, e), NEW f \in Faction
  PROVE  Hands(g, SetFactionID(g, e, f), e, f)
<1> DEFINE old == g.faction[e]
<1>1. old \in Faction
  BY DEF Shape
<1>2. CASE f = old
  <2>1. SetFactionID(g, e, f) = g
    BY <1>2 DEF SetFactionID, Owner
  <2>2. ResKept(g, g, e) /\ CapKept(g, g, e) /\ BlockersKept(g, g, e)
    BY KeptIfAlike
  <2>3. Apart(g, g, e)
    BY DEF Apart
  <2>. QED BY <1>2, <2>1, <2>2, <2>3 DEF Works, Hands
<1>3. CASE f # old
  <2>1. PICK h : h = [g EXCEPT !.faction[e] = f]
    OBVIOUS
  <2>2. /\ IsGame(h) /\ h.faction = [g.faction EXCEPT ![e] = f]
        /\ h.site = g.site /\ h.build = g.build /\ h.pos = g.pos /\ h.res = g.res
        /\ h.cap = g.cap /\ h.blockers = g.blockers
        /\ h.listening = g.listening /\ h.changed = g.changed
    BY <2>1 DEF Shape, IsGame, Fields
  <2>3. /\ DOMAIN h.faction = DOMAIN g.faction /\ h.faction[e] = f
        /\ \A x \in DOMAIN g.faction \ {e} : h.faction[x] = g.faction[x]
        /\ h.faction \in [DOMAIN h.faction -> Faction]
    BY <2>2 DEF Shape
  <2>4. Shape(h)
    BY <2>2, <2>3 DEF Shape
  <2>5. PICK m : m = UpdateSiteFaction(h, e, old, f)
    OBVIOUS
  <2>6. /\ Totals(h, m) /\ Shape(m)
        /\ e \in DOMAIN g.site => /\ Passed(h.cap, m.cap, old, f, EffectiveCapacity(h.site[e]))
                                  /\ Passed(h.res, m.res, old, f, h.site[e].curr)
        /\ e \notin DOMAIN g.site => m.cap = g.cap /\ m.res = g.res
    <3>1. CASE e \in DOMAIN g.site
      <4> HIDE DEF old
      <4>. QED BY <1>1, <1>3, <2>2, <2>4, <2>5, <3>1, SiteHanded, TotalsShape
    <3>2. CASE e \notin DOMAIN g.site
      <4>1. m = h
        BY <2>2, <2>5, <3>2 DEF UpdateSiteFaction
      <4>. QED BY <2>2, <2>4, <3>2, <4>1 DEF Totals, Shape
    <3>. QED BY <3>1, <3>2
  <2>7. PICK k : k = UpdateBuildingFaction(m, e, old, f)
    OBVIOUS
  <2>8. SetFactionID(g, e, f) = k
    BY <1>3, <2>1, <2>5, <2>7 DEF SetFactionID, Owner
  <2>9. /\ BlockersOnly(m, k) /\ k.blockers \in [Faction -> [Place -> Int]]
        /\ e \notin DOMAIN g.build => k.blockers = g.blockers
        /\ e \in DOMAIN g.build =>
             \A i \in Faction, p \in Place :
               k.blockers[i][p] =
                 IF g.build[e].state >= Founded /\ g.build[e].blocking /\ p = g.build[e].place
                 THEN IF i = old THEN g.blockers[i][p] - 1
                      ELSE IF i = f THEN g.blockers[i][p] + 1 ELSE g.blockers[i][p]
                 ELSE g.blockers[i][p]
    <3>1. m.build = g.build /\ m.blockers = g.blockers
      BY <2>2, <2>6 DEF Totals
    <3>2. CASE e \in DOMAIN g.build
      <4> HIDE DEF old
      <4>. QED BY <1>1, <1>3, <2>6, <2>7, <3>1, <3>2, BlockersHanded
    <3>3. CASE e \notin DOMAIN g.build
      <4>1. k = m
        BY <2>7, <3>1, <3>3 DEF UpdateBuildingFaction
      <4>. QED BY <2>6, <3>1, <3>3, <4>1 DEF BlockersOnly, Shape
    <3>. QED BY <3>2, <3>3
  <2> HIDE DEF old
  <2>10. /\ IsGame(k) /\ k.site = g.site /\ k.build = g.build /\ k.pos = g.pos
         /\ k.faction = h.faction /\ k.listening = g.listening /\ k.changed = g.changed
         /\ k.res = m.res /\ k.cap = m.cap
    BY <2>2, <2>6, <2>9 DEF Totals, BlockersOnly
  <2>11. Shape(k)
    BY <2>3, <2>6, <2>9, <2>10 DEF Shape, Totals
  <2>12. Apart(g, k, e)
    BY <2>3, <2>10 DEF Apart
  <2>13. \A i : /\ e \in SitesOf(g, i) <=> e \in DOMAIN g.site /\ i = old
                /\ e \in SitesOf(k, i) <=> e \in DOMAIN g.site /\ i = f
    BY <2>3, <2>10 DEF SitesOf, Owner, old
  <2>14. /\ \A i \in Faction, r \in Resource : g.res[i][r] \in Int /\ g.cap[i][r] \in Int
         /\ e \in DOMAIN g.site => \A r \in Resource : /\ g.site[e].curr[r] \in Int
                                                      /\ EffectiveCapacity(g.site[e])[r] \in Int
    <3>1. e \in DOMAIN g.site => g.site[e] \in SiteRecord
      BY DEF Shape
    <3>. QED BY <3>1, SiteTables DEF Shape, Table
  <2>15. ResKept(g, k, e)
    BY <1>3, <2>2, <2>6, <2>10, <2>13, <2>14 DEF ResKept, CurrOf, Passed
  <2>16. CapKept(g, k, e)
    BY <1>3, <2>2, <2>6, <2>10, <2>13, <2>14 DEF CapKept, RoomOf, Passed
  <2>17. BlockersKept(g, k, e)
    <3>1. CASE e \in DOMAIN g.build
      <4>1. PICK stands \in BOOLEAN : stands = (g.build[e].state >= Founded /\ g.build[e].blocking)
        <5>1. (g.build[e].state >= Founded /\ g.build[e].blocking) \in BOOLEAN
          OBVIOUS
        <5>. QED BY <5>1
      <4>2. stands => g.build[e].place = g.pos[e]
        BY <3>1, <4>1 DEF BlocksThere
      <4>3. \A i, p : /\ BlockOf(g, e, i, p) = IF stands /\ old = i /\ g.pos[e] = p THEN 1 ELSE 0
                      /\ BlockOf(k, e, i, p) = IF stands /\ f = i /\ g.pos[e] = p THEN 1 ELSE 0
        <5> TAKE i, p
        <5>1. BlockOf(g, e, i, p) =
                IF /\ g.build[e].state >= Founded /\ g.build[e].blocking
                   /\ Owner(g, e) = i /\ g.pos[e] = p
                THEN 1 ELSE 0
          BY <3>1, BlockWhere
        <5>2. BlockOf(k, e, i, p) =
                IF /\ k.build[e].state >= Founded /\ k.build[e].blocking
                   /\ Owner(k, e) = i /\ k.pos[e] = p
                THEN 1 ELSE 0
          BY <2>10, <3>1, BlockWhere
        <5>3. Owner(g, e) = old /\ Owner(k, e) = f /\ k.pos = g.pos /\ k.build = g.build
          BY <2>3, <2>10 DEF Owner, old
        <5>. QED BY <4>1, <5>1, <5>2, <5>3
      <4>4. \A i \in Faction, p \in Place :
              k.blockers[i][p] =
                IF stands /\ p = g.build[e].place
                THEN IF i = old THEN g.blockers[i][p] - 1
                     ELSE IF i = f THEN g.blockers[i][p] + 1 ELSE g.blockers[i][p]
                ELSE g.blockers[i][p]
        BY <2>9, <3>1, <4>1
      <4>5. \A i \in Faction, p \in Place : g.blockers[i][p] \in Int
        BY DEF Shape
      <4>. QED BY <1>3, <4>2, <4>3, <4>4, <4>5 DEF BlockersKept
    <3>2. CASE e \notin DOMAIN g.build
      <4>1. \A i, p : BlockOf(g, e, i, p) = 0 /\ BlockOf(k, e, i, p) = 0
        BY <2>10, <3>2 DEF BlockOf, Standing
      <4>. QED BY <2>9, <3>2, <4>1 DEF BlockersKept
    <3>. QED BY <3>1, <3>2
  <2>. QED BY <2>3, <2>8, <2>10, <2>11, <2>12, <2>15, <2>16, <2>17 DEF Works, Hands
<1>. QED BY <1>2, <1>3

\* The fields of a building's record.
LEMMA BuildFields ==
  ASSUME NEW b \in BuildRecord
  PROVE  /\ b.state \in Nat /\ b.state <= Completed /\ b.blocking \in BOOLEAN
         /\ b.isSite \in BOOLEAN /\ b.place \in Place /\ b.required \in [Resource -> Nat]
         /\ ~(b.state < Founded) <=> b.state >= Founded
         /\ b = [state |-> b.state, blocking |-> b.blocking, isSite |-> b.isSite,
                 place |-> b.place, required |-> b.required]
BY DEF BuildRecord, Placement, Completed, Founded

\* The record of a building is replaced by one that blocks as much.
Stands(b) == b.state >= Founded /\ b.blocking

LEMMA WorkPut ==
  ASSUME NEW g, Shape(g), NEW e \in Entity, e \in DOMAIN g.build, NEW b \in BuildRecord,
         NEW h, PutWork(g, h, e, b), h.blockers = g.blockers,
         h.listening \subseteq Entity, h.listening \ {e} = g.listening \ {e},
         Stands(b) <=> Stands(g.build[e])
  PROVE  /\ Works(g, h, e) /\ ResKept(g, h, e) /\ CapKept(g, h, e)
         /\ DOMAIN h.build = DOMAIN g.build /\ h.build[e] = b
<1>1. h.blockers \in [Faction -> [Place -> Int]]
  BY DEF Shape
<1>2. /\ Shape(h) /\ Apart(g, h, e) /\ ResKept(g, h, e) /\ CapKept(g, h, e)
      /\ DOMAIN h.build = DOMAIN g.build /\ h.build[e] = b
  BY <1>1, BuildReplaced
<1>3. ASSUME NEW f, NEW p PROVE BlockOf(g, e, f, p) = BlockOf(h, e, f, p)
  <2>1. h.pos = g.pos /\ Owner(h, e) = Owner(g, e) /\ e \in DOMAIN h.build
    BY <1>2 DEF PutWork, Owner
  <2>2. e \in Standing(g, f, p) <=> e \in Standing(h, f, p)
    BY <1>2, <2>1 DEF Standing, Stands
  <2>. QED BY <2>2 DEF BlockOf
<1>4. BlockersKept(g, h, e)
  BY <1>3 DEF BlockersKept
<1>. QED BY <1>2, <1>4 DEF Works

\* The building moves with its entity, and its blockers with it.
LEMMA SetPosDoes ==
  ASSUME NEW g, Shape(g), NEW e \in Entity, Placed(g, e), e \in DOMAIN g.faction,
         e \in DOMAIN g.build => BuildOK(g, e), NEW p \in Place
  PROVE  LET h == SetPos(g, e, p)
             b == g.build[e]
         IN  /\ Works(g, h, e) /\ ResKept(g, h, e) /\ CapKept(g, h, e)
             /\ h.site = g.site /\ h.faction = g.faction
             /\ h.listening = g.listening /\ h.changed = g.changed
             /\ DOMAIN h.pos = DOMAIN g.pos /\ h.pos[e] = p
             /\ DOMAIN h.build = DOMAIN g.build
             /\ e \in DOMAIN g.build =>
                  h.build[e] = IF Stands(b) THEN [b EXCEPT !.place = p] ELSE b
<1>1. PICK m : m = [g EXCEPT !.pos[e] = p]
  OBVIOUS
<1>2. /\ IsGame(m) /\ m.pos = [g.pos EXCEPT ![e] = p]
      /\ m.site = g.site /\ m.build = g.build /\ m.faction = g.faction /\ m.res = g.res
      /\ m.cap = g.cap /\ m.blockers = g.blockers
      /\ m.listening = g.listening /\ m.changed = g.changed
  BY <1>1 DEF Shape, IsGame, Fields
<1>3. /\ DOMAIN m.pos = DOMAIN g.pos /\ m.pos[e] = p /\ e \in DOMAIN g.pos
      /\ \A x \in DOMAIN g.pos \ {e} : m.pos[x] = g.pos[x]
      /\ m.pos \in [DOMAIN m.pos -> Place]
  BY <1>2 DEF Shape, Placed
<1>4. Shape(m)
  BY <1>2, <1>3 DEF Shape
<1>5. Apart(g, m, e)
  BY <1>2, <1>3 DEF Apart
<1>6. ResKept(g, m, e) /\ CapKept(g, m, e)
  BY <1>2, KeptIfAlike
<1>7. PICK h : h = SetPos(g, e, p)
  OBVIOUS
<1>8. h = UpdateBounds(m, e)
  BY <1>1, <1>7 DEF SetPos
<1>9. CASE ~(e \in DOMAIN g.build /\ Stands(g.build[e]))
  <2>1. h = m
    <3>1. CASE e \notin DOMAIN g.build
      BY <1>2, <1>8, <3>1 DEF UpdateBounds
    <3>2. CASE e \in DOMAIN g.build
      <4>1. ~(g.build[e].state < Founded) <=> g.build[e].state >= Founded
        BY <3>2, BuildFields DEF Shape
      <4>2. m.build[e].state < Founded \/ ~m.build[e].blocking
        BY <1>2, <1>9, <3>2, <4>1 DEF Stands
      <4>. QED BY <1>8, <4>2 DEF UpdateBounds
    <3>. QED BY <3>1, <3>2
  <2>2. \A f, q : BlockOf(g, e, f, q) = 0 /\ BlockOf(m, e, f, q) = 0
    BY <1>2, <1>9 DEF BlockOf, Standing, Stands
  <2>3. BlockersKept(g, m, e)
    BY <1>2, <2>2 DEF BlockersKept
  <2>. QED BY <1>2, <1>3, <1>4, <1>5, <1>6, <1>7, <1>9, <2>1, <2>3 DEF Works
<1>10. CASE e \in DOMAIN g.build /\ Stands(g.build[e])
  <2> DEFINE b == g.build[e]
  <2>1. /\ b \in BuildRecord /\ b.place = g.pos[e] /\ b.place \in Place
        /\ Owner(g, e) \in Faction /\ Owner(m, e) = Owner(g, e)
    BY <1>2, <1>10 DEF Shape, BuildRecord, Stands, BuildOK, Owner
  <2>2. PICK f \in Faction : f = Owner(g, e)
    BY <2>1
  <2>3. PICK d : d = Decref(m, f, b.place)
    OBVIOUS
  <2>4. BlockersOnly(m, d) /\ CountedBy(g.blockers, d.blockers, f, b.place, -1)
    <3> HIDE DEF b
    <3>. QED BY <1>2, <1>4, <2>1, <2>3, CountDoes DEF Shape
  <2>5. PICK c : c = [b EXCEPT !.place = p]
    OBVIOUS
  <2>6. c \in BuildRecord /\ c.state = b.state /\ c.blocking = b.blocking
    BY <2>1, <2>5 DEF BuildRecord
  <2>7. PICK k : k = [d EXCEPT !.build[e].place = p]
    OBVIOUS
  <2>8. /\ IsGame(k) /\ k.build = [m.build EXCEPT ![e] = c] /\ k.blockers = d.blockers
        /\ k.site = m.site /\ k.faction = m.faction /\ k.res = m.res /\ k.cap = m.cap
        /\ k.pos = m.pos /\ k.listening = m.listening /\ k.changed = m.changed
    <3>1. k = [d EXCEPT !.build = [m.build EXCEPT ![e].place = p]]
      BY <2>4, <2>7 DEF BlockersOnly
    <3>2. [m.build EXCEPT ![e].place = p] = [m.build EXCEPT ![e] = c]
      BY <1>2, <2>5
    <3> HIDE DEF b
    <3>. QED BY <2>4, <3>1, <3>2 DEF BlockersOnly, IsGame, Fields
  <2>9. h = Incref(k, f, p)
    <3>1. ~(b.state < Founded)
      <4>1. b.state \in Int /\ Founded \in Int /\ b.state >= Founded
        BY <1>10, <2>1 DEF BuildRecord, Placement, Completed, Founded, Stands
      <4> HIDE DEF b
      <4>. QED BY <4>1
    <3>2. UpdateBounds(m, e) = Incref([Decref(m, Owner(m, e), m.build[e].place)
                                         EXCEPT !.build[e].place = m.pos[e]], Owner(m, e), m.pos[e])
      BY <1>2, <1>10, <3>1 DEF UpdateBounds, Stands
    <3>. QED BY <1>2, <1>3, <1>8, <2>1, <2>2, <2>3, <2>7, <3>2
  <2>10. BlockersOnly(k, h) /\ CountedBy(d.blockers, h.blockers, f, p, 1)
    <3>1. IsGame(k) /\ k.blockers \in [Faction -> [Place -> Int]]
      BY <2>4, <2>8 DEF CountedBy
    <3>. QED BY <2>8, <2>9, <3>1, CountDoes
  <2>11. PutWork(m, h, e, c) /\ h.listening = m.listening
    BY <2>8, <2>10 DEF BlockersOnly, PutWork
  <2>12. /\ Shape(h) /\ Apart(m, h, e) /\ ResKept(m, h, e) /\ CapKept(m, h, e)
         /\ DOMAIN h.build = DOMAIN m.build /\ h.build[e] = c
    <3>1. h.blockers \in [Faction -> [Place -> Int]] /\ e \in DOMAIN m.build
          /\ m.listening \subseteq Entity
      BY <1>2, <1>4, <1>10, <2>10 DEF CountedBy, Shape
    <3>. QED BY <1>4, <2>6, <2>11, <3>1, BuildReplaced
  <2>13. /\ Apart(g, h, e) /\ ResKept(g, h, e) /\ CapKept(g, h, e)
    BY <1>5, <1>6, <2>12, ApartAfter, KeptAfter
  <2>14. BlockersKept(g, h, e)
    <3>1. ASSUME NEW i, NEW q
          PROVE  /\ BlockOf(g, e, i, q) = IF i = f /\ q = b.place THEN 1 ELSE 0
                 /\ BlockOf(h, e, i, q) = IF i = f /\ q = p THEN 1 ELSE 0
      <4>1. Owner(h, e) = f /\ h.pos[e] = p /\ Owner(g, e) = f /\ g.pos[e] = b.place
        BY <1>2, <1>3, <2>1, <2>2, <2>11 DEF PutWork, Owner
      <4>2. e \in DOMAIN h.build /\ Stands(h.build[e]) /\ e \in DOMAIN g.build /\ Stands(g.build[e])
        BY <1>2, <1>10, <2>6, <2>12 DEF Stands
      <4>3. e \in Standing(g, i, q) <=> i = f /\ q = b.place
        BY <4>1, <4>2 DEF Standing, Stands
      <4>4. e \in Standing(h, i, q) <=> i = f /\ q = p
        BY <4>1, <4>2 DEF Standing, Stands
      <4>. QED BY <4>3, <4>4 DEF BlockOf
    <3>2. \A i \in Faction, q \in Place : g.blockers[i][q] \in Int
      BY DEF Shape
    <3>3. PICK was : was = b.place
      OBVIOUS
    <3>4. ASSUME NEW i \in Faction, NEW q \in Place
          PROVE  h.blockers[i][q] - BlockOf(h, e, i, q) = g.blockers[i][q] - BlockOf(g, e, i, q)
      <4>1. d.blockers[i][q] = IF i = f /\ q = was THEN g.blockers[i][q] + -1 ELSE g.blockers[i][q]
        BY <2>4, <3>3 DEF CountedBy
      <4>2. h.blockers[i][q] = IF i = f /\ q = p THEN d.blockers[i][q] + 1 ELSE d.blockers[i][q]
        BY <2>10 DEF CountedBy
      <4>3. /\ BlockOf(g, e, i, q) = IF i = f /\ q = was THEN 1 ELSE 0
            /\ BlockOf(h, e, i, q) = IF i = f /\ q = p THEN 1 ELSE 0
        BY <3>1, <3>3
      <4>. QED BY <3>2, <4>1, <4>2, <4>3
    <3>. QED BY <3>4 DEF BlockersKept
  <2>15. /\ h.site = g.site /\ h.faction = g.faction
         /\ h.listening = g.listening /\ h.changed = g.changed /\ h.pos = m.pos
    BY <1>2, <2>11 DEF PutWork
  <2>. QED BY <1>2, <1>3, <1>7, <1>10, <2>5, <2>12, <2>13, <2>14, <2>15 DEF Works
<1>. QED BY <1>9, <1>10

\* The building's work goes to a new stage, and nothing else happens.
LEMMA MarkDoes ==
  ASSUME NEW g, Shape(g), NEW e \in Entity, e \in DOMAIN g.build,
         g.build[e].state = Placement
  PROVE  LET h == Mark(g, e)
         IN  /\ Works(g, h, e) /\ ResKept(g, h, e) /\ CapKept(g, h, e)
             /\ h.site = g.site /\ h.faction = g.faction /\ h.pos = g.pos
             /\ h.listening = g.listening /\ h.changed = g.changed
             /\ DOMAIN h.build = DOMAIN g.build
             /\ h.build[e] = [g.build[e] EXCEPT !.state = Marked]
<1>1. PICK b : b = g.build[e]
  OBVIOUS
<1>2. PICK c : c = [b EXCEPT !.state = Marked]
  OBVIOUS
<1>3. b \in BuildRecord /\ c \in BuildRecord /\ (Stands(c) <=> Stands(b))
  <2>1. b \in BuildRecord
    BY <1>1 DEF Shape
  <2>2. c \in BuildRecord /\ c.state = Marked
    BY <1>2, <2>1 DEF BuildRecord, Marked, Placement, Completed
  <2>3. ~Stands(c) /\ ~Stands(b)
    BY <1>1, <2>2 DEF Stands, Marked, Placement, Founded
  <2>. QED BY <2>1, <2>2, <2>3
<1>4. PICK h : h = Mark(g, e)
  OBVIOUS
<1>5. h = [g EXCEPT !.build = [g.build EXCEPT ![e] = c]]
  BY <1>1, <1>2, <1>4 DEF Mark
<1>6. PutWork(g, h, e, c) /\ h.blockers = g.blockers /\ h.listening = g.listening
  BY <1>5 DEF PutWork, Shape, IsGame, Fields
<1>7. g.listening \subseteq Entity
  BY DEF Shape
<1>8. /\ Works(g, h, e) /\ ResKept(g, h, e) /\ CapKept(g, h, e)
      /\ DOMAIN h.build = DOMAIN g.build /\ h.build[e] = c
  BY <1>1, <1>3, <1>6, <1>7, WorkPut
<1>. QED BY <1>1, <1>2, <1>4, <1>6, <1>8 DEF PutWork

\* A founded building, before it asks for anything.
FoundedAs(b, blocking, p) ==
  [b EXCEPT !.state = Founded, !.blocking = blocking, !.place = IF blocking THEN p ELSE @]
Placing(g, e, blocking) ==
  LET h == [g EXCEPT !.build[e].state = Founded, !.build[e].blocking = blocking]
  IN  IF blocking
      THEN [Incref(h, Owner(g, e), g.pos[e]) EXCEPT !.build[e].place = g.pos[e]]
      ELSE h

LEMMA PlacingDoes ==
  ASSUME NEW g, Shape(g), NEW e \in Entity, e \in DOMAIN g.build, e \in DOMAIN g.faction,
         e \in DOMAIN g.pos, ~Stands(g.build[e]), NEW blocking \in BOOLEAN
  PROVE  LET h == Placing(g, e, blocking)
         IN  /\ Works(g, h, e) /\ ResKept(g, h, e) /\ CapKept(g, h, e)
             /\ h.site = g.site /\ h.faction = g.faction /\ h.pos = g.pos
             /\ h.listening = g.listening /\ h.changed = g.changed /\ h.res = g.res
             /\ DOMAIN h.build = DOMAIN g.build
             /\ h.build[e] = FoundedAs(g.build[e], blocking, g.pos[e])
<1>1. PICK b : b = g.build[e]
  OBVIOUS
<1>2. PICK p : p = g.pos[e]
  OBVIOUS
<1>3. PICK f : f = Owner(g, e)
  OBVIOUS
<1>4. PICK c : c = FoundedAs(b, blocking, p)
  OBVIOUS
<1>5. /\ b \in BuildRecord /\ p \in Place /\ f \in Faction
      /\ c \in BuildRecord /\ (Stands(c) <=> blocking)
  <2>1. b \in BuildRecord /\ p \in Place /\ f \in Faction
    BY <1>1, <1>2, <1>3 DEF Shape, Owner
  <2>2. c \in BuildRecord /\ c.state = Founded /\ c.blocking = blocking
    <3>1. PICK q \in Place : q = IF blocking THEN p ELSE b.place
      BY <2>1, BuildFields
    <3>2. c = [state |-> Founded, blocking |-> blocking, isSite |-> b.isSite,
               place |-> q, required |-> b.required]
      BY <1>4, <2>1, <3>1 DEF FoundedAs, BuildRecord
    <3>. QED BY <2>1, <3>2, BuildFields DEF BuildRecord, Founded, Placement, Completed
  <2>. QED BY <2>1, <2>2 DEF Stands, Founded
<1>6. PICK h : h = Placing(g, e, blocking)
  OBVIOUS
<1>7. PICK a : a = [g EXCEPT !.build[e].state = Founded, !.build[e].blocking = blocking]
  OBVIOUS
<1>8. PICK d : d = [b EXCEPT !.state = Founded, !.blocking = blocking]
  OBVIOUS
<1>9. /\ IsGame(a) /\ a.build = [g.build EXCEPT ![e] = d]
      /\ a.site = g.site /\ a.faction = g.faction /\ a.res = g.res /\ a.cap = g.cap
      /\ a.pos = g.pos /\ a.changed = g.changed /\ a.blockers = g.blockers
      /\ a.listening = g.listening
  <2>1. a = [g EXCEPT !.build = [g.build EXCEPT ![e] = d]]
    BY <1>1, <1>7, <1>8 DEF Shape, IsGame, Fields
  <2>. QED BY <2>1 DEF Shape, IsGame, Fields
<1>10. CASE ~blocking
  <2>1. h = a
    BY <1>6, <1>7, <1>10 DEF Placing
  <2>2. c = d
    BY <1>4, <1>5, <1>8, <1>10 DEF FoundedAs, BuildRecord
  <2>3. PutWork(g, h, e, c) /\ h.blockers = g.blockers /\ h.listening = g.listening
    BY <1>9, <2>1, <2>2 DEF PutWork
  <2>4. g.listening \subseteq Entity
    BY DEF Shape
  <2>5. /\ Works(g, h, e) /\ ResKept(g, h, e) /\ CapKept(g, h, e)
        /\ DOMAIN h.build = DOMAIN g.build /\ h.build[e] = c
    BY <1>1, <1>5, <1>10, <2>3, <2>4, WorkPut
  <2>. QED BY <1>1, <1>2, <1>4, <1>6, <2>3, <2>5 DEF PutWork
<1>11. CASE blocking
  <2>1. PICK k : k = Incref(a, f, p)
    OBVIOUS
  <2>2. BlockersOnly(a, k) /\ CountedBy(g.blockers, k.blockers, f, p, 1)
    <3>1. a.blockers \in [Faction -> [Place -> Int]]
      BY <1>9 DEF Shape
    <3>. QED BY <1>5, <1>9, <2>1, <3>1, CountDoes
  <2>3. h = [k EXCEPT !.build[e].place = p]
    BY <1>2, <1>3, <1>6, <1>7, <1>11, <2>1 DEF Placing
  <2>4. c = [d EXCEPT !.place = p]
    BY <1>4, <1>5, <1>8, <1>11 DEF FoundedAs, BuildRecord
  <2>5. /\ IsGame(h) /\ h.build = [g.build EXCEPT ![e] = c] /\ h.blockers = k.blockers
        /\ h.site = g.site /\ h.faction = g.faction /\ h.res = g.res /\ h.cap = g.cap
        /\ h.pos = g.pos /\ h.listening = g.listening /\ h.changed = g.changed
    <3>1. k.build = [g.build EXCEPT ![e] = d]
      BY <1>9, <2>2 DEF BlockersOnly
    <3>2. [k.build EXCEPT ![e].place = p] = [g.build EXCEPT ![e] = c]
      BY <2>4, <3>1
    <3>3. h = [k EXCEPT !.build = [g.build EXCEPT ![e] = c]]
      BY <2>3, <3>2
    <3>. QED BY <1>9, <2>2, <3>3 DEF BlockersOnly, IsGame, Fields
  <2>6. PutWork(g, h, e, c)
    BY <2>5 DEF PutWork
  <2>7. /\ Shape(h) /\ Apart(g, h, e) /\ ResKept(g, h, e) /\ CapKept(g, h, e)
        /\ DOMAIN h.build = DOMAIN g.build /\ h.build[e] = c
    <3>1. h.blockers \in [Faction -> [Place -> Int]] /\ g.listening \subseteq Entity
      BY <2>2, <2>5 DEF CountedBy, Shape
    <3>. QED BY <1>5, <2>5, <2>6, <3>1, BuildReplaced
  <2>8. BlockersKept(g, h, e)
    <3>1. ASSUME NEW i \in Faction, NEW q \in Place
          PROVE  h.blockers[i][q] - BlockOf(h, e, i, q) = g.blockers[i][q] - BlockOf(g, e, i, q)
      <4>1. h.blockers[i][q] = IF i = f /\ q = p THEN g.blockers[i][q] + 1 ELSE g.blockers[i][q]
        BY <2>2, <2>5 DEF CountedBy
      <4>2. BlockOf(g, e, i, q) = 0
        BY <1>1 DEF BlockOf, Standing, Stands
      <4>3. e \in Standing(h, i, q) <=> i = f /\ q = p
        <5>1. Owner(h, e) = f /\ h.pos[e] = p /\ e \in DOMAIN h.build /\ Stands(h.build[e])
          BY <1>2, <1>3, <1>5, <1>11, <2>5, <2>7 DEF Owner
        <5>. QED BY <5>1 DEF Standing, Stands
      <4>4. BlockOf(h, e, i, q) = IF i = f /\ q = p THEN 1 ELSE 0
        BY <4>3 DEF BlockOf
      <4>5. g.blockers[i][q] \in Int
        BY DEF Shape
      <4>. QED BY <4>1, <4>2, <4>4, <4>5
    <3>. QED BY <3>1 DEF BlockersKept
  <2>. QED BY <1>1, <1>2, <1>4, <1>6, <2>5, <2>7, <2>8 DEF Works
<1>. QED BY <1>10, <1>11

\* Room is made for every material, and it is asked for.
AskAll(g, e, req) ==
  EachResource(LAMBDA h, r : SetAltDesired(SetAltCapacity(h, e, r, req[r]), e, r, req[r]), g)

\* The site when it has been told of the resources in T.
AskedFor(g, h, e, req, T) ==
  /\ Beside(g, h, e) /\ h.res = g.res /\ h.changed = g.changed /\ CapKept(g, h, e)
  /\ SameSite(g.site[e], h.site[e], {"altCapacity", "altDesired"})
  /\ \A q \in Resource :
       IF q \in T THEN h.site[e].altCapacity[q] = req[q] /\ h.site[e].altDesired[q] = req[q]
       ELSE h.site[e].altCapacity[q] = g.site[e].altCapacity[q]

LEMMA AsksOne ==
  ASSUME NEW g, NEW e, Owned(g, e), NEW req \in [Resource -> Nat],
         g.site[e].curr = Zero, g.site[e].altCapacity = Zero,
         NEW T, NEW r \in Resource, r \in T, NEW h, AskedFor(g, h, e, req, T \ {r})
  PROVE  AskedFor(g, SetAltDesired(SetAltCapacity(h, e, r, req[r]), e, r, req[r]), e, req, T)
<1>1. PICK n \in Nat : n = req[r]
  OBVIOUS
<1>2. PICK a : a = SetAltCapacity(h, e, r, n)
  OBVIOUS
<1>3. PICK k : k = SetAltDesired(a, e, r, n)
  OBVIOUS
<1>4. Owned(h, e)
  BY OwnedSite DEF AskedFor
<1>5. /\ h.site[e].curr = Zero /\ h.site[e].altCapacity[r] = 0 /\ Zero[r] = 0
  BY Tables DEF AskedFor, SameSite
<1>6. /\ Beside(h, a, e) /\ a.res = h.res /\ a.changed = h.changed
      /\ SameSite(h.site[e], a.site[e], {"altCapacity"}) /\ CapKept(h, a, e)
      /\ \A q \in Resource : a.site[e].altCapacity[q] = IF q = r THEN n ELSE h.site[e].altCapacity[q]
  BY <1>2, <1>4, <1>5, SetAltCapacityDoes
<1>7. Owned(a, e)
  BY <1>4, <1>6, OwnedSite
<1>8. /\ Beside(a, k, e) /\ k.res = a.res /\ k.cap = a.cap /\ k.changed = a.changed
      /\ SameSite(a.site[e], k.site[e], {"altDesired"})
      /\ \A q \in Resource : k.site[e].altDesired[q] = IF q = r THEN n ELSE a.site[e].altDesired[q]
  BY <1>3, <1>7, SetAltDesiredDoes
<1>9. CapKept(a, k, e)
  <2>1. EffectiveCapacity(k.site[e]) = EffectiveCapacity(a.site[e])
    BY <1>8 DEF SameSite, EffectiveCapacity
  <2>. QED BY <1>7, <1>8, <2>1, KeptIfSame
<1>10. CapKept(g, k, e)
  BY <1>6, <1>9, KeptAfter DEF AskedFor
<1>11. Beside(g, k, e)
  BY <1>6, <1>8 DEF AskedFor, Beside
<1>12. SameSite(g.site[e], k.site[e], {"altCapacity", "altDesired"})
  BY <1>6, <1>8 DEF AskedFor, SameSite
<1>13. /\ k.site[e].altCapacity = a.site[e].altCapacity
       /\ a.site[e].altDesired = h.site[e].altDesired
  BY <1>6, <1>8 DEF SameSite
<1>14. ASSUME NEW q \in Resource
       PROVE  IF q \in T THEN k.site[e].altCapacity[q] = req[q] /\ k.site[e].altDesired[q] = req[q]
              ELSE k.site[e].altCapacity[q] = g.site[e].altCapacity[q]
  BY <1>1, <1>6, <1>8, <1>13 DEF AskedFor
<1>15. AskedFor(g, k, e, req, T)
  BY <1>6, <1>8, <1>10, <1>11, <1>12, <1>14 DEF AskedFor
<1>. QED BY <1>1, <1>2, <1>3, <1>15

LEMMA AsksDoes ==
  ASSUME NEW g, NEW e, Owned(g, e), NEW req \in [Resource -> Nat],
         g.site[e].curr = Zero, g.site[e].altCapacity = Zero
  PROVE  LET h == AskAll(g, e, req)
         IN  AskedFor(g, h, e, req, Resource)
<1> DEFINE Step(r, h) == SetAltDesired(SetAltCapacity(h, e, r, req[r]), e, r, req[r])
           Rec(f) == f = [T \in SUBSET Resource |->
                            IF T = {} THEN g
                            ELSE LET x == CHOOSE x \in T : TRUE IN Step(x, f[T \ {x}])]
           it == CHOOSE f : Rec(f)
           V == Games
           st == [p \in Resource \X V |-> Step(p[1], p[2])]
           ch == [T \in SUBSET Resource |-> CHOOSE x \in T : TRUE]
           good == [T \in SUBSET Resource |-> {h \in V : AskedFor(g, h, e, req, T)}]
<1>1. AskAll(g, e, req) = it[Resource]
  BY DEF AskAll, EachResource, FoldSet, MapThenFoldSet
<1>2. \A T \in SUBSET Resource : T # {} => ch[T] \in T /\ ch[T] = CHOOSE x \in T : TRUE
  OBVIOUS
<1>3. \A r \in Resource, h \in V : st[<<r, h>>] = Step(r, h)
  OBVIOUS
<1>4. \A T \in SUBSET Resource : \A h : h \in good[T] <=> h \in V /\ AskedFor(g, h, e, req, T)
  OBVIOUS
<1>5. DOMAIN st = Resource \X V
  OBVIOUS
<1> HIDE DEF st, ch, good
<1>6. g \in V /\ g \in good[{}]
  <2>1. g \in V
    BY GamesHaveShape DEF Owned
  <2>2. Beside(g, g, e) /\ SameSite(g.site[e], g.site[e], {"altCapacity", "altDesired"})
    BY DEF Beside, Owned, SameSite
  <2>3. CapKept(g, g, e)
    BY KeptIfAlike
  <2>4. AskedFor(g, g, e, req, {})
    BY <2>2, <2>3 DEF AskedFor
  <2> HIDE DEF V
  <2>. QED BY <1>4, <2>1, <2>4
<1>7. ASSUME NEW T \in SUBSET Resource, NEW r \in T, NEW h \in good[T \ {r}]
      PROVE  st[<<r, h>>] \in good[T]
  <2>1. h \in V /\ AskedFor(g, h, e, req, T \ {r})
    BY <1>4
  <2>2. AskedFor(g, Step(r, h), e, req, T)
    BY <2>1, AsksOne
  <2>3. Step(r, h) \in V
    <3> HIDE DEF Step
    <3>. QED BY <2>2, GamesHaveShape DEF AskedFor, Beside
  <2> HIDE DEF Step, V
  <2>. QED BY <1>3, <1>4, <2>1, <2>2, <2>3
<1> HIDE DEF Step, V
<1>8. Leads(Resource, V, good, g, st)
  BY <1>4, <1>5, <1>6, <1>7 DEF Leads
<1>9. PICK k : Follows(k, Resource, V, ch, g, st)
  BY <1>2, <1>8, FoldWithin
<1>10. \A T \in SUBSET Resource : T # {} => k[T] = Step(ch[T], k[T \ {ch[T]}])
  BY <1>3, <1>9 DEF Follows
<1>11. Rec(k)
  <2>1. k = [T \in SUBSET Resource |-> k[T]] /\ k[{}] = g
    BY <1>9 DEF Follows
  <2>2. \A T \in SUBSET Resource :
          k[T] = IF T = {} THEN g
                 ELSE LET x == CHOOSE x \in T : TRUE IN Step(x, k[T \ {x}])
    BY <1>2, <1>10, <2>1
  <2>. QED BY <2>1, <2>2
<1>12. Rec(it)
  <2> HIDE DEF Rec
  <2>. QED BY <1>11
<1> HIDE DEF it
<1>13. Runs(it, Resource, V, g, st)
  BY <1>2, <1>3, <1>12 DEF Runs
<1>14. it[Resource] \in good[Resource]
  BY <1>8, <1>13, FoldLands
<1>. QED BY <1>1, <1>4, <1>14

\* The set of those who listen is replaced.
LEMMA Listening ==
  ASSUME NEW g, Shape(g), NEW e \in Entity, NEW L, L \subseteq Entity,
         L \ {e} = g.listening \ {e}, NEW h, h = [g EXCEPT !.listening = L]
  PROVE  /\ Works(g, h, e) /\ ResKept(g, h, e) /\ CapKept(g, h, e)
         /\ h.site = g.site /\ h.build = g.build /\ h.faction = g.faction /\ h.pos = g.pos
         /\ h.listening = L /\ h.changed = g.changed /\ h.res = g.res
<1>1. IsGame(h) /\ h.listening = L /\ \A k \in Fields \ {"listening"} : h[k] = g[k]
  BY DEF Shape, IsGame, Fields
<1>2. /\ h.site = g.site /\ h.build = g.build /\ h.faction = g.faction /\ h.pos = g.pos
      /\ h.listening = L /\ h.changed = g.changed /\ h.res = g.res /\ h.cap = g.cap
      /\ h.blockers = g.blockers
  BY <1>1 DEF Fields
<1>3. Shape(h)
  BY <1>1, <1>2 DEF Shape
<1>4. Apart(g, h, e)
  <2>1. \A x \in Entity \ {e} : x \in g.listening <=> x \in h.listening
    BY <1>2
  <2>. QED BY <1>2, <2>1 DEF Apart
<1>5. ResKept(g, h, e) /\ CapKept(g, h, e) /\ BlockersKept(g, h, e)
  BY <1>2, KeptIfAlike
<1>. QED BY <1>2, <1>3, <1>4, <1>5 DEF Works

LEMMA FoundDoes ==
  ASSUME NEW g, NEW e, Owned(g, e), e \in DOMAIN g.build, e \in DOMAIN g.pos,
         g.build[e].state = Marked, g.site[e].curr = Zero, g.site[e].altCapacity = Zero,
         NEW blocking \in BOOLEAN
  PROVE  LET h == Found(g, e, blocking)
             req == g.build[e].required
         IN  /\ Works(g, h, e) /\ ResKept(g, h, e) /\ CapKept(g, h, e)
             /\ h.faction = g.faction /\ h.pos = g.pos /\ h.changed = g.changed
             /\ DOMAIN h.build = DOMAIN g.build
             /\ h.build[e] = FoundedAs(g.build[e], blocking, g.pos[e])
             /\ h.listening = g.listening \union {e}
             /\ DOMAIN h.site = DOMAIN g.site
             /\ SameSite(g.site[e], h.site[e], {"altCapacity", "altDesired"})
             /\ h.site[e].altCapacity = req /\ h.site[e].altDesired = req
<1>1. Shape(g) /\ e \in Entity /\ e \in DOMAIN g.faction /\ e \in DOMAIN g.site
  BY DEF Owned
<1>2. PICK req : req = g.build[e].required
  OBVIOUS
<1>3. req \in [Resource -> Nat]
  BY <1>1, <1>2, BuildFields DEF Shape
<1>4. PICK m : m = Placing(g, e, blocking)
  OBVIOUS
<1>5. /\ Works(g, m, e) /\ ResKept(g, m, e) /\ CapKept(g, m, e)
      /\ m.site = g.site /\ m.faction = g.faction /\ m.pos = g.pos
      /\ m.listening = g.listening /\ m.changed = g.changed /\ m.res = g.res
      /\ DOMAIN m.build = DOMAIN g.build
      /\ m.build[e] = FoundedAs(g.build[e], blocking, g.pos[e])
  <2>1. ~Stands(g.build[e])
    BY DEF Stands, Marked, Founded
  <2>. QED BY <1>1, <1>4, <2>1, PlacingDoes
<1>6. Owned(m, e) /\ m.site[e].curr = Zero /\ m.site[e].altCapacity = Zero
  BY <1>1, <1>5 DEF Owned, Works
<1>7. PICK k : k = AskAll(m, e, req)
  OBVIOUS
<1>8. AskedFor(m, k, e, req, Resource)
  BY <1>3, <1>6, <1>7, AsksDoes
<1>9. Beside(m, k, e) /\ k.res = m.res /\ k.changed = m.changed /\ CapKept(m, k, e)
      /\ SameSite(m.site[e], k.site[e], {"altCapacity", "altDesired"})
  BY <1>8 DEF AskedFor
<1>10. k.site[e].altCapacity = req /\ k.site[e].altDesired = req
  <2>1. k.site[e] \in SiteRecord
    BY <1>6, <1>9, OwnedSite
  <2>2. k.site[e].altCapacity \in [Resource -> Nat] /\ k.site[e].altDesired \in [Resource -> Nat]
    BY <2>1, SiteTables
  <2>3. \A q \in Resource : k.site[e].altCapacity[q] = req[q] /\ k.site[e].altDesired[q] = req[q]
    BY <1>8 DEF AskedFor
  <2>. QED BY <1>3, <2>2, <2>3
<1>11. Works(m, k, e) /\ ResKept(m, k, e)
  <2>1. k.site[e].curr = m.site[e].curr
    BY <1>9 DEF SameSite
  <2>. QED BY <1>6, <1>9, <2>1, BesideWorks, KeptIfSame
<1>12. PICK L : L = k.listening \union {e}
  OBVIOUS
<1>13. PICK h : h = [k EXCEPT !.listening = L]
  OBVIOUS
<1>14. Shape(k) /\ L \subseteq Entity /\ L \ {e} = k.listening \ {e}
  BY <1>1, <1>9, <1>12 DEF Beside, Shape
<1>15. /\ Works(k, h, e) /\ ResKept(k, h, e) /\ CapKept(k, h, e)
       /\ h.site = k.site /\ h.build = k.build /\ h.faction = k.faction /\ h.pos = k.pos
       /\ h.listening = L /\ h.changed = k.changed
  BY <1>1, <1>13, <1>14, Listening
<1>16. Found(g, e, blocking) = h
  <2>1. Found(g, e, blocking) =
          IF g.build[e].state # Marked THEN g ELSE
          [AskAll(Placing(g, e, blocking), e, g.build[e].required) EXCEPT !.listening = @ \union {e}]
    BY DEF Found, Placing, AskAll, EachResource, FoldSet, MapThenFoldSet
  <2>. QED BY <1>2, <1>4, <1>7, <1>12, <1>13, <2>1
<1>17. Works(m, h, e) /\ ResKept(m, h, e) /\ CapKept(m, h, e)
  BY <1>9, <1>11, <1>15, WorksAfter, KeptAfter
<1>18. Works(g, h, e) /\ ResKept(g, h, e) /\ CapKept(g, h, e)
  BY <1>5, <1>17, WorksAfter, KeptAfter
<1>19. /\ h.faction = g.faction /\ h.pos = g.pos /\ h.changed = g.changed
       /\ h.build = m.build /\ DOMAIN h.site = DOMAIN g.site /\ h.site = k.site
       /\ h.listening = g.listening \union {e}
  BY <1>5, <1>9, <1>12, <1>15 DEF Beside
<1>. QED BY <1>2, <1>5, <1>9, <1>10, <1>16, <1>18, <1>19

\* The materials are used up: the site is empty, and the total does not notice.
SuppliedFrom(g, h, e) ==
  /\ Works(g, h, e) /\ h.res = g.res /\ CapKept(g, h, e)
  /\ h.faction = g.faction /\ h.pos = g.pos /\ h.changed = g.changed
  /\ DOMAIN h.build = DOMAIN g.build
  /\ h.build[e] = [g.build[e] EXCEPT !.state = Supplied]
  /\ h.listening = g.listening \ {e}
  /\ DOMAIN h.site = DOMAIN g.site
  /\ SameSite(g.site[e], h.site[e], {"altCapacity", "altDesired", "curr"})
  /\ h.site[e].altCapacity = Zero /\ h.site[e].altDesired = Zero
  /\ h.site[e].curr = Zero

LEMMA SupplyDoes ==
  ASSUME NEW g, NEW e, Owned(g, e), e \in DOMAIN g.build, g.build[e].state = Founded
  PROVE  SuppliedFrom(g, Supply(g, e), e)
<1>1. Shape(g) /\ e \in Entity /\ e \in DOMAIN g.faction /\ e \in DOMAIN g.site
  BY DEF Owned
<1>2. PICK b : b = g.build[e]
  OBVIOUS
<1>3. PICK c : c = [b EXCEPT !.state = Supplied]
  OBVIOUS
<1>4. b \in BuildRecord /\ c \in BuildRecord /\ (Stands(c) <=> Stands(b))
  <2>1. b \in BuildRecord
    BY <1>1, <1>2 DEF Shape
  <2>2. c \in BuildRecord /\ c.state = Supplied /\ c.blocking = b.blocking
    BY <1>3, <2>1 DEF BuildRecord, Supplied, Placement, Completed
  <2>. QED BY <1>2, <2>1, <2>2 DEF Stands, Founded, Supplied
<1>5. PICK L : L = g.listening \ {e}
  OBVIOUS
<1>6. PICK m : m = [g EXCEPT !.build = [g.build EXCEPT ![e] = c], !.listening = L]
  OBVIOUS
<1>7. PutWork(g, m, e, c) /\ m.blockers = g.blockers /\ m.listening = L
  BY <1>1, <1>6 DEF PutWork, Shape, IsGame, Fields
<1>8. L \subseteq Entity /\ L \ {e} = g.listening \ {e}
  BY <1>1, <1>5 DEF Shape
<1>9. /\ Works(g, m, e) /\ ResKept(g, m, e) /\ CapKept(g, m, e)
      /\ DOMAIN m.build = DOMAIN g.build /\ m.build[e] = c
  BY <1>1, <1>2, <1>4, <1>7, <1>8, WorkPut
<1>10. Owned(m, e) /\ m.site = g.site /\ m.faction = g.faction /\ m.pos = g.pos
       /\ m.changed = g.changed /\ m.res = g.res
  BY <1>1, <1>7, <1>9 DEF Owned, Works, PutWork
<1>11. PICK k : k = ClearAlt(m, e)
  OBVIOUS
<1>12. /\ Beside(m, k, e) /\ k.res = m.res /\ k.changed = m.changed
       /\ SameSite(m.site[e], k.site[e], {"altCapacity", "altDesired"})
       /\ k.site[e].altCapacity = Zero /\ k.site[e].altDesired = Zero
       /\ CapKept(m, k, e)
  BY <1>10, <1>11, ClearAltDoes
<1>13. Owned(k, e) /\ Works(m, k, e)
  BY <1>10, <1>12, OwnedSite, BesideWorks
<1>14. PICK h : h = ClearCurr(k, e)
  OBVIOUS
<1>15. /\ Beside(k, h, e) /\ h.res = k.res /\ h.changed = k.changed
       /\ SameSite(k.site[e], h.site[e], {"curr"}) /\ h.site[e].curr = Zero
       /\ CapKept(k, h, e)
  BY <1>12, <1>13, <1>14, ClearCurrDoes
<1>16. Works(k, h, e)
  BY <1>13, <1>15, BesideWorks
<1>17. Works(g, h, e) /\ CapKept(g, h, e)
  BY <1>9, <1>12, <1>13, <1>15, <1>16, WorksAfter, KeptAfter
<1>18. SameSite(g.site[e], h.site[e], {"altCapacity", "altDesired", "curr"})
       /\ h.site[e].altCapacity = Zero /\ h.site[e].altDesired = Zero
  BY <1>10, <1>12, <1>15 DEF SameSite
<1>19. /\ h.faction = g.faction /\ h.pos = g.pos /\ h.changed = g.changed /\ h.res = g.res
       /\ h.build = m.build /\ h.listening = L /\ DOMAIN h.site = DOMAIN g.site
  BY <1>7, <1>10, <1>12, <1>15 DEF Beside
<1>20. Supply(g, e) = h
  <2>1. m = [g EXCEPT !.build[e].state = Supplied, !.listening = @ \ {e}]
    BY <1>1, <1>2, <1>3, <1>5, <1>6 DEF Shape, IsGame, Fields
  <2>2. Supply(g, e) = IF g.build[e].state # Founded THEN g ELSE
          ClearCurr(ClearAlt([g EXCEPT !.build[e].state = Supplied, !.listening = @ \ {e}], e), e)
    BY DEF Supply
  <2>. QED BY <1>11, <1>14, <2>1, <2>2
<1>. QED BY <1>2, <1>3, <1>5, <1>9, <1>15, <1>17, <1>18, <1>19, <1>20 DEF SuppliedFrom

\* The site of a building that is only built with it goes; another goes back to its
\* own tables.
CompletedFrom(g, h, e) ==
  LET isSite == g.build[e].isSite
  IN  /\ Works(g, h, e) /\ ResKept(g, h, e) /\ CapKept(g, h, e)
      /\ h.faction = g.faction /\ h.pos = g.pos /\ h.changed = g.changed
      /\ h.listening = g.listening
      /\ DOMAIN h.build = DOMAIN g.build
      /\ h.build[e] = [g.build[e] EXCEPT !.state = Completed]
      /\ e \in DOMAIN h.site <=> isSite
      /\ isSite => SameSite(g.site[e], h.site[e], {"useAlt"}) /\ h.site[e].useAlt = FALSE

LEMMA CompleteDoes ==
  ASSUME NEW g, NEW e, Owned(g, e), e \in DOMAIN g.build, g.build[e].state = Supplied
  PROVE  CompletedFrom(g, Complete(g, e), e)
<1>1. Shape(g) /\ e \in Entity /\ e \in DOMAIN g.faction /\ e \in DOMAIN g.site
  BY DEF Owned
<1>2. PICK m : m = SetUseAlt(g, e, FALSE)
  OBVIOUS
<1>3. /\ Beside(g, m, e) /\ m.res = g.res /\ m.changed = g.changed
      /\ SameSite(g.site[e], m.site[e], {"useAlt"}) /\ m.site[e].useAlt = FALSE
      /\ CapKept(g, m, e)
  BY <1>2, SetUseAltDoes
<1>4. Works(g, m, e) /\ ResKept(g, m, e) /\ Owned(m, e)
  <2>1. m.site[e].curr = g.site[e].curr
    BY <1>3 DEF SameSite
  <2>. QED BY <1>3, <2>1, BesideWorks, KeptIfSame, OwnedSite
<1>5. PICK isSite \in BOOLEAN : isSite = g.build[e].isSite
  BY <1>1, BuildFields DEF Shape
<1>6. PICK k : k = IF isSite THEN m ELSE RemoveSite(m, e)
  OBVIOUS
<1>7. /\ Works(m, k, e) /\ ResKept(m, k, e) /\ CapKept(m, k, e)
      /\ k.build = m.build /\ k.faction = m.faction /\ k.pos = m.pos
      /\ k.listening = m.listening /\ k.changed = m.changed
      /\ e \in DOMAIN k.site <=> isSite
      /\ isSite => k.site = m.site
  <2>1. CASE isSite
    <3>1. k = m /\ e \in DOMAIN m.site /\ Shape(m)
      BY <1>4, <1>6, <2>1 DEF Owned
    <3>2. ResKept(m, m, e) /\ CapKept(m, m, e) /\ BlockersKept(m, m, e)
      BY KeptIfAlike
    <3>3. Apart(m, m, e)
      BY DEF Apart
    <3>. QED BY <2>1, <3>1, <3>2, <3>3 DEF Works
  <2>2. CASE ~isSite
    <3>1. k = RemoveSite(m, e) /\ Shape(m) /\ (e \in DOMAIN m.site => e \in DOMAIN m.faction)
      BY <1>4, <1>6, <2>2 DEF Owned
    <3>2. SitesOnly(m, k) /\ Apart(m, k, e) /\ DOMAIN k.site = DOMAIN m.site \ {e} /\ Kept(m, k, e)
      BY <1>1, <3>1, RemoveSiteDoes
    <3>. QED BY <2>2, <3>2 DEF SitesOnly, Kept, Works
  <2>. QED BY <2>1, <2>2
<1>8. PICK b : b = g.build[e]
  OBVIOUS
<1>9. PICK c : c = [b EXCEPT !.state = Completed]
  OBVIOUS
<1>10. Shape(k) /\ k.build = g.build /\ k.faction = g.faction /\ k.pos = g.pos
       /\ k.listening = g.listening /\ k.changed = g.changed
  BY <1>3, <1>7 DEF Works, Beside
<1>11. b \in BuildRecord /\ c \in BuildRecord /\ (Stands(c) <=> Stands(b))
  <2>1. b \in BuildRecord /\ b.state = Supplied
    BY <1>1, <1>8 DEF Shape
  <2>2. c \in BuildRecord /\ c.state = Completed /\ c.blocking = b.blocking
    BY <1>9, <2>1 DEF BuildRecord, Placement, Completed
  <2>. QED BY <2>1, <2>2 DEF Stands, Founded, Supplied, Completed
<1>12. PICK h : h = [k EXCEPT !.build = [k.build EXCEPT ![e] = c]]
  OBVIOUS
<1>13. PutWork(k, h, e, c) /\ h.blockers = k.blockers /\ h.listening = k.listening
  BY <1>10, <1>12 DEF PutWork, Shape, IsGame, Fields
<1>14. /\ Works(k, h, e) /\ ResKept(k, h, e) /\ CapKept(k, h, e)
       /\ DOMAIN h.build = DOMAIN k.build /\ h.build[e] = c
  <2>1. k.listening \subseteq Entity /\ e \in DOMAIN k.build
    BY <1>10 DEF Shape
  <2>. QED BY <1>1, <1>8, <1>10, <1>11, <1>13, <2>1, WorkPut
<1>15. Complete(g, e) = h
  <2>1. h = [k EXCEPT !.build[e].state = Completed]
    BY <1>8, <1>9, <1>10, <1>12
  <2>2. Complete(g, e) =
          IF g.build[e].state # Supplied THEN g ELSE
          [(IF g.build[e].isSite THEN SetUseAlt(g, e, FALSE)
            ELSE RemoveSite(SetUseAlt(g, e, FALSE), e)) EXCEPT !.build[e].state = Completed]
    BY DEF Complete
  <2>. QED BY <1>2, <1>5, <1>6, <2>1, <2>2
<1>16. Works(g, k, e) /\ ResKept(g, k, e) /\ CapKept(g, k, e)
  BY <1>3, <1>4, <1>7, WorksAfter, KeptAfter
<1>17. Works(g, h, e) /\ ResKept(g, h, e) /\ CapKept(g, h, e)
  BY <1>14, <1>16, WorksAfter, KeptAfter
<1>18. h.site = k.site /\ h.faction = g.faction /\ h.pos = g.pos /\ h.changed = g.changed
       /\ h.listening = g.listening /\ DOMAIN h.build = DOMAIN g.build
  BY <1>10, <1>13, <1>14 DEF PutWork
<1>. QED BY <1>3, <1>5, <1>7, <1>8, <1>9, <1>14, <1>15, <1>17, <1>18 DEF CompletedFrom
-----------------------------------------------------------------------------
(* The steps of a script, one entity at a time *)

LEMMA WorkStep ==
  ASSUME NEW g, NEW s \in Spents, Sound(g, s), NEW e \in Entity, NEW h,
         Works(g, h, e), ResKept(g, h, e), CapKept(g, h, e), Placed(h, e), EntityOK(h, e)
  PROVE  Sound(h, s)
<1>1. SpentKept(g, s, h, s, e)
  BY DEF SpentKept, ResKept
<1>. QED BY <1>1, EntityStep DEF Works

\* What is known of an entity of a sound game.
LEMMA EntityFacts ==
  ASSUME NEW g, NEW s, Sound(g, s), NEW e \in Entity
  PROVE  /\ Shape(g) /\ Placed(g, e) /\ EntityOK(g, e)
         /\ e \in DOMAIN g.build => /\ BuildOK(g, e) /\ g.build[e] \in BuildRecord
                                    /\ e \in DOMAIN g.faction /\ e \in DOMAIN g.pos
         /\ e \in DOMAIN g.site => Owned(g, e) /\ SiteOK(g, e) /\ g.site[e] \in SiteRecord
         /\ UnderWork(g, e) => e \in DOMAIN g.site
         /\ e \notin Active(g) => Absent(g, e)
<1>1. Shape(g) /\ Placed(g, e) /\ EntityOK(g, e)
  BY SoundShape
<1>2. e \in DOMAIN g.build => /\ BuildOK(g, e) /\ g.build[e] \in BuildRecord
                              /\ e \in DOMAIN g.faction /\ e \in DOMAIN g.pos
  BY <1>1 DEF EntityOK, Shape, Placed
<1>3. e \in DOMAIN g.site => Owned(g, e) /\ SiteOK(g, e) /\ g.site[e] \in SiteRecord
  BY <1>1 DEF EntityOK, Shape, Placed, Owned
<1>4. UnderWork(g, e) => e \in DOMAIN g.site
  BY <1>1, <1>2 DEF EntityOK, UnderWork, Active
<1>5. e \notin Active(g) => Absent(g, e)
  BY <1>1 DEF Placed, Absent, Active
<1>. QED BY <1>1, <1>2, <1>3, <1>4, <1>5

\* An entity that is not there is as it should be.
LEMMA AbsentOK ==
  ASSUME NEW h, NEW e, Absent(h, e)
  PROVE  Placed(h, e) /\ EntityOK(h, e)
BY DEF Absent, Placed, EntityOK, IsFounded, UnderWork, Active

\* A site of which nothing is left over from use, and that is not founded, holds nothing.
LEMMA HoldsNothing ==
  ASSUME NEW g, NEW e \in Entity, SiteOK(g, e), g.site[e] \in SiteRecord,
         UnderWork(g, e), ~IsFounded(g, e)
  PROVE  g.site[e].curr = Zero /\ g.site[e].altCapacity = Zero /\ g.site[e].altDesired = Zero
<1>1. g.site[e].altCapacity = Zero /\ g.site[e].altDesired = Zero
  BY DEF SiteOK, Asked
<1>2. EffectiveCapacity(g.site[e]) = Zero
  BY <1>1 DEF SiteOK, EffectiveCapacity
<1>3. \A r \in Resource : g.site[e].curr[r] <= Zero[r]
  BY <1>2 DEF SiteOK
<1>4. g.site[e].curr \in [Resource -> Nat]
  BY SiteTables
<1>5. \A r \in Resource : g.site[e].curr[r] = Zero[r]
  BY <1>3, <1>4, Tables
<1>6. g.site[e].curr = Zero
  BY <1>4, <1>5, Tables
<1>. QED BY <1>1, <1>6

LEMMA CreateSound ==
  ASSUME NEW g, NEW s \in Spents, Sound(g, s), NEW e \in Entity, e \notin Active(g),
         NEW p \in Place, NEW needs \in [Resource -> Nat], e \in Buildings \/ needs = Zero
  PROVE  LET h == AddEntity(g, e, p, e \in Sites)
         IN  Sound(IF e \in Buildings THEN [h EXCEPT !.build[e].required = needs] ELSE h, s)
<1>1. PICK isSite \in BOOLEAN : isSite = (e \in Sites)
  <2>1. (e \in Sites) \in BOOLEAN
    OBVIOUS
  <2>. QED BY <2>1
<1>2. PICK h : h = AddEntity(g, e, p, isSite)
  OBVIOUS
<1>3. Shape(g) /\ Absent(g, e)
  BY EntityFacts
<1>4. Works(g, h, e) /\ ResKept(g, h, e) /\ CapKept(g, h, e) /\ Entered(h, e, p, Neutral, isSite)
  BY <1>2, <1>3, AddEntityDoes
<1>5. PICK k : k = IF e \in Buildings THEN [h EXCEPT !.build[e].required = needs] ELSE h
  OBVIOUS
<1>6. Shape(h)
  BY <1>4 DEF Works
<1>7. /\ Works(g, k, e) /\ ResKept(g, k, e) /\ CapKept(g, k, e)
      /\ k.site = h.site /\ k.faction = h.faction /\ k.pos = h.pos /\ k.listening = h.listening
      /\ DOMAIN k.build = DOMAIN h.build
      /\ e \in Buildings => k.build[e] = [Fresh(p, isSite) EXCEPT !.required = needs]
  <2>1. CASE e \notin Buildings
    <3>1. k = h
      BY <1>5, <2>1
    <3>. QED BY <1>4, <2>1, <3>1
  <2>2. CASE e \in Buildings
    <3>1. PICK b : b = h.build[e]
      OBVIOUS
    <3>2. PICK c : c = [b EXCEPT !.required = needs]
      OBVIOUS
    <3>3. e \in DOMAIN h.build /\ b = Fresh(p, isSite) /\ b \in BuildRecord
      BY <1>4, <1>6, <2>2, <3>1 DEF Entered, Shape
    <3>4. c \in BuildRecord /\ ~Stands(b) /\ ~Stands(c)
      <4>1. ~b.blocking /\ ~c.blocking
        BY <3>2, <3>3 DEF Fresh
      <4>2. c \in BuildRecord
        BY <3>2, <3>3 DEF BuildRecord
      <4>. QED BY <4>1, <4>2 DEF Stands
    <3>5. k = [h EXCEPT !.build = [h.build EXCEPT ![e] = c]]
      BY <1>5, <2>2, <3>1, <3>2
    <3>6. PutWork(h, k, e, c) /\ k.blockers = h.blockers /\ k.listening = h.listening
      BY <1>6, <3>5 DEF PutWork, Shape, IsGame, Fields
    <3>7. /\ k.listening \subseteq Entity /\ k.listening \ {e} = h.listening \ {e}
          /\ Stands(c) <=> Stands(h.build[e])
          /\ e \in DOMAIN h.build /\ c \in BuildRecord /\ PutWork(h, k, e, c)
          /\ k.blockers = h.blockers
      BY <1>6, <3>1, <3>3, <3>4, <3>6 DEF Shape
    <3>8. /\ Works(h, k, e) /\ ResKept(h, k, e) /\ CapKept(h, k, e)
          /\ DOMAIN k.build = DOMAIN h.build /\ k.build[e] = c
      BY <1>6, <3>7, WorkPut
    <3>9. Works(g, k, e) /\ ResKept(g, k, e) /\ CapKept(g, k, e)
      BY <1>4, <3>8, WorksAfter, KeptAfter
    <3>. QED BY <3>2, <3>3, <3>6, <3>8, <3>9 DEF PutWork
  <2>. QED BY <2>1, <2>2
<1>8. /\ e \in DOMAIN k.faction /\ e \in DOMAIN k.pos
      /\ e \in DOMAIN k.build <=> e \in Buildings
      /\ e \in DOMAIN k.site <=> e \in Sites \/ e \in Buildings
      /\ e \in DOMAIN k.site => k.site[e] = NewSiteOf(e)
      /\ e \notin k.listening
  BY <1>1, <1>4, <1>7 DEF Entered
<1>9. Placed(k, e)
  BY <1>8 DEF Placed
<1>10. e \in Buildings => /\ k.build[e].state = Placement /\ ~k.build[e].blocking
                          /\ k.build[e].isSite = isSite
  BY <1>7 DEF Fresh
<1>11. e \in DOMAIN k.build => BuildOK(k, e)
  <2> SUFFICES ASSUME e \in DOMAIN k.build PROVE BuildOK(k, e)
    OBVIOUS
  <2>1. k.build[e].isSite <=> e \in Sites
    BY <1>1, <1>8, <1>10, Zenon
  <2>2. k.build[e].state # Founded /\ ~k.build[e].blocking /\ e \notin k.listening
    BY <1>8, <1>10 DEF Placement, Founded
  <2>. QED BY <2>1, <2>2, Zenon DEF BuildOK
<1>12. (UnderWork(k, e) <=> e \in Buildings) /\ ~IsFounded(k, e)
  BY <1>8, <1>10 DEF UnderWork, IsFounded, Placement, Founded, Completed
<1>13. e \in DOMAIN k.site => SiteOK(k, e)
  <2> SUFFICES ASSUME e \in DOMAIN k.site PROVE SiteOK(k, e)
    OBVIOUS
  <2>1. k.site[e] = NewSiteOf(e) /\ Asked(k, e) = Zero
    BY <1>8, <1>12 DEF Asked
  <2>2. /\ k.site[e].useAlt <=> UnderWork(k, e)
        /\ k.site[e].altCapacity = Zero /\ k.site[e].altDesired = Zero
        /\ k.site[e].desired = Zero /\ k.site[e].capacity = Zero /\ k.site[e].curr = Zero
        /\ EffectiveCapacity(k.site[e]) = Zero
    BY <1>12, <2>1, NewSites
  <2>3. \A r \in Resource : Zero[r] <= Zero[r]
    BY Tables
  <2>. QED BY <2>1, <2>2, <2>3 DEF SiteOK
<1>14. EntityOK(k, e)
  BY <1>8, <1>11, <1>12, <1>13 DEF EntityOK, Active, Entity
<1>15. Sound(k, s)
  BY <1>7, <1>9, <1>14, WorkStep
<1>. QED BY <1>1, <1>2, <1>5, <1>15

LEMMA DestroySound ==
  ASSUME NEW g, NEW s \in Spents, Sound(g, s), NEW e \in Entity
  PROVE  Sound(RemoveEntity(g, e), s)
<1>1. PICK h : h = RemoveEntity(g, e)
  OBVIOUS
<1>2. Shape(g) /\ Placed(g, e) /\ (e \in DOMAIN g.build => BuildOK(g, e))
  BY EntityFacts
<1>3. Works(g, h, e) /\ ResKept(g, h, e) /\ CapKept(g, h, e) /\ Absent(h, e)
  BY <1>1, <1>2, RemoveEntityDoes
<1>4. Sound(h, s)
  BY <1>3, AbsentOK, WorkStep
<1>. QED BY <1>1, <1>4

\* What matters of an entity is the same.
LEMMA SameOK ==
  ASSUME NEW g, NEW h, NEW e, Placed(g, e), EntityOK(g, e),
         h.site = g.site, h.build = g.build, h.pos = g.pos,
         h.listening = g.listening, h.changed = g.changed,
         DOMAIN h.faction = DOMAIN g.faction
  PROVE  Placed(h, e) /\ EntityOK(h, e)
<1>1. Placed(h, e)
  BY DEF Placed
<1>2. Active(h) = Active(g)
  BY DEF Active
<1>3. /\ UnderWork(h, e) <=> UnderWork(g, e)
      /\ IsFounded(h, e) <=> IsFounded(g, e)
      /\ IsSaturated(h, e) <=> IsSaturated(g, e)
      /\ BuildOK(h, e) <=> BuildOK(g, e)
      /\ Asked(h, e) = Asked(g, e)
  BY DEF UnderWork, IsFounded, IsSaturated, BuildOK, Asked
<1>4. SiteOK(h, e) <=> SiteOK(g, e)
  BY <1>3 DEF SiteOK
<1>. QED BY <1>1, <1>2, <1>3, <1>4 DEF EntityOK

LEMMA HandSound ==
  ASSUME NEW g, NEW s \in Spents, Sound(g, s), NEW e \in Entity, e \in Active(g),
         NEW f \in Faction
  PROVE  Sound(SetFactionID(g, e, f), s)
<1>1. PICK h : h = SetFactionID(g, e, f)
  OBVIOUS
<1>2. /\ Shape(g) /\ Placed(g, e) /\ EntityOK(g, e) /\ (e \in DOMAIN g.build => BuildOK(g, e))
      /\ e \in DOMAIN g.faction
  BY EntityFacts DEF Active
<1>3. Hands(g, h, e, f)
  <2>1. BlocksThere(g, e)
    BY <1>2 DEF BlocksThere, BuildOK
  <2>. QED BY <1>1, <1>2, <2>1, SetFactionIDDoes
<1>4. Placed(h, e) /\ EntityOK(h, e)
  BY <1>2, <1>3, SameOK DEF Hands
<1>5. Sound(h, s)
  BY <1>3, <1>4, WorkStep DEF Hands
<1>. QED BY <1>1, <1>5

LEMMA MoveSound ==
  ASSUME NEW g, NEW s \in Spents, Sound(g, s), NEW e \in Entity, e \in Active(g),
         NEW p \in Place
  PROVE  Sound(SetPos(g, e, p), s)
<1>1. PICK h : h = SetPos(g, e, p)
  OBVIOUS
<1>2. /\ Shape(g) /\ Placed(g, e) /\ EntityOK(g, e) /\ (e \in DOMAIN g.build => BuildOK(g, e))
      /\ e \in DOMAIN g.faction
      /\ e \in DOMAIN g.build => g.build[e] \in BuildRecord
  BY EntityFacts DEF Active
<1>3. PICK b : b = g.build[e]
  OBVIOUS
<1>4. /\ Works(g, h, e) /\ ResKept(g, h, e) /\ CapKept(g, h, e)
      /\ h.site = g.site /\ h.faction = g.faction
      /\ h.listening = g.listening /\ h.changed = g.changed
      /\ DOMAIN h.pos = DOMAIN g.pos /\ h.pos[e] = p
      /\ DOMAIN h.build = DOMAIN g.build
      /\ e \in DOMAIN g.build => h.build[e] = IF Stands(b) THEN [b EXCEPT !.place = p] ELSE b
  BY <1>1, <1>2, <1>3, SetPosDoes
<1>5. ASSUME e \in DOMAIN g.build
      PROVE  /\ h.build[e].state = b.state /\ h.build[e].required = b.required
             /\ h.build[e].isSite = b.isSite /\ h.build[e].blocking = b.blocking
             /\ b.blocking => h.build[e].place = p
  <2>1. b \in BuildRecord /\ (b.blocking => Stands(b))
    BY <1>2, <1>3, <1>5 DEF BuildOK, Stands
  <2>2. CASE Stands(b)
    BY <1>4, <1>5, <2>1, <2>2 DEF BuildRecord
  <2>3. CASE ~Stands(b)
    BY <1>4, <1>5, <2>1, <2>3
  <2>. QED BY <2>2, <2>3
<1>6. Placed(h, e)
  BY <1>2, <1>4 DEF Placed
<1>7. /\ UnderWork(h, e) <=> UnderWork(g, e)
      /\ IsFounded(h, e) <=> IsFounded(g, e)
      /\ IsSaturated(h, e) <=> IsSaturated(g, e)
      /\ Asked(h, e) = Asked(g, e)
      /\ Active(h) = Active(g)
  BY <1>3, <1>4, <1>5 DEF UnderWork, IsFounded, IsSaturated, Asked, Active
<1>8. e \in DOMAIN h.build => BuildOK(h, e)
  BY <1>2, <1>3, <1>4, <1>5 DEF BuildOK
<1>9. SiteOK(h, e) <=> SiteOK(g, e)
  BY <1>4, <1>7 DEF SiteOK
<1>10. EntityOK(h, e)
  <2>1. IsFounded(g, e) => h.build[e].required = g.build[e].required
    BY <1>3, <1>5 DEF IsFounded
  <2>. QED BY <1>2, <1>4, <1>7, <1>8, <1>9, <2>1 DEF EntityOK
<1>11. Sound(h, s)
  BY <1>4, <1>6, <1>10, WorkStep
<1>. QED BY <1>1, <1>11

\* A site that is as it should be afterwards.
LEMMA SiteStep ==
  ASSUME NEW g, NEW s \in Spents, Sound(g, s), NEW e \in Entity, e \in DOMAIN g.site,
         NEW h, Beside(g, h, e), ResKept(g, h, e), CapKept(g, h, e), SiteOK(h, e),
         IsFounded(h, e) /\ IsSaturated(h, e) /\ h.build[e].required # Zero => h.changed[e] > 0
  PROVE  Sound(h, s)
<1>1. Owned(g, e) /\ Placed(g, e) /\ EntityOK(g, e)
  BY EntityFacts
<1>2. /\ h.build = g.build /\ h.faction = g.faction /\ h.pos = g.pos
      /\ h.listening = g.listening /\ DOMAIN h.site = DOMAIN g.site
  BY DEF Beside
<1>3. Works(g, h, e)
  BY <1>1, BesideWorks
<1>4. Placed(h, e)
  BY <1>1, <1>2 DEF Placed
<1>5. (UnderWork(h, e) <=> UnderWork(g, e)) /\ (BuildOK(h, e) <=> BuildOK(g, e))
  BY <1>2 DEF UnderWork, BuildOK
<1>6. EntityOK(h, e)
  BY <1>1, <1>2, <1>5 DEF EntityOK, Active
<1>. QED BY <1>3, <1>4, <1>6, WorkStep

\* A capacity that is not in use is set.
LEMMA CapacitySound ==
  ASSUME NEW g, NEW s \in Spents, Sound(g, s), NEW e \in Entity, e \in DOMAIN g.site,
         NEW r \in Resource, NEW n \in Nat,
         g.site[e].capacity[r] = 0, g.site[e].curr[r] = 0
  PROVE  Sound(SetCapacity(g, e, r, n), s)
<1>1. PICK h : h = SetCapacity(g, e, r, n)
  OBVIOUS
<1>2. Owned(g, e) /\ SiteOK(g, e) /\ g.site[e] \in SiteRecord /\ EntityOK(g, e)
  BY EntityFacts
<1>3. PICK o : o = g.site[e]
  OBVIOUS
<1>4. PICK t : t = h.site[e]
  OBVIOUS
<1>5. /\ Beside(g, h, e) /\ h.res = g.res /\ h.changed = g.changed
      /\ SameSite(o, t, {"capacity", "desired"})
      /\ \A q \in Resource :
           /\ t.capacity[q] = IF q = r THEN n ELSE o.capacity[q]
           /\ t.desired[q] = IF q = r THEN Lesser(o.desired[q], n) ELSE o.desired[q]
      /\ CapKept(g, h, e)
  BY <1>1, <1>2, <1>3, <1>4, SetCapacityDoes
<1>6. /\ t.curr = o.curr /\ t.useAlt = o.useAlt
      /\ t.altCapacity = o.altCapacity /\ t.altDesired = o.altDesired
  BY <1>5 DEF SameSite
<1>7. ResKept(g, h, e)
  BY <1>2, <1>3, <1>4, <1>5, <1>6, KeptIfSame
<1>8. /\ UnderWork(h, e) <=> UnderWork(g, e)
      /\ IsFounded(h, e) <=> IsFounded(g, e)
      /\ Asked(h, e) = Asked(g, e) /\ h.build = g.build
  BY <1>5 DEF Beside, UnderWork, IsFounded, Asked
<1>9. \A q \in Resource : /\ o.desired[q] \in Nat /\ o.capacity[q] \in Nat /\ o.curr[q] \in Nat
                          /\ o.altCapacity[q] \in Nat
  BY <1>2, <1>3, SiteTables
<1>10. SiteOK(h, e)
  <2>1. ASSUME NEW q \in Resource
        PROVE  t.desired[q] <= t.capacity[q] /\ t.curr[q] <= EffectiveCapacity(t)[q]
    <3>1. o.desired[q] <= o.capacity[q] /\ o.curr[q] <= EffectiveCapacity(o)[q]
      BY <1>2, <1>3 DEF SiteOK
    <3>2. t.desired[q] <= t.capacity[q]
      BY <1>5, <1>9, <3>1 DEF Lesser
    <3>3. t.curr[q] <= EffectiveCapacity(t)[q]
      <4>1. CASE o.useAlt
        BY <1>6, <3>1, <4>1 DEF EffectiveCapacity
      <4>2. CASE ~o.useAlt
        <5>1. EffectiveCapacity(t) = t.capacity /\ EffectiveCapacity(o) = o.capacity
          BY <1>6, <4>2 DEF EffectiveCapacity
        <5>2. q = r => t.curr[q] = 0
          BY <1>3, <1>6
        <5>. QED BY <1>5, <1>6, <1>9, <3>1, <5>1, <5>2
      <4>. QED BY <4>1, <4>2
    <3>. QED BY <3>2, <3>3
  <2>2. o.useAlt <=> UnderWork(g, e)
    BY <1>2, <1>3 DEF SiteOK
  <2>3. o.altCapacity = Asked(g, e) /\ o.altDesired = Asked(g, e)
    BY <1>2, <1>3 DEF SiteOK
  <2>4. t.useAlt <=> UnderWork(h, e)
    BY <1>6, <1>8, <2>2
  <2>. QED BY <1>4, <1>6, <1>8, <2>1, <2>3, <2>4 DEF SiteOK
<1>11. ASSUME IsFounded(h, e), IsSaturated(h, e), h.build[e].required # Zero
       PROVE  h.changed[e] > 0
  <2>1. o.useAlt
    BY <1>2, <1>3, <1>8, <1>11 DEF SiteOK, IsFounded, UnderWork, Founded, Completed
  <2>2. EffectiveCapacity(t) = EffectiveCapacity(o)
    BY <1>6, <2>1 DEF EffectiveCapacity
  <2>3. IsSaturated(g, e)
    BY <1>3, <1>4, <1>6, <1>11, <2>2 DEF IsSaturated
  <2>. QED BY <1>2, <1>5, <1>8, <1>11, <2>3 DEF EntityOK
<1>12. Sound(h, s)
  BY <1>5, <1>7, <1>10, <1>11, SiteStep
<1>. QED BY <1>1, <1>12

\* An amount that fits is stored.
LEMMA StoreSound ==
  ASSUME NEW g, NEW s \in Spents, Sound(g, s), NEW e \in Entity, e \in DOMAIN g.site,
         NEW r \in Resource, NEW n \in Nat, CurrAllowed(g, e, r, n), n # g.site[e].curr[r]
  PROVE  Sound(SetCurr(g, e, r, n), s)
<1>1. PICK h : h = SetCurr(g, e, r, n)
  OBVIOUS
<1>2. Owned(g, e) /\ SiteOK(g, e) /\ Shape(g)
  BY EntityFacts
<1>3. PICK o : o = g.site[e]
  OBVIOUS
<1>4. PICK t : t = h.site[e]
  OBVIOUS
<1>5. /\ Beside(g, h, e) /\ ResKept(g, h, e) /\ CapKept(g, h, e)
      /\ SameSite(o, t, {"curr"})
      /\ \A q \in Resource : t.curr[q] = IF q = r THEN n ELSE o.curr[q]
      /\ h.changed[e] = IF n = o.curr[r] THEN g.changed[e] ELSE g.changed[e] + 1
  BY <1>1, <1>2, <1>3, <1>4, SetCurrDoes
<1>6. /\ t.capacity = o.capacity /\ t.useAlt = o.useAlt /\ t.desired = o.desired
      /\ t.altCapacity = o.altCapacity /\ t.altDesired = o.altDesired
      /\ EffectiveCapacity(t) = EffectiveCapacity(o)
  BY <1>5 DEF SameSite, EffectiveCapacity
<1>7. h.changed[e] > 0
  BY <1>2, <1>3, <1>5 DEF Shape
<1>8. /\ UnderWork(h, e) <=> UnderWork(g, e)
      /\ Asked(h, e) = Asked(g, e)
  BY <1>5 DEF Beside, UnderWork, IsFounded, Asked
<1>9. SiteOK(h, e)
  <2>1. \A q \in Resource : /\ o.desired[q] <= o.capacity[q]
                            /\ o.curr[q] <= EffectiveCapacity(o)[q]
    BY <1>2, <1>3 DEF SiteOK
  <2>2. n <= EffectiveCapacity(o)[r]
    BY <1>3 DEF CurrAllowed
  <2>3. \A q \in Resource : /\ t.desired[q] <= t.capacity[q]
                            /\ t.curr[q] <= EffectiveCapacity(t)[q]
    BY <1>5, <1>6, <2>1, <2>2
  <2>4. t.useAlt <=> UnderWork(h, e)
    BY <1>2, <1>3, <1>6, <1>8 DEF SiteOK
  <2>. QED BY <1>2, <1>3, <1>4, <1>6, <1>8, <2>3, <2>4 DEF SiteOK
<1>10. Sound(h, s)
  BY <1>5, <1>7, <1>9, SiteStep
<1>. QED BY <1>1, <1>10

LEMMA DesiredSound ==
  ASSUME NEW g, NEW s \in Spents, Sound(g, s), NEW e \in Entity, e \in DOMAIN g.site,
         NEW r \in Resource, NEW n \in Nat
  PROVE  Sound(SetDesired(g, e, r, n), s)
<1>1. PICK h : h = SetDesired(g, e, r, n)
  OBVIOUS
<1>2. Owned(g, e) /\ SiteOK(g, e) /\ g.site[e] \in SiteRecord /\ EntityOK(g, e)
  BY EntityFacts
<1>3. PICK o : o = g.site[e]
  OBVIOUS
<1>4. PICK t : t = h.site[e]
  OBVIOUS
<1>5. /\ Beside(g, h, e) /\ h.res = g.res /\ h.cap = g.cap /\ h.changed = g.changed
      /\ SameSite(o, t, {"desired"})
      /\ \A q \in Resource : t.desired[q] = IF q = r THEN Lesser(n, o.capacity[q]) ELSE o.desired[q]
  BY <1>1, <1>2, <1>3, <1>4, SetDesiredDoes
<1>6. /\ t.capacity = o.capacity /\ t.useAlt = o.useAlt /\ t.curr = o.curr
      /\ t.altCapacity = o.altCapacity /\ t.altDesired = o.altDesired
      /\ EffectiveCapacity(t) = EffectiveCapacity(o)
  BY <1>5 DEF SameSite, EffectiveCapacity
<1>7. ResKept(g, h, e) /\ CapKept(g, h, e)
  BY <1>2, <1>3, <1>4, <1>5, <1>6, KeptIfSame
<1>8. /\ UnderWork(h, e) <=> UnderWork(g, e)
      /\ IsFounded(h, e) <=> IsFounded(g, e)
      /\ IsSaturated(h, e) <=> IsSaturated(g, e)
      /\ Asked(h, e) = Asked(g, e) /\ h.build = g.build
  BY <1>3, <1>4, <1>5, <1>6 DEF Beside, UnderWork, IsFounded, Asked, IsSaturated
<1>9. SiteOK(h, e)
  <2>1. \A q \in Resource : /\ o.desired[q] <= o.capacity[q]
                            /\ o.curr[q] <= EffectiveCapacity(o)[q]
    BY <1>2, <1>3 DEF SiteOK
  <2>2. \A q \in Resource : o.capacity[q] \in Nat /\ o.desired[q] \in Nat
    BY <1>2, <1>3, SiteTables
  <2>3. \A q \in Resource : /\ t.desired[q] <= t.capacity[q]
                            /\ t.curr[q] <= EffectiveCapacity(t)[q]
    BY <1>5, <1>6, <2>1, <2>2 DEF Lesser
  <2>4. t.useAlt <=> UnderWork(h, e)
    BY <1>2, <1>3, <1>6, <1>8 DEF SiteOK
  <2>. QED BY <1>2, <1>3, <1>4, <1>6, <1>8, <2>3, <2>4 DEF SiteOK
<1>10. IsFounded(h, e) /\ IsSaturated(h, e) /\ h.build[e].required # Zero => h.changed[e] > 0
  BY <1>2, <1>5, <1>8 DEF EntityOK
<1>11. Sound(h, s)
  BY <1>5, <1>7, <1>9, <1>10, SiteStep
<1>. QED BY <1>1, <1>11

\* A building goes from placed to marked.
LEMMA MarkSound ==
  ASSUME NEW g, NEW s \in Spents, Sound(g, s), NEW e \in Entity, e \in DOMAIN g.build,
         g.build[e].state = Placement
  PROVE  Sound(Mark(g, e), s)
<1>1. PICK h : h = Mark(g, e)
  OBVIOUS
<1>2. /\ Shape(g) /\ Placed(g, e) /\ EntityOK(g, e) /\ BuildOK(g, e)
      /\ g.build[e] \in BuildRecord
  BY EntityFacts
<1>3. PICK b : b = g.build[e]
  OBVIOUS
<1>4. /\ Works(g, h, e) /\ ResKept(g, h, e) /\ CapKept(g, h, e)
      /\ h.site = g.site /\ h.faction = g.faction /\ h.pos = g.pos
      /\ h.listening = g.listening /\ h.changed = g.changed
      /\ DOMAIN h.build = DOMAIN g.build
      /\ h.build[e] = [b EXCEPT !.state = Marked]
  BY <1>1, <1>2, <1>3, MarkDoes
<1>5. /\ h.build[e].state = Marked /\ h.build[e].isSite = b.isSite
      /\ h.build[e].blocking = b.blocking
  BY <1>2, <1>3, <1>4 DEF BuildRecord
<1>6. Placed(h, e)
  BY <1>2, <1>4 DEF Placed
<1>7. /\ UnderWork(h, e) /\ UnderWork(g, e) /\ ~IsFounded(h, e) /\ ~IsFounded(g, e)
      /\ Active(h) = Active(g)
  BY <1>4, <1>5 DEF UnderWork, IsFounded, Active, Placement, Marked, Founded, Completed
<1>8. BuildOK(h, e)
  <2>1. ~b.blocking /\ e \notin g.listening
    BY <1>2, <1>3 DEF BuildOK, Placement, Founded
  <2>. QED BY <1>2, <1>3, <1>4, <1>5, <2>1 DEF BuildOK, Marked, Founded
<1>9. SiteOK(h, e) <=> SiteOK(g, e)
  BY <1>4, <1>7 DEF SiteOK, Asked
<1>10. EntityOK(h, e)
  BY <1>2, <1>4, <1>7, <1>8, <1>9 DEF EntityOK
<1>11. Sound(h, s)
  BY <1>4, <1>6, <1>10, WorkStep
<1>. QED BY <1>1, <1>11

\* A building is founded: it asks for what it needs, of which it has nothing.
LEMMA FoundSound ==
  ASSUME NEW g, NEW s \in Spents, Sound(g, s), NEW e \in Entity, e \in DOMAIN g.build,
         g.build[e].state = Marked, NEW blocking \in BOOLEAN
  PROVE  Sound(Found(g, e, blocking), s)
<1>1. PICK h : h = Found(g, e, blocking)
  OBVIOUS
<1>2. /\ Shape(g) /\ Placed(g, e) /\ EntityOK(g, e) /\ BuildOK(g, e)
      /\ g.build[e] \in BuildRecord /\ e \in DOMAIN g.pos /\ e \in DOMAIN g.faction
  BY EntityFacts
<1>3. PICK b : b = g.build[e]
  OBVIOUS
<1>4. PICK req : req = b.required
  OBVIOUS
<1>5. UnderWork(g, e) /\ ~IsFounded(g, e)
  BY DEF UnderWork, IsFounded, Marked, Founded, Completed
<1>6. Owned(g, e) /\ SiteOK(g, e) /\ g.site[e] \in SiteRecord /\ e \in DOMAIN g.site
  BY <1>5, EntityFacts
<1>7. g.site[e].curr = Zero /\ g.site[e].altCapacity = Zero
  BY <1>5, <1>6, HoldsNothing
<1>8. /\ Works(g, h, e) /\ ResKept(g, h, e) /\ CapKept(g, h, e)
      /\ h.faction = g.faction /\ h.pos = g.pos /\ h.changed = g.changed
      /\ DOMAIN h.build = DOMAIN g.build
      /\ h.build[e] = FoundedAs(b, blocking, g.pos[e])
      /\ h.listening = g.listening \union {e}
      /\ DOMAIN h.site = DOMAIN g.site
      /\ SameSite(g.site[e], h.site[e], {"altCapacity", "altDesired"})
      /\ h.site[e].altCapacity = req /\ h.site[e].altDesired = req
  BY <1>1, <1>2, <1>3, <1>4, <1>6, <1>7, FoundDoes
<1>9. /\ h.build[e].state = Founded /\ h.build[e].isSite = b.isSite
      /\ h.build[e].blocking = blocking /\ h.build[e].required = req
      /\ blocking => h.build[e].place = g.pos[e]
  BY <1>2, <1>3, <1>4, <1>8 DEF BuildRecord, FoundedAs
<1>10. Placed(h, e)
  BY <1>2, <1>8 DEF Placed
<1>11. /\ UnderWork(h, e) /\ IsFounded(h, e) /\ Asked(h, e) = req /\ Active(h) = Active(g)
  BY <1>8, <1>9 DEF UnderWork, IsFounded, Asked, Active, Founded, Completed
<1>12. BuildOK(h, e)
  <2>1. h.build[e].isSite <=> e \in Sites
    BY <1>2, <1>3, <1>9 DEF BuildOK
  <2>. QED BY <1>8, <1>9, <2>1 DEF BuildOK, Founded
<1>13. PICK t : t = h.site[e]
  OBVIOUS
<1>14. /\ t.useAlt /\ t.curr = Zero /\ EffectiveCapacity(t) = req
       /\ t.desired = g.site[e].desired /\ t.capacity = g.site[e].capacity
  <2>1. g.site[e].useAlt
    BY <1>5, <1>6 DEF SiteOK
  <2>2. /\ t.useAlt = g.site[e].useAlt /\ t.curr = g.site[e].curr
        /\ t.desired = g.site[e].desired /\ t.capacity = g.site[e].capacity
    BY <1>8, <1>13 DEF SameSite
  <2>. QED BY <1>7, <1>8, <1>13, <2>1, <2>2 DEF EffectiveCapacity
<1>15. \A r \in Resource : req[r] \in Nat /\ Zero[r] = 0
  BY <1>2, <1>3, <1>4, Tables, BuildFields
<1>16. SiteOK(h, e)
  <2>1. \A r \in Resource : t.desired[r] <= t.capacity[r] /\ t.curr[r] <= EffectiveCapacity(t)[r]
    <3>1. \A r \in Resource : g.site[e].desired[r] <= g.site[e].capacity[r]
      BY <1>6 DEF SiteOK
    <3>. QED BY <1>14, <1>15, <3>1
  <2>. QED BY <1>8, <1>11, <1>13, <1>14, <2>1 DEF SiteOK
<1>17. IsSaturated(h, e) => req = Zero
  <2> SUFFICES ASSUME IsSaturated(h, e) PROVE req = Zero
    OBVIOUS
  <2>1. \A r \in Resource : Zero[r] >= req[r]
    BY <1>13, <1>14 DEF IsSaturated
  <2>2. \A r \in Resource : req[r] = Zero[r]
    BY <1>15, <2>1
  <2>3. req \in [Resource -> Nat]
    BY <1>2, <1>3, <1>4, BuildFields
  <2>. QED BY <2>2, <2>3, Tables
<1>18. EntityOK(h, e)
  BY <1>2, <1>6, <1>8, <1>9, <1>11, <1>12, <1>16, <1>17 DEF EntityOK
<1>19. Sound(h, s)
  BY <1>8, <1>10, <1>18, WorkStep
<1>. QED BY <1>1, <1>19

\* A building is completed: the site that is left is empty.
LEMMA CompleteSound ==
  ASSUME NEW g, NEW s \in Spents, Sound(g, s), NEW e \in Entity, e \in DOMAIN g.build,
         g.build[e].state = Supplied
  PROVE  Sound(Complete(g, e), s)
<1>1. PICK h : h = Complete(g, e)
  OBVIOUS
<1>2. /\ Shape(g) /\ Placed(g, e) /\ EntityOK(g, e) /\ BuildOK(g, e)
      /\ g.build[e] \in BuildRecord /\ e \in DOMAIN g.pos /\ e \in DOMAIN g.faction
  BY EntityFacts
<1>3. PICK b : b = g.build[e]
  OBVIOUS
<1>4. UnderWork(g, e) /\ ~IsFounded(g, e)
  BY DEF UnderWork, IsFounded, Supplied, Founded, Completed
<1>5. Owned(g, e) /\ SiteOK(g, e) /\ g.site[e] \in SiteRecord /\ e \in DOMAIN g.site
  BY <1>4, EntityFacts
<1>6. g.site[e].curr = Zero /\ g.site[e].altCapacity = Zero /\ g.site[e].altDesired = Zero
  BY <1>4, <1>5, HoldsNothing
<1>7. /\ Works(g, h, e) /\ ResKept(g, h, e) /\ CapKept(g, h, e)
      /\ h.faction = g.faction /\ h.pos = g.pos /\ h.changed = g.changed
      /\ h.listening = g.listening
      /\ DOMAIN h.build = DOMAIN g.build
      /\ h.build[e] = [b EXCEPT !.state = Completed]
      /\ e \in DOMAIN h.site <=> b.isSite
      /\ b.isSite => SameSite(g.site[e], h.site[e], {"useAlt"}) /\ h.site[e].useAlt = FALSE
  <2>2. Owned(g, e) /\ e \in DOMAIN g.build /\ g.build[e].state = Supplied
    BY <1>5
  <2>3. CompletedFrom(g, Complete(g, e), e)
    BY <2>2, CompleteDoes
  <2>. QED BY <1>1, <1>3, <2>3 DEF CompletedFrom
<1>8. /\ h.build[e].state = Completed /\ h.build[e].isSite = b.isSite
      /\ h.build[e].blocking = b.blocking /\ h.build[e].place = b.place
  BY <1>2, <1>3, <1>7 DEF BuildRecord
<1>9. b.isSite <=> e \in Sites
  BY <1>2, <1>3 DEF BuildOK
<1>10. Placed(h, e)
  BY <1>2, <1>7 DEF Placed
<1>11. ~UnderWork(h, e) /\ ~IsFounded(h, e) /\ Asked(h, e) = Zero /\ Active(h) = Active(g)
  BY <1>7, <1>8 DEF UnderWork, IsFounded, Asked, Active, Founded, Completed
<1>12. BuildOK(h, e)
  <2>1. e \notin g.listening /\ (b.blocking => b.place = g.pos[e])
    BY <1>2, <1>3 DEF BuildOK, Supplied, Founded
  <2>. QED BY <1>7, <1>8, <1>9, <2>1 DEF BuildOK, Completed, Founded
<1>13. e \in DOMAIN h.site => SiteOK(h, e)
  <2> SUFFICES ASSUME e \in DOMAIN h.site PROVE SiteOK(h, e)
    OBVIOUS
  <2>1. PICK t : t = h.site[e]
    OBVIOUS
  <2>2. /\ t.curr = Zero /\ t.altCapacity = Zero /\ t.altDesired = Zero /\ ~t.useAlt
        /\ t.desired = g.site[e].desired /\ t.capacity = g.site[e].capacity
    BY <1>6, <1>7, <2>1 DEF SameSite
  <2>3. EffectiveCapacity(t) = g.site[e].capacity
    BY <2>2 DEF EffectiveCapacity
  <2>4. \A r \in Resource : t.desired[r] <= t.capacity[r] /\ t.curr[r] <= EffectiveCapacity(t)[r]
    <3>1. \A r \in Resource : /\ g.site[e].desired[r] <= g.site[e].capacity[r]
                              /\ g.site[e].capacity[r] \in Nat /\ Zero[r] = 0
      BY <1>5, SiteTables, Tables DEF SiteOK
    <3>. QED BY <2>2, <2>3, <3>1
  <2>. QED BY <1>11, <2>1, <2>2, <2>4 DEF SiteOK
<1>14. e \in Active(h)
  BY <1>2, <1>7 DEF Active
<1>15. EntityOK(h, e)
  BY <1>7, <1>9, <1>11, <1>12, <1>13, <1>14 DEF EntityOK
<1>16. Sound(h, s)
  BY <1>7, <1>10, <1>15, WorkStep
<1>. QED BY <1>1, <1>16
-----------------------------------------------------------------------------
(* Materials that are used up *)

Used(g, h) == {e \in Active(g) \intersect DOMAIN g.build :
                 g.build[e].state = Founded /\ h.build[e].state = Supplied}

\* Nothing is spent if nobody is supplied.
LEMMA NothingSpent ==
  ASSUME NEW g, NEW h, spent \in Spents, Used(g, h) = {}
  PROVE  SpentBy(g, h) = spent
<1>1. ASSUME NEW f \in Faction, NEW r \in Resource PROVE SpentBy(g, h)[f][r] = spent[f][r]
  <2>1. PICK F : F = [e \in {x \in Used(g, h) : Owner(g, x) = f} |-> g.site[e].curr[r]]
    OBVIOUS
  <2>2. SpentBy(g, h)[f][r] = spent[f][r] + SumFunction(F)
    BY <2>1 DEF SpentBy, Used
  <2>3. F \in [{} -> Int]
    BY <2>1
  <2>4. SumFunction(F) = 0
    BY <2>3, SumTakeOut, FS_EmptySet
  <2>5. spent[f][r] \in Int
    BY DEF Spents
  <2>. QED BY <2>2, <2>4, <2>5
<1>2. SpentBy(g, h) = [f \in Faction |-> [r \in Resource |-> SpentBy(g, h)[f][r]]]
  BY DEF SpentBy
<1>. QED BY <1>1, <1>2 DEF Spents

\* What the one that is supplied holds is spent, by its faction.
LEMMA OneSpent ==
  ASSUME NEW g, NEW h, spent \in Spents, NEW e, Owned(g, e), Used(g, h) = {e}
  PROVE  /\ SpentBy(g, h) \in Spents
         /\ \A f \in Faction, r \in Resource :
              SpentBy(g, h)[f][r] = spent[f][r] + (IF f = Owner(g, e) THEN g.site[e].curr[r] ELSE 0)
<1>1. ASSUME NEW f \in Faction, NEW r \in Resource
      PROVE  /\ SpentBy(g, h)[f][r] \in Nat
             /\ SpentBy(g, h)[f][r] = spent[f][r] + (IF f = Owner(g, e) THEN g.site[e].curr[r] ELSE 0)
  <2>1. PICK n \in Nat : n = g.site[e].curr[r]
    BY OwnedSite, SiteTables
  <2>2. PICK F : F = [x \in {y \in Used(g, h) : Owner(g, y) = f} |-> g.site[x].curr[r]]
    OBVIOUS
  <2>3. SpentBy(g, h)[f][r] = spent[f][r] + SumFunction(F)
    BY <2>2 DEF SpentBy, Used
  <2>4. spent[f][r] \in Nat
    BY DEF Spents
  <2>5. CASE f = Owner(g, e)
    <3>1. F = [x \in {e} |-> n]
      BY <2>1, <2>2, <2>5
    <3>2. F \in [{e} -> Int] /\ F[e] = n /\ IsFiniteSet({e})
      <4>1. IsFiniteSet({e})
        BY FS_Singleton
      <4>. QED BY <3>1, <4>1
    <3>3. SumFunction(F) = F[e] + SumFunction([y \in {e} \ {e} |-> F[y]])
      BY <3>2, SumTakeOut
    <3>4. [y \in {e} \ {e} |-> F[y]] \in [{} -> Int]
      OBVIOUS
    <3>5. SumFunction([y \in {e} \ {e} |-> F[y]]) = 0
      BY <3>4, SumTakeOut, FS_EmptySet
    <3>. QED BY <2>1, <2>3, <2>4, <2>5, <3>2, <3>3, <3>5
  <2>6. CASE f # Owner(g, e)
    <3>1. F \in [{} -> Int]
      BY <2>2, <2>6
    <3>2. SumFunction(F) = 0
      BY <3>1, SumTakeOut, FS_EmptySet
    <3>. QED BY <2>3, <2>4, <2>6, <3>2
  <2>. QED BY <2>5, <2>6
<1>2. SpentBy(g, h) = [f \in Faction |-> [r \in Resource |-> SpentBy(g, h)[f][r]]]
  BY DEF SpentBy
<1>. QED BY <1>1, <1>2 DEF Spents

\* The set of those who are supplied between two games that differ in one entity.
LEMMA UsedApart ==
  ASSUME NEW g, NEW h, Shape(g), NEW e \in Entity, Apart(g, h, e)
  PROVE  /\ Used(g, h) \subseteq {e}
         /\ e \in Used(g, h) <=> /\ e \in Active(g) /\ e \in DOMAIN g.build
                                 /\ g.build[e].state = Founded /\ h.build[e].state = Supplied
<1>1. ASSUME NEW x \in Used(g, h), x # e PROVE FALSE
  <2>1. x \in DOMAIN g.build /\ x \in Entity
    BY <1>1 DEF Used, Shape
  <2>2. h.build[x] = g.build[x]
    BY <1>1, <2>1 DEF Apart
  <2>. QED BY <1>1, <2>2 DEF Used, Founded, Supplied
<1>. QED BY <1>1 DEF Used

\* A founded building becomes supplied: what its site held is spent.  Before it,
\* at most its count of changes has been lowered, by the one that is delivered.
LEMMA SupplySound ==
  ASSUME NEW g, spent \in Spents, Sound(g, spent), NEW e \in Entity, e \in DOMAIN g.build,
         g.build[e].state = Founded, NEW n \in Nat,
         NEW m, m = [g EXCEPT !.changed = [g.changed EXCEPT ![e] = n]]
  PROVE  LET h == Supply(m, e)
             t == SpentBy(g, h)
         IN  /\ Sound(h, t) /\ t \in Spents
             /\ Works(g, h, e) /\ h.faction = g.faction /\ DOMAIN h.build = DOMAIN g.build
             /\ DOMAIN h.site = DOMAIN g.site /\ h.site[e].curr = Zero /\ Owned(g, e)
             /\ h.build[e].state = Supplied
             /\ \A f \in Faction, r \in Resource :
                  t[f][r] = spent[f][r] + (IF f = Owner(g, e) THEN g.site[e].curr[r] ELSE 0)
<1>1. PICK h : h = Supply(m, e)
  OBVIOUS
<1>2. PICK t : t = SpentBy(g, h)
  OBVIOUS
<1>3. /\ Shape(g) /\ Placed(g, e) /\ EntityOK(g, e) /\ BuildOK(g, e)
      /\ g.build[e] \in BuildRecord /\ e \in DOMAIN g.pos /\ e \in DOMAIN g.faction
  BY EntityFacts
<1>4. PICK b : b = g.build[e]
  OBVIOUS
<1>5. UnderWork(g, e) /\ IsFounded(g, e)
  BY DEF UnderWork, IsFounded, Founded, Completed
<1>6. Owned(g, e) /\ SiteOK(g, e) /\ g.site[e] \in SiteRecord /\ e \in DOMAIN g.site
  BY <1>5, EntityFacts
<1>7. /\ IsGame(m) /\ m.changed = [g.changed EXCEPT ![e] = n]
      /\ m.site = g.site /\ m.build = g.build /\ m.faction = g.faction /\ m.pos = g.pos
      /\ m.listening = g.listening /\ m.blockers = g.blockers
      /\ m.res = g.res /\ m.cap = g.cap
  BY <1>3 DEF Shape, IsGame, Fields
<1>8. Beside(g, m, e) /\ Owned(m, e)
  <2>1. Shape(m)
    BY <1>3, <1>7 DEF Shape
  <2>2. \A x \in Entity \ {e} : m.changed[x] = g.changed[x]
    BY <1>3, <1>7 DEF Shape
  <2>. QED BY <1>6, <1>7, <2>1, <2>2 DEF Beside, Owned
<1>9. Works(g, m, e) /\ CapKept(g, m, e) /\ ResKept(g, m, e)
  BY <1>6, <1>7, <1>8, BesideWorks, KeptIfAlike
<1>10. /\ Works(m, h, e) /\ h.res = m.res /\ CapKept(m, h, e)
       /\ h.faction = m.faction /\ h.pos = m.pos /\ h.changed = m.changed
       /\ DOMAIN h.build = DOMAIN m.build
       /\ h.build[e] = [m.build[e] EXCEPT !.state = Supplied]
       /\ h.listening = m.listening \ {e}
       /\ DOMAIN h.site = DOMAIN m.site
       /\ SameSite(m.site[e], h.site[e], {"altCapacity", "altDesired", "curr"})
       /\ h.site[e].altCapacity = Zero /\ h.site[e].altDesired = Zero
       /\ h.site[e].curr = Zero
  <2>1. Owned(m, e) /\ e \in DOMAIN m.build /\ m.build[e].state = Founded
    BY <1>7, <1>8
  <2>2. SuppliedFrom(m, Supply(m, e), e)
    BY <2>1, SupplyDoes
  <2>. QED BY <1>1, <2>2 DEF SuppliedFrom
<1>11. Works(g, h, e) /\ CapKept(g, h, e)
  BY <1>9, <1>10, WorksAfter, KeptAfter
<1>12. /\ h.build[e].state = Supplied /\ h.build[e].isSite = b.isSite
       /\ h.build[e].blocking = b.blocking /\ h.build[e].place = b.place
  BY <1>3, <1>4, <1>7, <1>10 DEF BuildRecord
<1>13. Placed(h, e)
  BY <1>3, <1>7, <1>10 DEF Placed
<1>14. /\ UnderWork(h, e) /\ ~IsFounded(h, e) /\ Asked(h, e) = Zero /\ Active(h) = Active(g)
  BY <1>7, <1>10, <1>12 DEF UnderWork, IsFounded, Asked, Active, Founded, Supplied, Completed
<1>15. BuildOK(h, e)
  <2>1. (b.isSite <=> e \in Sites) /\ (b.blocking => b.place = g.pos[e])
    BY <1>3, <1>4 DEF BuildOK
  <2>2. e \notin h.listening
    BY <1>10
  <2>. QED BY <1>7, <1>10, <1>12, <2>1, <2>2 DEF BuildOK, Founded, Supplied
<1>16. SiteOK(h, e)
  <2>1. PICK x : x = h.site[e]
    OBVIOUS
  <2>2. /\ x.curr = Zero /\ x.altCapacity = Zero /\ x.altDesired = Zero
        /\ x.useAlt = g.site[e].useAlt
        /\ x.desired = g.site[e].desired /\ x.capacity = g.site[e].capacity
    BY <1>7, <1>10, <2>1 DEF SameSite
  <2>3. x.useAlt
    BY <1>5, <1>6, <2>2 DEF SiteOK
  <2>4. EffectiveCapacity(x) = Zero
    BY <2>2, <2>3 DEF EffectiveCapacity
  <2>5. \A r \in Resource : x.desired[r] <= x.capacity[r] /\ x.curr[r] <= EffectiveCapacity(x)[r]
    <3>1. \A r \in Resource : g.site[e].desired[r] <= g.site[e].capacity[r] /\ Zero[r] = 0
      BY <1>6, Tables DEF SiteOK
    <3>. QED BY <2>2, <2>4, <3>1
  <2>. QED BY <1>14, <2>1, <2>2, <2>3, <2>5 DEF SiteOK
<1>17. EntityOK(h, e)
  <2>1. e \in DOMAIN h.site /\ e \in Active(h)
    BY <1>3, <1>6, <1>7, <1>10 DEF Active
  <2>. QED BY <1>14, <1>15, <1>16, <2>1 DEF EntityOK
<1>18. Used(g, h) = {e}
  <2>1. e \in Used(g, h)
    BY <1>3, <1>7, <1>10, <1>12 DEF Used, Active
  <2>. QED BY <1>3, <1>11, <2>1, UsedApart DEF Works
<1>19. /\ t \in Spents
       /\ \A f \in Faction, r \in Resource :
            t[f][r] = spent[f][r] + (IF f = Owner(g, e) THEN g.site[e].curr[r] ELSE 0)
  BY <1>2, <1>6, <1>18, OneSpent
<1>20. SpentKept(g, spent, h, t, e)
  <2>1. ASSUME NEW f \in Faction, NEW r \in Resource
        PROVE  h.res[f][r] - CurrOf(h, e, f, r) - t[f][r] = g.res[f][r] - CurrOf(g, e, f, r) - spent[f][r]
    <3>1. PICK c \in Int : c = g.site[e].curr[r]
      BY <1>6, SiteTables
    <3>2. CurrOf(h, e, f, r) = 0
      BY <1>10, Tables DEF CurrOf
    <3>3. CurrOf(g, e, f, r) = IF f = Owner(g, e) THEN c ELSE 0
      BY <1>6, <3>1 DEF CurrOf, SitesOf
    <3>4. g.res[f][r] \in Int /\ spent[f][r] \in Int /\ h.res = g.res
      BY <1>3, <1>7, <1>10 DEF Shape, Table, Spents
    <3>. QED BY <1>19, <3>1, <3>2, <3>3, <3>4
  <2>. QED BY <2>1 DEF SpentKept
<1>21. Sound(h, t)
  BY <1>11, <1>13, <1>17, <1>19, <1>20, EntityStep DEF Works
<1>22. /\ h.faction = g.faction /\ DOMAIN h.build = DOMAIN g.build /\ DOMAIN h.site = DOMAIN g.site
       /\ h.site[e].curr = Zero
  BY <1>7, <1>10
<1>. QED BY <1>1, <1>2, <1>6, <1>11, <1>12, <1>19, <1>21, <1>22

\* An amount that changed is delivered: the building is supplied, or nothing happens.
LEMMA DeliveredSound ==
  ASSUME NEW g, spent \in Spents, Sound(g, spent), NEW e \in Entity, g.changed[e] > 0
  PROVE  LET m == [g EXCEPT !.changed[e] = @ - 1]
             h == IF e \in m.listening /\ IsSaturated(m, e) THEN Supply(m, e) ELSE m
         IN  Sound(h, SpentBy(g, h)) /\ SpentBy(g, h) \in Spents
<1>1. PICK n \in Nat : n = g.changed[e] - 1
  <2>1. g.changed[e] \in Nat
    BY EntityFacts DEF Shape
  <2>. QED BY <2>1
<1>2. PICK m : m = [g EXCEPT !.changed = [g.changed EXCEPT ![e] = n]]
  OBVIOUS
<1>3. m = [g EXCEPT !.changed[e] = @ - 1]
  BY <1>1, <1>2
<1>4. PICK h : h = IF e \in m.listening /\ IsSaturated(m, e) THEN Supply(m, e) ELSE m
  OBVIOUS
<1>5. Shape(g) /\ Placed(g, e) /\ EntityOK(g, e) /\ (e \in DOMAIN g.build => BuildOK(g, e))
  BY EntityFacts
<1>6. /\ IsGame(m) /\ m.changed = [g.changed EXCEPT ![e] = n]
      /\ m.site = g.site /\ m.build = g.build /\ m.faction = g.faction /\ m.pos = g.pos
      /\ m.listening = g.listening /\ m.blockers = g.blockers
      /\ m.res = g.res /\ m.cap = g.cap
  BY <1>2, <1>5 DEF Shape, IsGame, Fields
<1>7. CASE e \in m.listening /\ IsSaturated(m, e)
  <2>1. e \in DOMAIN g.build /\ g.build[e].state = Founded
    BY <1>5, <1>6, <1>7 DEF Placed, BuildOK
  <2>2. Sound(Supply(m, e), SpentBy(g, Supply(m, e))) /\ SpentBy(g, Supply(m, e)) \in Spents
    BY <1>2, <2>1, SupplySound
  <2>. QED BY <1>3, <1>7, <2>2
<1>8. CASE ~(e \in m.listening /\ IsSaturated(m, e))
  <2>1. Used(g, m) = {}
    BY <1>6 DEF Used, Founded, Supplied
  <2>2. SpentBy(g, m) = spent
    BY <2>1, NothingSpent
  <2>3. Works(g, m, e) /\ ResKept(g, m, e) /\ CapKept(g, m, e)
    <3>1. Shape(m)
      BY <1>5, <1>6 DEF Shape
    <3>2. \A x \in Entity \ {e} : m.changed[x] = g.changed[x]
      BY <1>5, <1>6 DEF Shape
    <3>3. Apart(g, m, e)
      BY <1>6, <3>2 DEF Apart
    <3>. QED BY <1>6, <3>1, <3>3, KeptIfAlike DEF Works
  <2>4. Placed(m, e)
    BY <1>5, <1>6 DEF Placed
  <2>5. /\ UnderWork(m, e) <=> UnderWork(g, e)
        /\ IsFounded(m, e) <=> IsFounded(g, e)
        /\ Asked(m, e) = Asked(g, e) /\ Active(m) = Active(g)
        /\ BuildOK(m, e) <=> BuildOK(g, e)
    BY <1>6 DEF UnderWork, IsFounded, Asked, Active, BuildOK
  <2>6. SiteOK(m, e) <=> SiteOK(g, e)
    BY <1>6, <2>5 DEF SiteOK
  <2>7. ~(IsFounded(m, e) /\ IsSaturated(m, e))
    <3>1. IsFounded(m, e) => e \in m.listening
      BY <1>5, <1>6 DEF IsFounded, BuildOK
    <3>. QED BY <1>8, <3>1
  <2>8. EntityOK(m, e)
    BY <1>5, <1>6, <2>5, <2>6, <2>7 DEF EntityOK
  <2>9. Sound(m, spent)
    BY <2>3, <2>4, <2>8, WorkStep
  <2>. QED BY <1>3, <1>8, <2>2, <2>9
<1>. QED BY <1>7, <1>8
-----------------------------------------------------------------------------
(* A site is put back *)

\* Of the site of e, no fields but those in but are others; k is as in t for T.
FieldSet(g, h, e, k, T, t, but) ==
  /\ Beside(g, h, e)
  /\ SameSite(g.site[e], h.site[e], but)
  /\ \A q \in T : h.site[e][k][q] = t[q]

\* One resource after the other is set.
LEMMA TableFold ==
  ASSUME NEW g, NEW e, Owned(g, e), NEW k, NEW t, NEW but,
         NEW st, DOMAIN st = Resource \X Games,
         \A T \in SUBSET Resource : \A r \in T : \A h \in Games :
           FieldSet(g, h, e, k, T \ {r}, t, but) => FieldSet(g, st[<<r, h>>], e, k, T, t, but),
         NEW it,
         \A f : Follows(f, Resource, Games, Firsts(Resource), g, st)
                  => Runs(it, Resource, Games, g, st)
  PROVE  FieldSet(g, it[Resource], e, k, Resource, t, but)
<1> DEFINE good == [T \in SUBSET Resource |-> {h \in Games : FieldSet(g, h, e, k, T, t, but)}]
<1>1. \A T \in SUBSET Resource : \A h :
        h \in good[T] <=> h \in Games /\ FieldSet(g, h, e, k, T, t, but)
  OBVIOUS
<1> HIDE DEF good
<1>2. g \in good[{}]
  <2>1. g \in Games
    BY GamesHaveShape DEF Owned
  <2>2. FieldSet(g, g, e, k, {}, t, but)
    BY DEF FieldSet, Beside, Owned, SameSite
  <2>. QED BY <1>1, <2>1, <2>2
<1>3. ASSUME NEW T \in SUBSET Resource, NEW r \in T, NEW h \in good[T \ {r}]
      PROVE  st[<<r, h>>] \in good[T]
  <2>1. h \in Games /\ FieldSet(g, h, e, k, T \ {r}, t, but)
    BY <1>1
  <2>2. FieldSet(g, st[<<r, h>>], e, k, T, t, but)
    BY <2>1
  <2>3. st[<<r, h>>] \in Games
    BY <2>2, GamesHaveShape DEF FieldSet, Beside
  <2>. QED BY <1>1, <2>2, <2>3
<1>4. Leads(Resource, Games, good, g, st)
  <2>1. \A T \in SUBSET Resource : good[T] \subseteq Games
    BY <1>1
  <2>. QED BY <1>2, <1>3, <2>1 DEF Leads
<1>5. it[Resource] \in good[Resource]
  BY <1>4, FoldReaches
<1>. QED BY <1>1, <1>5

LEMMA FieldSetAfter ==
  ASSUME NEW g, NEW h, NEW a, NEW e, NEW k, NEW T, NEW r, NEW t, NEW but,
         FieldSet(g, h, e, k, T \ {r}, t, but), Beside(h, a, e),
         SameSite(h.site[e], a.site[e], but),
         a.site[e][k][r] = t[r],
         \A q \in T \ {r} : a.site[e][k][q] = h.site[e][k][q]
  PROVE  FieldSet(g, a, e, k, T, t, but)
<1>1. Beside(g, a, e)
  BY DEF FieldSet, Beside
<1>2. SameSite(g.site[e], a.site[e], but)
  BY DEF FieldSet, SameSite
<1>3. \A q \in T : a.site[e][k][q] = t[q]
  BY DEF FieldSet
<1>. QED BY <1>1, <1>2, <1>3 DEF FieldSet

SetCapacities(g, e, t) == EachResource(LAMBDA h, r : SetCapacity(h, e, r, t[r]), g)

LEMMA CapacitiesLoad ==
  ASSUME NEW g, NEW e, Owned(g, e), NEW t \in [Resource -> Nat]
  PROVE  FieldSet(g, SetCapacities(g, e, t), e, "capacity", Resource, t, {"capacity", "desired"})
<1> DEFINE Step(r, h) == SetCapacity(h, e, r, t[r])
           Rec(f) == f = [T \in SUBSET Resource |->
                            IF T = {} THEN g
                            ELSE LET x == CHOOSE x \in T : TRUE IN Step(x, f[T \ {x}])]
           it == CHOOSE f : Rec(f)
           V == Games
           st == [p \in Resource \X V |-> Step(p[1], p[2])]
<1>1. SetCapacities(g, e, t) = it[Resource]
  BY DEF SetCapacities, EachResource, FoldSet, MapThenFoldSet
<1>2. DOMAIN st = Resource \X V /\ \A r \in Resource, h \in V : st[<<r, h>>] = Step(r, h)
  OBVIOUS
<1> HIDE DEF st, V
<1>3. ASSUME NEW T \in SUBSET Resource, NEW r \in T, NEW h,
             FieldSet(g, h, e, "capacity", T \ {r}, t, {"capacity", "desired"})
      PROVE  FieldSet(g, Step(r, h), e, "capacity", T, t, {"capacity", "desired"})
  <2>1. PICK n \in Nat : n = t[r]
    OBVIOUS
  <2>2. PICK a : a = SetCapacity(h, e, r, n)
    OBVIOUS
  <2>3. Owned(h, e)
    BY <1>3, OwnedSite DEF FieldSet
  <2>4. /\ Beside(h, a, e) /\ SameSite(h.site[e], a.site[e], {"capacity", "desired"})
        /\ \A q \in Resource : a.site[e].capacity[q] = IF q = r THEN n ELSE h.site[e].capacity[q]
    BY <2>2, <2>3, SetCapacityDoes
  <2>5. FieldSet(g, a, e, "capacity", T, t, {"capacity", "desired"})
    BY <1>3, <2>1, <2>4, FieldSetAfter
  <2>. QED BY <2>1, <2>2, <2>5
<1> HIDE DEF Step
<1>4. ASSUME NEW f, Follows(f, Resource, V, Firsts(Resource), g, st)
      PROVE  Runs(it, Resource, V, g, st)
  <2> DEFINE ch == Firsts(Resource)
  <2>1. \A T \in SUBSET Resource :
          T # {} => ch[T] \in T /\ ch[T] = CHOOSE x \in T : TRUE
    BY FirstsAre
  <2>2. \A T \in SUBSET Resource : T # {} => f[T] = Step(ch[T], f[T \ {ch[T]}])
    BY <1>2, <1>4 DEF Follows
  <2>3. /\ f = [T \in SUBSET Resource |-> f[T]]
        /\ \A T \in SUBSET Resource :
             f[T] = IF T = {} THEN g
                    ELSE LET x == CHOOSE x \in T : TRUE IN Step(x, f[T \ {x}])
    BY <1>4, <2>1, <2>2 DEF Follows
  <2>4. Rec(f)
    BY <2>3
  <2>5. Rec(it)
    <3> HIDE DEF Rec
    <3>. QED BY <2>4
  <2> HIDE DEF it
  <2>. QED BY <1>2, <2>1, <2>5 DEF Runs
<1> HIDE DEF it
<1>5. DOMAIN st = Resource \X Games
  BY <1>2 DEF V
<1>6. \A T \in SUBSET Resource : \A r \in T : \A h \in Games :
        FieldSet(g, h, e, "capacity", T \ {r}, t, {"capacity", "desired"})
          => FieldSet(g, st[<<r, h>>], e, "capacity", T, t, {"capacity", "desired"})
  BY <1>2, <1>3 DEF V
<1>7. \A f : Follows(f, Resource, Games, Firsts(Resource), g, st)
               => Runs(it, Resource, Games, g, st)
  BY <1>4 DEF V
<1>8. FieldSet(g, it[Resource], e, "capacity", Resource, t, {"capacity", "desired"})
  BY <1>5, <1>6, <1>7, TableFold
<1>. QED BY <1>1, <1>8

SetAltCapacities(g, e, t) == EachResource(LAMBDA h, r : SetAltCapacity(h, e, r, t[r]), g)

LEMMA AltCapacitiesLoad ==
  ASSUME NEW g, NEW e, Owned(g, e), NEW t \in [Resource -> Nat]
  PROVE  FieldSet(g, SetAltCapacities(g, e, t), e, "altCapacity", Resource, t, {"altCapacity"})
<1> DEFINE Step(r, h) == SetAltCapacity(h, e, r, t[r])
           Rec(f) == f = [T \in SUBSET Resource |->
                            IF T = {} THEN g
                            ELSE LET x == CHOOSE x \in T : TRUE IN Step(x, f[T \ {x}])]
           it == CHOOSE f : Rec(f)
           V == Games
           st == [p \in Resource \X V |-> Step(p[1], p[2])]
<1>1. SetAltCapacities(g, e, t) = it[Resource]
  BY DEF SetAltCapacities, EachResource, FoldSet, MapThenFoldSet
<1>2. DOMAIN st = Resource \X V /\ \A r \in Resource, h \in V : st[<<r, h>>] = Step(r, h)
  OBVIOUS
<1> HIDE DEF st, V
<1>3. ASSUME NEW T \in SUBSET Resource, NEW r \in T, NEW h,
             FieldSet(g, h, e, "altCapacity", T \ {r}, t, {"altCapacity"})
      PROVE  FieldSet(g, Step(r, h), e, "altCapacity", T, t, {"altCapacity"})
  <2>1. PICK n \in Nat : n = t[r]
    OBVIOUS
  <2>2. PICK a : a = SetAltCapacity(h, e, r, n)
    OBVIOUS
  <2>3. Owned(h, e)
    BY <1>3, OwnedSite DEF FieldSet
  <2>4. /\ Beside(h, a, e) /\ SameSite(h.site[e], a.site[e], {"altCapacity"})
        /\ \A q \in Resource : a.site[e].altCapacity[q] = IF q = r THEN n ELSE h.site[e].altCapacity[q]
    BY <2>2, <2>3, SetAltCapacityDoes
  <2>5. FieldSet(g, a, e, "altCapacity", T, t, {"altCapacity"})
    BY <1>3, <2>1, <2>4, FieldSetAfter
  <2>. QED BY <2>1, <2>2, <2>5
<1> HIDE DEF Step
<1>4. ASSUME NEW f, Follows(f, Resource, V, Firsts(Resource), g, st)
      PROVE  Runs(it, Resource, V, g, st)
  <2> DEFINE ch == Firsts(Resource)
  <2>1. \A T \in SUBSET Resource :
          T # {} => ch[T] \in T /\ ch[T] = CHOOSE x \in T : TRUE
    BY FirstsAre
  <2>2. \A T \in SUBSET Resource : T # {} => f[T] = Step(ch[T], f[T \ {ch[T]}])
    BY <1>2, <1>4 DEF Follows
  <2>3. /\ f = [T \in SUBSET Resource |-> f[T]]
        /\ \A T \in SUBSET Resource :
             f[T] = IF T = {} THEN g
                    ELSE LET x == CHOOSE x \in T : TRUE IN Step(x, f[T \ {x}])
    BY <1>4, <2>1, <2>2 DEF Follows
  <2>4. Rec(f)
    BY <2>3
  <2>5. Rec(it)
    <3> HIDE DEF Rec
    <3>. QED BY <2>4
  <2> HIDE DEF it
  <2>. QED BY <1>2, <2>1, <2>5 DEF Runs
<1> HIDE DEF it
<1>5. DOMAIN st = Resource \X Games
  BY <1>2 DEF V
<1>6. \A T \in SUBSET Resource : \A r \in T : \A h \in Games :
        FieldSet(g, h, e, "altCapacity", T \ {r}, t, {"altCapacity"})
          => FieldSet(g, st[<<r, h>>], e, "altCapacity", T, t, {"altCapacity"})
  BY <1>2, <1>3 DEF V
<1>7. \A f : Follows(f, Resource, Games, Firsts(Resource), g, st)
               => Runs(it, Resource, Games, g, st)
  BY <1>4 DEF V
<1>8. FieldSet(g, it[Resource], e, "altCapacity", Resource, t, {"altCapacity"})
  BY <1>5, <1>6, <1>7, TableFold
<1>. QED BY <1>1, <1>8

SetAltDesireds(g, e, t) == EachResource(LAMBDA h, r : SetAltDesired(h, e, r, t[r]), g)

LEMMA AltDesiredsLoad ==
  ASSUME NEW g, NEW e, Owned(g, e), NEW t \in [Resource -> Nat]
  PROVE  FieldSet(g, SetAltDesireds(g, e, t), e, "altDesired", Resource, t, {"altDesired"})
<1> DEFINE Step(r, h) == SetAltDesired(h, e, r, t[r])
           Rec(f) == f = [T \in SUBSET Resource |->
                            IF T = {} THEN g
                            ELSE LET x == CHOOSE x \in T : TRUE IN Step(x, f[T \ {x}])]
           it == CHOOSE f : Rec(f)
           V == Games
           st == [p \in Resource \X V |-> Step(p[1], p[2])]
<1>1. SetAltDesireds(g, e, t) = it[Resource]
  BY DEF SetAltDesireds, EachResource, FoldSet, MapThenFoldSet
<1>2. DOMAIN st = Resource \X V /\ \A r \in Resource, h \in V : st[<<r, h>>] = Step(r, h)
  OBVIOUS
<1> HIDE DEF st, V
<1>3. ASSUME NEW T \in SUBSET Resource, NEW r \in T, NEW h,
             FieldSet(g, h, e, "altDesired", T \ {r}, t, {"altDesired"})
      PROVE  FieldSet(g, Step(r, h), e, "altDesired", T, t, {"altDesired"})
  <2>1. PICK n \in Nat : n = t[r]
    OBVIOUS
  <2>2. PICK a : a = SetAltDesired(h, e, r, n)
    OBVIOUS
  <2>3. Owned(h, e)
    BY <1>3, OwnedSite DEF FieldSet
  <2>4. /\ Beside(h, a, e) /\ SameSite(h.site[e], a.site[e], {"altDesired"})
        /\ \A q \in Resource : a.site[e].altDesired[q] = IF q = r THEN n ELSE h.site[e].altDesired[q]
    BY <2>2, <2>3, SetAltDesiredDoes
  <2>5. FieldSet(g, a, e, "altDesired", T, t, {"altDesired"})
    BY <1>3, <2>1, <2>4, FieldSetAfter
  <2>. QED BY <2>1, <2>2, <2>5
<1> HIDE DEF Step
<1>4. ASSUME NEW f, Follows(f, Resource, V, Firsts(Resource), g, st)
      PROVE  Runs(it, Resource, V, g, st)
  <2> DEFINE ch == Firsts(Resource)
  <2>1. \A T \in SUBSET Resource :
          T # {} => ch[T] \in T /\ ch[T] = CHOOSE x \in T : TRUE
    BY FirstsAre
  <2>2. \A T \in SUBSET Resource : T # {} => f[T] = Step(ch[T], f[T \ {ch[T]}])
    BY <1>2, <1>4 DEF Follows
  <2>3. /\ f = [T \in SUBSET Resource |-> f[T]]
        /\ \A T \in SUBSET Resource :
             f[T] = IF T = {} THEN g
                    ELSE LET x == CHOOSE x \in T : TRUE IN Step(x, f[T \ {x}])
    BY <1>4, <2>1, <2>2 DEF Follows
  <2>4. Rec(f)
    BY <2>3
  <2>5. Rec(it)
    <3> HIDE DEF Rec
    <3>. QED BY <2>4
  <2> HIDE DEF it
  <2>. QED BY <1>2, <2>1, <2>5 DEF Runs
<1> HIDE DEF it
<1>5. DOMAIN st = Resource \X Games
  BY <1>2 DEF V
<1>6. \A T \in SUBSET Resource : \A r \in T : \A h \in Games :
        FieldSet(g, h, e, "altDesired", T \ {r}, t, {"altDesired"})
          => FieldSet(g, st[<<r, h>>], e, "altDesired", T, t, {"altDesired"})
  BY <1>2, <1>3 DEF V
<1>7. \A f : Follows(f, Resource, Games, Firsts(Resource), g, st)
               => Runs(it, Resource, Games, g, st)
  BY <1>4 DEF V
<1>8. FieldSet(g, it[Resource], e, "altDesired", Resource, t, {"altDesired"})
  BY <1>5, <1>6, <1>7, TableFold
<1>. QED BY <1>1, <1>8

SetDesireds(g, e, t) == EachResource(LAMBDA h, r : SetDesired(h, e, r, t[r]), g)

LEMMA DesiredsLoad ==
  ASSUME NEW g, NEW e, Owned(g, e), NEW t \in [Resource -> Nat],
         \A r \in Resource : t[r] <= g.site[e].capacity[r]
  PROVE  FieldSet(g, SetDesireds(g, e, t), e, "desired", Resource, t, {"desired"})
<1> DEFINE Step(r, h) == SetDesired(h, e, r, t[r])
           Rec(f) == f = [T \in SUBSET Resource |->
                            IF T = {} THEN g
                            ELSE LET x == CHOOSE x \in T : TRUE IN Step(x, f[T \ {x}])]
           it == CHOOSE f : Rec(f)
           V == Games
           st == [p \in Resource \X V |-> Step(p[1], p[2])]
<1>1. SetDesireds(g, e, t) = it[Resource]
  BY DEF SetDesireds, EachResource, FoldSet, MapThenFoldSet
<1>2. DOMAIN st = Resource \X V /\ \A r \in Resource, h \in V : st[<<r, h>>] = Step(r, h)
  OBVIOUS
<1> HIDE DEF st, V
<1>3. ASSUME NEW T \in SUBSET Resource, NEW r \in T, NEW h,
             FieldSet(g, h, e, "desired", T \ {r}, t, {"desired"})
      PROVE  FieldSet(g, Step(r, h), e, "desired", T, t, {"desired"})
  <2>1. PICK n \in Nat : n = t[r]
    OBVIOUS
  <2>2. PICK a : a = SetDesired(h, e, r, n)
    OBVIOUS
  <2>3. Owned(h, e)
    BY <1>3, OwnedSite DEF FieldSet
  <2>4. /\ Beside(h, a, e) /\ SameSite(h.site[e], a.site[e], {"desired"})
        /\ \A q \in Resource :
             a.site[e].desired[q] = IF q = r THEN Lesser(n, h.site[e].capacity[q]) ELSE h.site[e].desired[q]
    BY <2>2, <2>3, SetDesiredDoes
  <2>5. Lesser(n, h.site[e].capacity[r]) = n
    <3>1. h.site[e].capacity = g.site[e].capacity
      BY <1>3 DEF FieldSet, SameSite
    <3>2. PICK c \in Nat : c = g.site[e].capacity[r]
      BY OwnedSite, SiteTables
    <3>3. n <= c
      BY <2>1, <3>2
    <3>. QED BY <3>1, <3>2, <3>3 DEF Lesser
  <2>6. FieldSet(g, a, e, "desired", T, t, {"desired"})
    BY <1>3, <2>1, <2>4, <2>5, FieldSetAfter
  <2>. QED BY <2>1, <2>2, <2>6
<1> HIDE DEF Step
<1>4. ASSUME NEW f, Follows(f, Resource, V, Firsts(Resource), g, st)
      PROVE  Runs(it, Resource, V, g, st)
  <2> DEFINE ch == Firsts(Resource)
  <2>1. \A T \in SUBSET Resource :
          T # {} => ch[T] \in T /\ ch[T] = CHOOSE x \in T : TRUE
    BY FirstsAre
  <2>2. \A T \in SUBSET Resource : T # {} => f[T] = Step(ch[T], f[T \ {ch[T]}])
    BY <1>2, <1>4 DEF Follows
  <2>3. /\ f = [T \in SUBSET Resource |-> f[T]]
        /\ \A T \in SUBSET Resource :
             f[T] = IF T = {} THEN g
                    ELSE LET x == CHOOSE x \in T : TRUE IN Step(x, f[T \ {x}])
    BY <1>4, <2>1, <2>2 DEF Follows
  <2>4. Rec(f)
    BY <2>3
  <2>5. Rec(it)
    <3> HIDE DEF Rec
    <3>. QED BY <2>4
  <2> HIDE DEF it
  <2>. QED BY <1>2, <2>1, <2>5 DEF Runs
<1> HIDE DEF it
<1>5. DOMAIN st = Resource \X Games
  BY <1>2 DEF V
<1>6. \A T \in SUBSET Resource : \A r \in T : \A h \in Games :
        FieldSet(g, h, e, "desired", T \ {r}, t, {"desired"})
          => FieldSet(g, st[<<r, h>>], e, "desired", T, t, {"desired"})
  BY <1>2, <1>3 DEF V
<1>7. \A f : Follows(f, Resource, Games, Firsts(Resource), g, st)
               => Runs(it, Resource, Games, g, st)
  BY <1>4 DEF V
<1>8. FieldSet(g, it[Resource], e, "desired", Resource, t, {"desired"})
  BY <1>5, <1>6, <1>7, TableFold
<1>. QED BY <1>1, <1>8

SetCurrs(g, e, t) == EachResource(LAMBDA h, r : SetCurr(h, e, r, t[r]), g)

LEMMA CurrsLoad ==
  ASSUME NEW g, NEW e, Owned(g, e), NEW t \in [Resource -> Nat],
         \A r \in Resource : t[r] <= EffectiveCapacity(g.site[e])[r]
  PROVE  FieldSet(g, SetCurrs(g, e, t), e, "curr", Resource, t, {"curr"})
<1> DEFINE Step(r, h) == SetCurr(h, e, r, t[r])
           Rec(f) == f = [T \in SUBSET Resource |->
                            IF T = {} THEN g
                            ELSE LET x == CHOOSE x \in T : TRUE IN Step(x, f[T \ {x}])]
           it == CHOOSE f : Rec(f)
           V == Games
           st == [p \in Resource \X V |-> Step(p[1], p[2])]
<1>1. SetCurrs(g, e, t) = it[Resource]
  BY DEF SetCurrs, EachResource, FoldSet, MapThenFoldSet
<1>2. DOMAIN st = Resource \X V /\ \A r \in Resource, h \in V : st[<<r, h>>] = Step(r, h)
  OBVIOUS
<1> HIDE DEF st, V
<1>3. ASSUME NEW T \in SUBSET Resource, NEW r \in T, NEW h,
             FieldSet(g, h, e, "curr", T \ {r}, t, {"curr"})
      PROVE  FieldSet(g, Step(r, h), e, "curr", T, t, {"curr"})
  <2>1. PICK n \in Nat : n = t[r]
    OBVIOUS
  <2>2. PICK a : a = SetCurr(h, e, r, n)
    OBVIOUS
  <2>3. Owned(h, e)
    BY <1>3, OwnedSite DEF FieldSet
  <2>4. /\ Beside(h, a, e) /\ SameSite(h.site[e], a.site[e], {"curr"})
        /\ \A q \in Resource : a.site[e].curr[q] = IF q = r THEN n ELSE h.site[e].curr[q]
    <3>1. EffectiveCapacity(h.site[e]) = EffectiveCapacity(g.site[e])
      BY <1>3 DEF FieldSet, SameSite, EffectiveCapacity
    <3>2. CurrAllowed(h, e, r, n)
      BY <2>1, <3>1 DEF CurrAllowed
    <3>. QED BY <2>2, <2>3, <3>2, SetCurrDoes
  <2>5. FieldSet(g, a, e, "curr", T, t, {"curr"})
    BY <1>3, <2>1, <2>4, FieldSetAfter
  <2>. QED BY <2>1, <2>2, <2>5
<1> HIDE DEF Step
<1>4. ASSUME NEW f, Follows(f, Resource, V, Firsts(Resource), g, st)
      PROVE  Runs(it, Resource, V, g, st)
  <2> DEFINE ch == Firsts(Resource)
  <2>1. \A T \in SUBSET Resource :
          T # {} => ch[T] \in T /\ ch[T] = CHOOSE x \in T : TRUE
    BY FirstsAre
  <2>2. \A T \in SUBSET Resource : T # {} => f[T] = Step(ch[T], f[T \ {ch[T]}])
    BY <1>2, <1>4 DEF Follows
  <2>3. /\ f = [T \in SUBSET Resource |-> f[T]]
        /\ \A T \in SUBSET Resource :
             f[T] = IF T = {} THEN g
                    ELSE LET x == CHOOSE x \in T : TRUE IN Step(x, f[T \ {x}])
    BY <1>4, <2>1, <2>2 DEF Follows
  <2>4. Rec(f)
    BY <2>3
  <2>5. Rec(it)
    <3> HIDE DEF Rec
    <3>. QED BY <2>4
  <2> HIDE DEF it
  <2>. QED BY <1>2, <2>1, <2>5 DEF Runs
<1> HIDE DEF it
<1>5. DOMAIN st = Resource \X Games
  BY <1>2 DEF V
<1>6. \A T \in SUBSET Resource : \A r \in T : \A h \in Games :
        FieldSet(g, h, e, "curr", T \ {r}, t, {"curr"})
          => FieldSet(g, st[<<r, h>>], e, "curr", T, t, {"curr"})
  BY <1>2, <1>3 DEF V
<1>7. \A f : Follows(f, Resource, Games, Firsts(Resource), g, st)
               => Runs(it, Resource, Games, g, st)
  BY <1>4 DEF V
<1>8. FieldSet(g, it[Resource], e, "curr", Resource, t, {"curr"})
  BY <1>5, <1>6, <1>7, TableFold
<1>. QED BY <1>1, <1>8

\* All the tables are put back, the amounts into the room that has just been made.
LEMMA LoadSiteDoes ==
  ASSUME NEW g, NEW e, Owned(g, e), NEW s \in SiteRecord,
         \A r \in Resource : s.desired[r] <= s.capacity[r] /\ s.curr[r] <= EffectiveCapacity(s)[r],
         s.useAlt => g.site[e].altCapacity = s.altCapacity
  PROVE  LET h == LoadSite(g, e, s)
         IN  Beside(g, h, e) /\ h.site[e] = s
<1>1. /\ s.capacity \in [Resource -> Nat] /\ s.curr \in [Resource -> Nat]
      /\ s.desired \in [Resource -> Nat] /\ s.altCapacity \in [Resource -> Nat]
      /\ s.altDesired \in [Resource -> Nat] /\ s.useAlt \in BOOLEAN
  BY SiteTables
<1>2. PICK a : a = [g EXCEPT !.site[e].useAlt = s.useAlt]
  OBVIOUS
<1>3. Beside(g, a, e) /\ SameSite(g.site[e], a.site[e], {"useAlt"}) /\ a.site[e].useAlt = s.useAlt
  <2>1. PICK o : o = g.site[e]
    OBVIOUS
  <2>2. PICK u \in BOOLEAN : u = s.useAlt
    BY <1>1
  <2>3. PICK t : t = [o EXCEPT !.useAlt = u]
    OBVIOUS
  <2>4. o \in SiteRecord
    BY <2>1, OwnedSite
  <2>5. t \in SiteRecord /\ SameSite(o, t, {"useAlt"}) /\ t.useAlt = u
    BY <2>3, <2>4, Zenon DEF SiteRecord, SameSite
  <2>6. PutIn(g, a, e, t)
    BY <1>2, <2>1, <2>2, <2>3 DEF PutIn
  <2>7. Beside(g, a, e) /\ a.site[e] = t
    BY <2>5, <2>6, PutSite, SiteThere
  <2>. QED BY <2>1, <2>2, <2>5, <2>7
<1>4. Owned(a, e)
  BY <1>3, OwnedSite
<1>5. PICK b : b = SetCapacities(a, e, s.capacity)
  OBVIOUS
<1>6. FieldSet(a, b, e, "capacity", Resource, s.capacity, {"capacity", "desired"})
  BY <1>1, <1>4, <1>5, CapacitiesLoad
<1>7. Owned(b, e) /\ b.site[e] \in SiteRecord
  BY <1>4, <1>6, OwnedSite DEF FieldSet
<1>8. b.site[e].capacity = s.capacity
  <2>1. b.site[e].capacity \in [Resource -> Nat]
    BY <1>7, SiteTables
  <2>2. \A r \in Resource : b.site[e].capacity[r] = s.capacity[r]
    BY <1>6 DEF FieldSet
  <2>. QED BY <1>1, <2>1, <2>2
<1>9. EffectiveCapacity(b.site[e]) = EffectiveCapacity(s) /\ b.site[e].useAlt = s.useAlt
  <2>1. b.site[e].useAlt = s.useAlt /\ b.site[e].altCapacity = g.site[e].altCapacity
    BY <1>3, <1>6 DEF FieldSet, SameSite
  <2>. QED BY <1>8, <2>1 DEF EffectiveCapacity
<1>10. PICK c : c = SetCurrs(b, e, s.curr)
  OBVIOUS
<1>11. FieldSet(b, c, e, "curr", Resource, s.curr, {"curr"})
  <2>1. \A r \in Resource : s.curr[r] <= EffectiveCapacity(b.site[e])[r]
    BY <1>9
  <2>. QED BY <1>1, <1>7, <1>10, <2>1, CurrsLoad
<1>12. Owned(c, e)
  BY <1>7, <1>11, OwnedSite DEF FieldSet
<1>13. PICK d : d = SetDesireds(c, e, s.desired)
  OBVIOUS
<1>14. FieldSet(c, d, e, "desired", Resource, s.desired, {"desired"})
  <2>1. c.site[e].capacity = s.capacity
    BY <1>8, <1>11 DEF FieldSet, SameSite
  <2>2. \A r \in Resource : s.desired[r] <= c.site[e].capacity[r]
    BY <2>1
  <2>. QED BY <1>1, <1>12, <1>13, <2>2, DesiredsLoad
<1>15. Owned(d, e)
  BY <1>12, <1>14, OwnedSite DEF FieldSet
<1>16. PICK i : i = SetAltCapacities(d, e, s.altCapacity)
  OBVIOUS
<1>17. FieldSet(d, i, e, "altCapacity", Resource, s.altCapacity, {"altCapacity"})
  BY <1>1, <1>15, <1>16, AltCapacitiesLoad
<1>18. Owned(i, e)
  BY <1>15, <1>17, OwnedSite DEF FieldSet
<1>19. PICK h : h = SetAltDesireds(i, e, s.altDesired)
  OBVIOUS
<1>20. FieldSet(i, h, e, "altDesired", Resource, s.altDesired, {"altDesired"})
  BY <1>1, <1>18, <1>19, AltDesiredsLoad
<1>21. Owned(h, e) /\ h.site[e] \in SiteRecord
  BY <1>18, <1>20, OwnedSite DEF FieldSet
<1>22. Beside(g, h, e)
  <2>1. Beside(g, c, e)
    BY <1>3, <1>6, <1>11 DEF FieldSet, Beside
  <2>2. Beside(c, h, e)
    BY <1>14, <1>17, <1>20 DEF FieldSet, Beside
  <2>. QED BY <2>1, <2>2 DEF Beside
<1>23. h.site[e] = s
  <2>1. PICK t : t = h.site[e]
    OBVIOUS
  <2>2. \A r \in Resource : /\ t.curr[r] = s.curr[r] /\ t.desired[r] = s.desired[r]
                            /\ t.altCapacity[r] = s.altCapacity[r]
                            /\ t.altDesired[r] = s.altDesired[r]
    <3>1. t.curr = c.site[e].curr /\ t.desired = d.site[e].desired
          /\ t.altCapacity = i.site[e].altCapacity
      BY <1>14, <1>17, <1>20, <2>1 DEF FieldSet, SameSite
    <3>. QED BY <1>11, <1>14, <1>17, <1>20, <2>1, <3>1 DEF FieldSet
  <2>3. t.capacity = s.capacity /\ t.useAlt = s.useAlt
    <3>1. t.capacity = b.site[e].capacity /\ t.useAlt = b.site[e].useAlt
      BY <1>11, <1>14, <1>17, <1>20, <2>1 DEF FieldSet, SameSite
    <3>. QED BY <1>8, <1>9, <3>1
  <2>4. /\ t.curr \in [Resource -> Nat] /\ t.desired \in [Resource -> Nat]
        /\ t.altCapacity \in [Resource -> Nat] /\ t.altDesired \in [Resource -> Nat]
    BY <1>21, <2>1, SiteTables
  <2>5. /\ t.curr = s.curr /\ t.desired = s.desired /\ t.altCapacity = s.altCapacity
        /\ t.altDesired = s.altDesired
    BY <1>1, <2>2, <2>4
  <2>6. t \in SiteRecord
    BY <1>21, <2>1
  <2>. QED BY <2>1, <2>3, <2>5, <2>6 DEF SiteRecord
<1>24. LoadSite(g, e, s) = h
  <2>1. LoadSite(g, e, s) =
          SetAltDesireds(SetAltCapacities(SetDesireds(SetCurrs(SetCapacities(
            [g EXCEPT !.site[e].useAlt = s.useAlt], e, s.capacity), e, s.curr), e, s.desired),
            e, s.altCapacity), e, s.altDesired)
    BY DEF LoadSite, SetAltDesireds, SetAltCapacities, SetDesireds, SetCurrs, SetCapacities,
           EachResource, FoldSet, MapThenFoldSet
  <2>. QED BY <1>2, <1>5, <1>10, <1>13, <1>16, <1>19, <2>1
<1>. QED BY <1>22, <1>23, <1>24
-----------------------------------------------------------------------------
(* A building is put back *)

\* What it is at a stage, when its record is to be b; its site is empty so far.
IsStage(c, b, n) ==
  /\ c \in BuildRecord /\ c.state = n
  /\ c.blocking <=> n >= Founded /\ b.blocking
  /\ c.isSite <=> b.isSite
  /\ c.place = b.place /\ c.required = b.required
Materials(b, n) == IF n = Founded THEN b.required ELSE Zero
Staged(g, h, e, b, n) ==
  /\ Works(g, h, e) /\ h.faction = g.faction /\ h.pos = g.pos
  /\ DOMAIN h.build = DOMAIN g.build /\ IsStage(h.build[e], b, n)
  /\ e \in h.listening <=> n = Founded
  /\ e \in DOMAIN h.site <=> n < Completed \/ b.isSite
  /\ e \in DOMAIN h.site => /\ h.site[e].curr = Zero
                            /\ h.site[e].altCapacity = Materials(b, n)

\* What there is to start with.
Starts(g, e, b) ==
  /\ Owned(g, e) /\ e \in DOMAIN g.build /\ e \in DOMAIN g.pos /\ e \notin g.listening
  /\ g.build[e].state = Placement /\ ~g.build[e].blocking
  /\ g.site[e].curr = Zero /\ g.site[e].altCapacity = Zero
  /\ b \in BuildRecord /\ (b.blocking => b.place = g.pos[e])

LEMMA NextStage ==
  ASSUME NEW c \in BuildRecord, NEW n \in Placement..Completed, NEW d, d = [c EXCEPT !.state = n]
  PROVE  /\ d \in BuildRecord /\ d.state = n /\ (d.blocking <=> c.blocking)
         /\ (d.isSite <=> c.isSite) /\ d.place = c.place /\ d.required = c.required
<1>1. d \in BuildRecord /\ d.state = n /\ d.place = c.place /\ d.required = c.required
  BY DEF BuildRecord
<1>2. d.blocking = c.blocking /\ d.isSite = c.isSite
  BY Zenon DEF BuildRecord
<1>. QED BY <1>1, <1>2

\* At its last stage the record is b.
LEMMA LastStage ==
  ASSUME NEW b \in BuildRecord, b.blocking => b.state >= Founded, NEW c, IsStage(c, b, b.state)
  PROVE  c = b
<1>1. c \in BuildRecord /\ c.state = b.state /\ c.place = b.place /\ c.required = b.required
  BY DEF IsStage
<1>2. (c.blocking <=> b.blocking) /\ (c.isSite <=> b.isSite)
  BY DEF IsStage
<1>3. /\ b.blocking \in BOOLEAN /\ b.isSite \in BOOLEAN
      /\ c.blocking \in BOOLEAN /\ c.isSite \in BOOLEAN
  BY <1>1, BuildFields
<1>4. c.blocking = b.blocking /\ c.isSite = b.isSite
  BY <1>2, <1>3
<1>. QED BY <1>1, <1>4 DEF BuildRecord

LEMMA StagedHas ==
  ASSUME NEW g, NEW h, NEW e, NEW b, NEW n \in Placement..Completed, n < Completed,
         Starts(g, e, b), Staged(g, h, e, b, n)
  PROVE  /\ Owned(h, e) /\ e \in DOMAIN h.build /\ e \in DOMAIN h.pos
         /\ h.build[e].state = n /\ h.build[e] \in BuildRecord
         /\ h.site[e].curr = Zero /\ h.site[e].altCapacity = Materials(b, n)
<1>1. e \in DOMAIN h.site
  BY DEF Staged
<1>2. Owned(h, e) /\ e \in DOMAIN h.build /\ e \in DOMAIN h.pos
  BY <1>1 DEF Staged, Starts, Owned, Works
<1>3. h.build[e].state = n /\ h.build[e] \in BuildRecord
  BY DEF Staged, IsStage
<1>. QED BY <1>1, <1>2, <1>3 DEF Staged

FieldsOf(o, i, q, p) == [o EXCEPT !.isSite = i, !.required = q, !.place = p]

LEMMA FieldsPutBack ==
  ASSUME NEW o \in BuildRecord, NEW i \in BOOLEAN, NEW p \in Place, NEW q \in [Resource -> Nat],
         NEW c, c = FieldsOf(o, i, q, p)
  PROVE  /\ c \in BuildRecord /\ c.state = o.state /\ c.place = p /\ c.required = q
         /\ (c.blocking <=> o.blocking) /\ (c.isSite <=> i)
<1>1. c \in BuildRecord /\ c.state = o.state /\ c.place = p /\ c.required = q
  BY DEF BuildRecord, FieldsOf
<1>2. c.blocking = o.blocking /\ c.isSite = i
  BY Zenon DEF BuildRecord, FieldsOf
<1>. QED BY <1>1, <1>2

PutBack(g, e, b) == [g EXCEPT !.build[e].isSite = b.isSite, !.build[e].required = b.required,
                              !.build[e].place = b.place]

LEMMA StagePlaced ==
  ASSUME NEW g, NEW e, NEW b, Starts(g, e, b), NEW h, h = PutBack(g, e, b)
  PROVE  Staged(g, h, e, b, Placement)
<1>1. /\ Shape(g) /\ e \in Entity /\ e \in DOMAIN g.site /\ e \in DOMAIN g.build
      /\ b \in BuildRecord
  BY DEF Starts, Owned
<1>2. PICK o : o = g.build[e]
  OBVIOUS
<1>3. PICK c : c = FieldsOf(o, b.isSite, b.required, b.place)
  OBVIOUS
<1>4. o \in BuildRecord /\ o.state = Placement /\ ~o.blocking
  BY <1>1, <1>2 DEF Starts, Shape
<1>5. IsStage(c, b, Placement)
  <2>1. b.isSite \in BOOLEAN /\ b.place \in Place /\ b.required \in [Resource -> Nat]
    BY <1>1, BuildFields
  <2>2. /\ c \in BuildRecord /\ c.state = o.state /\ c.place = b.place /\ c.required = b.required
        /\ (c.blocking <=> o.blocking) /\ (c.isSite <=> b.isSite)
    BY <1>3, <1>4, <2>1, FieldsPutBack
  <2>. QED BY <1>4, <2>2 DEF IsStage, Placement, Founded
<1>7. h = [g EXCEPT !.build = [g.build EXCEPT ![e] = c]]
  BY <1>1, <1>2, <1>3 DEF Shape, IsGame, Fields, PutBack, FieldsOf
<1>8. PutWork(g, h, e, c) /\ h.blockers = g.blockers /\ h.listening = g.listening
  BY <1>1, <1>7 DEF PutWork, Shape, IsGame, Fields
<1>9. /\ Works(g, h, e) /\ DOMAIN h.build = DOMAIN g.build /\ h.build[e] = c
  <2>1. ~Stands(c) /\ ~Stands(g.build[e])
    BY <1>2, <1>4, <1>5 DEF Stands, IsStage, Placement, Founded
  <2>2. h.listening \subseteq Entity /\ h.listening \ {e} = g.listening \ {e}
    BY <1>1, <1>8 DEF Shape
  <2>3. c \in BuildRecord /\ (Stands(c) <=> Stands(g.build[e]))
    BY <1>5, <2>1 DEF IsStage
  <2> HIDE <1>3
  <2>. QED BY <1>1, <1>8, <2>2, <2>3, WorkPut
<1>. QED BY <1>1, <1>5, <1>8, <1>9
         DEF Staged, Starts, PutWork, Materials, Placement, Founded, Completed

LEMMA StageMarked ==
  ASSUME NEW g, NEW h, NEW e, NEW b, Starts(g, e, b), Staged(g, h, e, b, Placement)
  PROVE  Staged(g, Mark(h, e), e, b, Marked)
<1>1. PICK k : k = Mark(h, e)
  OBVIOUS
<1>2. /\ Owned(h, e) /\ e \in DOMAIN h.build /\ h.build[e].state = Placement
      /\ e \in Entity /\ Shape(h) /\ b \in BuildRecord
  <2>1. Placement \in Placement..Completed /\ Placement < Completed
    BY DEF Placement, Completed
  <2>. QED BY <2>1, StagedHas DEF Owned, Starts
<1>3. /\ Works(h, k, e) /\ k.site = h.site /\ k.faction = h.faction /\ k.pos = h.pos
      /\ k.listening = h.listening /\ DOMAIN k.build = DOMAIN h.build
      /\ k.build[e] = [h.build[e] EXCEPT !.state = Marked]
  BY <1>1, <1>2, MarkDoes
<1>4. IsStage(k.build[e], b, Marked)
  <2>1. h.build[e] \in BuildRecord /\ Marked \in Placement..Completed
    BY DEF Staged, IsStage, Placement, Marked, Completed
  <2>. QED BY <1>3, <2>1, NextStage DEF Staged, IsStage, Placement, Marked, Founded
<1>5. Works(g, k, e)
  BY <1>3, WorksAfter DEF Staged
<1>. QED BY <1>1, <1>3, <1>4, <1>5
         DEF Staged, Materials, Placement, Marked, Founded, Completed

LEMMA FoundedFields ==
  ASSUME NEW c \in BuildRecord, NEW bl \in BOOLEAN, NEW p,
         NEW q \in Place, q = IF bl THEN p ELSE c.place, NEW d, d = FoundedAs(c, bl, p)
  PROVE  /\ d \in BuildRecord /\ d.state = Founded /\ d.place = q /\ d.required = c.required
         /\ (d.blocking <=> bl) /\ (d.isSite <=> c.isSite)
<1>1. d = [c EXCEPT !.state = Founded, !.blocking = bl, !.place = q]
  BY DEF FoundedAs, BuildRecord
<1>2. d \in BuildRecord /\ d.state = Founded /\ d.place = q /\ d.required = c.required
  <2>1. PICK m : m = [c EXCEPT !.state = Founded]
    OBVIOUS
  <2>2. m \in BuildRecord /\ m.state = Founded /\ m.required = c.required
    <3>1. Founded \in Placement..Completed
      BY DEF Placement, Founded, Completed
    <3>. QED BY <2>1, <3>1, NextStage
  <2>3. d = [m EXCEPT !.blocking = bl, !.place = q]
    BY <1>1, <2>1
  <2> HIDE <1>1
  <2>. QED BY <2>2, <2>3 DEF BuildRecord
<1>3. d.blocking = bl /\ d.isSite = c.isSite
  BY <1>1, Zenon DEF BuildRecord
<1>. QED BY <1>2, <1>3

LEMMA StageFounded ==
  ASSUME NEW g, NEW h, NEW e, NEW b, Starts(g, e, b), Staged(g, h, e, b, Marked)
  PROVE  Staged(g, Found(h, e, b.blocking), e, b, Founded)
<1>1. PICK bl \in BOOLEAN : bl = b.blocking
  BY BuildFields DEF Starts
<1>2. PICK k : k = Found(h, e, bl)
  OBVIOUS
<1>3. /\ Owned(h, e) /\ e \in DOMAIN h.build /\ e \in DOMAIN h.pos
      /\ h.build[e].state = Marked /\ h.build[e] \in BuildRecord
      /\ h.site[e].curr = Zero /\ h.site[e].altCapacity = Zero
  <2>1. Marked \in Placement..Completed /\ Marked < Completed /\ Marked # Founded
    BY DEF Placement, Marked, Founded, Completed
  <2>. QED BY <2>1, StagedHas DEF Materials
<1>4. b \in BuildRecord /\ (bl => b.place = g.pos[e]) /\ h.pos = g.pos
  BY <1>1 DEF Starts, Staged
<1>5. PICK c : c = h.build[e]
  OBVIOUS
<1>6. c \in BuildRecord /\ c.required = b.required /\ (c.isSite <=> b.isSite) /\ c.place = b.place
  BY <1>5 DEF Staged, IsStage
<1>7. /\ Works(h, k, e) /\ k.faction = h.faction /\ k.pos = h.pos
      /\ DOMAIN k.build = DOMAIN h.build
      /\ k.build[e] = FoundedAs(c, bl, h.pos[e])
      /\ k.listening = h.listening \union {e}
      /\ DOMAIN k.site = DOMAIN h.site
      /\ SameSite(h.site[e], k.site[e], {"altCapacity", "altDesired"})
      /\ k.site[e].altCapacity = c.required
  BY <1>2, <1>3, <1>5, FoundDoes
<1>8. IsStage(k.build[e], b, Founded)
  <2>1. PICK p : p = g.pos[e]
    OBVIOUS
  <2>2. PICK q \in Place : q = IF bl THEN p ELSE c.place
    BY <1>4, <1>6, <2>1, BuildFields
  <2>3. q = b.place
    BY <1>4, <1>6, <2>1, <2>2
  <2>4. PICK d : d = FoundedAs(c, bl, p)
    OBVIOUS
  <2>5. k.build[e] = d
    BY <1>4, <1>7, <2>1, <2>4
  <2>6. /\ d \in BuildRecord /\ d.state = Founded /\ d.place = q /\ d.required = c.required
        /\ (d.blocking <=> bl) /\ (d.isSite <=> c.isSite)
    BY <1>6, <2>2, <2>4, FoundedFields
  <2>. QED BY <1>1, <1>6, <2>3, <2>5, <2>6 DEF IsStage, Founded
<1>9. Works(g, k, e)
  BY <1>7, WorksAfter DEF Staged
<1>10. k.site[e].curr = Zero
  BY <1>3, <1>7 DEF SameSite
<1>11. e \in DOMAIN k.site
  BY <1>3, <1>7 DEF Owned
<1>. QED BY <1>1, <1>2, <1>6, <1>7, <1>8, <1>9, <1>10, <1>11
         DEF Staged, Materials, Marked, Founded, Completed

LEMMA StageSupplied ==
  ASSUME NEW g, NEW h, NEW e, NEW b, Starts(g, e, b), Staged(g, h, e, b, Founded)
  PROVE  Staged(g, Supply(h, e), e, b, Supplied)
<1>1. PICK k : k = Supply(h, e)
  OBVIOUS
<1>2. /\ Owned(h, e) /\ e \in DOMAIN h.build /\ h.build[e].state = Founded
  <2>1. Founded \in Placement..Completed /\ Founded < Completed
    BY DEF Placement, Founded, Completed
  <2>. QED BY <2>1, StagedHas
<1>3. SuppliedFrom(h, k, e)
  BY <1>1, <1>2, SupplyDoes
<1>4. IsStage(k.build[e], b, Supplied)
  <2>1. h.build[e] \in BuildRecord /\ Supplied \in Placement..Completed
    BY DEF Staged, IsStage, Placement, Supplied, Completed
  <2>. QED BY <1>3, <2>1, NextStage DEF SuppliedFrom, Staged, IsStage, Supplied, Founded
<1>5. Works(g, k, e)
  BY <1>3, WorksAfter DEF Staged, SuppliedFrom
<1>6. e \in DOMAIN k.site /\ e \notin k.listening
  BY <1>2, <1>3 DEF SuppliedFrom, Owned
<1>. QED BY <1>1, <1>3, <1>4, <1>5, <1>6
         DEF Staged, SuppliedFrom, Materials, Supplied, Founded, Completed

LEMMA StageCompleted ==
  ASSUME NEW g, NEW h, NEW e, NEW b, Starts(g, e, b), Staged(g, h, e, b, Supplied)
  PROVE  Staged(g, Complete(h, e), e, b, Completed)
<1>1. PICK k : k = Complete(h, e)
  OBVIOUS
<1>2. /\ Owned(h, e) /\ e \in DOMAIN h.build /\ h.build[e].state = Supplied
      /\ h.site[e].curr = Zero /\ h.site[e].altCapacity = Zero
  <2>1. Supplied \in Placement..Completed /\ Supplied < Completed /\ Supplied # Founded
    BY DEF Placement, Supplied, Founded, Completed
  <2>. QED BY <2>1, StagedHas DEF Materials
<1>3. CompletedFrom(h, k, e)
  BY <1>1, <1>2, CompleteDoes
<1>4. IsStage(k.build[e], b, Completed)
  <2>1. h.build[e] \in BuildRecord /\ Completed \in Placement..Completed
    BY DEF Staged, IsStage, Placement, Completed
  <2>. QED BY <1>3, <2>1, NextStage DEF CompletedFrom, Staged, IsStage, Supplied, Founded, Completed
<1>5. Works(g, k, e)
  BY <1>3, WorksAfter DEF Staged, CompletedFrom
<1>6. h.build[e].isSite <=> b.isSite
  BY DEF Staged, IsStage
<1>7. e \in DOMAIN k.site <=> b.isSite
  BY <1>3, <1>6 DEF CompletedFrom
<1>8. e \in DOMAIN k.site => k.site[e].curr = Zero /\ k.site[e].altCapacity = Zero
  BY <1>2, <1>3, <1>6, <1>7 DEF CompletedFrom, SameSite
<1>9. e \notin k.listening
  BY <1>3 DEF CompletedFrom, Staged, Supplied, Founded
<1>. QED BY <1>1, <1>3, <1>4, <1>5, <1>7, <1>8, <1>9
         DEF Staged, CompletedFrom, Materials, Supplied, Founded, Completed

LEMMA LoadBuildingDoes ==
  ASSUME NEW g, NEW e, NEW b, Starts(g, e, b), NEW k, k = LoadBuilding(g, e, b)
  PROVE  Staged(g, k, e, b, b.state)
<1>1. PICK n \in Placement..Completed : n = b.state
  <2>1. b \in BuildRecord
    BY DEF Starts
  <2>2. b.state \in Nat /\ b.state <= Completed
    BY <2>1, BuildFields
  <2>. QED BY <2>2 DEF Placement, Completed
<1>2. PICK h : h = PutBack(g, e, b)
  OBVIOUS
<1>3. PICK m : m = IF n >= Marked THEN Mark(h, e) ELSE h
  OBVIOUS
<1>4. PICK f : f = IF n >= Founded THEN Found(m, e, b.blocking) ELSE m
  OBVIOUS
<1>5. PICK s : s = IF n >= Supplied THEN Supply(f, e) ELSE f
  OBVIOUS
<1>6. k = IF n = Completed THEN Complete(s, e) ELSE s
  BY <1>1, <1>2, <1>3, <1>4, <1>5 DEF LoadBuilding, PutBack
<1>7. Staged(g, h, e, b, Placement)
  BY <1>2, StagePlaced
<1>8. CASE n = Placement
  <2>1. k = h
    BY <1>3, <1>4, <1>5, <1>6, <1>8 DEF Placement, Marked, Founded, Supplied, Completed
  <2>. QED BY <1>1, <1>7, <1>8, <2>1
<1>9. CASE n > Placement
  <2>1. m = Mark(h, e)
    BY <1>3, <1>9 DEF Placement, Marked
  <2>2. Staged(g, m, e, b, Marked)
    BY <1>7, <2>1, StageMarked
  <2>3. CASE n = Marked
    <3>1. k = m
      BY <1>4, <1>5, <1>6, <2>3 DEF Marked, Founded, Supplied, Completed
    <3>. QED BY <1>1, <2>2, <2>3, <3>1
  <2>4. CASE n > Marked
    <3>1. f = Found(m, e, b.blocking)
      BY <1>4, <2>4 DEF Marked, Founded
    <3>2. Staged(g, f, e, b, Founded)
      BY <2>2, <3>1, StageFounded
    <3>3. CASE n = Founded
      <4>1. k = f
        BY <1>5, <1>6, <3>3 DEF Founded, Supplied, Completed
      <4>. QED BY <1>1, <3>2, <3>3, <4>1
    <3>4. CASE n > Founded
      <4>1. s = Supply(f, e)
        BY <1>5, <3>4 DEF Founded, Supplied
      <4>2. Staged(g, s, e, b, Supplied)
        BY <3>2, <4>1, StageSupplied
      <4>3. CASE n = Supplied
        <5>1. k = s
          BY <1>6, <4>3 DEF Supplied, Completed
        <5>. QED BY <1>1, <4>2, <4>3, <5>1
      <4>4. CASE n > Supplied
        <5>1. n = Completed
          BY <4>4 DEF Placement, Supplied, Completed
        <5>2. Staged(g, k, e, b, Completed)
          BY <1>6, <4>2, <5>1, StageCompleted
        <5>. QED BY <1>1, <5>1, <5>2
      <4>. QED BY <3>4, <4>3, <4>4 DEF Placement, Founded, Supplied, Completed
    <3>. QED BY <2>4, <3>3, <3>4 DEF Placement, Marked, Founded, Completed
  <2>. QED BY <1>9, <2>3, <2>4 DEF Placement, Marked, Completed
<1>. QED BY <1>8, <1>9 DEF Placement, Completed
-----------------------------------------------------------------------------
(* A game is put back *)

\* How far an entity has come: it is there, its building is, its site is.
Rebuilt(saved, h, x) ==
  /\ x \in DOMAIN h.faction /\ h.faction[x] = saved.faction[x]
  /\ x \in DOMAIN h.pos /\ h.pos[x] = saved.pos[x]
  /\ x \in DOMAIN h.build <=> x \in DOMAIN saved.build
  /\ x \in DOMAIN saved.build => h.build[x] = saved.build[x]
  /\ x \in h.listening <=> x \in saved.listening
  /\ x \in DOMAIN h.site <=> x \in DOMAIN saved.site
  /\ x \in DOMAIN saved.site => h.site[x].altCapacity = saved.site[x].altCapacity
Restocked(saved, h, x) ==
  Rebuilt(saved, h, x) /\ (x \in DOMAIN saved.site => h.site[x] = saved.site[x])
Came(saved, h, x, n) ==
  IF n = 0 \/ x \notin DOMAIN saved.faction THEN Absent(h, x)
  ELSE IF n = 1 THEN Entered(h, x, saved.pos[x], saved.faction[x], x \in DOMAIN saved.site)
  ELSE IF n = 2 THEN Rebuilt(saved, h, x)
  ELSE Restocked(saved, h, x)

\* A step for e from h to k, and all of a game.
Comes(saved, h, k, e, n) == Works(h, k, e) /\ Placed(k, e) /\ Came(saved, k, e, n)
BlockersRight(h) ==
  \A f \in Faction, p \in Place : h.blockers[f][p] = Cardinality(Standing(h, f, p))
AllCame(saved, h, S, n) ==
  /\ Shape(h) /\ BlockersRight(h) /\ \A x \in Entity : Placed(h, x)
  /\ \A x \in S : Came(saved, h, x, n + 1)
  /\ \A x \in Entity \ S : Came(saved, h, x, n)

LEMMA CameApart ==
  ASSUME NEW saved, NEW g, NEW h, NEW e, Works(g, h, e), NEW x \in Entity \ {e}, NEW n,
         Came(saved, g, x, n)
  PROVE  Came(saved, h, x, n)
<1>1. /\ x \in DOMAIN g.site <=> x \in DOMAIN h.site
      /\ x \in DOMAIN g.site => h.site[x] = g.site[x]
      /\ x \in DOMAIN g.build <=> x \in DOMAIN h.build
      /\ x \in DOMAIN g.build => h.build[x] = g.build[x]
      /\ x \in DOMAIN g.faction <=> x \in DOMAIN h.faction
      /\ x \in DOMAIN g.faction => h.faction[x] = g.faction[x]
      /\ x \in DOMAIN g.pos <=> x \in DOMAIN h.pos
      /\ x \in DOMAIN g.pos => h.pos[x] = g.pos[x]
      /\ x \in g.listening <=> x \in h.listening
  BY DEF Works, Apart
<1>2. Absent(g, x) => Absent(h, x)
  BY <1>1 DEF Absent
<1>3. ASSUME NEW p, NEW f, NEW i, Entered(g, x, p, f, i) PROVE Entered(h, x, p, f, i)
  BY <1>1, <1>3 DEF Entered
<1>4. Rebuilt(saved, g, x) => Rebuilt(saved, h, x)
  BY <1>1 DEF Rebuilt
<1>5. Restocked(saved, g, x) => Restocked(saved, h, x)
  BY <1>1, <1>4 DEF Restocked, Rebuilt
<1>. QED BY <1>2, <1>3, <1>4, <1>5 DEF Came

LEMMA BlockersStayRight ==
  ASSUME NEW g, Shape(g), BlockersRight(g), \A x \in Entity : Placed(g, x),
         NEW h, NEW e \in Entity, Works(g, h, e), Placed(h, e)
  PROVE  BlockersRight(h) /\ \A x \in Entity : Placed(h, x)
<1>1. Shape(h) /\ Apart(g, h, e) /\ BlockersKept(g, h, e)
  BY DEF Works
<1>2. \A x \in Entity : Placed(h, x)
  BY <1>1, OthersPlaced
<1>3. ASSUME NEW f \in Faction, NEW p \in Place
      PROVE  h.blockers[f][p] = Cardinality(Standing(h, f, p))
  <2>1. g.blockers[f][p] \in Int /\ h.blockers[f][p] \in Int
    BY <1>1 DEF Shape
  <2>2. g.blockers[f][p] = Cardinality(Standing(g, f, p))
    BY DEF BlockersRight
  <2>3. h.blockers[f][p] - BlockOf(h, e, f, p) = g.blockers[f][p] - BlockOf(g, e, f, p)
    BY <1>1 DEF BlockersKept
  <2>4. /\ Cardinality(Standing(g, f, p)) \in Nat /\ Cardinality(Standing(h, f, p)) \in Nat
        /\ Cardinality(Standing(h, f, p)) - BlockOf(h, e, f, p)
             = Cardinality(Standing(g, f, p)) - BlockOf(g, e, f, p)
    BY <1>1, <1>2, StandingApart
  <2>5. BlockOf(g, e, f, p) \in Int /\ BlockOf(h, e, f, p) \in Int
    BY DEF BlockOf
  <2>. QED BY <2>1, <2>2, <2>3, <2>4, <2>5
<1>. QED BY <1>2, <1>3 DEF BlockersRight

\* One entity after the other comes one stage further.
LEMMA EntitiesFold ==
  ASSUME NEW saved, NEW n, NEW S \in SUBSET Entity, NEW g, AllCame(saved, g, {}, n),
         NEW st, DOMAIN st = S \X Games,
         \A e \in S : \A h \in Games :
           Came(saved, h, e, n) /\ Placed(h, e) => Comes(saved, h, st[<<e, h>>], e, n + 1),
         NEW it, \A f : Follows(f, S, Games, Firsts(S), g, st) => Runs(it, S, Games, g, st)
  PROVE  AllCame(saved, it[S], S, n)
<1> DEFINE good == [T \in SUBSET S |-> {h \in Games : AllCame(saved, h, T, n)}]
<1>1. \A T \in SUBSET S : \A h : h \in good[T] <=> h \in Games /\ AllCame(saved, h, T, n)
  OBVIOUS
<1> HIDE DEF good
<1>2. g \in good[{}]
  <2>1. g \in Games
    BY GamesHaveShape DEF AllCame
  <2>. QED BY <1>1, <2>1
<1>3. ASSUME NEW T \in SUBSET S, NEW e \in T, NEW h \in good[T \ {e}]
      PROVE  st[<<e, h>>] \in good[T]
  <2>1. h \in Games /\ AllCame(saved, h, T \ {e}, n)
    BY <1>1
  <2>2. PICK k : k = st[<<e, h>>]
    OBVIOUS
  <2>3. e \in Entity /\ e \in S /\ Came(saved, h, e, n) /\ Placed(h, e) /\ Shape(h)
        /\ BlockersRight(h) /\ \A x \in Entity : Placed(h, x)
    BY <2>1 DEF AllCame
  <2>4. Works(h, k, e) /\ Placed(k, e) /\ Came(saved, k, e, n + 1)
    BY <2>1, <2>2, <2>3 DEF Comes
  <2>5. BlockersRight(k) /\ \A x \in Entity : Placed(k, x)
    BY <2>3, <2>4, BlockersStayRight
  <2>6. \A x \in T : Came(saved, k, x, n + 1)
    <3> SUFFICES ASSUME NEW x \in T \ {e} PROVE Came(saved, k, x, n + 1)
      BY <2>4
    <3>1. Came(saved, h, x, n + 1) /\ x \in Entity \ {e}
      BY <2>1 DEF AllCame
    <3>. QED BY <2>4, <3>1, CameApart
  <2>7. \A x \in Entity \ T : Came(saved, k, x, n)
    <3> SUFFICES ASSUME NEW x \in Entity \ T PROVE Came(saved, k, x, n)
      OBVIOUS
    <3>1. Came(saved, h, x, n) /\ x \in Entity \ {e}
      BY <2>1 DEF AllCame
    <3>. QED BY <2>4, <3>1, CameApart
  <2>8. AllCame(saved, k, T, n)
    BY <2>4, <2>5, <2>6, <2>7 DEF AllCame, Works
  <2>9. k \in Games
    BY <2>4, GamesHaveShape DEF Works
  <2>. QED BY <1>1, <2>2, <2>8, <2>9
<1>4. IsFiniteSet(S)
  <2>1. IsFiniteSet(Entity)
    BY FS_Union DEF Entity
  <2>. QED BY <2>1, FS_Subset
<1>5. Leads(S, Games, good, g, st)
  <2>1. \A T \in SUBSET S : good[T] \subseteq Games
    BY <1>1
  <2>. QED BY <1>2, <1>3, <1>4, <2>1 DEF Leads
<1>6. it[S] \in good[S]
  BY <1>5, FoldReaches
<1>. QED BY <1>1, <1>6

\* An object of the scripts is made again.
Remade(saved, h, e) ==
  SetFactionID(AddEntity(h, e, saved.pos[e], e \in DOMAIN saved.site), e, saved.faction[e])

LEMMA RemadeComes ==
  ASSUME NEW saved, NEW s, Sound(saved, s), NEW e \in Entity, e \in DOMAIN saved.faction,
         NEW h, Shape(h), Came(saved, h, e, 0)
  PROVE  Comes(saved, h, Remade(saved, h, e), e, 1)
<1>1. PICK i \in BOOLEAN : i = (e \in DOMAIN saved.site)
  <2>1. (e \in DOMAIN saved.site) \in BOOLEAN
    OBVIOUS
  <2>. QED BY <2>1
<1>2. PICK p \in Place : p = saved.pos[e]
  BY EntityFacts DEF Placed, Shape
<1>3. PICK f \in Faction : f = saved.faction[e]
  BY EntityFacts DEF Shape
<1>4. PICK a : a = AddEntity(h, e, p, i)
  OBVIOUS
<1>5. PICK k : k = SetFactionID(a, e, f)
  OBVIOUS
<1>6. Remade(saved, h, e) = k
  BY <1>1, <1>2, <1>3, <1>4, <1>5 DEF Remade
<1>7. Absent(h, e)
  BY DEF Came
<1>8. Works(h, a, e) /\ Entered(a, e, p, Neutral, i)
  BY <1>4, <1>7, AddEntityDoes
<1>9. Shape(a) /\ Placed(a, e) /\ e \in DOMAIN a.faction
  BY <1>8 DEF Works, Entered, Placed
<1>10. BlocksThere(a, e)
  <2>1. e \in DOMAIN a.build => ~a.build[e].blocking
    BY <1>8 DEF Entered, Fresh
  <2>. QED BY <2>1 DEF BlocksThere
<1>11. Hands(a, k, e, f)
  BY <1>5, <1>9, <1>10, SetFactionIDDoes
<1>12. Works(h, k, e)
  BY <1>8, <1>11, WorksAfter DEF Hands
<1>13. Entered(k, e, p, f, i)
  BY <1>8, <1>11 DEF Hands, Entered
<1>14. Placed(k, e)
  BY <1>13 DEF Entered, Placed
<1>15. Came(saved, k, e, 1)
  BY <1>1, <1>2, <1>3, <1>13 DEF Came
<1>. QED BY <1>6, <1>12, <1>14, <1>15 DEF Comes

\* Its building is put through its stages.
LEMMA RebuiltComes ==
  ASSUME NEW saved, NEW s, Sound(saved, s), NEW e \in Entity, e \in DOMAIN saved.build,
         NEW h, Shape(h), Placed(h, e), Came(saved, h, e, 1)
  PROVE  Comes(saved, h, LoadBuilding(h, e, saved.build[e]), e, 2)
<1>1. /\ e \in DOMAIN saved.faction /\ e \in Buildings /\ BuildOK(saved, e)
      /\ saved.build[e] \in BuildRecord /\ EntityOK(saved, e)
      /\ e \in DOMAIN saved.site => SiteOK(saved, e)
  BY EntityFacts DEF Placed
<1>2. PICK b : b = saved.build[e]
  OBVIOUS
<1>3. PICK k : k = LoadBuilding(h, e, b)
  OBVIOUS
<1>4. PICK i \in BOOLEAN : i = (e \in DOMAIN saved.site)
  <2>1. (e \in DOMAIN saved.site) \in BOOLEAN
    OBVIOUS
  <2>. QED BY <2>1
<1>5. Entered(h, e, saved.pos[e], saved.faction[e], i)
  BY <1>1, <1>4 DEF Came
<1>6. Starts(h, e, b)
  <2>1. /\ e \in DOMAIN h.build /\ h.build[e] = Fresh(saved.pos[e], i)
        /\ e \in DOMAIN h.site /\ h.site[e] = NewSiteOf(e) /\ e \notin h.listening
        /\ e \in DOMAIN h.faction /\ e \in DOMAIN h.pos /\ h.pos[e] = saved.pos[e]
    BY <1>1, <1>5 DEF Entered
  <2>2. h.build[e].state = Placement /\ ~h.build[e].blocking
    BY <2>1 DEF Fresh
  <2>3. h.site[e].curr = Zero /\ h.site[e].altCapacity = Zero
    BY <2>1, NewSites
  <2>4. b \in BuildRecord /\ (b.blocking => b.place = h.pos[e])
    BY <1>1, <1>2, <2>1 DEF BuildOK
  <2>. QED BY <2>1, <2>2, <2>3, <2>4 DEF Starts, Owned
<1>7. Staged(h, k, e, b, b.state)
  BY <1>3, <1>6, LoadBuildingDoes
<1>8. k.build[e] = b
  BY <1>1, <1>2, <1>7, LastStage DEF BuildOK, Staged
<1>9. e \in DOMAIN k.site <=> e \in DOMAIN saved.site
  <2>1. e \in DOMAIN saved.site <=> e \in Sites \/ b.state < Completed
    BY <1>1, <1>2 DEF EntityOK, UnderWork, Active
  <2>2. b.isSite <=> e \in Sites
    BY <1>1, <1>2 DEF BuildOK
  <2>3. e \in DOMAIN k.site <=> b.state < Completed \/ b.isSite
    BY <1>7 DEF Staged
  <2>. QED BY <2>1, <2>2, <2>3
<1>10. e \in k.listening <=> e \in saved.listening
  BY <1>1, <1>2, <1>7 DEF Staged, BuildOK
<1>11. e \in DOMAIN saved.site => k.site[e].altCapacity = saved.site[e].altCapacity
  <2> SUFFICES ASSUME e \in DOMAIN saved.site
               PROVE  k.site[e].altCapacity = saved.site[e].altCapacity
    OBVIOUS
  <2>1. saved.site[e].altCapacity = Asked(saved, e)
    BY <1>1 DEF SiteOK
  <2>2. Asked(saved, e) = Materials(b, b.state)
    BY <1>2 DEF Asked, Materials, IsFounded
  <2>3. k.site[e].altCapacity = Materials(b, b.state)
    BY <1>7, <1>9 DEF Staged
  <2>. QED BY <2>1, <2>2, <2>3
<1>12. /\ e \in DOMAIN k.faction /\ k.faction[e] = saved.faction[e]
       /\ e \in DOMAIN k.pos /\ k.pos[e] = saved.pos[e] /\ e \in DOMAIN k.build
  BY <1>1, <1>5, <1>7 DEF Staged, Entered
<1>13. Rebuilt(saved, k, e)
  BY <1>2, <1>8, <1>9, <1>10, <1>11, <1>12 DEF Rebuilt
<1>14. Came(saved, k, e, 2)
  BY <1>1, <1>13 DEF Came
<1>15. Placed(k, e)
  BY <1>1, <1>12 DEF Placed
<1>16. Works(h, k, e)
  BY <1>7 DEF Staged
<1>. QED BY <1>2, <1>3, <1>14, <1>15, <1>16 DEF Comes

\* Its site gets what it held.
LEMMA RestockedComes ==
  ASSUME NEW saved, NEW s, Sound(saved, s), NEW e \in Entity, e \in DOMAIN saved.site,
         NEW h, Shape(h), Placed(h, e), Came(saved, h, e, 2)
  PROVE  Comes(saved, h, LoadSite(h, e, saved.site[e]), e, 3)
<1>1. PICK t : t = saved.site[e]
  OBVIOUS
<1>2. e \in DOMAIN saved.faction /\ t \in SiteRecord /\ SiteOK(saved, e)
  BY <1>1, EntityFacts DEF Placed
<1>3. Rebuilt(saved, h, e)
  BY <1>2 DEF Came
<1>4. PICK k : k = LoadSite(h, e, t)
  OBVIOUS
<1>5. Owned(h, e)
  BY <1>3 DEF Rebuilt, Owned
<1>6. /\ \A r \in Resource : t.desired[r] <= t.capacity[r] /\ t.curr[r] <= EffectiveCapacity(t)[r]
      /\ t.useAlt => h.site[e].altCapacity = t.altCapacity
  BY <1>1, <1>2, <1>3 DEF SiteOK, Rebuilt
<1>7. Beside(h, k, e) /\ k.site[e] = t
  BY <1>2, <1>4, <1>5, <1>6, LoadSiteDoes
<1>8. Works(h, k, e)
  BY <1>5, <1>7, BesideWorks
<1>9. Restocked(saved, k, e)
  BY <1>1, <1>3, <1>7 DEF Restocked, Rebuilt, Beside
<1>10. Came(saved, k, e, 3)
  BY <1>2, <1>9 DEF Came
<1>11. Placed(k, e)
  BY <1>7 DEF Placed, Beside
<1>. QED BY <1>1, <1>4, <1>8, <1>10, <1>11 DEF Comes

\* The objects of the scripts are put back.
Objects(saved, g) ==
  EachEntity(LAMBDA h, e : Remade(saved, h, e), g, DOMAIN saved.faction)

LEMMA ObjectsCome ==
  ASSUME NEW saved, NEW s, Sound(saved, s), NEW g, AllCame(saved, g, {}, 0)
  PROVE  AllCame(saved, Objects(saved, g), DOMAIN saved.faction, 0)
<1> DEFINE S == DOMAIN saved.faction
           Step(e, h) == Remade(saved, h, e)
           Rec(f) == f = [T \in SUBSET S |->
                            IF T = {} THEN g
                            ELSE LET x == CHOOSE x \in T : TRUE IN Step(x, f[T \ {x}])]
           it == CHOOSE f : Rec(f)
           V == Games
           st == [p \in S \X V |-> Step(p[1], p[2])]
<1>1. Objects(saved, g) = it[S]
  BY DEF Objects, EachEntity, FoldSet, MapThenFoldSet
<1>2. DOMAIN st = S \X V /\ \A e \in S, h \in V : st[<<e, h>>] = Step(e, h)
  OBVIOUS
<1> HIDE DEF st, V
<1>3. S \subseteq Entity
  BY SoundShape DEF Shape
<1>4. ASSUME NEW e \in S, NEW h \in Games, Came(saved, h, e, 0), Placed(h, e)
      PROVE  Comes(saved, h, Step(e, h), e, 0 + 1)
  <2>1. e \in Entity /\ Shape(h)
    BY <1>3, GamesHaveShape
  <2>. QED BY <1>4, <2>1, RemadeComes
<1> HIDE DEF Step, S
<1>5. ASSUME NEW f, Follows(f, S, V, Firsts(S), g, st)
      PROVE  Runs(it, S, V, g, st)
  <2> DEFINE ch == Firsts(S)
  <2>1. \A T \in SUBSET S : T # {} => ch[T] \in T /\ ch[T] = CHOOSE x \in T : TRUE
    BY FirstsAre
  <2>2. \A T \in SUBSET S : T # {} => f[T] = Step(ch[T], f[T \ {ch[T]}])
    BY <1>2, <1>5 DEF Follows
  <2>3. /\ f = [T \in SUBSET S |-> f[T]]
        /\ \A T \in SUBSET S :
             f[T] = IF T = {} THEN g
                    ELSE LET x == CHOOSE x \in T : TRUE IN Step(x, f[T \ {x}])
    BY <1>5, <2>1, <2>2 DEF Follows
  <2>4. Rec(f)
    BY <2>3
  <2>5. Rec(it)
    <3> HIDE DEF Rec
    <3>. QED BY <2>4
  <2> HIDE DEF it
  <2>. QED BY <1>2, <2>1, <2>5 DEF Runs
<1> HIDE DEF it
<1>6. \A e \in S : \A h \in Games :
        Came(saved, h, e, 0) /\ Placed(h, e) => Comes(saved, h, st[<<e, h>>], e, 0 + 1)
  BY <1>2, <1>4 DEF V
<1>7. \A f : Follows(f, S, Games, Firsts(S), g, st) => Runs(it, S, Games, g, st)
  BY <1>5 DEF V
<1>8. DOMAIN st = S \X Games
  BY <1>2 DEF V
<1>9. AllCame(saved, it[S], S, 0)
  BY <1>3, <1>6, <1>7, <1>8, EntitiesFold
<1>. QED BY <1>1, <1>9 DEF S

\* Then the buildings.
Built(saved, g) ==
  EachEntity(LAMBDA h, e : LoadBuilding(h, e, saved.build[e]), g, DOMAIN saved.build)

LEMMA BuildingsCome ==
  ASSUME NEW saved, NEW s, Sound(saved, s), NEW g, AllCame(saved, g, {}, 1)
  PROVE  AllCame(saved, Built(saved, g), DOMAIN saved.build, 1)
<1> DEFINE S == DOMAIN saved.build
           Step(e, h) == LoadBuilding(h, e, saved.build[e])
           Rec(f) == f = [T \in SUBSET S |->
                            IF T = {} THEN g
                            ELSE LET x == CHOOSE x \in T : TRUE IN Step(x, f[T \ {x}])]
           it == CHOOSE f : Rec(f)
           V == Games
           st == [p \in S \X V |-> Step(p[1], p[2])]
<1>1. Built(saved, g) = it[S]
  BY DEF Built, EachEntity, FoldSet, MapThenFoldSet
<1>2. DOMAIN st = S \X V /\ \A e \in S, h \in V : st[<<e, h>>] = Step(e, h)
  OBVIOUS
<1> HIDE DEF st, V
<1>3. S \subseteq Entity
  BY SoundShape DEF Shape
<1>4. ASSUME NEW e \in S, NEW h \in Games, Came(saved, h, e, 1), Placed(h, e)
      PROVE  Comes(saved, h, Step(e, h), e, 1 + 1)
  <2>1. e \in Entity /\ Shape(h)
    BY <1>3, GamesHaveShape
  <2>. QED BY <1>4, <2>1, RebuiltComes
<1> HIDE DEF Step, S
<1>5. ASSUME NEW f, Follows(f, S, V, Firsts(S), g, st)
      PROVE  Runs(it, S, V, g, st)
  <2> DEFINE ch == Firsts(S)
  <2>1. \A T \in SUBSET S : T # {} => ch[T] \in T /\ ch[T] = CHOOSE x \in T : TRUE
    BY FirstsAre
  <2>2. \A T \in SUBSET S : T # {} => f[T] = Step(ch[T], f[T \ {ch[T]}])
    BY <1>2, <1>5 DEF Follows
  <2>3. /\ f = [T \in SUBSET S |-> f[T]]
        /\ \A T \in SUBSET S :
             f[T] = IF T = {} THEN g
                    ELSE LET x == CHOOSE x \in T : TRUE IN Step(x, f[T \ {x}])
    BY <1>5, <2>1, <2>2 DEF Follows
  <2>4. Rec(f)
    BY <2>3
  <2>5. Rec(it)
    <3> HIDE DEF Rec
    <3>. QED BY <2>4
  <2> HIDE DEF it
  <2>. QED BY <1>2, <2>1, <2>5 DEF Runs
<1> HIDE DEF it
<1>6. \A e \in S : \A h \in Games :
        Came(saved, h, e, 1) /\ Placed(h, e) => Comes(saved, h, st[<<e, h>>], e, 1 + 1)
  BY <1>2, <1>4 DEF V
<1>7. \A f : Follows(f, S, Games, Firsts(S), g, st) => Runs(it, S, Games, g, st)
  BY <1>5 DEF V
<1>8. DOMAIN st = S \X Games
  BY <1>2 DEF V
<1>9. AllCame(saved, it[S], S, 1)
  BY <1>3, <1>6, <1>7, <1>8, EntitiesFold
<1>. QED BY <1>1, <1>9 DEF S

\* Then the sites.
Stocked(saved, g) ==
  EachEntity(LAMBDA h, e : LoadSite(h, e, saved.site[e]), g, DOMAIN saved.site)

LEMMA SitesCome ==
  ASSUME NEW saved, NEW s, Sound(saved, s), NEW g, AllCame(saved, g, {}, 2)
  PROVE  AllCame(saved, Stocked(saved, g), DOMAIN saved.site, 2)
<1> DEFINE S == DOMAIN saved.site
           Step(e, h) == LoadSite(h, e, saved.site[e])
           Rec(f) == f = [T \in SUBSET S |->
                            IF T = {} THEN g
                            ELSE LET x == CHOOSE x \in T : TRUE IN Step(x, f[T \ {x}])]
           it == CHOOSE f : Rec(f)
           V == Games
           st == [p \in S \X V |-> Step(p[1], p[2])]
<1>1. Stocked(saved, g) = it[S]
  BY DEF Stocked, EachEntity, FoldSet, MapThenFoldSet
<1>2. DOMAIN st = S \X V /\ \A e \in S, h \in V : st[<<e, h>>] = Step(e, h)
  OBVIOUS
<1> HIDE DEF st, V
<1>3. S \subseteq Entity
  BY SoundShape DEF Shape
<1>4. ASSUME NEW e \in S, NEW h \in Games, Came(saved, h, e, 2), Placed(h, e)
      PROVE  Comes(saved, h, Step(e, h), e, 2 + 1)
  <2>1. e \in Entity /\ Shape(h)
    BY <1>3, GamesHaveShape
  <2>. QED BY <1>4, <2>1, RestockedComes
<1> HIDE DEF Step, S
<1>5. ASSUME NEW f, Follows(f, S, V, Firsts(S), g, st)
      PROVE  Runs(it, S, V, g, st)
  <2> DEFINE ch == Firsts(S)
  <2>1. \A T \in SUBSET S : T # {} => ch[T] \in T /\ ch[T] = CHOOSE x \in T : TRUE
    BY FirstsAre
  <2>2. \A T \in SUBSET S : T # {} => f[T] = Step(ch[T], f[T \ {ch[T]}])
    BY <1>2, <1>5 DEF Follows
  <2>3. /\ f = [T \in SUBSET S |-> f[T]]
        /\ \A T \in SUBSET S :
             f[T] = IF T = {} THEN g
                    ELSE LET x == CHOOSE x \in T : TRUE IN Step(x, f[T \ {x}])
    BY <1>5, <2>1, <2>2 DEF Follows
  <2>4. Rec(f)
    BY <2>3
  <2>5. Rec(it)
    <3> HIDE DEF Rec
    <3>. QED BY <2>4
  <2> HIDE DEF it
  <2>. QED BY <1>2, <2>1, <2>5 DEF Runs
<1> HIDE DEF it
<1>6. \A e \in S : \A h \in Games :
        Came(saved, h, e, 2) /\ Placed(h, e) => Comes(saved, h, st[<<e, h>>], e, 2 + 1)
  BY <1>2, <1>4 DEF V
<1>7. \A f : Follows(f, S, Games, Firsts(S), g, st) => Runs(it, S, Games, g, st)
  BY <1>5 DEF V
<1>8. DOMAIN st = S \X Games
  BY <1>2 DEF V
<1>9. AllCame(saved, it[S], S, 2)
  BY <1>3, <1>6, <1>7, <1>8, EntitiesFold
<1>. QED BY <1>1, <1>9 DEF S

\* No stage is left out by an entity that needs none of it.
LEMMA AllFurther ==
  ASSUME NEW saved, NEW h, NEW S, NEW n, AllCame(saved, h, S, n), NEW m, m = n + 1,
         \A x \in Entity \ S : Came(saved, h, x, n) => Came(saved, h, x, m)
  PROVE  AllCame(saved, h, {}, m)
BY DEF AllCame

NothingSpentYet == [f \in Faction |-> Zero]

LEMMA EmptyIsSound ==
  /\ Shape(EmptyGame) /\ BlockersRight(EmptyGame) /\ \A x \in Entity : Absent(EmptyGame, x)
  /\ Sound(EmptyGame, NothingSpentYet)
<1> DEFINE g == EmptyGame
<1>1. /\ IsGame(g)
      /\ g.site = <<>> /\ g.build = <<>> /\ g.faction = <<>> /\ g.pos = <<>>
      /\ g.listening = {} /\ g.changed = [e \in Entity |-> 0]
      /\ g.res = [f \in Faction |-> Zero] /\ g.cap = [f \in Faction |-> Zero]
      /\ g.blockers = [f \in Faction |-> [p \in Place |-> 0]]
  BY DEF EmptyGame, IsGame, Fields
<1> HIDE DEF g
<1>2. /\ DOMAIN g.site = {} /\ DOMAIN g.build = {} /\ DOMAIN g.faction = {} /\ DOMAIN g.pos = {}
      /\ g.site \in [{} -> SiteRecord] /\ g.build \in [{} -> BuildRecord]
      /\ g.faction \in [{} -> Faction] /\ g.pos \in [{} -> Place]
  BY <1>1
<1>3. /\ g.res \in [Faction -> Table] /\ g.cap \in [Faction -> Table]
      /\ g.blockers \in [Faction -> [Place -> Int]] /\ g.changed \in [Entity -> Nat]
  BY <1>1, Tables
<1>4. Shape(g)
  BY <1>1, <1>2, <1>3 DEF Shape
<1>5. \A x \in Entity : Absent(g, x)
  BY <1>1, <1>2 DEF Absent
<1>6. \A x \in Entity : Placed(g, x) /\ EntityOK(g, x)
  BY <1>5, AbsentOK
<1>7. \A f, p : Standing(g, f, p) = {}
  BY <1>2 DEF Standing
<1>8. BlockersRight(g)
  <2>1. \A f \in Faction, p \in Place : g.blockers[f][p] = 0
    BY <1>1
  <2>2. Cardinality({}) = 0
    BY FS_EmptySet
  <2>3. \A f, p : Cardinality(Standing(g, f, p)) = 0
    BY <1>7, <2>2
  <2>. QED BY <2>1, <2>3 DEF BlockersRight
<1>9. ASSUME NEW f \in Faction, NEW r \in Resource
      PROVE  /\ g.res[f][r] = StoredBy(g, f, r) + NothingSpentYet[f][r]
             /\ g.cap[f][r] = CapacityOf(g, f, r)
  <2>1. SitesOf(g, f) = {}
    BY <1>2 DEF SitesOf
  <2>2. StoredBy(g, f, r) = 0 /\ CapacityOf(g, f, r) = 0
    <3>1. PICK m : m = [e \in SitesOf(g, f) |-> g.site[e].curr[r]]
      OBVIOUS
    <3>2. PICK c : c = [e \in SitesOf(g, f) |-> EffectiveCapacity(g.site[e])[r]]
      OBVIOUS
    <3>3. m \in [{} -> Int] /\ c \in [{} -> Int]
      BY <2>1, <3>1, <3>2
    <3>4. SumFunction(m) = 0 /\ SumFunction(c) = 0
      BY <3>3, SumTakeOut, FS_EmptySet
    <3>. QED BY <3>1, <3>2, <3>4 DEF StoredBy, CapacityOf
  <2>3. g.res[f][r] = 0 /\ g.cap[f][r] = 0 /\ NothingSpentYet[f][r] = 0
    BY <1>1, Tables DEF NothingSpentYet
  <2>. QED BY <2>2, <2>3
<1>10. GameOK(g)
  <2>1. g.blockers \in [Faction -> [Place -> Nat]]
    BY <1>1
  <2>. QED BY <1>1, <1>2, <1>3, <2>1 DEF GameOK, Active
<1>11. Sound(g, NothingSpentYet)
  BY <1>1, <1>6, <1>8, <1>9, <1>10 DEF Sound, BooksOK, BlockersRight
<1>. QED BY <1>4, <1>5, <1>8, <1>11 DEF g

\* The totals are overwritten, and the events are dropped.
Refilled(saved, g) == [g EXCEPT !.res = saved.res, !.cap = saved.cap,
                                !.changed = [e \in Entity |-> 0]]

\* Where all entities have come as far as they were, the rest of a game follows.
LEMMA ComeBack ==
  ASSUME NEW saved, NEW s, Sound(saved, s), saved.changed = [e \in Entity |-> 0],
         NEW g, AllCame(saved, g, {}, 3),
         NEW h, h = Refilled(saved, g)
  PROVE  h = saved
<1>1. Shape(g) /\ BlockersRight(g) /\ \A x \in Entity : Placed(g, x) /\ Came(saved, g, x, 3)
  BY DEF AllCame
<1>2. Shape(saved) /\ BlockersRight(saved) /\ \A x \in Entity : Placed(saved, x)
  <2>1. BlockersRight(saved)
    BY DEF Sound, BooksOK, BlockersRight
  <2>. QED BY <2>1, SoundShape
<1>3. ASSUME NEW x \in Entity
      PROVE  /\ x \in DOMAIN g.faction <=> x \in DOMAIN saved.faction
             /\ x \in DOMAIN g.faction => g.faction[x] = saved.faction[x]
             /\ x \in DOMAIN g.pos <=> x \in DOMAIN saved.pos
             /\ x \in DOMAIN g.pos => g.pos[x] = saved.pos[x]
             /\ x \in DOMAIN g.build <=> x \in DOMAIN saved.build
             /\ x \in DOMAIN g.build => g.build[x] = saved.build[x]
             /\ x \in DOMAIN g.site <=> x \in DOMAIN saved.site
             /\ x \in DOMAIN g.site => g.site[x] = saved.site[x]
             /\ x \in g.listening <=> x \in saved.listening
  <2>1. CASE x \in DOMAIN saved.faction
    <3>1. Restocked(saved, g, x)
      BY <1>1, <2>1 DEF Came
    <3>. QED BY <1>1, <1>2, <2>1, <3>1 DEF Restocked, Rebuilt, Placed
  <2>2. CASE x \notin DOMAIN saved.faction
    <3>1. Absent(g, x)
      BY <1>1, <2>2 DEF Came
    <3>2. Absent(saved, x)
      BY <1>2, <2>2 DEF Placed, Absent
    <3>. QED BY <3>1, <3>2 DEF Absent
  <2>. QED BY <2>1, <2>2
<1>4. g.faction = saved.faction
  <2>1. DOMAIN g.faction = DOMAIN saved.faction
    BY <1>1, <1>2, <1>3 DEF Shape
  <2>. QED BY <1>1, <1>2, <1>3, <2>1 DEF Shape
<1>5. g.pos = saved.pos
  <2>1. DOMAIN g.pos = DOMAIN saved.pos
    BY <1>1, <1>2, <1>3 DEF Shape
  <2>. QED BY <1>1, <1>2, <1>3, <2>1 DEF Shape
<1>6. g.build = saved.build
  <2>1. DOMAIN g.build = DOMAIN saved.build
    BY <1>1, <1>2, <1>3 DEF Shape
  <2>. QED BY <1>1, <1>2, <1>3, <2>1 DEF Shape
<1>7. g.site = saved.site
  <2>1. DOMAIN g.site = DOMAIN saved.site
    BY <1>1, <1>2, <1>3 DEF Shape
  <2>. QED BY <1>1, <1>2, <1>3, <2>1 DEF Shape
<1>8. g.listening = saved.listening
  BY <1>1, <1>2, <1>3 DEF Shape
<1>9. g.blockers = saved.blockers
  <2>1. \A f, p : Standing(g, f, p) = Standing(saved, f, p)
    BY <1>4, <1>5, <1>6 DEF Standing, Owner
  <2>2. \A f \in Faction, p \in Place : g.blockers[f][p] = saved.blockers[f][p]
    BY <1>1, <1>2, <2>1 DEF BlockersRight
  <2>3. g.blockers \in [Faction -> [Place -> Int]] /\ saved.blockers \in [Faction -> [Place -> Int]]
    BY <1>1, <1>2 DEF Shape
  <2>. QED BY <2>2, <2>3
<1>10. /\ IsGame(h) /\ h.res = saved.res /\ h.cap = saved.cap
       /\ h.changed = [e \in Entity |-> 0] /\ h.faction = g.faction /\ h.pos = g.pos
       /\ h.build = g.build /\ h.site = g.site /\ h.listening = g.listening
       /\ h.blockers = g.blockers
  BY <1>1 DEF Shape, IsGame, Fields, Refilled
<1>11. IsGame(saved)
  BY <1>2 DEF Shape
<1>12. \A k \in Fields : h[k] = saved[k]
  BY <1>4, <1>5, <1>6, <1>7, <1>8, <1>9, <1>10 DEF Fields
<1>. QED BY <1>10, <1>11, <1>12 DEF IsGame

\* Loading puts back what was saved.
LEMMA LoadGameDoes ==
  ASSUME NEW saved, NEW s, Sound(saved, s), saved.changed = [e \in Entity |-> 0]
  PROVE  LoadGame(saved) = saved
<1>1. PICK g0 : g0 = EmptyGame
  OBVIOUS
<1>2. PICK g1 : g1 = Objects(saved, g0)
  OBVIOUS
<1>3. PICK g2 : g2 = Built(saved, g1)
  OBVIOUS
<1>4. PICK g3 : g3 = Stocked(saved, g2)
  OBVIOUS
<1>5. PICK h : h = Refilled(saved, g3)
  OBVIOUS
<1>6. LoadGame(saved) = h
  <2>1. LoadGame(saved) = Refilled(saved, Stocked(saved, Built(saved, Objects(saved, EmptyGame))))
    BY DEF LoadGame, Refilled, Objects, Built, Stocked, Remade, EachEntity, FoldSet, MapThenFoldSet
  <2>. QED BY <1>1, <1>2, <1>3, <1>4, <1>5, <2>1
<1>7. AllCame(saved, g0, {}, 0)
  <2>1. \A x \in Entity : Placed(g0, x) /\ Came(saved, g0, x, 0)
    BY <1>1, EmptyIsSound, AbsentOK DEF Came
  <2>. QED BY <1>1, <2>1, EmptyIsSound DEF AllCame
<1>8. AllCame(saved, g1, {}, 1)
  <2>1. AllCame(saved, g1, DOMAIN saved.faction, 0)
    BY <1>2, <1>7, ObjectsCome
  <2>2. \A x \in Entity \ DOMAIN saved.faction : Came(saved, g1, x, 0) => Came(saved, g1, x, 1)
    BY DEF Came
  <2>. QED BY <2>1, <2>2, AllFurther
<1>9. AllCame(saved, g2, {}, 2)
  <2>1. AllCame(saved, g2, DOMAIN saved.build, 1)
    BY <1>3, <1>8, BuildingsCome
  <2>2. ASSUME NEW x \in Entity \ DOMAIN saved.build, Came(saved, g2, x, 1)
        PROVE  Came(saved, g2, x, 2)
    <3>1. CASE x \notin DOMAIN saved.faction
      BY <2>2, <3>1 DEF Came
    <3>2. CASE x \in DOMAIN saved.faction
      <4>1. x \notin Buildings /\ x \notin saved.listening
            /\ (x \in DOMAIN saved.site => SiteOK(saved, x))
        BY <3>2, EntityFacts DEF Placed
      <4>2. Entered(g2, x, saved.pos[x], saved.faction[x], x \in DOMAIN saved.site)
        BY <2>2, <3>2 DEF Came
      <4>3. x \in DOMAIN saved.site => g2.site[x].altCapacity = saved.site[x].altCapacity
        <5> SUFFICES ASSUME x \in DOMAIN saved.site
                     PROVE  g2.site[x].altCapacity = saved.site[x].altCapacity
          OBVIOUS
        <5>1. g2.site[x] = NewSiteOf(x)
          BY <4>2 DEF Entered
        <5>2. g2.site[x].altCapacity = Zero
          BY <5>1, NewSites
        <5>3. saved.site[x].altCapacity = Zero
          BY <4>1 DEF SiteOK, Asked, IsFounded
        <5>. QED BY <5>2, <5>3
      <4>4. Rebuilt(saved, g2, x)
        BY <4>1, <4>2, <4>3 DEF Rebuilt, Entered
      <4>. QED BY <3>2, <4>4 DEF Came
    <3>. QED BY <3>1, <3>2
  <2>. QED BY <2>1, <2>2, AllFurther
<1>10. AllCame(saved, g3, {}, 3)
  <2>1. AllCame(saved, g3, DOMAIN saved.site, 2)
    BY <1>4, <1>9, SitesCome
  <2>2. \A x \in Entity \ DOMAIN saved.site : Came(saved, g3, x, 2) => Came(saved, g3, x, 3)
    BY DEF Came, Restocked
  <2>. QED BY <2>1, <2>2, AllFurther
<1>11. h = saved
  BY <1>5, <1>10, ComeBack
<1>. QED BY <1>6, <1>11
-----------------------------------------------------------------------------
(* The theorems *)

LEMMA IInvInit == Init => IInv
<1> SUFFICES ASSUME Init PROVE IInv
  OBVIOUS
<1> USE DEF Init
<1>1. spent \in Spents
  BY Tables DEF Spents
<1>2. Sound(game, spent) /\ Sound(file.game, file.spent)
  BY EmptyIsSound DEF NothingSpentYet, NoFile
<1>3. file.spent \in Spents
  BY Tables DEF Spents, NoFile
<1>4. GameOK(game) /\ GameOK(file.game)
  BY <1>2 DEF Sound
<1>5. file.game.changed = [e \in Entity |-> 0]
  BY DEF NoFile, EmptyGame
<1>6. adds \in Nat /\ saves \in Nat /\ adds + saves <= MaxMade /\ loaded \in BOOLEAN
  <2>1. adds = 0 /\ saves = 0 /\ MaxMade \in Nat
    OBVIOUS
  <2>2. adds \in Nat /\ saves \in Nat /\ adds + saves <= MaxMade
    BY <2>1
  <2>. QED BY <2>2, Zenon
<1>7. LoadRestores
  BY DEF LoadRestores
<1>8. TypeOK
  BY <1>1, <1>3, <1>4, <1>6 DEF TypeOK, Spents
<1>. QED BY <1>2, <1>5, <1>7, <1>8 DEF IInv

\* What an action has to show when it leaves the file alone.
LEMMA GameStep ==
  ASSUME IInv, Sound(game', spent'), spent' \in Spents, file' = file, loaded' = FALSE,
         adds' \in Nat, saves' = saves, adds' + saves <= MaxMade
  PROVE  IInv'
<1>1. GameOK(game)'
  BY DEF Sound
<1>2. TypeOK'
  BY <1>1 DEF IInv, TypeOK, Spents
<1>3. LoadRestores'
  BY DEF LoadRestores
<1>. QED BY <1>2, <1>3 DEF IInv

LEMMA BecomesStep ==
  ASSUME IInv, NEW h, Becomes(h), Sound(h, spent)
  PROVE  IInv'
<1>1. spent \in Spents /\ adds \in Nat /\ adds + saves <= MaxMade
  BY DEF IInv, TypeOK, Spents
<1>. QED BY <1>1, GameStep DEF Becomes

LEMMA SuppliesStep ==
  ASSUME IInv, NEW h, Supplies(h), Sound(h, SpentBy(game, h)), SpentBy(game, h) \in Spents
  PROVE  IInv'
<1>1. adds \in Nat /\ adds + saves <= MaxMade
  BY DEF IInv, TypeOK
<1>. QED BY <1>1, GameStep DEF Supplies

\* Each call of a script that is about an entity, and each event, keeps the
\* inductive invariant, but for the capacity a script sets.
LEMMA CallStep ==
  ASSUME IInv, NEW e \in Entity,
         \/ \E p \in Place, needs \in [Resource -> Amount] : Create(e, p, needs)
         \/ Destroy(e)
         \/ \E f \in Faction : Hand(e, f)
         \/ \E p \in Place : Move(e, p)
         \/ \E r \in Resource, n \in Amount : Store(e, r, n) \/ ScriptDesired(e, r, n)
         \/ ScriptMark(e)
         \/ \E blocking \in BOOLEAN : ScriptFound(e, blocking)
         \/ ScriptSupply(e)
         \/ ScriptComplete(e)
         \/ OnAmountChanged(e)
  PROVE  IInv'
<1> USE DEF Active
<1>1. Sound(game, spent) /\ spent \in Spents
  BY DEF IInv, TypeOK, Spents
<1>2. Amount \subseteq Nat
  BY DEF Amount
<1>3. ASSUME NEW p \in Place, NEW needs \in [Resource -> Amount],
             Create(e, p, needs)
      PROVE  IInv'
  <2>1. PICK h : h = AddEntity(game, e, p, e \in Sites)
    OBVIOUS
  <2>2. PICK k : k = IF e \in Buildings THEN [h EXCEPT !.build[e].required = needs] ELSE h
    OBVIOUS
  <2>3. needs \in [Resource -> Nat] /\ e \notin Active(game) /\ (e \in Buildings \/ needs = Zero)
    BY <1>2, <1>3 DEF Create
  <2>4. Sound(k, spent)
    BY <1>1, <2>1, <2>2, <2>3, CreateSound
  <2>5. game' = k /\ spent' = spent /\ file' = file /\ loaded' = FALSE /\ saves' = saves
        /\ adds' = adds + 1 /\ adds + saves < MaxMade
    BY <1>3, <2>1, <2>2 DEF Create
  <2>6. adds' \in Nat /\ adds' + saves <= MaxMade
    BY <2>5 DEF IInv, TypeOK
  <2>. QED BY <1>1, <2>4, <2>5, <2>6, GameStep
<1>4. CASE Destroy(e)
  BY <1>1, <1>4, DestroySound, BecomesStep DEF Destroy
<1>5. ASSUME NEW f \in Faction, Hand(e, f) PROVE IInv'
  BY <1>1, <1>5, HandSound, BecomesStep DEF Hand
<1>6. ASSUME NEW p \in Place, Move(e, p) PROVE IInv'
  BY <1>1, <1>6, MoveSound, BecomesStep DEF Move
<1>7. ASSUME NEW r \in Resource, NEW n \in Amount, Store(e, r, n)
      PROVE  IInv'
  <2>1. PICK h : h = SetCurr(game, e, r, n)
    OBVIOUS
  <2>2. /\ e \in DOMAIN game.site /\ n \in Nat /\ CurrAllowed(game, e, r, n)
        /\ n # game.site[e].curr[r] /\ Becomes(h)
    BY <1>2, <1>7, <2>1 DEF Store
  <2>3. Sound(h, spent)
    BY <1>1, <2>1, <2>2, StoreSound
  <2>. QED BY <2>2, <2>3, BecomesStep
<1>8. ASSUME NEW r \in Resource, NEW n \in Amount, ScriptDesired(e, r, n)
      PROVE  IInv'
  <2>1. PICK h : h = SetDesired(game, e, r, n)
    OBVIOUS
  <2>2. e \in DOMAIN game.site /\ n \in Nat /\ Becomes(h)
    BY <1>2, <1>8, <2>1 DEF ScriptDesired, HasMethods
  <2>3. Sound(h, spent)
    BY <1>1, <2>1, <2>2, DesiredSound
  <2>. QED BY <2>2, <2>3, BecomesStep
<1>9. CASE ScriptMark(e)
  BY <1>1, <1>9, MarkSound, BecomesStep DEF ScriptMark
<1>10. ASSUME NEW blocking \in BOOLEAN, ScriptFound(e, blocking) PROVE IInv'
  BY <1>1, <1>10, FoundSound, BecomesStep DEF ScriptFound
<1>11. CASE ScriptSupply(e)
  <2>1. PICK h : h = Supply(game, e)
    OBVIOUS
  <2>2. e \in DOMAIN game.build /\ game.build[e].state = Founded /\ Supplies(h)
    BY <1>11, <2>1 DEF ScriptSupply
  <2>3. Shape(game)
    BY <1>1, SoundShape
  <2>4. PICK n \in Nat : n = game.changed[e]
    BY <2>3 DEF Shape
  <2>5. PICK m : m = [game EXCEPT !.changed = [game.changed EXCEPT ![e] = n]]
    OBVIOUS
  <2>6. m = game
    <3>1. [game.changed EXCEPT ![e] = n] = game.changed
      BY <2>3, <2>4 DEF Shape
    <3>2. m = [game EXCEPT !.changed = game.changed]
      BY <2>5, <3>1
    <3>. QED BY <2>3, <3>2 DEF Shape, IsGame, Fields
  <2>7. Sound(Supply(m, e), SpentBy(game, Supply(m, e))) /\ SpentBy(game, Supply(m, e)) \in Spents
    BY <1>1, <2>2, <2>5, SupplySound
  <2>8. Sound(h, SpentBy(game, h)) /\ SpentBy(game, h) \in Spents
    BY <2>1, <2>6, <2>7
  <2>. QED BY <2>2, <2>8, SuppliesStep
<1>12. CASE ScriptComplete(e)
  BY <1>1, <1>12, CompleteSound, BecomesStep DEF ScriptComplete
<1>13. CASE OnAmountChanged(e)
  <2>1. PICK m : m = [game EXCEPT !.changed[e] = @ - 1]
    OBVIOUS
  <2>2. PICK h : h = IF e \in m.listening /\ IsSaturated(m, e) THEN Supply(m, e) ELSE m
    OBVIOUS
  <2>3. game.changed[e] > 0 /\ Supplies(h)
    BY <1>13, <2>1, <2>2 DEF OnAmountChanged
  <2>4. Sound(h, SpentBy(game, h)) /\ SpentBy(game, h) \in Spents
    BY <1>1, <2>1, <2>2, <2>3, DeliveredSound
  <2>. QED BY <2>3, <2>4, SuppliesStep
<1>. QED BY <1>3, <1>4, <1>5, <1>6, <1>7, <1>8, <1>9, <1>10, <1>11, <1>12, <1>13

\* The inductive invariant is kept by every call of a script and every event,
\* by saving and by loading.
LEMMA IInvNext ==
  ASSUME Recapacity = FALSE, IInv, [Next]_vars
  PROVE  IInv'
<1>1. Sound(game, spent) /\ spent \in Spents
  BY DEF IInv, TypeOK, Spents
<1>2. Amount \subseteq Nat
  BY DEF Amount
<1>3. ASSUME NEW e \in Entity, NEW r \in Resource, NEW n \in Amount, ScriptCapacity(e, r, n)
      PROVE  IInv'
  <2>1. PICK h : h = SetCapacity(game, e, r, n)
    OBVIOUS
  <2>2. /\ e \in DOMAIN game.site /\ game.site[e].capacity[r] = 0
        /\ game.site[e].curr[r] = 0 /\ n \in Nat /\ Becomes(h)
    BY <1>2, <1>3, <2>1 DEF ScriptCapacity, HasMethods
  <2>3. Sound(h, spent)
    BY <1>1, <2>1, <2>2, CapacitySound
  <2>. QED BY <2>2, <2>3, BecomesStep
<1>4. CASE Save
  <2>1. /\ game' = game /\ spent' = spent
        /\ loaded' = FALSE /\ adds' = adds /\ saves' = saves + 1 /\ adds + saves < MaxMade
        /\ \A e \in Entity : game.changed[e] = 0
    BY <1>4 DEF Save
  <2>2. file'.game = game /\ file'.spent = spent
    BY <1>4 DEF Save
  <2>3. game.changed = [e \in Entity |-> 0]
    <3>1. Shape(game)
      BY <1>1, SoundShape
    <3>. QED BY <2>1, <3>1 DEF Shape
  <2>4. TypeOK'
    <3>1. adds' \in Nat /\ saves' \in Nat /\ adds' + saves' <= MaxMade /\ loaded' \in BOOLEAN
      <4>1. adds \in Nat /\ saves \in Nat /\ MaxMade \in Nat
        BY DEF IInv, TypeOK
      <4>2. adds' = adds /\ saves' = saves + 1 /\ adds + saves < MaxMade
        BY <2>1
      <4>3. adds' \in Nat /\ saves' \in Nat /\ adds' + saves' <= MaxMade
        BY <4>1, <4>2
      <4>. QED BY <2>1, <4>3, Zenon
    <3>2. GameOK(game)' /\ GameOK(file.game)'
      BY <2>1, <2>2 DEF IInv, TypeOK
    <3>3. spent' \in [Faction -> [Resource -> Nat]] /\ file'.spent \in [Faction -> [Resource -> Nat]]
      BY <2>1, <2>2 DEF IInv, TypeOK
    <3>. QED BY <3>1, <3>2, <3>3 DEF TypeOK
  <2>5. LoadRestores'
    BY <2>1 DEF LoadRestores
  <2>. QED BY <1>1, <2>1, <2>2, <2>3, <2>4, <2>5 DEF IInv
<1>5. CASE Load
  <2>1. /\ game' = LoadGame(file.game) /\ spent' = file.spent /\ loaded' = TRUE
        /\ file' = file /\ adds' = adds /\ saves' = saves
    BY <1>5 DEF Load
  <2>2. Sound(file.game, file.spent) /\ file.game.changed = [e \in Entity |-> 0]
    BY DEF IInv
  <2>3. game' = file.game
    BY <2>1, <2>2, LoadGameDoes
  <2>4. TypeOK'
    BY <2>1, <2>3 DEF IInv, TypeOK
  <2>5. LoadRestores'
    BY <2>1, <2>3 DEF LoadRestores
  <2>. QED BY <2>1, <2>2, <2>3, <2>4, <2>5 DEF IInv
<1>6. CASE UNCHANGED vars
  <2>1. /\ game' = game /\ spent' = spent /\ file' = file /\ adds' = adds
        /\ saves' = saves /\ loaded' = loaded
    BY <1>6 DEF vars
  <2>2. TypeOK' /\ LoadRestores'
    BY <2>1 DEF IInv, TypeOK, LoadRestores
  <2>. QED BY <2>1, <2>2 DEF IInv
<1>7. CASE \E e \in Entity :
            \/ \E p \in Place, needs \in [Resource -> Amount] : Create(e, p, needs)
            \/ Destroy(e)
            \/ \E f \in Faction : Hand(e, f)
            \/ \E p \in Place : Move(e, p)
            \/ \E r \in Resource, n \in Amount : Store(e, r, n) \/ ScriptDesired(e, r, n)
            \/ ScriptMark(e)
            \/ \E blocking \in BOOLEAN : ScriptFound(e, blocking)
            \/ ScriptSupply(e)
            \/ ScriptComplete(e)
            \/ OnAmountChanged(e)
  BY <1>7, CallStep
<1>8. CASE Next
  BY <1>3, <1>4, <1>5, <1>7, <1>8 DEF Next
<1>. QED BY <1>6, <1>8

\* Sites, buildings, totals and blockers agree in memory and in the file, however
\* the scripts' calls, the events, saving and loading follow one another: the
\* functions of storage_site.c, building.c and game.c keep IInv, as long as no
\* script changes a capacity that is in use.
THEOREM Invariance == ASSUME Recapacity = FALSE PROVE Spec => []IInv
<1>1. Init => IInv
  BY IInvInit
<1>2. IInv /\ [Next]_vars => IInv'
  BY IInvNext
<1>. QED BY <1>1, <1>2, PTL DEF Spec

\* A faction's totals of what it has and of what it could hold, kept by
\* differences in six functions, are those of its sites, for what its buildings
\* have used up.
THEOREM TotalsExactHolds == ASSUME Recapacity = FALSE PROVE Spec => []TotalsExact
<1>1. IInv => TotalsExact
  BY DEF IInv, Sound, BooksOK, TotalsExact, StoredExact, CapacityExact
<1>. QED BY <1>1, Invariance, PTL

\* The navigation's blockers count the founded buildings that block the ground
\* they stand on: each count up by M_NavBlockersIncrefOBB has its count down.
THEOREM BlockersExactHolds == ASSUME Recapacity = FALSE PROVE Spec => []BlockersExact
<1>1. IInv => BlockersExact
  BY DEF IInv, Sound, BooksOK, BlockersExact
<1>. QED BY <1>1, Invariance, PTL

LEMMA AsksExactly ==
  ASSUME NEW g, NEW s, Sound(g, s), NEW e \in DOMAIN g.build, NEW r \in Resource,
         g.build[e].state < Completed
  PROVE  /\ e \in DOMAIN g.site
         /\ LET lacks == g.build[e].required[r] - g.site[e].curr[r]
            IN  IF g.build[e].state = Founded
                THEN Desires(g, e, r) = (lacks > 0) /\ lacks >= 0
                ELSE ~Desires(g, e, r) /\ g.site[e].curr[r] = 0
<1>1. e \in Entity
  BY SoundShape DEF Shape
<1>2. UnderWork(g, e) /\ e \in DOMAIN g.site /\ SiteOK(g, e) /\ g.site[e] \in SiteRecord
      /\ g.build[e] \in BuildRecord
  BY <1>1, EntityFacts DEF UnderWork
<1>3. EffectiveDesired(g.site[e]) = Asked(g, e) /\ EffectiveCapacity(g.site[e]) = Asked(g, e)
  BY <1>2 DEF SiteOK, EffectiveDesired, EffectiveCapacity
<1>4. PICK c \in Nat : c = g.site[e].curr[r]
  BY <1>2, SiteTables
<1>5. c <= Asked(g, e)[r] /\ (Desires(g, e, r) <=> Asked(g, e)[r] > c)
  BY <1>2, <1>3, <1>4 DEF SiteOK, Desires
<1>6. CASE g.build[e].state = Founded
  <2>1. Asked(g, e) = g.build[e].required
    BY <1>6 DEF Asked, IsFounded
  <2>2. PICK n \in Nat : n = g.build[e].required[r]
    BY <1>2, BuildFields
  <2>3. c <= n /\ (Desires(g, e, r) <=> n > c)
    BY <1>5, <2>1, <2>2
  <2>4. (n > c <=> n - c > 0) /\ n - c >= 0
    BY <2>3
  <2>5. Desires(g, e, r) = (n - c > 0)
    <3>1. Desires(g, e, r) \in BOOLEAN
      BY DEF Desires
    <3>. QED BY <2>3, <2>4, <3>1
  <2>. QED BY <1>2, <1>4, <1>6, <2>2, <2>4, <2>5
<1>7. CASE g.build[e].state # Founded
  <2>1. Asked(g, e)[r] = 0
    BY <1>7, Tables DEF Asked, IsFounded
  <2>. QED BY <1>2, <1>4, <1>5, <1>7, <2>1
<1>. QED BY <1>6, <1>7

\* A building under construction asks for exactly what it lacks, and one that has
\* it all has an event on its way that will find the handler of building.c.
THEOREM SupplyAskedHolds == ASSUME Recapacity = FALSE PROVE Spec => []SupplyAsked
<1>1. IInv => SupplyAsked
  <2> SUFFICES ASSUME IInv PROVE SupplyAsked
    OBVIOUS
  <2>1. Sound(game, spent)
    BY DEF IInv
  <2>2. ASSUME NEW e \in DOMAIN game.build
        PROVE  /\ (game.build[e].state = Founded) = (e \in game.listening)
               /\ (/\ game.build[e].state = Founded
                   /\ IsSaturated(game, e)
                   /\ game.build[e].required # Zero) => game.changed[e] > 0
    <3>1. e \in Entity
      BY <2>1, SoundShape DEF Shape
    <3>2. EntityOK(game, e) /\ BuildOK(game, e)
      BY <2>1, <3>1, EntityFacts
    <3>3. (game.build[e].state = Founded) = (e \in game.listening)
      <4>1. game.build[e].state = Founded <=> e \in game.listening
        BY <3>2 DEF BuildOK
      <4>2. (game.build[e].state = Founded) \in BOOLEAN /\ (e \in game.listening) \in BOOLEAN
        OBVIOUS
      <4>3. PICK b \in BOOLEAN : b = (game.build[e].state = Founded)
        BY <4>2
      <4>4. PICK q \in BOOLEAN : q = (e \in game.listening)
        BY <4>2
      <4>5. b <=> q
        BY <4>1, <4>3, <4>4, Zenon
      <4>6. b = q
        BY <4>5
      <4>. QED BY <4>3, <4>4, <4>6
    <3>4. (/\ game.build[e].state = Founded
           /\ IsSaturated(game, e)
           /\ game.build[e].required # Zero) => game.changed[e] > 0
      BY <3>2 DEF EntityOK, IsFounded
    <3>. QED BY <3>3, <3>4
  <2>3. SupplyNotMissed
    BY <2>2 DEF SupplyNotMissed
  <2>4. AsksForMissing
    BY <2>1, AsksExactly DEF AsksForMissing
  <2>. QED BY <2>3, <2>4 DEF SupplyAsked
<1>. QED BY <1>1, Invariance, PTL

\* Loading puts back what was saved, through the setters of LoadState and of the
\* scripts, in whatever order the hash tables give the entities and resources.
THEOREM LoadRestoresHolds == ASSUME Recapacity = FALSE PROVE Spec => []LoadRestores
<1>1. IInv => LoadRestores
  BY DEF IInv
<1>. QED BY <1>1, Invariance, PTL
=============================================================================
