---------------------------- MODULE EventProofs -----------------------------
(* Proofs about the event queues, the handler table and the calls that work  *)
(* on them, for any number of events, handlers and calls.  IInv (Event) is   *)
(* inductive; HInv is inductive beside it.                                   *)
EXTENDS Event, FiniteSetTheorems, WellFoundedInduction, SequenceTheorems, TLAPS
-----------------------------------------------------------------------------
(* Induction over numbers and finite sets, and that a fold over a finite set *)
(* exists: what the deletion of the scripts' handlers needs.  The sets G and *)
(* V and the function st stand for a predicate, a type and an operator.      *)

\* A set that holds 0, and the successor of every number it holds, holds them all.
LEMMA NatSetInduction ==
  ASSUME NEW G, 0 \in G, \A n \in Nat : n \in G => n + 1 \in G
  PROVE  \A n \in Nat : n \in G
<1> DEFINE R == OpToRel(<, Nat)
           T == Nat \ G
<1>1. IsWellFoundedOn(R, Nat)
  BY NatLessThanWellFounded
<1>2. SUFFICES ASSUME T # {} PROVE FALSE
  OBVIOUS
<1>3. PICK x \in T : \A y \in T : ~ (<<y, x>> \in R)
  <2> HIDE DEF R
  <2>. QED BY <1>1, <1>2, WFMin
<1>4. x # 0 /\ x - 1 \in Nat
  BY SMT
<1>5. <<x - 1, x>> \in R
  BY <1>4 DEF OpToRel
<1>6. x - 1 \in G
  <2> HIDE DEF R
  <2>. QED BY <1>3, <1>4, <1>5
<1>. QED BY <1>4, <1>6

\* A set of sets that holds every set of which it holds all that are one element
\* less, and so the empty one, holds all subsets of a finite set.
LEMMA SetInduction ==
  ASSUME NEW S, IsFiniteSet(S), NEW G,
         \A T \in SUBSET S : (\A x \in T : T \ {x} \in G) => T \in G
  PROVE  \A T \in SUBSET S : T \in G
<1> DEFINE N == {n \in Nat : \A T \in SUBSET S : Cardinality(T) = n => T \in G}
<1>1. \A T \in SUBSET S : IsFiniteSet(T) /\ Cardinality(T) \in Nat
  BY FS_Subset, FS_CardinalityType
<1>2. 0 \in N
  BY <1>1, FS_EmptySet
<1>3. ASSUME NEW n \in Nat, n \in N PROVE n + 1 \in N
  <2> SUFFICES ASSUME NEW T \in SUBSET S, Cardinality(T) = n + 1 PROVE T \in G
    OBVIOUS
  <2>1. ASSUME NEW x \in T PROVE Cardinality(T \ {x}) = n
    BY <1>1, FS_RemoveElement
  <2>. QED BY <1>3, <2>1
<1>4. \A n \in Nat : n \in N
  <2> HIDE DEF N
  <2>. QED BY <1>2, <1>3, NatSetInduction
<1>. QED BY <1>1, <1>4

\* A set of numbers has a least one.
LEMMA LeastNumber ==
  ASSUME NEW I, I \subseteq Nat, I # {}
  PROVE  Min(I) \in I /\ \A i \in I : Min(I) <= i
<1> DEFINE R == OpToRel(<, Nat)
<1>1. IsWellFoundedOn(R, Nat)
  BY NatLessThanWellFounded
<1>2. PICK x \in I : \A y \in I : ~ (<<y, x>> \in R)
  <2> HIDE DEF R
  <2>. QED BY <1>1, WFMin
<1>3. ASSUME NEW y \in I PROVE x <= y
  <2>1. y < x => <<y, x>> \in R
    BY DEF OpToRel
  <2>2. x \in Nat /\ y \in Nat
    OBVIOUS
  <2> HIDE DEF R
  <2>. QED BY <1>2, <2>1, <2>2
<1>. QED BY <1>3 DEF Min
-----------------------------------------------------------------------------
(* Folds *)

\* A fold over S that starts at b, chooses elements by ch and steps by st.
Folds(S, ch, V, b, st) ==
  /\ IsFiniteSet(S) /\ b \in V /\ st \in [S \X V -> V]
  /\ \A T \in SUBSET S : T # {} => ch[T] \in T

\* g is its value, for each subset of S.
FoldedBy(g, S, ch, V, b, st) ==
  /\ g \in [SUBSET S -> V]
  /\ g[{}] = b
  /\ \A T \in SUBSET S :
       T # {} => g[T] = st[<<ch[T], g[T \ {ch[T]}]>>] /\ ch[T] \in T /\ g[T \ {ch[T]}] \in V

\* A fold over a finite set is defined: there is a function that takes, of every
\* subset, the element chosen, and steps with it from the value of the others.
LEMMA FoldExists ==
  ASSUME NEW S, NEW ch, NEW V, NEW b, NEW st, Folds(S, ch, V, b, st)
  PROVE  \E g : FoldedBy(g, S, ch, V, b, st)
<1> USE DEF Folds
<1> DEFINE Val(g, T) == IF T = {} THEN b ELSE st[<<ch[T], g[T \ {ch[T]}]>>]
           F == [SUBSET S -> V]
           Good(g, n) == \A T \in SUBSET S : Cardinality(T) <= n => g[T] = Val(g, T)
           N == {n \in Nat : \E g \in F : Good(g, n)}
           base == [T \in SUBSET S |-> b]
<1>1. \A T \in SUBSET S : IsFiniteSet(T) /\ Cardinality(T) \in Nat
                          /\ (T # {} => Cardinality(T \ {ch[T]}) = Cardinality(T) - 1)
  BY FS_Subset, FS_CardinalityType, FS_RemoveElement
<1>2. 0 \in N
  <2>1. ASSUME NEW T \in SUBSET S, Cardinality(T) <= 0 PROVE T = {}
    <3>1. Cardinality(T) \in Nat /\ IsFiniteSet(T)
      BY <1>1
    <3>2. Cardinality(T) = 0
      BY <2>1, <3>1
    <3>. QED BY <3>1, <3>2, FS_EmptySet
  <2>2. base \in F
    OBVIOUS
  <2>3. Good(base, 0)
    BY <2>1
  <2> HIDE DEF Good, F, base
  <2>. QED BY <2>2, <2>3
<1>3. ASSUME NEW n \in Nat, n \in N PROVE n + 1 \in N
  <2>1. PICK g \in F : Good(g, n)
    BY <1>3
  <2> DEFINE h == [T \in SUBSET S |-> Val(g, T)]
  <2>2. h \in F
    <3>1. ASSUME NEW T \in SUBSET S PROVE Val(g, T) \in V
      <4>1. T # {} => <<ch[T], g[T \ {ch[T]}]>> \in S \X V
        OBVIOUS
      <4>. QED BY <4>1
    <3>. QED BY <3>1
  <2>3. ASSUME NEW T \in SUBSET S, Cardinality(T) <= n + 1 PROVE h[T] = Val(h, T)
    <3>1. CASE T = {}
      BY <3>1
    <3>2. CASE T # {}
      <4> DEFINE U == T \ {ch[T]}
      <4>1. U \in SUBSET S /\ Cardinality(U) <= n
        <5>1. U \in SUBSET S /\ Cardinality(U) = Cardinality(T) - 1
          BY <1>1, <3>2
        <5>2. Cardinality(T) \in Nat
          BY <1>1
        <5> HIDE DEF U
        <5>. QED BY <2>3, <5>1, <5>2
      <4>2. h[U] = g[U]
        BY <2>1, <4>1
      <4>. QED BY <3>2, <4>2
    <3>. QED BY <3>1, <3>2
  <2> HIDE DEF h, Val
  <2>4. Good(h, n + 1)
    BY <2>3
  <2> HIDE DEF Good, F
  <2>. QED BY <2>2, <2>4
<1>4. \A n \in Nat : n \in N
  <2> HIDE DEF N
  <2>. QED BY <1>2, <1>3, NatSetInduction
<1>5. PICK g \in F : Good(g, Cardinality(S))
  BY <1>1, <1>4
<1>6. \A T \in SUBSET S : Cardinality(T) <= Cardinality(S)
  BY FS_Subset
<1>. QED BY <1>5, <1>6 DEF FoldedBy
-----------------------------------------------------------------------------
USE EventAssumption DEF Ids
-----------------------------------------------------------------------------
(* Sequences *)

\* A sequence of anything is one of its own elements.
LEMMA AnySeq ==
  ASSUME NEW S, NEW s \in Seq(S)
  PROVE  IsSeq(s)
BY DEF IsSeq, ToSet

\* The stack with another call on top.
LEMMA NewTop ==
  ASSUME NEW s, IsSeq(s), s # <<>>, NEW c
  PROVE  LET t == [s EXCEPT ![Len(s)] = c]
         IN  /\ IsSeq(t) /\ t # <<>> /\ DOMAIN t = 1 .. Len(s) /\ Len(t) = Len(s)
             /\ t[Len(s)] = c
             /\ \A i \in 1 .. Len(s) : i # Len(s) => t[i] = s[i]
<1> DEFINE S == ToSet(s) \cup {c}
           t == [s EXCEPT ![Len(s)] = c]
<1>1. s \in Seq(S) /\ c \in S /\ Len(s) \in Nat \ {0} /\ DOMAIN s = 1 .. Len(s)
  BY DEF IsSeq
<1> HIDE DEF S
<1>2. /\ t \in Seq(S) /\ Len(t) = Len(s) /\ DOMAIN t = 1 .. Len(s)
      /\ t[Len(s)] = c
      /\ \A i \in 1 .. Len(s) : i # Len(s) => t[i] = s[i]
  BY <1>1
<1> HIDE DEF t
<1>3. IsSeq(t) /\ t # <<>>
  BY <1>1, <1>2, AnySeq
<1>. QED BY <1>2, <1>3 DEF t

\* One call more.
LEMMA OneCallMore ==
  ASSUME NEW s, IsSeq(s), NEW c
  PROVE  LET t == Append(s, c)
         IN  /\ IsSeq(t) /\ t # <<>> /\ DOMAIN t = 1 .. Len(s) + 1 /\ Len(t) = Len(s) + 1
             /\ t[Len(s) + 1] = c
             /\ \A i \in 1 .. Len(s) : t[i] = s[i]
             /\ Len(s) \in Nat /\ DOMAIN s = 1 .. Len(s) /\ (s = <<>> <=> Len(s) = 0)
<1> DEFINE S == ToSet(s) \cup {c}
           t == Append(s, c)
<1>1. /\ s \in Seq(S) /\ c \in S
      /\ Len(s) \in Nat /\ DOMAIN s = 1 .. Len(s) /\ (s = <<>> <=> Len(s) = 0)
  BY DEF IsSeq
<1> HIDE DEF S
<1>2. /\ t \in Seq(S) /\ t # <<>> /\ Len(t) = Len(s) + 1 /\ DOMAIN t = 1 .. Len(s) + 1
      /\ t[Len(s) + 1] = c
      /\ \A i \in 1 .. Len(s) : t[i] = s[i]
  BY <1>1
<1> HIDE DEF t
<1>3. IsSeq(t)
  BY <1>2, AnySeq
<1>. QED BY <1>1, <1>2, <1>3 DEF t

\* One call less.
LEMMA OneCallLess ==
  ASSUME NEW s, IsSeq(s), s # <<>>
  PROVE  LET t == Front(s)
         IN  /\ IsSeq(t) /\ DOMAIN t = 1 .. Len(s) - 1 /\ Len(t) = Len(s) - 1
             /\ \A i \in 1 .. Len(s) - 1 : t[i] = s[i]
             /\ Len(s) \in Nat \ {0} /\ DOMAIN s = 1 .. Len(s) /\ (t = <<>> <=> Len(s) = 1)
<1> DEFINE S == ToSet(s)
           n == Len(s) - 1
           t == SubSeq(s, 1, n)
<1>1. /\ n \in Nat /\ n + 1 = Len(s) /\ DOMAIN s = 1 .. n + 1
      /\ \A i \in 1 .. n : s[i] \in S
      /\ Len(s) \in Nat \ {0}
  BY DEF IsSeq
<1> HIDE DEF n, S
<1>2. /\ t \in Seq(S)
      /\ Len(t) = IF 1 <= n THEN n - 1 + 1 ELSE 0
      /\ \A i \in 1 .. n - 1 + 1 : t[i] = s[1 + i - 1]
  BY <1>1, SubSeqProperties
<1> HIDE DEF t
<1>3. t \in Seq(S) /\ Len(t) = n /\ DOMAIN t = 1 .. n /\ \A i \in 1 .. n : t[i] = s[i]
  BY <1>1, <1>2
<1>4. IsSeq(t) /\ (t = <<>> <=> n = 0)
  BY <1>3, AnySeq
<1>5. Front(s) = t /\ n = Len(s) - 1
  BY DEF Front, t, n
<1>6. n = 0 <=> Len(s) = 1
  BY <1>1
<1>. QED BY <1>1, <1>3, <1>4, <1>5, <1>6

\* A newer event at the end of a queue.
LEMMA Queueing ==
  ASSUME NEW q \in Seq(Notified), NEW e \in Notified, Sorted(q), \A d \in IdsIn(q) : d < e.id
  PROVE  /\ Append(q, e) \in Seq(Notified)
         /\ Sorted(Append(q, e))
         /\ IdsIn(Append(q, e)) = IdsIn(q) \cup {e.id}
<1> DEFINE t == Append(q, e)
<1>1. /\ t \in Seq(Notified) /\ DOMAIN t = 1 .. Len(q) + 1
      /\ DOMAIN q = 1 .. Len(q) /\ Len(q) \in Nat
      /\ t[Len(q) + 1] = e
      /\ \A i \in 1 .. Len(q) : t[i] = q[i]
  OBVIOUS
<1> HIDE DEF t
<1>2. IdsIn(t) = IdsIn(q) \cup {e.id}
  BY <1>1 DEF IdsIn
<1>3. ASSUME NEW j \in DOMAIN t, NEW k \in DOMAIN t, j < k PROVE t[j].id < t[k].id
  <2>1. j \in 1 .. Len(q) /\ t[j] = q[j] /\ q[j].id \in IdsIn(q)
    BY <1>1, <1>3 DEF IdsIn
  <2>2. CASE k = Len(q) + 1
    BY <1>1, <2>1, <2>2
  <2>3. CASE k \in 1 .. Len(q)
    BY <1>1, <1>3, <2>1, <2>3 DEF Sorted
  <2>. QED BY <1>1, <2>2, <2>3
<1>4. Sorted(t)
  BY <1>3 DEF Sorted
<1>. QED BY <1>1, <1>2, <1>4 DEF t

\* The oldest event taken from a queue.
LEMMA Unqueueing ==
  ASSUME NEW q \in Seq(Notified), q # <<>>, Sorted(q)
  PROVE  /\ Tail(q) \in Seq(Notified) /\ Head(q) \in Notified
         /\ Sorted(Tail(q))
         /\ IdsIn(Tail(q)) = IdsIn(q) \ {Head(q).id}
         /\ Head(q).id \in IdsIn(q)
         /\ \A d \in IdsIn(Tail(q)) : Head(q).id < d
<1> DEFINE t == Tail(q)
<1>1. /\ t \in Seq(Notified) /\ DOMAIN t = 1 .. Len(q) - 1
      /\ DOMAIN q = 1 .. Len(q) /\ Len(q) \in Nat \ {0}
      /\ \A i \in 1 .. Len(q) - 1 : t[i] = q[i + 1]
      /\ Head(q) = q[1] /\ q[1] \in Notified
  OBVIOUS
<1> HIDE DEF t
<1>2. Sorted(t)
  <2> SUFFICES ASSUME NEW j \in DOMAIN t, NEW k \in DOMAIN t, j < k PROVE t[j].id < t[k].id
    BY DEF Sorted
  <2>1. j + 1 \in DOMAIN q /\ k + 1 \in DOMAIN q /\ j + 1 < k + 1
    BY <1>1
  <2>2. q[j + 1].id < q[k + 1].id
    BY <2>1 DEF Sorted
  <2>. QED BY <1>1, <2>2
<1>3. ASSUME NEW i \in 1 .. Len(q) PROVE q[i].id \in Nat
  <2>1. q[i] \in Notified
    OBVIOUS
  <2>. QED BY <2>1 DEF Notified
<1>4. ASSUME NEW i \in 1 .. Len(q) - 1
      PROVE  i + 1 \in 1 .. Len(q) /\ t[i] = q[i + 1] /\ q[1].id < t[i].id
  <2>1. i + 1 \in DOMAIN q /\ 1 \in DOMAIN q /\ 1 < i + 1 /\ t[i] = q[i + 1]
    BY <1>1
  <2>. QED BY <1>1, <2>1 DEF Sorted
<1>5. ASSUME NEW i \in 1 .. Len(q), i # 1 PROVE i - 1 \in DOMAIN t /\ t[i - 1] = q[i]
  BY <1>1, <1>5
<1>7. q[1].id \in IdsIn(q)
  BY <1>1 DEF IdsIn
<1>8. ASSUME NEW d \in IdsIn(t) PROVE d \in IdsIn(q) /\ q[1].id < d /\ d # q[1].id
  <2>1. PICK i \in 1 .. Len(q) - 1 : d = t[i].id
    BY <1>1 DEF IdsIn
  <2>2. i + 1 \in DOMAIN q /\ d = q[i + 1].id /\ q[1].id < d
    BY <1>1, <1>4, <2>1
  <2>3. q[1].id \in Nat /\ d \in Nat
    BY <1>1, <1>3, <2>2
  <2>. QED BY <2>2, <2>3 DEF IdsIn
<1>9. ASSUME NEW d \in IdsIn(q) PROVE d = q[1].id \/ d \in IdsIn(t)
  <2>1. PICK i \in 1 .. Len(q) : d = q[i].id
    BY <1>1 DEF IdsIn
  <2>2. CASE i = 1
    BY <2>1, <2>2
  <2>3. CASE i # 1
    BY <1>5, <2>1, <2>3 DEF IdsIn
  <2>. QED BY <2>2, <2>3
<1>. QED BY <1>1, <1>2, <1>7, <1>8, <1>9 DEF t

\* An empty queue holds nothing.
LEMMA EmptyQueue == IdsIn(<<>>) = {} /\ Sorted(<<>>) /\ <<>> \in Seq(Notified)
BY DEF IdsIn, Sorted
-----------------------------------------------------------------------------
(* The innermost call *)

\* What is on top, and what kind of a call it is.
LEMMA TopCall ==
  ASSUME IInv, stack # <<>>
  PROVE  /\ IsSeq(stack) /\ Len(stack) \in DOMAIN stack /\ DOMAIN stack = 1 .. Len(stack)
         /\ Len(stack) \in Nat \ {0}
         /\ Top = stack[Len(stack)]
         /\ InLoop(Top) \/ InHandling(Top)
         /\ (Top.kind = "handle") <=> InHandling(Top)
<1>1. IsSeq(stack) /\ \A i \in DOMAIN stack : InLoop(stack[i]) \/ InHandling(stack[i])
  BY DEF IInv, CallsOK
<1>2. Len(stack) \in DOMAIN stack /\ DOMAIN stack = 1 .. Len(stack) /\ Len(stack) \in Nat \ {0}
  BY <1>1 DEF IsSeq
<1>3. Top = stack[Len(stack)]
  BY DEF Top, Last
<1>. QED BY <1>1, <1>2, <1>3 DEF InLoop, InHandling

\* The two queues, as the one that notifications go to and the other.
LEMMA TwoQueues ==
  ASSUME QueuesOK
  PROVE  /\ 1 - front \in {0, 1} /\ 1 - front # front /\ 1 - (1 - front) = front
         /\ \A q \in {0, 1} : q = front \/ q = 1 - front
         /\ InQueues = IdsIn(Older) \cup IdsIn(queues[front])
<1>1. front \in {0, 1}
  BY DEF QueuesOK
<1>2. CASE front = 0
  BY <1>2 DEF InQueues, Older
<1>3. CASE front = 1
  BY <1>3 DEF InQueues, Older
<1>. QED BY <1>1, <1>2, <1>3

-----------------------------------------------------------------------------
(* What leaves the queues and the calls alone *)

\* Neither a queue nor a call changes.
LEMMA Unmoved ==
  ASSUME IInv, now' \in 0 .. MaxNow,
         UNCHANGED <<queues, front, stack, events, saved, begun, cleared, released>>
  PROVE  IInv'
<1>1. CallsOK' /\ QueuesOK'
  BY DEF IInv, CallsOK, QueuesOK, InLoop, InHandling, Notified
<1>2. PlacesOK' /\ ReleasesOK'
  BY DEF IInv, PlacesOK, ReleasesOK, InQueues, EventOf
<1>3. OrderOK'
  BY DEF IInv, OrderOK, Older, LoopOK, InQueues
<1>. QED BY <1>1, <1>2, <1>3 DEF IInv

\* Handlers registered or not, the clock, the simulation's state, the entity's death.
LEMMA AsideSteps ==
  ASSUME IInv,
         \/ \E h \in Handlers : Register(h) \/ Unregister(h)
         \/ Zombiefy \/ DeleteScriptHandlers \/ Tick \/ SetSimState \/ UNCHANGED vars
  PROVE  IInv'
<1>1. now \in 0 .. MaxNow
  BY DEF IInv, QueuesOK
<1>2. ASSUME NEW h \in Handlers, Register(h) \/ Unregister(h) PROVE IInv'
  BY <1>1, <1>2, Unmoved DEF Register, Unregister, histVars
<1>3. CASE Zombiefy \/ DeleteScriptHandlers \/ SetSimState
  BY <1>1, <1>3, Unmoved DEF Zombiefy, DeleteScriptHandlers, SetSimState, histVars
<1>4. CASE Tick
  BY <1>1, <1>4, Unmoved DEF Tick, histVars
<1>5. CASE UNCHANGED vars
  BY <1>1, <1>5, Unmoved DEF vars, histVars
<1>. QED BY <1>2, <1>3, <1>4, <1>5
-----------------------------------------------------------------------------
(* What a handler, or the frame, may call *)

\* The next event is newer than all others and was never released.
LEMMA Newer ==
  ASSUME IInv, Len(events) < MaxEvents, NEW k \in Keys, NEW script \in BOOLEAN
  PROVE  /\ NewEvent(k, script) \in Notified
         /\ NewEvent(k, script).id = Len(events) + 1
         /\ Len(events) \in Nat /\ Len(events) + 1 \in Ids
         /\ \A d \in InQueues \cup begun \cup cleared : d \in 1 .. Len(events) /\ d < Len(events) + 1
         /\ released[Len(events) + 1] = 0
         /\ \A i \in DOMAIN stack : EventOf(i) \in 0 .. Len(events)
<1>1. /\ Len(events) \in Nat /\ now \in 0 .. MaxNow /\ released \in [Ids -> Nat]
      /\ InQueues \cup begun \cup cleared \subseteq 1 .. Len(events)
  BY DEF IInv, QueuesOK, PlacesOK
<1>2. \A i \in DOMAIN stack : EventOf(i) \in 0 .. Len(events)
  BY <1>1 DEF IInv, CallsOK, InLoop, InHandling, EventOf
<1>3. Len(events) + 1 \in Ids
  BY <1>1
<1>4. released[Len(events) + 1] = 0
  BY <1>1, <1>3 DEF IInv, ReleasesOK
<1>. QED BY <1>1, <1>2, <1>3, <1>4 DEF NewEvent, Notified

\* It is put at the end of the queue,
LEMMA NotifyStep ==
  ASSUME IInv, NEW k \in Keys, NEW script \in BOOLEAN, Notify(k, script)
  PROVE  IInv'
<1> DEFINE e == NewEvent(k, script)
           n == Len(events) + 1
           q == queues[front]
<1>1. /\ Len(events) < MaxEvents
      /\ queues' = [queues EXCEPT ![front] = Append(q, e)]
      /\ events' = Append(events, TRUE)
      /\ UNCHANGED <<front, stack, now, saved, begun, cleared, released>>
  BY DEF Notify, Target
<1>2. /\ e \in Notified /\ e.id = n /\ Len(events) \in Nat /\ n \in Ids
      /\ \A d \in InQueues \cup begun \cup cleared : d \in 1 .. Len(events) /\ d < n
      /\ released[n] = 0
      /\ \A i \in DOMAIN stack : EventOf(i) \in 0 .. Len(events)
  BY <1>1, Newer
<1>3. /\ QueuesOK /\ front \in {0, 1}
      /\ queues \in [{0, 1} -> Seq(Notified)] /\ events \in Seq(BOOLEAN)
  BY DEF IInv, QueuesOK
<1> HIDE DEF e
<1>4. /\ q \in Seq(Notified) /\ Sorted(q) /\ \A d \in IdsIn(q) : d < n
  <2>1. InQueues = IdsIn(Older) \cup IdsIn(q)
    BY <1>3, TwoQueues
  <2>2. Sorted(q)
    BY <1>3 DEF IInv, PlacesOK
  <2>. QED BY <1>2, <1>3, <2>1, <2>2
<1>5. /\ Append(q, e) \in Seq(Notified) /\ Sorted(Append(q, e))
      /\ IdsIn(Append(q, e)) = IdsIn(q) \cup {n}
  BY <1>2, <1>4, Queueing
<1>6. /\ queues'[front] = Append(q, e) /\ queues'[1 - front] = queues[1 - front]
      /\ queues' \in [{0, 1} -> Seq(Notified)]
  BY <1>1, <1>3, <1>5, TwoQueues
<1>7. /\ Len(events') = n /\ events' \in Seq(BOOLEAN) /\ DOMAIN events' = 1 .. n
      /\ DOMAIN events = 1 .. Len(events)
      /\ \A i \in 1 .. Len(events) : events'[i] = events[i]
  BY <1>1, <1>3
<1>8. QueuesOK'
  <2>1. Len(events') <= MaxEvents
    BY <1>1, <1>2, <1>7
  <2>. QED BY <1>1, <1>3, <1>6, <1>7, <2>1 DEF QueuesOK, Notified
<1>9. InQueues' = InQueues \cup {n} /\ IdsIn(Older)' = IdsIn(Older)
  <2>1. InQueues' = IdsIn(queues'[1 - front]) \cup IdsIn(queues'[front])
    BY <1>1, <1>8, TwoQueues DEF Older, InQueues, QueuesOK
  <2>. QED BY <1>1, <1>3, <1>5, <1>6, <2>1, TwoQueues DEF Older
<1> HIDE DEF q, n
<1>10. CallsOK'
  BY <1>1, <1>2, <1>7 DEF IInv, CallsOK, InLoop, InHandling, n
<1>11. PlacesOK'
  <2>1. Sorted(queues'[0]) /\ Sorted(queues'[1])
    BY <1>3, <1>5, <1>6, TwoQueues DEF IInv, PlacesOK
  <2>2. IdsIn(queues'[0]) \cap IdsIn(queues'[1]) = {}
    <3>1. IdsIn(q) \cap IdsIn(Older) = {} /\ n \notin IdsIn(Older)
      BY <1>2, <1>3, TwoQueues DEF IInv, PlacesOK, Older, q
    <3>2. IdsIn(queues'[front]) \cap IdsIn(queues'[1 - front]) = {}
      BY <1>5, <1>6, <3>1 DEF Older
    <3>. QED BY <1>3, <3>2, TwoQueues
  <2>3. n \notin InQueues \cup begun \cup cleared
    BY <1>2
  <2>4. InQueues' \cup begun \cup cleared \subseteq 1 .. n
    BY <1>2, <1>9 DEF n
  <2>5. \A x \in DOMAIN events' : events'[x] => x \in InQueues' \cup begun \cup cleared
    <3>1. \A x \in 1 .. n : x = n \/ x \in 1 .. Len(events)
      BY <1>2 DEF n
    <3>2. \A x \in 1 .. Len(events) : events[x] => x \in InQueues \cup begun \cup cleared
      BY <1>7 DEF IInv, PlacesOK
    <3>. QED BY <1>7, <1>9, <3>1, <3>2
  <2>6. InQueues \cap (begun \cup cleared) = {} /\ begun \cap cleared = {}
    BY DEF IInv, PlacesOK
  <2>. QED BY <1>1, <1>7, <1>9, <2>1, <2>2, <2>3, <2>4, <2>5, <2>6 DEF PlacesOK
<1>12. ReleasesOK'
  <2>1. \A i \in DOMAIN stack : EventOf(i)' = EventOf(i) /\ EventOf(i) # n
    BY <1>1, <1>2 DEF EventOf, n
  <2>2. \A x \in Ids : x <= Len(events) => x <= n /\ x # n
    BY <1>2 DEF n
  <2>. QED BY <1>1, <1>2, <1>7, <1>9, <2>1, <2>2 DEF IInv, ReleasesOK
<1>13. OrderOK'
  <2>1. CASE saved
    BY <1>1, <2>1 DEF OrderOK
  <2>2. CASE ~saved
    <3>1. /\ \A i \in DOMAIN stack : stack[i].kind # "handle" => i = 1 /\ LoopOK(stack[i])
          /\ stack = <<>> \/ stack[1].kind = "handle" => Older = <<>>
          /\ \A d \in IdsIn(Older), x \in IdsIn(q) : d < x
          /\ \A b \in begun, d \in InQueues : b < d
      BY <2>2 DEF IInv, OrderOK, q
    <3>2. Older' = Older
      BY <1>1, <1>6 DEF Older
    <3>3. \A d \in IdsIn(Older)', x \in IdsIn(queues'[front']) : d < x
      BY <1>1, <1>2, <1>3, <1>5, <1>6, <1>9, <3>1, TwoQueues
    <3>4. \A b \in begun', d \in InQueues' : b < d
      BY <1>1, <1>2, <1>9, <3>1
    <3>. QED BY <1>1, <3>1, <3>2, <3>3, <3>4 DEF OrderOK, LoopOK
  <2>. QED BY <2>1, <2>2
<1>. QED BY <1>8, <1>10, <1>11, <1>12, <1>13 DEF IInv


\* A call that handles an event is one in which an event is handled.
LEMMA Handles ==
  ASSUME NEW e, NEW imm, e.id \in 0 .. Len(events)
  PROVE  /\ InHandling(Handling(e, imm)) /\ Handling(e, imm).kind = "handle"
         /\ Handling(e, imm).ev = e
BY DEF Handling, InHandling

\* or handled at once, by a call of its own.
LEMMA NotifyImmediateStep ==
  ASSUME IInv, NEW k \in Keys, NEW script \in BOOLEAN, NotifyImmediate(k, script)
  PROVE  IInv'
<1> DEFINE e == NewEvent(k, script)
           n == Len(events) + 1
<1>0. PICK c : c = Handling(e, TRUE)
  OBVIOUS
<1>1. /\ Len(events) < MaxEvents
      /\ stack' = Append(stack, c)
      /\ events' = Append(events, FALSE)
      /\ UNCHANGED <<queues, front, now, saved, begun, cleared, released>>
  BY <1>0 DEF NotifyImmediate
<1>2. /\ e.id = n /\ Len(events) \in Nat /\ n \in Ids
      /\ \A d \in InQueues \cup begun \cup cleared : d \in 1 .. Len(events) /\ d < n
      /\ released[n] = 0
      /\ \A i \in DOMAIN stack : EventOf(i) \in 0 .. Len(events)
  BY <1>1, Newer
<1>3. /\ DOMAIN c = {"kind", "ev", "imm", "drop", "curr", "memo", "cur", "ran"}
      /\ c.kind = "handle" /\ c.ev.id = n
  BY <1>0, <1>2 DEF Handling
<1> HIDE DEF e
<1>4. /\ Len(events') = n /\ events' \in Seq(BOOLEAN) /\ DOMAIN events' = 1 .. n
      /\ DOMAIN events = 1 .. Len(events)
      /\ \A i \in 1 .. Len(events) : events'[i] = events[i]
      /\ events'[n] = FALSE
  BY <1>1 DEF IInv, QueuesOK
<1>5. /\ IsSeq(stack') /\ DOMAIN stack' = 1 .. Len(stack) + 1
      /\ stack'[Len(stack) + 1] = c
      /\ \A i \in 1 .. Len(stack) : stack'[i] = stack[i]
      /\ Len(stack) \in Nat /\ DOMAIN stack = 1 .. Len(stack) /\ (stack = <<>> <=> Len(stack) = 0)
  BY <1>1, OneCallMore DEF IInv, CallsOK
<1>6. \A i \in DOMAIN stack' : i = Len(stack) + 1 \/ i \in DOMAIN stack
  BY <1>5
<1>7. QueuesOK'
  BY <1>1, <1>2, <1>4 DEF IInv, QueuesOK, Notified
<1>8. InQueues' = InQueues /\ Older' = Older
  BY <1>1 DEF InQueues, Older
<1>9. CallsOK'
  <2>1. InHandling(c)'
    BY <1>2, <1>3, <1>4 DEF InHandling
  <2>2. ASSUME NEW i \in DOMAIN stack PROVE InLoop(stack[i])' \/ InHandling(stack[i])'
    BY <1>2, <1>4, <1>5 DEF IInv, CallsOK, InLoop, InHandling
  <2>3. ASSUME NEW i \in DOMAIN stack', i = Len(stack) + 1 PROVE InHandling(stack[i])'
    BY <1>5, <2>1, <2>3
  <2>. QED BY <1>5, <1>6, <2>2, <2>3 DEF CallsOK
<1>10. PlacesOK'
  <2>1. \A x \in DOMAIN events' : events'[x] => x \in DOMAIN events /\ events[x]
    BY <1>2, <1>4
  <2>2. InQueues \cup begun \cup cleared \subseteq 1 .. n
    BY <1>2
  <2>. QED BY <1>1, <1>4, <1>8, <2>1, <2>2 DEF IInv, PlacesOK
<1>11. ReleasesOK'
  <2>1. \A i \in DOMAIN stack : EventOf(i)' = EventOf(i) /\ EventOf(i) # n
    BY <1>2, <1>5 DEF EventOf
  <2>2. ASSUME NEW i \in DOMAIN stack', i = Len(stack) + 1
        PROVE  EventOf(i)' = n /\ n \notin InQueues
    BY <1>2, <1>3, <1>5, <2>2 DEF EventOf
  <2>3. \A x \in Ids : x <= Len(events) => x <= n
    BY <1>2
  <2>4. \A x \in Ids : released'[x] # 0 => x <= Len(events') /\ x \notin InQueues'
    BY <1>1, <1>4, <1>8, <2>3 DEF IInv, ReleasesOK
  <2>5. ASSUME NEW i \in DOMAIN stack', EventOf(i)' # 0
        PROVE  EventOf(i)' \notin InQueues /\ released[EventOf(i)'] = 0
    BY <1>2, <1>6, <2>1, <2>2, <2>5 DEF IInv, ReleasesOK
  <2>6. ASSUME NEW i \in DOMAIN stack', NEW j \in DOMAIN stack', i # j, EventOf(i)' # 0
        PROVE  EventOf(i)' # EventOf(j)'
    BY <1>6, <2>1, <2>2, <2>6 DEF IInv, ReleasesOK
  <2>. QED BY <1>1, <1>8, <2>4, <2>5, <2>6 DEF ReleasesOK
<1>12. OrderOK'
  <2>1. CASE saved
    BY <1>1, <2>1 DEF OrderOK
  <2>2. CASE ~saved
    <3>1. /\ \A i \in DOMAIN stack : stack[i].kind # "handle" => i = 1 /\ LoopOK(stack[i])
          /\ stack = <<>> \/ stack[1].kind = "handle" => Older = <<>>
          /\ \A d \in IdsIn(Older), x \in IdsIn(queues[front]) : d < x
          /\ \A b \in begun, d \in InQueues : b < d
      BY <2>2 DEF IInv, OrderOK
    <3>2. \A i \in DOMAIN stack' : stack'[i].kind # "handle" => i = 1 /\ LoopOK(stack'[i])
      BY <1>3, <1>5, <1>6, <3>1
    <3>3. stack'[1].kind = "handle" => stack = <<>> \/ stack[1].kind = "handle"
      BY <1>5
    <3>. QED BY <1>1, <1>5, <1>8, <3>1, <3>2, <3>3, EmptyQueue DEF OrderOK, LoopOK
  <2>. QED BY <2>1, <2>2
<1>. QED BY <1>7, <1>9, <1>10, <1>11, <1>12 DEF IInv

\* A flush by a handler saves the session; one by the frame finds no loop.
LEMMA FlushStep ==
  ASSUME IInv, FlushEventQueue
  PROVE  IInv'
<1>0. PICK c : c = [Loop("flush", front) EXCEPT !.phase = "again"]
  OBVIOUS
<1>1. /\ stack' = Append(stack, c)
      /\ saved' = (saved \/ stack # <<>>)
      /\ UNCHANGED <<queues, front, now, events, begun, cleared, released>>
  BY <1>0 DEF FlushEventQueue
<1>2. /\ DOMAIN c = {"kind", "q", "phase"} /\ c.kind = "flush" /\ c.q = front /\ c.phase = "again"
  BY <1>0 DEF Loop
<1>3. /\ IsSeq(stack') /\ DOMAIN stack' = 1 .. Len(stack) + 1 /\ stack' # <<>>
      /\ stack'[Len(stack) + 1] = c
      /\ \A i \in 1 .. Len(stack) : stack'[i] = stack[i]
      /\ Len(stack) \in Nat /\ DOMAIN stack = 1 .. Len(stack) /\ (stack = <<>> <=> Len(stack) = 0)
  BY <1>1, OneCallMore DEF IInv, CallsOK
<1>4. \A i \in DOMAIN stack' : i = Len(stack) + 1 \/ i \in DOMAIN stack
  BY <1>3
<1>5. QueuesOK' /\ InQueues' = InQueues /\ Older' = Older
  BY <1>1 DEF IInv, QueuesOK, Notified, InQueues, Older
<1>6. CallsOK'
  <2>1. InLoop(c)
    BY <1>2 DEF InLoop, IInv, QueuesOK
  <2>2. \A i \in DOMAIN stack' : InLoop(stack'[i]) \/ InHandling(stack'[i])
    BY <1>3, <1>4, <2>1 DEF IInv, CallsOK
  <2>. QED BY <1>1, <1>3, <2>2 DEF CallsOK, InLoop, InHandling
<1>7. PlacesOK'
  BY <1>1, <1>5 DEF IInv, PlacesOK
<1>8. ReleasesOK'
  <2>1. \A i \in DOMAIN stack' : i = Len(stack) + 1 => EventOf(i)' = 0
    BY <1>2, <1>3 DEF EventOf
  <2>2. \A i \in DOMAIN stack : EventOf(i)' = EventOf(i)
    BY <1>3 DEF EventOf
  <2>. QED BY <1>1, <1>4, <1>5, <2>1, <2>2 DEF IInv, ReleasesOK
<1>9. OrderOK'
  <2>1. CASE saved'
    BY <2>1 DEF OrderOK
  <2>2. CASE ~saved'
    <3>1. stack = <<>> /\ ~saved
      BY <1>1, <2>2
    <3>2. /\ Older = <<>>
          /\ \A d \in IdsIn(Older), x \in IdsIn(queues[front]) : d < x
          /\ \A b \in begun, d \in InQueues : b < d
      BY <3>1 DEF IInv, OrderOK
    <3>3. DOMAIN stack' = {1} /\ stack'[1] = c
      BY <1>3, <3>1
    <3>. QED BY <1>1, <1>2, <1>3, <1>5, <3>2, <3>3 DEF OrderOK, LoopOK
  <2>. QED BY <2>1, <2>2
<1>. QED BY <1>5, <1>6, <1>7, <1>8, <1>9 DEF IInv
-----------------------------------------------------------------------------
(* What only the frame calls *)

\* The queue to be serviced is the other one from now on, and the one emptied last takes
\* the new events.
LEMMA ServiceQueueStep ==
  ASSUME IInv, ServiceQueue
  PROVE  IInv'
<1>0. PICK c : c = Loop("service", front)
  OBVIOUS
<1>1. /\ stack = <<>> /\ stack' = <<c>> /\ front' = 1 - front
      /\ UNCHANGED <<queues, now, events, saved, begun, cleared, released>>
  BY <1>0 DEF ServiceQueue, Flipped, histVars
<1>2. DOMAIN c = {"kind", "q", "phase"} /\ c.kind = "service" /\ c.q = front /\ c.phase = "start"
  BY <1>0 DEF Loop
<1>3. IsSeq(stack') /\ DOMAIN stack' = {1} /\ stack' # <<>> /\ stack'[1] = c
  <2>1. stack' \in Seq({c}) /\ DOMAIN stack' = 1 .. 1 /\ stack'[1] = c
    BY <1>1
  <2>. QED BY <2>1, AnySeq
<1>4. QueuesOK' /\ InQueues' = InQueues /\ 1 - front' = front /\ front \in {0, 1}
  BY <1>1 DEF IInv, QueuesOK, Notified, InQueues
<1>5. CallsOK'
  BY <1>1, <1>2, <1>3, <1>4 DEF CallsOK, InLoop
<1>6. PlacesOK'
  BY <1>1, <1>4 DEF IInv, PlacesOK
<1>7. ReleasesOK'
  <2>1. EventOf(1)' = 0
    BY <1>2, <1>3 DEF EventOf
  <2>. QED BY <1>1, <1>3, <1>4, <2>1 DEF IInv, ReleasesOK
<1>8. OrderOK'
  <2>1. CASE saved
    BY <1>1, <2>1 DEF OrderOK
  <2>2. CASE ~saved
    <3>1. Older = <<>> /\ \A b \in begun, d \in InQueues : b < d
      BY <1>1, <2>2 DEF IInv, OrderOK
    <3>2. IdsIn(queues'[front']) = {}
      BY <1>1, <3>1, EmptyQueue DEF Older
    <3>3. LoopOK(c)'
      BY <1>2, <1>4 DEF LoopOK
    <3>. QED BY <1>1, <1>2, <1>3, <1>4, <3>1, <3>2, <3>3 DEF OrderOK
  <2>. QED BY <2>1, <2>2
<1>. QED BY <1>4, <1>5, <1>6, <1>7, <1>8 DEF IInv

\* What is cleared was waiting.
LEMMA ClearStep ==
  ASSUME IInv, ClearPendingEvents
  PROVE  IInv'
<1> DEFINE q == queues[front]
<1>1. /\ stack = <<>>
      /\ cleared' = cleared \cup IdsIn(q)
      /\ queues' = [queues EXCEPT ![front] = <<>>]
      /\ UNCHANGED <<front, stack, now, events, saved, begun, released>>
  BY DEF ClearPendingEvents, IdsIn, ToSet
<1>2. QueuesOK /\ front \in {0, 1} /\ queues \in [{0, 1} -> Seq(Notified)]
  BY DEF IInv, QueuesOK
<1>3. /\ queues'[front] = <<>> /\ queues'[1 - front] = queues[1 - front]
      /\ queues' \in [{0, 1} -> Seq(Notified)]
  BY <1>1, <1>2, TwoQueues, EmptyQueue
<1>4. QueuesOK'
  BY <1>1, <1>2, <1>3 DEF QueuesOK, Notified
<1>5. /\ InQueues = IdsIn(Older) \cup IdsIn(q) /\ InQueues' = IdsIn(Older) /\ Older' = Older
      /\ IdsIn(q) \cap IdsIn(Older) = {}
  <2>1. InQueues' = IdsIn(queues'[1 - front]) \cup IdsIn(queues'[front])
    BY <1>1, <1>4, TwoQueues DEF Older, InQueues, QueuesOK
  <2>2. IdsIn(q) \cap IdsIn(Older) = {}
    BY <1>2, TwoQueues DEF IInv, PlacesOK, Older
  <2>. QED BY <1>1, <1>2, <1>3, <2>1, <2>2, TwoQueues, EmptyQueue DEF Older
<1> HIDE DEF q
<1>6. CallsOK'
  BY <1>1 DEF IInv, CallsOK
<1>7. PlacesOK'
  <2>1. Sorted(queues'[0]) /\ Sorted(queues'[1])
    BY <1>2, <1>3, TwoQueues, EmptyQueue DEF IInv, PlacesOK
  <2>2. IdsIn(queues'[0]) \cap IdsIn(queues'[1]) = {}
    BY <1>2, <1>3, TwoQueues, EmptyQueue
  <2>3. InQueues' \cup begun \cup cleared' = InQueues \cup begun \cup cleared
    BY <1>1, <1>5
  <2>4. /\ InQueues' \cap (begun \cup cleared') = {} /\ begun \cap cleared' = {}
    BY <1>1, <1>5 DEF IInv, PlacesOK
  <2>. QED BY <1>1, <2>1, <2>2, <2>3, <2>4 DEF IInv, PlacesOK
<1>8. ReleasesOK'
  BY <1>1, <1>5 DEF IInv, ReleasesOK
<1>9. OrderOK'
  BY <1>1, <1>3, <1>5, EmptyQueue DEF IInv, OrderOK
<1>. QED BY <1>4, <1>6, <1>7, <1>8, <1>9 DEF IInv

-----------------------------------------------------------------------------
(* The loops *)

\* An event of the frame is handled by another call on top.
LEMMA LoopFrameEventStep ==
  ASSUME IInv, LoopFrameEvent
  PROVE  IInv'
<1>1. PICK l : l = [Top EXCEPT !.phase = IF @ = "start" THEN "pop" ELSE "again"]
  OBVIOUS
<1>2. PICK c : c = Handling(FrameEvent, Top.kind = "flush")
  OBVIOUS
<1>3. PICK n : n = Len(stack)
  OBVIOUS
<1>4. PICK s : s = WithTop(l)
  OBVIOUS
<1>5. /\ stack # <<>> /\ Top.kind # "handle" /\ Top.phase \in {"start", "end"}
      /\ stack' = Append(s, c)
      /\ UNCHANGED <<queues, front, now, events, saved, begun, cleared, released>>
  BY <1>1, <1>2, <1>4 DEF LoopFrameEvent, histVars
<1>6. /\ InLoop(Top) /\ Top = stack[n]
      /\ n \in DOMAIN stack /\ DOMAIN stack = 1 .. n /\ n \in Nat \ {0}
  BY <1>3, <1>5, TopCall DEF InHandling
<1>7. /\ InLoop(l) /\ l.kind = Top.kind /\ l.q = Top.q
      /\ (Top.phase = "start" /\ l.phase = "pop") \/ (Top.phase = "end" /\ l.phase = "again")
  BY <1>1, <1>5, <1>6 DEF InLoop
<1>8. InHandling(c) /\ c.kind = "handle" /\ c.ev.id = 0
  <2>1. FrameEvent.id = 0 /\ 0 \in 0 .. Len(events)
    BY DEF FrameEvent, IInv, QueuesOK
  <2>. QED BY <1>2, <2>1, Handles
<1>9. /\ IsSeq(s) /\ DOMAIN s = 1 .. n /\ Len(s) = n /\ s[n] = l
      /\ \A i \in 1 .. n : i # n => s[i] = stack[i]
  <2>1. IsSeq(stack)
    BY DEF IInv, CallsOK
  <2>. QED BY <1>3, <1>4, <1>5, <2>1, NewTop DEF WithTop
<1>10. /\ IsSeq(stack') /\ DOMAIN stack' = 1 .. n + 1 /\ stack' # <<>>
       /\ stack'[n + 1] = c
       /\ \A i \in 1 .. n : stack'[i] = s[i]
  BY <1>5, <1>9, OneCallMore
<1>11. ASSUME NEW i \in DOMAIN stack'
       PROVE  \/ i \in DOMAIN stack /\ i # n /\ stack'[i] = stack[i]
              \/ i = n /\ stack'[i] = l
              \/ i = n + 1 /\ stack'[i] = c
  BY <1>6, <1>9, <1>10
<1>12. QueuesOK' /\ InQueues' = InQueues /\ Older' = Older
  BY <1>5 DEF IInv, QueuesOK, Notified, InQueues, Older
<1>13. CallsOK'
  <2>1. ASSUME NEW i \in DOMAIN stack' PROVE InLoop(stack'[i]) \/ InHandling(stack'[i])
    BY <1>7, <1>8, <1>11 DEF IInv, CallsOK
  <2>. QED BY <1>5, <1>10, <2>1 DEF CallsOK, InLoop, InHandling
<1>14. PlacesOK'
  BY <1>5, <1>12 DEF IInv, PlacesOK
<1>15. ReleasesOK'
  <2>1. ASSUME NEW i \in DOMAIN stack'
        PROVE  EventOf(i)' = 0 \/ (i \in DOMAIN stack /\ EventOf(i)' = EventOf(i))
    BY <1>7, <1>8, <1>11 DEF EventOf, InLoop
  <2>. QED BY <1>5, <1>12, <2>1 DEF IInv, ReleasesOK
<1>16. OrderOK'
  <2>1. CASE saved
    BY <1>5, <2>1 DEF OrderOK
  <2>2. CASE ~saved
    <3>1. /\ \A i \in DOMAIN stack : stack[i].kind # "handle" => i = 1 /\ LoopOK(stack[i])
          /\ \A d \in IdsIn(Older), x \in IdsIn(queues[front]) : d < x
          /\ \A b \in begun, d \in InQueues : b < d
      BY <2>2 DEF IInv, OrderOK
    <3>2. n = 1 /\ LoopOK(Top)
      BY <1>5, <1>6, <3>1
    <3>3. LoopOK(l)
      BY <1>7, <3>2 DEF LoopOK
    <3>4. \A i \in DOMAIN stack' : stack'[i].kind # "handle" => i = 1 /\ LoopOK(stack'[i])
      BY <1>8, <1>11, <3>1, <3>2, <3>3
    <3>5. stack'[1].kind # "handle"
      BY <1>5, <1>7, <1>9, <1>10, <3>2
    <3>. QED BY <1>5, <1>10, <1>12, <3>1, <3>4, <3>5 DEF OrderOK, LoopOK
  <2>. QED BY <2>1, <2>2
<1>. QED BY <1>12, <1>13, <1>14, <1>15, <1>16 DEF IInv

\* A loop that finds its queue empty has one more event of the frame to handle.
LEMMA LoopEmptyStep ==
  ASSUME IInv, LoopPop, queues[Top.q] = <<>>
  PROVE  IInv'
<1>1. PICK l : l = [Top EXCEPT !.phase = "end"]
  OBVIOUS
<1>2. PICK n : n = Len(stack)
  OBVIOUS
<1>3. /\ stack # <<>> /\ Top.kind # "handle" /\ Top.phase = "pop"
      /\ stack' = WithTop(l)
      /\ UNCHANGED <<queues, front, now, events, saved, begun, cleared, released>>
  BY <1>1 DEF LoopPop
<1>4. /\ InLoop(Top) /\ Top = stack[n]
      /\ n \in DOMAIN stack /\ DOMAIN stack = 1 .. n /\ n \in Nat \ {0}
  BY <1>2, <1>3, TopCall DEF InHandling
<1>5. InLoop(l) /\ l.kind = Top.kind /\ l.q = Top.q /\ l.phase = "end"
  BY <1>1, <1>4 DEF InLoop
<1>6. /\ IsSeq(stack') /\ DOMAIN stack' = 1 .. n /\ stack' # <<>> /\ stack'[n] = l
      /\ \A i \in 1 .. n : i # n => stack'[i] = stack[i]
  <2>1. IsSeq(stack)
    BY DEF IInv, CallsOK
  <2>. QED BY <1>2, <1>3, <2>1, NewTop DEF WithTop
<1>7. QueuesOK' /\ InQueues' = InQueues /\ Older' = Older
  BY <1>3 DEF IInv, QueuesOK, Notified, InQueues, Older
<1>8. CallsOK'
  <2>1. ASSUME NEW i \in DOMAIN stack' PROVE InLoop(stack'[i]) \/ InHandling(stack'[i])
    BY <1>4, <1>5, <1>6 DEF IInv, CallsOK
  <2>. QED BY <1>3, <1>6, <2>1 DEF CallsOK, InLoop, InHandling
<1>9. PlacesOK'
  BY <1>3, <1>7 DEF IInv, PlacesOK
<1>10. ReleasesOK'
  <2>1. ASSUME NEW i \in DOMAIN stack' PROVE EventOf(i)' = EventOf(i)
    BY <1>3, <1>4, <1>5, <1>6 DEF EventOf
  <2>. QED BY <1>3, <1>4, <1>6, <1>7, <2>1 DEF IInv, ReleasesOK
<1>11. OrderOK'
  <2>1. CASE saved
    BY <1>3, <2>1 DEF OrderOK
  <2>2. CASE ~saved
    <3>1. /\ \A i \in DOMAIN stack : stack[i].kind # "handle" => i = 1 /\ LoopOK(stack[i])
          /\ \A d \in IdsIn(Older), x \in IdsIn(queues[front]) : d < x
          /\ \A b \in begun, d \in InQueues : b < d
      BY <2>2 DEF IInv, OrderOK
    <3>2. n = 1 /\ LoopOK(Top)
      BY <1>3, <1>4, <3>1
    <3>3. LoopOK(l)
      BY <1>3, <1>5, <3>2 DEF LoopOK, Older
    <3>4. DOMAIN stack' = {1} /\ stack'[1] = l
      BY <1>6, <3>2
    <3>. QED BY <1>3, <1>5, <1>6, <1>7, <3>1, <3>3, <3>4 DEF OrderOK, LoopOK
  <2>. QED BY <2>1, <2>2
<1>. QED BY <1>7, <1>8, <1>9, <1>10, <1>11 DEF IInv

\* An event taken from a queue: it is handled by the call on top, and by no other.
LEMMA LoopEventStep ==
  ASSUME IInv, LoopPop, queues[Top.q] # <<>>
  PROVE  IInv'
<1>1. PICK q : q = Top.q
  OBVIOUS
<1>2. PICK old : old = queues[q]
  OBVIOUS
<1>3. PICK e : e = Head(old)
  OBVIOUS
<1>4. PICK c : c = Handling(e, Top.kind = "flush")
  OBVIOUS
<1>5. PICK n : n = Len(stack)
  OBVIOUS
<1>6. /\ stack # <<>> /\ Top.kind # "handle" /\ Top.phase = "pop" /\ old # <<>>
      /\ queues' = [queues EXCEPT ![q] = Tail(old)]
      /\ stack' = Append(stack, c)
      /\ begun' = begun \cup {e.id}
      /\ UNCHANGED <<front, now, events, saved, cleared, released>>
  BY <1>1, <1>2, <1>3, <1>4 DEF LoopPop, Popped
<1>7. /\ InLoop(Top) /\ Top = stack[n]
      /\ n \in DOMAIN stack /\ DOMAIN stack = 1 .. n /\ n \in Nat \ {0}
  BY <1>5, <1>6, TopCall DEF InHandling
<1>8. q \in {0, 1} /\ QueuesOK /\ queues \in [{0, 1} -> Seq(Notified)] /\ old \in Seq(Notified)
  BY <1>1, <1>2, <1>7 DEF IInv, QueuesOK, InLoop
<1>9. PICK o \in {0, 1} : o # q /\ \A i \in {0, 1} : i = q \/ i = o
  BY <1>8
<1>10. Sorted(old)
  BY <1>2, <1>8 DEF IInv, PlacesOK
<1>11. /\ Tail(old) \in Seq(Notified) /\ e \in Notified /\ Sorted(Tail(old))
       /\ IdsIn(Tail(old)) = IdsIn(old) \ {e.id} /\ e.id \in IdsIn(old)
       /\ \A d \in IdsIn(Tail(old)) : e.id < d
  BY <1>3, <1>6, <1>8, <1>10, Unqueueing
<1>12. /\ queues'[q] = Tail(old) /\ queues'[o] = queues[o]
       /\ queues' \in [{0, 1} -> Seq(Notified)]
  BY <1>6, <1>8, <1>9, <1>11
<1>13. /\ InQueues = IdsIn(old) \cup IdsIn(queues[o])
       /\ InQueues' = IdsIn(Tail(old)) \cup IdsIn(queues[o])
       /\ IdsIn(old) \cap IdsIn(queues[o]) = {}
  BY <1>2, <1>8, <1>9, <1>12 DEF InQueues, IInv, PlacesOK
<1>14. e.id \in InQueues /\ e.id \in 1 .. Len(events) /\ InQueues' = InQueues \ {e.id}
  BY <1>11, <1>13 DEF IInv, PlacesOK
<1>15. c.kind = "handle" /\ c.ev = e /\ InHandling(c)
  BY <1>4, <1>14, Handles
<1>16. /\ IsSeq(stack') /\ DOMAIN stack' = 1 .. n + 1 /\ stack' # <<>>
       /\ stack'[n + 1] = c
       /\ \A i \in 1 .. n : stack'[i] = stack[i]
  <2>1. IsSeq(stack)
    BY DEF IInv, CallsOK
  <2>. QED BY <1>5, <1>6, <2>1, OneCallMore
<1>17. ASSUME NEW i \in DOMAIN stack'
       PROVE  \/ i \in DOMAIN stack /\ stack'[i] = stack[i]
              \/ i = n + 1 /\ stack'[i] = c
  BY <1>7, <1>16
<1>18. QueuesOK'
  BY <1>6, <1>8, <1>12 DEF QueuesOK
<1>19. CallsOK'
  <2>1. ASSUME NEW i \in DOMAIN stack' PROVE InLoop(stack'[i]) \/ InHandling(stack'[i])
    BY <1>15, <1>17 DEF IInv, CallsOK
  <2>. QED BY <1>6, <1>16, <2>1 DEF CallsOK, InLoop, InHandling
<1>20. PlacesOK'
  <2>1. Sorted(queues'[0]) /\ Sorted(queues'[1])
    BY <1>8, <1>9, <1>11, <1>12 DEF IInv, PlacesOK
  <2>2. IdsIn(queues'[0]) \cap IdsIn(queues'[1]) = {}
    <3>1. IdsIn(queues'[q]) \cap IdsIn(queues'[o]) = {}
      BY <1>11, <1>12, <1>13
    <3>. QED BY <1>8, <1>9, <3>1
  <2>3. InQueues' \cup begun' = InQueues \cup begun
    BY <1>6, <1>14
  <2>4. /\ InQueues' \cap (begun' \cup cleared') = {} /\ begun' \cap cleared' = {}
    BY <1>6, <1>14 DEF IInv, PlacesOK
  <2>5. /\ InQueues' \cup begun' \cup cleared' \subseteq 1 .. Len(events)
        /\ \A x \in DOMAIN events : events[x] => x \in InQueues' \cup begun' \cup cleared'
    BY <1>6, <2>3 DEF IInv, PlacesOK
  <2>. QED BY <1>6, <2>1, <2>2, <2>4, <2>5 DEF PlacesOK
<1>21. ReleasesOK'
  <2>1. ASSUME NEW i \in DOMAIN stack PROVE EventOf(i)' = EventOf(i) /\ EventOf(i) # e.id
    <3>1. EventOf(i)' = EventOf(i)
      BY <1>7, <1>16 DEF EventOf
    <3>2. EventOf(i) # e.id
      BY <1>14 DEF IInv, ReleasesOK
    <3>. QED BY <3>1, <3>2
  <2>2. ASSUME NEW i \in DOMAIN stack', i = n + 1 PROVE EventOf(i)' = e.id
    BY <1>15, <1>16, <2>2 DEF EventOf
  <2>3. \A x \in Ids : released'[x] # 0 => x <= Len(events') /\ x \notin InQueues'
    BY <1>6, <1>14 DEF IInv, ReleasesOK
  <2>4. ASSUME NEW i \in DOMAIN stack', EventOf(i)' # 0
        PROVE  EventOf(i)' \notin InQueues' /\ released[EventOf(i)'] = 0
    <3>1. CASE i \in DOMAIN stack
      BY <1>14, <2>1, <2>4, <3>1 DEF IInv, ReleasesOK
    <3>2. CASE i = n + 1
      <4>1. e.id \in Ids
        BY <1>11 DEF Notified
      <4>2. released[e.id] = 0
        BY <1>14, <4>1 DEF IInv, ReleasesOK
      <4>. QED BY <1>14, <2>2, <3>2, <4>2
    <3>. QED BY <1>17, <3>1, <3>2
  <2>5. ASSUME NEW i \in DOMAIN stack', NEW j \in DOMAIN stack', i # j, EventOf(i)' # 0
        PROVE  EventOf(i)' # EventOf(j)'
    BY <1>17, <2>1, <2>2, <2>5 DEF IInv, ReleasesOK
  <2>. QED BY <1>6, <2>3, <2>4, <2>5 DEF ReleasesOK
<1>22. OrderOK'
  <2>1. CASE saved
    BY <1>6, <2>1 DEF OrderOK
  <2>2. CASE ~saved
    <3>1. /\ \A i \in DOMAIN stack : stack[i].kind # "handle" => i = 1 /\ LoopOK(stack[i])
          /\ \A d \in IdsIn(Older), x \in IdsIn(queues[front]) : d < x
          /\ \A b \in begun, d \in InQueues : b < d
      BY <2>2 DEF IInv, OrderOK
    <3>2. n = 1 /\ LoopOK(Top)
      BY <1>6, <1>7, <3>1
    <3>3. q = 1 - front /\ o = front
      BY <1>1, <1>6, <1>8, <1>9, <3>2, TwoQueues DEF LoopOK
    <3>4. \A i \in DOMAIN stack' : stack'[i].kind # "handle" => i = 1 /\ LoopOK(stack[i])'
      <4>1. ASSUME NEW i \in DOMAIN stack', stack'[i].kind # "handle"
            PROVE  i = 1 /\ stack'[i] = Top
        BY <1>7, <1>15, <1>17, <3>1, <3>2, <4>1
      <4>. QED BY <1>1, <1>6, <3>3, <4>1 DEF LoopOK
    <3>5. stack'[1].kind # "handle"
      BY <1>6, <1>7, <1>16, <3>2
    <3>6. /\ IdsIn(Older)' = IdsIn(Tail(old)) /\ queues'[front'] = queues[front]
          /\ Older = old
      BY <1>2, <1>6, <1>12, <3>3 DEF Older
    <3>7. \A d \in IdsIn(Older)', x \in IdsIn(queues'[front']) : d < x
      BY <1>11, <3>1, <3>6
    <3>8. \A b \in begun', d \in InQueues' : b < d
      <4>1. \A d \in InQueues' : e.id < d
        BY <1>11, <1>13, <3>1, <3>3, <3>6
      <4>. QED BY <1>6, <1>14, <3>1, <4>1
    <3>. QED BY <1>16, <3>4, <3>5, <3>7, <3>8 DEF OrderOK
  <2>. QED BY <2>1, <2>2
<1>. QED BY <1>18, <1>19, <1>20, <1>21, <1>22 DEF IInv

\* A flush goes on with the other queue.
LEMMA FlushOnStep ==
  ASSUME IInv, LoopAgain, Top.kind = "flush", Queued
  PROVE  IInv'
<1>1. PICK l : l = Loop("flush", front)
  OBVIOUS
<1>2. PICK n : n = Len(stack)
  OBVIOUS
<1>3. /\ stack # <<>> /\ Top.phase = "again"
      /\ stack' = WithTop(l) /\ front' = 1 - front
      /\ UNCHANGED <<queues, now, events, saved, begun, cleared, released>>
  BY <1>1 DEF LoopAgain, histVars
<1>4. Top = stack[n] /\ n \in DOMAIN stack /\ DOMAIN stack = 1 .. n /\ n \in Nat \ {0}
  BY <1>2, <1>3, TopCall
<1>5. /\ DOMAIN l = {"kind", "q", "phase"} /\ l.kind = "flush" /\ l.q = front
      /\ l.phase = "start" /\ front \in {0, 1} /\ InLoop(l)
  BY <1>1 DEF Loop, InLoop, IInv, QueuesOK
<1>6. /\ IsSeq(stack') /\ DOMAIN stack' = 1 .. n /\ stack' # <<>> /\ stack'[n] = l
      /\ \A i \in 1 .. n : i # n => stack'[i] = stack[i]
  <2>1. IsSeq(stack)
    BY DEF IInv, CallsOK
  <2>. QED BY <1>2, <1>3, <2>1, NewTop DEF WithTop
<1>7. QueuesOK' /\ InQueues' = InQueues
  BY <1>3 DEF IInv, QueuesOK, Notified, InQueues
<1>8. CallsOK'
  <2>1. ASSUME NEW i \in DOMAIN stack' PROVE InLoop(stack'[i]) \/ InHandling(stack'[i])
    BY <1>4, <1>5, <1>6 DEF IInv, CallsOK
  <2>. QED BY <1>3, <1>6, <2>1 DEF CallsOK, InLoop, InHandling
<1>9. PlacesOK'
  BY <1>3, <1>7 DEF IInv, PlacesOK
<1>10. ReleasesOK'
  <2>1. ASSUME NEW i \in DOMAIN stack' PROVE EventOf(i)' = EventOf(i)
    BY <1>3, <1>4, <1>5, <1>6 DEF EventOf
  <2>. QED BY <1>3, <1>4, <1>6, <1>7, <2>1 DEF IInv, ReleasesOK
<1>11. OrderOK'
  <2>1. CASE saved
    BY <1>3, <2>1 DEF OrderOK
  <2>2. CASE ~saved
    <3>1. /\ \A i \in DOMAIN stack : stack[i].kind # "handle" => i = 1 /\ LoopOK(stack[i])
          /\ \A b \in begun, d \in InQueues : b < d
      BY <2>2 DEF IInv, OrderOK
    <3>2. n = 1 /\ Older = <<>>
      BY <1>3, <1>4, <3>1 DEF LoopOK
    <3>3. DOMAIN stack' = {1} /\ stack'[1] = l
      BY <1>6, <3>2
    <3>4. IdsIn(queues'[front']) = {} /\ 1 - front' = front
      BY <1>3, <1>5, <3>2, EmptyQueue DEF Older
    <3>5. LoopOK(l)'
      BY <1>5, <3>4 DEF LoopOK
    <3>6. \A i \in DOMAIN stack' : i = 1 /\ LoopOK(stack[i])'
      BY <1>5, <3>3, <3>4 DEF LoopOK
    <3>. QED BY <1>3, <1>5, <1>6, <1>7, <3>1, <3>3, <3>4, <3>6 DEF OrderOK
  <2>. QED BY <2>1, <2>2
<1>. QED BY <1>7, <1>8, <1>9, <1>10, <1>11 DEF IInv

\* A call returns, and what it released, if anything, is its own event.
LEMMA Returned ==
  ASSUME IInv, stack # <<>>, stack' = Front(stack), released' \in [Ids -> Nat],
         \A e \in Ids : released'[e] = released[e] \/ (Top.kind = "handle" /\ e = Top.ev.id),
         ~saved => Len(stack) # 1 \/ Older = <<>>,
         UNCHANGED <<queues, front, now, events, saved, begun, cleared>>
  PROVE  IInv'
<1>1. PICK n : n = Len(stack)
  OBVIOUS
<1>2. /\ Top = stack[n] /\ n \in DOMAIN stack /\ DOMAIN stack = 1 .. n /\ n \in Nat \ {0}
      /\ InLoop(Top) \/ InHandling(Top)
  BY <1>1, TopCall
<1>3. /\ IsSeq(stack') /\ DOMAIN stack' = 1 .. n - 1 /\ (stack' = <<>> <=> n = 1)
      /\ \A i \in 1 .. n - 1 : stack'[i] = stack[i]
  <2>1. IsSeq(stack)
    BY DEF IInv, CallsOK
  <2>. QED BY <1>1, <2>1, OneCallLess
<1>4. ASSUME NEW i \in DOMAIN stack' PROVE i \in DOMAIN stack /\ i # n /\ stack'[i] = stack[i]
  BY <1>2, <1>3
<1>5. QueuesOK' /\ InQueues' = InQueues /\ Older' = Older
  BY DEF IInv, QueuesOK, Notified, InQueues, Older
<1>6. CallsOK'
  BY <1>3, <1>4 DEF IInv, CallsOK, InLoop, InHandling
<1>7. PlacesOK'
  BY <1>5 DEF IInv, PlacesOK
<1>8. ReleasesOK'
  <2>1. ASSUME NEW i \in DOMAIN stack'
        PROVE  EventOf(i)' = EventOf(i) /\ (EventOf(i) # 0 => EventOf(i) # EventOf(n))
    <3>1. EventOf(i)' = EventOf(i)
      BY <1>4 DEF EventOf
    <3>2. EventOf(i) # 0 => EventOf(i) # EventOf(n)
      BY <1>2, <1>4 DEF IInv, ReleasesOK
    <3>. QED BY <3>1, <3>2
  <2>2. ASSUME NEW e \in Ids, released'[e] # released[e]
        PROVE  e = EventOf(n) /\ e <= Len(events) /\ e \notin InQueues
    <3>1. e = EventOf(n) /\ e # 0 /\ Top.kind = "handle"
      BY <1>2, <2>2 DEF EventOf
    <3>2. e \in 0 .. Len(events)
      BY <1>2, <3>1 DEF EventOf, InHandling, InLoop
    <3>3. e \notin InQueues
      BY <1>2, <3>1 DEF IInv, ReleasesOK
    <3>. QED BY <3>1, <3>2, <3>3
  <2>3. \A e \in Ids : released'[e] # 0 => e <= Len(events') /\ e \notin InQueues'
    BY <1>5, <2>2 DEF IInv, ReleasesOK
  <2>4. ASSUME NEW i \in DOMAIN stack', EventOf(i)' # 0
        PROVE  EventOf(i)' \notin InQueues' /\ released'[EventOf(i)'] = 0
    <3>1. EventOf(i) \notin InQueues /\ released[EventOf(i)] = 0 /\ EventOf(i) # 0
      BY <1>4, <2>1, <2>4 DEF IInv, ReleasesOK
    <3>2. EventOf(i) \in Ids
      BY <1>4, <3>1 DEF IInv, CallsOK, QueuesOK, InLoop, InHandling, EventOf
    <3>. QED BY <1>5, <2>1, <2>2, <3>1, <3>2
  <2>5. ASSUME NEW i \in DOMAIN stack', NEW j \in DOMAIN stack', i # j, EventOf(i)' # 0
        PROVE  EventOf(i)' # EventOf(j)'
    BY <1>4, <2>1, <2>5 DEF IInv, ReleasesOK
  <2>. QED BY <2>3, <2>4, <2>5 DEF ReleasesOK
<1>9. OrderOK'
  <2>1. CASE saved
    BY <2>1 DEF OrderOK
  <2>2. CASE ~saved
    <3>1. /\ \A i \in DOMAIN stack : stack[i].kind # "handle" => i = 1 /\ LoopOK(stack[i])
          /\ stack = <<>> \/ stack[1].kind = "handle" => Older = <<>>
          /\ \A d \in IdsIn(Older), x \in IdsIn(queues[front]) : d < x
          /\ \A b \in begun, d \in InQueues : b < d
      BY <2>2 DEF IInv, OrderOK
    <3>2. stack' = <<>> \/ stack'[1].kind = "handle" => Older = <<>>
      <4>1. CASE n = 1
        BY <1>1, <2>2, <4>1
      <4>2. CASE n # 1
        BY <1>2, <1>3, <3>1, <4>2
      <4>. QED BY <4>1, <4>2
    <3>3. \A i \in DOMAIN stack' : stack'[i].kind # "handle" => i = 1 /\ LoopOK(stack[i])'
      BY <1>4, <3>1 DEF LoopOK, Older
    <3>. QED BY <1>5, <3>1, <3>2, <3>3 DEF OrderOK
  <2>. QED BY <2>1, <2>2
<1>. QED BY <1>5, <1>6, <1>7, <1>8, <1>9 DEF IInv

\* A loop that ends leaves the other queue empty.
LEMMA LoopAgainStep ==
  ASSUME IInv, LoopAgain
  PROVE  IInv'
<1>1. CASE Top.kind = "flush" /\ Queued
  BY <1>1, FlushOnStep
<1>2. CASE ~(Top.kind = "flush" /\ Queued)
  <2>1. /\ stack # <<>> /\ Top.kind # "handle" /\ Top.phase = "again"
        /\ stack' = Front(stack)
        /\ UNCHANGED <<queues, front, now, events, saved, begun, cleared, released>>
    BY <1>2 DEF LoopAgain, histVars
  <2>2. ~saved => Older = <<>>
    BY <2>1, TopCall DEF IInv, OrderOK, LoopOK
  <2>3. released' \in [Ids -> Nat]
    BY <2>1 DEF IInv, QueuesOK
  <2>. QED BY <2>1, <2>2, <2>3, Returned
<1>. QED BY <1>1, <1>2
-----------------------------------------------------------------------------
(* e_handle_event *)

\* A call goes on with the same event.
LEMMA GoesOn ==
  ASSUME IInv, stack # <<>>, Top.kind = "handle", NEW c, InHandling(c), c.ev = Top.ev,
         stack' = WithTop(c),
         UNCHANGED <<queues, front, now, events, saved, begun, cleared, released>>
  PROVE  IInv'
<1>1. PICK n : n = Len(stack)
  OBVIOUS
<1>2. /\ Top = stack[n] /\ n \in DOMAIN stack /\ DOMAIN stack = 1 .. n /\ n \in Nat \ {0}
      /\ c.kind = "handle"
  BY <1>1, TopCall DEF InHandling
<1>3. /\ IsSeq(stack') /\ DOMAIN stack' = 1 .. n /\ stack' # <<>> /\ stack'[n] = c
      /\ \A i \in 1 .. n : i # n => stack'[i] = stack[i]
  <2>1. IsSeq(stack)
    BY DEF IInv, CallsOK
  <2>. QED BY <1>1, <2>1, NewTop DEF WithTop
<1>4. QueuesOK' /\ InQueues' = InQueues /\ Older' = Older
  BY DEF IInv, QueuesOK, Notified, InQueues, Older
<1>5. CallsOK'
  <2>1. ASSUME NEW i \in DOMAIN stack' PROVE InLoop(stack'[i]) \/ InHandling(stack'[i])
    BY <1>2, <1>3 DEF IInv, CallsOK
  <2>. QED BY <1>3, <2>1 DEF CallsOK, InLoop, InHandling
<1>6. PlacesOK'
  BY <1>4 DEF IInv, PlacesOK
<1>7. ReleasesOK'
  <2>1. ASSUME NEW i \in DOMAIN stack' PROVE EventOf(i)' = EventOf(i)
    BY <1>2, <1>3 DEF EventOf
  <2>. QED BY <1>2, <1>3, <1>4, <2>1 DEF IInv, ReleasesOK
<1>8. OrderOK'
  <2>1. ASSUME NEW i \in DOMAIN stack'
        PROVE  stack'[i].kind = stack[i].kind /\ (stack[i].kind # "handle" => stack'[i] = stack[i])
    BY <1>2, <1>3
  <2>2. 1 \in DOMAIN stack' /\ DOMAIN stack' = DOMAIN stack
    BY <1>2, <1>3
  <2>. QED BY <1>3, <1>4, <2>1, <2>2 DEF IInv, OrderOK, LoopOK
<1>. QED BY <1>4, <1>5, <1>6, <1>7, <1>8 DEF IInv

\* A handler is chosen, and returns.
LEMMA HandleSteps ==
  ASSUME IInv, (\E h \in Handlers : Execute(h) \/ WeakrefDied(h)) \/ Return
  PROVE  IInv'
<1>1. ASSUME NEW h \in Handlers, NEW d, InHandling(d), d.ev = Top.ev, Select(h, d),
             UNCHANGED <<queues, front, now, running, zombie, histVars, released>>
      PROVE  IInv'
  <2>1. PICK c : c = [d EXCEPT !.curr = Fetched(Top), !.memo = @ \cup ToSet(PassedOver(Top))]
    OBVIOUS
  <2>2. InHandling(c) /\ c.ev = d.ev
    BY <1>1, <2>1 DEF InHandling
  <2>3. stack # <<>> /\ Top.kind = "handle" /\ stack' = WithTop(c)
    BY <1>1, <2>1 DEF Select, InKind
  <2>. QED BY <1>1, <2>2, <2>3, GoesOn DEF histVars
<1>2. stack # <<>> /\ Top.kind = "handle" => InHandling(Top)
  BY TopCall
<1>3. ASSUME NEW h \in Handlers, Execute(h) PROVE IInv'
  <2>1. PICK d : d = [Top EXCEPT !.cur = h, !.ran = @ \cup {h}]
    OBVIOUS
  <2>2. InHandling(Top) /\ Select(h, d)
    BY <1>2, <1>3, <2>1 DEF Execute, Select, InKind
  <2>3. InHandling(d) /\ d.ev = Top.ev
    BY <2>1, <2>2 DEF InHandling
  <2>. QED BY <1>1, <1>3, <2>2, <2>3 DEF Execute
<1>4. ASSUME NEW h \in Handlers, WeakrefDied(h) PROVE IInv'
  <2>1. InHandling(Top) /\ Select(h, Top)
    BY <1>2, <1>4 DEF WeakrefDied, Select, InKind
  <2>. QED BY <1>1, <1>4, <2>1 DEF WeakrefDied
<1>5. CASE Return
  <2>1. PICK c : c = [Top EXCEPT !.cur = None]
    OBVIOUS
  <2>2. /\ stack # <<>> /\ Top.kind = "handle" /\ stack' = WithTop(c)
        /\ UNCHANGED <<queues, front, now, histVars, released>>
    BY <1>5, <2>1 DEF Return, InKind
  <2>3. InHandling(c) /\ c.ev = Top.ev
    BY <1>2, <2>1, <2>2 DEF InHandling
  <2>. QED BY <2>2, <2>3, GoesOn DEF histVars
<1>. QED BY <1>3, <1>4, <1>5

\* The last one has been executed; the event is released.
LEMMA HandleDoneStep ==
  ASSUME IInv, HandleDone
  PROVE  IInv'
<1>1. /\ stack # <<>> /\ Top.kind = "handle" /\ stack' = Front(stack)
      /\ released' = IF Releases(Top) THEN [released EXCEPT ![Top.ev.id] = @ + 1] ELSE released
      /\ UNCHANGED <<queues, front, now, events, saved, begun, cleared>>
  BY DEF HandleDone, InKind, histVars
<1>2. released \in [Ids -> Nat]
  BY DEF IInv, QueuesOK
<1>3. /\ released' \in [Ids -> Nat]
      /\ \A e \in Ids : released'[e] = released[e] \/ e = Top.ev.id
  <2>1. PICK x : x = Top.ev.id
    OBVIOUS
  <2>2. CASE x \in Ids
    BY <1>1, <1>2, <2>1, <2>2
  <2>3. CASE x \notin Ids
    BY <1>1, <1>2, <2>1, <2>3
  <2>. QED BY <2>2, <2>3
<1>4. ~saved => Len(stack) # 1 \/ Older = <<>>
  BY <1>1, TopCall DEF IInv, OrderOK
<1>. QED BY <1>1, <1>3, <1>4, Returned
-----------------------------------------------------------------------------
(* The theorems *)

\* Nothing has been notified.
LEMMA InitOK == Init => IInv
<1> SUFFICES ASSUME Init PROVE IInv
  OBVIOUS
<1>1. queues[0] = <<>> /\ queues[1] = <<>> /\ InQueues = {} /\ queues[1 - front] = <<>>
  BY EmptyQueue DEF Init, InQueues
<1>2. CallsOK
  <2>1. IsSeq(<<>>)
    BY EmptyQueue, AnySeq
  <2>. QED BY <2>1 DEF Init, CallsOK
<1>3. QueuesOK
  <2>1. queues \in [{0, 1} -> Seq(Notified)] /\ released \in [Ids -> Nat]
    BY EmptyQueue DEF Init
  <2>2. events \in Seq(BOOLEAN) /\ Len(events) <= MaxEvents
    BY DEF Init
  <2>3. front = 0 /\ saved = FALSE /\ now = 0 /\ 0 \in 0 .. MaxNow
    BY DEF Init
  <2>. QED BY <2>1, <2>2, <2>3 DEF QueuesOK
<1>4. PlacesOK
  BY <1>1, EmptyQueue DEF Init, PlacesOK
<1>5. ReleasesOK
  BY <1>1 DEF Init, ReleasesOK
<1>6. OrderOK
  BY <1>1, EmptyQueue DEF Init, OrderOK, Older
<1>. QED BY <1>2, <1>3, <1>4, <1>5, <1>6 DEF IInv

\* Every action keeps IInv.
LEMMA Inductive == IInv /\ [Next]_vars => IInv'
<1> SUFFICES ASSUME IInv, [Next]_vars PROVE IInv'
  OBVIOUS
<1>1. CASE UNCHANGED vars
  BY <1>1, AsideSteps
<1>2. CASE Step
  BY <1>2, LoopFrameEventStep, LoopEmptyStep, LoopEventStep, LoopAgainStep, HandleSteps,
     HandleDoneStep DEF Step
<1>3. CASE Calls
  <2>1. ASSUME NEW k \in {"global", "entity"}, NEW script \in BOOLEAN,
               Notify(k, script) \/ NotifyImmediate(k, script)
        PROVE  IInv'
    BY <2>1, NotifyStep, NotifyImmediateStep DEF Keys
  <2>. QED BY <1>3, <2>1, AsideSteps, FlushStep DEF Calls
<1>4. CASE ServiceQueue \/ ClearPendingEvents
  BY <1>4, ServiceQueueStep, ClearStep
<1>5. CASE DeleteScriptHandlers \/ Tick \/ SetSimState
  BY <1>5, AsideSteps
<1>. QED BY <1>1, <1>2, <1>3, <1>4, <1>5 DEF Next

\* IInv holds throughout, whatever the handlers do.
THEOREM Invariance == Spec => []IInv
BY InitOK, Inductive, PTL DEF Spec

\* Events are taken from the queues in the order in which they were notified, and a
\* queue that is serviced does not grow, unless a handler saved the session.
THEOREM FramesInOrderHolds == Spec => []FramesInOrder
<1>1. IInv => FramesInOrder
  <2> SUFFICES ASSUME IInv, ~saved PROVE InOrder /\ NextFrame
    BY DEF FramesInOrder
  <2>1. /\ \A i \in DOMAIN stack : stack[i].kind # "handle" => i = 1 /\ LoopOK(stack[i])
        /\ \A b \in begun, d \in InQueues : b < d
        /\ front \in {0, 1}
    BY DEF IInv, OrderOK, QueuesOK
  <2>2. InOrder
    <3>1. ASSUME NEW i \in {0, 1}, NEW d \in ToSet(queues[i]) PROVE d.id \in InQueues
      BY DEF ToSet, InQueues, IdsIn
    <3>. QED BY <2>1, <3>1 DEF InOrder
  <2>3. NextFrame
    BY <2>1 DEF NextFrame, LoopOK
  <2>. QED BY <2>2, <2>3
<1>. QED BY <1>1, Invariance, PTL

\* The argument of a script's event lives as long as a call that would pass it on.
THEOREM NotReleasedEarlyHolds == Spec => []NotReleasedEarly
<1>1. IInv => NotReleasedEarly
  BY DEF IInv, ReleasesOK, EventOf, NotReleasedEarly
<1>. QED BY <1>1, Invariance, PTL

\* An event that was queued is in one place: once in one of the queues, or taken from
\* it, or cleared from it.
THEOREM NoneLostHolds == Spec => []NoneLost
<1>1. IInv => NoneLost
  <2> SUFFICES ASSUME IInv PROVE NoneLost
    OBVIOUS
  <2>1. /\ begun \cap cleared = {} /\ InQueues \cap (begun \cup cleared) = {}
        /\ IdsIn(queues[0]) \cap IdsIn(queues[1]) = {}
        /\ \A e \in DOMAIN events : events[e] => e \in InQueues \cup begun \cup cleared
        /\ Sorted(queues[0]) /\ Sorted(queues[1])
        /\ queues \in [{0, 1} -> Seq(Notified)]
    BY DEF IInv, PlacesOK, QueuesOK
  <2>2. Cardinality({}) = 0 /\ \A x : Cardinality({x}) = 1
    BY FS_EmptySet, FS_Singleton
  <2>3. ASSUME NEW e \in DOMAIN events, events[e]
        PROVE  Cardinality(Waiting(e))
                 + Cardinality({e} \cap begun) + Cardinality({e} \cap cleared) = 1
    <3>1. Waiting(e) = {i \in {0, 1} : e \in IdsIn(queues[i])}
      BY DEF Waiting, IdsIn
    <3>2. CASE e \in InQueues
      <4>1. PICK i \in {0, 1} : Waiting(e) = {i}
        <5>1. CASE e \in IdsIn(queues[0])
          BY <2>1, <3>1, <5>1
        <5>2. CASE e \in IdsIn(queues[1])
          BY <2>1, <3>1, <5>2
        <5>. QED BY <3>2, <5>1, <5>2 DEF InQueues
      <4>2. {e} \cap begun = {} /\ {e} \cap cleared = {}
        BY <2>1, <3>2
      <4>3. Cardinality(Waiting(e)) = 1
        BY <2>2, <4>1
      <4>. QED BY <2>2, <4>2, <4>3
    <3>3. CASE e \notin InQueues
      <4>1. Waiting(e) = {}
        BY <3>1, <3>3 DEF InQueues
      <4>2. \/ {e} \cap begun = {e} /\ {e} \cap cleared = {}
            \/ {e} \cap begun = {} /\ {e} \cap cleared = {e}
        BY <2>1, <2>3, <3>3
      <4>3. Cardinality(Waiting(e)) = 0 /\ Cardinality({e}) = 1
        BY <2>2, <4>1
      <4>4. CASE {e} \cap begun = {e} /\ {e} \cap cleared = {}
        BY <2>2, <4>3, <4>4
      <4>5. CASE {e} \cap begun = {} /\ {e} \cap cleared = {e}
        BY <2>2, <4>3, <4>5
      <4>. QED BY <4>2, <4>4, <4>5
    <3>. QED BY <3>2, <3>3
  <2>4. ASSUME NEW i \in {0, 1}, NEW j \in DOMAIN queues[i], NEW k \in DOMAIN queues[i],
               queues[i][j].id = queues[i][k].id
        PROVE  j = k
    <3>1. Sorted(queues[i]) /\ DOMAIN queues[i] = 1 .. Len(queues[i]) /\ Len(queues[i]) \in Nat
      BY <2>1
    <3>2. j \in Nat /\ k \in Nat /\ queues[i][j].id \in Nat
      <4>1. queues[i][j] \in Notified
        BY <2>1
      <4>. QED BY <3>1, <4>1 DEF Notified
    <3>3. ~(j < k) /\ ~(k < j)
      BY <2>4, <3>1, <3>2 DEF Sorted
    <3>. QED BY <3>2, <3>3
  <2>. QED BY <2>3, <2>4 DEF NoneLost
<1>. QED BY <1>1, Invariance, PTL
-----------------------------------------------------------------------------
(* The handlers of a key *)

OnceEach(s) == \A i, j \in DOMAIN s : s[i] = s[j] => i = j
Row(k) == {s \in Seq(Handlers) : OnceEach(s) /\ \A i \in DOMAIN s : Key[s[i]] = k}

\* There are no more of them than there are handlers.
LEMMA RowLength ==
  ASSUME NEW k, NEW s \in Row(k)
  PROVE  Len(s) <= Cardinality(Handlers) /\ s \in SeqOf(Handlers, Cardinality(Handlers))
<1>1. /\ Len(s) \in Nat /\ DOMAIN s = 1 .. Len(s)
      /\ s \in [1 .. Len(s) -> Handlers] /\ OnceEach(s)
  BY DEF Row
<1>2. IsInjective(s)
  BY <1>1 DEF OnceEach, IsInjective
<1>3. s \in Injection(1 .. Len(s), Handlers)
  BY <1>1, <1>2 DEF Injection, OnceEach
<1>4. Cardinality(1 .. Len(s)) = Len(s) /\ IsFiniteSet(1 .. Len(s))
  BY <1>1, FS_Interval
<1>5. Cardinality(1 .. Len(s)) <= Cardinality(Handlers)
  BY <1>3, <1>4, FS_Injection DEF ExistsInjection
<1>6. Cardinality(Handlers) \in Nat
  BY FS_CardinalityType
<1>. QED BY <1>1, <1>4, <1>5, <1>6 DEF SeqOf

\* One is deleted: the last takes its place.
LEMMA DeletedOne ==
  ASSUME NEW k, NEW s \in Row(k), NEW i \in DOMAIN s
  PROVE  /\ DOMAIN s = 1 .. Len(s) /\ Len(s) \in Nat /\ i <= Len(s)
         /\ Deleted(s, i) \in Seq(Handlers)
         /\ DOMAIN Deleted(s, i) = 1 .. Len(s) - 1
         /\ \A j \in 1 .. Len(s) - 1 : Deleted(s, i)[j] = IF j = i THEN s[Len(s)] ELSE s[j]
<1> DEFINE n == Len(s)
           x == Last(s)
           e == [s EXCEPT ![i] = x]
           t == SubSeq(e, 1, n - 1)
<1>1. n \in Nat \ {0} /\ DOMAIN s = 1 .. n /\ s \in Seq(Handlers)
  BY DEF Row
<1>2. x = s[n] /\ x \in Handlers
  BY <1>1 DEF Last
<1>3. /\ e \in Seq(Handlers) /\ Len(e) = n
      /\ \A j \in 1 .. n : e[j] = IF j = i THEN x ELSE s[j]
  <2> HIDE DEF x
  <2>. QED BY <1>1, <1>2, ExceptSeq
<1> HIDE DEF e
<1>4. /\ t \in Seq(Handlers) /\ Len(t) = n - 1 /\ DOMAIN t = 1 .. n - 1
      /\ \A j \in 1 .. n - 1 : t[j] = e[j]
  BY <1>1, <1>3
<1>5. Deleted(s, i) = t
  BY DEF Deleted, e
<1> HIDE DEF t, n, x
<1>. QED BY <1>1, <1>2, <1>3, <1>4, <1>5 DEF n

\* One is deleted: the last takes its place, the others stay, each of them once.
LEMMA RowDelete ==
  ASSUME NEW k, NEW s \in Row(k), NEW i \in Nat
  PROVE  /\ Deleted(s, i) \in Row(k)
         /\ i \in DOMAIN s => ToSet(Deleted(s, i)) = ToSet(s) \ {s[i]}
<1> DEFINE n == Len(s)
           e == [s EXCEPT ![i] = Last(s)]
           t == SubSeq(e, 1, n - 1)
<1>1. n \in Nat /\ DOMAIN s = 1 .. n /\ s \in Seq(Handlers) /\ OnceEach(s)
      /\ \A j \in 1 .. n : Key[s[j]] = k
  BY DEF Row
<1>2. CASE n = 0
  <2>1. s = <<>> /\ e = <<>>
    BY <1>1, <1>2
  <2>2. t = <<>>
    BY <1>2, <2>1
  <2>3. <<>> \in Row(k)
    BY DEF Row, OnceEach
  <2>4. Deleted(s, i) = t
    BY DEF Deleted
  <2>5. DOMAIN s = {}
    BY <1>1, <1>2
  <2> HIDE DEF t, n
  <2>. QED BY <2>2, <2>3, <2>4, <2>5
<1>3. CASE n # 0
  <2>1. Last(s) = s[n] /\ n \in 1 .. n
    BY <1>1, <1>3 DEF Last
  <2>2. e \in Seq(Handlers) /\ Len(e) = n /\ DOMAIN e = 1 .. n
        /\ \A j \in 1 .. n : e[j] = IF j = i THEN s[n] ELSE s[j]
    <3>1. PICK x \in Handlers : x = Last(s)
      BY <1>1, <2>1
    <3> DEFINE d == [s EXCEPT ![i] = x]
    <3>2. e = d /\ x = s[n]
      BY <2>1, <3>1
    <3>3. d \in Seq(Handlers)
      <4>1. CASE i \in 1 .. n
        BY <1>1, <3>1, <4>1, ExceptSeq
      <4>2. CASE i \notin 1 .. n
        <5>1. d = [j \in 1 .. n |-> s[j]]
          BY <1>1, <4>2
        <5>2. s = [j \in 1 .. n |-> s[j]]
          BY <1>1
        <5>. QED BY <1>1, <5>1, <5>2
      <4>. QED BY <4>1, <4>2
    <3>4. Len(d) = n /\ DOMAIN d = 1 .. n
      BY <1>1
    <3>5. \A j \in 1 .. n : d[j] = IF j = i THEN x ELSE s[j]
      BY <1>1
    <3> HIDE DEF d, e
    <3>. QED BY <3>2, <3>3, <3>4, <3>5
  <2> HIDE DEF e
  <2>3. /\ t \in Seq(Handlers) /\ Len(t) = n - 1 /\ DOMAIN t = 1 .. n - 1
        /\ \A j \in 1 .. n - 1 : t[j] = e[j]
    BY <1>1, <1>3, <2>2
  <2> HIDE DEF t, n
  <2>4. \A j \in 1 .. n - 1 : j \in 1 .. n /\ j # n /\ t[j] = IF j = i THEN s[n] ELSE s[j]
    BY <1>1, <2>2, <2>3
  <2>5. t \in Row(k)
    <3>1. OnceEach(t)
      BY <1>1, <2>1, <2>3, <2>4 DEF OnceEach
    <3>. QED BY <1>1, <2>1, <2>3, <2>4, <3>1 DEF Row
  <2>6. ASSUME i \in DOMAIN s PROVE ToSet(t) = ToSet(s) \ {s[i]}
    <3>1. ASSUME NEW x \in ToSet(t) PROVE x \in ToSet(s) /\ x # s[i]
      <4>1. PICK j \in 1 .. n - 1 : x = t[j]
        BY <2>3 DEF ToSet
      <4>. QED BY <1>1, <2>1, <2>4, <2>6, <4>1 DEF ToSet, OnceEach
    <3>2. ASSUME NEW x \in ToSet(s), x # s[i] PROVE x \in ToSet(t)
      <4>1. PICK j \in 1 .. n : x = s[j]
        BY <1>1 DEF ToSet
      <4>2. CASE j = n
        <5>1. i \in 1 .. n - 1 /\ t[i] = x
          BY <1>1, <2>4, <2>6, <3>2, <4>1, <4>2
        <5>. QED BY <2>3, <5>1 DEF ToSet
      <4>3. CASE j # n
        <5>1. j \in 1 .. n - 1 /\ t[j] = x
          BY <1>1, <2>4, <3>2, <4>1, <4>3
        <5>. QED BY <2>3, <5>1 DEF ToSet
      <4>. QED BY <4>2, <4>3
    <3>. QED BY <3>1, <3>2
  <2>7. Deleted(s, i) = t
    BY DEF Deleted, t, e, n
  <2>. QED BY <2>5, <2>6, <2>7
<1>. QED BY <1>2, <1>3

\* The first of a sequence that is in a set of places, or none.
LEMMA FirstPlace ==
  ASSUME NEW s \in Seq(Handlers), NEW I, I \subseteq DOMAIN s,
         NEW n, n = IF I # {} THEN Min(I) ELSE 0
  PROVE  /\ n \in Nat
         /\ n = 0 <=> I = {}
         /\ n # 0 => n \in DOMAIN s /\ n \in I /\ \A j \in I : n <= j
<1>1. I \subseteq Nat /\ 0 \notin I
  OBVIOUS
<1>2. I # {} => Min(I) \in I /\ \A i \in I : Min(I) <= i
  BY <1>1, LeastNumber
<1>. QED BY <1>1, <1>2

\* The handler that is chosen is fresh and eligible, and no earlier one is.
LEMMA ChosenFirst ==
  ASSUME NEW c, Fetched(c) \in Seq(Handlers)
  PROVE  /\ Chosen(c) = 0 =>
              \A h \in ToSet(Fetched(c)) : ~(Fresh(c, h) /\ Eligible(c, h))
         /\ Chosen(c) # 0 =>
              /\ Chosen(c) \in DOMAIN Fetched(c)
              /\ Fresh(c, Fetched(c)[Chosen(c)]) /\ Eligible(c, Fetched(c)[Chosen(c)])
              /\ \A j \in DOMAIN Fetched(c) : j < Chosen(c) =>
                   ~(Fresh(c, Fetched(c)[j]) /\ Eligible(c, Fetched(c)[j]))
<1> DEFINE s == Fetched(c)
           I == {i \in 1 .. Len(s) : Fresh(c, s[i]) /\ Eligible(c, s[i])}
<1>1. Chosen(c) = IF I # {} THEN Min(I) ELSE 0
  BY DEF Chosen, SelectInSeq
<1>2. DOMAIN s = 1 .. Len(s) /\ I \subseteq DOMAIN s /\ Len(s) \in Nat
  OBVIOUS
<1>3. /\ Chosen(c) \in Nat
      /\ Chosen(c) = 0 <=> I = {}
      /\ Chosen(c) # 0 => Chosen(c) \in DOMAIN s /\ Chosen(c) \in I /\ \A j \in I : Chosen(c) <= j
  <2> HIDE DEF I, s
  <2>. QED BY <1>1, <1>2, FirstPlace DEF s
<1>4. ASSUME NEW h \in ToSet(s), Chosen(c) = 0 PROVE ~(Fresh(c, h) /\ Eligible(c, h))
  BY <1>2, <1>3, <1>4 DEF ToSet
<1>5. ASSUME NEW j \in DOMAIN s, j < Chosen(c), Chosen(c) # 0
      PROVE  ~(Fresh(c, s[j]) /\ Eligible(c, s[j]))
  <2>1. j \notin I
    <3> HIDE DEF I, s
    <3>. QED BY <1>2, <1>3, <1>5
  <2>. QED BY <1>2, <2>1
<1>. QED BY <1>3, <1>4, <1>5

\* A handler that is unregistered is registered no more, and the others still are.
LEMMA Delisted ==
  ASSUME NEW h \in Handlers, table \in [Keys -> Seq(Handlers)],
         \A k \in Keys : table[k] \in Row(k), Delist(h)
  PROVE  /\ table' \in [Keys -> Seq(Handlers)]
         /\ \A k \in Keys : table'[k] \in Row(k) /\ ToSet(table'[k]) = ToSet(table[k]) \ {h}
<1> DEFINE k == Key[h]
           s == table[k]
           I == {i \in 1 .. Len(s) : s[i] = h}
           n == IF I # {} THEN Min(I) ELSE 0
<1>1. k \in Keys
  OBVIOUS
<1>2. table' = [table EXCEPT ![k] = Deleted(s, n)] /\ h \in ToSet(s)
  BY DEF Delist, SelectInSeq
<1>3. s \in Seq(Handlers) /\ DOMAIN s = 1 .. Len(s) /\ I \subseteq DOMAIN s /\ I # {}
  <2>1. s \in Seq(Handlers)
    BY <1>1
  <2>2. h \in ToSet(s)
    BY <1>2
  <2> HIDE DEF s
  <2>. QED BY <2>1, <2>2 DEF ToSet
<1>4. n \in Nat /\ n \in DOMAIN s /\ n \in I
  <2> HIDE DEF I, s
  <2>1. PICK m : m = n
    OBVIOUS
  <2>. QED BY <1>3, <2>1, FirstPlace
<1>5. s[n] = h
  <2> HIDE DEF n
  <2>. QED BY <1>4
<1> HIDE DEF I, n
<1>6. Deleted(s, n) \in Row(k) /\ ToSet(Deleted(s, n)) = ToSet(s) \ {h}
  BY <1>1, <1>4, <1>5, RowDelete
<1>7. \A j \in Keys : j # k => h \notin ToSet(table[j])
  <2>1. ASSUME NEW j \in Keys, NEW i \in DOMAIN table[j] PROVE Key[table[j][i]] = j
    BY DEF Row
  <2>. QED BY <1>1, <2>1 DEF ToSet
<1>8. Deleted(s, n) \in Seq(Handlers)
  BY <1>6 DEF Row
<1>. QED BY <1>2, <1>6, <1>7, <1>8

\* What E_DeleteScriptHandlers leaves of the handlers of a key: all but the scripts'.
\* It goes from the last to the first, so that what moves into a gap was seen before.
LEMMA EngineRow ==
  ASSUME NEW k, NEW s \in Row(k)
  PROVE  EngineOnly(s) \in Row(k) /\ ToSet(EngineOnly(s)) = ToSet(s) \ Script
<1> DEFINE id == [i \in DOMAIN s |-> i]
           D == DOMAIN s
           V == Row(k)
           One(t, i) == IF t[i] \in Script THEN Deleted(t, i) ELSE t
           Rec(g) == g = [T \in SUBSET DOMAIN id |->
                            IF T = {} THEN s
                            ELSE LET x == Min(T) IN One(g[T \ {x}], id[x])]
           fold == CHOOSE g : Rec(g)
           ch == [T \in SUBSET D |-> Min(T)]
           st == [p \in D \X V |-> One(p[2], p[1])]
<1>1. EngineOnly(s) = fold[DOMAIN id]
  BY DEF EngineOnly, FoldRightDomain, FoldRight, MapThenFoldSet
<1>2. /\ DOMAIN id = D /\ \A i \in D : id[i] = i
      /\ Len(s) \in Nat /\ D = 1 .. Len(s) /\ IsFiniteSet(D) /\ D \subseteq Nat
  <2>1. Len(s) \in Nat /\ D = 1 .. Len(s)
    BY DEF Row
  <2>. QED BY <2>1, FS_Interval
<1> HIDE DEF id
<1>3. \A T \in SUBSET D : T # {} => ch[T] = Min(T) /\ Min(T) \in T /\ \A i \in T : Min(T) <= i
  <2>1. ASSUME NEW T \in SUBSET D, T # {} PROVE Min(T) \in T /\ \A i \in T : Min(T) <= i
    <3>1. T \subseteq Nat
      BY <1>2
    <3> HIDE DEF D
    <3>. QED BY <2>1, <3>1, LeastNumber
  <2>. QED BY <2>1
<1>4. st \in [D \X V -> V] /\ \A i \in D, t \in V : st[<<i, t>>] = One(t, i)
  <2>1. \A i \in D, t \in V : One(t, i) \in V
    BY <1>2, RowDelete
  <2> HIDE DEF One, V, D
  <2>. QED BY <2>1
<1> HIDE DEF D, One, V, st, ch
<1>5. PICK g : FoldedBy(g, D, ch, V, s, st)
  <2>1. Folds(D, ch, V, s, st)
    BY <1>2, <1>3, <1>4 DEF Folds, V
  <2>. QED BY <2>1, FoldExists
<1>6. Rec(g)
  <2>1. ASSUME NEW T \in SUBSET D, T # {}
        PROVE  g[T] = One(g[T \ {Min(T)}], id[Min(T)])
    <3>1. PICK i \in D : i = Min(T) /\ i = ch[T]
      BY <1>3, <2>1
    <3>2. g[T] = st[<<i, g[T \ {i}]>>] /\ g[T \ {i}] \in V
      BY <1>5, <2>1, <3>1 DEF FoldedBy
    <3>3. g[T] = One(g[T \ {i}], i)
      BY <1>4, <3>2
    <3>. QED BY <1>2, <3>1, <3>3
  <2>2. g = [T \in SUBSET D |-> g[T]] /\ g[{}] = s
    BY <1>5 DEF FoldedBy
  <2>. QED BY <1>2, <2>1, <2>2
<1>7. Rec(fold)
  BY <1>6
<1> HIDE DEF fold
<1>8. /\ fold[{}] = s
      /\ \A T \in SUBSET D : T # {} =>
           fold[T] = One(fold[T \ {Min(T)}], Min(T)) /\ Min(T) \in T /\ \A i \in T : Min(T) <= i
  BY <1>2, <1>3, <1>7
\* After the places of T, the last ones, have been seen.
<1> DEFINE Last1(T) == \A a \in T, b \in D : a < b => b \in T
           Seen(T) == {s[j] : j \in T} \cap Script
           OK(T) == LET t == fold[T]
                    IN  /\ t \in Row(k) /\ ToSet(t) = ToSet(s) \ Seen(T)
                        /\ \A j \in D \ T : j \in DOMAIN t /\ t[j] = s[j]
                        /\ \A j \in DOMAIN t : j \in D \ T \/ t[j] \notin Script
           G == {T \in SUBSET D : Last1(T) => OK(T)}
<1>9. ASSUME NEW T \in SUBSET D, \A x \in T : T \ {x} \in G PROVE T \in G
  <2>1. SUFFICES ASSUME Last1(T) PROVE OK(T)
    OBVIOUS
  <2>2. CASE T = {}
    <3>1. Seen(T) = {}
      BY <2>2
    <3>2. \A j \in DOMAIN s : j \in D \ T
      BY <2>2 DEF D
    <3>. QED BY <1>8, <2>2, <3>1, <3>2 DEF D
  <2>3. CASE T # {}
    <3>1. PICK i \in T : i = Min(T) /\ \A j \in T : i <= j
      BY <1>8, <2>3
    <3> DEFINE U == T \ {i}
               t == fold[U]
    <3>2. fold[T] = One(t, i)
      BY <1>8, <2>3, <3>1
    <3>3. Last1(U)
      BY <1>2, <2>1, <3>1
    <3>4. OK(U)
      BY <1>9, <3>3
    <3>5. i \in D /\ i \in DOMAIN t /\ t[i] = s[i] /\ i \in Nat
      BY <1>2, <3>4
    <3>6. D \ U = (D \ T) \cup {i} /\ \A j \in D \ T : j < i
      BY <1>2, <2>1, <3>1, <3>5
    <3>7. CASE s[i] \notin Script
      <4>1. fold[T] = t
        BY <3>2, <3>5, <3>7 DEF One
      <4>2. Seen(T) = Seen(U)
        BY <3>7
      <4>3. ASSUME NEW j \in DOMAIN t, j \notin D \ T PROVE t[j] \notin Script
        <5>1. j \in D \ U \/ t[j] \notin Script
          BY <3>4
        <5> HIDE DEF U, t
        <5>. QED BY <3>5, <3>6, <3>7, <4>3, <5>1
      <4>. QED BY <3>4, <3>6, <4>1, <4>2, <4>3
    <3>8. CASE s[i] \in Script
      <4> DEFINE d == Deleted(t, i)
      <4>1. fold[T] = d
        BY <3>2, <3>5, <3>8 DEF One
      <4>2. Seen(T) = Seen(U) \cup {s[i]}
        BY <3>8
      <4>3. t \in Row(k) /\ d \in Row(k) /\ ToSet(d) = ToSet(t) \ {s[i]}
        <5>1. t \in Row(k)
          BY <3>4
        <5> HIDE DEF t
        <5>. QED BY <3>5, <5>1, RowDelete
      <4>4. /\ DOMAIN t = 1 .. Len(t) /\ Len(t) \in Nat /\ i <= Len(t)
            /\ DOMAIN d = 1 .. Len(t) - 1
            /\ \A j \in 1 .. Len(t) - 1 : d[j] = IF j = i THEN t[Len(t)] ELSE t[j]
        <5>1. t \in Row(k)
          BY <4>3
        <5> HIDE DEF t
        <5>. QED BY <3>5, <5>1, DeletedOne
      <4>5. \A j \in D \ T : j \in DOMAIN d /\ d[j] = s[j]
        <5>1. ASSUME NEW j \in D \ T PROVE j \in DOMAIN d /\ d[j] = s[j]
          <6>1. j \in DOMAIN t /\ t[j] = s[j] /\ j < i
            BY <3>4, <3>6
          <6> HIDE DEF d, t, U
          <6>. QED BY <3>5, <4>4, <6>1
        <5>. QED BY <5>1
      <4>6. ASSUME NEW j \in DOMAIN d, j \notin D \ T PROVE d[j] \notin Script
        <5>1. \A m \in DOMAIN t : m \in D \ U \/ t[m] \notin Script
          BY <3>4
        <5> HIDE DEF d, t, U
        <5>2. j \in DOMAIN t /\ j < Len(t) /\ Len(t) \in DOMAIN t
          BY <4>4, <4>6
        <5>3. CASE j = i
          <6>1. Len(t) \notin D \ U
            BY <3>5, <3>6, <4>4, <5>2, <5>3
          <6>. QED BY <4>4, <4>6, <5>1, <5>2, <5>3, <6>1
        <5>4. CASE j # i
          BY <3>6, <4>4, <4>6, <5>1, <5>2, <5>4
        <5>. QED BY <5>3, <5>4
      <4> HIDE DEF d, t, U, Seen
      <4>7. ToSet(d) = ToSet(s) \ Seen(T)
        <5>1. ToSet(t) = ToSet(s) \ Seen(U)
          BY <3>4 DEF t
        <5>. QED BY <4>2, <4>3, <5>1
      <4>8. d \in Row(k) /\ \A j \in DOMAIN d : j \in D \ T \/ d[j] \notin Script
        BY <4>3, <4>6
      <4>. QED BY <4>1, <4>5, <4>7, <4>8
    <3>. QED BY <3>7, <3>8
  <2>. QED BY <2>2, <2>3
<1>10. \A T \in SUBSET D : T \in G
  <2> HIDE DEF G
  <2>. QED BY <1>2, <1>9, SetInduction
<1>11. OK(D) /\ Seen(D) = ToSet(s) \cap Script
  BY <1>10 DEF ToSet, D
<1>. QED BY <1>1, <1>2, <1>11
-----------------------------------------------------------------------------
(* What a call keeps of HInv *)

\* A handler's registration is undone or renewed now, and the clock goes on.
Quiet ==
  /\ running' = running /\ now <= now'
  /\ \A h \in Handlers :
       \/ reg'[h] = now'
       \/ /\ reg'[h] = reg[h] /\ since'[h] = since[h]
          /\ \A k \in Keys : h \in ToSet(table'[k]) => h \in ToSet(table[k])

\* An event of the past, and a call that handles it, stay right.
LEMMA StillRight ==
  ASSUME now \in Nat, now' \in Nat, Quiet,
         \A h \in Handlers : reg[h] \in Nat /\ reg'[h] \in Nat
  PROVE  /\ \A e : e.tick \in Nat /\ Told(e) => Told(e)'
         /\ \A c \in Calling : c.kind = "handle" /\ HandlingOK(c) => HandlingOK(c)'
<1>1. ASSUME NEW e, e.tick \in Nat, Told(e) PROVE Told(e)'
  BY <1>1 DEF Told, Quiet
<1>2. ASSUME NEW c \in Calling, c.kind = "handle", HandlingOK(c) PROVE HandlingOK(c)'
  <2>1. /\ c.ev.key \in Keys /\ c.ev.tick \in Nat /\ c.memo \subseteq Handlers
    BY <1>2 DEF Calling, EventRecords
  <2>2. Told(c.ev)' /\ c.ran \subseteq c.memo
    BY <1>1, <1>2, <2>1 DEF HandlingOK
  <2>3. ASSUME NEW h \in c.memo \ c.ran, h \in ToSet(table'[c.ev.key])
        PROVE  ~Eligible(c, h)'
    <3>1. CASE reg'[h] = now'
      <4>1. c.ev.tick <= now
        BY <1>2 DEF HandlingOK, Told
      <4>. QED BY <2>1, <3>1, <4>1 DEF Quiet, Eligible, TooLate
    <3>2. CASE reg'[h] # now'
      <4>1. h \in ToSet(table[c.ev.key]) /\ reg'[h] = reg[h]
        BY <2>1, <2>3, <3>2 DEF Quiet
      <4>2. ~Eligible(c, h) /\ running' = running
        BY <1>2, <4>1 DEF HandlingOK, Quiet
      <4>. QED BY <4>1, <4>2 DEF Eligible, Masked, TooLate
    <3>. QED BY <3>1, <3>2
  <2>. QED BY <2>2, <2>3 DEF HandlingOK
<1>. QED BY <1>1, <1>2

\* The events E come into the queues and the calls C onto the stack, and are right.
News(E, C) ==
  /\ \A i \in {0, 1} : ToSet(queues'[i]) \subseteq ToSet(queues[i]) \cup E
  /\ \A e \in E : Told(e)'
  /\ ToSet(stack') \subseteq ToSet(stack) \cup C
  /\ \A c \in C : c \in Calling /\ (c.kind = "handle" => HandlingOK(c)')

\* So that only what is new in the queues and on the stack is to be looked at.
LEMMA Kept ==
  ASSUME IInv, IInv', HInv, TableOK', Quiet, NEW E, NEW C, News(E, C)
  PROVE  HInv'
<1> USE DEF News
<1>1. now \in Nat /\ now' \in Nat
  BY DEF IInv, QueuesOK
<1>2. \A h \in Handlers : reg[h] \in Nat /\ reg'[h] \in Nat
  BY <1>1 DEF HInv, TableOK
<1>3. \A e \in ToSet(queues[0]) \cup ToSet(queues[1]) : e.tick \in Nat
  <2>1. ASSUME NEW q \in Seq(Notified), NEW e \in ToSet(q) PROVE e.tick \in Nat
    <3>1. e \in Notified
      BY DEF ToSet
    <3>. QED BY <3>1 DEF Notified
  <2>. QED BY <2>1 DEF IInv, QueuesOK
<1>4. ToldOK'
  <2>1. ASSUME NEW e \in ToSet(queues'[0]) \cup ToSet(queues'[1]) PROVE Told(e)'
    BY <1>1, <1>2, <1>3, StillRight DEF HInv, ToldOK
  <2>. QED BY <2>1 DEF ToldOK
<1>5. MemoOK'
  <2>1. ASSUME NEW c \in ToSet(stack')
        PROVE  c \in Calling /\ (c.kind = "handle" => HandlingOK(c)')
    BY <1>1, <1>2, StillRight DEF HInv, MemoOK
  <2>. QED BY <2>1 DEF MemoOK, Calling, EventRecords, Keys
<1>. QED BY <1>4, <1>5 DEF HInv

\* The handlers of a key, of a table that is right.
LEMMA Rows ==
  ASSUME TableOK
  PROVE  \A k \in Keys : table[k] \in Row(k) /\ table[k] \in Seq(Handlers)
BY DEF TableOK, Row, OnceEach

\* A table of such rows.
LEMMA TableOf ==
  ASSUME TableOK, IInv, IInv', now <= now', Len(events) <= Len(events'),
         table' \in [Keys -> Seq(Handlers)], \A k \in Keys : table'[k] \in Row(k),
         \A h \in Handlers : \/ reg'[h] = reg[h] /\ since'[h] = since[h]
                             \/ reg'[h] = now' /\ since'[h] = Len(events'),
         DOMAIN reg' = Handlers, DOMAIN since' = Handlers,
         reg' = [h \in Handlers |-> reg'[h]], since' = [h \in Handlers |-> since'[h]],
         running' \in BOOLEAN, zombie' \in BOOLEAN, released' \in [Ids -> 0 .. 1]
  PROVE  TableOK'
<1>1. now \in Nat /\ now' \in Nat /\ Len(events) \in Nat /\ Len(events') \in Nat
  BY DEF IInv, QueuesOK
<1>2. \A h \in Handlers : reg'[h] \in 0 .. now' /\ since'[h] \in 0 .. Len(events')
  BY <1>1 DEF TableOK
<1>3. reg' \in [Handlers -> 0 .. now'] /\ since' \in [Handlers -> 0 .. Len(events')]
  BY <1>2
<1>4. \A k \in Keys : \A i, j \in DOMAIN table'[k] :
        Key[table'[k][i]] = k /\ (table'[k][i] = table'[k][j] => i = j)
  BY DEF Row, OnceEach
<1>. QED BY <1>3, <1>4 DEF TableOK

\* The events E come into the queues and the calls C onto the stack.
Grows(E, C) ==
  /\ \A i \in {0, 1} : ToSet(queues'[i]) \subseteq ToSet(queues[i]) \cup E
  /\ \A e \in E : Told(e)
  /\ ToSet(stack') \subseteq ToSet(stack) \cup C
  /\ \A c \in C : c \in Calling /\ (c.kind = "handle" => HandlingOK(c))

\* Calls that leave the handlers, and what they are measured by, alone.
LEMMA Calm ==
  ASSUME IInv, IInv', HInv, NEW E, NEW C, Grows(E, C),
         UNCHANGED <<table, reg, since, running, now>>, Len(events) <= Len(events'),
         zombie' \in BOOLEAN, released' \in [Ids -> 0 .. 1]
  PROVE  HInv'
<1>1. now \in Nat /\ now <= now'
  BY DEF IInv, QueuesOK
<1>2. Quiet
  BY <1>1 DEF Quiet
<1>3. TableOK'
  <2>1. TableOK
    BY DEF HInv
  <2>2. /\ table' \in [Keys -> Seq(Handlers)] /\ \A k \in Keys : table'[k] \in Row(k)
        /\ reg \in [Handlers -> 0 .. now] /\ since \in [Handlers -> 0 .. Len(events)]
        /\ running \in BOOLEAN
    BY <2>1, Rows DEF TableOK
  <2>. QED BY <1>1, <2>1, <2>2, TableOf
<1>4. \A e : Told(e) => Told(e)'
  BY DEF Told
<1>5. \A c : HandlingOK(c) => HandlingOK(c)'
  BY <1>4 DEF HandlingOK, Eligible, Masked, TooLate
<1>6. News(E, C)
  BY <1>4, <1>5 DEF Grows, News
<1>. QED BY <1>2, <1>3, <1>6, Kept

\* What is on a stack with one call more, another on top, or one less.
LEMMA OnStack ==
  ASSUME NEW s, IsSeq(s), NEW c
  PROVE  /\ ToSet(Append(s, c)) \subseteq ToSet(s) \cup {c}
         /\ s # <<>> => /\ ToSet([s EXCEPT ![Len(s)] = c]) \subseteq ToSet(s) \cup {c}
                        /\ IsSeq([s EXCEPT ![Len(s)] = c])
                        /\ ToSet(Front(s)) \subseteq ToSet(s)
                        /\ Last(s) \in ToSet(s)
<1>1. ToSet(Append(s, c)) \subseteq ToSet(s) \cup {c}
  <2>1. PICK t : t = Append(s, c)
    OBVIOUS
  <2>2. /\ DOMAIN t = 1 .. Len(s) + 1 /\ t[Len(s) + 1] = c
        /\ \A i \in 1 .. Len(s) : t[i] = s[i]
        /\ Len(s) \in Nat /\ DOMAIN s = 1 .. Len(s)
    BY <2>1, OneCallMore
  <2>3. ToSet(t) \subseteq ToSet(s) \cup {c}
    BY <2>2 DEF ToSet
  <2>. QED BY <2>1, <2>3
<1>2. ASSUME s # <<>>
      PROVE  /\ ToSet([s EXCEPT ![Len(s)] = c]) \subseteq ToSet(s) \cup {c}
             /\ IsSeq([s EXCEPT ![Len(s)] = c])
  <2>1. PICK t : t = [s EXCEPT ![Len(s)] = c]
    OBVIOUS
  <2>2. /\ IsSeq(t) /\ DOMAIN t = 1 .. Len(s) /\ t[Len(s)] = c
        /\ \A i \in 1 .. Len(s) : i # Len(s) => t[i] = s[i]
    BY <1>2, <2>1, NewTop
  <2>3. DOMAIN s = 1 .. Len(s)
    BY DEF IsSeq
  <2>4. ToSet(t) \subseteq ToSet(s) \cup {c}
    BY <2>2, <2>3 DEF ToSet
  <2>. QED BY <2>1, <2>2, <2>4
<1>3. ASSUME s # <<>> PROVE ToSet(Front(s)) \subseteq ToSet(s) /\ Last(s) \in ToSet(s)
  <2>1. PICK t : t = Front(s)
    OBVIOUS
  <2>2. /\ DOMAIN t = 1 .. Len(s) - 1 /\ \A i \in 1 .. Len(s) - 1 : t[i] = s[i]
        /\ Len(s) \in Nat \ {0} /\ DOMAIN s = 1 .. Len(s)
    BY <1>3, <2>1, OneCallLess
  <2>3. ToSet(t) \subseteq ToSet(s)
    BY <2>2 DEF ToSet
  <2>4. Last(s) \in ToSet(s)
    BY <2>2 DEF ToSet, Last
  <2>. QED BY <2>1, <2>3, <2>4
<1>. QED BY <1>1, <1>2, <1>3

\* An event of now comes after every registration.
LEMMA NowTold ==
  ASSUME IInv, HInv, NEW e, e.tick = now, e.id # 0 => e.id = Len(events) + 1
  PROVE  Told(e)
<1>1. now \in Nat /\ Len(events) \in Nat
  BY DEF IInv, QueuesOK
<1>2. \A h \in Handlers : since[h] \in 0 .. Len(events)
  BY DEF HInv, TableOK
<1>. QED BY <1>1, <1>2 DEF Told

\* A call that begins to handle an event has memoized nothing.
LEMMA HandlingRight ==
  ASSUME HInv, NEW e \in EventRecords, Told(e), NEW imm \in BOOLEAN
  PROVE  /\ Handling(e, imm) \in Calling
         /\ Handling(e, imm).kind = "handle" /\ HandlingOK(Handling(e, imm))
<1>1. e.key \in Keys
  BY DEF EventRecords
<1>2. /\ table[e.key] \in SeqOf(Handlers, Cardinality(Handlers))
      /\ Dropped(e) \in BOOLEAN
  BY <1>1, Rows, RowLength DEF HInv, TableOK, Dropped
<1>3. Handling(e, imm) \in Calling
  BY <1>2 DEF Handling, Calling
<1>. QED BY <1>3 DEF Handling, HandlingOK

\* What HInv says of the innermost call.
LEMMA TopRight ==
  ASSUME IInv, HInv, stack # <<>>
  PROVE  /\ IsSeq(stack) /\ Top \in ToSet(stack) /\ Top \in Calling
         /\ Top.kind = "handle" => HandlingOK(Top)
<1>1. IsSeq(stack)
  BY DEF IInv, CallsOK
<1>2. Top \in ToSet(stack)
  BY <1>1, OnStack DEF Top
<1>. QED BY <1>1, <1>2 DEF HInv, MemoOK
-----------------------------------------------------------------------------
(* The actions keep HInv *)

\* A type that the calls which leave these alone need.
LEMMA SameTypes ==
  ASSUME HInv
  PROVE  /\ zombie \in BOOLEAN /\ running \in BOOLEAN
         /\ released \in [Ids -> 0 .. 1]
BY DEF HInv, TableOK

\* An event is notified: it is of now.
LEMMA NotifyKeeps ==
  ASSUME IInv, IInv', HInv, NEW k \in Keys, NEW script \in BOOLEAN,
         Notify(k, script) \/ NotifyImmediate(k, script)
  PROVE  HInv'
<1> DEFINE e == NewEvent(k, script)
<1>1. Len(events) < MaxEvents /\ Len(events) \in Nat /\ now \in 0 .. MaxNow
      /\ events \in Seq(BOOLEAN) /\ front \in {0, 1} /\ queues \in [{0, 1} -> Seq(Notified)]
  <2>1. Len(events) < MaxEvents
    BY DEF Notify, NotifyImmediate
  <2>. QED BY <2>1 DEF IInv, QueuesOK
<1>2. e \in EventRecords /\ e.tick = now /\ e.id = Len(events) + 1
  <2>1. /\ e = [id |-> Len(events) + 1, key |-> k, tick |-> now, script |-> script]
        /\ Len(events) + 1 \in 0 .. MaxEvents
    BY <1>1 DEF NewEvent
  <2> HIDE DEF e
  <2>. QED BY <1>1, <2>1 DEF EventRecords
<1> HIDE DEF e
<1>3. Told(e)
  BY <1>2, NowTold
<1>4. CASE Notify(k, script)
  <2>1. /\ queues' = [queues EXCEPT ![front] = Append(queues[front], e)]
        /\ events' = Append(events, TRUE)
        /\ UNCHANGED <<table, reg, since, running, now, stack, zombie, released>>
    BY <1>4 DEF Notify, Target, e
  <2>2. Len(events) <= Len(events')
    BY <1>1, <2>1
  <2>3. \A i \in {0, 1} : ToSet(queues'[i]) \subseteq ToSet(queues[i]) \cup {e}
    <3>1. queues[front] \in Seq(Notified)
      BY <1>1
    <3>2. ToSet(Append(queues[front], e)) \subseteq ToSet(queues[front]) \cup {e}
      BY <3>1, AnySeq, OnStack
    <3>. QED BY <1>1, <2>1, <3>2
  <2>10. Grows({e}, {})
    BY <1>3, <2>1, <2>2, <2>3 DEF Grows
  <2>. QED BY <1>3, <2>1, <2>2, <2>3, <2>10, SameTypes, Calm
<1>5. CASE NotifyImmediate(k, script)
  <2>1. /\ stack' = Append(stack, Handling(e, TRUE)) /\ events' = Append(events, FALSE)
        /\ UNCHANGED <<table, reg, since, running, now, queues, zombie, released>>
    BY <1>5 DEF NotifyImmediate, e
  <2>2. Len(events) <= Len(events')
    BY <1>1, <2>1
  <2>3. PICK c : c = Handling(e, TRUE)
    OBVIOUS
  <2>4. c \in Calling /\ (c.kind = "handle" => HandlingOK(c))
    BY <1>2, <1>3, <2>3, HandlingRight
  <2>5. ToSet(stack') \subseteq ToSet(stack) \cup {c}
    BY <2>1, <2>3, OnStack DEF IInv, CallsOK
  <2>10. Grows({}, {c})
    BY <2>1, <2>2, <2>4, <2>5 DEF Grows
  <2>. QED BY <2>1, <2>2, <2>4, <2>5, <2>10, SameTypes, Calm
<1>. QED BY <1>4, <1>5

\* A queue begins to be serviced or flushed, is cleared, or the entity dies.
LEMMA CallKeeps ==
  ASSUME IInv, IInv', HInv,
         \/ FlushEventQueue \/ ServiceQueue \/ ClearPendingEvents \/ Zombiefy \/ UNCHANGED vars
  PROVE  HInv'
<1>1. /\ events \in Seq(BOOLEAN) /\ front \in {0, 1} /\ queues \in [{0, 1} -> Seq(Notified)]
      /\ IsSeq(stack) /\ Len(events) <= Len(events)
  BY DEF IInv, QueuesOK, CallsOK
<1>2. CASE FlushEventQueue
  <2>1. PICK c : c = [Loop("flush", front) EXCEPT !.phase = "again"]
    OBVIOUS
  <2>2. c \in Calling /\ c.kind # "handle"
    <3>1. c = [kind |-> "flush", q |-> front, phase |-> "again"]
      BY <2>1 DEF Loop
    <3>. QED BY <1>1, <3>1 DEF Calling
  <2>3. /\ ToSet(stack') \subseteq ToSet(stack) \cup {c}
        /\ UNCHANGED <<table, reg, since, running, now, queues, zombie, released, events>>
    <3>1. stack' = Append(stack, c)
      BY <1>2, <2>1 DEF FlushEventQueue
    <3>. QED BY <1>1, <1>2, <3>1, OnStack DEF FlushEventQueue
  <2>10. Grows({}, {c})
    BY <1>1, <2>2, <2>3 DEF Grows
  <2>. QED BY <1>1, <2>2, <2>3, <2>10, SameTypes, Calm
<1>3. CASE ServiceQueue
  <2>1. PICK c : c = Loop("service", front)
    OBVIOUS
  <2>2. c \in Calling /\ c.kind # "handle"
    BY <1>1, <2>1 DEF Loop, Calling
  <2>3. /\ stack' = <<c>>
        /\ UNCHANGED <<table, reg, since, running, now, queues, zombie, released, events>>
    BY <1>3, <2>1 DEF ServiceQueue, histVars
  <2>4. ToSet(stack') \subseteq ToSet(stack) \cup {c}
    BY <2>3 DEF ToSet
  <2>10. Grows({}, {c})
    BY <1>1, <2>2, <2>3, <2>4 DEF Grows
  <2>. QED BY <1>1, <2>2, <2>3, <2>4, <2>10, SameTypes, Calm
<1>4. CASE ClearPendingEvents
  <2>1. /\ queues' = [queues EXCEPT ![front] = <<>>]
        /\ UNCHANGED <<table, reg, since, running, now, stack, zombie, released, events>>
    BY <1>4 DEF ClearPendingEvents
  <2>2. \A i \in {0, 1} : ToSet(queues'[i]) \subseteq ToSet(queues[i])
    <3>1. ToSet(<<>>) = {}
      BY DEF ToSet
    <3>. QED BY <1>1, <2>1, <3>1
  <2>10. Grows({}, {})
    BY <1>1, <2>1, <2>2 DEF Grows
  <2>. QED BY <1>1, <2>1, <2>2, <2>10, SameTypes, Calm
<1>5. CASE Zombiefy \/ UNCHANGED vars
  <2>1. /\ UNCHANGED <<table, reg, since, running, now, stack, queues, released, events>>
        /\ zombie' \in BOOLEAN
    BY <1>5, SameTypes DEF Zombiefy, vars, histVars
  <2>10. Grows({}, {})
    BY <1>1, <2>1 DEF Grows
  <2>. QED BY <1>1, <2>1, <2>10, SameTypes, Calm
<1>. QED BY <1>2, <1>3, <1>4, <1>5

\* A loop handles the events of the frame, and those of its queue.
LEMMA LoopKeeps ==
  ASSUME IInv, IInv', HInv, LoopFrameEvent \/ LoopPop \/ LoopAgain
  PROVE  HInv'
<1>1. /\ events \in Seq(BOOLEAN) /\ front \in {0, 1} /\ queues \in [{0, 1} -> Seq(Notified)]
      /\ IsSeq(stack) /\ Len(events) <= Len(events) /\ now \in 0 .. MaxNow
  BY DEF IInv, QueuesOK, CallsOK
<1>2. /\ stack # <<>> /\ Top.kind # "handle" /\ Top \in Calling
      /\ UNCHANGED <<table, reg, since, running, now, zombie, released, events>>
  BY TopRight DEF LoopFrameEvent, LoopPop, LoopAgain, histVars
<1>3. ASSUME NEW ph \in {"start", "pop", "end", "again"}
      PROVE  [Top EXCEPT !.phase = ph] \in Calling /\ [Top EXCEPT !.phase = ph].kind # "handle"
  BY <1>2 DEF Calling
<1>4. Top.q \in {0, 1}
  BY <1>2 DEF Calling
<1>5. CASE LoopFrameEvent
  <2>1. PICK ph \in {"start", "pop", "end", "again"} :
          ph = IF Top.phase = "start" THEN "pop" ELSE "again"
    OBVIOUS
  <2>2. PICK d : d = [Top EXCEPT !.phase = ph]
    OBVIOUS
  <2>3. PICK imm \in BOOLEAN : imm = (Top.kind = "flush")
    OBVIOUS
  <2>4. PICK e : e = FrameEvent
    OBVIOUS
  <2>5. PICK c : c = Handling(e, imm)
    OBVIOUS
  <2>6. e \in EventRecords /\ e.tick = now /\ e.id = 0
    <3>1. e = [id |-> 0, key |-> "update", tick |-> now, script |-> FALSE]
      BY <2>4 DEF FrameEvent
    <3>2. 0 \in 0 .. MaxEvents /\ "update" \in Keys
      BY DEF Keys
    <3>. QED BY <1>1, <3>1, <3>2 DEF EventRecords
  <2>7. d \in Calling /\ d.kind # "handle" /\ c \in Calling /\ HandlingOK(c)
    BY <1>3, <2>2, <2>5, <2>6, NowTold, HandlingRight
  <2>8. stack' = Append(WithTop(d), c) /\ UNCHANGED queues
    BY <1>5, <2>1, <2>2, <2>3, <2>4, <2>5 DEF LoopFrameEvent
  <2>9. ToSet(stack') \subseteq ToSet(stack) \cup {c, d}
    <3>1. PICK s : s = WithTop(d)
      OBVIOUS
    <3>2. IsSeq(s) /\ ToSet(s) \subseteq ToSet(stack) \cup {d}
      BY <1>1, <1>2, <3>1, OnStack DEF WithTop
    <3>3. ToSet(Append(s, c)) \subseteq ToSet(s) \cup {c}
      BY <3>2, OnStack
    <3>. QED BY <2>8, <3>1, <3>2, <3>3
  <2>10. Grows({}, {c, d})
    BY <1>1, <1>2, <2>7, <2>8, <2>9 DEF Grows
  <2>. QED BY <1>1, <1>2, <2>7, <2>8, <2>9, <2>10, SameTypes, Calm
<1>6. CASE LoopPop
  <2>1. PICK q : q = queues[Top.q]
    OBVIOUS
  <2>2. CASE q = <<>>
    <3>1. PICK d : d = [Top EXCEPT !.phase = "end"]
      OBVIOUS
    <3>2. stack' = WithTop(d) /\ UNCHANGED queues
      BY <1>6, <2>1, <2>2, <3>1 DEF LoopPop
    <3>3. d \in Calling /\ d.kind # "handle"
      BY <1>3, <3>1
    <3>4. ToSet(stack') \subseteq ToSet(stack) \cup {d}
      BY <1>1, <1>2, <3>2, OnStack DEF WithTop
    <3>11. Grows({}, {d})
      BY <1>1, <1>2, <3>2, <3>3, <3>4 DEF Grows
    <3>. QED BY <1>1, <1>2, <3>2, <3>3, <3>4, <3>11, SameTypes, Calm
  <2>3. CASE q # <<>>
    <3>1. PICK e : e = Head(q)
      OBVIOUS
    <3>2. PICK imm \in BOOLEAN : imm = (Top.kind = "flush")
      OBVIOUS
    <3>3. PICK c : c = Handling(e, imm)
      OBVIOUS
    <3>4. /\ queues' = [queues EXCEPT ![Top.q] = Tail(q)]
          /\ stack' = Append(stack, c)
      BY <1>6, <2>1, <2>3, <3>1, <3>2, <3>3 DEF LoopPop, Popped
    <3>5. /\ q \in Seq(Notified) /\ DOMAIN q = 1 .. Len(q) /\ Len(q) \in Nat \ {0}
          /\ DOMAIN Tail(q) = 1 .. Len(q) - 1
          /\ \A i \in 1 .. Len(q) - 1 : Tail(q)[i] = q[i + 1]
          /\ e = q[1] /\ e \in Notified
      BY <1>1, <1>4, <2>1, <2>3, <3>1
    <3>6. ToSet(Tail(q)) \subseteq ToSet(q) /\ e \in ToSet(q)
      BY <3>5 DEF ToSet
    <3>7. Told(e) /\ e \in EventRecords
      <4>1. e \in EventRecords
        BY <3>5 DEF Notified, EventRecords
      <4>. QED BY <1>4, <2>1, <3>6, <4>1 DEF HInv, ToldOK
    <3>8. c \in Calling /\ HandlingOK(c)
      BY <3>3, <3>7, HandlingRight
    <3>9. \A i \in {0, 1} : ToSet(queues'[i]) \subseteq ToSet(queues[i])
      BY <1>1, <1>4, <2>1, <3>4, <3>6
    <3>10. ToSet(stack') \subseteq ToSet(stack) \cup {c}
      BY <1>1, <3>4, OnStack
    <3>11. Grows({}, {c})
      BY <1>1, <1>2, <3>8, <3>9, <3>10 DEF Grows
    <3>. QED BY <1>1, <1>2, <3>8, <3>9, <3>10, <3>11, SameTypes, Calm
  <2>. QED BY <2>2, <2>3
<1>7. CASE LoopAgain
  <2>1. PICK d : d = Loop("flush", front)
    OBVIOUS
  <2>2. d \in Calling /\ d.kind # "handle"
    BY <1>1, <2>1 DEF Loop, Calling
  <2>3. (stack' = WithTop(d) \/ stack' = Front(stack)) /\ UNCHANGED queues
    BY <1>7, <2>1 DEF LoopAgain
  <2>4. ToSet(stack') \subseteq ToSet(stack) \cup {d}
    BY <1>1, <1>2, <2>3, OnStack DEF WithTop
  <2>10. Grows({}, {d})
    BY <1>1, <1>2, <2>2, <2>3, <2>4 DEF Grows
  <2>. QED BY <1>1, <1>2, <2>2, <2>3, <2>4, <2>10, SameTypes, Calm
<1>. QED BY <1>5, <1>6, <1>7

\* What is memoized when a handler is chosen: those before it are not to be executed.
LEMMA PassedOverRight ==
  ASSUME TableOK, NEW c \in Calling, c.kind = "handle", HandlingOK(c), Chosen(c) # 0,
         NEW h, h = Fetched(c)[Chosen(c)]
  PROVE  /\ h \in Handlers /\ h \in ToSet(Fetched(c)) /\ Key[h] = c.ev.key
         /\ Fresh(c, h) /\ Eligible(c, h)
         /\ ToSet(PassedOver(c)) \subseteq Handlers /\ h \in ToSet(PassedOver(c))
         /\ \A x \in ToSet(PassedOver(c)) : x = h \/ x \in c.memo \/ ~Eligible(c, x)
<1>1. PICK s : s = Fetched(c)
  OBVIOUS
<1>2. PICK n : n = Chosen(c)
  OBVIOUS
<1>3. c.ev.key \in Keys
  BY DEF Calling, EventRecords
<1>4. s \in Row(c.ev.key) /\ s \in Seq(Handlers)
  BY <1>1, <1>3, Rows DEF Fetched
<1>5. /\ n \in DOMAIN s /\ h = s[n] /\ Fresh(c, h) /\ Eligible(c, h)
      /\ \A j \in DOMAIN s : j < n => ~(Fresh(c, s[j]) /\ Eligible(c, s[j]))
  BY <1>1, <1>2, <1>4, ChosenFirst
<1>6. /\ DOMAIN s = 1 .. Len(s) /\ Len(s) \in Nat /\ n \in 1 .. Len(s)
  BY <1>4, <1>5
<1>7. PICK t : t = SubSeq(s, 1, n)
  OBVIOUS
<1>8. DOMAIN t = 1 .. n /\ \A i \in 1 .. n : t[i] = s[i] /\ i \in DOMAIN s /\ s[i] \in Handlers
  BY <1>4, <1>6, <1>7
<1>9. PassedOver(c) = t
  BY <1>1, <1>2, <1>7 DEF PassedOver
<1>10. ToSet(t) \subseteq Handlers /\ h \in ToSet(t)
  BY <1>5, <1>6, <1>8 DEF ToSet
<1>11. ASSUME NEW x \in ToSet(t) PROVE x = h \/ x \in c.memo \/ ~Eligible(c, x)
  <2>1. PICK i \in 1 .. n : x = s[i]
    BY <1>8 DEF ToSet
  <2>2. i < n \/ i = n
    BY <1>6
  <2>. QED BY <1>5, <1>8, <2>1, <2>2 DEF Fresh
<1>12. h \in Handlers /\ h \in ToSet(s) /\ Key[h] = c.ev.key
  BY <1>4, <1>5, <1>6 DEF ToSet, Row
<1>. QED BY <1>1, <1>5, <1>9, <1>10, <1>11, <1>12

\* A call that goes on to execute a handler, or to unregister it instead.
LEMMA SelectRight ==
  ASSUME IInv, HInv, NEW h \in Handlers, NEW cur \in {h, None},
         InKind("handle"), Chosen(Top) # 0, h = Fetched(Top)[Chosen(Top)]
  PROVE  LET d == [Top EXCEPT !.cur = cur, !.ran = IF cur = h THEN @ \cup {h} ELSE @,
                              !.curr = Fetched(Top), !.memo = @ \cup ToSet(PassedOver(Top))]
         IN  /\ d \in Calling /\ d.kind = "handle" /\ Told(d.ev) /\ d.ran \subseteq d.memo
             /\ d.ev = Top.ev /\ d.imm = Top.imm
             /\ \A x \in d.memo \ d.ran : x \in ToSet(table[d.ev.key]) => x = h \/ ~Eligible(d, x)
             /\ cur = h => h \in d.ran
<1>1. /\ stack # <<>> /\ Top.kind = "handle" /\ Top \in Calling /\ HandlingOK(Top) /\ TableOK
  BY TopRight DEF InKind, HInv
<1>2. PICK c : c = Top
  OBVIOUS
<1>3. PICK p : p = ToSet(PassedOver(c))
  OBVIOUS
<1>4. PICK s : s = Fetched(c)
  OBVIOUS
<1>5. PICK r : r = IF cur = h THEN c.ran \cup {h} ELSE c.ran
  OBVIOUS
<1>6. c \in Calling /\ c.kind = "handle" /\ HandlingOK(c) /\ Chosen(c) # 0
  BY <1>1, <1>2
<1>7. /\ p \subseteq Handlers /\ h \in p
      /\ \A x \in p : x = h \/ x \in c.memo \/ ~Eligible(c, x)
  BY <1>1, <1>2, <1>3, <1>6, PassedOverRight
<1>8. s \in SeqOf(Handlers, Cardinality(Handlers))
  <2>1. c.ev.key \in Keys
    BY <1>6 DEF Calling, EventRecords
  <2>. QED BY <1>1, <1>4, <2>1, Rows, RowLength DEF Fetched
<1>9. PICK d : d = [c EXCEPT !.cur = cur, !.ran = r, !.curr = s, !.memo = c.memo \cup p]
  OBVIOUS
<1>10. /\ c.memo \subseteq Handlers /\ c.ran \subseteq c.memo /\ r \subseteq Handlers
  BY <1>5, <1>6 DEF HandlingOK, Calling
<1>11. d \in Calling /\ d.kind = "handle"
  BY <1>6, <1>7, <1>8, <1>9, <1>10 DEF Calling
<1>12. /\ d.ev = c.ev /\ d.imm = c.imm /\ d.ran = r /\ d.memo = c.memo \cup p
  BY <1>6, <1>9 DEF Calling
<1>13. d.ran \subseteq d.memo /\ (cur = h => h \in d.ran) /\ Told(d.ev)
  BY <1>5, <1>6, <1>7, <1>10, <1>12 DEF HandlingOK
<1>14. ASSUME NEW x \in d.memo \ d.ran, x \in ToSet(table[d.ev.key]), x # h
       PROVE  ~Eligible(d, x)
  <2>1. x \in c.memo \ c.ran \/ (x \in p /\ x \notin c.memo)
    BY <1>5, <1>12, <1>14
  <2>2. ~Eligible(c, x)
    BY <1>6, <1>7, <1>12, <1>14, <2>1 DEF HandlingOK
  <2>. QED BY <1>12, <2>2 DEF Eligible, Masked, TooLate
<1>15. d = [Top EXCEPT !.cur = cur, !.ran = IF cur = h THEN @ \cup {h} ELSE @,
                       !.curr = Fetched(Top), !.memo = @ \cup ToSet(PassedOver(Top))]
  BY <1>2, <1>3, <1>4, <1>5, <1>9
<1>. QED BY <1>2, <1>11, <1>12, <1>13, <1>14, <1>15

\* A handler is executed, and what it is executed for is memoized.
LEMMA ExecuteKeeps ==
  ASSUME IInv, IInv', HInv, NEW h \in Handlers, Execute(h)
  PROVE  HInv'
<1>1. /\ InKind("handle") /\ stack # <<>> /\ Chosen(Top) # 0 /\ h = Fetched(Top)[Chosen(Top)]
      /\ UNCHANGED <<table, reg, since, running, now, queues, zombie, released, events>>
  BY DEF Execute, Select, histVars, InKind
<1>2. PICK d : d = [Top EXCEPT !.cur = h, !.ran = @ \cup {h}, !.curr = Fetched(Top),
                               !.memo = @ \cup ToSet(PassedOver(Top))]
  OBVIOUS
<1>3. stack' = WithTop(d)
  BY <1>2 DEF Execute, Select
<1>4. /\ d \in Calling /\ d.kind = "handle" /\ Told(d.ev) /\ d.ran \subseteq d.memo
      /\ h \in d.ran
      /\ \A x \in d.memo \ d.ran : x \in ToSet(table[d.ev.key]) => x = h \/ ~Eligible(d, x)
  <2>1. PICK cur \in {h, None} : cur = h
    OBVIOUS
  <2>. QED BY <1>1, <1>2, <2>1, SelectRight
<1>5. HandlingOK(d)
  BY <1>4 DEF HandlingOK
<1>6. IsSeq(stack) /\ Len(events) \in Nat
  BY DEF IInv, CallsOK, QueuesOK
<1>7. Grows({}, {d})
  BY <1>1, <1>3, <1>4, <1>5, <1>6, OnStack DEF Grows, WithTop
<1>. QED BY <1>1, <1>6, <1>7, SameTypes, Calm

\* It returns, or the event has been handled.
LEMMA ReturnKeeps ==
  ASSUME IInv, IInv', HInv, Return \/ HandleDone
  PROVE  HInv'
<1>1. /\ stack # <<>> /\ Top.kind = "handle" /\ Top \in Calling /\ HandlingOK(Top)
      /\ UNCHANGED <<table, reg, since, running, now, queues, zombie, events>>
  <2>1. InKind("handle")
        /\ UNCHANGED <<table, reg, since, running, now, queues, zombie, events>>
    BY DEF Return, HandleDone, histVars
  <2>. QED BY <2>1, TopRight DEF InKind
<1>2. IsSeq(stack) /\ Len(events) \in Nat
  BY DEF IInv, CallsOK, QueuesOK
<1>3. CASE Return
  <2>1. PICK c : c = Top
    OBVIOUS
  <2>2. PICK d : d = [c EXCEPT !.cur = None]
    OBVIOUS
  <2>3. d \in Calling /\ d.kind = "handle" /\ d.ev = c.ev /\ d.imm = c.imm
        /\ d.memo = c.memo /\ d.ran = c.ran
    BY <1>1, <2>1, <2>2 DEF Calling
  <2>4. HandlingOK(d)
    BY <1>1, <2>1, <2>3 DEF HandlingOK, Eligible, Masked, TooLate
  <2>5. stack' = WithTop(d) /\ UNCHANGED released
    BY <1>3, <2>1, <2>2 DEF Return
  <2>6. Grows({}, {d})
    BY <1>1, <1>2, <2>3, <2>4, <2>5, OnStack DEF Grows, WithTop
  <2>. QED BY <1>1, <1>2, <2>5, <2>6, SameTypes, Calm
<1>4. CASE HandleDone
  <2>1. stack' = Front(stack)
    BY <1>4 DEF HandleDone
  <2>2. released' \in [Ids -> 0 .. 1]
    <3>1. PICK i : i = Top.ev.id
      OBVIOUS
    <3>2. released' = released \/ released' = [released EXCEPT ![i] = released[i] + 1]
      BY <1>4, <3>1 DEF HandleDone
    <3>3. i \in Ids => released[i] = 0
      <4>1. PICK n \in DOMAIN stack : Top = stack[n]
        BY <1>1, TopCall
      <4>2. EventOf(n) = i
        BY <1>1, <3>1, <4>1 DEF EventOf
      <4>3. i # 0 => released[i] = 0
        BY <4>2 DEF IInv, ReleasesOK
      <4>. QED BY <4>3
    <3>. QED BY <3>2, <3>3, SameTypes
  <2>3. Grows({}, {})
    BY <1>1, <1>2, <2>1, OnStack DEF Grows
  <2>. QED BY <1>1, <1>2, <2>2, <2>3, SameTypes, Calm
<1>. QED BY <1>3, <1>4

\* A handler is registered no more, at its own call or instead of being executed.
LEMMA UnregisterKeeps ==
  ASSUME IInv, IInv', HInv, NEW h \in Handlers, Unregister(h) \/ WeakrefDied(h)
  PROVE  HInv'
<1>1. /\ Delist(h)
      /\ UNCHANGED <<reg, since, running, now, queues, zombie, released, events>>
  BY DEF Unregister, WeakrefDied, histVars
<1>2. TableOK /\ now \in Nat /\ Len(events) \in Nat /\ IsSeq(stack)
  BY DEF HInv, IInv, QueuesOK, CallsOK
<1>3. /\ table' \in [Keys -> Seq(Handlers)]
      /\ \A k \in Keys : table'[k] \in Row(k) /\ ToSet(table'[k]) = ToSet(table[k]) \ {h}
  BY <1>1, <1>2, Rows, Delisted DEF TableOK
<1>4. TableOK'
  <2>1. reg \in [Handlers -> 0 .. now] /\ since \in [Handlers -> 0 .. Len(events)]
    BY <1>2 DEF TableOK
  <2>. QED BY <1>1, <1>2, <1>3, <2>1, SameTypes, TableOf
<1>5. Quiet
  BY <1>1, <1>2, <1>3 DEF Quiet
<1>7. CASE Unregister(h)
  <2>1. News({}, {})
    BY <1>1, <1>7 DEF Unregister, News
  <2>. QED BY <1>4, <1>5, <2>1, Kept
<1>8. CASE WeakrefDied(h)
  <2>1. /\ InKind("handle") /\ stack # <<>> /\ Top.cur = None /\ Chosen(Top) # 0
        /\ h = Fetched(Top)[Chosen(Top)]
    BY <1>8 DEF WeakrefDied, Select, InKind
  <2>2. Top \in Calling /\ Top.kind = "handle"
    BY <2>1, TopRight DEF InKind
  <2>3. PICK d : d = [Top EXCEPT !.curr = Fetched(Top), !.memo = @ \cup ToSet(PassedOver(Top))]
    OBVIOUS
  <2>4. stack' = WithTop(d)
    BY <1>8, <2>3 DEF WeakrefDied, Select
  <2>5. /\ d \in Calling /\ d.kind = "handle" /\ Told(d.ev) /\ d.ran \subseteq d.memo
        /\ \A x \in d.memo \ d.ran : x \in ToSet(table[d.ev.key]) => x = h \/ ~Eligible(d, x)
    <3>1. PICK cur \in {h, None} : cur = None
      OBVIOUS
    <3>2. cur # h
      BY <3>1
    <3>3. d = [Top EXCEPT !.cur = cur, !.ran = IF cur = h THEN @ \cup {h} ELSE @,
                          !.curr = Fetched(Top), !.memo = @ \cup ToSet(PassedOver(Top))]
      BY <2>1, <2>2, <2>3, <3>1, <3>2 DEF Calling
    <3>. QED BY <2>1, <3>3, SelectRight
  <2>6. HandlingOK(d)'
    <3>1. Told(d.ev)'
      BY <1>1, <2>5 DEF Told
    <3>2. d.ev.key \in Keys
      BY <2>5 DEF Calling, EventRecords
    <3>3. ASSUME NEW x \in d.memo \ d.ran, x \in ToSet(table'[d.ev.key])
          PROVE  ~Eligible(d, x)'
      <4>1. x # h /\ x \in ToSet(table[d.ev.key])
        BY <1>3, <3>2, <3>3
      <4>2. ~Eligible(d, x)
        BY <2>5, <4>1
      <4>. QED BY <1>1, <4>2 DEF Eligible, Masked, TooLate
    <3>. QED BY <2>5, <3>1, <3>3 DEF HandlingOK
  <2>7. ToSet(stack') \subseteq ToSet(stack) \cup {d}
    BY <1>2, <2>1, <2>4, OnStack DEF WithTop
  <2>8. \A c \in {d} : c \in Calling /\ (c.kind = "handle" => HandlingOK(c)')
    BY <2>5, <2>6
  <2>9. News({}, {d})
    BY <1>1, <2>7, <2>8 DEF News
  <2>. QED BY <1>4, <1>5, <2>9, Kept
<1>. QED BY <1>7, <1>8

\* A handler is registered, now.
LEMMA RegisterKeeps ==
  ASSUME IInv, IInv', HInv, NEW h \in Handlers, Register(h)
  PROVE  HInv'
<1>1. PICK k \in Keys : k = Key[h]
  OBVIOUS
<1>2. /\ h \notin ToSet(table[k])
      /\ table' = [table EXCEPT ![k] = Append(table[k], h)]
      /\ reg' = [reg EXCEPT ![h] = now] /\ since' = [since EXCEPT ![h] = Len(events)]
      /\ UNCHANGED <<running, now, queues, zombie, released, events, stack>>
  BY <1>1 DEF Register, New
<1>3. TableOK /\ now \in Nat /\ Len(events) \in Nat
  BY DEF HInv, IInv, QueuesOK
<1>4. PICK s \in Row(k) : s = table[k] /\ s \in Seq(Handlers)
  BY <1>3, Rows
<1>5. PICK t : t = Append(s, h)
  OBVIOUS
<1>6. /\ t \in Seq(Handlers) /\ DOMAIN t = 1 .. Len(s) + 1 /\ t[Len(s) + 1] = h
      /\ DOMAIN s = 1 .. Len(s) /\ Len(s) \in Nat
      /\ \A i \in 1 .. Len(s) : t[i] = s[i] /\ t[i] # h /\ Key[t[i]] = k
  <2>1. ASSUME NEW i \in 1 .. Len(s) PROVE s[i] # h /\ Key[s[i]] = k
    BY <1>2, <1>4 DEF ToSet, Row
  <2>. QED BY <1>4, <1>5, <2>1
<1>7. t \in Row(k) /\ ToSet(t) \subseteq ToSet(s) \cup {h}
  <2>1. OnceEach(t)
    <3>1. OnceEach(s)
      BY <1>4 DEF Row
    <3>. QED BY <1>6, <3>1 DEF OnceEach
  <2>2. \A i \in DOMAIN t : Key[t[i]] = k
    BY <1>1, <1>6
  <2>. QED BY <1>6, <2>1, <2>2 DEF Row, ToSet
<1>8. /\ table' \in [Keys -> Seq(Handlers)]
      /\ \A j \in Keys : table'[j] \in Row(j) /\ ToSet(table'[j]) \subseteq ToSet(table[j]) \cup {h}
  BY <1>2, <1>3, <1>4, <1>5, <1>6, <1>7, Rows DEF TableOK
<1>9. /\ reg' \in [Handlers -> 0 .. now] /\ since' \in [Handlers -> 0 .. Len(events)]
      /\ reg'[h] = now /\ since'[h] = Len(events)
      /\ \A x \in Handlers : x # h => reg'[x] = reg[x] /\ since'[x] = since[x]
  BY <1>2, <1>3 DEF TableOK
<1>10. TableOK'
  <2>1. /\ now <= now' /\ Len(events) <= Len(events')
        /\ DOMAIN reg' = Handlers /\ DOMAIN since' = Handlers
        /\ reg' = [x \in Handlers |-> reg'[x]] /\ since' = [x \in Handlers |-> since'[x]]
    <3>1. UNCHANGED <<now, events>>
      BY <1>2
    <3>2. \A R : reg' \in [Handlers -> R] => reg' = [x \in Handlers |-> reg'[x]] /\ DOMAIN reg' = Handlers
      OBVIOUS
    <3>3. \A R : since' \in [Handlers -> R] => since' = [x \in Handlers |-> since'[x]] /\ DOMAIN since' = Handlers
      OBVIOUS
    <3>. QED BY <1>3, <1>9, <3>1, <3>2, <3>3
  <2>2. running' \in BOOLEAN /\ zombie' \in BOOLEAN /\ released' \in [Ids -> 0 .. 1]
    BY <1>2, SameTypes
  <2>3. \A x \in Handlers : \/ reg'[x] = reg[x] /\ since'[x] = since[x]
                            \/ reg'[x] = now' /\ since'[x] = Len(events')
    BY <1>2, <1>9
  <2>. QED BY <1>3, <1>8, <2>1, <2>2, <2>3, TableOf
<1>11. Quiet
  BY <1>2, <1>3, <1>8, <1>9 DEF Quiet
<1>12. News({}, {})
  BY <1>2 DEF News
<1>. QED BY <1>10, <1>11, <1>12, Kept

\* The scripts' handlers are deleted, time passes, or the simulation's state changes.
LEMMA FrameKeeps ==
  ASSUME IInv, IInv', HInv, DeleteScriptHandlers \/ Tick \/ SetSimState
  PROVE  HInv'
<1>1. /\ TableOK /\ now \in Nat /\ Len(events) \in Nat
      /\ reg \in [Handlers -> 0 .. now] /\ since \in [Handlers -> 0 .. Len(events)]
      /\ UNCHANGED <<reg, since, queues, zombie, released, events, stack>> /\ now <= now'
  BY DEF HInv, TableOK, IInv, QueuesOK, DeleteScriptHandlers, Tick, SetSimState, histVars
<1>2. News({}, {})
  BY <1>1 DEF News
<1>3. CASE DeleteScriptHandlers
  <2>1. table' = [k \in Keys |-> EngineOnly(table[k])] /\ UNCHANGED <<running, now>>
    BY <1>3 DEF DeleteScriptHandlers
  <2>2. \A k \in Keys : /\ EngineOnly(table[k]) \in Row(k)
                        /\ ToSet(EngineOnly(table[k])) \subseteq ToSet(table[k])
    BY <1>1, Rows, EngineRow
  <2>3. /\ table' \in [Keys -> Seq(Handlers)]
        /\ \A k \in Keys : table'[k] \in Row(k) /\ ToSet(table'[k]) \subseteq ToSet(table[k])
    BY <2>1, <2>2 DEF Row
  <2>4. TableOK'
    BY <1>1, <2>1, <2>3, SameTypes, TableOf
  <2>5. Quiet
    BY <1>1, <2>1, <2>3 DEF Quiet
  <2>. QED BY <1>1, <1>2, <2>4, <2>5, Kept
<1>4. CASE Tick
  <2>1. UNCHANGED <<table, running>>
    BY <1>4 DEF Tick
  <2>2. TableOK'
    BY <1>1, <2>1, SameTypes, Rows, TableOf DEF TableOK
  <2>3. Quiet
    BY <1>1, <2>1 DEF Quiet
  <2>. QED BY <1>1, <1>2, <2>2, <2>3, Kept
<1>5. CASE SetSimState
  <2>1. UNCHANGED <<table, now>> /\ running' \in BOOLEAN /\ stack = <<>>
    BY <1>5 DEF SetSimState
  <2>2. TableOK'
    BY <1>1, <2>1, SameTypes, Rows, TableOf DEF TableOK
  <2>3. ToldOK'
    BY <1>1, <2>1 DEF HInv, ToldOK, Told
  <2>4. MemoOK'
    BY <1>1, <2>1 DEF MemoOK, ToSet
  <2>. QED BY <2>2, <2>3, <2>4 DEF HInv
<1>. QED BY <1>3, <1>4, <1>5
-----------------------------------------------------------------------------
(* The theorems about the handlers *)

\* No handler is registered and no event is under way.
LEMMA InitRight == Init => HInv
<1> SUFFICES ASSUME Init PROVE HInv
  OBVIOUS
<1>1. /\ table = [k \in Keys |-> <<>>] /\ reg = [h \in Handlers |-> 0] /\ since = reg
      /\ queues = [i \in {0, 1} |-> <<>>] /\ stack = <<>> /\ now = 0 /\ events = <<>>
      /\ running = TRUE /\ zombie = FALSE /\ released = [i \in Ids |-> 0]
  BY DEF Init
<1>2. ToSet(<<>>) = {} /\ Len(<<>>) = 0
  BY DEF ToSet
<1>3. TableOK
  <2>1. table \in [Keys -> Seq(Handlers)] /\ \A k \in Keys : DOMAIN table[k] = {}
    BY <1>1
  <2>2. reg \in [Handlers -> 0 .. now] /\ since \in [Handlers -> 0 .. Len(events)]
    BY <1>1, <1>2
  <2>3. running \in BOOLEAN /\ zombie \in BOOLEAN
    BY <1>1, Zenon
  <2>4. released \in [Ids -> 0 .. 1]
    BY <1>1
  <2>. QED BY <2>1, <2>2, <2>3, <2>4 DEF TableOK
<1>4. ToldOK /\ MemoOK
  BY <1>1, <1>2 DEF ToldOK, MemoOK
<1>. QED BY <1>3, <1>4 DEF HInv

\* Every action keeps HInv.
LEMMA HandlersInductive == IInv /\ HInv /\ [Next]_vars => IInv' /\ HInv'
<1> SUFFICES ASSUME IInv, HInv, [Next]_vars PROVE HInv'
  BY Inductive
<1>1. IInv'
  BY Inductive
<1>2. CASE UNCHANGED vars
  BY <1>1, <1>2, CallKeeps
<1>3. CASE Step
  BY <1>1, <1>3, LoopKeeps, ExecuteKeeps, UnregisterKeeps, ReturnKeeps DEF Step
<1>4. CASE Calls
  <2>1. ASSUME NEW k \in {"global", "entity"}, NEW script \in BOOLEAN,
               Notify(k, script) \/ NotifyImmediate(k, script)
        PROVE  HInv'
    <3>1. k \in Keys
      BY DEF Keys
    <3>. QED BY <1>1, <2>1, <3>1, NotifyKeeps
  <2>. QED BY <1>1, <1>4, <2>1, RegisterKeeps, UnregisterKeeps, CallKeeps DEF Calls
<1>5. CASE ServiceQueue \/ ClearPendingEvents
  BY <1>1, <1>5, CallKeeps
<1>6. CASE DeleteScriptHandlers \/ Tick \/ SetSimState
  BY <1>1, <1>6, FrameKeeps
<1>. QED BY <1>2, <1>3, <1>4, <1>5, <1>6 DEF Next

\* IInv and HInv hold throughout.
THEOREM HandlersInvariance == Spec => [](IInv /\ HInv)
BY InitOK, InitRight, HandlersInductive, PTL DEF Spec

\* When an event has been handled, every handler that was registered before it was
\* notified, and still is, has been executed for it, unless the simulation's state
\* masks it: none is skipped when the handlers change while they are gone through.
THEOREM NoneSkippedHolds == Spec => []NoneSkipped
<1>1. IInv /\ HInv => NoneSkipped
  <2> SUFFICES ASSUME IInv, HInv, InKind("handle"), Chosen(Top) = 0,
                      NEW h \in ToSet(table[Top.ev.key]), Eligible(Top, h)
               PROVE  h \in Top.ran
    BY DEF NoneSkipped
  <2>1. Top \in Calling /\ Top.kind = "handle" /\ HandlingOK(Top)
    BY TopRight DEF InKind
  <2>2. Top.ev.key \in Keys
    BY <2>1 DEF Calling, EventRecords
  <2>3. Fetched(Top) \in Seq(Handlers)
    BY <2>2, Rows DEF HInv, Fetched
  <2>4. h \in Top.memo
    BY <2>3, ChosenFirst DEF Fetched, Fresh
  <2>. QED BY <2>1, <2>4 DEF HandlingOK
<1>. QED BY <1>1, HandlersInvariance, PTL

\* The queues, the handler table and the calls in progress have their types: a handler
\* is in the table once, so that a row is never longer than there are handlers.
THEOREM EventTypes == Spec => []TypeOK
<1>1. IInv /\ HInv => TypeOK
  <2> SUFFICES ASSUME IInv, HInv PROVE TypeOK
    OBVIOUS
  <2>1. \A k \in Keys : /\ ToSet(table[k]) \subseteq {h \in Handlers : Key[h] = k}
                        /\ Len(table[k]) <= Cardinality(Handlers)
    <3>1. ASSUME NEW k \in Keys, NEW s \in Row(k)
          PROVE  ToSet(s) \subseteq {h \in Handlers : Key[h] = k}
      BY DEF Row, ToSet
    <3>. QED BY <3>1, Rows, RowLength DEF HInv
  <2>2. reg \in [Handlers -> 0 .. MaxNow]
    <3>1. reg \in [Handlers -> 0 .. now] /\ now \in 0 .. MaxNow
      BY DEF HInv, TableOK, IInv, QueuesOK
    <3>2. \A h \in Handlers : reg[h] \in 0 .. MaxNow
      BY <3>1
    <3>. QED BY <3>1, <3>2
  <2>3. \A i \in {0, 1} : ToSet(queues[i]) \subseteq EventRecords
    <3>1. ASSUME NEW q \in Seq(Notified) PROVE ToSet(q) \subseteq EventRecords
      <4>1. Notified \subseteq EventRecords
        BY DEF Notified, EventRecords
      <4>2. ToSet(q) \subseteq Notified
        BY DEF ToSet
      <4>. QED BY <4>1, <4>2
    <3>. QED BY <3>1 DEF IInv, QueuesOK
  <2>4. front \in {0, 1} /\ ToSet(stack) \subseteq Calling
    BY DEF IInv, QueuesOK, HInv, MemoOK
  <2>5. {running, zombie, saved} \subseteq BOOLEAN
    BY DEF IInv, QueuesOK, HInv, TableOK
  <2>6. begun \cup cleared \subseteq Ids
    <3>1. begun \cup cleared \subseteq 1 .. Len(events) /\ Len(events) \in Nat
          /\ Len(events) <= MaxEvents
      BY DEF IInv, PlacesOK, QueuesOK
    <3>. QED BY <3>1
  <2>7. released \in [Ids -> 0 .. 1]
    BY SameTypes
  <2>. QED BY <2>1, <2>2, <2>3, <2>4, <2>5, <2>6, <2>7 DEF TypeOK
<1>. QED BY <1>1, HandlersInvariance, PTL

\* An event notified is neither lost nor handled twice, and its argument lives as long
\* as the event.
THEOREM EventsKeptHolds == Spec => []EventsKept
<1>1. TypeOK /\ NoneLost /\ NotReleasedEarly => EventsKept
  BY DEF EventsKept
<1>. QED BY <1>1, EventTypes, NoneLostHolds, NotReleasedEarlyHolds, PTL

\* The steps in which a handler begins to be executed are those of Execute.
LEMMA BeginsExecutes ==
  ASSUME IInv, HInv, [Next]_vars, NEW h \in Handlers, Begins(h)
  PROVE  Execute(h)
<1>1. /\ stack # <<>> /\ Top.kind = "handle" /\ Top.cur = None /\ InKind("handle")
      /\ Len(stack') = Len(stack) /\ stack'[Len(stack)].cur = h /\ h # None
  BY DEF Begins, InKind
<1>2. IsSeq(stack) /\ Len(stack) \in Nat \ {0} /\ Top = stack[Len(stack)]
      /\ Top \in Calling
  BY <1>1, TopCall, TopRight
<1>3. stack' # stack /\ ~Outside
  BY <1>1, <1>2 DEF Outside
<1>4. \A c : stack' # Append(stack, c)
  BY <1>1, <1>2, OneCallMore
<1>5. stack' # Front(stack)
  BY <1>1, <1>2, OneCallLess
<1>6. ASSUME NEW x \in Handlers, Execute(x) PROVE x = h
  <2>1. PICK d : d = [Top EXCEPT !.cur = x, !.ran = @ \cup {x}, !.curr = Fetched(Top),
                                 !.memo = @ \cup ToSet(PassedOver(Top))]
    OBVIOUS
  <2>2. stack' = WithTop(d)
    BY <1>6, <2>1 DEF Execute, Select
  <2>3. stack'[Len(stack)] = d
    BY <1>1, <1>2, <2>2, NewTop DEF WithTop
  <2>4. d.cur = x
    BY <1>1, <1>2, <2>1 DEF Calling
  <2>. QED BY <1>1, <2>3, <2>4
<1>7. ASSUME NEW x \in Handlers, WeakrefDied(x) PROVE FALSE
  <2>1. PICK d : d = [Top EXCEPT !.curr = Fetched(Top), !.memo = @ \cup ToSet(PassedOver(Top))]
    OBVIOUS
  <2>2. stack' = WithTop(d)
    BY <1>7, <2>1 DEF WeakrefDied, Select
  <2>3. stack'[Len(stack)] = d
    BY <1>1, <1>2, <2>2, NewTop DEF WithTop
  <2>4. d.cur = None
    BY <1>1, <1>2, <2>1 DEF Calling
  <2>. QED BY <1>1, <2>3, <2>4
<1>8. CASE UNCHANGED vars
  BY <1>3, <1>8 DEF vars
<1>9. CASE Step
  <2>1. ~(LoopFrameEvent \/ LoopPop \/ LoopAgain \/ Return)
    BY <1>1 DEF LoopFrameEvent, LoopPop, LoopAgain, Return
  <2>2. ~HandleDone
    BY <1>5 DEF HandleDone
  <2>. QED BY <1>6, <1>7, <1>9, <2>1, <2>2 DEF Step
<1>10. CASE Calls
  BY <1>3, <1>10 DEF Calls, Notify, NotifyImmediate, Register, Unregister, FlushEventQueue, Zombiefy
<1>11. CASE ServiceQueue \/ ClearPendingEvents \/ DeleteScriptHandlers \/ SetSimState
  BY <1>1, <1>11 DEF ServiceQueue, ClearPendingEvents, DeleteScriptHandlers, SetSimState
<1>12. CASE Tick
  BY <1>3, <1>12 DEF Tick
<1>. QED BY <1>8, <1>9, <1>10, <1>11, <1>12 DEF Next

\* A handler is executed for an event only if it is registered at that moment, was
\* registered when the event was notified, and has not been executed for it yet.
THEOREM HandledRightHolds == Spec => HandledRight
<1> DEFINE Now == \A h \in Handlers : Begins(h) => h \in ToSet(table[Key[h]])
           Once == \A h \in Handlers : Begins(h) => h \notin Top.ran
           Before == \A h \in Handlers : Begins(h) /\ Top.ev.id # 0 => since[h] < Top.ev.id
<1>1. IInv /\ HInv /\ [Next]_vars => Now /\ Once /\ Before
  <2> SUFFICES ASSUME IInv, HInv, [Next]_vars, NEW h \in Handlers, Begins(h)
               PROVE  /\ h \in ToSet(table[Key[h]]) /\ h \notin Top.ran
                      /\ Top.ev.id # 0 => since[h] < Top.ev.id
    OBVIOUS
  <2>1. /\ stack # <<>> /\ Top.kind = "handle" /\ Chosen(Top) # 0
        /\ h = Fetched(Top)[Chosen(Top)]
    BY BeginsExecutes DEF Execute, Select, InKind
  <2>2. Top \in Calling /\ HandlingOK(Top) /\ TableOK
    BY <2>1, TopRight DEF HInv
  <2>3. /\ h \in ToSet(Fetched(Top)) /\ Key[h] = Top.ev.key
        /\ Fresh(Top, h) /\ Eligible(Top, h)
    BY <2>1, <2>2, PassedOverRight
  <2>4. h \in ToSet(table[Key[h]])
    BY <2>3 DEF Fetched
  <2>5. h \notin Top.ran
    BY <2>2, <2>3 DEF HandlingOK, Fresh
  <2>6. reg[h] < Top.ev.tick
    <3>1. reg[h] \in Nat /\ Top.ev.tick \in Nat
      <4>1. reg \in [Handlers -> 0 .. now]
        BY <2>2 DEF TableOK
      <4>2. Top.ev.tick \in 0 .. MaxNow
        BY <2>1, <2>2 DEF Calling, EventRecords
      <4>. QED BY <4>1, <4>2
    <3>. QED BY <2>3, <3>1 DEF Eligible, TooLate
  <2>7. Top.ev.id # 0 => since[h] < Top.ev.id
    BY <2>2, <2>6 DEF HandlingOK, Told
  <2>. QED BY <2>4, <2>5, <2>7
<1>2. Spec => [][Now /\ Once /\ Before]_vars
  BY <1>1, HandlersInvariance, PTL DEF Spec
<1>. QED BY <1>2, PTL DEF HandledRight, NeverAfterUnregister, OncePerEvent, NotBeforeRegistered
=============================================================================
