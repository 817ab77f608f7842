----------------------------- MODULE LoopProofs -----------------------------
(***************************************************************************)
(* Proofs about three parts of the main loop that share no state.          *)
(*                                                                         *)
(* Services: whoever is blocked on a service is known to it in one place   *)
(* (AnswersOwed), a name leads to the task that registered it              *)
(* (NamesOfLiving), and nobody is woken early (SleepsLongEnough).          *)
(*                                                                         *)
(* RenderSync, for any number of commands in a batch: SyncInv is inductive,*)
(* and the safety properties follow from it.  There is a lemma for each    *)
(* action of the render thread, and one for each function the main thread  *)
(* is made of, with the places where it is called; under it one step for   *)
(* each part of the invariant.                                             *)
(*                                                                         *)
(* Session, for any number of script runs, requests and queued events:     *)
(* SessionInv is inductive as long as the script that is being pushed does *)
(* not save the session.                                                   *)
(***************************************************************************)
EXTENDS Services, RenderSync, Session, FiniteSetTheorems, SequenceTheorems, TLAPS

-----------------------------------------------------------------------------
(* The inductive invariant *)

\* What the clients send to the name server, and what it has of one afterwards.
Sent == [type : {"REGISTER", "WHOIS"}, tid : Tids, name : Names, blocking : BOOLEAN]
        \cup [type : {"UNREGISTER"}, tid : Tids, name : {NoName}, blocking : {FALSE}]
Registered == [type : {"REGISTERED"}, tid : Tids, name : Names, blocking : BOOLEAN]

\* What the clients send to the time server.
Delay == [tid : Tids, ticks : Delays, due : 0 .. MaxTicks]
Desc == [tid : Tids, wake : 0 .. TickMod - 1, due : 0 .. MaxTicks]

ClientsTyped ==
  /\ life \in [Tids -> 1 .. MaxLives]
  /\ doing \in [Tids -> {"run", "calling", "leaving", "gone"}]
  /\ named \in [Tids -> BOOLEAN]
  /\ lookedUp \in [Tids -> Refs]

NamesTyped ==
  /\ names \in [Names -> Refs]
  /\ waiters \in [Names -> Seq(Tids)]
  /\ nsQueue \in Seq(Sent)
  /\ ns \in Sent \cup Registered \cup {Idle}

TimeTyped ==
  /\ now \in 0 .. MaxTicks
  /\ descs \subseteq Desc
  /\ tsQueue \in Seq(Delay \cup {Tick})
  /\ ts \subseteq {Ticks(k) : k \in 0 .. now}
  /\ \A a, b \in ts : a = b

Typed == ClientsTyped /\ NamesTyped /\ TimeTyped

\* No two messages of a queue are from the same task, and a tick is sent only
\* when the one before has been received.
Apart(q) == \A i, j \in DOMAIN q : q[i].tid = q[j].tid => i = j

Distinct ==
  /\ Apart(nsQueue) /\ Apart(tsQueue)
  /\ \A m, n \in Names : m # n => ToSet(waiters[m]) \cap ToSet(waiters[n]) = {}
  /\ \A d, e \in descs : d.tid = e.tid => d = e
  /\ \A d \in descs, r \in ToSet(tsQueue) : r.tid # d.tid
  /\ Tick \in ToSet(tsQueue) => notified

\* A task is known to the services in one place if it is blocked on one of them,
\* and in none otherwise.
Blocked(t) == doing[t] \in {"calling", "leaving"}

Held(t) ==
  /\ Blocked(t) <=> InQueue(t) \/ Served(t) \/ Waits(t) \/ Sleeps(t)
  /\ InQueue(t) => ~Served(t) /\ ~Waits(t) /\ ~Sleeps(t)
  /\ Served(t) => ~Waits(t) /\ ~Sleeps(t)
  /\ Waits(t) => ~Sleeps(t)

AllHeld == \A t \in Tids : Held(t)

IInv == Typed /\ Distinct /\ AllHeld
-----------------------------------------------------------------------------
(* Queues of messages *)

\* What is sent is added to the messages of the queue.
LEMMA Appended ==
  ASSUME NEW S, NEW q \in Seq(S), NEW e \in S
  PROVE  /\ Append(q, e) \in Seq(S)
         /\ ToSet(Append(q, e)) = ToSet(q) \cup {e}
<1>1. /\ Append(q, e) \in Seq(S) /\ Len(Append(q, e)) = Len(q) + 1 /\ Len(q) \in Nat
      /\ DOMAIN Append(q, e) = 1 .. Len(q) + 1 /\ DOMAIN q = 1 .. Len(q)
      /\ \A i \in 1 .. Len(q) : Append(q, e)[i] = q[i]
      /\ Append(q, e)[Len(q) + 1] = e
  OBVIOUS
<1>2. ToSet(Append(q, e)) \subseteq ToSet(q) \cup {e}
  BY <1>1 DEF ToSet
<1>3. ToSet(q) \subseteq ToSet(Append(q, e))
  BY <1>1 DEF ToSet
<1>4. e \in ToSet(Append(q, e))
  BY <1>1 DEF ToSet
<1>. QED BY <1>1, <1>2, <1>3, <1>4

\* A message of a task from which there is none stays apart from the others.
LEMMA AppendedApart ==
  ASSUME NEW S, NEW q \in Seq(S), NEW e \in S, Apart(q), \A r \in ToSet(q) : r.tid # e.tid
  PROVE  Apart(Append(q, e))
<1>1. /\ Len(q) \in Nat /\ DOMAIN Append(q, e) = 1 .. Len(q) + 1 /\ DOMAIN q = 1 .. Len(q)
      /\ \A i \in 1 .. Len(q) : Append(q, e)[i] = q[i]
      /\ Append(q, e)[Len(q) + 1] = e
  OBVIOUS
<1>2. \A i \in 1 .. Len(q) : q[i].tid # e.tid
  BY <1>1 DEF ToSet
<1>3. ASSUME NEW i \in 1 .. Len(q) + 1, NEW j \in 1 .. Len(q) + 1,
             Append(q, e)[i].tid = Append(q, e)[j].tid
      PROVE  i = j
  <2>1. CASE i \in 1 .. Len(q) /\ j \in 1 .. Len(q)
    BY <1>1, <1>3, <2>1 DEF Apart
  <2>2. CASE i = Len(q) + 1 /\ j \in 1 .. Len(q)
    BY <1>1, <1>2, <1>3, <2>2
  <2>3. CASE i \in 1 .. Len(q) /\ j = Len(q) + 1
    BY <1>1, <1>2, <1>3, <2>3
  <2>. QED BY <1>1, <2>1, <2>2, <2>3
<1>. QED BY <1>1, <1>3 DEF Apart

\* The message that is received leaves the queue, and it was the only one of its
\* sender.
LEMMA Received ==
  ASSUME NEW S, NEW q \in Seq(S), q # <<>>, Apart(q)
  PROVE  /\ Tail(q) \in Seq(S) /\ Apart(Tail(q))
         /\ Head(q) \in ToSet(q) /\ Head(q) \in S
         /\ ToSet(Tail(q)) = ToSet(q) \ {Head(q)}
         /\ \A r \in ToSet(q) : r.tid = Head(q).tid => r = Head(q)
<1>1. /\ Tail(q) \in Seq(S) /\ Len(q) \in Nat \ {0}
      /\ DOMAIN Tail(q) = 1 .. Len(q) - 1 /\ DOMAIN q = 1 .. Len(q)
      /\ \A i \in 1 .. Len(q) - 1 : Tail(q)[i] = q[i + 1]
      /\ Head(q) = q[1] /\ q[1] \in S /\ 1 \in DOMAIN q
  OBVIOUS
<1>2. Head(q) \in ToSet(q)
  BY <1>1 DEF ToSet
<1>3. \A r \in ToSet(q) : r.tid = Head(q).tid => r = Head(q)
  BY <1>1 DEF ToSet, Apart
<1>4. ASSUME NEW i \in DOMAIN Tail(q), NEW j \in DOMAIN Tail(q), Tail(q)[i].tid = Tail(q)[j].tid
      PROVE  i = j
  <2>1. i + 1 \in DOMAIN q /\ j + 1 \in DOMAIN q /\ q[i + 1].tid = q[j + 1].tid
    BY <1>1, <1>4
  <2>2. i + 1 = j + 1
    BY <2>1 DEF Apart
  <2>. QED BY <1>1, <2>2
<1>5. ToSet(Tail(q)) \subseteq ToSet(q) \ {Head(q)}
  <2>1. ASSUME NEW i \in DOMAIN Tail(q) PROVE Tail(q)[i] \in ToSet(q) /\ Tail(q)[i] # Head(q)
    <3>1. i + 1 \in DOMAIN q /\ Tail(q)[i] = q[i + 1] /\ i + 1 # 1
      BY <1>1
    <3>. QED BY <1>1, <3>1 DEF ToSet, Apart
  <2>. QED BY <2>1 DEF ToSet
<1>6. ToSet(q) \ {Head(q)} \subseteq ToSet(Tail(q))
  <2>1. ASSUME NEW i \in DOMAIN q, q[i] # Head(q) PROVE q[i] \in ToSet(Tail(q))
    <3>1. i - 1 \in DOMAIN Tail(q) /\ Tail(q)[i - 1] = q[i]
      BY <1>1, <2>1
    <3>. QED BY <3>1 DEF ToSet
  <2>. QED BY <2>1 DEF ToSet
<1>. QED BY <1>1, <1>2, <1>3, <1>4, <1>5, <1>6 DEF Apart

\* As many messages as there are tasks can be in a queue.
LEMMA Short ==
  ASSUME NEW q, NEW S, q \in Seq(S), NEW T, IsFiniteSet(T), \A r \in S : r.tid \in T, Apart(q)
  PROVE  Len(q) <= Cardinality(T)
<1>. DEFINE f == [i \in 1 .. Len(q) |-> q[i].tid]
<1>1. Len(q) \in Nat /\ DOMAIN q = 1 .. Len(q) /\ \A i \in 1 .. Len(q) : q[i].tid \in T
  OBVIOUS
<1>2. f \in Injection(1 .. Len(q), T)
  BY <1>1 DEF Injection, Apart, IsInjective
<1>. HIDE DEF f
<1>3. Cardinality(1 .. Len(q)) <= Cardinality(T)
  BY <1>2, FS_Injection
<1>4. Cardinality(1 .. Len(q)) = Len(q)
  <2>1. PICK n \in Nat : n = Len(q)
    BY <1>1
  <2>2. Cardinality(1 .. n) = IF 1 > n THEN 0 ELSE n - 1 + 1
    BY FS_Interval
  <2>. QED BY <2>1, <2>2
<1>. QED BY <1>3, <1>4
-----------------------------------------------------------------------------
(* The places in which a task is known *)

\* In terms of the messages themselves.
LEMMA PlacesSeen ==
  ASSUME NEW t \in Tids
  PROVE  /\ InQueue(t) <=> \E r \in ToSet(nsQueue) : r.tid = t
         /\ Sleeps(t) <=> (\E d \in descs : d.tid = t) \/ \E r \in ToSet(tsQueue) : r.tid = t
BY DEF InQueue, Sleeps, ToSet

\* As they are after a step.
LEMMA PlacesSeenNext ==
  ASSUME NEW t \in Tids
  PROVE  /\ InQueue(t)' <=> \E r \in ToSet(nsQueue') : r.tid = t
         /\ Sleeps(t)' <=> (\E d \in descs' : d.tid = t) \/ \E r \in ToSet(tsQueue') : r.tid = t
BY DEF InQueue, Sleeps, ToSet

\* A step that leaves the places alone but for those of a task that calls a
\* service: the task is then in one of them.
LEMMA Called ==
  ASSUME AllHeld, NEW t \in Tids, ClientsTyped, doing[t] = "run",
         NEW leaving \in BOOLEAN,
         doing' = [doing EXCEPT ![t] = IF leaving THEN "leaving" ELSE "calling"],
         NEW queue \in BOOLEAN, NEW sleep \in BOOLEAN, queue <=> ~sleep,
         \A x \in Tids : /\ InQueue(x)' <=> InQueue(x) \/ (x = t /\ queue)
                         /\ Served(x)' <=> Served(x)
                         /\ Waits(x)' <=> Waits(x)
                         /\ Sleeps(x)' <=> Sleeps(x) \/ (x = t /\ sleep)
  PROVE  AllHeld'
<1>1. ASSUME NEW x \in Tids PROVE Held(x)'
  <2>0. Held(x) /\ Held(t) /\ ~Blocked(t)
    BY DEF AllHeld, Blocked
  <2>1. CASE x = t
    <3>1. Blocked(t)'
      BY DEF Blocked, ClientsTyped
    <3>. QED BY <2>0, <2>1, <3>1 DEF Held
  <2>2. CASE x # t
    <3>1. Blocked(x)' <=> Blocked(x)
      BY <2>2 DEF Blocked, ClientsTyped
    <3>. QED BY <2>0, <2>2, <3>1 DEF Held
  <2>. QED BY <2>1, <2>2
<1>. QED BY <1>1 DEF AllHeld

\* One in which the tasks of a set are replied to: they are known nowhere then.
LEMMA Answered ==
  ASSUME AllHeld, NEW S, ClientsTyped,
         doing' = Replied(S),
         \A x \in Tids : /\ x \in S => InQueue(x) \/ Served(x) \/ Waits(x) \/ Sleeps(x)
                         /\ x \in S => ~InQueue(x)' /\ ~Served(x)' /\ ~Waits(x)' /\ ~Sleeps(x)',
         \A x \in Tids \ S : /\ InQueue(x)' <=> InQueue(x)
                             /\ Served(x)' <=> Served(x)
                             /\ Waits(x)' <=> Waits(x)
                             /\ Sleeps(x)' <=> Sleeps(x)
  PROVE  AllHeld'
<1>1. ASSUME NEW x \in Tids PROVE Held(x)'
  <2>0. Held(x)
    BY DEF AllHeld
  <2>1. CASE x \in S
    <3>1. ~Blocked(x)'
      BY <2>1 DEF Blocked, ClientsTyped, Replied
    <3>. QED BY <2>0, <2>1, <3>1 DEF Held
  <2>2. CASE x \notin S
    <3>1. Blocked(x)' <=> Blocked(x)
      BY <2>2 DEF Blocked, ClientsTyped, Replied
    <3>. QED BY <2>0, <2>2, <3>1 DEF Held
  <2>. QED BY <2>1, <2>2
<1>. QED BY <1>1 DEF AllHeld

\* One that moves a task from one place to another, and nobody else.
LEMMA MovedOn ==
  ASSUME AllHeld, NEW h \in Tids,
         \A x \in Tids : Blocked(x)' <=> Blocked(x),
         Held(h)',
         \A x \in Tids \ {h} : /\ InQueue(x)' <=> InQueue(x)
                               /\ Served(x)' <=> Served(x)
                               /\ Waits(x)' <=> Waits(x)
                               /\ Sleeps(x)' <=> Sleeps(x)
  PROVE  AllHeld'
<1>1. ASSUME NEW x \in Tids \ {h} PROVE Held(x)'
  BY DEF AllHeld, Held
<1>. QED BY <1>1 DEF AllHeld
-----------------------------------------------------------------------------
(* The steps of the clients *)

\* A request to the name server.
LEMMA NsCallStep ==
  ASSUME IInv, NEW t \in Tids, NEW type, NEW n, NEW blocking,
         NEW r \in Sent, r = [type |-> type, tid |-> t, name |-> n, blocking |-> blocking],
         NsCall(t, type, n, blocking),
         lookedUp' \in [Tids -> Refs], named' \in [Tids -> BOOLEAN]
  PROVE  IInv'
<1>. DEFINE leaving == type = "UNREGISTER"
<1>1. /\ doing[t] = "run" /\ life' = life
      /\ doing' = [doing EXCEPT ![t] = IF leaving THEN "leaving" ELSE "calling"]
      /\ nsQueue' = Append(nsQueue, r)
      /\ names' = names /\ waiters' = waiters /\ ns' = ns
      /\ now' = now /\ descs' = descs /\ tsQueue' = tsQueue /\ ts' = ts /\ notified' = notified
  BY DEF NsCall, Call, timeVars
<1>2. r.tid = t /\ leaving \in BOOLEAN
  OBVIOUS
<1>. HIDE DEF leaving
<1>3. Typed /\ Distinct /\ AllHeld
  BY DEF IInv
<1>4. nsQueue \in Seq(Sent) /\ Apart(nsQueue)
  BY <1>3 DEF Typed, NamesTyped, Distinct
<1>5. nsQueue' \in Seq(Sent) /\ ToSet(nsQueue') = ToSet(nsQueue) \cup {r}
  BY <1>1, <1>4, Appended
<1>6. ~InQueue(t)
  BY <1>1, <1>3 DEF AllHeld, Held, Blocked
<1>7. Apart(nsQueue')
  <2>1. \A s \in ToSet(nsQueue) : s.tid # r.tid
    BY <1>2, <1>6, PlacesSeen
  <2>. QED BY <1>1, <1>4, <2>1, AppendedApart
<1>8. Typed'
  <2>1. ClientsTyped'
    BY <1>1, <1>2, <1>3 DEF Typed, ClientsTyped
  <2>2. NamesTyped'
    BY <1>1, <1>3, <1>5 DEF Typed, NamesTyped
  <2>3. TimeTyped'
    BY <1>1, <1>3 DEF Typed, TimeTyped
  <2>. QED BY <2>1, <2>2, <2>3 DEF Typed
<1>9. Distinct'
  BY <1>1, <1>3, <1>7 DEF Distinct
<1>10. AllHeld'
  <2>1. ASSUME NEW x \in Tids
        PROVE  /\ InQueue(x)' <=> InQueue(x) \/ x = t
               /\ Served(x)' <=> Served(x)
               /\ Waits(x)' <=> Waits(x)
               /\ Sleeps(x)' <=> Sleeps(x)
    <3>1. InQueue(x)' <=> InQueue(x) \/ x = t
      BY <1>2, <1>5, PlacesSeen, PlacesSeenNext
    <3>2. (Served(x)' <=> Served(x)) /\ (Waits(x)' <=> Waits(x)) /\ (Sleeps(x)' <=> Sleeps(x))
      BY <1>1 DEF Served, Waits, Sleeps
    <3>. QED BY <3>1, <3>2
  <2>2. ClientsTyped
    BY <1>3 DEF Typed
  <2>. QED BY <1>1, <1>2, <1>3, <2>1, <2>2, Called
<1>. QED BY <1>8, <1>9, <1>10 DEF IInv

\* A task sleeps.
LEMMA SleepStep ==
  ASSUME IInv, NEW t \in Tids, NEW d \in Delays, Sleep(t, d)
  PROVE  IInv'
<1>. DEFINE r == [tid |-> t, ticks |-> d, due |-> now + d]
            S == Delay \cup {Tick}
<1>1. /\ doing[t] = "run" /\ life' = life
      /\ doing' = [doing EXCEPT ![t] = IF FALSE THEN "leaving" ELSE "calling"]
      /\ named' = named /\ lookedUp' = lookedUp
      /\ names' = names /\ waiters' = waiters /\ nsQueue' = nsQueue /\ ns' = ns
      /\ now' = now /\ descs' = descs /\ ts' = ts /\ notified' = notified
      /\ tsQueue' = Append(tsQueue, r) /\ now + d <= MaxTicks
  BY DEF Sleep, Call, nameVars
<1>2. Typed /\ Distinct /\ AllHeld
  BY DEF IInv
<1>3. r \in S /\ r.tid = t /\ r # Tick
  BY <1>1, <1>2, ServicesAssumption DEF Typed, TimeTyped, Delay, Tick
<1>4. tsQueue \in Seq(S) /\ Apart(tsQueue)
  BY <1>2 DEF Typed, TimeTyped, Distinct
<1>. HIDE DEF r, S
<1>5. tsQueue' \in Seq(S) /\ ToSet(tsQueue') = ToSet(tsQueue) \cup {r}
  BY <1>1, <1>3, <1>4, Appended
<1>6. /\ \A s \in ToSet(tsQueue) : s.tid # t
      /\ \A e \in descs : e.tid # t
  <2>1. ~Sleeps(t)
    BY <1>1, <1>2 DEF AllHeld, Held, Blocked
  <2>. QED BY <2>1, PlacesSeen
<1>7. Apart(tsQueue')
  BY <1>1, <1>3, <1>4, <1>6, AppendedApart
<1>8. Typed'
  <2>1. ClientsTyped'
    BY <1>1, <1>2 DEF Typed, ClientsTyped
  <2>2. NamesTyped'
    BY <1>1, <1>2 DEF Typed, NamesTyped
  <2>3. TimeTyped'
    BY <1>1, <1>2, <1>5 DEF Typed, TimeTyped, S
  <2>. QED BY <2>1, <2>2, <2>3 DEF Typed
<1>9. Distinct'
  BY <1>1, <1>2, <1>3, <1>5, <1>6, <1>7 DEF Distinct
<1>10. AllHeld'
  <2>1. ASSUME NEW x \in Tids
        PROVE  /\ InQueue(x)' <=> InQueue(x)
               /\ Served(x)' <=> Served(x)
               /\ Waits(x)' <=> Waits(x)
               /\ Sleeps(x)' <=> Sleeps(x) \/ x = t
    <3>1. Sleeps(x)' <=> Sleeps(x) \/ x = t
      BY <1>1, <1>3, <1>5, PlacesSeen, PlacesSeenNext
    <3>2. (Served(x)' <=> Served(x)) /\ (Waits(x)' <=> Waits(x)) /\ (InQueue(x)' <=> InQueue(x))
      BY <1>1 DEF Served, Waits, InQueue
    <3>. QED BY <3>1, <3>2
  <2>2. ClientsTyped
    BY <1>2 DEF Typed
  <2>. QED BY <1>1, <1>2, <2>1, <2>2, Called
<1>. QED BY <1>8, <1>9, <1>10 DEF IInv

\* The tid of a task that is gone is given to another.
LEMMA CreateStep ==
  ASSUME IInv, NEW t \in Tids, Create(t)
  PROVE  IInv'
<1>1. /\ doing[t] = "gone" /\ life[t] < MaxLives
      /\ life' = [life EXCEPT ![t] = @ + 1]
      /\ doing' = [doing EXCEPT ![t] = "run"]
      /\ named' = [named EXCEPT ![t] = FALSE]
      /\ lookedUp' = [lookedUp EXCEPT ![t] = NullTid]
      /\ names' = names /\ waiters' = waiters /\ nsQueue' = nsQueue /\ ns' = ns
      /\ now' = now /\ descs' = descs /\ tsQueue' = tsQueue /\ ts' = ts /\ notified' = notified
  BY DEF Create, nameVars, timeVars
<1>2. Typed /\ Distinct /\ AllHeld
  BY DEF IInv
<1>3. NullTid \in Refs
  BY ServicesAssumption DEF NullTid, Refs
<1>4. Typed'
  <2>1. ClientsTyped'
    BY <1>1, <1>2, <1>3, ServicesAssumption DEF Typed, ClientsTyped
  <2>2. NamesTyped'
    BY <1>1, <1>2 DEF Typed, NamesTyped
  <2>3. TimeTyped'
    BY <1>1, <1>2 DEF Typed, TimeTyped
  <2>. QED BY <2>1, <2>2, <2>3 DEF Typed
<1>5. Distinct'
  BY <1>1, <1>2 DEF Distinct
<1>6. ASSUME NEW x \in Tids PROVE Held(x)'
  <2>1. Blocked(x)' <=> Blocked(x)
    BY <1>1, <1>2 DEF Blocked, Typed, ClientsTyped
  <2>2. /\ InQueue(x)' <=> InQueue(x)
        /\ Served(x)' <=> Served(x)
        /\ Waits(x)' <=> Waits(x)
        /\ Sleeps(x)' <=> Sleeps(x)
    BY <1>1 DEF InQueue, Served, Waits, Sleeps
  <2>. QED BY <1>2, <2>1, <2>2 DEF AllHeld, Held
<1>. QED BY <1>4, <1>5, <1>6 DEF IInv, AllHeld

\* Whatever a client does.
LEMMA ClientStep ==
  ASSUME IInv, NEW t \in Tids, Client(t)
  PROVE  IInv'
<1>1. ClientsTyped /\ NullTid \in Refs
  BY ServicesAssumption DEF IInv, Typed, NullTid, Refs
<1>2. ASSUME NEW n \in Names, Register(t, n) PROVE IInv'
  <2>1. [type |-> "REGISTER", tid |-> t, name |-> n, blocking |-> FALSE] \in Sent
    BY DEF Sent
  <2>2. NsCall(t, "REGISTER", n, FALSE) /\ lookedUp' \in [Tids -> Refs] /\ named' \in [Tids -> BOOLEAN]
    BY <1>1, <1>2 DEF Register, ClientsTyped
  <2>. QED BY <2>1, <2>2, NsCallStep
<1>3. ASSUME NEW n \in Names, NEW b \in BOOLEAN, WhoIs(t, n, b) PROVE IInv'
  <2>1. [type |-> "WHOIS", tid |-> t, name |-> n, blocking |-> b] \in Sent
    BY DEF Sent
  <2>2. NsCall(t, "WHOIS", n, b) /\ lookedUp' \in [Tids -> Refs] /\ named' \in [Tids -> BOOLEAN]
    BY <1>1, <1>3 DEF WhoIs, ClientsTyped
  <2>. QED BY <2>1, <2>2, NsCallStep
<1>4. ASSUME Unregister(t) PROVE IInv'
  <2>1. [type |-> "UNREGISTER", tid |-> t, name |-> NoName, blocking |-> FALSE] \in Sent
    BY DEF Sent
  <2>2. NsCall(t, "UNREGISTER", NoName, FALSE) /\ lookedUp' \in [Tids -> Refs] /\ named' \in [Tids -> BOOLEAN]
    BY <1>1, <1>4 DEF Unregister, ClientsTyped
  <2>. QED BY <2>1, <2>2, NsCallStep
<1>. QED BY <1>2, <1>3, <1>4, SleepStep, CreateStep DEF Client
-----------------------------------------------------------------------------
(* The steps of the name server *)

\* What the name server has of a request is of a client.
LEMMA OfClient ==
  ASSUME NamesTyped
  PROVE  /\ ns.type \in {"REGISTER", "WHOIS", "UNREGISTER", "REGISTERED"} =>
              ns \in Sent \cup Registered /\ ns.tid \in Tids
         /\ ns.type \in {"REGISTER", "WHOIS", "REGISTERED"} => ns.name \in Names
         /\ ns.type = "REGISTERED" <=> ns \in Registered
         /\ ns.type \in {"REGISTER", "WHOIS", "UNREGISTER"} <=> ns \in Sent
<1>1. CASE ns \in Sent
  <2>1. ns.type \in {"REGISTER", "WHOIS", "UNREGISTER"} /\ ns.tid \in Tids
    BY <1>1 DEF Sent
  <2>2. ns.type \in {"REGISTER", "WHOIS"} => ns.name \in Names
    BY <1>1 DEF Sent
  <2>3. ns \notin Registered
    BY <2>1 DEF Registered
  <2>. QED BY <1>1, <2>1, <2>2, <2>3
<1>2. CASE ns \in Registered
  <2>1. ns.type = "REGISTERED" /\ ns.tid \in Tids /\ ns.name \in Names
    BY <1>2 DEF Registered
  <2>2. ns \notin Sent
    BY <2>1 DEF Sent
  <2>. QED BY <1>2, <2>1, <2>2
<1>3. CASE ns = Idle
  <2>1. ns.type = "NONE"
    BY <1>3 DEF Idle
  <2>2. ns \notin Sent
    BY <2>1 DEF Sent
  <2>3. ns \notin Registered
    BY <2>1 DEF Registered
  <2>. QED BY <2>1, <2>2, <2>3
<1>. QED BY <1>1, <1>2, <1>3 DEF NamesTyped

\* What a task's tid and life are recorded as.
LEMMA TaskTyped ==
  ASSUME ClientsTyped, NEW t \in Tids
  PROVE  Task(t) \in Refs
BY ServicesAssumption DEF ClientsTyped, Task, Refs

\* It receives the next request.
LEMMA NsReceiveStep ==
  ASSUME IInv, NsReceive
  PROVE  IInv'
<1>1. /\ ns = Idle /\ nsQueue # <<>> /\ ns' = Head(nsQueue) /\ nsQueue' = Tail(nsQueue)
      /\ life' = life /\ doing' = doing /\ named' = named /\ lookedUp' = lookedUp
      /\ names' = names /\ waiters' = waiters
      /\ now' = now /\ descs' = descs /\ tsQueue' = tsQueue /\ ts' = ts /\ notified' = notified
  BY DEF NsReceive, clientVars, timeVars
<1>2. Typed /\ Distinct /\ AllHeld
  BY DEF IInv
<1>3. nsQueue \in Seq(Sent) /\ Apart(nsQueue)
  BY <1>2 DEF Typed, NamesTyped, Distinct
<1>4. /\ nsQueue' \in Seq(Sent) /\ Apart(nsQueue') /\ ns' \in Sent /\ ns' \in ToSet(nsQueue)
      /\ ToSet(nsQueue') = ToSet(nsQueue) \ {ns'}
      /\ \A r \in ToSet(nsQueue) : r.tid = ns'.tid => r = ns'
  BY <1>1, <1>3, Received
<1>5. PICK h \in Tids : h = ns'.tid /\ ns'.type \in {"REGISTER", "WHOIS", "UNREGISTER"}
  BY <1>4 DEF Sent
<1>6. Typed'
  <2>1. ClientsTyped'
    BY <1>1, <1>2 DEF Typed, ClientsTyped
  <2>2. NamesTyped'
    BY <1>1, <1>2, <1>4 DEF Typed, NamesTyped
  <2>3. TimeTyped'
    BY <1>1, <1>2 DEF Typed, TimeTyped
  <2>. QED BY <2>1, <2>2, <2>3 DEF Typed
<1>7. Distinct'
  <2>1. Apart(nsQueue') /\ Apart(tsQueue')
    BY <1>1, <1>2, <1>4 DEF Distinct
  <2>. QED BY <1>1, <1>2, <2>1 DEF Distinct
<1>8. \A x \in Tids : /\ InQueue(x)' <=> InQueue(x) /\ x # h
                      /\ Served(x)' <=> x = h
                      /\ Waits(x)' <=> Waits(x)
                      /\ Sleeps(x)' <=> Sleeps(x)
                      /\ Blocked(x)' <=> Blocked(x)
                      /\ ~Served(x)
  <2>1. ASSUME NEW x \in Tids PROVE InQueue(x)' <=> InQueue(x) /\ x # h
    BY <1>4, <1>5, PlacesSeen, PlacesSeenNext
  <2>2. ASSUME NEW x \in Tids PROVE (Served(x)' <=> x = h) /\ ~Served(x)
    BY <1>1, <1>5 DEF Served, Idle
  <2>3. ASSUME NEW x \in Tids PROVE (Waits(x)' <=> Waits(x)) /\ (Sleeps(x)' <=> Sleeps(x)) /\ (Blocked(x)' <=> Blocked(x))
    BY <1>1 DEF Waits, Sleeps, Blocked
  <2>. QED BY <2>1, <2>2, <2>3
<1>9. AllHeld'
  <2>1. InQueue(h)
    BY <1>4, <1>5, PlacesSeen
  <2>2. Held(h)'
    BY <1>2, <1>8, <2>1 DEF AllHeld, Held
  <2>. QED BY <1>2, <1>8, <2>2, MovedOn
<1>. QED BY <1>6, <1>7, <1>9 DEF IInv

\* The caller it serves is replied to, and what remains of the request is not one
\* that is served.
LEMMA ServedAnswered ==
  ASSUME IInv, ns \in Sent, ns' \in Registered \cup {Idle}, doing' = Replied({ns.tid}),
         life' = life, named' = named, lookedUp' \in [Tids -> Refs],
         names' \in [Names -> Refs], waiters' = waiters, nsQueue' = nsQueue, UNCHANGED timeVars
  PROVE  IInv'
<1>1. now' = now /\ descs' = descs /\ tsQueue' = tsQueue /\ ts' = ts /\ notified' = notified
  BY DEF timeVars
<1>2. Typed /\ Distinct /\ AllHeld
  BY DEF IInv
<1>3. PICK h \in Tids : h = ns.tid /\ ns.type \in {"REGISTER", "WHOIS", "UNREGISTER"}
  BY DEF Sent
<1>4. Typed'
  <2>1. ClientsTyped'
    <3>1. doing' \in [Tids -> {"run", "calling", "leaving", "gone"}]
      BY <1>2 DEF Typed, ClientsTyped, Replied
    <3>. QED BY <1>2, <3>1 DEF Typed, ClientsTyped
  <2>2. NamesTyped'
    BY <1>2 DEF Typed, NamesTyped
  <2>3. TimeTyped'
    BY <1>1, <1>2 DEF Typed, TimeTyped
  <2>. QED BY <2>1, <2>2, <2>3 DEF Typed
<1>5. Distinct'
  BY <1>1, <1>2 DEF Distinct
<1>6. \A x \in Tids : /\ InQueue(x)' <=> InQueue(x)
                      /\ Waits(x)' <=> Waits(x)
                      /\ Sleeps(x)' <=> Sleeps(x)
  BY <1>1 DEF InQueue, Waits, Sleeps
<1>7. \A x \in Tids : (Served(x) <=> x = h) /\ ~Served(x)'
  BY <1>3 DEF Served, Registered, Idle
<1>8. ~InQueue(h) /\ ~Waits(h) /\ ~Sleeps(h)
  BY <1>2, <1>7 DEF AllHeld, Held
<1>9. AllHeld'
  <2>1. \A x \in Tids : /\ x \in {h} => InQueue(x) \/ Served(x) \/ Waits(x) \/ Sleeps(x)
                        /\ x \in {h} => ~InQueue(x)' /\ ~Served(x)' /\ ~Waits(x)' /\ ~Sleeps(x)'
    BY <1>6, <1>7, <1>8
  <2>2. \A x \in Tids \ {h} : /\ InQueue(x)' <=> InQueue(x)
                              /\ Served(x)' <=> Served(x)
                              /\ Waits(x)' <=> Waits(x)
                              /\ Sleeps(x)' <=> Sleeps(x)
    BY <1>6, <1>7
  <2>3. doing' = Replied({h}) /\ ClientsTyped
    BY <1>2, <1>3 DEF Typed
  <2>. QED BY <1>2, <2>1, <2>2, <2>3, Answered
<1>. QED BY <1>4, <1>5, <1>9 DEF IInv

\* A name is registered.
LEMMA NsRegisterStep ==
  ASSUME IInv, NsRegister
  PROVE  IInv'
<1>1. ClientsTyped /\ NamesTyped
  BY DEF IInv, Typed
<1>2. ns \in Sent /\ ns.tid \in Tids /\ ns.name \in Names
  BY <1>1, OfClient DEF NsRegister
<1>3. ns' \in Registered
  BY <1>2 DEF NsRegister, Sent, Registered
<1>4. names' \in [Names -> Refs]
  <2>1. Task(ns.tid) \in Refs
    BY <1>1, <1>2, TaskTyped
  <2>. QED BY <1>1, <1>2, <2>1 DEF NsRegister, NamesTyped
<1>5. lookedUp' \in [Tids -> Refs]
  BY <1>1 DEF NsRegister, ClientsTyped
<1>. QED BY <1>2, <1>3, <1>4, <1>5, ServedAnswered DEF NsRegister

\* The caller's names are looked for, and one is removed.
LEMMA NsUnregisterStep ==
  ASSUME IInv, NsUnregister
  PROVE  IInv'
<1>1. ClientsTyped /\ NamesTyped /\ NullTid \in Refs
  BY ServicesAssumption DEF IInv, Typed, NullTid, Refs
<1>2. ns \in Sent
  BY <1>1, OfClient DEF NsUnregister
<1>3. names' \in [Names -> Refs]
  <2>1. CASE names' = names
    BY <1>1, <2>1 DEF NamesTyped
  <2>2. ASSUME NEW n \in NamesOf(ns.tid), names' = [names EXCEPT ![n] = NullTid]
        PROVE  names' \in [Names -> Refs]
    BY <1>1, <2>2 DEF NamesTyped
  <2>. QED BY <2>1, <2>2 DEF NsUnregister
<1>4. lookedUp' \in [Tids -> Refs]
  BY <1>1 DEF NsUnregister, ClientsTyped
<1>. QED BY <1>2, <1>3, <1>4, ServedAnswered DEF NsUnregister

\* A name is looked up, or waited for.
LEMMA NsWhoIsStep ==
  ASSUME IInv, NsWhoIs
  PROVE  IInv'
<1>1. Typed /\ Distinct /\ AllHeld /\ ClientsTyped /\ NamesTyped
  BY DEF IInv, Typed
<1>2. ns \in Sent /\ ns.tid \in Tids /\ ns.name \in Names
  BY <1>1, OfClient DEF NsWhoIs
<1>3. CASE ~MustWait(ns)
  <2>1. lookedUp' \in [Tids -> Refs]
    BY <1>1, <1>2, <1>3 DEF NsWhoIs, ClientsTyped, NamesTyped
  <2>2. names' \in [Names -> Refs]
    BY <1>1 DEF NsWhoIs, NamesTyped
  <2>. QED BY <1>2, <1>3, <2>1, <2>2, ServedAnswered DEF NsWhoIs
<1>4. CASE MustWait(ns)
  <2>1. PICK h \in Tids, n \in Names :
              h = ns.tid /\ n = ns.name /\ ns.type \in {"REGISTER", "WHOIS", "UNREGISTER"}
    BY <1>2 DEF Sent
  <2>2. /\ waiters' = [waiters EXCEPT ![n] = Append(waiters[n], h)]
        /\ doing' = doing /\ lookedUp' = lookedUp /\ ns' = Idle
        /\ life' = life /\ named' = named /\ names' = names /\ nsQueue' = nsQueue
        /\ now' = now /\ descs' = descs /\ tsQueue' = tsQueue /\ ts' = ts /\ notified' = notified
    BY <1>4, <2>1 DEF NsWhoIs, timeVars
  <2>3. waiters \in [Names -> Seq(Tids)] /\ waiters[n] \in Seq(Tids)
    BY <1>1 DEF NamesTyped
  <2>4. Append(waiters[n], h) \in Seq(Tids) /\ ToSet(Append(waiters[n], h)) = ToSet(waiters[n]) \cup {h}
    BY <2>3, Appended
  <2>5. /\ waiters' \in [Names -> Seq(Tids)]
        /\ \A m \in Names : ToSet(waiters'[m]) = IF m = n THEN ToSet(waiters[m]) \cup {h}
                                                 ELSE ToSet(waiters[m])
    BY <2>2, <2>3, <2>4
  <2>6. Typed'
    <3>1. ClientsTyped'
      BY <1>1, <2>2 DEF ClientsTyped
    <3>2. NamesTyped'
      BY <1>1, <2>2, <2>5 DEF NamesTyped
    <3>3. TimeTyped'
      BY <1>1, <2>2 DEF Typed, TimeTyped
    <3>. QED BY <3>1, <3>2, <3>3 DEF Typed
  <2>7. Served(h)
    BY <2>1 DEF Served
  <2>8. \A m \in Names : h \notin ToSet(waiters[m])
    BY <1>1, <2>7 DEF AllHeld, Held, Waits
  <2>9. Distinct'
    <3>1. \A a, b \in Names : a # b => ToSet(waiters'[a]) \cap ToSet(waiters'[b]) = {}
      <4>1. \A a, b \in Names : a # b => ToSet(waiters[a]) \cap ToSet(waiters[b]) = {}
        BY <1>1 DEF Distinct
      <4>. QED BY <2>5, <2>8, <4>1, Zenon
    <3>. QED BY <1>1, <2>2, <3>1 DEF Distinct
  <2>10. \A x \in Tids : /\ InQueue(x)' <=> InQueue(x)
                         /\ Served(x) <=> x = h
                         /\ ~Served(x)'
                         /\ Waits(x)' <=> Waits(x) \/ x = h
                         /\ Sleeps(x)' <=> Sleeps(x)
                         /\ Blocked(x)' <=> Blocked(x)
    <3>1. ASSUME NEW x \in Tids
          PROVE  (InQueue(x)' <=> InQueue(x)) /\ (Sleeps(x)' <=> Sleeps(x)) /\ (Blocked(x)' <=> Blocked(x))
      BY <2>2 DEF InQueue, Sleeps, Blocked
    <3>2. ASSUME NEW x \in Tids PROVE (Served(x) <=> x = h) /\ ~Served(x)'
      BY <2>1, <2>2 DEF Served, Idle
    <3>3. ASSUME NEW x \in Tids PROVE Waits(x)' <=> Waits(x) \/ x = h
      BY <2>5 DEF Waits
    <3>. QED BY <3>1, <3>2, <3>3
  <2>11. AllHeld'
    <3>1. Held(h)'
      BY <1>1, <2>7, <2>10 DEF AllHeld, Held
    <3>. QED BY <1>1, <2>10, <3>1, MovedOn
  <2>. QED BY <2>6, <2>9, <2>11 DEF IInv
<1>. QED BY <1>3, <1>4

\* Those who wait for a name are replied to, whichever name it is.
LEMMA NsWakeWaitersStep ==
  ASSUME IInv, NsWakeWaiters
  PROVE  IInv'
<1>1. Typed /\ Distinct /\ AllHeld /\ ClientsTyped /\ NamesTyped
  BY DEF IInv, Typed
<1>2. /\ ns \in Registered /\ ns.name \in Names /\ ns' = Idle
      /\ life' = life /\ named' = named /\ names' = names /\ nsQueue' = nsQueue
      /\ now' = now /\ descs' = descs /\ tsQueue' = tsQueue /\ ts' = ts /\ notified' = notified
  BY <1>1, OfClient DEF NsWakeWaiters, timeVars
<1>3. \A x \in Tids : /\ InQueue(x)' <=> InQueue(x)
                      /\ Served(x)' <=> Served(x)
                      /\ ~Served(x)
                      /\ Sleeps(x)' <=> Sleeps(x)
  <2>1. ASSUME NEW x \in Tids
        PROVE  (InQueue(x)' <=> InQueue(x)) /\ (Sleeps(x)' <=> Sleeps(x))
    BY <1>2 DEF InQueue, Sleeps
  <2>2. ASSUME NEW x \in Tids PROVE ~Served(x) /\ ~Served(x)'
    BY <1>2 DEF Served, Idle, Registered
  <2>. QED BY <2>1, <2>2
<1>4. TimeTyped'
  BY <1>1, <1>2 DEF Typed, TimeTyped
<1>5. CASE doing' = doing /\ lookedUp' = lookedUp /\ waiters' = waiters
  <2>1. ClientsTyped' /\ NamesTyped'
    BY <1>1, <1>2, <1>5 DEF ClientsTyped, NamesTyped
  <2>2. Distinct'
    BY <1>1, <1>2, <1>5 DEF Distinct
  <2>3. ASSUME NEW x \in Tids PROVE (Waits(x)' <=> Waits(x)) /\ (Blocked(x)' <=> Blocked(x))
    BY <1>5 DEF Waits, Blocked
  <2>4. AllHeld'
    BY <1>1, <1>3, <2>3 DEF AllHeld, Held
  <2>. QED BY <1>4, <2>1, <2>2, <2>4 DEF IInv, Typed
<1>6. ASSUME NEW n \in Names,
             doing' = Replied(Woken(n)),
             lookedUp' = [t \in Tids |-> IF t \in Woken(n) THEN names[ns.name] ELSE lookedUp[t]],
             waiters' = [waiters EXCEPT ![n] = StillWaiting(n)]
      PROVE  IInv'
  <2>1. /\ waiters' \in [Names -> Seq(Tids)]
        /\ \A m \in Names : ToSet(waiters'[m]) = IF m = n THEN {} ELSE ToSet(waiters[m])
    BY <1>1, <1>6 DEF NamesTyped, StillWaiting, ToSet
  <2>2. ClientsTyped'
    <3>1. doing' \in [Tids -> {"run", "calling", "leaving", "gone"}]
      BY <1>1, <1>6 DEF ClientsTyped, Replied
    <3>2. lookedUp' \in [Tids -> Refs]
      BY <1>1, <1>2, <1>6 DEF ClientsTyped, NamesTyped
    <3>. QED BY <1>1, <1>2, <3>1, <3>2 DEF ClientsTyped
  <2>3. NamesTyped'
    BY <1>1, <1>2, <2>1 DEF NamesTyped
  <2>4. Distinct'
    <3>1. \A a, b \in Names : a # b => ToSet(waiters'[a]) \cap ToSet(waiters'[b]) = {}
      BY <1>1, <2>1 DEF Distinct
    <3>. QED BY <1>1, <1>2, <3>1 DEF Distinct
  <2>5. \A x \in Tids : Waits(x)' <=> Waits(x) /\ x \notin Woken(n)
    BY <1>1, <2>1 DEF Waits, Woken, Distinct
  <2>6. \A x \in Tids : x \in Woken(n) => Waits(x)
    BY DEF Waits, Woken
  <2>7. AllHeld'
    <3>1. \A x \in Tids : x \in Woken(n) => ~InQueue(x)' /\ ~Served(x)' /\ ~Waits(x)' /\ ~Sleeps(x)'
      BY <1>1, <1>3, <2>5, <2>6 DEF AllHeld, Held
    <3>2. \A x \in Tids \ Woken(n) : /\ InQueue(x)' <=> InQueue(x)
                                     /\ Served(x)' <=> Served(x)
                                     /\ Waits(x)' <=> Waits(x)
                                     /\ Sleeps(x)' <=> Sleeps(x)
      BY <1>3, <2>5
    <3>3. \A x \in Tids : x \in Woken(n) => InQueue(x) \/ Served(x) \/ Waits(x) \/ Sleeps(x)
      BY <2>6
    <3>. HIDE DEF Woken
    <3>. QED BY <1>1, <1>6, <3>1, <3>2, <3>3, Answered
  <2>. QED BY <1>4, <2>2, <2>3, <2>4, <2>7 DEF IInv, Typed
<1>7. PICK n \in (IF NameOutlives THEN {ns.name} ELSE Names \cup {NoName}) :
        IF n = NoName
        THEN UNCHANGED <<doing, lookedUp, waiters>>
        ELSE /\ doing' = Replied(Woken(n))
             /\ lookedUp' = [t \in Tids |-> IF t \in Woken(n) THEN names[ns.name] ELSE lookedUp[t]]
             /\ waiters' = [waiters EXCEPT ![n] = StillWaiting(n)]
  BY DEF NsWakeWaiters
<1>8. n \in Names \cup {NoName}
  BY <1>2, <1>7
<1>9. CASE n = NoName
  BY <1>5, <1>7, <1>9
<1>10. CASE n # NoName
  BY <1>6, <1>7, <1>8, <1>10
<1>. QED BY <1>9, <1>10
-----------------------------------------------------------------------------
(* The steps of the time server *)

\* Time passes: the tick read remains one that was.
LEMMA ElapseStep ==
  ASSUME IInv, Elapse
  PROVE  IInv'
<1>1. /\ now < MaxTicks /\ now' = now + 1
      /\ life' = life /\ doing' = doing /\ named' = named /\ lookedUp' = lookedUp
      /\ names' = names /\ waiters' = waiters /\ nsQueue' = nsQueue /\ ns' = ns
      /\ descs' = descs /\ tsQueue' = tsQueue /\ ts' = ts /\ notified' = notified
  BY DEF Elapse, clientVars, nameVars
<1>2. Typed /\ Distinct /\ AllHeld
  BY DEF IInv
<1>3. TimeTyped'
  <2>1. now' \in 0 .. MaxTicks /\ 0 .. now \subseteq 0 .. now'
    BY <1>1, <1>2, ServicesAssumption DEF Typed, TimeTyped
  <2>2. ts \subseteq {Ticks(k) : k \in 0 .. now'}
    BY <1>2, <2>1 DEF Typed, TimeTyped
  <2>. QED BY <1>1, <1>2, <2>1, <2>2 DEF Typed, TimeTyped
<1>4. ClientsTyped' /\ NamesTyped'
  BY <1>1, <1>2 DEF Typed, ClientsTyped, NamesTyped
<1>5. Distinct'
  BY <1>1, <1>2 DEF Distinct
<1>6. AllHeld'
  BY <1>1, <1>2 DEF AllHeld, Held, Blocked, InQueue, Served, Waits, Sleeps
<1>. QED BY <1>3, <1>4, <1>5, <1>6 DEF IInv, Typed

\* The tick is not from a client.
LEMMA TickIsNobodys ==
  /\ Tick.tid \notin Tids
  /\ \A r \in Delay \cup {Tick} : r.tid \in Tids => r \in Delay
  /\ \A r \in Delay \cup {Tick} : r.tid \notin Tids => r = Tick
  /\ \A r \in Delay : r # Tick /\ r.tid \in Tids /\ r.ticks \in Delays /\ r.due \in 0 .. MaxTicks
BY ServicesAssumption DEF Tick, Delay

\* The numbers of a delay.
LEMMA Bounds ==
  /\ MaxTicks \in Nat /\ TickMod \in Nat \ {0}
  /\ \A k \in 0 .. MaxTicks : k \in Nat
  /\ \A r \in Delay : r.ticks \in Nat /\ r.due \in Nat
<1>1. MaxTicks \in Nat /\ TickMod \in Nat \ {0} /\ Delays \subseteq Nat
  BY ServicesAssumption
<1>2. \A k \in 0 .. MaxTicks : k \in Nat
  BY <1>1
<1>3. \A r \in Delay : r.ticks \in Delays /\ r.due \in 0 .. MaxTicks
  BY TickIsNobodys, Zenon
<1>. QED BY <1>1, <1>2, <1>3

\* The notifier sends a tick.
LEMMA NotifyTickStep ==
  ASSUME IInv, NotifyTick
  PROVE  IInv'
<1>. DEFINE S == Delay \cup {Tick}
<1>1. /\ ~notified /\ notified' = TRUE /\ tsQueue' = Append(tsQueue, Tick)
      /\ life' = life /\ doing' = doing /\ named' = named /\ lookedUp' = lookedUp
      /\ names' = names /\ waiters' = waiters /\ nsQueue' = nsQueue /\ ns' = ns
      /\ now' = now /\ descs' = descs /\ ts' = ts
  BY DEF NotifyTick, NotifierRuns, clientVars, nameVars
<1>2. Typed /\ Distinct /\ AllHeld
  BY DEF IInv
<1>3. tsQueue \in Seq(S) /\ Apart(tsQueue) /\ Tick \in S
  BY <1>2 DEF Typed, TimeTyped, Distinct
<1>4. ToSet(tsQueue) \subseteq S
  BY <1>3 DEF ToSet
<1>5. \A r \in ToSet(tsQueue) : r.tid # Tick.tid
  <2>1. \A r \in ToSet(tsQueue) : r # Tick
    BY <1>1, <1>2 DEF Distinct
  <2>2. \A r \in ToSet(tsQueue) : r.tid \in Tids
    BY <1>4, <2>1, TickIsNobodys
  <2>. QED BY <2>2, TickIsNobodys
<1>. HIDE DEF S
<1>6. tsQueue' \in Seq(S) /\ ToSet(tsQueue') = ToSet(tsQueue) \cup {Tick}
  BY <1>1, <1>3, Appended
<1>7. Apart(tsQueue')
  BY <1>1, <1>3, <1>5, AppendedApart
<1>8. Typed'
  <2>1. ClientsTyped' /\ NamesTyped'
    BY <1>1, <1>2 DEF Typed, ClientsTyped, NamesTyped
  <2>2. TimeTyped'
    BY <1>1, <1>2, <1>6 DEF Typed, TimeTyped, S
  <2>. QED BY <2>1, <2>2 DEF Typed
<1>9. Distinct'
  <2>1. \A d \in descs : d.tid \in Tids
    BY <1>2 DEF Typed, TimeTyped, Desc
  <2>2. \A d \in descs', r \in ToSet(tsQueue') : r.tid # d.tid
    BY <1>1, <1>2, <1>6, <2>1, TickIsNobodys DEF Distinct
  <2>. QED BY <1>1, <1>2, <1>7, <2>2 DEF Distinct
<1>10. AllHeld'
  <2>1. ASSUME NEW x \in Tids
        PROVE  /\ Sleeps(x)' <=> Sleeps(x)
               /\ InQueue(x)' <=> InQueue(x)
               /\ Served(x)' <=> Served(x)
               /\ Waits(x)' <=> Waits(x)
               /\ Blocked(x)' <=> Blocked(x)
    <3>1. Sleeps(x)' <=> Sleeps(x)
      BY <1>1, <1>6, PlacesSeen, PlacesSeenNext, TickIsNobodys
    <3>. QED BY <1>1, <3>1 DEF InQueue, Served, Waits, Blocked
  <2>. QED BY <1>2, <2>1 DEF AllHeld, Held
<1>. QED BY <1>8, <1>9, <1>10 DEF IInv

\* The tick that is read is one of those the time has been at.
LEMMA TickRead ==
  ASSUME now \in 0 .. MaxTicks
  PROVE  {Ticks(now)} \subseteq {Ticks(k) : k \in 0 .. now}
BY ServicesAssumption

\* A delay that is entered.
LEMMA DelayTyped ==
  ASSUME now \in 0 .. MaxTicks, NEW r \in Delay
  PROVE  [tid |-> r.tid, wake |-> (Ticks(now) + r.ticks) % TickMod, due |-> r.due] \in Desc
<1>1. now \in Nat /\ r.ticks \in Nat /\ TickMod \in Nat \ {0} /\ r.tid \in Tids /\ r.due \in 0 .. MaxTicks
  <2>1. r.tid \in Tids /\ r.ticks \in Delays /\ r.due \in 0 .. MaxTicks
    BY TickIsNobodys, Zenon
  <2>2. MaxTicks \in Nat /\ Delays \subseteq Nat /\ TickMod \in Nat \ {0}
    BY ServicesAssumption
  <2>3. now \in Nat
    BY <2>2
  <2>. QED BY <2>1, <2>2, <2>3
<1>2. now % TickMod \in 0 .. TickMod - 1
  BY <1>1
<1>3. PICK k \in Nat : k = (now % TickMod) + r.ticks
  BY <1>1, <1>2
<1>4. k % TickMod \in 0 .. TickMod - 1
  BY <1>1
<1>. QED BY <1>1, <1>3, <1>4 DEF Desc, Ticks

\* The time server receives the next request.
LEMMA TsReceiveStep ==
  ASSUME IInv, TsReceive
  PROVE  IInv'
<1>. DEFINE S == Delay \cup {Tick}
            h == Head(tsQueue)
            e == [tid |-> h.tid, wake |-> (Ticks(now) + h.ticks) % TickMod, due |-> h.due]
<1>1. /\ tsQueue # <<>> /\ ts' = {Ticks(now)} /\ tsQueue' = Tail(tsQueue)
      /\ life' = life /\ doing' = doing /\ named' = named /\ lookedUp' = lookedUp
      /\ names' = names /\ waiters' = waiters /\ nsQueue' = nsQueue /\ ns' = ns
      /\ now' = now
      /\ \/ h = Tick /\ descs' = descs
         \/ h # Tick /\ descs' = descs \cup {e} /\ notified' = notified
  BY DEF TsReceive, WithDelay, clientVars, nameVars
<1>2. Typed /\ Distinct /\ AllHeld
  BY DEF IInv
<1>3. tsQueue \in Seq(S) /\ Apart(tsQueue)
  BY <1>2 DEF Typed, TimeTyped, Distinct
<1>4. h \in S => h = Tick \/ h \in Delay
  OBVIOUS
<1>. HIDE DEF S, h
<1>5. /\ tsQueue' \in Seq(S) /\ Apart(tsQueue') /\ h \in ToSet(tsQueue) /\ h \in S
      /\ ToSet(tsQueue') = ToSet(tsQueue) \ {h}
      /\ \A r \in ToSet(tsQueue) : r.tid = h.tid => r = h
  BY <1>1, <1>3, Received DEF h
<1>6. e.tid = h.tid
  OBVIOUS
<1>7. h # Tick => e \in Desc /\ h \in Delay /\ h.tid \in Tids
  BY <1>2, <1>4, <1>5, DelayTyped, TickIsNobodys DEF Typed, TimeTyped
<1>. HIDE DEF e
<1>8. descs' \subseteq descs \cup {e} /\ descs \subseteq descs' /\ (h = Tick => descs' = descs)
      /\ (h # Tick => descs' = descs \cup {e})
  BY <1>1
<1>9. Typed'
  <2>1. ClientsTyped' /\ NamesTyped'
    BY <1>1, <1>2 DEF Typed, ClientsTyped, NamesTyped
  <2>2. descs' \subseteq Desc
    BY <1>2, <1>7, <1>8 DEF Typed, TimeTyped
  <2>3. ts' \subseteq {Ticks(k) : k \in 0 .. now'} /\ \A a, b \in ts' : a = b
    BY <1>1, <1>2, TickRead DEF Typed, TimeTyped
  <2>4. TimeTyped'
    BY <1>1, <1>2, <1>5, <2>2, <2>3 DEF Typed, TimeTyped, S
  <2>. QED BY <2>1, <2>4 DEF Typed
<1>10. Distinct'
  <2>1. Apart(nsQueue') /\ Apart(tsQueue')
        /\ \A m, n \in Names : m # n => ToSet(waiters'[m]) \cap ToSet(waiters'[n]) = {}
    BY <1>1, <1>2, <1>5 DEF Distinct
  <2>2. \A d \in descs : d.tid # h.tid
    BY <1>2, <1>5 DEF Distinct
  <2>3. \A c, d \in descs' : c.tid = d.tid => c = d
    BY <1>2, <1>6, <1>8, <2>2 DEF Distinct
  <2>4. \A d \in descs', r \in ToSet(tsQueue') : r.tid # d.tid
    BY <1>2, <1>5, <1>6, <1>8 DEF Distinct
  <2>5. Tick \in ToSet(tsQueue') => notified'
    BY <1>1, <1>2, <1>5 DEF Distinct
  <2>. QED BY <2>1, <2>3, <2>4, <2>5 DEF Distinct
<1>11. AllHeld'
  <2>1. ASSUME NEW x \in Tids
        PROVE  /\ Sleeps(x)' <=> Sleeps(x)
               /\ InQueue(x)' <=> InQueue(x)
               /\ Served(x)' <=> Served(x)
               /\ Waits(x)' <=> Waits(x)
               /\ Blocked(x)' <=> Blocked(x)
    <3>1. Sleeps(x)' <=> Sleeps(x)
      <4>1. CASE h = Tick
        BY <1>5, <1>8, <4>1, PlacesSeen, PlacesSeenNext, TickIsNobodys
      <4>2. CASE h # Tick
        <5>1. ASSUME NEW y \in ToSet(tsQueue), y.tid = x, y \notin ToSet(tsQueue') PROVE e.tid = x
          BY <1>5, <1>6, <5>1
        <5>2. e.tid = x => \E y \in ToSet(tsQueue) : y.tid = x
          BY <1>5, <1>6
        <5>. QED BY <1>5, <1>8, <4>2, <5>1, <5>2, PlacesSeen, PlacesSeenNext
      <4>. QED BY <4>1, <4>2
    <3>. QED BY <1>1, <3>1 DEF InQueue, Served, Waits, Blocked
  <2>. QED BY <1>2, <2>1 DEF AllHeld, Held
<1>. QED BY <1>9, <1>10, <1>11 DEF IInv

\* One whose delay is over is replied to.
LEMMA TsWakeStep ==
  ASSUME IInv, TsWake
  PROVE  IInv'
<1>1. PICK d \in descs : descs' = descs \ {d} /\ doing' = Replied({d.tid})
  BY DEF TsWake, Removed
<1>2. /\ life' = life /\ named' = named /\ lookedUp' = lookedUp
      /\ names' = names /\ waiters' = waiters /\ nsQueue' = nsQueue /\ ns' = ns
      /\ now' = now /\ tsQueue' = tsQueue /\ ts' = ts /\ notified' = notified
  BY DEF TsWake, nameVars
<1>3. Typed /\ Distinct /\ AllHeld
  BY DEF IInv
<1>4. PICK h \in Tids : h = d.tid
  BY <1>3 DEF Typed, TimeTyped, Desc
<1>5. Typed'
  <2>1. ClientsTyped'
    <3>1. doing' \in [Tids -> {"run", "calling", "leaving", "gone"}]
      BY <1>1, <1>3 DEF Typed, ClientsTyped, Replied
    <3>. QED BY <1>2, <1>3, <3>1 DEF Typed, ClientsTyped
  <2>2. NamesTyped'
    BY <1>2, <1>3 DEF Typed, NamesTyped
  <2>3. TimeTyped'
    BY <1>1, <1>2, <1>3 DEF Typed, TimeTyped
  <2>. QED BY <2>1, <2>2, <2>3 DEF Typed
<1>6. Distinct'
  BY <1>1, <1>2, <1>3 DEF Distinct
<1>7. \A x \in Tids : /\ InQueue(x)' <=> InQueue(x)
                      /\ Served(x)' <=> Served(x)
                      /\ Waits(x)' <=> Waits(x)
  BY <1>2 DEF InQueue, Served, Waits
<1>8. \A x \in Tids : Sleeps(x)' <=> Sleeps(x) /\ x # h
  <2>1. \A c \in descs : c.tid = h => c = d
    BY <1>3, <1>4 DEF Distinct
  <2>2. \A r \in ToSet(tsQueue) : r.tid # h
    BY <1>3, <1>4 DEF Distinct
  <2>. QED BY <1>1, <1>2, <1>4, <2>1, <2>2, PlacesSeen, PlacesSeenNext
<1>9. Sleeps(h)
  BY <1>4, PlacesSeen
<1>10. AllHeld'
  <2>1. ~InQueue(h) /\ ~Served(h) /\ ~Waits(h)
    BY <1>3, <1>9 DEF AllHeld, Held
  <2>2. \A x \in Tids : /\ x \in {h} => InQueue(x) \/ Served(x) \/ Waits(x) \/ Sleeps(x)
                        /\ x \in {h} => ~InQueue(x)' /\ ~Served(x)' /\ ~Waits(x)' /\ ~Sleeps(x)'
    BY <1>7, <1>8, <1>9, <2>1
  <2>3. \A x \in Tids \ {h} : /\ InQueue(x)' <=> InQueue(x)
                              /\ Served(x)' <=> Served(x)
                              /\ Waits(x)' <=> Waits(x)
                              /\ Sleeps(x)' <=> Sleeps(x)
    BY <1>7, <1>8
  <2>4. doing' = Replied({h}) /\ ClientsTyped
    BY <1>1, <1>3, <1>4 DEF Typed
  <2>. QED BY <1>3, <2>2, <2>3, <2>4, Answered
<1>. QED BY <1>5, <1>6, <1>10 DEF IInv

\* No more delays are over.
LEMMA TsDoneStep ==
  ASSUME IInv, TsDone
  PROVE  IInv'
<1>1. /\ life' = life /\ doing' = doing /\ named' = named /\ lookedUp' = lookedUp
      /\ names' = names /\ waiters' = waiters /\ nsQueue' = nsQueue /\ ns' = ns
      /\ now' = now /\ descs' = descs /\ tsQueue' = tsQueue /\ ts' = {} /\ notified' = notified
  BY DEF TsDone, clientVars, nameVars
<1>2. Typed /\ Distinct /\ AllHeld
  BY DEF IInv
<1>3. Typed'
  BY <1>1, <1>2 DEF Typed, ClientsTyped, NamesTyped, TimeTyped
<1>4. Distinct'
  BY <1>1, <1>2 DEF Distinct
<1>5. AllHeld'
  BY <1>1, <1>2 DEF AllHeld, Held, Blocked, InQueue, Served, Waits, Sleeps
<1>. QED BY <1>3, <1>4, <1>5 DEF IInv
-----------------------------------------------------------------------------
(* The invariance of IInv *)

LEMMA IInvInit == Init => IInv
<1>. SUFFICES ASSUME Init PROVE IInv
  OBVIOUS
<1>1. /\ life = [t \in Tids |-> 1] /\ doing = [t \in Tids |-> "run"]
      /\ named = [t \in Tids |-> FALSE] /\ lookedUp = [t \in Tids |-> NullTid]
      /\ names = [n \in Names |-> NullTid] /\ waiters = [n \in Names |-> <<>>]
      /\ nsQueue = <<>> /\ ns = Idle
      /\ now = 0 /\ descs = {} /\ tsQueue = <<>> /\ ts = {} /\ notified = FALSE
  BY DEF Init
<1>2. NullTid \in Refs
  BY ServicesAssumption DEF NullTid, Refs
<1>3. Typed
  <2>1. ClientsTyped
    BY <1>1, <1>2, ServicesAssumption DEF ClientsTyped
  <2>2. NamesTyped
    BY <1>1, <1>2 DEF NamesTyped
  <2>3. TimeTyped
    BY <1>1, ServicesAssumption DEF TimeTyped
  <2>. QED BY <2>1, <2>2, <2>3 DEF Typed
<1>4. ToSet(nsQueue) = {} /\ ToSet(tsQueue) = {} /\ \A n \in Names : ToSet(waiters[n]) = {}
  BY <1>1 DEF ToSet
<1>5. Distinct
  <2>1. Apart(nsQueue) /\ Apart(tsQueue)
    BY <1>1 DEF Apart
  <2>. QED BY <1>1, <1>4, <2>1 DEF Distinct
<1>6. AllHeld
  <2>1. ASSUME NEW t \in Tids PROVE Held(t)
    <3>1. ~InQueue(t) /\ ~Sleeps(t)
      BY <1>1, <1>4, PlacesSeen
    <3>2. ~Served(t) /\ ~Waits(t) /\ ~Blocked(t)
      BY <1>1, <1>4 DEF Served, Waits, Blocked, Idle
    <3>. QED BY <3>1, <3>2 DEF Held
  <2>. QED BY <2>1 DEF AllHeld
<1>. QED BY <1>3, <1>5, <1>6 DEF IInv

LEMMA IInvNext == IInv /\ [Next]_vars => IInv'
<1>. SUFFICES ASSUME IInv, [Next]_vars PROVE IInv'
  OBVIOUS
<1>1. CASE NsStep
  BY <1>1, NsReceiveStep, NsRegisterStep, NsWakeWaitersStep, NsWhoIsStep, NsUnregisterStep DEF NsStep
<1>2. CASE TsStep
  BY <1>2, TsReceiveStep, TsWakeStep, TsDoneStep DEF TsStep
<1>3. CASE Elapse
  BY <1>3, ElapseStep
<1>4. CASE NotifyTick
  BY <1>4, NotifyTickStep
<1>5. CASE \E t \in Tids : Client(t)
  BY <1>5, ClientStep
<1>6. CASE UNCHANGED vars
  BY <1>6 DEF vars, clientVars, nameVars, timeVars, IInv, Typed, ClientsTyped, NamesTyped,
              TimeTyped, Distinct, AllHeld, Held, Blocked, InQueue, Served, Waits, Sleeps
<1>. QED BY <1>1, <1>2, <1>3, <1>4, <1>5, <1>6 DEF Next

\* IInv holds in every reachable state.
THEOREM Invariance == Spec => []IInv
BY IInvInit, IInvNext, PTL DEF Spec
-----------------------------------------------------------------------------
(* Types, and the one answer that is owed *)

\* The invariant implies the types that the runs check.
LEMMA TypesHold == IInv => TypeOK
<1>. SUFFICES ASSUME IInv PROVE TypeOK
  OBVIOUS
<1>1. ClientsTyped /\ NamesTyped /\ TimeTyped /\ Distinct
  BY DEF IInv, Typed
<1>2. Sent \subseteq NsRequests /\ Registered \subseteq NsRequests /\ Idle \in NsRequests
  <2>1. Sent \subseteq NsRequests
    BY DEF Sent, NsRequests
  <2>2. Registered \subseteq NsRequests
    BY DEF Registered, NsRequests
  <2>3. Idle \in NsRequests
    BY DEF Idle, NsRequests
  <2>. QED BY <2>1, <2>2, <2>3
<1>3. ns \in NsRequests /\ ToSet(nsQueue) \subseteq NsRequests
  <2>1. ToSet(nsQueue) \subseteq Sent
    BY <1>1 DEF NamesTyped, ToSet
  <2>. QED BY <1>1, <1>2, <2>1 DEF NamesTyped
<1>4. \A d \in descs : d.tid \in Tids /\ d.wake \in 0 .. TickMod - 1
  BY <1>1 DEF TimeTyped, Desc
<1>5. Cardinality(ts) <= 1
  <2>1. CASE ts = {}
    <3>1. Cardinality(ts) = 0
      BY <2>1, FS_EmptySet
    <3>. QED BY <3>1
  <2>2. CASE ts # {}
    <3>1. PICK a \in ts : ts = {a}
      BY <1>1, <2>2 DEF TimeTyped
    <3>2. Cardinality(ts) = 1
      BY <3>1, FS_Singleton
    <3>. QED BY <3>2
  <2>. QED BY <2>1, <2>2
<1>6. Len(tsQueue) <= Cardinality(Tids) + 1
  <2>1. IsFiniteSet(Tids) /\ 0 \notin Tids
    BY ServicesAssumption
  <2>2. IsFiniteSet(Tids \cup {0}) /\ Cardinality(Tids \cup {0}) = Cardinality(Tids) + 1
    BY <2>1, FS_AddElement
  <2>3. \A r \in Delay \cup {Tick} : r.tid \in Tids \cup {0}
    BY DEF Delay, Tick
  <2>4. Len(tsQueue) <= Cardinality(Tids \cup {0})
    BY <1>1, <2>2, <2>3, Short DEF TimeTyped, Distinct
  <2>. QED BY <2>2, <2>4
<1>. QED BY <1>1, <1>3, <1>4, <1>5, <1>6 DEF TypeOK, ClientsTyped, NamesTyped

\* The places are counted by the four predicates.
LEMMA PlacesOf ==
  ASSUME NEW t \in Tids
  PROVE  /\ Places(t) \subseteq 1 .. 4
         /\ 1 \in Places(t) <=> InQueue(t)
         /\ 2 \in Places(t) <=> Served(t)
         /\ 3 \in Places(t) <=> Waits(t)
         /\ 4 \in Places(t) <=> Sleeps(t)
BY DEF Places

\* The invariant implies that every blocked task is known in one place, and that
\* no other is known in any.
LEMMA OneIsOwed == IInv => OneAnswerOwed
<1>. SUFFICES ASSUME IInv, NEW t \in Tids
              PROVE  Cardinality(Places(t)) = IF doing[t] \in {"calling", "leaving"} THEN 1 ELSE 0
  BY DEF OneAnswerOwed
<1>1. Held(t)
  BY DEF IInv, AllHeld
<1>2. Places(t) \subseteq {1, 2, 3, 4}
  BY PlacesOf
<1>3. CASE Blocked(t)
  <2>1. PICK k : Places(t) = {k}
    <3>1. CASE InQueue(t)
      <4>1. Places(t) = {1}
        BY <1>1, <1>2, <3>1, PlacesOf DEF Held
      <4>. QED BY <4>1
    <3>2. CASE Served(t)
      <4>1. Places(t) = {2}
        BY <1>1, <1>2, <3>2, PlacesOf DEF Held
      <4>. QED BY <4>1
    <3>3. CASE Waits(t)
      <4>1. Places(t) = {3}
        BY <1>1, <1>2, <3>3, PlacesOf DEF Held
      <4>. QED BY <4>1
    <3>4. CASE Sleeps(t)
      <4>1. Places(t) = {4}
        BY <1>1, <1>2, <3>4, PlacesOf DEF Held
      <4>. QED BY <4>1
    <3>. QED BY <1>1, <1>3, <3>1, <3>2, <3>3, <3>4 DEF Held
  <2>2. Cardinality(Places(t)) = 1
    BY <2>1, FS_Singleton
  <2>. QED BY <1>3, <2>2 DEF Blocked
<1>4. CASE ~Blocked(t)
  <2>1. Places(t) = {}
    BY <1>1, <1>2, <1>4, PlacesOf DEF Held
  <2>2. Cardinality(Places(t)) = 0
    BY <2>1, FS_EmptySet
  <2>. QED BY <1>4, <2>2 DEF Blocked
<1>. QED BY <1>3, <1>4
-----------------------------------------------------------------------------
(* Nobody waits for a name that is registered *)

\* That is so for all names but the one that is being registered.
NoneForgotten ==
  \A n \in Names : names[n] # NullTid /\ (ns.type = "REGISTERED" => n # ns.name) => waiters[n] = <<>>

\* A step that leaves names and waiters alone, and after which no name is being
\* registered if none was.
LEMMA NothingForgotten ==
  ASSUME NoneForgotten, names' = names, waiters' = waiters,
         ns' = ns \/ (ns.type # "REGISTERED" /\ ns'.type # "REGISTERED")
  PROVE  NoneForgotten'
BY DEF NoneForgotten

LEMMA NoneForgottenNext ==
  ASSUME NameOutlives, IInv, NoneForgotten, [Next]_vars
  PROVE  NoneForgotten'
<1>1. NamesTyped
  BY DEF IInv, Typed
<1>2. CASE NsReceive
  <2>1. ns.type # "REGISTERED" /\ names' = names /\ waiters' = waiters
    BY <1>2 DEF NsReceive, Idle
  <2>2. ns' \in Sent
    <3>1. nsQueue \in Seq(Sent) /\ Apart(nsQueue) /\ nsQueue # <<>> /\ ns' = Head(nsQueue)
      BY <1>2 DEF NsReceive, IInv, Typed, NamesTyped, Distinct
    <3>. QED BY <3>1, Received
  <2>3. ns'.type # "REGISTERED"
    BY <2>2 DEF Sent
  <2>. QED BY <2>1, <2>3, NothingForgotten
<1>3. CASE NsRegister
  <2>1. /\ ns.type = "REGISTER" /\ ns.name \in Names /\ waiters' = waiters
        /\ names' = [names EXCEPT ![ns.name] = Task(ns.tid)]
        /\ ns'.type = "REGISTERED" /\ ns'.name = ns.name
    BY <1>1, <1>3, OfClient DEF NsRegister, NamesTyped, Sent, Registered, Idle
  <2>2. \A n \in Names : n # ns.name => names'[n] = names[n]
    BY <1>1, <2>1 DEF NamesTyped
  <2>. QED BY <2>1, <2>2 DEF NoneForgotten
<1>4. CASE NsWakeWaiters
  <2>1. ns.type = "REGISTERED" /\ ns.name \in Names /\ ns'.type = "NONE" /\ names' = names
    BY <1>1, <1>4, OfClient DEF NsWakeWaiters, Idle
  <2>2. ns.name # NoName
    BY <2>1, ServicesAssumption
  <2>3. waiters' = [waiters EXCEPT ![ns.name] = <<>>]
    BY <1>4, <2>2 DEF NsWakeWaiters, StillWaiting
  <2>4. waiters'[ns.name] = <<>> /\ \A n \in Names : n # ns.name => waiters'[n] = waiters[n]
    BY <1>1, <2>1, <2>3 DEF NamesTyped
  <2>. QED BY <2>1, <2>4 DEF NoneForgotten
<1>5. CASE NsWhoIs
  <2>1. ns.type = "WHOIS" /\ ns.name \in Names /\ ns'.type = "NONE" /\ names' = names
    BY <1>1, <1>5, OfClient DEF NsWhoIs, Idle
  <2>2. CASE waiters' = waiters
    BY <2>1, <2>2 DEF NoneForgotten
  <2>3. CASE MustWait(ns) /\ waiters' = [waiters EXCEPT ![ns.name] = Append(@, ns.tid)]
    <3>1. names[ns.name] = NullTid
      BY <2>3 DEF MustWait
    <3>2. \A n \in Names : n # ns.name => waiters'[n] = waiters[n]
      BY <1>1, <2>3 DEF NamesTyped
    <3>. QED BY <2>1, <3>1, <3>2 DEF NoneForgotten
  <2>. QED BY <1>5, <2>2, <2>3 DEF NsWhoIs
<1>6. CASE NsUnregister
  <2>1. ns.type = "UNREGISTER" /\ ns'.type = "NONE" /\ waiters' = waiters
    BY <1>6 DEF NsUnregister, Idle
  <2>2. \A n \in Names : names'[n] # NullTid => names'[n] = names[n]
    BY <1>1, <1>6 DEF NsUnregister, NamesTyped
  <2>. QED BY <2>1, <2>2 DEF NoneForgotten
<1>7. CASE names' = names /\ waiters' = waiters /\ ns' = ns
  BY <1>7, NothingForgotten
<1>8. ASSUME NEW t \in Tids, Client(t) PROVE names' = names /\ waiters' = waiters /\ ns' = ns
  BY <1>8 DEF Client, Register, WhoIs, Unregister, NsCall, Sleep, Create, nameVars
<1>9. TsStep \/ Elapse \/ NotifyTick \/ UNCHANGED vars => names' = names /\ waiters' = waiters /\ ns' = ns
  BY DEF TsStep, TsReceive, TsWake, TsDone, Elapse, NotifyTick, nameVars, vars
<1>. QED BY <1>2, <1>3, <1>4, <1>5, <1>6, <1>7, <1>8, <1>9 DEF Next, NsStep

\* Whoever is blocked on a service is owed one answer: it is known to the service
\* in one place, and is not left waiting for a name that is there.
THEOREM AnswersOwedHolds ==
  ASSUME NameOutlives
  PROVE  Spec => []AnswersOwed
<1>1. Init => NoneForgotten
  BY DEF Init, NoneForgotten
<1>2. IInv /\ NoneForgotten => AnswersOwed
  <2>1. NoneForgotten => NoForgottenWaiter
    BY DEF NoneForgotten, NoForgottenWaiter, Idle
  <2>. QED BY <2>1, TypesHold, OneIsOwed DEF AnswersOwed
<1>3. IInv /\ NoneForgotten /\ [Next]_vars => NoneForgotten'
  BY NoneForgottenNext
<1>. QED BY <1>1, <1>2, <1>3, IInvInit, IInvNext, PTL DEF Spec
-----------------------------------------------------------------------------
(* Punctuality *)

\* No tick wraps while a delay lasts.
NoWrap == \A d \in Delays : MaxTicks + d < TickMod

\* A delay that was entered is over when its time has come, not before.
Punctual == \A d \in descs : d.due <= d.wake

\* What is sent to the time server says when the task is to be woken: no later
\* than it asked for from now on.
Timely == \A r \in ToSet(tsQueue) : r \in Delay => r.due <= now + r.ticks

LEMMA PunctualNext ==
  ASSUME NoWrap, IInv, Punctual, Timely, [Next]_vars
  PROVE  Punctual' /\ Timely'
<1>1. TimeTyped /\ Apart(tsQueue)
  BY DEF IInv, Typed, Distinct
<1>2. CASE descs' \subseteq descs /\ tsQueue' = tsQueue /\ now' = now
  BY <1>2 DEF Punctual, Timely
<1>3. CASE Elapse
  <2>1. descs' = descs /\ tsQueue' = tsQueue /\ now' = now + 1
    BY <1>3 DEF Elapse
  <2>2. Punctual'
    BY <2>1 DEF Punctual
  <2>3. ASSUME NEW r \in ToSet(tsQueue), r \in Delay PROVE r.due <= now' + r.ticks
    <3>1. r.due <= now + r.ticks /\ r.due \in Nat /\ r.ticks \in Nat /\ now \in Nat
      <4>1. r.due <= now + r.ticks
        BY <2>3 DEF Timely
      <4>2. now \in 0 .. MaxTicks
        BY <1>1 DEF TimeTyped
      <4>. QED BY <2>3, <4>1, <4>2, Bounds
    <3>. QED BY <2>1, <3>1
  <2>. QED BY <2>1, <2>2, <2>3 DEF Timely
<1>4. CASE NotifyTick
  <2>1. descs' = descs /\ tsQueue' = Append(tsQueue, Tick) /\ now' = now
    BY <1>4 DEF NotifyTick
  <2>2. ToSet(tsQueue') = ToSet(tsQueue) \cup {Tick}
    <3>1. tsQueue \in Seq(Delay \cup {Tick}) /\ Tick \in Delay \cup {Tick}
      BY <1>1 DEF TimeTyped
    <3>. QED BY <2>1, <3>1, Appended
  <2>. QED BY <2>1, <2>2, TickIsNobodys DEF Punctual, Timely
<1>5. ASSUME NEW t \in Tids, NEW k \in Delays, Sleep(t, k) PROVE Punctual' /\ Timely'
  <2>. DEFINE r == [tid |-> t, ticks |-> k, due |-> now + k]
  <2>1. descs' = descs /\ tsQueue' = Append(tsQueue, r) /\ now' = now /\ now + k <= MaxTicks
    BY <1>5 DEF Sleep
  <2>2. r \in Delay /\ r.due <= now + r.ticks
    BY <1>1, <2>1, ServicesAssumption DEF Delay, TimeTyped
  <2>. HIDE DEF r
  <2>3. ToSet(tsQueue') = ToSet(tsQueue) \cup {r}
    <3>1. tsQueue \in Seq(Delay \cup {Tick}) /\ r \in Delay \cup {Tick}
      BY <1>1, <2>2 DEF TimeTyped
    <3>. QED BY <2>1, <3>1, Appended
  <2>. QED BY <2>1, <2>2, <2>3 DEF Punctual, Timely
<1>6. CASE TsReceive
  <2>. DEFINE h == Head(tsQueue)
              e == [tid |-> h.tid, wake |-> (Ticks(now) + h.ticks) % TickMod, due |-> h.due]
  <2>1. /\ tsQueue # <<>> /\ tsQueue' = Tail(tsQueue) /\ now' = now
        /\ (h = Tick /\ descs' = descs) \/ (h # Tick /\ descs' = descs \cup {e})
    BY <1>6 DEF TsReceive, WithDelay
  <2>. HIDE DEF h
  <2>2. ToSet(tsQueue') \subseteq ToSet(tsQueue) /\ h \in ToSet(tsQueue) /\ h \in Delay \cup {Tick}
    <3>1. tsQueue \in Seq(Delay \cup {Tick})
      BY <1>1 DEF TimeTyped
    <3>2. /\ Head(tsQueue) \in ToSet(tsQueue) /\ Head(tsQueue) \in Delay \cup {Tick}
          /\ ToSet(Tail(tsQueue)) = ToSet(tsQueue) \ {Head(tsQueue)}
      BY <1>1, <2>1, <3>1, Received
    <3>. QED BY <2>1, <3>2 DEF h
  <2>3. Timely'
    BY <2>1, <2>2 DEF Timely
  <2>4. ASSUME h # Tick PROVE e.due <= e.wake
    <3>1. h \in Delay /\ h.ticks \in Delays /\ h.due \in 0 .. MaxTicks /\ h.due <= now + h.ticks
      BY <2>2, <2>4, TickIsNobodys DEF Timely
    <3>2. /\ now \in 0 .. MaxTicks /\ MaxTicks \in Nat /\ h.ticks \in Nat /\ TickMod \in Nat \ {0}
          /\ h.due \in Nat
      <4>1. now \in 0 .. MaxTicks
        BY <1>1 DEF TimeTyped
      <4>. QED BY <3>1, <4>1, Bounds
    <3>3. MaxTicks + h.ticks < TickMod
      BY <3>1 DEF NoWrap
    <3>4. Ticks(now) = now
      BY <3>2, <3>3 DEF Ticks
    <3>5. (now + h.ticks) % TickMod = now + h.ticks
      <4>1. PICK k \in Nat : k = now + h.ticks
        BY <3>2
      <4>2. k < TickMod
        BY <3>2, <3>3, <4>1
      <4>3. k % TickMod = k
        BY <3>2, <4>2
      <4>. QED BY <4>1, <4>3
    <3>. QED BY <3>1, <3>4, <3>5
  <2>. HIDE DEF e
  <2>5. Punctual'
    BY <2>1, <2>4 DEF Punctual
  <2>. QED BY <2>3, <2>5
<1>7. ASSUME NEW t \in Tids, Client(t) PROVE Punctual' /\ Timely'
  <2>1. CASE \E d \in Delays : Sleep(t, d)
    BY <1>5, <2>1
  <2>2. CASE ~\E d \in Delays : Sleep(t, d)
    <3>1. descs' = descs /\ tsQueue' = tsQueue /\ now' = now
      BY <1>7, <2>2 DEF Client, Register, WhoIs, Unregister, NsCall, Create, timeVars
    <3>. QED BY <1>2, <3>1
  <2>. QED BY <2>1, <2>2
<1>8. NsStep \/ TsWake \/ TsDone \/ UNCHANGED vars => descs' \subseteq descs /\ tsQueue' = tsQueue /\ now' = now
  BY DEF NsStep, NsReceive, NsRegister, NsWakeWaiters, NsWhoIs, NsUnregister, TsWake, TsDone, Removed,
         timeVars, vars
<1>. QED BY <1>2, <1>3, <1>4, <1>6, <1>7, <1>8 DEF Next, TsStep

\* Whoever is woken has slept as long as it asked for.
LEMMA WokenInTime ==
  ASSUME NoWrap, IInv, Punctual, TsWake
  PROVE  \A d \in descs \ descs' : d.due <= now
<1>1. PICK tick \in ts, d \in descs : Due(d, tick) /\ descs' = descs \ {d}
  BY DEF TsWake, Removed
<1>2. TimeTyped
  BY DEF IInv, Typed
<1>3. PICK k \in 0 .. now : tick = k % TickMod
  BY <1>1, <1>2 DEF TimeTyped, Ticks
<1>4. /\ now \in Nat /\ k \in Nat /\ k <= now /\ TickMod \in Nat \ {0}
      /\ d.due \in Nat /\ d.wake \in Nat /\ d.due <= d.wake /\ d.wake <= tick
  <2>1. MaxTicks \in Nat /\ TickMod \in Nat \ {0}
    BY ServicesAssumption
  <2>2. d.due \in 0 .. MaxTicks /\ d.wake \in 0 .. TickMod - 1
    BY <1>1, <1>2 DEF TimeTyped, Desc
  <2>3. d.due <= d.wake /\ d.wake <= tick
    BY <1>1 DEF Punctual, Due
  <2>4. now \in 0 .. MaxTicks
    BY <1>2 DEF TimeTyped
  <2>. QED BY <1>3, <2>1, <2>2, <2>3, <2>4
<1>5. k % TickMod <= k
  BY <1>4
<1>6. d.due <= now
  BY <1>3, <1>4, <1>5
<1>. QED BY <1>1, <1>6

\* Nobody is woken before its time, as long as the ticks have not wrapped.
THEOREM SleepsLongEnoughHolds ==
  ASSUME NoWrap
  PROVE  Spec => SleepsLongEnough
<1>1. Init => Punctual /\ Timely
  BY DEF Init, Punctual, Timely, ToSet
<1>2. IInv /\ Punctual /\ Timely /\ [Next]_vars => Punctual' /\ Timely'
  BY PunctualNext
<1>3. IInv /\ Punctual /\ [Next]_vars => [TsWake => \A d \in descs \ descs' : d.due <= now]_vars
  BY WokenInTime
<1>. QED BY <1>1, <1>2, <1>3, IInvInit, IInvNext, PTL DEF Spec, SleepsLongEnough
-----------------------------------------------------------------------------
(* A name leads to the task that registered it *)

Requests == ToSet(nsQueue) \cup {ns}

\* The names are those of tasks that are there, and each task has one at most.
Owned ==
  /\ \A n \in Names : names[n] # NullTid =>
       /\ names[n].tid \in Tids
       /\ names[n].life = life[names[n].tid]
       /\ doing[names[n].tid] # "gone"
       /\ named[names[n].tid]
  /\ \A m, n \in Names : names[m] # NullTid /\ names[n].tid = names[m].tid => m = n

\* Who is about to register a name has none yet.
Registering ==
  \A r \in Requests : r.type = "REGISTER" => named[r.tid] /\ NamesOf(r.tid) = {}

\* Who is about to leave is about to lose its name.
Leaving ==
  \A t \in Tids : doing[t] = "leaving" => \E r \in Requests : r.tid = t /\ r.type = "UNREGISTER"

Known == Owned /\ Registering /\ Leaving

\* A task to which no name is entered has none.
LEMMA NamesOfOwners ==
  ASSUME NamesTyped, NEW t \in Tids, NEW n \in Names
  PROVE  n \in NamesOf(t) <=> names[n].tid = t /\ names[n] # NullTid
<1>1. NullTid.tid = 0 /\ 0 \notin Tids
  BY ServicesAssumption DEF NullTid
<1>. QED BY <1>1 DEF NamesOf

\* A step that enters and removes no name, after which nobody new is gone, and in
\* which only one that had no name sends a request to register one.
LEMMA NamesKept ==
  ASSUME NamesTyped, Known, names' = names, life' = life,
         \A t \in Tids : named[t] => named'[t],
         \A t \in Tids : doing'[t] = "gone" => doing[t] = "gone",
         \A t \in Tids : doing'[t] = "leaving" =>
           doing[t] = "leaving" \/ \E r \in Requests' : r.tid = t /\ r.type = "UNREGISTER",
         \A r \in Requests' : r.type = "REGISTER" =>
           r.tid \in Tids /\ (r \in Requests \/ (named'[r.tid] /\ ~named[r.tid])),
         \A r \in Requests : r.type = "UNREGISTER" => r \in Requests'
  PROVE  Known'
<1>1. Owned'
  BY DEF Known, Owned
<1>2. Registering'
  <2>1. ASSUME NEW r \in Requests', r.type = "REGISTER"
        PROVE  named'[r.tid] /\ NamesOf(r.tid)' = {}
    <3>1. NamesOf(r.tid)' = NamesOf(r.tid) /\ r.tid \in Tids
      BY <2>1 DEF NamesOf
    <3>2. CASE r \in Requests
      BY <2>1, <3>1, <3>2 DEF Known, Registering
    <3>3. CASE named'[r.tid] /\ ~named[r.tid]
      <4>1. \A n \in Names : n \notin NamesOf(r.tid)
        BY <3>1, <3>3, NamesOfOwners DEF Known, Owned
      <4>2. NamesOf(r.tid) \subseteq Names
        BY DEF NamesOf
      <4>. QED BY <3>1, <3>3, <4>1, <4>2
    <3>. QED BY <2>1, <3>2, <3>3
  <2>2. \A r \in Requests' : r.type = "REGISTER" => (NamesOf(r.tid) = {})'
    BY <2>1
  <2>. QED BY <2>1 DEF Registering, NamesOf
<1>3. Leaving'
  BY DEF Known, Leaving
<1>. QED BY <1>1, <1>2, <1>3 DEF Known

\* Who is replied to goes on, unless it left.
LEMMA WhoGoesOn ==
  ASSUME ClientsTyped, NEW S, doing' = Replied(S), \A t \in Tids : t \in S => doing[t] # "leaving"
  PROVE  \A t \in Tids : /\ doing'[t] = "gone" => doing[t] = "gone"
                         /\ doing'[t] = "leaving" => doing[t] = "leaving"
BY DEF ClientsTyped, Replied

\* Who waits or sleeps, or is served otherwise, has not asked to leave.
LEMMA WhoStays ==
  ASSUME IInv, Known, NEW t \in Tids,
         Waits(t) \/ Sleeps(t) \/ (Served(t) /\ ns.type # "UNREGISTER")
  PROVE  doing[t] # "leaving"
<1>. SUFFICES ASSUME doing[t] = "leaving" PROVE FALSE
  OBVIOUS
<1>1. Held(t)
  BY DEF IInv, AllHeld
<1>2. PICK r \in Requests : r.tid = t /\ r.type = "UNREGISTER"
  BY DEF Known, Leaving
<1>3. CASE r \in ToSet(nsQueue)
  BY <1>1, <1>2, <1>3, PlacesSeen DEF Held
<1>4. CASE r = ns
  BY <1>1, <1>2, <1>4 DEF Held, Served
<1>. QED BY <1>2, <1>3, <1>4 DEF Requests

\* What the requests are of.
LEMMA RequestsTyped ==
  ASSUME NamesTyped, NEW r \in Requests
  PROVE  r.type \in {"REGISTER", "WHOIS", "UNREGISTER", "REGISTERED"} => r.tid \in Tids
<1>1. ToSet(nsQueue) \subseteq Sent
  BY DEF NamesTyped, ToSet
<1>2. CASE r \in ToSet(nsQueue)
  BY <1>1, <1>2 DEF Sent
<1>3. CASE r = ns
  BY <1>3, OfClient
<1>. QED BY <1>2, <1>3 DEF Requests

\* A request is sent.
LEMMA NsCallKeeps ==
  ASSUME IInv, Known, NEW t \in Tids, NEW type, NEW n, NEW blocking,
         NEW r \in Sent, r = [type |-> type, tid |-> t, name |-> n, blocking |-> blocking],
         NsCall(t, type, n, blocking),
         \A x \in Tids : named[x] => named'[x],
         type = "REGISTER" => named'[t] /\ ~named[t]
  PROVE  Known'
<1>1. /\ life' = life /\ names' = names /\ ns' = ns /\ nsQueue' = Append(nsQueue, r)
      /\ doing' = [doing EXCEPT ![t] = IF type = "UNREGISTER" THEN "leaving" ELSE "calling"]
  BY DEF NsCall, Call
<1>2. ClientsTyped /\ NamesTyped
  BY DEF IInv, Typed
<1>3. Requests' = Requests \cup {r}
  <2>1. ToSet(nsQueue') = ToSet(nsQueue) \cup {r}
    BY <1>1, <1>2, Appended DEF NamesTyped
  <2>. QED BY <1>1, <2>1 DEF Requests
<1>4. r.type = type /\ r.tid = t
  OBVIOUS
<1>5. \A x \in Tids : doing'[x] = "gone" => doing[x] = "gone"
  BY <1>1, <1>2 DEF ClientsTyped
<1>6. \A x \in Tids : doing'[x] = "leaving" => doing[x] = "leaving" \/ (x = t /\ type = "UNREGISTER")
  BY <1>1, <1>2 DEF ClientsTyped
<1>7. \A q \in Requests' : q.type = "REGISTER" =>
        q.tid \in Tids /\ (q \in Requests \/ (named'[q.tid] /\ ~named[q.tid]))
  BY <1>2, <1>3, <1>4, RequestsTyped
<1>. QED BY <1>1, <1>2, <1>3, <1>4, <1>5, <1>6, <1>7, NamesKept

\* A step of a service that replies to tasks that have not asked to leave, and
\* gets no new request.
LEMMA ReplyKeeps ==
  ASSUME IInv, Known, names' = names, life' = life, named' = named,
         NEW S, doing' = doing \/ doing' = Replied(S),
         \A t \in Tids : t \in S => doing[t] # "leaving",
         \A r \in Requests' : r.type = "REGISTER" => r \in Requests,
         \A r \in Requests : r.type = "UNREGISTER" => r \in Requests'
  PROVE  Known'
<1>1. ClientsTyped /\ NamesTyped
  BY DEF IInv, Typed
<1>2. \A t \in Tids : /\ doing'[t] = "gone" => doing[t] = "gone"
                      /\ doing'[t] = "leaving" => doing[t] = "leaving"
  BY <1>1, WhoGoesOn
<1>3. \A r \in Requests' : r.type = "REGISTER" => r.tid \in Tids /\ r \in Requests
  BY <1>1, RequestsTyped
<1>. QED BY <1>1, <1>2, <1>3, NamesKept

\* The name server enters a name, which is then its task's only one.
LEMMA NsRegisterKnown ==
  ASSUME IInv, Known, NsRegister
  PROVE  Known'
<1>1. ClientsTyped /\ NamesTyped
  BY DEF IInv, Typed
<1>2. PICK h \in Tids, m \in Names : h = ns.tid /\ m = ns.name /\ ns.type = "REGISTER" /\ ns \in Sent
  BY <1>1, OfClient DEF NsRegister
<1>3. /\ names' = [names EXCEPT ![m] = Task(h)] /\ doing' = Replied({h})
      /\ ns' = [ns EXCEPT !.type = "REGISTERED"]
      /\ life' = life /\ named' = named /\ nsQueue' = nsQueue
  BY <1>2 DEF NsRegister
<1>4. \A n \in Names : names'[n] = IF n = m THEN Task(h) ELSE names[n]
  BY <1>1, <1>3 DEF NamesTyped
<1>5. Task(h).tid = h /\ Task(h).life = life[h]
  BY DEF Task
<1>6. named[h] /\ NamesOf(h) = {}
  BY <1>2 DEF Known, Registering, Requests
<1>7. \A n \in Names : names[n].tid # h
  BY <1>6 DEF NamesOf
<1>8. doing[h] # "leaving" /\ Served(h)
  <2>1. Served(h)
    BY <1>2 DEF Served
  <2>. QED BY <1>2, <2>1, WhoStays
<1>9. \A t \in Tids : /\ doing'[t] = "gone" => doing[t] = "gone"
                      /\ doing'[t] = "leaving" => doing[t] = "leaving"
  BY <1>1, <1>3, <1>8, WhoGoesOn
<1>10. doing[h] # "gone"
  <2>1. Held(h)
    BY DEF IInv, AllHeld
  <2>. QED BY <1>8, <2>1 DEF Held, Blocked
<1>11. Owned'
  <2>1. ASSUME NEW n \in Names, names'[n] # NullTid
        PROVE  /\ names'[n].tid \in Tids
               /\ names'[n].life = life'[names'[n].tid]
               /\ doing'[names'[n].tid] # "gone"
               /\ named'[names'[n].tid]
    <3>1. CASE n = m
      <4>1. doing'[h] # "gone" /\ named'[h] /\ life'[h] = life[h]
        BY <1>3, <1>6, <1>9, <1>10
      <4>. QED BY <1>4, <1>5, <3>1, <4>1
    <3>2. CASE n # m
      <4>1. names'[n] = names[n]
        BY <1>4, <3>2
      <4>2. /\ names[n].tid \in Tids /\ names[n].life = life[names[n].tid]
            /\ doing[names[n].tid] # "gone" /\ named[names[n].tid]
        BY <2>1, <4>1 DEF Known, Owned
      <4>. QED BY <1>3, <1>9, <4>1, <4>2
    <3>. QED BY <3>1, <3>2
  <2>2. ASSUME NEW k \in Names, NEW n \in Names, names'[k] # NullTid, names'[n].tid = names'[k].tid
        PROVE  k = n
    <3>1. CASE k = m /\ n # m
      BY <1>4, <1>5, <1>7, <2>2, <3>1
    <3>2. CASE k # m /\ n = m
      BY <1>4, <1>5, <1>7, <2>2, <3>2
    <3>3. CASE k # m /\ n # m
      <4>1. names'[k] = names[k] /\ names'[n] = names[n]
        BY <1>4, <3>3
      <4>. QED BY <2>2, <4>1 DEF Known, Owned
    <3>. QED BY <3>1, <3>2, <3>3
  <2>. QED BY <2>1, <2>2 DEF Owned
<1>12. ns'.type = "REGISTERED"
  BY <1>2, <1>3 DEF Sent
<1>13. Registering'
  <2>1. ASSUME NEW r \in Requests', r.type = "REGISTER" PROVE named'[r.tid] /\ NamesOf(r.tid)' = {}
    <3>1. r \in ToSet(nsQueue) /\ r \in Requests
      BY <1>3, <1>12, <2>1 DEF Requests
    <3>2. r.tid \in Tids /\ r.tid # h
      <4>1. r.tid \in Tids
        BY <1>1, <2>1, <3>1, RequestsTyped
      <4>2. ~InQueue(h)
        BY <1>8 DEF IInv, AllHeld, Held
      <4>. QED BY <3>1, <4>1, <4>2, PlacesSeen
    <3>3. named[r.tid] /\ NamesOf(r.tid) = {}
      BY <2>1, <3>1 DEF Known, Registering
    <3>4. \A n \in Names : names[n].tid # r.tid
      BY <3>3 DEF NamesOf
    <3>5. \A n \in Names : names'[n].tid # r.tid
      BY <1>4, <1>5, <3>2, <3>4
    <3>. QED BY <1>3, <3>3, <3>5 DEF NamesOf
  <2>. QED BY <2>1 DEF Registering, NamesOf
<1>14. Leaving'
  <2>1. \A r \in Requests : r.type = "UNREGISTER" => r \in Requests'
    BY <1>2, <1>3 DEF Requests
  <2>. QED BY <1>9, <2>1 DEF Known, Leaving
<1>. QED BY <1>11, <1>13, <1>14 DEF Known

\* The name server removes the name of the task that leaves.
LEMMA NsUnregisterKnown ==
  ASSUME IInv, Known, NsUnregister
  PROVE  Known'
<1>1. ClientsTyped /\ NamesTyped
  BY DEF IInv, Typed
<1>2. PICK h \in Tids : h = ns.tid /\ ns.type = "UNREGISTER"
  BY <1>1, OfClient DEF NsUnregister
<1>3. /\ doing' = Replied({h}) /\ ns' = Idle
      /\ life' = life /\ named' = named /\ nsQueue' = nsQueue
  BY <1>2 DEF NsUnregister
<1>4. \A n \in Names : names'[n] = IF names[n].tid = h THEN NullTid ELSE names[n]
  <2>1. CASE NamesOf(h) = {}
    <3>1. names' = names
      BY <1>2, <2>1 DEF NsUnregister
    <3>. QED BY <2>1, <3>1 DEF NamesOf
  <2>2. CASE NamesOf(h) # {}
    <3>1. PICK m \in NamesOf(h) : names' = [names EXCEPT ![m] = NullTid]
      BY <1>2, <2>2 DEF NsUnregister
    <3>2. m \in Names /\ names[m].tid = h /\ names[m] # NullTid
      BY <1>1, <3>1, NamesOfOwners DEF NamesOf
    <3>3. \A n \in Names : names[n].tid = h => n = m
      BY <3>2 DEF Known, Owned
    <3>. QED BY <1>1, <3>1, <3>2, <3>3 DEF NamesTyped
  <2>. QED BY <2>1, <2>2
<1>5. \A n \in Names : names'[n] # NullTid => names'[n] = names[n] /\ names[n].tid # h
  BY <1>4
<1>6. \A t \in Tids : t # h => doing'[t] = doing[t]
  BY <1>1, <1>3 DEF Replied, ClientsTyped
<1>7. doing'[h] # "leaving"
  BY <1>1, <1>3 DEF Replied, ClientsTyped
<1>8. Owned'
  <2>1. ASSUME NEW n \in Names, names'[n] # NullTid
        PROVE  /\ names'[n].tid \in Tids
               /\ names'[n].life = life'[names'[n].tid]
               /\ doing'[names'[n].tid] # "gone"
               /\ named'[names'[n].tid]
    <3>1. names'[n] = names[n] /\ names[n].tid # h
      BY <1>5, <2>1
    <3>2. /\ names[n].tid \in Tids /\ names[n].life = life[names[n].tid]
          /\ doing[names[n].tid] # "gone" /\ named[names[n].tid]
      BY <2>1, <3>1 DEF Known, Owned
    <3>. QED BY <1>3, <1>6, <3>1, <3>2
  <2>2. ASSUME NEW k \in Names, NEW n \in Names, names'[k] # NullTid, names'[n].tid = names'[k].tid
        PROVE  k = n
    <3>1. names'[k] = names[k] /\ names[k] # NullTid /\ names[k].tid \in Tids
      BY <1>5, <2>2 DEF Known, Owned
    <3>2. NullTid.tid \notin Tids
      BY ServicesAssumption DEF NullTid
    <3>3. names'[n] # NullTid
      BY <2>2, <3>1, <3>2
    <3>4. names'[n] = names[n]
      BY <1>5, <3>3
    <3>. QED BY <2>2, <3>1, <3>4 DEF Known, Owned
  <2>. QED BY <2>1, <2>2 DEF Owned
<1>9. Registering'
  <2>1. ASSUME NEW r \in Requests', r.type = "REGISTER" PROVE named'[r.tid] /\ NamesOf(r.tid)' = {}
    <3>1. r \in Requests
      BY <1>3, <2>1 DEF Requests, Idle
    <3>2. named[r.tid] /\ NamesOf(r.tid) = {} /\ r.tid \in Tids
      BY <1>1, <2>1, <3>1, RequestsTyped DEF Known, Registering
    <3>3. NullTid.tid \notin Tids
      BY ServicesAssumption DEF NullTid
    <3>4. \A n \in Names : names[n].tid # r.tid
      BY <3>2 DEF NamesOf
    <3>5. \A n \in Names : names'[n].tid # r.tid
      BY <1>4, <3>2, <3>3, <3>4
    <3>. QED BY <1>3, <3>2, <3>5 DEF NamesOf
  <2>. QED BY <2>1 DEF Registering, NamesOf
<1>10. Leaving'
  <2>1. ASSUME NEW t \in Tids, doing'[t] = "leaving"
        PROVE  \E r \in Requests' : r.tid = t /\ r.type = "UNREGISTER"
    <3>1. t # h /\ doing[t] = "leaving"
      BY <1>6, <1>7, <2>1
    <3>2. PICK r \in Requests : r.tid = t /\ r.type = "UNREGISTER"
      BY <3>1 DEF Known, Leaving
    <3>3. r \in ToSet(nsQueue)
      BY <1>2, <3>1, <3>2 DEF Requests
    <3>. QED BY <1>3, <3>2, <3>3 DEF Requests
  <2>. QED BY <2>1 DEF Leaving
<1>. QED BY <1>8, <1>9, <1>10 DEF Known

\* The task that gets a tid anew has no name.
LEMMA CreateKnown ==
  ASSUME IInv, Known, NEW t \in Tids, Create(t)
  PROVE  Known'
<1>1. ClientsTyped /\ NamesTyped
  BY DEF IInv, Typed
<1>2. /\ doing[t] = "gone" /\ life' = [life EXCEPT ![t] = @ + 1]
      /\ doing' = [doing EXCEPT ![t] = "run"] /\ named' = [named EXCEPT ![t] = FALSE]
      /\ names' = names /\ nsQueue' = nsQueue /\ ns' = ns
  BY DEF Create, nameVars
<1>3. \A x \in Tids : x # t => life'[x] = life[x] /\ doing'[x] = doing[x] /\ named'[x] = named[x]
  BY <1>1, <1>2 DEF ClientsTyped
<1>4. doing'[t] = "run"
  BY <1>1, <1>2 DEF ClientsTyped
<1>5. Requests' = Requests
  BY <1>2 DEF Requests
<1>6. \A r \in Requests : r.type = "REGISTER" => r.tid # t
  <2>1. ~InQueue(t) /\ ~Served(t)
    BY <1>2 DEF IInv, AllHeld, Held, Blocked
  <2>2. \A r \in ToSet(nsQueue) : r.tid # t
    BY <2>1, PlacesSeen
  <2>. QED BY <2>1, <2>2 DEF Requests, Served
<1>7. Owned'
  <2>1. \A n \in Names : names[n] # NullTid => names[n].tid # t
    BY <1>2 DEF Known, Owned
  <2>. QED BY <1>2, <1>3, <2>1 DEF Known, Owned
<1>8. Registering'
  <2>1. ASSUME NEW r \in Requests', r.type = "REGISTER" PROVE named'[r.tid] /\ NamesOf(r.tid)' = {}
    <3>1. r \in Requests /\ r.tid \in Tids /\ r.tid # t
      BY <1>1, <1>5, <1>6, <2>1, RequestsTyped
    <3>2. named[r.tid] /\ NamesOf(r.tid) = {}
      BY <2>1, <3>1 DEF Known, Registering
    <3>. QED BY <1>2, <1>3, <3>1, <3>2 DEF NamesOf
  <2>. QED BY <2>1 DEF Registering, NamesOf
<1>9. Leaving'
  BY <1>3, <1>4, <1>5 DEF Known, Leaving
<1>. QED BY <1>7, <1>8, <1>9 DEF Known

\* The steps of the name server that enter and remove no name.
LEMMA NameServerKnown ==
  ASSUME IInv, Known, NsReceive \/ NsWakeWaiters \/ NsWhoIs
  PROVE  Known'
<1>1. ClientsTyped /\ NamesTyped /\ Apart(nsQueue)
  BY DEF IInv, Typed, Distinct
<1>2. CASE NsReceive
  <2>1. /\ nsQueue # <<>> /\ ns' = Head(nsQueue) /\ nsQueue' = Tail(nsQueue) /\ ns = Idle
        /\ names' = names /\ life' = life /\ named' = named /\ doing' = doing
    BY <1>2 DEF NsReceive, clientVars
  <2>2. ToSet(nsQueue') = ToSet(nsQueue) \ {ns'} /\ ns' \in ToSet(nsQueue)
    BY <1>1, <2>1, Received DEF NamesTyped
  <2>3. Requests' = ToSet(nsQueue)
    BY <2>2 DEF Requests
  <2>4. /\ \A r \in Requests' : r.type = "REGISTER" => r \in Requests
        /\ \A r \in Requests : r.type = "UNREGISTER" => r \in Requests'
    BY <2>1, <2>3 DEF Requests, Idle
  <2>5. \A r \in Requests' : r.type = "REGISTER" => r.tid \in Tids /\ r \in Requests
    BY <1>1, <2>4, RequestsTyped
  <2>. QED BY <1>1, <2>1, <2>4, <2>5, NamesKept
<1>3. CASE NsWakeWaiters
  <2>1. /\ ns.type = "REGISTERED" /\ ns' = Idle /\ nsQueue' = nsQueue
        /\ names' = names /\ life' = life /\ named' = named
    BY <1>3 DEF NsWakeWaiters
  <2>2. PICK n : doing' = doing \/ (doing' = Replied(Woken(n)) /\ n \in Names)
    <3>1. ns.name \in Names
      BY <1>1, <2>1, OfClient
    <3>. QED BY <1>3, <3>1 DEF NsWakeWaiters
  <2>3. /\ \A r \in Requests' : r.type = "REGISTER" => r \in Requests
        /\ \A r \in Requests : r.type = "UNREGISTER" => r \in Requests'
    BY <2>1 DEF Requests, Idle
  <2>4. CASE n \in Names
    <3>1. \A t \in Tids : t \in Woken(n) => doing[t] # "leaving"
      <4>1. ASSUME NEW t \in Tids, t \in Woken(n) PROVE Waits(t)
        BY <2>4, <4>1 DEF Woken, Waits
      <4>. QED BY <4>1, WhoStays
    <3>. HIDE DEF Woken
    <3>. QED BY <2>1, <2>2, <2>3, <3>1, ReplyKeeps
  <2>5. CASE doing' = doing
    <3>1. doing' = doing \/ doing' = Replied({})
      BY <2>5
    <3>. QED BY <2>1, <2>3, <3>1, ReplyKeeps
  <2>. QED BY <2>2, <2>4, <2>5
<1>4. CASE NsWhoIs
  <2>1. /\ ns.type = "WHOIS" /\ ns' = Idle /\ nsQueue' = nsQueue
        /\ names' = names /\ life' = life /\ named' = named
        /\ doing' = doing \/ doing' = Replied({ns.tid})
    BY <1>4 DEF NsWhoIs
  <2>2. /\ \A r \in Requests' : r.type = "REGISTER" => r \in Requests
        /\ \A r \in Requests : r.type = "UNREGISTER" => r \in Requests'
    BY <2>1 DEF Requests, Idle
  <2>3. \A t \in Tids : t \in {ns.tid} => doing[t] # "leaving"
    <3>1. ASSUME NEW t \in Tids, t = ns.tid PROVE Served(t) /\ ns.type # "UNREGISTER"
      BY <2>1, <3>1 DEF Served
    <3>. QED BY <3>1, WhoStays
  <2>. QED BY <2>1, <2>2, <2>3, ReplyKeeps
<1>. QED BY <1>2, <1>3, <1>4

\* The steps of the time server.
LEMMA TimeServerKnown ==
  ASSUME IInv, Known, TsStep \/ Elapse \/ NotifyTick \/ UNCHANGED vars
  PROVE  Known'
<1>1. /\ names' = names /\ life' = life /\ named' = named /\ nsQueue' = nsQueue /\ ns' = ns
  BY DEF TsStep, TsReceive, TsWake, TsDone, Elapse, NotifyTick, nameVars, clientVars, vars
<1>2. Requests' = Requests
  BY <1>1 DEF Requests
<1>3. CASE TsWake
  <2>1. PICK d \in descs : doing' = Replied({d.tid})
    BY <1>3 DEF TsWake
  <2>2. \A t \in Tids : t \in {d.tid} => doing[t] # "leaving"
    <3>1. ASSUME NEW t \in Tids, t = d.tid PROVE Sleeps(t)
      BY <3>1 DEF Sleeps
    <3>. QED BY <3>1, WhoStays
  <2>. QED BY <1>1, <1>2, <2>1, <2>2, ReplyKeeps
<1>4. CASE ~TsWake
  <2>1. doing' = doing \/ doing' = Replied({})
    BY <1>4 DEF TsStep, TsReceive, TsDone, Elapse, NotifyTick, clientVars, vars
  <2>. QED BY <1>1, <1>2, <2>1, ReplyKeeps
<1>. QED BY <1>3, <1>4

\* The steps of the clients.
LEMMA ClientKnown ==
  ASSUME OneName, IInv, Known, NEW t \in Tids, Client(t)
  PROVE  Known'
<1>1. ClientsTyped /\ NamesTyped
  BY DEF IInv, Typed
<1>2. ASSUME NEW n \in Names, Register(t, n) PROVE Known'
  <2>1. [type |-> "REGISTER", tid |-> t, name |-> n, blocking |-> FALSE] \in Sent
    BY DEF Sent
  <2>2. NsCall(t, "REGISTER", n, FALSE) /\ ~named[t] /\ named' = [named EXCEPT ![t] = TRUE]
    BY <1>2 DEF Register
  <2>3. named'[t] /\ \A x \in Tids : named[x] => named'[x]
    BY <1>1, <2>2 DEF ClientsTyped
  <2>. QED BY <2>1, <2>2, <2>3, NsCallKeeps
<1>3. ASSUME NEW n \in Names, NEW b \in BOOLEAN, WhoIs(t, n, b) PROVE Known'
  <2>1. [type |-> "WHOIS", tid |-> t, name |-> n, blocking |-> b] \in Sent
    BY DEF Sent
  <2>2. NsCall(t, "WHOIS", n, b) /\ named' = named
    BY <1>3 DEF WhoIs
  <2>. QED BY <2>1, <2>2, NsCallKeeps
<1>4. ASSUME Unregister(t) PROVE Known'
  <2>1. [type |-> "UNREGISTER", tid |-> t, name |-> NoName, blocking |-> FALSE] \in Sent
    BY DEF Sent
  <2>2. NsCall(t, "UNREGISTER", NoName, FALSE) /\ named' = named
    BY <1>4 DEF Unregister
  <2>. QED BY <2>1, <2>2, NsCallKeeps
<1>5. ASSUME NEW d \in Delays, Sleep(t, d) PROVE Known'
  <2>1. /\ names' = names /\ life' = life /\ named' = named /\ nsQueue' = nsQueue /\ ns' = ns
        /\ doing' = [doing EXCEPT ![t] = "calling"]
    BY <1>5 DEF Sleep, Call, nameVars
  <2>2. Requests' = Requests
    BY <2>1 DEF Requests
  <2>3. \A x \in Tids : /\ doing'[x] = "gone" => doing[x] = "gone"
                        /\ doing'[x] = "leaving" => doing[x] = "leaving"
    BY <1>1, <2>1 DEF ClientsTyped
  <2>4. \A r \in Requests' : r.type = "REGISTER" => r.tid \in Tids /\ r \in Requests
    BY <1>1, <2>2, RequestsTyped
  <2>. QED BY <1>1, <2>1, <2>2, <2>3, <2>4, NamesKept
<1>. QED BY <1>2, <1>3, <1>4, <1>5, CreateKnown DEF Client

\* A name is that of the task that registered it, as long as that task is there,
\* and never of the next one with its tid.
THEOREM NamesOfLivingHolds ==
  ASSUME OneName
  PROVE  Spec => []NamesOfLiving
<1>1. Init => Known
  <2>. SUFFICES ASSUME Init PROVE Known
    OBVIOUS
  <2>1. /\ doing = [t \in Tids |-> "run"] /\ names = [n \in Names |-> NullTid]
        /\ nsQueue = <<>> /\ ns = Idle
    BY DEF Init
  <2>2. Requests = {Idle}
    BY <2>1 DEF Requests, ToSet
  <2>3. Owned
    BY <2>1 DEF Owned
  <2>4. Registering
    BY <2>2 DEF Registering, Idle
  <2>5. Leaving
    BY <2>1 DEF Leaving
  <2>. QED BY <2>3, <2>4, <2>5 DEF Known
<1>2. IInv /\ Known /\ [Next]_vars => Known'
  BY NsRegisterKnown, NsUnregisterKnown, NameServerKnown, TimeServerKnown, ClientKnown
  DEF Next, NsStep
<1>3. Known => NamesOfLiving
  BY DEF Known, Owned, NamesOfLiving
<1>. QED BY <1>1, <1>2, <1>3, IInvInit, IInvNext, PTL DEF Spec
-----------------------------------------------------------------------------
(* The hand-over of batches to the render thread *)

USE RenderAssumption DEF renderVars

\* Two workspaces, each with a number of commands.
LEMMA Two ==
  ASSUME SyncTypeOK
  PROVE  /\ cur \in {0, 1} /\ rws \in {0, 1}
         /\ SimWS \in {0, 1} /\ RenderWS \in {0, 1} /\ SimWS # RenderWS
         /\ \A i \in {0, 1} : cmds[i] \in 0 .. MaxCmds
<1>1. cur = 0 \/ cur = 1
  BY DEF SyncTypeOK
<1>2. SimWS \in {0, 1} /\ RenderWS \in {0, 1} /\ SimWS # RenderWS
  BY <1>1 DEF SimWS, RenderWS
<1>3. \A i \in {0, 1} : cmds[i] \in 0 .. MaxCmds
  BY DEF SyncTypeOK
<1>. QED BY <1>2, <1>3 DEF SyncTypeOK

\* A step that leaves the workspaces alone leaves what they hold alone.
LEMMA Kept ==
  ASSUME cur' = cur
  PROVE  SimWS' = SimWS /\ RenderWS' = RenderWS
BY DEF SimWS, RenderWS

\* An exchange.
LEMMA Exchanged ==
  ASSUME SyncTypeOK, cur' = RenderWS
  PROVE  SimWS' = RenderWS /\ RenderWS' = SimWS /\ cur' \in {0, 1} /\ 0 \in 0 .. MaxCmds
<1>1. cur' = 1 - cur /\ cur \in {0, 1}
  BY DEF SyncTypeOK, RenderWS
<1>2. cur' \in {0, 1} /\ cur = 1 - cur'
  BY <1>1
<1>3. 0 \in 0 .. MaxCmds
  OBVIOUS
<1>. QED BY <1>1, <1>2, <1>3 DEF SimWS, RenderWS

\* The initial states.
LEMMA InitInv ==
  ASSUME SyncInit
  PROVE  SyncInv
<1>1. cmds \in [{0, 1} -> 0 .. MaxCmds]
  BY DEF SyncInit
<1>2. SyncTypeOK
  BY <1>1 DEF SyncInit, SyncTypeOK
<1>3. SimWS = 0 /\ RenderWS = 1 /\ cmds[0] = 0 /\ cmds[1] = 0
  BY DEF SyncInit, SimWS, RenderWS
<1>4. ThreadsOK /\ FlagsOK
  BY DEF SyncInit, ThreadsOK, FlagsOK, RenderIdle, Quiescent
<1>5. WorkspacesOK
  BY <1>3 DEF SyncInit, WorkspacesOK, OwnWorkspace, SwapFindsEmpty
<1>. QED BY <1>2, <1>4, <1>5 DEF SyncInv

-----------------------------------------------------------------------------
(* The render thread *)

\* The first command: the context is initialised.
LEMMA BootInv ==
  ASSUME SyncInv, Boot
  PROVE  SyncInv'
<1>. USE DEF Boot
<1>1. SyncTypeOK'
  BY Two DEF SyncInv, SyncTypeOK
<1>2. ThreadsOK'
  BY DEF SyncInv, ThreadsOK, FlagsOK, RenderIdle, Quiescent
<1>3. FlagsOK'
  BY DEF SyncInv, ThreadsOK, FlagsOK, RenderIdle, Quiescent
<1>4. WorkspacesOK'
  BY Two, Kept
     DEF SyncInv, ThreadsOK, FlagsOK, WorkspacesOK, OwnWorkspace, SwapFindsEmpty, RenderIdle,
            Quiescent
<1>. QED BY <1>1, <1>2, <1>3, <1>4 DEF SyncInv

\* A command, or the end of the thread.
LEMMA CommandInv ==
  ASSUME SyncInv, Command
  PROVE  SyncInv'
<1>. USE DEF Command
<1>1. SyncTypeOK'
  BY Two DEF SyncInv, SyncTypeOK
<1>2. ThreadsOK'
  BY DEF SyncInv, ThreadsOK, FlagsOK, RenderIdle, Quiescent
<1>3. FlagsOK'
  BY DEF SyncInv, ThreadsOK, FlagsOK, RenderIdle, Quiescent
<1>4. WorkspacesOK'
  BY Two, Kept
     DEF SyncInv, ThreadsOK, FlagsOK, WorkspacesOK, OwnWorkspace, SwapFindsEmpty, RenderIdle,
            Quiescent
<1>. QED BY <1>1, <1>2, <1>3, <1>4 DEF SyncInv

\* The batch is done: the render thread answers.
LEMMA SignalDoneInv ==
  ASSUME SyncInv, SignalDone
  PROVE  SyncInv'
<1>. USE DEF SignalDone
<1>1. SyncTypeOK'
  BY Two DEF SyncInv, SyncTypeOK
<1>2. ThreadsOK'
  BY DEF SyncInv, ThreadsOK, FlagsOK, RenderIdle, Quiescent
<1>3. FlagsOK'
  BY DEF SyncInv, ThreadsOK, FlagsOK, RenderIdle, Quiescent
<1>4. WorkspacesOK'
  BY Two, Kept
     DEF SyncInv, ThreadsOK, FlagsOK, WorkspacesOK, OwnWorkspace, SwapFindsEmpty, RenderIdle,
            Quiescent
<1>. QED BY <1>1, <1>2, <1>3, <1>4 DEF SyncInv

\* The batch is looked up: it is the workspace that is not the simulation's.
LEMMA FetchInv ==
  ASSUME SyncInv, Fetch
  PROVE  SyncInv'
<1>1. rws' = RenderWS /\ rws' \in {0, 1}
  BY Two DEF SyncInv, Fetch, Fetched
<1>2. SyncTypeOK'
  BY <1>1 DEF SyncInv, Fetch, SyncTypeOK
<1>3. ThreadsOK' /\ FlagsOK'
  BY DEF Fetch, SyncInv, ThreadsOK, FlagsOK, RenderIdle, Quiescent
<1>4. WorkspacesOK'
  BY <1>1, Two, Kept
     DEF Fetch, SyncInv, ThreadsOK, FlagsOK, WorkspacesOK, OwnWorkspace, SwapFindsEmpty,
            RenderIdle, Quiescent
<1>. QED BY <1>2, <1>3, <1>4 DEF SyncInv

\* The batch has been executed to its end.
LEMMA PresentInv ==
  ASSUME SyncInv, Present
  PROVE  SyncInv'
<1>1. rws = RenderWS
  BY DEF SyncInv, Present, WorkspacesOK, OwnWorkspace
<1>2. cmds[rws] \in 0 .. MaxCmds /\ ~(cmds[rws] > 0)
  BY Two DEF SyncInv, Present, NonEmpty
<1>3. cmds[RenderWS] = 0
  BY <1>1, <1>2
<1>4. SyncTypeOK'
  BY DEF SyncInv, Present, SyncTypeOK
<1>5. ThreadsOK' /\ FlagsOK'
  BY DEF Present, SyncInv, ThreadsOK, FlagsOK, RenderIdle, Quiescent
<1>6. WorkspacesOK'
  BY <1>1, <1>3, Two, Kept
     DEF Present, SyncInv, ThreadsOK, FlagsOK, WorkspacesOK, OwnWorkspace, SwapFindsEmpty,
            RenderIdle, Quiescent
<1>. QED BY <1>4, <1>5, <1>6 DEF SyncInv

\* One command of the batch is executed.
LEMMA ExecuteInv ==
  ASSUME SyncInv, Execute
  PROVE  SyncInv'
<1>1. rws = RenderWS
  BY DEF SyncInv, Execute, WorkspacesOK, OwnWorkspace
<1>2. cmds[rws] \in 0 .. MaxCmds /\ cmds[rws] > 0
  BY Two DEF SyncInv, Execute, NonEmpty
<1>3. cmds[rws] - 1 \in 0 .. MaxCmds
  BY <1>2
<1>4. cmds' \in [{0, 1} -> 0 .. MaxCmds]
  BY <1>3, Two DEF SyncInv, Execute, SyncTypeOK
<1>5. cmds'[SimWS] = cmds[SimWS]
  BY <1>1, Two DEF SyncInv, Execute, SyncTypeOK
<1>6. cmds[RenderWS] # 0
  BY <1>1, <1>2
<1>7. SyncTypeOK'
  BY <1>4 DEF SyncInv, Execute, SyncTypeOK
<1>8. ThreadsOK' /\ FlagsOK'
  BY DEF Execute, SyncInv, ThreadsOK, FlagsOK, RenderIdle, Quiescent
<1>9. WorkspacesOK'
  BY <1>1, <1>5, <1>6, Two, Kept
     DEF Execute, SyncInv, ThreadsOK, FlagsOK, WorkspacesOK, OwnWorkspace, SwapFindsEmpty,
            RenderIdle, Quiescent
<1>. QED BY <1>7, <1>8, <1>9 DEF SyncInv

-----------------------------------------------------------------------------
(* The main thread *)

\* Either half of a start, wherever main makes one.
LEMMA StartWorkInv ==
  ASSUME SyncInv,
         NEW here, NEW next, StartWork(here, next),
         \/ here = "boot" /\ next = "boot wait"
         \/ here = "flush1" /\ next = "flush1 wait"
         \/ here = "flush2" /\ next = "flush2 wait"
         \/ here = "flush3" /\ next = "prepare" /\ ret = next
         \/ here = "flush3" /\ next = "loaded" /\ ret = next
         \/ here = "loop" /\ next = "frame" /\ ~userQuit
         \/ here = "down" /\ next = "down wait"
  PROVE  SyncInv'
<1>. USE DEF StartWork, At
<1>1. SyncTypeOK'
  BY DEF SyncInv, SyncTypeOK
<1>2. ThreadsOK'
  BY DEF SyncInv, ThreadsOK, FlagsOK, RenderIdle, Quiescent
<1>3. FlagsOK'
  BY DEF SyncInv, ThreadsOK, FlagsOK, RenderIdle, Quiescent
<1>4. WorkspacesOK'
  BY Two, Kept
     DEF SyncInv, ThreadsOK, FlagsOK, WorkspacesOK, OwnWorkspace, SwapFindsEmpty, RenderIdle,
            Quiescent
<1>. QED BY <1>1, <1>2, <1>3, <1>4 DEF SyncInv

\* An answer is taken, wherever main waits for one.
LEMMA WaitDoneInv ==
  ASSUME SyncInv,
         NEW here, NEW next, WaitDone(here, next),
         \/ here = "boot wait" /\ next = "init"
         \/ here = "flush1 wait" /\ next = "flush1 swap"
         \/ here = "flush2 wait" /\ next = "flush2 swap"
         \/ here = "render" /\ next = "end"
         \/ here = "down wait" /\ next = "quit"
  PROVE  SyncInv'
<1>. USE DEF WaitDone, At, IsDone
<1>1. SyncTypeOK'
  BY DEF SyncInv, SyncTypeOK
<1>2. ThreadsOK'
  BY DEF SyncInv, ThreadsOK, FlagsOK, RenderIdle, Quiescent
<1>3. FlagsOK'
  BY DEF SyncInv, ThreadsOK, FlagsOK, RenderIdle, Quiescent
<1>4. WorkspacesOK'
  BY Two, Kept
     DEF SyncInv, ThreadsOK, FlagsOK, WorkspacesOK, OwnWorkspace, SwapFindsEmpty, RenderIdle,
            Quiescent
<1>. QED BY <1>1, <1>2, <1>3, <1>4 DEF SyncInv

\* A wait that leaves the answer where it is.
LEMMA WaitRenderWorkDoneInv ==
  ASSUME SyncInv,
         NEW here, NEW next, WaitRenderWorkDone(here, next),
         \/ here = "frame" /\ next = "clear" /\ ~userQuit
         \/ here = "free" /\ next = "over"
  PROVE  SyncInv'
<1>. USE DEF WaitRenderWorkDone, At, Quiet, NotAcknowledged
<1>1. SyncTypeOK'
  BY DEF SyncInv, SyncTypeOK
<1>2. ThreadsOK'
  BY DEF SyncInv, ThreadsOK, FlagsOK, RenderIdle, Quiescent
<1>3. FlagsOK'
  BY DEF SyncInv, ThreadsOK, FlagsOK, RenderIdle, Quiescent
<1>4. WorkspacesOK'
  BY Two, Kept
     DEF SyncInv, ThreadsOK, FlagsOK, WorkspacesOK, OwnWorkspace, SwapFindsEmpty, RenderIdle,
            Quiescent
<1>. QED BY <1>1, <1>2, <1>3, <1>4 DEF SyncInv

\* Control goes on.
LEMMA JumpInv ==
  ASSUME SyncInv,
         NEW here, NEW next, Jump(here, next),
         \/ here = "frame" /\ next = "render"
         \/ here = "load" /\ next = "render"
         \/ here = "loaded" /\ next = "clear"
         \/ here = "loaded" /\ next = "render"
         \/ here = "loop" /\ next = "down" /\ userQuit
         \/ here = "join" /\ next = "free" /\ rpc = "gone"
  PROVE  SyncInv'
<1>. USE DEF Jump, At
<1>1. SyncTypeOK'
  BY DEF SyncInv, SyncTypeOK
<1>2. ThreadsOK'
  BY DEF SyncInv, ThreadsOK, FlagsOK, RenderIdle, Quiescent
<1>3. FlagsOK'
  BY DEF SyncInv, ThreadsOK, FlagsOK, RenderIdle, Quiescent
<1>4. WorkspacesOK'
  BY Two, Kept
     DEF SyncInv, ThreadsOK, FlagsOK, WorkspacesOK, OwnWorkspace, SwapFindsEmpty, RenderIdle,
            Quiescent
<1>. QED BY <1>1, <1>2, <1>3, <1>4 DEF SyncInv

\* A flush is called.
LEMMA CallFlushInv ==
  ASSUME SyncInv,
         NEW here, NEW back, CallFlush(here, back),
         \/ here = "init" /\ back = "prepare"
         \/ here = "load" /\ back = "loaded"
  PROVE  SyncInv'
<1>. USE DEF CallFlush, At
<1>1. SyncTypeOK'
  BY DEF SyncInv, SyncTypeOK
<1>2. ThreadsOK'
  BY DEF SyncInv, ThreadsOK, FlagsOK, RenderIdle, Quiescent
<1>3. FlagsOK'
  BY DEF SyncInv, ThreadsOK, FlagsOK, RenderIdle, Quiescent
<1>4. WorkspacesOK'
  BY Two, Kept
     DEF SyncInv, ThreadsOK, FlagsOK, WorkspacesOK, OwnWorkspace, SwapFindsEmpty, RenderIdle,
            Quiescent
<1>. QED BY <1>1, <1>2, <1>3, <1>4 DEF SyncInv

\* The user quits in mid-frame.
LEMMA UserQuitInv ==
  ASSUME SyncInv,
         UserQuit
  PROVE  SyncInv'
<1>. USE DEF UserQuit
<1>1. SyncTypeOK'
  BY DEF SyncInv, SyncTypeOK
<1>2. ThreadsOK'
  BY DEF SyncInv, ThreadsOK, FlagsOK, RenderIdle, Quiescent
<1>3. FlagsOK'
  BY DEF SyncInv, ThreadsOK, FlagsOK, RenderIdle, Quiescent
<1>4. WorkspacesOK'
  BY Two, Kept
     DEF SyncInv, ThreadsOK, FlagsOK, WorkspacesOK, OwnWorkspace, SwapFindsEmpty, RenderIdle,
            Quiescent
<1>. QED BY <1>1, <1>2, <1>3, <1>4 DEF SyncInv

\* The render thread is told to end.
LEMMA RenderThreadQuitInv ==
  ASSUME SyncInv,
         RenderThreadQuit
  PROVE  SyncInv'
<1>. USE DEF RenderThreadQuit, At
<1>1. SyncTypeOK'
  BY DEF SyncInv, SyncTypeOK
<1>2. ThreadsOK'
  BY DEF SyncInv, ThreadsOK, FlagsOK, RenderIdle, Quiescent
<1>3. FlagsOK'
  BY DEF SyncInv, ThreadsOK, FlagsOK, RenderIdle, Quiescent
<1>4. WorkspacesOK'
  BY Two, Kept
     DEF SyncInv, ThreadsOK, FlagsOK, WorkspacesOK, OwnWorkspace, SwapFindsEmpty, RenderIdle,
            Quiescent
<1>. QED BY <1>1, <1>2, <1>3, <1>4 DEF SyncInv

\* Both workspaces are emptied.
LEMMA ClearRenderWorkInv ==
  ASSUME SyncInv,
         ClearRenderWork
  PROVE  SyncInv'
<1>. USE DEF ClearRenderWork, At, Quiet
<1>1. SyncTypeOK'
  BY DEF SyncInv, SyncTypeOK
<1>2. ThreadsOK'
  BY DEF SyncInv, ThreadsOK, FlagsOK, RenderIdle, Quiescent
<1>3. FlagsOK'
  BY DEF SyncInv, ThreadsOK, FlagsOK, RenderIdle, Quiescent
<1>4. WorkspacesOK'
  BY Two, Kept
     DEF SyncInv, ThreadsOK, FlagsOK, WorkspacesOK, OwnWorkspace, SwapFindsEmpty, RenderIdle,
            Quiescent
<1>. QED BY <1>1, <1>2, <1>3, <1>4 DEF SyncInv

\* The simulation queues a command.
LEMMA PushCmdInv ==
  ASSUME SyncInv, PushCmd
  PROVE  SyncInv'
<1>1. cmds[SimWS] + 1 \in 0 .. MaxCmds
  BY Two DEF SyncInv, PushCmd
<1>2. cmds' \in [{0, 1} -> 0 .. MaxCmds] /\ cmds'[RenderWS] = cmds[RenderWS]
  BY <1>1, Two DEF SyncInv, PushCmd, SyncTypeOK
<1>3. SyncTypeOK'
  BY <1>2 DEF SyncInv, PushCmd, SyncTypeOK
<1>4. ThreadsOK' /\ FlagsOK'
  BY DEF PushCmd, SyncInv, ThreadsOK, FlagsOK, RenderIdle, Quiescent
<1>5. WorkspacesOK'
  BY <1>2, Two, Kept
     DEF PushCmd, SyncInv, ThreadsOK, FlagsOK, WorkspacesOK, OwnWorkspace, SwapFindsEmpty,
            RenderIdle, Quiescent
<1>. QED BY <1>3, <1>4, <1>5 DEF SyncInv

\* The workspaces are exchanged, which is only done while the render thread is idle.
LEMMA SwapBuffersInv ==
  ASSUME SyncInv,
         NEW here, NEW next, SwapBuffers(here, next),
         \/ here = "flush1 swap" /\ next = "flush2"
         \/ here = "flush2 swap" /\ next = "flush3"
         \/ here = "prepare" /\ next = "loop" /\ RenderIdle
         \/ here = "end" /\ next = "loop"
  PROVE  SyncInv'
<1>1. SimWS' = RenderWS /\ RenderWS' = SimWS /\ cur' \in {0, 1}
  BY Exchanged DEF SyncInv, SwapBuffers
<1>2. cmds' \in [{0, 1} -> 0 .. MaxCmds]
  BY Two, Exchanged DEF SyncInv, SwapBuffers, SyncTypeOK
<1>3. cmds'[RenderWS] = 0 /\ cmds'[SimWS] = cmds[SimWS]
  BY Two DEF SyncInv, SwapBuffers, SyncTypeOK
<1>4. RenderIdle
  BY DEF SwapBuffers, At, SyncInv, ThreadsOK, Quiescent
<1>5. SyncTypeOK'
  BY <1>1, <1>2 DEF SyncInv, SwapBuffers, At, SyncTypeOK
<1>6. ThreadsOK' /\ FlagsOK'
  BY <1>4 DEF SwapBuffers, At, SyncInv, ThreadsOK, FlagsOK, RenderIdle, Quiescent
<1>7. WorkspacesOK'
  BY <1>1, <1>3, <1>4
     DEF SwapBuffers, At, SyncInv, ThreadsOK, FlagsOK, WorkspacesOK, OwnWorkspace,
            SwapFindsEmpty, RenderIdle, Quiescent
<1>. QED BY <1>5, <1>6, <1>7 DEF SyncInv

-----------------------------------------------------------------------------
(* The specification *)

\* The invariant is kept by every step of either thread.
LEMMA NextInv ==
  ASSUME Ordered, SyncInv, [SyncNext]_syncVars
  PROVE  SyncInv'
<1>1. CASE RenderStep
  BY <1>1, BootInv, CommandInv, FetchInv, ExecuteInv, PresentInv, SignalDoneInv DEF RenderStep
<1>2. CASE EngineInit
  BY <1>2, StartWorkInv, WaitDoneInv, CallFlushInv DEF EngineInit
<1>3. CASE Prepare
  BY <1>3, SwapBuffersInv DEF Prepare, Ordered
<1>4. CASE Frame
  BY <1>4, StartWorkInv, WaitDoneInv, SwapBuffersInv, JumpInv DEF Frame
<1>5. CASE FlushRenderWorkQueue
  <2>1. ret \in {"prepare", "loaded"}
    BY DEF SyncInv, SyncTypeOK
  <2>. QED BY <1>5, <2>1, StartWorkInv, WaitDoneInv, SwapBuffersInv DEF FlushRenderWorkQueue
<1>6. CASE ServiceRequests
  BY <1>6, WaitRenderWorkDoneInv, ClearRenderWorkInv, CallFlushInv, JumpInv
     DEF ServiceRequests, Ordered
<1>7. CASE EngineShutdown
  BY <1>7, StartWorkInv, WaitDoneInv, WaitRenderWorkDoneInv, RenderThreadQuitInv, JumpInv
     DEF EngineShutdown
<1>8. CASE PushCmd
  BY <1>8, PushCmdInv
<1>9. CASE UserQuit
  BY <1>9, UserQuitInv
<1>10. CASE UNCHANGED syncVars
  <2>1. SyncTypeOK'
    BY <1>10 DEF syncVars, SyncInv, SyncTypeOK
  <2>2. ThreadsOK' /\ FlagsOK'
    BY <1>10 DEF syncVars, SyncInv, ThreadsOK, FlagsOK, RenderIdle
  <2>3. WorkspacesOK'
    BY <1>10, Kept DEF syncVars, SyncInv, WorkspacesOK, OwnWorkspace, SwapFindsEmpty
  <2>. QED BY <2>1, <2>2, <2>3 DEF SyncInv
<1>. QED BY <1>1, <1>2, <1>3, <1>4, <1>5, <1>6, <1>7, <1>8, <1>9, <1>10 DEF SyncNext, MainStep

\* The invariant holds in every state, however many commands a batch has.
THEOREM SyncInvariance ==
  ASSUME Ordered
  PROVE  SyncSpec => []SyncInv
<1>1. SyncInv /\ [SyncNext]_syncVars => SyncInv'
  BY NextInv
<1>. QED BY <1>1, InitInv, PTL DEF SyncSpec

\* The hand-over of a batch is exclusive from the boot to the shutdown.
THEOREM HandoverSafeHolds ==
  ASSUME Ordered
  PROVE  SyncSpec => []HandoverSafe
<1>1. SyncInv => HandoverSafe
  <2>1. SyncInv => StartsIdle
    BY DEF SyncInv, ThreadsOK, FlagsOK, StartsIdle, Quiescent
  <2>. QED BY <2>1 DEF SyncInv, WorkspacesOK, HandoverSafe
<1>. QED BY <1>1, SyncInvariance, PTL

\* Nothing is cleared or freed under the render thread.
THEOREM ClearedWhenIdleHolds ==
  ASSUME Ordered
  PROVE  SyncSpec => ClearedWhenIdle
<1>1. SyncInv /\ [SyncNext]_syncVars => (mpc = "clear" /\ mpc' = "load" => RenderIdle)
  <2>. SUFFICES ASSUME SyncInv, [SyncNext]_syncVars, mpc = "clear", mpc' = "load"
                PROVE  RenderIdle
    OBVIOUS
  <2>1. done
    <3>1. ~userQuit
      BY DEF SyncInv, FlagsOK
    <3>. QED BY <3>1 DEF SyncNext, MainStep, RenderStep, Boot, Command, Fetch, Execute, Present,
           SignalDone, EngineInit, Prepare, Frame, FlushRenderWorkQueue, ServiceRequests,
           EngineShutdown, PushCmd, UserQuit, StartWork, WaitDone, SwapBuffers, CallFlush,
           Jump, WaitRenderWorkDone, ClearRenderWork, RenderThreadQuit, At, Quiet, syncVars
  <2>. QED BY <2>1 DEF SyncInv, FlagsOK
<1>2. SyncInv /\ [SyncNext]_syncVars => [mpc = "clear" /\ mpc' = "load" => RenderIdle]_syncVars
  BY <1>1
<1>. QED BY <1>2, SyncInvariance, PTL DEF SyncSpec, ClearedWhenIdle
-----------------------------------------------------------------------------
(* Sessions *)

USE SessionAssumption DEF Runs, reqVars, serviceVars, runVars

\* The sub-session that pushed it is missing from what such a script saves.
PushSavesNothing == ~SavesInRun

SessionPlaces == {"frame", "save", "load", "resave", "run", "end"}
-----------------------------------------------------------------------------
(* Facts about sequences and numbers *)

\* A sub-session is no unreadable one.
LEMMA NotBad == \A s \in SubSession : s # Bad /\ s.id \in Runs /\ s.id # 0 /\ s.lost \in BOOLEAN
BY DEF SubSession, Bad

\* What Finish leaves in the queue is within its bound.
LEMMA MinOfTwo ==
  ASSUME NEW q \in Nat
  PROVE  Min({q, MaxQueue}) \in 0 .. MaxQueue
<1>1. \E m \in {q, MaxQueue} : \A y \in {q, MaxQueue} : m =< y
  <2>1. CASE q =< MaxQueue
    BY <2>1
  <2>2. CASE ~(q =< MaxQueue)
    BY <2>2
  <2>. QED BY <2>1, <2>2
<1>2. /\ Min({q, MaxQueue}) \in {q, MaxQueue}
      /\ \A y \in {q, MaxQueue} : Min({q, MaxQueue}) =< y
  BY <1>1 DEF Min
<1>. QED BY <1>2

\* What is left when the last sub-session is taken off.
LEMMA FrontOf ==
  ASSUME NEW S, NEW s \in Seq(S), s # <<>>
  PROVE  /\ Front(s) \in Seq(S)
         /\ Len(Front(s)) = Len(s) - 1
         /\ \A i \in 1 .. Len(s) - 1 : Front(s)[i] = s[i]
         /\ Last(s) \in S /\ Last(s) = s[Len(s)]
<1> DEFINE n == Len(s) - 1
           t == SubSeq(s, 1, n)
<1>1. n \in Nat /\ n + 1 = Len(s) /\ \A i \in 1 .. n + 1 : s[i] \in S
  OBVIOUS
<1> HIDE DEF n
<1>2. /\ t \in Seq(S)
      /\ Len(t) = IF 1 <= n THEN n - 1 + 1 ELSE 0
      /\ \A i \in 1 .. n - 1 + 1 : t[i] = s[1 + i - 1]
  BY <1>1, SubSeqProperties
<1> HIDE DEF t
<1>3. t \in Seq(S) /\ Len(t) = n /\ \A i \in 1 .. n : t[i] = s[i]
  BY <1>1, <1>2
<1>4. Front(s) = t /\ Last(s) = s[Len(s)]
  BY DEF Front, Last, t, n
<1>5. s[Len(s)] \in S
  BY <1>1
<1>6. n = Len(s) - 1
  BY DEF n
<1>. QED BY <1>3, <1>4, <1>5, <1>6

\* Putting an element on and taking it off.
LEMMA OnAndOff ==
  ASSUME NEW S, NEW s \in Seq(S), NEW x \in S
  PROVE  Front(Append(s, x)) = s /\ Last(Append(s, x)) = x
BY DEF Front, Last

\* Another element in place of the last one.
LEMMA LastReplaced ==
  ASSUME NEW s \in Seq(SubSession), s # <<>>, NEW x \in SubSession
  PROVE  /\ DOMAIN Append(Front(s), x) = 1 .. Len(s)
         /\ Append(Front(s), x)[Len(s)] = x
         /\ \A i \in 1 .. Len(s) : i # Len(s) => Append(Front(s), x)[i] = s[i]
<1> DEFINE t == Front(s)
           n == Len(t)
<1>1. t \in Seq(SubSession) /\ n \in Nat /\ Len(s) = n + 1 /\ \A i \in 1 .. n : t[i] = s[i]
  BY FrontOf
<1> HIDE DEF t
<1>2. /\ DOMAIN Append(t, x) = 1 .. n + 1
      /\ Append(t, x)[n + 1] = x
      /\ \A i \in 1 .. n : Append(t, x)[i] = t[i]
  BY <1>1
<1> HIDE DEF n
<1>3. \A i \in 1 .. n + 1 : i # n + 1 => i \in 1 .. n
  BY <1>1
<1>. QED BY <1>1, <1>2, <1>3 DEF t

\* A sub-session that is on top of a chain makes it longer.
LEMMA Longer ==
  ASSUME TypesOK, NEW x \in SubSession, Chain(stack), OnTop(x)
  PROVE  Chain(Append(stack, x))
<1> DEFINE s == Append(stack, x)
<1>1. /\ stack \in Seq(SubSession) /\ s \in Seq(SubSession)
      /\ DOMAIN s = 1 .. Len(stack) + 1 /\ DOMAIN stack = 1 .. Len(stack)
      /\ s[Len(stack) + 1] = x
      /\ \A i \in 1 .. Len(stack) : s[i] = stack[i]
      /\ stack = <<>> <=> Len(stack) = 0
      /\ Len(stack) \in Nat
  BY DEF TypesOK, SessionTypeOK
<1> HIDE DEF s
<1>2. SUFFICES ASSUME NEW i \in DOMAIN s, s[i] # Bad, i > 1 => s[i - 1] # Bad
               PROVE  pushedBy[s[i].id] = Below(s, i)
  BY DEF Chain, s
<1>3. CASE i \in 1 .. Len(stack)
  <2>1. stack[i] # Bad /\ (i > 1 => stack[i - 1] # Bad)
    BY <1>1, <1>2, <1>3
  <2>2. pushedBy[stack[i].id] = Below(stack, i)
    BY <1>1, <1>3, <2>1 DEF Chain
  <2>. QED BY <1>1, <1>3, <2>2 DEF Below
<1>4. CASE i = Len(stack) + 1
  BY <1>1, <1>4 DEF OnTop, Below, Last
<1>. QED BY <1>1, <1>3, <1>4

\* The lower part of a chain is one, and what was above it is on top of it.
LEMMA Shorter ==
  ASSUME NEW s \in Seq(SubSession), Chain(s), NEW i \in 1 .. Len(s)
  PROVE  /\ SubSeq(s, 1, i - 1) \in Seq(SubSession)
         /\ Len(SubSeq(s, 1, i - 1)) = i - 1
         /\ \A j \in 1 .. i - 1 : SubSeq(s, 1, i - 1)[j] = s[j]
         /\ Chain(SubSeq(s, 1, i - 1))
         /\ pushedBy[s[i].id] = IF SubSeq(s, 1, i - 1) = <<>>
                                THEN 0 ELSE Last(SubSeq(s, 1, i - 1)).id
<1> DEFINE t == SubSeq(s, 1, i - 1)
<1>1. /\ t \in Seq(SubSession) /\ Len(t) = i - 1 /\ DOMAIN t = 1 .. i - 1
      /\ \A j \in 1 .. i - 1 : t[j] = s[j]
      /\ t = <<>> <=> i = 1
      /\ DOMAIN s = 1 .. Len(s) /\ Len(s) \in Nat
      /\ \A j \in 1 .. Len(s) : s[j] \in SubSession
  OBVIOUS
<1> HIDE DEF t
<1>2. Chain(t)
  BY <1>1 DEF Chain, Below
<1>3. s[i] # Bad /\ (i > 1 => s[i - 1] # Bad)
  BY <1>1, NotBad
<1>4. pushedBy[s[i].id] = Below(s, i)
  BY <1>1, <1>3 DEF Chain
<1>5. pushedBy[s[i].id] = IF t = <<>> THEN 0 ELSE Last(t).id
  BY <1>1, <1>4 DEF Below, Last
<1>. QED BY <1>1, <1>2, <1>5 DEF t
-----------------------------------------------------------------------------
(* Scripts *)

\* What notifies, requests or handles touches neither a sub-session nor the service.
LEMMA Aside ==
  ASSUME SessionInv, UNCHANGED <<current, stack, file, pc, serviceVars, runVars>>,
         queued' \in 0 .. MaxQueue, request' \in Kinds \cup {NoRequest},
         asked' \in 0 .. MaxRequests
  PROVE  SessionInv'
<1>1. TypesOK'
  BY DEF SessionInv, TypesOK, SessionTypeOK
<1>2. AllKnown'
  BY DEF SessionInv, AllKnown, KnownRun
<1>3. ChainsOK'
  BY DEF SessionInv, ChainsOK, Chain, OnTop, Below
<1>4. LoadOK'
  BY DEF SessionInv, LoadOK, Reached
<1>5. BeforeOK'
  BY DEF SessionInv, BeforeOK
<1>. QED BY <1>1, <1>2, <1>3, <1>4, <1>5 DEF SessionInv

\* A notification, an event or task handled, and a request, none of them a change of session.
LEMMA AsideSteps ==
  ASSUME SessionInv, Notify \/ Handle \/ \E k \in Kinds : Request(k)
  PROVE  SessionInv'
<1>1. /\ queued \in 0 .. MaxQueue /\ request \in Kinds \cup {NoRequest} /\ asked \in 0 .. MaxRequests
  BY DEF SessionInv, TypesOK, SessionTypeOK
<1>2. CASE Notify
  BY <1>1, <1>2, Aside DEF Notify
<1>3. CASE Handle
  BY <1>1, <1>3, Aside DEF Handle
<1>4. ASSUME NEW k \in Kinds, Request(k) PROVE SessionInv'
  BY <1>1, <1>4, Aside DEF Request
<1>. QED BY <1>2, <1>3, <1>4

\* A session is saved by a handler only: nothing is under way that needs the file.
LEMMA SaveStep ==
  ASSUME SessionInv, PushSavesNothing, Save
  PROVE  SessionInv'
<1>1. /\ pc \in {"frame", "save"}
      /\ queued' = 0 /\ file' = Append(stack, current)
      /\ UNCHANGED <<current, stack, reqVars, pc, serviceVars, runVars>>
  BY DEF Save, InScript, PushSavesNothing, Whole
<1>2. TypesOK /\ Chain(stack) /\ OnTop(current) /\ current \in SubSession
  BY <1>1 DEF SessionInv, ChainsOK, TypesOK, SessionTypeOK
<1>3. TypesOK'
  <2>1. file' \in Seq(SubSession \cup {Bad})
    BY <1>1 DEF SessionInv, TypesOK, SessionTypeOK
  <2>. QED BY <1>1, <2>1 DEF SessionInv, TypesOK, SessionTypeOK
<1>4. AllKnown'
  <2>1. \A i \in DOMAIN file' : KnownRun(file'[i])
    BY <1>1, <1>2 DEF SessionInv, AllKnown, TypesOK, SessionTypeOK
  <2>. QED BY <1>1, <2>1 DEF SessionInv, AllKnown, KnownRun
<1>5. ChainsOK'
  <2>1. Chain(file')
    BY <1>1, <1>2, Longer
  <2>. QED BY <1>1, <2>1 DEF SessionInv, ChainsOK, Chain, OnTop, Below
<1>6. LoadOK' /\ BeforeOK'
  BY <1>1 DEF SessionInv, LoadOK, BeforeOK
<1>. QED BY <1>3, <1>4, <1>5, <1>6 DEF SessionInv

\* A file that is gone or damaged still holds what can be read of it in order.
LEMMA ReplaceStep ==
  ASSUME SessionInv, Replace
  PROVE  SessionInv'
<1>1. /\ pc = "frame"
      /\ UNCHANGED <<current, queued, stack, reqVars, pc, serviceVars, runVars>>
  BY DEF Replace
<1>2. file \in Seq(SubSession \cup {Bad}) /\ DOMAIN file = 1 .. Len(file)
  BY DEF SessionInv, TypesOK, SessionTypeOK
<1>3. /\ file' \in Seq(SubSession \cup {Bad})
      /\ DOMAIN file' \subseteq DOMAIN file
      /\ \A i \in DOMAIN file' : file'[i] \in {file[i], Bad}
      /\ \A i \in DOMAIN file' : i > 1 => i - 1 \in DOMAIN file'
  <2>1. CASE file' = <<>>
    BY <1>2, <2>1
  <2>2. ASSUME NEW i \in DOMAIN file, file' = [file EXCEPT ![i] = Bad]
        PROVE  <1>3
    BY <1>2, <2>2
  <2>. QED BY <2>1, <2>2 DEF Replace
<1>4. TypesOK'
  BY <1>1, <1>3 DEF SessionInv, TypesOK, SessionTypeOK
<1>5. AllKnown'
  BY <1>1, <1>3 DEF SessionInv, AllKnown, KnownRun
<1>6. ChainsOK'
  BY <1>1, <1>2, <1>3 DEF SessionInv, ChainsOK, Chain, OnTop, Below
<1>7. LoadOK' /\ BeforeOK'
  BY <1>1 DEF SessionInv, LoadOK, BeforeOK
<1>. QED BY <1>4, <1>5, <1>6, <1>7 DEF SessionInv
-----------------------------------------------------------------------------
(* Session_ServiceRequests *)

\* What has been drained is saved as it is.
LEMMA SavedWhole ==
  ASSUME SessionInv, Drained
  PROVE  Saved(current) = current
BY DEF SessionInv, TypesOK, SessionTypeOK, AllKnown, KnownRun, Drained, Saved, SubSession, Bad

\* A service ends with a chain, or goes back to the one it began with.
LEMMA Finished ==
  ASSUME SessionInv, NEW q \in Nat, Finish(q),
         UNCHANGED <<file, stream, todo, loaded, runVars>>,
         op' \in Kinds \cup {NoRequest},
         current' \in SubSession, stack' \in Seq(SubSession),
         KnownRun(current'), \A i \in DOMAIN stack' : KnownRun(stack'[i]),
         Chain(stack'), pushedBy[current'.id] = IF stack' = <<>> THEN 0 ELSE Last(stack').id
  PROVE  SessionInv'
<1>1. /\ queued' \in 0 .. MaxQueue
      /\ request' = NoRequest /\ pushing' = FALSE /\ pc' = "frame" /\ asked' = asked
  BY MinOfTwo DEF Finish, AfterPush
<1>2. TypesOK'
  BY <1>1 DEF SessionInv, TypesOK, SessionTypeOK
<1>3. AllKnown'
  BY DEF SessionInv, AllKnown, KnownRun
<1>4. ChainsOK'
  BY <1>1 DEF SessionInv, ChainsOK, Chain, OnTop, Below
<1>5. LoadOK' /\ BeforeOK'
  BY <1>1 DEF LoadOK, BeforeOK
<1>. QED BY <1>2, <1>3, <1>4, <1>5 DEF SessionInv

\* A service that saves begins in a frame, where the live sub-session is on top.
LEMMA StartSaveStep ==
  ASSUME SessionInv, StartSave
  PROVE  SessionInv'
<1>1. /\ pc = "frame" /\ pc' = "save" /\ op' = request /\ before' = Append(stack, current)
      /\ request \in {"LOAD", "PUSH", "EXEC"}
      /\ pushing' = (request = "PUSH")
      /\ UNCHANGED <<current, queued, stack, reqVars, file, stream, todo, loaded, runVars>>
  BY DEF StartSave, Start
<1>2. TypesOK'
  BY <1>1 DEF SessionInv, TypesOK, SessionTypeOK
<1>3. AllKnown'
  BY <1>1 DEF SessionInv, AllKnown, KnownRun
<1>4. ChainsOK'
  BY <1>1 DEF SessionInv, ChainsOK, Chain, OnTop, Below
<1>5. LoadOK' /\ BeforeOK'
  BY <1>1 DEF LoadOK, BeforeOK
<1>. QED BY <1>2, <1>3, <1>4, <1>5 DEF SessionInv

\* A pop, also to the root, makes the one live that is on top of what is left.
LEMMA PopStep ==
  ASSUME SessionInv, Pop
  PROVE  SessionInv'
<1> DEFINE i == PopTarget(request)
<1>1. /\ stack # <<>> /\ current' = stack[i] /\ stack' = SubSeq(stack, 1, i - 1)
      /\ Finish(1) /\ op' = request
      /\ UNCHANGED <<file, stream, todo, loaded, runVars>>
  BY DEF Pop, Start, Left
<1>2. stack \in Seq(SubSession) /\ Chain(stack) /\ request \in Kinds \cup {NoRequest}
  BY DEF SessionInv, TypesOK, SessionTypeOK, ChainsOK
<1>3. i \in 1 .. Len(stack) /\ DOMAIN stack = 1 .. Len(stack)
  BY <1>1, <1>2 DEF PopTarget
<1> HIDE DEF i
<1>4. /\ stack' \in Seq(SubSession) /\ Len(stack') = i - 1
      /\ \A j \in 1 .. i - 1 : stack'[j] = stack[j]
      /\ Chain(stack')
      /\ pushedBy[current'.id] = IF stack' = <<>> THEN 0 ELSE Last(stack').id
  BY <1>1, <1>2, <1>3, Shorter
<1>5. current' \in SubSession
  BY <1>1, <1>2, <1>3
<1>6. KnownRun(current') /\ \A j \in DOMAIN stack' : KnownRun(stack'[j])
  <2>1. \A j \in 1 .. Len(stack) : KnownRun(stack[j])
    BY <1>3 DEF SessionInv, AllKnown
  <2>2. DOMAIN stack' = 1 .. i - 1 /\ \A j \in 1 .. i - 1 : j \in 1 .. Len(stack)
    BY <1>2, <1>3, <1>4
  <2>. QED BY <1>1, <1>3, <1>4, <2>1, <2>2
<1>. QED BY <1>1, <1>2, <1>4, <1>5, <1>6, Finished

\* A pop with nothing to pop, and a file that cannot be opened, change nothing.
LEMMA RefusedSteps ==
  ASSUME SessionInv, PopFails \/ OpenFails
  PROVE  SessionInv'
<1>1. /\ pc \in {"frame", "save"} /\ Finish(queued)
      /\ op' \in {op, request}
      /\ UNCHANGED <<current, stack, file, stream, todo, loaded, runVars>>
  BY DEF PopFails, OpenFails, Start
<1>2. /\ queued \in Nat /\ {op, request} \subseteq Kinds \cup {NoRequest}
      /\ current \in SubSession /\ stack \in Seq(SubSession)
  BY DEF SessionInv, TypesOK, SessionTypeOK
<1>3. KnownRun(current) /\ (\A i \in DOMAIN stack : KnownRun(stack[i])) /\ Chain(stack) /\ OnTop(current)
  BY <1>1 DEF SessionInv, AllKnown, ChainsOK
<1>. QED BY <1>1, <1>2, <1>3, Finished DEF OnTop

\* A service that fails half way goes back to what it saved first.
LEMMA RolledBackSteps ==
  ASSUME SessionInv, LoadFails \/ ScriptFails
  PROVE  SessionInv'
<1>1. /\ pc \in {"load", "run"} /\ Finish(0) /\ current' = stream
      /\ UNCHANGED <<op, stack, file, stream, todo, loaded, runVars>>
  BY DEF LoadFails, ScriptFails, RolledBackTo
<1>2. op \in Kinds \cup {NoRequest} /\ stream \in SubSession /\ stack \in Seq(SubSession)
  BY DEF SessionInv, TypesOK, SessionTypeOK
<1>3. KnownRun(stream) /\ (\A i \in DOMAIN stack : KnownRun(stack[i])) /\ Chain(stack) /\ OnTop(stream)
  BY <1>1 DEF SessionInv, AllKnown, ChainsOK
<1>. QED BY <1>1, <1>2, <1>3, Finished DEF OnTop

\* The file that was opened is all still to be loaded.
LEMMA OpenFileStep ==
  ASSUME SessionInv, OpenFile
  PROVE  SessionInv'
<1>1. /\ pc = "save" /\ op = "LOAD" /\ file # <<>> /\ stream' = current
      /\ todo' = file /\ loaded' = <<>> /\ pc' = "load"
      /\ UNCHANGED <<current, queued, stack, reqVars, file, op, before, pushing, runVars>>
  BY SavedWhole DEF OpenFile
<1>2. TypesOK'
  BY <1>1 DEF SessionInv, TypesOK, SessionTypeOK
<1>3. AllKnown'
  BY <1>1 DEF SessionInv, AllKnown, KnownRun
<1>4. ChainsOK'
  BY <1>1 DEF SessionInv, ChainsOK, Chain, OnTop, Below
<1>5. LoadOK'
  <2>1. file \in Seq(SubSession \cup {Bad}) /\ Len(file) \in Nat /\ DOMAIN file = 1 .. Len(file)
    BY DEF SessionInv, TypesOK, SessionTypeOK
  <2>2. Reached' = 0 /\ DOMAIN loaded' = {}
    BY <1>1 DEF Reached
  <2>. QED BY <1>1, <2>1, <2>2 DEF LoadOK
<1>6. BeforeOK'
  BY <1>1 DEF SessionInv, BeforeOK
<1>. QED BY <1>2, <1>3, <1>4, <1>5, <1>6 DEF SessionInv

\* The next sub-session of the file is made live,
LEMMA LoadNextStep ==
  ASSUME SessionInv, LoadNext
  PROVE  SessionInv'
<1>1. /\ pc = "load" /\ todo # <<>> /\ Head(todo) # Bad
      /\ current' = Head(todo) /\ queued' \in {0, 1} /\ todo' = Tail(todo) /\ pc' = "resave"
      /\ UNCHANGED <<stack, reqVars, file, op, stream, loaded, before, pushing, runVars>>
  BY DEF LoadNext
<1>2. /\ todo \in Seq(SubSession \cup {Bad}) /\ Len(todo) \in Nat \ {0}
      /\ DOMAIN todo = 1 .. Len(todo)
      /\ loaded \in Seq(SubSession) /\ Len(loaded) \in Nat
      /\ Head(todo) = todo[1] /\ todo[1] \in SubSession
      /\ Tail(todo) \in Seq(SubSession \cup {Bad}) /\ Len(Tail(todo)) = Len(todo) - 1
      /\ DOMAIN Tail(todo) = 1 .. Len(todo) - 1
      /\ \A i \in 1 .. Len(todo) - 1 : Tail(todo)[i] = todo[i + 1]
  BY <1>1 DEF SessionInv, TypesOK, SessionTypeOK
<1>3. TypesOK'
  BY <1>1, <1>2 DEF SessionInv, TypesOK, SessionTypeOK
<1>4. AllKnown'
  <2>1. \A i \in 1 .. Len(todo) : KnownRun(todo[i])
    BY <1>2 DEF SessionInv, AllKnown
  <2>2. KnownRun(current') /\ \A i \in DOMAIN todo' : KnownRun(todo'[i])
    BY <1>1, <1>2, <2>1
  <2>. QED BY <1>1, <2>2 DEF SessionInv, AllKnown, KnownRun
<1>5. ChainsOK'
  BY <1>1 DEF SessionInv, ChainsOK, Chain, OnTop, Below
<1>6. LoadOK'
  <2>1. Reached = Len(loaded) /\ Reached' = Len(loaded) + 1
    BY <1>1 DEF Reached
  <2>2. /\ file # <<>> /\ Len(file) = Len(loaded) + Len(todo)
        /\ \A i \in DOMAIN loaded : loaded[i].id = file[i].id
        /\ \A i \in DOMAIN todo : todo[i] = file[Len(loaded) + i]
    BY <1>1, <2>1 DEF SessionInv, LoadOK
  <2>3. current'.id = file[Len(loaded) + 1].id
    <3>1. 1 \in DOMAIN todo /\ current' = todo[1]
      BY <1>1, <1>2
    <3>2. todo[1] = file[Len(loaded) + 1]
      BY <2>2, <3>1
    <3>. QED BY <3>1, <3>2
  <2>4. ASSUME NEW i \in DOMAIN todo' PROVE todo'[i] = file[Len(loaded) + 1 + i]
    BY <1>1, <1>2, <2>2, <2>4
  <2>. QED BY <1>1, <1>2, <2>1, <2>2, <2>3, <2>4 DEF LoadOK
<1>7. BeforeOK'
  BY <1>1 DEF SessionInv, BeforeOK
<1>. QED BY <1>3, <1>4, <1>5, <1>6, <1>7 DEF SessionInv

\* and put with those that were loaded.
LEMMA ResaveStep ==
  ASSUME SessionInv, Resave
  PROVE  SessionInv'
<1>1. /\ pc = "resave" /\ pc' = "load" /\ loaded' = Append(loaded, current)
      /\ UNCHANGED <<current, queued, stack, reqVars, file, op, stream, todo, before, pushing, runVars>>
  BY SavedWhole DEF Resave
<1>2. /\ current \in SubSession /\ loaded \in Seq(SubSession) /\ Len(loaded) \in Nat
      /\ loaded' \in Seq(SubSession) /\ DOMAIN loaded' = 1 .. Len(loaded) + 1
      /\ Len(loaded') = Len(loaded) + 1
      /\ DOMAIN loaded = 1 .. Len(loaded)
      /\ loaded'[Len(loaded) + 1] = current /\ \A i \in 1 .. Len(loaded) : loaded'[i] = loaded[i]
  BY <1>1 DEF SessionInv, TypesOK, SessionTypeOK
<1>3. TypesOK'
  BY <1>1, <1>2 DEF SessionInv, TypesOK, SessionTypeOK
<1>4. AllKnown'
  <2>1. ~current.lost
    BY <1>2, NotBad DEF SessionInv, AllKnown, KnownRun
  <2>. QED BY <1>1, <1>2, <2>1 DEF SessionInv, AllKnown, KnownRun
<1>5. ChainsOK'
  BY <1>1 DEF SessionInv, ChainsOK, Chain, OnTop, Below
<1>6. LoadOK'
  <2>1. Reached = Len(loaded) + 1 /\ Reached' = Reached
    BY <1>1, <1>2 DEF Reached
  <2>. QED BY <1>1, <1>2, <2>1 DEF SessionInv, LoadOK
<1>7. BeforeOK'
  BY <1>1 DEF SessionInv, BeforeOK
<1>. QED BY <1>3, <1>4, <1>5, <1>6, <1>7 DEF SessionInv

\* What was loaded is the beginning of a chain in the file, and readable.
LEMMA LoadedChain ==
  ASSUME SessionInv, pc = "load"
  PROVE  Chain(loaded)
<1>1. /\ loaded \in Seq(SubSession) /\ DOMAIN loaded = 1 .. Len(loaded) /\ Len(loaded) \in Nat
      /\ file \in Seq(SubSession \cup {Bad}) /\ DOMAIN file = 1 .. Len(file)
      /\ Len(todo) \in Nat
  BY DEF SessionInv, TypesOK, SessionTypeOK
<1>2. Len(loaded) <= Len(file) /\ \A i \in 1 .. Len(loaded) : loaded[i].id = file[i].id
  BY <1>1 DEF SessionInv, LoadOK, Reached
<1>3. \A i \in 1 .. Len(loaded) : file[i] # Bad
  <2>1. \A i \in 1 .. Len(loaded) : loaded[i].id # 0
    BY <1>1, NotBad
  <2>. QED BY <1>2, <2>1 DEF Bad
<1>4. Chain(file)
  BY DEF SessionInv, ChainsOK
<1>. QED BY <1>1, <1>2, <1>3, <1>4 DEF Chain, Below

\* What the file held replaces the stack.
LEMMA LoadDoneStep ==
  ASSUME SessionInv, LoadDone
  PROVE  SessionInv'
<1>1. /\ pc = "load" /\ todo = <<>> /\ stack' = Front(loaded) /\ Finish(queued)
      /\ UNCHANGED <<current, file, op, stream, todo, loaded, before, runVars>>
  BY DEF LoadDone, NewStack
<1>2. /\ loaded \in Seq(SubSession) /\ Len(loaded) \in Nat /\ file \in Seq(SubSession \cup {Bad})
      /\ DOMAIN loaded = 1 .. Len(loaded)
      /\ current \in SubSession /\ queued \in Nat /\ op \in Kinds \cup {NoRequest}
  BY DEF SessionInv, TypesOK, SessionTypeOK
<1>3. /\ loaded # <<>> /\ Len(loaded) > 0
      /\ current.id = loaded[Len(loaded)].id
  BY <1>1, <1>2 DEF SessionInv, LoadOK, Reached
<1>4. Chain(loaded)
  BY <1>1, LoadedChain
<1>5. /\ stack' \in Seq(SubSession) /\ Len(stack') = Len(loaded) - 1
      /\ \A j \in 1 .. Len(loaded) - 1 : stack'[j] = loaded[j]
      /\ Chain(stack')
      /\ pushedBy[current.id] = IF stack' = <<>> THEN 0 ELSE Last(stack').id
  <2> DEFINE n == Len(loaded)
  <2>1. n \in 1 .. n /\ stack' = SubSeq(loaded, 1, n - 1)
    BY <1>1, <1>2, <1>3 DEF Front
  <2>2. /\ stack' \in Seq(SubSession) /\ Len(stack') = n - 1
        /\ \A j \in 1 .. n - 1 : stack'[j] = loaded[j]
        /\ Chain(stack')
        /\ pushedBy[loaded[n].id] = IF stack' = <<>> THEN 0 ELSE Last(stack').id
    BY <1>2, <1>4, <2>1, Shorter
  <2>. QED BY <1>3, <2>2
<1>6. \A i \in DOMAIN stack' : KnownRun(stack'[i])
  <2>1. \A i \in 1 .. Len(loaded) : KnownRun(loaded[i])
    <3>1. ASSUME NEW i \in 1 .. Len(loaded) PROVE loaded[i].id <= runs /\ ~loaded[i].lost
      <4>1. loaded[i].id = file[i].id /\ ~loaded[i].lost /\ i \in DOMAIN file
        BY <1>1, <1>2 DEF SessionInv, LoadOK, Reached, AllKnown
      <4>2. file[i] # Bad
        BY <1>2, <4>1, NotBad DEF Bad
      <4>. QED BY <4>1, <4>2 DEF SessionInv, AllKnown, KnownRun
    <3>. QED BY <3>1 DEF KnownRun
  <2>. QED BY <1>2, <1>5, <2>1
<1>7. KnownRun(current)
  BY DEF SessionInv, AllKnown
<1>. QED BY <1>1, <1>2, <1>5, <1>6, <1>7, Finished

\* A new run was pushed by none of those that took place before it.
LEMMA RunScriptStep ==
  ASSUME SessionInv, RunScript
  PROVE  SessionInv'
<1>1. /\ pc = "save" /\ op \in {"PUSH", "EXEC"} /\ runs < MaxRuns
      /\ stream' = current /\ runs' = runs + 1
      /\ current' = [id |-> runs + 1, lost |-> FALSE] /\ queued' = 0
      /\ pushedBy' = [pushedBy EXCEPT ![runs + 1] =
                        IF op = "PUSH" THEN current.id ELSE pushedBy[current.id]]
      /\ pc' = "run"
      /\ UNCHANGED <<stack, reqVars, file, op, todo, loaded, before, pushing>>
  BY SavedWhole DEF RunScript, Live
<1>2. /\ runs \in Nat /\ runs + 1 \in Runs /\ current \in SubSession /\ current' \in SubSession
      /\ current.id \in Runs /\ current.id <= runs
      /\ pushedBy \in [Runs -> 0 .. MaxRuns]
      /\ stack \in Seq(SubSession) /\ file \in Seq(SubSession \cup {Bad})
  BY <1>1, NotBad DEF SessionInv, TypesOK, SessionTypeOK, SubSession, AllKnown, KnownRun
<1>3. TypesOK'
  BY <1>1, <1>2 DEF SessionInv, TypesOK, SessionTypeOK
<1>4. AllKnown'
  <2>1. runs' = runs + 1 /\ runs \in Nat /\ Bad.id = 0
    BY <1>1, <1>2 DEF Bad
  <2>2. ASSUME NEW s \in SubSession \cup {Bad}, KnownRun(s) PROVE KnownRun(s)'
    BY <2>1, <2>2, NotBad DEF KnownRun
  <2>3. \A s \in {stack, todo, file} : \A i \in DOMAIN s : s[i] \in SubSession \cup {Bad}
    BY DEF SessionInv, TypesOK, SessionTypeOK
  <2>4. \A s \in {stack, todo, file} : \A i \in DOMAIN s : KnownRun(s[i])'
    BY <2>2, <2>3 DEF SessionInv, AllKnown
  <2>5. KnownRun(current)'
    BY <1>1, <2>1 DEF KnownRun
  <2>6. KnownRun(stream)'
    BY <1>1, <1>2, <2>2 DEF SessionInv, AllKnown, KnownRun
  <2>. QED BY <1>1, <2>4, <2>5, <2>6 DEF SessionInv, AllKnown, KnownRun
<1>5. \A r \in Runs : r <= runs => pushedBy'[r] = pushedBy[r]
  BY <1>1, <1>2
<1>6. ASSUME NEW s \in {stack, file}
      PROVE  \A i \in DOMAIN s : s[i] # Bad => pushedBy'[s[i].id] = pushedBy[s[i].id]
  <2>1. s \in Seq(SubSession \cup {Bad}) /\ \A i \in DOMAIN s : s[i] # Bad => s[i].id \in Runs
    BY <1>2, NotBad
  <2>2. \A i \in DOMAIN s : s[i] # Bad => s[i].id <= runs
    BY DEF SessionInv, AllKnown, KnownRun
  <2>. QED BY <1>5, <2>1, <2>2
<1>7. Chain(stack)' /\ Chain(file)'
  BY <1>1, <1>6 DEF SessionInv, ChainsOK, Chain, Below
<1>8. OnTop(stream)'
  BY <1>1, <1>2, <1>5 DEF SessionInv, ChainsOK, OnTop
<1>9. pushedBy'[current'.id] = IF op' = "PUSH" THEN stream'.id ELSE pushedBy'[stream'.id]
  BY <1>1, <1>2, <1>5
<1>10. ChainsOK' /\ LoadOK' /\ BeforeOK'
  BY <1>1, <1>7, <1>8, <1>9 DEF SessionInv, ChainsOK, LoadOK, BeforeOK
<1>. QED BY <1>3, <1>4, <1>10 DEF SessionInv

\* A pushed script is on top of what was saved, one executed on top of what that was on.
LEMMA ScriptDoneStep ==
  ASSUME SessionInv, ScriptDone
  PROVE  SessionInv'
<1>1. /\ pc = "run" /\ stack' = KeptStack /\ Finish(queued)
      /\ UNCHANGED <<current, file, op, stream, todo, loaded, before, runVars>>
  BY DEF ScriptDone
<1>2. /\ TypesOK /\ current \in SubSession /\ stream \in SubSession /\ stack \in Seq(SubSession)
      /\ queued \in Nat /\ op \in Kinds \cup {NoRequest}
  BY DEF SessionInv, TypesOK, SessionTypeOK
<1>3. /\ Chain(stack) /\ OnTop(stream) /\ op \in {"PUSH", "EXEC"}
      /\ pushedBy[current.id] = IF op = "PUSH" THEN stream.id ELSE pushedBy[stream.id]
      /\ KnownRun(current) /\ KnownRun(stream) /\ \A i \in DOMAIN stack : KnownRun(stack[i])
  BY <1>1 DEF SessionInv, ChainsOK, AllKnown
<1>4. CASE op = "PUSH"
  <2>1. stack' = Append(stack, stream) /\ Chain(stack')
    BY <1>1, <1>2, <1>3, <1>4, Longer DEF KeptStack
  <2>2. /\ stack' \in Seq(SubSession) /\ stack' # <<>> /\ Last(stack') = stream
        /\ \A i \in DOMAIN stack' : KnownRun(stack'[i])
    BY <1>2, <1>3, <2>1 DEF Last
  <2>. QED BY <1>1, <1>2, <1>3, <1>4, <2>1, <2>2, Finished
<1>5. CASE op = "EXEC"
  BY <1>1, <1>2, <1>3, <1>5, Finished DEF KeptStack, OnTop
<1>. QED BY <1>3, <1>4, <1>5

\* Nothing is claimed of the stack any more.
LEMMA ShutdownStep ==
  ASSUME SessionInv, Shutdown
  PROVE  SessionInv'
<1>1. /\ stack' = <<>> /\ pc = "frame" /\ pc' = "end"
      /\ UNCHANGED <<current, queued, reqVars, file, serviceVars, runVars>>
  BY DEF Shutdown
<1>2. TypesOK'
  BY <1>1 DEF SessionInv, TypesOK, SessionTypeOK
<1>3. AllKnown'
  BY <1>1 DEF SessionInv, AllKnown, KnownRun
<1>4. ChainsOK'
  BY <1>1 DEF SessionInv, ChainsOK, Chain, OnTop, Below
<1>5. LoadOK' /\ BeforeOK'
  BY <1>1 DEF LoadOK, BeforeOK
<1>. QED BY <1>2, <1>3, <1>4, <1>5 DEF SessionInv
-----------------------------------------------------------------------------
(* The theorems *)

\* The script of the command line was pushed by none.
LEMMA InitOK == SessionInit => SessionInv
<1> SUFFICES ASSUME SessionInit PROVE SessionInv
  OBVIOUS
<1>1. TypesOK
  BY DEF SessionInit, TypesOK, SessionTypeOK, SubSession
<1>2. AllKnown
  BY DEF SessionInit, AllKnown, KnownRun
<1>3. ChainsOK
  BY DEF SessionInit, ChainsOK, Chain, OnTop
<1>4. LoadOK /\ BeforeOK
  BY DEF SessionInit, LoadOK, BeforeOK
<1>. QED BY <1>1, <1>2, <1>3, <1>4 DEF SessionInv

\* Every action keeps SessionInv.
LEMMA Inductive ==
  ASSUME PushSavesNothing
  PROVE  SessionInv /\ [SessionNext]_sessionVars => SessionInv'
<1> SUFFICES ASSUME SessionInv, [SessionNext]_sessionVars PROVE SessionInv'
  OBVIOUS
<1>1. CASE UNCHANGED sessionVars
  <2>1. queued \in 0 .. MaxQueue /\ request \in Kinds \cup {NoRequest} /\ asked \in 0 .. MaxRequests
    BY DEF SessionInv, TypesOK, SessionTypeOK
  <2>. QED BY <1>1, <2>1, Aside DEF sessionVars
<1>2. CASE Script
  BY <1>2, AsideSteps, SaveStep DEF Script
<1>3. CASE Service
  BY <1>3, StartSaveStep, PopStep, RefusedSteps, RolledBackSteps, OpenFileStep, LoadNextStep,
     ResaveStep, LoadDoneStep, RunScriptStep, ScriptDoneStep DEF Service
<1>4. CASE Replace \/ Shutdown
  BY <1>4, ReplaceStep, ShutdownStep
<1>. QED BY <1>1, <1>2, <1>3, <1>4 DEF SessionNext

\* SessionInv holds throughout, whatever the scripts ask for, save and load, and however
\* the files are damaged.
THEOREM SessionInvariance == ASSUME PushSavesNothing PROVE SessionSpec => []SessionInv
<1>1. SessionInit => SessionInv
  BY InitOK
<1>2. SessionInv /\ [SessionNext]_sessionVars => SessionInv'
  BY Inductive
<1>. QED BY <1>1, <1>2, PTL DEF SessionSpec

\* No event and no ready task is lost as the engine moves from session to session.
THEOREM SessionsKeptHolds == ASSUME PushSavesNothing PROVE SessionSpec => []SessionsKept
<1>1. SessionInv => SessionsKept
  <2> SUFFICES ASSUME SessionInv PROVE SessionsKept
    OBVIOUS
  <2>1. SessionTypeOK
    BY DEF SessionInv, TypesOK
  <2>2. /\ \A s \in {current, stream} : ~s.lost
        /\ \A i \in DOMAIN stack : ~stack[i].lost
        /\ \A i \in DOMAIN loaded : ~loaded[i].lost
    BY <2>1, NotBad DEF SessionInv, AllKnown, KnownRun, SessionTypeOK
  <2>3. \A i \in DOMAIN file : ~file[i].lost
    BY DEF SessionInv, AllKnown, KnownRun, Bad
  <2>4. \A i \in DOMAIN Whole : ~Whole[i].lost
    BY <2>1, <2>2 DEF Whole, SessionTypeOK
  <2>. QED BY <2>1, <2>2, <2>3, <2>4 DEF SessionsKept, NothingLost, ToSet
<1>. QED BY <1>1, SessionInvariance, PTL

\* The stack is the chain of those who pushed each other.
THEOREM LineageHolds == ASSUME PushSavesNothing PROVE SessionSpec => []Lineage
<1>1. SessionInv => Lineage
  <2> SUFFICES ASSUME SessionInv, pc = "frame"
               PROVE  /\ pushedBy[Whole[1].id] = 0
                      /\ \A i \in DOMAIN stack : pushedBy[Whole[i + 1].id] = Whole[i].id
    BY DEF Lineage
  <2>1. TypesOK /\ current \in SubSession /\ stack \in Seq(SubSession) /\ Chain(stack) /\ OnTop(current)
    BY DEF SessionInv, TypesOK, SessionTypeOK, ChainsOK
  <2>2. Chain(Whole)
    BY <2>1, Longer DEF Whole
  <2>3. /\ Whole \in Seq(SubSession) /\ DOMAIN Whole = 1 .. Len(stack) + 1 /\ Len(stack) \in Nat
        /\ DOMAIN stack = 1 .. Len(stack)
        /\ \A i \in DOMAIN Whole : Whole[i] # Bad
    BY <2>1, NotBad DEF Whole
  <2>4. \A i \in 1 .. Len(stack) + 1 : pushedBy[Whole[i].id] = Below(Whole, i)
    BY <2>2, <2>3 DEF Chain
  <2>. QED BY <2>3, <2>4 DEF Below
<1>. QED BY <1>1, SessionInvariance, PTL

\* A request that fails leaves the session as it was when it was serviced.
THEOREM RollbackExactHolds == ASSUME PushSavesNothing PROVE SessionSpec => RollbackExact
<1>1. SessionInv /\ [SessionNext]_sessionVars =>
        [(LoadFails \/ ScriptFails \/ OpenFails) =>
           /\ stack' = Front(before)
           /\ current'.id = Last(before).id /\ ~current'.lost]_sessionVars
  <2> SUFFICES ASSUME SessionInv, LoadFails \/ ScriptFails \/ OpenFails
               PROVE  /\ stack' = Front(before)
                      /\ current'.id = Last(before).id /\ ~current'.lost
    OBVIOUS
  <2>1. /\ current \in SubSession /\ stream \in SubSession /\ stack \in Seq(SubSession)
        /\ ~current.lost /\ ~stream.lost
    BY NotBad DEF SessionInv, TypesOK, SessionTypeOK, AllKnown, KnownRun
  <2>2. CASE LoadFails \/ ScriptFails
    <3>1. stack' = stack /\ current' = stream /\ before = Append(stack, stream)
      BY <2>2 DEF LoadFails, ScriptFails, RolledBackTo, SessionInv, BeforeOK
    <3>. QED BY <2>1, <3>1, OnAndOff
  <2>3. CASE OpenFails
    <3>1. stack' = stack /\ current' = current /\ before = Append(stack, current)
      BY <2>3 DEF OpenFails, SessionInv, BeforeOK
    <3>. QED BY <2>1, <3>1, OnAndOff
  <2>. QED BY <2>2, <2>3
<1>. QED BY <1>1, SessionInvariance, PTL DEF SessionSpec, RollbackExact

\* A file is loaded to the very sub-sessions that were saved, the last of them live.
THEOREM LoadRestoresHolds == ASSUME PushSavesNothing PROVE SessionSpec => LoadRestores
<1>1. SessionInv /\ [SessionNext]_sessionVars =>
        [LoadDone => [i \in DOMAIN Whole' |-> Whole'[i].id] = [i \in DOMAIN file |-> file[i].id]]_sessionVars
  <2> SUFFICES ASSUME SessionInv, LoadDone
               PROVE  [i \in DOMAIN Whole' |-> Whole'[i].id] = [i \in DOMAIN file |-> file[i].id]
    OBVIOUS
  <2>1. pc = "load" /\ todo = <<>> /\ stack' = Front(loaded) /\ current' = current
    BY DEF LoadDone, NewStack
  <2>2. /\ loaded \in Seq(SubSession) /\ Len(loaded) \in Nat /\ file \in Seq(SubSession \cup {Bad})
        /\ DOMAIN loaded = 1 .. Len(loaded) /\ DOMAIN file = 1 .. Len(file) /\ current \in SubSession
    BY DEF SessionInv, TypesOK, SessionTypeOK
  <2>3. /\ loaded # <<>> /\ Len(loaded) > 0 /\ Len(file) = Len(loaded)
        /\ current.id = file[Len(loaded)].id
        /\ \A i \in 1 .. Len(loaded) : loaded[i].id = file[i].id
    BY <2>1, <2>2 DEF SessionInv, LoadOK, Reached
  <2> DEFINE w == Append(Front(loaded), current)
  <2>4. /\ DOMAIN w = 1 .. Len(loaded) /\ w[Len(loaded)] = current
        /\ \A i \in 1 .. Len(loaded) : i # Len(loaded) => w[i] = loaded[i]
    BY <2>2, <2>3, LastReplaced
  <2>5. Whole' = w
    BY <2>1 DEF Whole
  <2> HIDE DEF w
  <2>6. \A i \in 1 .. Len(loaded) : w[i].id = file[i].id
    BY <2>2, <2>3, <2>4
  <2>7. [i \in DOMAIN w |-> w[i].id] = [i \in DOMAIN file |-> file[i].id]
    BY <2>2, <2>3, <2>4, <2>6
  <2>. QED BY <2>5, <2>7
<1>. QED BY <1>1, SessionInvariance, PTL DEF SessionSpec, LoadRestores
=============================================================================
