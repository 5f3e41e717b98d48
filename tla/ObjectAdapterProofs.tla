------------------------- MODULE ObjectAdapterProofs -------------------------
(***************************************************************************)
(* Proofs about ObjectAdapter, for any threads, connections and requests.  *)
(***************************************************************************)
EXTENDS ObjectAdapter, TLAPS, FiniteSetTheorems, CountingLemmas

-----------------------------------------------------------------------------
(* The inductive invariant.                                                *)

\* What an operation returns to, by where its thread is: nothing, or the rest
\* of the operations that called it.
Stack(l) ==
    CASE l \in {"shutdown", "deactivate", "waitActivate", "factory", "each"} ->
            {<<>>, <<"waitForShutdown", "destroyPool">>}
      [] l \in {"waitForShutdown", "shutdownDone"} ->
            {<<>>, <<"destroyPool">>}
      [] l \in {"waitForDeactivate", "untilFinished", "connFinished", "servants",
                "release", "remove"} ->
            {<<>>, <<"shutdownDone">>, <<"shutdownDone", "destroyPool">>}
      [] OTHER -> {<<>>}

StackInv == \A t \in Threads : th[t].then \in Stack(th[t].at)

\* Who holds a lock across steps, and what it is held for.
LockInv ==
    /\ \A t \in Threads : At(t, "each") <=> flock = t
    /\ \A t \in Threads : th[t].at \in {"untilHolding", "connHolding"} => alock = t
    /\ \A t \in Threads : th[t].at \in {"factory", "each"} =>
          /\ th[t].want \in {Active, Holding, Closed}
          /\ th[t].want = Closed => adapter.deactivated
    /\ factory.state = Closed => adapter.deactivated /\ flock = None

Pending == Positions(changes, "remove")

\* The last change, or the pool if there is none, agrees with _registeredWithPool.
QueueEnds ==
    factory.registered <=> IF changes = <<>> THEN inPool ELSE changes[Len(changes)] = "add"

\* The acceptor and the pool.
AcceptorInv ==
    /\ factory.finishedCount = Cardinality(Pending) + finishing
    /\ QueueEnds
    /\ flock = None => (factory.registered <=> factory.state = Active)
    /\ \A t \in Threads : At(t, "each") => (factory.registered <=> th[t].want = Active)
    /\ picked => inPool
    /\ AcceptorOutlivesPool

\* Threads between waiting for the deactivation and the end of it.
Enders == {t \in Threads : th[t].at \in {"untilFinished", "connFinished", "servants", "release"}}
DirectCalls == {t \in Threads : At(t, "directCall")}

\* One thread at a time ends the adapter.
EnderInv ==
    /\ \A s, t \in Enders : s = t
    /\ Enders # {} => adapter.waitForDeactivate /\ adapter.deactivated /\ adapter.directCount = 0
    /\ \A t \in Enders : ~At(t, "release") => adapter.instance
    /\ adapter.directCount = Cardinality(DirectCalls)

\* The order in which the adapter, the factory of adapters and the pool end.
EndInv ==
    /\ \A t \in Threads :
          th[t].at \in {"remove", "shutdownDone", "destroyPool", "join"} => ~adapter.instance
    /\ \A t \in Threads : th[t].at \in {"destroyPool", "join"} => ~oaf.adapters
    /\ ~oaf.adapters => ~adapter.instance
    /\ instance.pool = "destroyed" => ~oaf.adapters
    /\ ~adapter.instance \/ ~adapter.servants => adapter.deactivated /\ ~factory.acceptor
    /\ ReleasedIsQuiet

\* A connection nobody has validated is not used; a failed one is finished.
LifeInv ==
    \A c \in Conns :
        /\ life[c].finished => life[c].state = Life!Closed
        /\ accepting[c] \in {"none", "validate"} =>
              /\ life[c].pending = {}
              /\ life[c].state = Life!NotValidated \/ life[c].finished
        /\ accepting[c] = "failed" => Life!IsFinished(life[c])

AllAreFinished == \A c \in Accepted : Life!IsFinished(life[c])

\* Connections that are not finished are known to the factory or to the thread
\* that waits for them.
KnownInv ==
    /\ \A c \in Accepted :
          \/ Life!IsFinished(life[c])
          \/ c \in Range(factory.connections)
          \/ \E t \in Threads : At(t, "connFinished") /\ c \in Range(th[t].todo)
    /\ \A t \in Enders :
          At(t, "untilFinished") \/ ~adapter.instance \/
             /\ factory.state = Closed /\ ~factory.acceptor /\ factory.connections = <<>>
             /\ At(t, "connFinished") \/ AllAreFinished
             /\ At(t, "release") => ~adapter.servants
    /\ ServantsOutliveRequests

IInv ==
    /\ TypeOK
    /\ StackInv
    /\ LockInv
    /\ AcceptorInv
    /\ EnderInv
    /\ EndInv
    /\ LifeInv
    /\ KnownInv

ThreadRec == [at : Labels, want : {Active, Holding, Closed, None}, todo : Seq(Conns),
              then : Seq(Labels)]
-----------------------------------------------------------------------------
(* Removing elements from a list.                                          *)

\* kept computes Without for the first n elements.
Kept(kept, s, gone, n) ==
    kept = [i \in 0..n |-> IF i = 0 THEN <<>>
                           ELSE IF s[i] \in gone THEN kept[i - 1]
                           ELSE Append(kept[i - 1], s[i])]

\* There is such a function, by induction on n.
LEMMA KeptExists ==
    ASSUME NEW s, NEW gone, NEW n \in Nat
    PROVE  \E kept : Kept(kept, s, gone, n)
<1> DEFINE Bad == {m \in Nat : ~ \E kept : Kept(kept, s, gone, m)}
<1>1. SUFFICES ASSUME Bad # {} PROVE FALSE
  OBVIOUS
<1>2. PICK m \in Bad : \A k \in Bad : m <= k
  BY <1>1, LeastNatural
<1>3. CASE m = 0
  <2>1. 0..0 = {0}
    OBVIOUS
  <2>2. Kept([i \in 0..0 |-> <<>>], s, gone, 0)
    BY <2>1 DEF Kept
  <2>3. QED
    BY <2>2, <1>2, <1>3
<1>4. CASE m # 0
  <2>1. m - 1 \in Nat /\ m - 1 \notin Bad
    BY <1>2, <1>4
  <2>2. PICK g : Kept(g, s, gone, m - 1)
    BY <2>1
  <2> DEFINE Body2(f, i) == IF i = 0 THEN <<>>
                            ELSE IF s[i] \in gone THEN f[i - 1]
                            ELSE Append(f[i - 1], s[i])
             h == [i \in 0..m |-> Body2(g, i)]
  <2>3. \A i \in 0..(m - 1) : g[i] = Body2(g, i)
    BY <2>2 DEF Kept
  <2>4. \A i \in 0..(m - 1) : h[i] = g[i]
    BY <2>1, <2>3
  <2>5. \A i \in 0..m : i # 0 => i - 1 \in 0..(m - 1)
    BY <2>1
  <2>6. \A i \in 0..m : Body2(g, i) = Body2(h, i)
    <3> HIDE DEF h
    <3>1. QED
      BY <2>4, <2>5
  <2>7. h = [i \in 0..m |-> Body2(h, i)]
    <3> HIDE DEF h
    <3>1. [i \in 0..m |-> Body2(g, i)] = [i \in 0..m |-> Body2(h, i)]
      BY <2>6
    <3>2. QED
      BY <3>1 DEF h
  <2>8. Kept(h, s, gone, m)
    <3> HIDE DEF h
    <3>1. QED
      BY <2>7 DEF Kept
  <2>9. QED
    BY <2>8, <1>2
<1>5. QED
  BY <1>3, <1>4

\* Without keeps the elements that are not gone.
LEMMA WithoutRange ==
    ASSUME NEW S, NEW s \in Seq(S), NEW gone
    PROVE  /\ Without(s, gone) \in Seq(S)
           /\ Range(Without(s, gone)) = Range(s) \ gone
<1> DEFINE kept == CHOOSE kept : Kept(kept, s, gone, Len(s))
<1>1. Kept(kept, s, gone, Len(s))
  BY KeptExists
<1>2. Without(s, gone) = kept[Len(s)]
  BY Zenon DEF Without, Kept
<1> HIDE DEF kept
<1>3. PICK n \in Nat : n = Len(s)
  OBVIOUS
<1> DEFINE Ok(i) == /\ kept[i] \in Seq(S)
                    /\ Range(kept[i]) = {s[j] : j \in 1..i} \ gone
           Bad == {i \in 0..n : ~Ok(i)}
<1>4. Bad = {}
  <2>1. SUFFICES ASSUME Bad # {} PROVE FALSE
    OBVIOUS
  <2>2. PICK i \in Bad : \A k \in Bad : i <= k
    <3>1. Bad \in SUBSET Nat
      OBVIOUS
    <3>2. QED
      BY <2>1, <3>1, LeastNatural
  <2>3. i \in 0..n /\ ~Ok(i)
    BY <2>2
  <2>4. kept[i] = IF i = 0 THEN <<>> ELSE IF s[i] \in gone THEN kept[i - 1]
                  ELSE Append(kept[i - 1], s[i])
    BY <1>1, <1>3, <2>3 DEF Kept
  <2>5. CASE i = 0
    <3>1. kept[i] = <<>> /\ 1..0 = {}
      BY <2>4, <2>5
    <3>2. kept[i] \in Seq(S) /\ Range(kept[i]) = {} /\ {s[j] : j \in 1..i} = {}
      BY <3>1, <2>5 DEF Range
    <3>3. QED
      BY <3>2, <2>3
  <2>6. CASE i # 0
    <3>1. i - 1 \in 0..n /\ i - 1 \notin Bad /\ i \in 1..n
      <4>1. i - 1 \in 0..n /\ i \in 1..n /\ ~(i <= i - 1)
        BY <2>3, <2>6
      <4> HIDE DEF Bad
      <4>2. QED
        BY <2>2, <4>1
    <3>2. PICK u \in Seq(S) : u = kept[i - 1]
      BY <3>1
    <3>3. Range(u) = {s[j] : j \in 1..(i - 1)} \ gone
      BY <3>1, <3>2
    <3>4. 1..i = (1..(i - 1)) \cup {i} /\ s[i] \in S
      BY <1>3, <3>1
    <3>5. {s[j] : j \in 1..i} = {s[j] : j \in 1..(i - 1)} \cup {s[i]}
      BY <3>4
    <3>6. CASE s[i] \in gone
      BY <2>3, <2>4, <2>6, <3>2, <3>3, <3>5, <3>6
    <3>7. CASE s[i] \notin gone
      <4>1. Append(u, s[i]) \in Seq(S) /\ Range(Append(u, s[i])) = Range(u) \cup {s[i]}
        <5>1. /\ Append(u, s[i]) \in Seq(S)
              /\ DOMAIN u = 1..Len(u) /\ DOMAIN Append(u, s[i]) = 1..(Len(u) + 1)
              /\ Len(u) \in Nat
              /\ \A j \in 1..Len(u) : Append(u, s[i])[j] = u[j]
              /\ Append(u, s[i])[Len(u) + 1] = s[i]
          BY <3>4
        <5>2. QED
          BY <5>1 DEF Range
      <4>2. QED
        BY <2>3, <2>4, <2>6, <3>2, <3>3, <3>5, <3>7, <4>1
    <3>8. QED
      BY <3>6, <3>7
  <2>7. QED
    BY <2>5, <2>6
<1>5. Ok(n)
  <2>1. n \in 0..n
    OBVIOUS
  <2>2. QED
    BY <1>4, <2>1
<1>6. Range(s) = {s[j] : j \in 1..n}
  BY <1>3 DEF Range
<1>7. QED
  BY <1>2, <1>3, <1>5, <1>6

-----------------------------------------------------------------------------
(* How threads move.                                                       *)

\* Only t moves, to l.
Moves(t, l) ==
    /\ th' \in [Threads -> ThreadRec]
    /\ \A s \in Threads \ {t} : th'[s] = th[s]
    /\ th'[t].at = l

LEMMA GoMoves ==
    ASSUME TypeOK, NEW t \in Threads, NEW l \in Labels, Go(t, l)
    PROVE  /\ Moves(t, l)
           /\ th'[t].want = th[t].want /\ th'[t].todo = th[t].todo /\ th'[t].then = th[t].then
<1>1. th \in [Threads -> ThreadRec]
  BY DEF TypeOK, ThreadRec
<1>2. QED
  BY <1>1 DEF Go, Moves, ThreadRec

LEMMA SwitchMoves ==
    ASSUME TypeOK, NEW t \in Threads, NEW w \in {Active, Holding, Closed}, Switch(t, w)
    PROVE  /\ Moves(t, "factory")
           /\ th'[t].want = w /\ th'[t].then = th[t].then
<1>1. th \in [Threads -> ThreadRec] /\ "factory" \in Labels
  BY DEF TypeOK, ThreadRec, Labels
<1>2. QED
  BY <1>1 DEF Switch, Moves, ThreadRec

\* A thread with nothing left to do.
LEMMA IdleRec ==
    /\ Idle \in ThreadRec
    /\ Idle.at = "idle" /\ Idle.want = None /\ Idle.todo = <<>> /\ Idle.then = <<>>
  BY DEF Idle, ThreadRec, Labels

LEMMA ThrowMoves ==
    ASSUME TypeOK, NEW t \in Threads, Throw(t)
    PROVE  Moves(t, "idle") /\ th'[t].then = <<>>
<1>1. th \in [Threads -> ThreadRec]
  BY DEF TypeOK, ThreadRec
<1>2. QED
  BY <1>1, IdleRec DEF Throw, Moves

\* Where an operation returns to.
LEMMA ReturnMoves ==
    ASSUME TypeOK, StackInv, NEW t \in Threads, Return(t)
    PROVE  /\ Moves(t, th'[t].at)
           /\ th'[t].then \in Stack(th'[t].at)
           /\ th[t].at \in {"factory", "each", "deactivate", "shutdown"} =>
                 th'[t].at \in {"idle", "waitForShutdown"}
           /\ th[t].at \in {"release", "remove"} => th'[t].at \in {"idle", "shutdownDone"}
           /\ th[t].at = "shutdownDone" => th'[t].at \in {"idle", "destroyPool"}
           /\ th[t].at \in {"updated", "directCall", "destroy", "join", "connHolding"} =>
                 th'[t].at = "idle"
           /\ th'[t].at \in {"idle", "waitForShutdown", "shutdownDone", "destroyPool"}
<1>1. th \in [Threads -> ThreadRec]
  BY DEF TypeOK, ThreadRec
<1>2. th[t].then \in Stack(th[t].at)
  BY DEF StackInv
<1>3. CASE th[t].then = <<>>
  <2>1. th' = [th EXCEPT ![t] = Idle]
    BY <1>3 DEF Return
  <2>2. QED
    BY <1>1, <2>1, IdleRec DEF Moves, Stack
<1>4. ASSUME NEW l \in {"waitForShutdown", "shutdownDone", "destroyPool"},
             NEW ls \in {<<>>, <<"destroyPool">>},
             th[t].then # <<>>, Head(th[t].then) = l, Tail(th[t].then) = ls
      PROVE  Moves(t, l) /\ th'[t].then = ls
  <2>1. th' = [th EXCEPT ![t] = [Idle EXCEPT !.at = l, !.then = ls]]
    BY <1>4 DEF Return
  <2>2. l \in Labels /\ ls \in Seq(Labels)
    <3>1. l \in Labels /\ "destroyPool" \in Labels
      BY DEF Labels, Operations
    <3>2. <<>> \in Seq(Labels) /\ <<"destroyPool">> \in Seq(Labels)
      BY <3>1
    <3>3. QED
      BY <3>1, <3>2
  <2>3. QED
    BY <1>1, <2>1, <2>2, IdleRec DEF Moves, ThreadRec, Idle
<1>5. CASE th[t].then = <<"waitForShutdown", "destroyPool">>
  <2>1. /\ th[t].then # <<>> /\ Head(th[t].then) = "waitForShutdown"
        /\ Tail(th[t].then) = <<"destroyPool">>
    BY <1>5
  <2>2. Moves(t, "waitForShutdown") /\ th'[t].then = <<"destroyPool">>
    BY <1>4, <2>1
  <2>3. th[t].at \in {"shutdown", "deactivate", "waitActivate", "factory", "each"}
    BY <1>2, <1>5 DEF Stack
  <2>4. QED
    BY <2>2, <2>3 DEF Moves, Stack
<1>6. CASE th[t].then = <<"destroyPool">>
  <2>1. /\ th[t].then # <<>> /\ Head(th[t].then) = "destroyPool" /\ Tail(th[t].then) = <<>>
    BY <1>6
  <2>2. Moves(t, "destroyPool") /\ th'[t].then = <<>>
    BY <1>4, <2>1
  <2>3. th[t].at \in {"waitForShutdown", "shutdownDone"}
    BY <1>2, <1>6 DEF Stack
  <2>4. QED
    BY <2>2, <2>3 DEF Moves, Stack
<1>7. CASE th[t].then \in {<<"shutdownDone">>, <<"shutdownDone", "destroyPool">>}
  <2>1. /\ th[t].then # <<>> /\ Head(th[t].then) = "shutdownDone"
        /\ Tail(th[t].then) \in {<<>>, <<"destroyPool">>}
    <3>1. ASSUME th[t].then = <<"shutdownDone">>
          PROVE  /\ th[t].then # <<>> /\ Head(th[t].then) = "shutdownDone"
                 /\ Tail(th[t].then) = <<>>
      BY <3>1
    <3>2. ASSUME th[t].then = <<"shutdownDone", "destroyPool">>
          PROVE  /\ th[t].then # <<>> /\ Head(th[t].then) = "shutdownDone"
                 /\ Tail(th[t].then) = <<"destroyPool">>
      BY <3>2
    <3>3. QED
      BY <1>7, <3>1, <3>2
  <2>2. Moves(t, "shutdownDone") /\ th'[t].then \in {<<>>, <<"destroyPool">>}
    BY <1>4, <2>1
  <2>3. th[t].at \in {"waitForDeactivate", "untilFinished", "connFinished", "servants",
                      "release", "remove"}
    BY <1>2, <1>7 DEF Stack
  <2>4. QED
    BY <2>2, <2>3 DEF Moves, Stack
<1>8. QED
  BY <1>2, <1>3, <1>5, <1>6, <1>7 DEF Stack

-----------------------------------------------------------------------------
(* What a step leaves alone keeps its part of the invariant.               *)

\* Threads that are at one of these places before or after have not moved.
SameIn(places) ==
    \A s \in Threads : th[s].at \in places \/ th'[s].at \in places => th'[s] = th[s]

\* Threads at one of these places stay there, and nobody comes.
StaysIn(places) ==
    \A s \in Threads : th[s].at \in places \/ th'[s].at \in places =>
                          th'[s].at = th[s].at /\ th'[s].want = th[s].want

Locked == {"factory", "each", "untilHolding", "connHolding"}
Ending == {"untilFinished", "connFinished", "servants", "release"}
Late   == {"remove", "shutdownDone", "destroyPool", "join"}
Users  == {"each", "untilHolding", "connHolding", "untilFinished", "connFinished",
           "servants", "directCall"}

LEMMA StackFrame ==
    ASSUME StackInv, NEW t \in Threads, Moves(t, th'[t].at), th'[t].then \in Stack(th'[t].at)
    PROVE  StackInv'
<1>1. \A s \in Threads : th'[s].then \in Stack(th'[s].at)
  BY DEF StackInv, Moves
<1>2. QED
  BY <1>1 DEF StackInv, Stack

LEMMA LockFrame ==
    ASSUME LockInv, UNCHANGED locks, UNCHANGED factory.state, StaysIn(Locked),
           adapter.deactivated => adapter'.deactivated
    PROVE  LockInv'
  BY DEF LockInv, StaysIn, Locked, locks, At, Active, Holding, Closed

LEMMA AcceptorFrame ==
    ASSUME AcceptorInv, UNCHANGED <<pool, flock>>,
           UNCHANGED <<factory.state, factory.acceptor, factory.registered, factory.finishedCount>>,
           StaysIn({"each"})
    PROVE  AcceptorInv'
<1>1. UNCHANGED <<changes, inPool, picked, finishing>>
  BY DEF pool
<1>2. Pending' = Pending
  BY <1>1 DEF Pending, Positions
<1>3. (QueueEnds' <=> QueueEnds) /\ (AcceptorOutlivesPool' <=> AcceptorOutlivesPool)
  BY <1>1 DEF QueueEnds, AcceptorOutlivesPool, OutOfPool, Closed
<1>4. QED
  BY <1>1, <1>2, <1>3 DEF AcceptorInv, StaysIn, At, Active

LEMMA EnderFrame ==
    ASSUME EnderInv, StaysIn(Ending \cup {"directCall"}),
           UNCHANGED <<adapter.waitForDeactivate, adapter.directCount, adapter.instance>>,
           adapter.deactivated => adapter'.deactivated
    PROVE  EnderInv'
<1>1. Enders' = Enders /\ DirectCalls' = DirectCalls
  BY DEF Enders, DirectCalls, StaysIn, Ending, At
<1>2. \A t \in Enders : th'[t].at = th[t].at
  BY DEF Enders, StaysIn, Ending
<1>3. QED
  BY <1>1, <1>2 DEF EnderInv, At

LEMMA EndFrame ==
    ASSUME EndInv, StaysIn(Late \cup Users),
           UNCHANGED <<adapter.instance, adapter.servants, oaf.adapters, instance.pool,
                       factory.acceptor>>,
           factory.connections = <<>> => factory'.connections = <<>>,
           adapter.deactivated => adapter'.deactivated
    PROVE  EndInv'
<1>1. ReleasedIsQuiet'
  BY DEF EndInv, ReleasedIsQuiet, StaysIn, Users
<1>2. QED
  BY <1>1 DEF EndInv, StaysIn, Late

\* A thread may come to a place the end of the adapter rules out while the
\* adapter has not ended.
LEMMA EndMove ==
    ASSUME EndInv, NEW t \in Threads, Moves(t, th'[t].at),
           th'[t].at \in Late => ~adapter.instance,
           th'[t].at \in {"destroyPool", "join"} => ~oaf.adapters,
           th'[t].at \in Users => adapter.instance,
           UNCHANGED <<adapter.instance, adapter.servants, oaf.adapters, instance.pool,
                       factory.acceptor, factory.connections>>,
           adapter.deactivated => adapter'.deactivated
    PROVE  EndInv'
<1>1. ReleasedIsQuiet'
  BY DEF EndInv, ReleasedIsQuiet, Moves, Users
<1>2. QED
  BY <1>1 DEF EndInv, Moves, Late

\* A thread leaves, or gets on with, the end of the adapter.
LEMMA EnderMove ==
    ASSUME EnderInv, NEW t \in Threads, Moves(t, th'[t].at),
           th'[t].at \in Ending => th[t].at \in Ending,
           th'[t].at \in Ending \ {"release"} => adapter.instance,
           th[t].at # "directCall" /\ th'[t].at # "directCall",
           UNCHANGED <<adapter.waitForDeactivate, adapter.directCount, adapter.instance>>,
           adapter.deactivated => adapter'.deactivated
    PROVE  EnderInv'
<1>1. Enders' \subseteq Enders /\ DirectCalls' = DirectCalls
  BY DEF Enders, DirectCalls, Moves, Ending, At
<1>2. ASSUME NEW s \in Threads, th'[s].at \in Ending, th'[s].at # "release"
      PROVE  adapter'.instance
  BY <1>2 DEF EnderInv, Enders, Moves, Ending, At
<1>3. QED
  BY <1>1, <1>2 DEF EnderInv, At, Enders, Ending

\* Where a thread is not before and after, nobody has moved.
LEMMA NotThere ==
    ASSUME NEW t \in Threads, Moves(t, th'[t].at), NEW places,
           th[t].at \notin places, th'[t].at \notin places
    PROVE  SameIn(places) /\ StaysIn(places)
  BY DEF Moves, SameIn, StaysIn

\* Or its thread only gets on with what it does there.
LEMMA StaysThere ==
    ASSUME NEW t \in Threads, Moves(t, th[t].at), th'[t].want = th[t].want, NEW places
    PROVE  StaysIn(places)
  BY DEF Moves, StaysIn

LEMMA LifeFrame ==
    ASSUME LifeInv, UNCHANGED <<life, accepting>>
    PROVE  LifeInv'
  BY DEF LifeInv, Life!IsFinished

\* Connections may finish, and finished ones may be forgotten.
LEMMA KnownGrows ==
    ASSUME KnownInv, SameIn(Ending),
           \A c \in Conns : Life!IsFinished(life[c]) => Life!IsFinished(life'[c]),
           \A c \in Conns : accepting'[c] # "none" => accepting[c] # "none",
           \A c \in Range(factory.connections) :
              c \in Range(factory'.connections) \/ Life!IsFinished(life'[c]),
           factory.connections = <<>> => factory'.connections = <<>>,
           UNCHANGED <<factory.state, factory.acceptor, adapter.instance, adapter.servants,
                       adapter.directCount>>
    PROVE  KnownInv'
<1>1. Enders' = Enders /\ Accepted' \subseteq Accepted /\ Accepted \subseteq Conns
  BY DEF Enders, SameIn, Ending, Accepted
<1>2. \A t \in Enders : th'[t] = th[t]
  BY DEF Enders, SameIn, Ending
<1>3. AllAreFinished => AllAreFinished'
  BY <1>1 DEF AllAreFinished, Life!IsFinished
<1>4. ServantsOutliveRequests'
  BY <1>1 DEF KnownInv, ServantsOutliveRequests, Life!IsFinished
<1>5. ASSUME NEW c \in Accepted'
      PROVE  \/ Life!IsFinished(life'[c])
             \/ c \in Range(factory'.connections)
             \/ \E t \in Threads : th'[t].at = "connFinished" /\ c \in Range(th'[t].todo)
  <2>1. c \in Accepted /\ c \in Conns
    BY <1>1
  <2>2. QED
    BY <2>1 DEF KnownInv, At, SameIn, Ending
<1>6. ASSUME NEW t \in Enders'
      PROVE  (At(t, "untilFinished") \/ ~adapter.instance \/
                /\ factory.state = Closed /\ ~factory.acceptor /\ factory.connections = <<>>
                /\ At(t, "connFinished") \/ AllAreFinished
                /\ At(t, "release") => ~adapter.servants)'
  BY <1>1, <1>2, <1>3 DEF KnownInv, At, Closed
<1>7. QED
  BY <1>4, <1>5, <1>6 DEF KnownInv, At, Life!IsFinished, Range

LEMMA KnownFrame ==
    ASSUME KnownInv, UNCHANGED <<life, accepting>>, SameIn(Ending),
           UNCHANGED <<factory.state, factory.acceptor, factory.connections, adapter.instance,
                       adapter.servants, adapter.directCount>>
    PROVE  KnownInv'
  BY KnownGrows

-----------------------------------------------------------------------------
(* One lemma per action: it preserves the invariant.                       *)

Special == Locked \cup Ending \cup Late \cup {"directCall"}

\* A thread moves between places of which the invariant says nothing.
LEMMA QuietMove ==
    ASSUME IInv, TypeOK', NEW t \in Threads, Moves(t, th'[t].at),
           th[t].at \notin Special, th'[t].at \notin Special,
           th'[t].then \in Stack(th'[t].at),
           UNCHANGED <<factory, locks, pool, accepting, life>>,
           UNCHANGED <<adapter.deactivated, adapter.waitForDeactivate, adapter.instance,
                       adapter.directCount, adapter.servants, oaf.adapters, instance.pool>>
    PROVE  IInv'
<1>1. /\ StaysIn(Locked) /\ StaysIn({"each"}) /\ StaysIn(Ending \cup {"directCall"})
      /\ StaysIn(Late \cup Users) /\ SameIn(Ending)
  BY DEF Moves, SameIn, StaysIn, Special, Locked, Ending, Late, Users
<1>2. StackInv' /\ LockInv' /\ EnderInv' /\ LifeInv'
  BY <1>1, StackFrame, LockFrame, EnderFrame, LifeFrame DEF IInv
<1>3. AcceptorInv'
  BY <1>1, AcceptorFrame DEF IInv, locks
<1>4. EndInv' /\ KnownInv'
  BY <1>1, EndFrame, KnownFrame DEF IInv
<1>5. QED
  BY <1>2, <1>3, <1>4 DEF IInv

InstanceRec == [state : {"active", "destroyInProgress", "destroyed"}, pool : {"up", "destroyed"}]
OafRec == [instance : BOOLEAN, waitForShutdown : BOOLEAN, adapters : BOOLEAN]
AdapterRec == [deactivated : BOOLEAN, waitForActivate : BOOLEAN, oneOffDone : BOOLEAN,
               waitForDeactivate : BOOLEAN, instance : BOOLEAN, directCount : Nat,
               servants : BOOLEAN]
FactoryRec == [state : {Active, Holding, Closed}, acceptor : BOOLEAN, registered : BOOLEAN,
               finishedCount : Nat, connections : Seq(Conns), timed : BOOLEAN]
LifeRec == [state : Life!NotValidated..Life!Closed, pending : SUBSET Reqs, finished : BOOLEAN]

\* What the threads' steps change, and what the pool's and the connections' do.
ThreadTypes ==
    /\ instance \in InstanceRec /\ oaf \in OafRec /\ adapter \in AdapterRec
    /\ alock \in Threads \cup {None} /\ flock \in Threads \cup {None}
    /\ th \in [Threads -> ThreadRec] /\ calls \in 0..MaxCalls

OtherTypes ==
    /\ factory \in FactoryRec
    /\ changes \in Seq({"add", "remove"}) /\ inPool \in BOOLEAN /\ picked \in BOOLEAN
    /\ finishing \in Nat
    /\ accepting \in [Conns -> {"none", "validate", "failed", "activate", "done"}]
    /\ life \in [Conns -> LifeRec]

LEMMA Types == (TypeOK <=> ThreadTypes /\ OtherTypes) /\ (TypeOK' <=> ThreadTypes' /\ OtherTypes')
<1>1. TypeOK <=> ThreadTypes /\ OtherTypes
  BY DEF TypeOK, ThreadTypes, OtherTypes, InstanceRec, OafRec, AdapterRec, FactoryRec, LifeRec,
     ThreadRec
<1>2. TypeOK' <=> ThreadTypes' /\ OtherTypes'
  BY DEF TypeOK, ThreadTypes, OtherTypes, InstanceRec, OafRec, AdapterRec, FactoryRec, LifeRec,
     ThreadRec, Active, Holding, Closed, Life!NotValidated, Life!Closed
<1>3. QED
  BY <1>1, <1>2

\* A step that changes only threads and flags, and one that does not.
LEMMA ThreadsOnly ==
    ASSUME TypeOK, UNCHANGED <<factory, pool, accepting, life>>, ThreadTypes'
    PROVE  TypeOK'
<1>1. OtherTypes'
  BY Types DEF OtherTypes, pool, FactoryRec, LifeRec, Active, Holding, Closed,
     Life!NotValidated, Life!Closed
<1>2. QED
  BY <1>1, Types

LEMMA OthersOnly ==
    ASSUME TypeOK, UNCHANGED <<instance, oaf, adapter, locks, th, calls>>, OtherTypes'
    PROVE  TypeOK'
<1>1. ThreadTypes'
  BY Types DEF ThreadTypes, locks, InstanceRec, OafRec, AdapterRec, ThreadRec, Active, Holding,
     Closed
<1>2. QED
  BY <1>1, Types

\* The records before the step.
LEMMA TypedState ==
    ASSUME IInv PROVE TypeOK /\ ThreadTypes /\ OtherTypes
  BY Types DEF IInv

LEMMA CallKeeps ==
    ASSUME IInv, NEW t \in Threads, NEW op \in May[t], Call(t, op)
    PROVE  IInv'
<1> USE DEF IInv
<1>1. op \in Operations /\ op \in Labels /\ calls + 1 \in 0..MaxCalls
  BY AdapterAssumption DEF Call, Labels, TypeOK
<1>2. Moves(t, op) /\ th'[t].then = th[t].then /\ th[t].at = "idle"
  BY <1>1, GoMoves DEF Call, At
<1>3. TypeOK'
  <2>1. ThreadTypes'
    BY <1>1, <1>2, TypedState DEF Call, ThreadTypes, Moves, locks, InstanceRec, OafRec, AdapterRec
  <2>2. QED
    BY <2>1, TypedState, ThreadsOnly DEF Call
<1>4. th[t].then = <<>> /\ <<>> \in Stack(op)
  BY <1>2 DEF StackInv, Stack
<1>5. QED
  BY <1>1, <1>2, <1>3, <1>4, QuietMove
  DEF Call, Moves, Special, Locked, Ending, Late, Operations

LEMMA ThrowsKeeps ==
    ASSUME IInv, NEW t \in Threads, Throws(t)
    PROVE  IInv'
<1> USE DEF IInv
<1>1. Moves(t, "idle") /\ th'[t].then = <<>>
  BY ThrowMoves DEF Throws
<1>2. TypeOK'
  <2>1. ThreadTypes'
    BY <1>1, TypedState DEF Throws, ThreadTypes, Moves, locks, InstanceRec, OafRec, AdapterRec
  <2>2. QED
    BY <2>1, TypedState, ThreadsOnly DEF Throws
<1>3. QED
  BY <1>1, <1>2, QuietMove DEF Throws, Moves, Special, Locked, Ending, Late, Stack

LEMMA ActivateFirstKeeps ==
    ASSUME IInv, NEW t \in Threads, ActivateFirst(t)
    PROVE  IInv'
<1> USE DEF IInv
<1>1. Moves(t, "update") /\ th'[t].then = th[t].then /\ th[t].at = "activate"
  BY GoMoves DEF ActivateFirst, At, Labels
<1>2. TypeOK'
  <2>1. ThreadTypes'
    BY <1>1, TypedState DEF ActivateFirst, ThreadTypes, Moves, locks, InstanceRec, OafRec, AdapterRec
  <2>2. QED
    BY <2>1, TypedState, ThreadsOnly DEF ActivateFirst
<1>3. th'[t].then \in Stack("update")
  BY <1>1 DEF StackInv, Stack
<1>4. UNCHANGED <<adapter.deactivated, adapter.waitForDeactivate, adapter.instance,
                  adapter.directCount, adapter.servants>>
  BY DEF ActivateFirst, TypeOK
<1>5. QED
  BY <1>1, <1>2, <1>3, <1>4, QuietMove
  DEF ActivateFirst, Moves, Special, Locked, Ending, Late

LEMMA ActivateUpdatesKeeps ==
    ASSUME IInv, NEW t \in Threads, ActivateUpdates(t)
    PROVE  IInv'
<1> USE DEF IInv
<1>1. PICK l \in {"updated", "updateFailed"} : Go(t, l)
  BY DEF ActivateUpdates
<1>2. Moves(t, l) /\ th'[t].then = th[t].then /\ th[t].at = "update"
  BY <1>1, GoMoves DEF ActivateUpdates, At, Labels
<1>3. TypeOK'
  <2>1. ThreadTypes'
    BY <1>2, TypedState DEF ActivateUpdates, ThreadTypes, Moves, locks, InstanceRec, OafRec, AdapterRec
  <2>2. QED
    BY <2>1, TypedState, ThreadsOnly DEF ActivateUpdates
<1>4. th'[t].then \in Stack(l)
  BY <1>2 DEF StackInv, Stack
<1>5. QED
  BY <1>2, <1>3, <1>4, QuietMove
  DEF ActivateUpdates, Moves, Special, Locked, Ending, Late

LEMMA ActivateFailsKeeps ==
    ASSUME IInv, NEW t \in Threads, ActivateFails(t)
    PROVE  IInv'
<1> USE DEF IInv
<1>1. Moves(t, "idle") /\ th'[t].then = <<>> /\ th[t].at = "updateFailed"
  BY ThrowMoves DEF ActivateFails, At
<1>2. TypeOK'
  <2>1. ThreadTypes'
    BY <1>1, TypedState DEF ActivateFails, ThreadTypes, Moves, locks, InstanceRec, OafRec, AdapterRec
  <2>2. QED
    BY <2>1, TypedState, ThreadsOnly DEF ActivateFails
<1>3. UNCHANGED <<adapter.deactivated, adapter.waitForDeactivate, adapter.instance,
                  adapter.directCount, adapter.servants>>
  BY DEF ActivateFails, TypeOK
<1>4. QED
  BY <1>1, <1>2, <1>3, QuietMove
  DEF ActivateFails, Moves, Special, Locked, Ending, Late, Stack

LEMMA ShutdownKeeps ==
    ASSUME IInv, NEW t \in Threads, Shutdown(t)
    PROVE  IInv'
<1> USE DEF IInv
<1>1. th[t].at = "shutdown"
  BY DEF Shutdown, At
<1>2. /\ Moves(t, th'[t].at) /\ th'[t].at \in {"idle", "waitForShutdown", "deactivate"}
      /\ th'[t].then \in Stack(th'[t].at)
  <2>1. CASE Go(t, "deactivate")
    <3>1. Moves(t, "deactivate") /\ th'[t].then = th[t].then
      BY <2>1, GoMoves DEF Labels, Operations
    <3>2. QED
      BY <1>1, <3>1 DEF Moves, StackInv, Stack
  <2>2. CASE Return(t)
    BY <1>1, <2>2, ReturnMoves
  <2>3. QED
    BY <2>1, <2>2 DEF Shutdown
<1>3. oaf' = [oaf EXCEPT !.instance = FALSE]
  BY DEF Shutdown
<1>4. TypeOK'
  <2>1. ThreadTypes'
    BY <1>2, <1>3, TypedState DEF Shutdown, ThreadTypes, Moves, locks, InstanceRec, OafRec, AdapterRec
  <2>2. QED
    BY <2>1, TypedState, ThreadsOnly DEF Shutdown
<1>5. UNCHANGED oaf.adapters
  BY <1>3 DEF TypeOK
<1>6. QED
  BY <1>1, <1>2, <1>4, <1>5, QuietMove DEF Shutdown, Special, Locked, Ending, Late

\* The adapter's lock is taken, and kept.
LEMMA TakesLock ==
    ASSUME IInv, TypeOK', NEW t \in Threads, Moves(t, th'[t].at),
           th[t].at \notin Special, th'[t].at \in {"factory", "untilHolding"},
           th'[t].then \in Stack(th'[t].at),
           th'[t].at = "factory" => th'[t].want \in {Active, Holding},
           alock = None, alock' = t, adapter.instance,
           UNCHANGED <<factory, flock, pool, accepting, life>>,
           UNCHANGED <<adapter.deactivated, adapter.waitForDeactivate, adapter.instance,
                       adapter.directCount, adapter.servants, oaf.adapters, instance.pool>>
    PROVE  IInv'
<1>1. /\ StaysIn({"each"}) /\ StaysIn(Ending \cup {"directCall"}) /\ SameIn(Ending)
  BY NotThere DEF Special, Locked, Ending, Late, Users
<1>2. StackInv' /\ EnderInv' /\ LifeInv' /\ KnownInv' /\ AcceptorInv'
  BY <1>1, StackFrame, EnderFrame, LifeFrame, KnownFrame, AcceptorFrame DEF IInv
<1>3. EndInv'
  BY EndMove DEF IInv, Late
<1>4. LockInv'
  <2>1. \A s \in Threads : alock # s
    BY AdapterAssumption
  <2>2. \A s \in Threads : At(s, "each")' <=> flock' = s
    BY DEF IInv, LockInv, At, Moves, Special, Locked
  <2>3. ASSUME NEW s \in Threads, th'[s].at \in {"untilHolding", "connHolding"}
        PROVE  alock' = s
    BY <2>1, <2>3 DEF IInv, LockInv, Moves
  <2>4. ASSUME NEW s \in Threads, th'[s].at \in {"factory", "each"}
        PROVE  /\ th'[s].want \in {Active, Holding, Closed}
               /\ th'[s].want = Closed => adapter'.deactivated
    BY <2>4 DEF IInv, LockInv, Moves, Active, Holding, Closed
  <2>5. QED
    BY <2>2, <2>3, <2>4 DEF IInv, LockInv, Active, Holding, Closed
<1>5. QED
  BY <1>2, <1>3, <1>4 DEF IInv

LEMMA ActivateAgainKeeps ==
    ASSUME IInv, NEW t \in Threads, ActivateAgain(t)
    PROVE  IInv'
<1> USE DEF IInv
<1>1. Moves(t, "factory") /\ th'[t].want = Active /\ th'[t].then = th[t].then
  BY SwitchMoves DEF ActivateAgain
<1>2. TypeOK'
  <2>1. ThreadTypes'
    BY <1>1, TypedState DEF ActivateAgain, ThreadTypes, Moves, InstanceRec, OafRec, AdapterRec
  <2>2. QED
    BY <2>1, TypedState, ThreadsOnly DEF ActivateAgain
<1>3. th[t].at = "activate" /\ th'[t].then \in Stack("factory")
  BY <1>1 DEF ActivateAgain, At, StackInv, Stack
<1>4. adapter.instance
  BY DEF ActivateAgain, EndInv
<1>5. QED
  BY <1>1, <1>2, <1>3, <1>4, TakesLock
  DEF ActivateAgain, Moves, Special, Locked, Ending, Late

LEMMA HoldKeeps ==
    ASSUME IInv, NEW t \in Threads, Hold(t)
    PROVE  IInv'
<1> USE DEF IInv
<1>1. Moves(t, "factory") /\ th'[t].want = Holding /\ th'[t].then = th[t].then
  BY SwitchMoves DEF Hold
<1>2. TypeOK'
  <2>1. ThreadTypes'
    BY <1>1, TypedState DEF Hold, ThreadTypes, Moves, InstanceRec, OafRec, AdapterRec
  <2>2. QED
    BY <2>1, TypedState, ThreadsOnly DEF Hold
<1>3. th[t].at = "hold" /\ th'[t].then \in Stack("factory")
  BY <1>1 DEF Hold, At, StackInv, Stack
<1>4. adapter.instance
  BY DEF Hold, EndInv
<1>5. QED
  BY <1>1, <1>2, <1>3, <1>4, TakesLock
  DEF Hold, Moves, Special, Locked, Ending, Late

LEMMA WaitForHoldKeeps ==
    ASSUME IInv, NEW t \in Threads, WaitForHold(t)
    PROVE  IInv'
<1> USE DEF IInv
<1>1. Moves(t, "untilHolding") /\ th'[t].then = th[t].then
  BY GoMoves DEF WaitForHold, Labels
<1>2. TypeOK'
  <2>1. ThreadTypes'
    BY <1>1, TypedState DEF WaitForHold, ThreadTypes, Moves, InstanceRec, OafRec, AdapterRec
  <2>2. QED
    BY <2>1, TypedState, ThreadsOnly DEF WaitForHold
<1>3. th[t].at = "waitForHold" /\ th'[t].then \in Stack("untilHolding")
  BY <1>1 DEF WaitForHold, At, StackInv, Stack
<1>4. adapter.instance
  BY DEF WaitForHold, EndInv
<1>5. QED
  BY <1>1, <1>2, <1>3, <1>4, TakesLock
  DEF WaitForHold, Moves, Special, Locked, Ending, Late

LEMMA ActivateEndsKeeps ==
    ASSUME IInv, NEW t \in Threads, ActivateEnds(t)
    PROVE  IInv'
<1> USE DEF IInv
<1>1. th[t].at = "updated"
  BY DEF ActivateEnds, At
<1>2. /\ adapter' \in AdapterRec
      /\ UNCHANGED <<adapter.deactivated, adapter.waitForDeactivate, adapter.instance,
                     adapter.directCount, adapter.servants>>
  BY TypedState DEF ActivateEnds, ThreadTypes, AdapterRec
<1>3. CASE adapter.instance
  <2>1. Moves(t, "factory") /\ th'[t].want = Active /\ th'[t].then = th[t].then
    BY <1>3, SwitchMoves DEF ActivateEnds
  <2>2. TypeOK'
    <3>1. ThreadTypes'
      BY <1>2, <1>3, <2>1, TypedState DEF ActivateEnds, ThreadTypes, Moves, InstanceRec, OafRec,
         AdapterRec
    <3>2. QED
      BY <3>1, TypedState, ThreadsOnly DEF ActivateEnds
  <2>3. th'[t].then \in Stack("factory")
    BY <1>1, <2>1 DEF StackInv, Stack
  <2>4. QED
    BY <1>1, <1>2, <1>3, <2>1, <2>2, <2>3, TakesLock
    DEF ActivateEnds, Moves, Special, Locked, Ending, Late
<1>4. CASE ~adapter.instance
  <2>1. Moves(t, "idle") /\ th'[t].then \in Stack("idle")
    BY <1>1, <1>4, ReturnMoves DEF ActivateEnds
  <2>2. TypeOK'
    <3>1. ThreadTypes'
      BY <1>2, <1>4, <2>1, TypedState DEF ActivateEnds, ThreadTypes, Moves, InstanceRec, OafRec,
         AdapterRec
    <3>2. QED
      BY <3>1, TypedState, ThreadsOnly DEF ActivateEnds
  <2>3. UNCHANGED locks
    BY <1>4 DEF ActivateEnds, locks
  <2>4. QED
    BY <1>1, <1>2, <2>1, <2>2, <2>3, QuietMove
    DEF ActivateEnds, Moves, Special, Locked, Ending, Late
<1>5. QED
  BY <1>3, <1>4

\* The flag is set before the factory is closed.
LEMMA DeactivatedKeeps ==
    ASSUME IInv, NEW t \in Threads, th[t].at \in {"deactivate", "waitActivate"}, Deactivated(t),
           UNCHANGED <<instance, oaf, factory, locks, pool, accepting, life, calls>>
    PROVE  IInv'
<1> USE DEF IInv
<1>1. CASE adapter.instance
  <2>1. Moves(t, "factory") /\ th'[t].want = Closed /\ th'[t].then = th[t].then
    BY <1>1, SwitchMoves DEF Deactivated
  <2>2. /\ adapter' \in AdapterRec /\ adapter'.deactivated
        /\ UNCHANGED <<adapter.waitForDeactivate, adapter.instance, adapter.directCount,
                       adapter.servants>>
    BY <1>1, TypedState DEF Deactivated, ThreadTypes, AdapterRec
  <2>3. TypeOK'
    <3>1. ThreadTypes'
      BY <2>1, <2>2, TypedState DEF locks, ThreadTypes, Moves, InstanceRec, OafRec
    <3>2. QED
      BY <3>1, TypedState, ThreadsOnly
  <2>4. th'[t].then \in Stack("factory")
    BY <2>1 DEF StackInv, Stack
  <2>5. /\ StaysIn({"each"}) /\ StaysIn(Ending \cup {"directCall"}) /\ SameIn(Ending)
        /\ StaysIn(Late \cup Users)
    <3>1. th[t].at \in {"deactivate", "waitActivate"} /\ th'[t].at = "factory"
      BY <2>1 DEF Moves
    <3>2. QED
      BY <2>1, <3>1, NotThere DEF Ending, Late, Users
  <2>6. StackInv' /\ EnderInv' /\ LifeInv' /\ KnownInv' /\ EndInv'
    BY <2>1, <2>2, <2>4, <2>5, StackFrame, EnderFrame, LifeFrame, KnownFrame, EndFrame DEF Moves
  <2>7. AcceptorInv'
    BY <2>5, AcceptorFrame DEF locks
  <2>8. LockInv'
    <3>1. \A s \in Threads : At(s, "each")' <=> flock' = s
      BY <2>1 DEF LockInv, At, Moves, locks
    <3>2. \A s \in Threads : th'[s].at \in {"untilHolding", "connHolding"} => alock' = s
      BY <2>1 DEF LockInv, Moves, locks
    <3>3. \A s \in Threads : th'[s].at \in {"factory", "each"} =>
                                th'[s].want \in {Active, Holding, Closed}
      BY <2>1 DEF LockInv, Moves
    <3>4. QED
      BY <2>2, <3>1, <3>2, <3>3 DEF LockInv, locks, Active, Holding, Closed
  <2>9. QED
    BY <2>3, <2>6, <2>7, <2>8
<1>2. CASE ~adapter.instance
  <2>1. Moves(t, "idle") /\ th'[t].then = <<>>
    BY <1>2, ThrowMoves DEF Deactivated
  <2>2. UNCHANGED adapter
    BY <1>2 DEF Deactivated
  <2>3. TypeOK'
    <3>1. ThreadTypes'
      BY <2>1, <2>2, TypedState DEF locks, ThreadTypes, Moves, InstanceRec, OafRec, AdapterRec
    <3>2. QED
      BY <3>1, TypedState, ThreadsOnly
  <2>4. QED
    BY <2>1, <2>2, <2>3, QuietMove DEF Moves, Special, Locked, Ending, Late, Stack
<1>3. QED
  BY <1>1, <1>2

LEMMA DeactivateResumesKeeps ==
    ASSUME IInv, NEW t \in Threads, DeactivateResumes(t)
    PROVE  IInv'
  BY DeactivatedKeeps DEF DeactivateResumes, At

LEMMA DeactivateKeeps ==
    ASSUME IInv, NEW t \in Threads, Deactivate(t)
    PROVE  IInv'
<1> USE DEF IInv
<1>1. th[t].at = "deactivate" /\ th[t].then \in Stack("deactivate")
  BY DEF Deactivate, At, StackInv
<1>2. adapter.deactivated \in BOOLEAN /\ adapter.waitForActivate \in BOOLEAN
  BY TypedState DEF ThreadTypes, AdapterRec
<1>3. ASSUME UNCHANGED adapter, Moves(t, th'[t].at), th'[t].then \in Stack(th'[t].at),
             th'[t].at \in {"idle", "waitForShutdown", "waitActivate"}
      PROVE  IInv'
  <2>1. TypeOK'
    <3>1. ThreadTypes'
      BY <1>3, TypedState DEF Deactivate, locks, ThreadTypes, Moves, InstanceRec, OafRec, AdapterRec
    <3>2. QED
      BY <3>1, TypedState, ThreadsOnly DEF Deactivate
  <2>2. QED
    BY <1>1, <1>3, <2>1, QuietMove DEF Deactivate, Special, Locked, Ending, Late
<1>4. CASE adapter.deactivated
  <2>1. UNCHANGED adapter /\ Return(t)
    BY <1>4 DEF Deactivate
  <2>2. QED
    BY <1>1, <1>3, <2>1, ReturnMoves
<1>5. CASE ~adapter.deactivated /\ adapter.waitForActivate
  <2>1. UNCHANGED adapter /\ Go(t, "waitActivate")
    BY <1>5 DEF Deactivate
  <2>2. Moves(t, "waitActivate") /\ th'[t].then = th[t].then
    BY <2>1, GoMoves DEF Labels
  <2>3. th'[t].at = "waitActivate" /\ th'[t].then \in Stack("waitActivate")
    BY <1>1, <2>2 DEF Stack, Moves
  <2>4. QED
    BY <1>3, <2>1, <2>2, <2>3
<1>6. CASE ~adapter.deactivated /\ ~adapter.waitForActivate
  BY <1>1, <1>6, DeactivatedKeeps DEF Deactivate
<1>7. QED
  BY <1>2, <1>4, <1>5, <1>6

LEMMA WaitForDeactivateKeeps ==
    ASSUME IInv, NEW t \in Threads, WaitForDeactivate(t)
    PROVE  IInv'
<1> USE DEF IInv
<1>1. th[t].at = "waitForDeactivate" /\ th[t].then \in Stack("waitForDeactivate")
  BY DEF WaitForDeactivate, At, StackInv
<1>2. PICK l \in {"untilFinished", "release"} :
         Go(t, l) /\ (l = "untilFinished" <=> adapter.instance)
  BY DEF WaitForDeactivate
<1>3. Moves(t, l) /\ th'[t].then = th[t].then /\ l = th'[t].at
  BY <1>2, GoMoves DEF Labels, Moves
<1>4. /\ adapter' \in AdapterRec /\ adapter'.waitForDeactivate
      /\ UNCHANGED <<adapter.deactivated, adapter.instance, adapter.directCount, adapter.servants>>
      /\ adapter.deactivated /\ adapter.directCount = 0
  BY TypedState DEF WaitForDeactivate, ThreadTypes, AdapterRec
<1>5. TypeOK'
  <2>1. ThreadTypes'
    BY <1>3, <1>4, TypedState DEF WaitForDeactivate, locks, ThreadTypes, Moves, InstanceRec, OafRec
  <2>2. QED
    BY <2>1, TypedState, ThreadsOnly DEF WaitForDeactivate
<1>6. th'[t].then \in Stack(l)
  BY <1>1, <1>3 DEF Stack
<1>7. StaysIn({"each"}) /\ StaysIn(Locked)
  BY <1>1, <1>3, NotThere DEF Locked
<1>8. StackInv' /\ LifeInv' /\ LockInv' /\ AcceptorInv'
  BY <1>3, <1>4, <1>6, <1>7, StackFrame, LifeFrame, LockFrame, AcceptorFrame
  DEF WaitForDeactivate, locks
<1>9. EndInv'
  BY <1>2, <1>3, <1>4, EndMove DEF WaitForDeactivate, Late, Users
<1>10. Enders = {}
  BY DEF EnderInv, WaitForDeactivate
<1>11. Enders' = {t} /\ DirectCalls' = DirectCalls
  BY <1>1, <1>3, <1>10 DEF Enders, DirectCalls, Moves, At
<1>12. EnderInv'
  <2>1. ASSUME NEW s \in Enders', ~At(s, "release")'
        PROVE  adapter'.instance
    BY <1>2, <1>3, <1>4, <1>11, <2>1 DEF At
  <2>2. QED
    BY <1>4, <1>11, <2>1 DEF EnderInv
<1>13. KnownInv'
  <2>1. Accepted' = Accepted /\ ServantsOutliveRequests'
    BY <1>4 DEF WaitForDeactivate, Accepted, KnownInv, ServantsOutliveRequests, Life!IsFinished
  <2>2. ASSUME NEW c \in Accepted'
        PROVE  \/ Life!IsFinished(life'[c])
               \/ c \in Range(factory'.connections)
    BY <1>10, <2>1 DEF KnownInv, WaitForDeactivate, Enders, At
  <2>3. ASSUME NEW s \in Enders'
        PROVE  At(s, "untilFinished")' \/ ~adapter'.instance
    BY <1>2, <1>3, <1>4, <1>11 DEF At
  <2>4. QED
    BY <2>1, <2>2, <2>3 DEF KnownInv, Life!IsFinished, Range
<1>14. QED
  BY <1>5, <1>8, <1>9, <1>12, <1>13

LEMMA DestroyServantsKeeps ==
    ASSUME IInv, NEW t \in Threads, DestroyServants(t)
    PROVE  IInv'
<1> USE DEF IInv
<1>1. th[t].at = "servants" /\ th[t].then \in Stack("servants")
  BY DEF DestroyServants, At, StackInv
<1>2. Moves(t, "release") /\ th'[t].then = th[t].then /\ th'[t].at = "release"
  BY GoMoves DEF DestroyServants, Labels, Moves
<1>3. /\ adapter' \in AdapterRec /\ ~adapter'.servants
      /\ UNCHANGED <<adapter.deactivated, adapter.instance, adapter.directCount,
                     adapter.waitForDeactivate>>
  BY TypedState DEF DestroyServants, ThreadTypes, AdapterRec
<1>4. TypeOK'
  <2>1. ThreadTypes'
    BY <1>2, <1>3, TypedState DEF DestroyServants, locks, ThreadTypes, Moves, InstanceRec, OafRec
  <2>2. QED
    BY <2>1, TypedState, ThreadsOnly DEF DestroyServants
<1>5. th'[t].then \in Stack("release")
  BY <1>1, <1>2 DEF Stack
<1>6. StaysIn({"each"}) /\ StaysIn(Locked)
  BY <1>1, <1>2, NotThere DEF Locked
<1>7. StackInv' /\ LifeInv' /\ LockInv' /\ AcceptorInv'
  BY <1>2, <1>3, <1>5, <1>6, StackFrame, LifeFrame, LockFrame, AcceptorFrame
  DEF DestroyServants, locks
<1>8. EnderInv'
  BY <1>1, <1>2, <1>3, EnderMove DEF Ending
<1>9. /\ t \in Enders /\ adapter.instance /\ adapter.deactivated /\ adapter.directCount = 0
      /\ \A s \in Enders : s = t
  BY <1>1 DEF Enders, EnderInv, At
<1>10. /\ factory.state = Closed /\ ~factory.acceptor /\ factory.connections = <<>>
       /\ AllAreFinished
  BY <1>1, <1>9 DEF KnownInv, At
<1>11. EndInv'
  <2>1. ReleasedIsQuiet'
    BY <1>3, <1>9 DEF ReleasedIsQuiet
  <2>2. QED
    BY <1>2, <1>3, <1>9, <1>10, <2>1 DEF EndInv, DestroyServants, Moves
<1>12. KnownInv'
  <2>1. Accepted' = Accepted
    BY DEF DestroyServants, Accepted
  <2>2. AllAreFinished' /\ ServantsOutliveRequests'
    BY <1>3, <1>9, <1>10, <2>1 DEF DestroyServants, AllAreFinished, ServantsOutliveRequests, Life!IsFinished
  <2>3. factory'.state = Closed /\ ~factory'.acceptor /\ factory'.connections = <<>>
    BY <1>10 DEF DestroyServants
  <2>4. \A c \in Accepted' : Life!IsFinished(life'[c])
    BY <2>2 DEF AllAreFinished, Life!IsFinished
  <2>5. QED
    BY <1>3, <2>2, <2>3, <2>4 DEF KnownInv, Closed, Life!IsFinished
<1>13. QED
  BY <1>4, <1>7, <1>8, <1>11, <1>12

LEMMA ReleaseKeeps ==
    ASSUME IInv, NEW t \in Threads, Release(t)
    PROVE  IInv'
<1> USE DEF IInv
<1>1. th[t].at = "release" /\ th[t].then \in Stack("release") /\ alock = None
  BY DEF Release, At, StackInv
<1>2. /\ Moves(t, th'[t].at) /\ th'[t].at \in {"idle", "remove", "shutdownDone"}
      /\ th'[t].then \in Stack(th'[t].at)
  <2>1. CASE Go(t, "remove")
    <3>1. Moves(t, "remove") /\ th'[t].then = th[t].then
      BY <2>1, GoMoves DEF Labels
    <3>2. QED
      BY <1>1, <3>1 DEF Moves, Stack
  <2>2. CASE Return(t)
    BY <1>1, <2>2, ReturnMoves
  <2>3. QED
    BY <2>1, <2>2 DEF Release
<1>3. /\ adapter' \in AdapterRec /\ ~adapter'.instance
      /\ UNCHANGED <<adapter.deactivated, adapter.servants, adapter.directCount>>
  BY TypedState DEF Release, ThreadTypes, AdapterRec
<1>4. TypeOK'
  <2>1. ThreadTypes'
    BY <1>2, <1>3, TypedState DEF Release, locks, ThreadTypes, Moves, InstanceRec, OafRec
  <2>2. QED
    BY <2>1, TypedState, ThreadsOnly DEF Release
<1>5. StaysIn({"each"}) /\ StaysIn(Locked)
  BY <1>1, <1>2, NotThere DEF Locked
<1>6. StackInv' /\ LifeInv' /\ LockInv' /\ AcceptorInv'
  BY <1>2, <1>3, <1>5, StackFrame, LifeFrame, LockFrame, AcceptorFrame
  DEF Release, locks
<1>7. /\ t \in Enders /\ \A s \in Enders : s = t
      /\ adapter.deactivated /\ adapter.directCount = 0
  BY <1>1 DEF Enders, EnderInv
<1>8. Enders' = {} /\ DirectCalls' = DirectCalls
  BY <1>1, <1>2, <1>7 DEF Enders, DirectCalls, Moves, At
<1>9. EnderInv'
  BY <1>3, <1>8 DEF EnderInv
<1>10. EndInv'
  <2>1. ReleasedIsQuiet \/ adapter.instance
    BY DEF EndInv
  <2>2. /\ ~factory.acceptor /\ factory.connections = <<>> /\ ~adapter.servants
        /\ adapter.instance => factory.state = Closed
    BY <1>1, <1>7, <2>1 DEF KnownInv, ReleasedIsQuiet, At, EndInv
  <2>3. ASSUME NEW s \in Threads, adapter.instance
        PROVE  th[s].at \notin Users
    <3>1. th[s].at # "each"
      BY <2>2, <2>3, AdapterAssumption DEF LockInv, At
    <3>2. th[s].at \notin {"untilHolding", "connHolding"}
      BY <1>1, AdapterAssumption DEF LockInv
    <3>3. th[s].at \notin {"untilFinished", "connFinished", "servants"}
      BY <1>1, <1>7 DEF Enders
    <3>4. th[s].at # "directCall"
      <4>1. IsFiniteSet(DirectCalls)
        BY AdapterAssumption, FS_Subset DEF DirectCalls
      <4>2. DirectCalls = {}
        BY <1>7, <4>1, FS_EmptySet DEF EnderInv
      <4>3. QED
        BY <4>2 DEF DirectCalls, At
    <3>5. QED
      BY <3>1, <3>2, <3>3, <3>4 DEF Users
  <2>4. \A s \in Threads : th[s].at \notin Users
    BY <2>3 DEF EndInv, ReleasedIsQuiet, Users
  <2>5. ReleasedIsQuiet'
    BY <1>2, <1>3, <2>2, <2>4 DEF ReleasedIsQuiet, Release, Users, Moves
  <2>6. \A s \in Threads : th'[s].at \in {"destroyPool", "join"} => ~oaf'.adapters
    BY <1>2 DEF EndInv, Moves, Release
  <2>7. QED
    BY <1>3, <1>7, <2>2, <2>5, <2>6 DEF EndInv, Release
<1>11. KnownInv'
  <2>1. Accepted' = Accepted
    BY DEF Release, Accepted
  <2>2. \A s \in Threads : th[s].at # "connFinished"
    BY <1>1, <1>7 DEF Enders
  <2>3. \A c \in Accepted' : Life!IsFinished(life'[c]) \/ c \in Range(factory'.connections)
    BY <2>1, <2>2 DEF KnownInv, At, Release
  <2>4. ServantsOutliveRequests'
    BY <1>3, <2>1 DEF Release, KnownInv, ServantsOutliveRequests, Life!IsFinished
  <2>5. QED
    BY <1>8, <2>3, <2>4 DEF KnownInv, Life!IsFinished, Range
<1>12. QED
  BY <1>4, <1>6, <1>9, <1>10, <1>11

\* A thread at the end of the adapter, or of the communicator, moves on.
LEMMA LateMove ==
    ASSUME IInv, TypeOK', NEW t \in Threads, Moves(t, th'[t].at),
           th[t].at \in Late \cup {"waitForShutdown"},
           th'[t].at \in Late \cup {"idle", "waitForShutdown", "waitForDeactivate"},
           th'[t].then \in Stack(th'[t].at),
           th'[t].at \in {"destroyPool", "join"} => ~oaf'.adapters,
           oaf'.adapters => oaf.adapters,
           th'[t].at \in Late \/ oaf'.adapters # oaf.adapters => ~adapter.instance,
           instance'.pool = "destroyed" => ~oaf'.adapters,
           UNCHANGED <<adapter, factory, locks, pool, accepting, life>>
    PROVE  IInv'
<1> USE DEF IInv
<1>1. /\ StaysIn(Locked) /\ StaysIn({"each"}) /\ StaysIn(Ending \cup {"directCall"})
      /\ SameIn(Ending) /\ StaysIn(Users)
  BY NotThere DEF Locked, Ending, Late, Users
<1>2. StackInv' /\ LockInv' /\ EnderInv' /\ LifeInv' /\ KnownInv' /\ AcceptorInv'
  BY <1>1, StackFrame, LockFrame, EnderFrame, LifeFrame, KnownFrame, AcceptorFrame DEF locks
<1>3. EndInv'
  <2>1. ReleasedIsQuiet'
    BY <1>1 DEF EndInv, ReleasedIsQuiet, StaysIn, Users
  <2>2. /\ \A s \in Threads : th'[s].at \in Late => ~adapter.instance
        /\ \A s \in Threads : th'[s].at \in {"destroyPool", "join"} => ~oaf'.adapters
    BY DEF EndInv, Moves, Late, ThreadTypes, OafRec
  <2>3. ~oaf'.adapters => ~adapter.instance
    BY DEF EndInv
  <2>4. QED
    BY <2>1, <2>2, <2>3 DEF EndInv, Late
<1>4. QED
  BY <1>2, <1>3

LEMMA RemoveObjectAdapterKeeps ==
    ASSUME IInv, NEW t \in Threads, RemoveObjectAdapter(t)
    PROVE  IInv'
<1> USE DEF IInv
<1>1. /\ th[t].at = "remove" /\ Moves(t, th'[t].at) /\ th'[t].then \in Stack(th'[t].at)
      /\ th'[t].at \in {"idle", "shutdownDone"}
  BY ReturnMoves DEF RemoveObjectAdapter, At
<1>2. oaf' \in OafRec /\ (oaf'.adapters => oaf.adapters)
  BY TypedState DEF RemoveObjectAdapter, ThreadTypes, OafRec
<1>3. TypeOK'
  <2>1. ThreadTypes'
    BY <1>1, <1>2, TypedState DEF RemoveObjectAdapter, locks, ThreadTypes, Moves, InstanceRec, AdapterRec
  <2>2. QED
    BY <2>1, TypedState, ThreadsOnly DEF RemoveObjectAdapter
<1>4. ~adapter.instance /\ (instance'.pool = "destroyed" => ~oaf'.adapters)
  BY <1>1, <1>2 DEF EndInv, RemoveObjectAdapter
<1>5. QED
  BY <1>1, <1>2, <1>3, <1>4, LateMove DEF RemoveObjectAdapter, Late

LEMMA ShutdownDoneKeeps ==
    ASSUME IInv, NEW t \in Threads, ShutdownDone(t)
    PROVE  IInv'
<1> USE DEF IInv
<1>1. /\ th[t].at = "shutdownDone" /\ Moves(t, th'[t].at) /\ th'[t].then \in Stack(th'[t].at)
      /\ th'[t].at \in {"idle", "destroyPool"}
  BY ReturnMoves DEF ShutdownDone, At
<1>2. oaf' \in OafRec /\ ~oaf'.adapters
  BY TypedState DEF ShutdownDone, ThreadTypes, OafRec
<1>3. TypeOK'
  <2>1. ThreadTypes'
    BY <1>1, <1>2, TypedState DEF ShutdownDone, locks, ThreadTypes, Moves, InstanceRec, AdapterRec
  <2>2. QED
    BY <2>1, TypedState, ThreadsOnly DEF ShutdownDone
<1>4. ~adapter.instance
  BY <1>1 DEF EndInv
<1>5. QED
  BY <1>1, <1>2, <1>3, <1>4, LateMove DEF ShutdownDone, Late

LEMMA DestroyPoolKeeps ==
    ASSUME IInv, NEW t \in Threads, DestroyPool(t)
    PROVE  IInv'
<1> USE DEF IInv
<1>1. th[t].at = "destroyPool" /\ Moves(t, "join") /\ th'[t].then = th[t].then /\ th'[t].at = "join"
  BY GoMoves DEF DestroyPool, At, Labels, Moves
<1>2. TypeOK'
  <2>1. ThreadTypes'
    BY <1>1, TypedState DEF DestroyPool, locks, ThreadTypes, Moves, InstanceRec, AdapterRec, OafRec
  <2>2. QED
    BY <2>1, TypedState, ThreadsOnly DEF DestroyPool
<1>3. ~adapter.instance /\ ~oaf.adapters /\ UNCHANGED oaf
  BY <1>1 DEF EndInv, DestroyPool
<1>4. th'[t].then \in Stack("join")
  BY <1>1 DEF StackInv, Stack
<1>5. QED
  BY <1>1, <1>2, <1>3, <1>4, LateMove DEF DestroyPool, Late

LEMMA JoinKeeps ==
    ASSUME IInv, NEW t \in Threads, Join(t)
    PROVE  IInv'
<1> USE DEF IInv
<1>1. /\ th[t].at = "join" /\ Moves(t, th'[t].at) /\ th'[t].then \in Stack(th'[t].at)
      /\ th'[t].at = "idle"
  BY ReturnMoves DEF Join, At
<1>2. TypeOK'
  <2>1. ThreadTypes'
    BY <1>1, TypedState DEF Join, locks, ThreadTypes, Moves, InstanceRec, AdapterRec, OafRec
  <2>2. QED
    BY <2>1, TypedState, ThreadsOnly DEF Join
<1>3. ~oaf.adapters
  BY <1>1 DEF EndInv
<1>4. QED
  BY <1>1, <1>2, <1>3, LateMove DEF Join, Late

\* An operation goes on with other operations.
LEMMA ContinueMoves ==
    ASSUME TypeOK, NEW t \in Threads, NEW ls, Continue(t, ls), NEW l \in Labels,
           NEW then \in Seq(Labels), Head(ls) = l, Tail(ls) \o th[t].then = then
    PROVE  Moves(t, l) /\ th'[t].then = then
<1>1. th \in [Threads -> ThreadRec]
  BY DEF TypeOK, ThreadRec
<1>2. th' = [th EXCEPT ![t] = [Idle EXCEPT !.at = l, !.then = then]]
  BY DEF Continue
<1>3. QED
  BY <1>1, <1>2, IdleRec DEF Moves, ThreadRec, Idle

LEMMA PairConcat ==
    ASSUME NEW S, NEW a \in S, NEW b \in S
    PROVE  <<a>> \o <<b>> = <<a, b>>
<1> DEFINE u == <<a>> \o <<b>>
<1>1. /\ <<a>> \in Seq(S) /\ <<b>> \in Seq(S) /\ <<a, b>> \in Seq(S)
      /\ Len(<<a>>) = 1 /\ Len(<<b>>) = 1
  OBVIOUS
<1>2. u \in Seq(S) /\ Len(u) = 2 /\ u[1] = a /\ u[2] = b
  BY <1>1
<1> HIDE DEF u
<1>3. u = <<a, b>>
  BY <1>1, <1>2
<1>4. QED
  BY <1>3 DEF u

LEMMA WaitForShutdownKeeps ==
    ASSUME IInv, NEW t \in Threads, WaitForShutdown(t)
    PROVE  IInv'
<1> USE DEF IInv
<1>1. th[t].at = "waitForShutdown" /\ th[t].then \in {<<>>, <<"destroyPool">>}
  BY DEF WaitForShutdown, At, StackInv, Stack
<1>2. {"waitForDeactivate", "shutdownDone", "destroyPool"} \subseteq Labels
  BY DEF Labels, Operations
<1>3. /\ Moves(t, th'[t].at) /\ th'[t].then \in Stack(th'[t].at)
      /\ th'[t].at = IF oaf.adapters THEN "waitForDeactivate" ELSE "shutdownDone"
  <2>1. CASE oaf.adapters
    <3> DEFINE ls == <<"waitForDeactivate", "shutdownDone">>
    <3>1. Continue(t, ls)
      BY <2>1 DEF WaitForShutdown
    <3>2. Head(ls) = "waitForDeactivate" /\ Tail(ls) = <<"shutdownDone">>
      OBVIOUS
    <3>3. PICK then \in {<<"shutdownDone">>, <<"shutdownDone", "destroyPool">>} :
             Tail(ls) \o th[t].then = then
      <4>1. /\ <<"shutdownDone">> \o <<>> = <<"shutdownDone">>
            /\ <<"shutdownDone">> \o <<"destroyPool">> = <<"shutdownDone", "destroyPool">>
        BY <1>2, PairConcat
      <4>2. QED
        BY <1>1, <3>2, <4>1
    <3>4. then \in Seq(Labels)
      <4>1. <<"shutdownDone">> \in Seq(Labels) /\ <<"shutdownDone", "destroyPool">> \in Seq(Labels)
        BY <1>2
      <4>2. QED
        BY <4>1
    <3> HIDE DEF ls
    <3>5. Moves(t, "waitForDeactivate") /\ th'[t].then = then
      BY <1>2, <3>1, <3>2, <3>3, <3>4, ContinueMoves
    <3>6. QED
      BY <2>1, <3>5 DEF Moves, Stack
  <2>2. CASE ~oaf.adapters
    <3> DEFINE ls == <<"shutdownDone">>
    <3>1. Continue(t, ls)
      BY <2>2 DEF WaitForShutdown
    <3>2. Head(ls) = "shutdownDone" /\ Tail(ls) = <<>>
      OBVIOUS
    <3>3. PICK then \in {<<>>, <<"destroyPool">>} : Tail(ls) \o th[t].then = then
      BY <1>1, <3>2
    <3>4. then \in Seq(Labels)
      <4>1. <<>> \in Seq(Labels) /\ <<"destroyPool">> \in Seq(Labels)
        BY <1>2
      <4>2. QED
        BY <4>1
    <3> HIDE DEF ls
    <3>5. Moves(t, "shutdownDone") /\ th'[t].then = then
      BY <1>2, <3>1, <3>2, <3>3, <3>4, ContinueMoves
    <3>6. QED
      BY <2>2, <3>5 DEF Moves, Stack
  <2>3. QED
    BY <2>1, <2>2
<1>4. oaf' \in OafRec /\ UNCHANGED oaf.adapters
  BY TypedState DEF WaitForShutdown, ThreadTypes, OafRec
<1>5. TypeOK'
  <2>1. ThreadTypes'
    BY <1>3, <1>4, TypedState DEF WaitForShutdown, locks, ThreadTypes, Moves, InstanceRec, AdapterRec
  <2>2. QED
    BY <2>1, TypedState, ThreadsOnly DEF WaitForShutdown
<1>6. /\ ~oaf.adapters => ~adapter.instance
      /\ instance'.pool = "destroyed" => ~oaf'.adapters
  BY <1>4 DEF EndInv, WaitForShutdown
<1>7. QED
  BY <1>1, <1>3, <1>4, <1>5, <1>6, LateMove DEF WaitForShutdown, Late

LEMMA DestroyKeeps ==
    ASSUME IInv, NEW t \in Threads, Destroy(t)
    PROVE  IInv'
<1> USE DEF IInv
<1>1. th[t].at = "destroy" /\ th[t].then = <<>>
  BY DEF Destroy, At, StackInv, Stack
<1>2. /\ Moves(t, th'[t].at) /\ th'[t].then \in Stack(th'[t].at)
      /\ th'[t].at \in {"idle", "shutdown"}
  <2>1. CASE instance.state = "active"
    <3> DEFINE ls == <<"shutdown", "waitForShutdown", "destroyPool">>
               then == <<"waitForShutdown", "destroyPool">>
    <3>1. Continue(t, ls)
      BY <2>1 DEF Destroy
    <3>2. Head(ls) = "shutdown" /\ Tail(ls) = then
      OBVIOUS
    <3>3. {"shutdown", "waitForShutdown", "destroyPool"} \subseteq Labels
      BY DEF Labels, Operations
    <3>4. then \in Seq(Labels) /\ then \o <<>> = then
      BY <3>3
    <3>5. Tail(ls) \o th[t].then = then
      BY <1>1, <3>2, <3>4
    <3> HIDE DEF ls
    <3>6. Moves(t, "shutdown") /\ th'[t].then = then
      BY <3>1, <3>2, <3>3, <3>4, <3>5, ContinueMoves
    <3>7. QED
      BY <3>6 DEF Moves, Stack
  <2>2. CASE instance.state # "active"
    BY <1>1, <2>2, ReturnMoves DEF Destroy
  <2>3. QED
    BY <2>1, <2>2
<1>3. instance' \in InstanceRec /\ UNCHANGED instance.pool
  BY TypedState DEF Destroy, ThreadTypes, InstanceRec
<1>4. TypeOK'
  <2>1. ThreadTypes'
    BY <1>2, <1>3, TypedState DEF Destroy, locks, ThreadTypes, Moves, OafRec, AdapterRec
  <2>2. QED
    BY <2>1, TypedState, ThreadsOnly DEF Destroy
<1>5. QED
  BY <1>1, <1>2, <1>3, <1>4, QuietMove DEF Destroy, Special, Locked, Ending, Late

\* A direct call starts while the adapter is not deactivated.
LEMMA IncDirectCountKeeps ==
    ASSUME IInv, NEW t \in Threads, IncDirectCount(t)
    PROVE  IInv'
<1> USE DEF IInv
<1>1. /\ th[t].at = "direct" /\ th[t].then \in Stack("direct")
      /\ ~adapter.deactivated /\ adapter.instance /\ adapter.servants /\ Enders = {}
  BY DEF IncDirectCount, At, StackInv, EndInv, EnderInv
<1>2. Moves(t, "directCall") /\ th'[t].then = th[t].then /\ th'[t].at = "directCall"
  BY GoMoves DEF IncDirectCount, Labels, Moves
<1>3. adapter.directCount \in Nat
  BY TypedState DEF ThreadTypes, AdapterRec
<1>4. /\ adapter' \in AdapterRec /\ adapter'.directCount = adapter.directCount + 1
      /\ UNCHANGED <<adapter.deactivated, adapter.servants, adapter.instance,
                     adapter.waitForDeactivate>>
  BY <1>3, TypedState DEF IncDirectCount, ThreadTypes, AdapterRec
<1>5. TypeOK'
  <2>1. ThreadTypes'
    BY <1>2, <1>4, TypedState DEF IncDirectCount, locks, ThreadTypes, Moves, InstanceRec, OafRec
  <2>2. QED
    BY <2>1, TypedState, ThreadsOnly DEF IncDirectCount
<1>6. StaysIn({"each"}) /\ StaysIn(Locked) /\ th'[t].then \in Stack("directCall")
  BY <1>1, <1>2, NotThere DEF Locked, Stack
<1>7. StackInv' /\ LifeInv' /\ LockInv' /\ AcceptorInv'
  BY <1>2, <1>4, <1>6, StackFrame, LifeFrame, LockFrame, AcceptorFrame
  DEF IncDirectCount, locks
<1>8. EndInv'
  BY <1>1, <1>2, <1>4, EndMove DEF IncDirectCount, Late
<1>9. Enders' = {} /\ DirectCalls' = DirectCalls \cup {t} /\ t \notin DirectCalls
  BY <1>1, <1>2 DEF Enders, DirectCalls, Moves, At
<1>10. EnderInv'
  <2>1. IsFiniteSet(DirectCalls)
    BY AdapterAssumption, FS_Subset DEF DirectCalls
  <2>2. Cardinality(DirectCalls \cup {t}) = Cardinality(DirectCalls) + 1
    BY <1>9, <2>1, FS_AddElement
  <2>3. adapter'.directCount = Cardinality(DirectCalls')
    BY <1>4, <1>9, <2>2 DEF EnderInv
  <2>4. QED
    BY <1>9, <2>3 DEF EnderInv
<1>11. KnownInv'
  <2>1. Accepted' = Accepted /\ ServantsOutliveRequests'
    BY <1>1, <1>4 DEF IncDirectCount, Accepted, ServantsOutliveRequests
  <2>2. \A c \in Accepted' : Life!IsFinished(life'[c]) \/ c \in Range(factory'.connections)
    BY <1>1, <2>1 DEF KnownInv, At, IncDirectCount, Enders
  <2>3. QED
    BY <1>9, <2>1, <2>2 DEF KnownInv, Life!IsFinished, Range
<1>12. QED
  BY <1>5, <1>7, <1>8, <1>10, <1>11

LEMMA DecDirectCountKeeps ==
    ASSUME IInv, NEW t \in Threads, DecDirectCount(t)
    PROVE  IInv'
<1> USE DEF IInv
<1>1. th[t].at = "directCall" /\ t \in DirectCalls
  BY DEF DecDirectCount, At, DirectCalls
<1>2. /\ IsFiniteSet(DirectCalls) /\ adapter.directCount = Cardinality(DirectCalls)
      /\ adapter.directCount \in Nat
  BY AdapterAssumption, FS_Subset, TypedState DEF DirectCalls, EnderInv, ThreadTypes, AdapterRec
<1>3. adapter.directCount # 0 /\ Cardinality(DirectCalls \ {t}) = adapter.directCount - 1
  BY <1>1, <1>2, FS_RemoveElement, FS_EmptySet
<1>4. adapter.instance /\ adapter.servants /\ Enders = {}
  BY <1>1, <1>3 DEF EnderInv, KnownInv, ServantsOutliveRequests, EndInv, ReleasedIsQuiet
<1>5. /\ Moves(t, th'[t].at) /\ th'[t].then \in Stack(th'[t].at) /\ th'[t].at = "idle"
  BY <1>1, ReturnMoves DEF DecDirectCount
<1>6. /\ adapter' \in AdapterRec /\ adapter'.directCount = adapter.directCount - 1
      /\ UNCHANGED <<adapter.deactivated, adapter.servants, adapter.instance,
                     adapter.waitForDeactivate>>
  <2>1. adapter.directCount - 1 \in Nat
    BY <1>2, <1>3
  <2>2. QED
    BY <2>1, TypedState DEF DecDirectCount, ThreadTypes, AdapterRec
<1>7. TypeOK'
  <2>1. ThreadTypes'
    BY <1>5, <1>6, TypedState DEF DecDirectCount, locks, ThreadTypes, Moves, InstanceRec, OafRec
  <2>2. QED
    BY <2>1, TypedState, ThreadsOnly DEF DecDirectCount
<1>8. StaysIn({"each"}) /\ StaysIn(Locked)
  BY <1>1, <1>5, NotThere DEF Locked
<1>9. StackInv' /\ LifeInv' /\ LockInv' /\ AcceptorInv'
  BY <1>5, <1>6, <1>8, StackFrame, LifeFrame, LockFrame, AcceptorFrame
  DEF DecDirectCount, locks
<1>10. EndInv'
  BY <1>5, <1>6, EndMove DEF DecDirectCount, Late, Users
<1>11. Enders' = {} /\ DirectCalls' = DirectCalls \ {t}
  BY <1>1, <1>4, <1>5 DEF Enders, DirectCalls, Moves, At
<1>12. EnderInv'
  BY <1>3, <1>6, <1>11 DEF EnderInv
<1>13. KnownInv'
  <2>1. Accepted' = Accepted /\ ServantsOutliveRequests'
    BY <1>4, <1>6 DEF DecDirectCount, Accepted, ServantsOutliveRequests
  <2>2. \A c \in Accepted' : Life!IsFinished(life'[c]) \/ c \in Range(factory'.connections)
    BY <1>4, <2>1 DEF KnownInv, At, DecDirectCount, Enders
  <2>3. QED
    BY <1>11, <2>1, <2>2 DEF KnownInv, Life!IsFinished, Range
<1>14. QED
  BY <1>7, <1>9, <1>10, <1>12, <1>13

-----------------------------------------------------------------------------
(* The factory goes from one state to another.                             *)

\* The operation ends, and leaves the adapter's lock if it had it.
LEMMA LeavesLock ==
    ASSUME IInv, TypeOK', NEW t \in Threads, Moves(t, th'[t].at),
           th[t].at \in {"factory", "connHolding"},
           th'[t].at \in {"idle", "waitForShutdown"},
           th'[t].then \in Stack(th'[t].at), LeaveAdapter(t),
           UNCHANGED <<instance, oaf, adapter, factory, flock, pool, accepting, life>>
    PROVE  IInv'
<1> USE DEF IInv
<1>1. /\ StaysIn({"each"}) /\ StaysIn(Ending \cup {"directCall"}) /\ SameIn(Ending)
  BY NotThere DEF Ending
<1>2. StackInv' /\ EnderInv' /\ LifeInv' /\ KnownInv' /\ AcceptorInv'
  BY <1>1, StackFrame, EnderFrame, LifeFrame, KnownFrame, AcceptorFrame
<1>3. EndInv'
  BY EndMove DEF Late, Users
<1>4. LockInv'
  <2>1. \A s \in Threads : At(s, "each")' <=> flock' = s
    BY DEF LockInv, At, Moves
  <2>2. \A s \in Threads : th'[s].at \in {"untilHolding", "connHolding"} => alock' = s
    BY AdapterAssumption DEF LockInv, Moves, LeaveAdapter
  <2>3. \A s \in Threads : th'[s].at \in {"factory", "each"} =>
              /\ th'[s].want \in {Active, Holding, Closed}
              /\ th'[s].want = Closed => adapter'.deactivated
    BY DEF LockInv, Moves
  <2>4. QED
    BY <2>1, <2>2, <2>3 DEF LockInv, Active, Holding, Closed
<1>5. QED
  BY <1>2, <1>3, <1>4

LEMMA SetStateIgnoredKeeps ==
    ASSUME IInv, NEW t \in Threads, SetStateIgnored(t)
    PROVE  IInv'
<1> USE DEF IInv
<1>1. /\ th[t].at = "factory" /\ Moves(t, th'[t].at) /\ th'[t].then \in Stack(th'[t].at)
      /\ th'[t].at \in {"idle", "waitForShutdown"}
  BY ReturnMoves DEF SetStateIgnored, At
<1>2. TypeOK'
  <2>1. ThreadTypes'
    BY <1>1, TypedState DEF SetStateIgnored, LeaveAdapter, ThreadTypes, Moves, InstanceRec, OafRec,
       AdapterRec
  <2>2. QED
    BY <2>1, TypedState, ThreadsOnly DEF SetStateIgnored
<1>3. QED
  BY <1>1, <1>2, LeavesLock DEF SetStateIgnored

LEMMA AllHoldKeeps ==
    ASSUME IInv, NEW t \in Threads, AllHold(t)
    PROVE  IInv'
<1> USE DEF IInv
<1>1. /\ th[t].at = "connHolding" /\ Moves(t, th'[t].at) /\ th'[t].then \in Stack(th'[t].at)
      /\ th'[t].at = "idle"
  BY ReturnMoves DEF AllHold, At
<1>2. TypeOK'
  <2>1. ThreadTypes'
    BY <1>1, TypedState DEF AllHold, LeaveAdapter, ThreadTypes, Moves, InstanceRec, OafRec,
       AdapterRec
  <2>2. QED
    BY <2>1, TypedState, ThreadsOnly DEF AllHold
<1>3. QED
  BY <1>1, <1>2, LeavesLock DEF AllHold

\* One more change in the queue.
LEMMA OneMoreChange ==
    ASSUME NEW S, NEW s \in Seq(S), NEW e \in S
    PROVE  /\ Append(s, e) \in Seq(S) /\ Append(s, e) # <<>>
           /\ Append(s, e) = s \o <<e>> /\ Append(s, e)[Len(Append(s, e))] = e
           /\ Cardinality(Positions(Append(s, e), "remove")) =
                 Cardinality(Positions(s, "remove")) + (IF e = "remove" THEN 1 ELSE 0)
<1>1. /\ Append(s, e) \in Seq(S) /\ Append(s, e) # <<>>
      /\ Append(s, e) = s \o <<e>> /\ Append(s, e)[Len(Append(s, e))] = e
  OBVIOUS
<1>2. QED
  BY <1>1, PositionsAppend

\* What setState() asks of the pool.
LEMMA PoolCallsAre ==
    ASSUME NEW s \in {Active, Holding, Closed}, factory.registered \in BOOLEAN,
           factory.registered <=> factory.state = Active, MaySwitch(s),
           factory.state \in {Active, Holding, Closed}
    PROVE  \/ s = Active /\ PoolCalls(s) = <<"add">>
           \/ s # Active /\ PoolCalls(s) = <<"remove">>
           \/ s # Active /\ PoolCalls(s) = <<"add", "remove">>
<1>1. <<"add">> \o <<"remove">> = <<"add", "remove">>
  <2>1. "add" \in {"add", "remove"} /\ "remove" \in {"add", "remove"}
    OBVIOUS
  <2>2. QED
    BY <2>1, PairConcat
<1>2. /\ <<"add">> \o <<>> = <<"add">>
      /\ <<>> \o <<"remove">> = <<"remove">>
  OBVIOUS
<1>3. CASE s = Active
  <2>1. ~factory.registered /\ s # Holding /\ s # Closed
    BY <1>3 DEF MaySwitch, Active, Holding, Closed
  <2>2. QED
    BY <1>2, <1>3, <2>1 DEF PoolCalls
<1>4. CASE s = Holding
  <2>1. factory.registered /\ s # Active /\ s # Closed
    BY <1>4 DEF MaySwitch, Active, Holding, Closed
  <2>2. QED
    BY <1>2, <1>4, <2>1 DEF PoolCalls
<1>5. CASE s = Closed
  <2>1. s # Active /\ s # Holding
    BY <1>5 DEF Active, Holding, Closed
  <2>2. CASE factory.registered
    BY <1>2, <1>5, <2>1, <2>2 DEF PoolCalls
  <2>3. CASE ~factory.registered
    BY <1>1, <1>5, <2>1, <2>3 DEF PoolCalls
  <2>4. QED
    BY <2>2, <2>3
<1>6. QED
  BY <1>3, <1>4, <1>5

LEMMA SetStateKeeps ==
    ASSUME IInv, NEW t \in Threads, SetState(t)
    PROVE  IInv'
<1> USE DEF IInv
<1>1. /\ th[t].at = "factory" /\ th[t].then \in Stack("factory") /\ flock = None
      /\ th[t].want \in {Active, Holding, Closed} /\ MaySwitch(th[t].want)
      /\ th[t].want = Closed => adapter.deactivated
  BY DEF SetState, At, StackInv, LockInv
<1> DEFINE want == th[t].want
<1>2. /\ factory.registered <=> factory.state = Active
      /\ factory.state # Closed /\ factory.acceptor /\ adapter.instance
  BY <1>1 DEF AcceptorInv, AcceptorOutlivesPool, MaySwitch, EndInv, ReleasedIsQuiet
<1>3. /\ factory \in FactoryRec /\ changes \in Seq({"add", "remove"}) /\ finishing \in Nat
      /\ factory.registered \in BOOLEAN /\ factory.state \in {Active, Holding, Closed}
      /\ factory.connections \in Seq(Conns) /\ factory.finishedCount \in Nat
  BY TypedState DEF OtherTypes, FactoryRec
<1>4. PICK ops : ops = PoolCalls(want)
  OBVIOUS
<1>5. /\ changes' = changes \o ops
      /\ factory' = [factory EXCEPT
                        !.registered = (want = Active),
                        !.finishedCount = @ + (IF "remove" \in Range(ops) THEN 1 ELSE 0)]
  BY <1>4 DEF SetState
<1>6. PICK n \in {0, 1} :
        /\ n = (IF "remove" \in Range(ops) THEN 1 ELSE 0)
        /\ changes' \in Seq({"add", "remove"}) /\ changes' # <<>>
        /\ changes'[Len(changes')] = "add" <=> want = Active
        /\ Cardinality(Pending') = Cardinality(Pending) + n
  <2>1. ops \in {<<"add">>, <<"remove">>, <<"add", "remove">>}
    BY <1>1, <1>2, <1>3, <1>4, PoolCallsAre
  <2>2. CASE ops = <<"add">>
    <3>1. want = Active
      <4>1. <<"add">> # <<"remove">> /\ <<"add">> # <<"add", "remove">>
        OBVIOUS
      <4>2. QED
        BY <1>1, <1>2, <1>3, <1>4, <2>2, <4>1, PoolCallsAre
    <3>2. changes' = Append(changes, "add") /\ ~("remove" \in Range(ops))
      <4>1. changes' = Append(changes, "add")
        BY <1>3, <1>5, <2>2
      <4>2. Range(<<"add">>) = {"add"}
        BY DEF Range
      <4>3. QED
        BY <2>2, <4>1, <4>2
    <3>3. "add" \in {"add", "remove"}
      OBVIOUS
    <3>4. QED
      BY <1>3, <3>1, <3>2, <3>3, OneMoreChange DEF Pending
  <2>3. CASE ops = <<"remove">>
    <3>1. want # Active
      <4>1. <<"add">> # <<"remove">>
        OBVIOUS
      <4>2. QED
        BY <1>1, <1>2, <1>3, <1>4, <2>3, <4>1, PoolCallsAre
    <3>2. changes' = Append(changes, "remove") /\ "remove" \in Range(ops)
      <4>1. changes' = Append(changes, "remove")
        BY <1>3, <1>5, <2>3
      <4>2. Range(<<"remove">>) = {"remove"}
        BY DEF Range
      <4>3. QED
        BY <2>3, <4>1, <4>2
    <3>3. "remove" \in {"add", "remove"}
      OBVIOUS
    <3>4. QED
      BY <1>3, <3>1, <3>2, <3>3, OneMoreChange DEF Pending
  <2>4. CASE ops = <<"add", "remove">>
    <3>1. want # Active
      <4>1. <<"add">> # <<"add", "remove">>
        OBVIOUS
      <4>2. QED
        BY <1>1, <1>2, <1>3, <1>4, <2>4, <4>1, PoolCallsAre
    <3>2. PICK u \in Seq({"add", "remove"}) : u = Append(changes, "add")
      <4>1. "add" \in {"add", "remove"}
        OBVIOUS
      <4>2. Append(changes, "add") \in Seq({"add", "remove"})
        BY <1>3, <4>1, OneMoreChange
      <4>3. QED
        BY <4>2, Zenon
    <3>3. changes' = Append(u, "remove") /\ "remove" \in Range(ops)
      <4>1. changes' = Append(u, "remove")
        BY <1>3, <1>5, <2>4, <3>2
      <4>2. Range(<<"add", "remove">>) = {"add", "remove"}
        BY DEF Range
      <4>3. QED
        BY <2>4, <4>1, <4>2
    <3>4. Cardinality(Positions(u, "remove")) = Cardinality(Positions(changes, "remove"))
      <4>1. "add" \in {"add", "remove"} /\ "add" # "remove"
        OBVIOUS
      <4>2. PICK k \in Nat : k = Cardinality(Positions(changes, "remove"))
        BY <1>3, PositionsFinite
      <4>3. Cardinality(Positions(Append(changes, "add"), "remove")) =
               k + (IF "add" = "remove" THEN 1 ELSE 0)
        BY <1>3, <4>1, <4>2, PositionsAppend
      <4>4. QED
        BY <3>2, <4>1, <4>2, <4>3
    <3>5. "remove" \in {"add", "remove"}
      OBVIOUS
    <3>6. QED
      BY <3>1, <3>2, <3>3, <3>4, <3>5, OneMoreChange DEF Pending
  <2>5. QED
    BY <2>1, <2>2, <2>3, <2>4
<1>7. /\ factory' \in FactoryRec
      /\ factory'.registered <=> want = Active
      /\ factory'.finishedCount = factory.finishedCount + n
      /\ UNCHANGED <<factory.state, factory.acceptor, factory.connections>>
  <2>1. factory.finishedCount + n \in Nat /\ (want = Active) \in BOOLEAN
    BY <1>3
  <2>2. factory' = [factory EXCEPT !.registered = (want = Active),
                                   !.finishedCount = factory.finishedCount + n]
    BY <1>5, <1>6
  <2>3. QED
    BY <1>3, <2>1, <2>2 DEF FactoryRec
<1>8. /\ Moves(t, "each") /\ th'[t].want = th[t].want /\ th'[t].then = th[t].then
      /\ th'[t].at = "each" /\ flock' = t
  <2>1. th \in [Threads -> ThreadRec] /\ "each" \in Labels
    BY TypedState DEF ThreadTypes, Labels
  <2>2. th' = [th EXCEPT ![t].at = "each", ![t].todo = factory.connections] /\ flock' = t
    BY DEF SetState
  <2>3. QED
    BY <1>3, <2>1, <2>2 DEF Moves, ThreadRec
<1>9. TypeOK'
  <2>1. ThreadTypes'
    BY <1>8, TypedState DEF SetState, ThreadTypes, Moves, InstanceRec, OafRec, AdapterRec
  <2>2. OtherTypes'
    BY <1>6, <1>7, TypedState DEF SetState, OtherTypes, FactoryRec, LifeRec, Active, Holding, Closed,
       Life!NotValidated, Life!Closed
  <2>3. QED
    BY <2>1, <2>2, Types
<1>10. StaysIn(Ending \cup {"directCall"}) /\ SameIn(Ending) /\ th'[t].then \in Stack("each")
  BY <1>1, <1>8, NotThere DEF Ending, Stack
<1>11. StackInv' /\ EnderInv' /\ LifeInv' /\ KnownInv'
  BY <1>7, <1>8, <1>10, StackFrame, EnderFrame, LifeFrame, KnownFrame DEF SetState
<1>12. EndInv'
  BY <1>2, <1>7, <1>8, EndMove DEF SetState, Late
<1>13. LockInv'
  <2>1. \A s \in Threads : At(s, "each")' <=> flock' = s
    BY <1>1, <1>8, AdapterAssumption DEF LockInv, At, Moves
  <2>2. \A s \in Threads : th'[s].at \in {"untilHolding", "connHolding"} => alock' = s
    BY <1>8 DEF LockInv, Moves, SetState
  <2>3. \A s \in Threads : th'[s].at \in {"factory", "each"} =>
              /\ th'[s].want \in {Active, Holding, Closed}
              /\ th'[s].want = Closed => adapter'.deactivated
    BY <1>1, <1>8 DEF LockInv, Moves, SetState
  <2>4. factory'.state # Closed
    BY <1>2, <1>7
  <2>5. QED
    BY <2>1, <2>2, <2>3, <2>4 DEF LockInv, Active, Holding, Closed
<1>14. AcceptorInv'
  <2>1. factory'.finishedCount = Cardinality(Pending') + finishing'
    <3>1. Cardinality(Pending) \in Nat /\ factory.finishedCount = Cardinality(Pending) + finishing
      BY <1>3, PositionsFinite DEF AcceptorInv, Pending
    <3>2. UNCHANGED finishing
      BY DEF SetState
    <3>3. QED
      BY <1>3, <1>6, <1>7, <3>1, <3>2
  <2>2. QueueEnds'
    BY <1>6, <1>7 DEF QueueEnds
  <2>3. \A s \in Threads : th'[s].at = "each" => s = t
    BY <1>1, <1>8, AdapterAssumption DEF LockInv, At, Moves
  <2>4. \A s \in Threads : At(s, "each")' => (factory'.registered <=> th'[s].want = Active)
    BY <1>7, <1>8, <2>3 DEF At
  <2>5. flock' # None /\ UNCHANGED <<picked, inPool>> /\ (picked => inPool)
    BY <1>8, AdapterAssumption DEF AcceptorInv, SetState
  <2>6. AcceptorOutlivesPool'
    BY <1>2, <1>7 DEF AcceptorOutlivesPool
  <2>7. QED
    BY <2>1, <2>2, <2>4, <2>5, <2>6 DEF AcceptorInv, Active
<1>15. QED
  BY <1>9, <1>11, <1>12, <1>13, <1>14

LEMMA SetStateEndsKeeps ==
    ASSUME IInv, NEW t \in Threads, SetStateEnds(t)
    PROVE  IInv'
<1> USE DEF IInv
<1>1. /\ th[t].at = "each" /\ flock = t /\ th[t].want \in {Active, Holding, Closed}
      /\ th[t].want = Closed => adapter.deactivated
      /\ factory.registered <=> th[t].want = Active
  BY DEF SetStateEnds, At, LockInv, AcceptorInv
<1>2. /\ \A s \in Threads : th[s].at = "each" => s = t
      /\ factory.state # Closed /\ factory.acceptor /\ adapter.instance
  BY <1>1, AdapterAssumption
  DEF LockInv, At, AcceptorInv, AcceptorOutlivesPool, EndInv, ReleasedIsQuiet
<1>3. /\ Moves(t, th'[t].at) /\ th'[t].then \in Stack(th'[t].at)
      /\ th'[t].at \in {"idle", "waitForShutdown"}
  BY <1>1, ReturnMoves DEF SetStateEnds
<1>4. /\ factory' \in FactoryRec /\ factory'.state = th[t].want
      /\ UNCHANGED <<factory.acceptor, factory.registered, factory.finishedCount,
                     factory.connections>>
  BY <1>1, TypedState DEF SetStateEnds, OtherTypes, FactoryRec
<1>5. TypeOK'
  <2>1. ThreadTypes'
    BY <1>3, TypedState DEF SetStateEnds, LeaveAdapter, ThreadTypes, Moves, InstanceRec, OafRec,
       AdapterRec
  <2>2. OtherTypes'
    BY <1>4, TypedState DEF SetStateEnds, OtherTypes, pool, FactoryRec, LifeRec, Active, Holding,
       Closed, Life!NotValidated, Life!Closed
  <2>3. QED
    BY <2>1, <2>2, Types
<1>6. StaysIn(Ending \cup {"directCall"}) /\ SameIn(Ending)
  BY <1>1, <1>3, NotThere DEF Ending
<1>7. StackInv' /\ EnderInv' /\ LifeInv'
  BY <1>3, <1>6, StackFrame, EnderFrame, LifeFrame DEF SetStateEnds
<1>8. EndInv'
  BY <1>2, <1>3, <1>4, EndMove DEF SetStateEnds, Late, Users
<1>9. LockInv'
  <2>1. \A s \in Threads : At(s, "each")' <=> flock' = s
    BY <1>2, <1>3, AdapterAssumption DEF At, Moves, SetStateEnds
  <2>2. \A s \in Threads : th'[s].at \in {"untilHolding", "connHolding"} => alock' = s
    BY <1>3, AdapterAssumption DEF LockInv, Moves, SetStateEnds, LeaveAdapter
  <2>3. \A s \in Threads : th'[s].at \in {"factory", "each"} =>
              /\ th'[s].want \in {Active, Holding, Closed}
              /\ th'[s].want = Closed => adapter'.deactivated
    BY <1>3 DEF LockInv, Moves, SetStateEnds
  <2>4. factory'.state = Closed => adapter'.deactivated /\ flock' = None
    BY <1>1, <1>4 DEF SetStateEnds
  <2>5. QED
    BY <2>1, <2>2, <2>3, <2>4 DEF LockInv, Active, Holding, Closed
<1>10. AcceptorInv'
  <2>1. UNCHANGED <<changes, inPool, picked, finishing>>
    BY DEF SetStateEnds, pool
  <2>2. Pending' = Pending /\ (QueueEnds' <=> QueueEnds)
    BY <1>4, <2>1 DEF Pending, Positions, QueueEnds
  <2>3. \A s \in Threads : th'[s].at # "each"
    BY <1>2, <1>3 DEF Moves
  <2>4. AcceptorOutlivesPool' /\ (factory'.registered <=> factory'.state = Active)
    BY <1>1, <1>2, <1>4 DEF AcceptorOutlivesPool
  <2>5. QED
    BY <1>4, <2>1, <2>2, <2>3, <2>4 DEF AcceptorInv, At, Active
<1>11. KnownInv'
  <2>1. Enders' = Enders /\ Accepted' = Accepted
    BY <1>6 DEF SetStateEnds, Enders, SameIn, Ending, Accepted
  <2>2. \A s \in Enders : At(s, "untilFinished")'
    BY <1>2, <1>6 DEF KnownInv, Enders, SameIn, Ending, At
  <2>3. ASSUME NEW c \in Accepted'
        PROVE  \/ Life!IsFinished(life'[c])
               \/ c \in Range(factory'.connections)
               \/ \E s \in Threads : th'[s].at = "connFinished" /\ c \in Range(th'[s].todo)
    BY <1>4, <1>6, <2>1 DEF KnownInv, At, SameIn, Ending, SetStateEnds
  <2>4. ServantsOutliveRequests'
    BY <2>1 DEF KnownInv, ServantsOutliveRequests, SetStateEnds, Life!IsFinished
  <2>5. QED
    BY <2>1, <2>2, <2>3, <2>4 DEF KnownInv, At, Life!IsFinished, Range
<1>12. QED
  BY <1>5, <1>7, <1>8, <1>9, <1>10, <1>11
-----------------------------------------------------------------------------
(* The connections.                                                        *)

\* What is finished stays so, and a connection that was not used is not.
LEMMA LifeOperations ==
    ASSUME NEW l \in LifeRec, l.finished => l.state = Life!Closed,
           NEW x \in {Life!Activated(l), Life!Held(l), Life!Destroyed(l), Life!Aborted(l)}
    PROVE  /\ x \in LifeRec /\ x.pending = l.pending
           /\ x.finished => x.state = Life!Closed
           /\ Life!IsFinished(l) => Life!IsFinished(x)
           /\ l.state = Life!NotValidated \/ l.finished =>
                 x.state = Life!NotValidated \/ x.finished
<1> USE DEF Life!NotValidated, Life!Active, Life!Holding, Life!Closing, Life!Closed
<1>1. l.state \in 0..4 /\ l.pending \in SUBSET Reqs /\ l.finished \in BOOLEAN
  BY DEF LifeRec
<1>2. CASE x = l
  BY <1>1, <1>2
<1>3. CASE \E s \in {Life!Active, Life!Holding, Life!Closing} :
              /\ x = [l EXCEPT !.state = s]
              /\ l.state \in {Life!Active, Life!Holding}
  <2>1. PICK s \in {1, 2, 3} : x = [l EXCEPT !.state = s] /\ l.state \in {1, 2}
    BY <1>3
  <2>2. ~l.finished
    BY <2>1
  <2>3. QED
    BY <1>1, <2>1, <2>2 DEF LifeRec, Life!IsFinished
<1>4. CASE /\ x = [l EXCEPT !.state = Life!Closed, !.finished = (l.state = Life!NotValidated)]
           /\ l.state # Life!Closed
  <2>1. ~l.finished
    BY <1>4
  <2>2. PICK b \in BOOLEAN : b <=> l.state = Life!NotValidated
    OBVIOUS
  <2>3. x = [state |-> 4, pending |-> l.pending, finished |-> b]
    <3>1. LifeRec = [state : 0..4, pending : SUBSET Reqs, finished : BOOLEAN]
      BY DEF LifeRec
    <3>2. QED
      BY <1>4, <2>2, <3>1
  <2>4. x.state = 4 /\ x.pending = l.pending /\ x.finished = b /\ x \in LifeRec
    BY <1>1, <2>3 DEF LifeRec
  <2>5. QED
    BY <2>1, <2>2, <2>4 DEF Life!IsFinished
<1>5. QED
  BY <1>1, <1>2, <1>3, <1>4 DEF Life!Activated, Life!Held, Life!Destroyed, Life!Aborted

\* One connection changes, and keeps what is said of it.
LEMMA LifeChange ==
    ASSUME LifeInv, life \in [Conns -> LifeRec], NEW c \in Conns, NEW x \in LifeRec,
           life' = [life EXCEPT ![c] = x], UNCHANGED accepting,
           x.finished => x.state = Life!Closed,
           Life!IsFinished(life[c]) => Life!IsFinished(x),
           accepting[c] \in {"none", "validate"} =>
              x.pending = {} /\ (x.state = Life!NotValidated \/ x.finished)
    PROVE  /\ LifeInv' /\ life' \in [Conns -> LifeRec]
           /\ \A d \in Conns : Life!IsFinished(life[d]) => Life!IsFinished(life'[d])
<1>1. life'[c] = x /\ \A d \in Conns \ {c} : life'[d] = life[d]
  OBVIOUS
<1>2. \A d \in Conns : Life!IsFinished(life[d]) => Life!IsFinished(life'[d])
  BY <1>1
<1>3. ASSUME NEW d \in Conns
      PROVE  /\ life'[d].finished => life'[d].state = Life!Closed
             /\ accepting'[d] \in {"none", "validate"} =>
                   /\ life'[d].pending = {}
                   /\ life'[d].state = Life!NotValidated \/ life'[d].finished
             /\ accepting'[d] = "failed" => Life!IsFinished(life'[d])
  BY <1>1, <1>2 DEF LifeInv
<1>4. LifeInv'
  BY <1>3 DEF LifeInv, Life!IsFinished, Life!Closed, Life!NotValidated
<1>5. QED
  BY <1>2, <1>4

\* The threads stay where they are, and one connection changes.
LEMMA OnlyLife ==
    ASSUME IInv, NEW c \in Conns, NEW x \in LifeRec,
           life' = [life EXCEPT ![c] = x],
           UNCHANGED <<instance, oaf, adapter, factory, locks, pool, accepting, calls>>,
           th' \in [Threads -> ThreadRec],
           \A s \in Threads : /\ th'[s].at = th[s].at /\ th'[s].want = th[s].want
                              /\ th'[s].then = th[s].then
                              /\ th[s].at \in Ending => th'[s] = th[s],
           x.finished => x.state = Life!Closed,
           Life!IsFinished(life[c]) => Life!IsFinished(x),
           accepting[c] \in {"none", "validate"} =>
              x.pending = {} /\ (x.state = Life!NotValidated \/ x.finished)
    PROVE  IInv'
<1> USE DEF IInv
<1>1. /\ LifeInv' /\ life' \in [Conns -> LifeRec]
      /\ \A d \in Conns : Life!IsFinished(life[d]) => Life!IsFinished(life'[d])
  BY LifeChange, TypedState DEF OtherTypes
<1>2. /\ StaysIn({"each"}) /\ StaysIn(Locked) /\ StaysIn(Ending \cup {"directCall"})
      /\ StaysIn(Late \cup Users) /\ SameIn(Ending)
  BY DEF StaysIn, SameIn
<1>3. LockInv' /\ EnderInv' /\ EndInv' /\ AcceptorInv'
  BY <1>2, LockFrame, EnderFrame, EndFrame, AcceptorFrame DEF locks
<1>4. KnownInv'
  BY <1>1, <1>2, KnownGrows
<1>5. StackInv'
  BY DEF StackInv, Stack
<1>6. TypeOK'
  <2>1. ThreadTypes'
    BY TypedState DEF ThreadTypes, locks, InstanceRec, OafRec, AdapterRec
  <2>2. OtherTypes'
    BY <1>1, TypedState DEF OtherTypes, pool, FactoryRec, LifeRec, Active, Holding,
       Closed, Life!NotValidated, Life!Closed
  <2>3. QED
    BY <2>1, <2>2, Types
<1>7. QED
  BY <1>1, <1>3, <1>4, <1>5, <1>6

\* A thread goes on to the next of its connections.
LEMMA TodoMoves ==
    ASSUME TypeOK, NEW t \in Threads, th[t].todo # <<>>, th' = [th EXCEPT ![t].todo = Tail(@)]
    PROVE  /\ Head(th[t].todo) \in Conns /\ Moves(t, th[t].at)
           /\ Range(th[t].todo) = {Head(th[t].todo)} \cup Range(th'[t].todo)
           /\ th'[t].want = th[t].want /\ th'[t].then = th[t].then
<1>1. th \in [Threads -> ThreadRec]
  BY DEF TypeOK, ThreadRec
<1>2. PICK todo \in Seq(Conns) : todo = th[t].todo
  BY <1>1 DEF ThreadRec
<1>3. /\ Head(todo) \in Conns /\ Tail(todo) \in Seq(Conns) /\ Head(todo) = todo[1]
      /\ Len(todo) \in Nat /\ Len(todo) > 0 /\ Len(Tail(todo)) = Len(todo) - 1
      /\ \A i \in 1..Len(Tail(todo)) : Tail(todo)[i] = todo[i + 1]
      /\ DOMAIN todo = 1..Len(todo) /\ DOMAIN Tail(todo) = 1..Len(Tail(todo))
  BY <1>2
<1>4. PICK rest \in Seq(Conns) : rest = Tail(todo)
  BY <1>3
<1>5. /\ Moves(t, th[t].at) /\ th'[t].todo = Tail(todo)
      /\ th'[t].want = th[t].want /\ th'[t].then = th[t].then
  <2>1. th' = [th EXCEPT ![t].todo = rest]
    BY <1>2, <1>4
  <2>2. PICK r \in ThreadRec : r = [th[t] EXCEPT !.todo = rest]
    <3>1. [th[t] EXCEPT !.todo = rest] \in ThreadRec
      BY <1>1 DEF ThreadRec
    <3>2. QED
      BY <3>1, Zenon
  <2>3. /\ r.at = th[t].at /\ r.todo = rest /\ r.want = th[t].want
        /\ r.then = th[t].then
    BY <1>1, <2>2 DEF ThreadRec
  <2>4. th' = [th EXCEPT ![t] = r]
    BY <2>1, <2>2
  <2>5. /\ th' \in [Threads -> ThreadRec] /\ th'[t] = r
        /\ \A s \in Threads \ {t} : th'[s] = th[s]
    BY <1>1, <2>4
  <2>6. Moves(t, th[t].at)
    BY <2>3, <2>5 DEF Moves
  <2>7. QED
    BY <1>4, <2>3, <2>5, <2>6
<1>6. Range(todo) = {Head(todo)} \cup Range(Tail(todo))
  <2>1. Range(todo) \subseteq {Head(todo)} \cup Range(Tail(todo))
    <3>1. SUFFICES ASSUME NEW i \in 1..Len(todo)
                   PROVE  todo[i] \in {Head(todo)} \cup Range(Tail(todo))
      BY <1>3 DEF Range
    <3>2. CASE i = 1
      BY <1>3, <3>2
    <3>3. CASE i # 1
      <4>1. i - 1 \in 1..Len(Tail(todo)) /\ Tail(todo)[i - 1] = todo[i]
        BY <1>3, <3>3
      <4>2. QED
        BY <1>3, <4>1 DEF Range
    <3>4. QED
      BY <3>2, <3>3
  <2>2. {Head(todo)} \cup Range(Tail(todo)) \subseteq Range(todo)
    <3>1. 1 \in 1..Len(todo) /\ \A i \in 1..Len(Tail(todo)) : i + 1 \in 1..Len(todo)
      BY <1>3
    <3>2. QED
      BY <1>3, <3>1 DEF Range
  <2>3. QED
    BY <2>1, <2>2
<1>7. QED
  BY <1>2, <1>3, <1>5, <1>6

LEMMA ForEachKeeps ==
    ASSUME IInv, NEW t \in Threads, ForEach(t)
    PROVE  IInv'
<1> USE DEF IInv
<1>1. /\ th[t].at = "each" /\ th[t].want \in {Active, Holding, Closed}
      /\ th' = [th EXCEPT ![t].todo = Tail(@)] /\ th[t].todo # <<>>
  BY DEF ForEach, At, LockInv
<1>2. /\ Head(th[t].todo) \in Conns /\ Moves(t, th[t].at)
      /\ th'[t].want = th[t].want /\ th'[t].then = th[t].then
  BY <1>1, TodoMoves
<1>3. PICK c \in Conns : c = Head(th[t].todo)
  BY <1>2
<1>4. life \in [Conns -> LifeRec]
  BY TypedState DEF OtherTypes
<1>5. PICK l \in LifeRec : l = life[c]
  BY <1>4
<1>6. PICK x \in {Life!Activated(l), Life!Held(l), Life!Destroyed(l), Life!Aborted(l)} :
         life' = [life EXCEPT ![c] = x]
  <2>1. CASE th[t].want = Active
    <3>1. life' = [life EXCEPT ![c] = Life!Activated(l)]
      BY <1>3, <1>5, <2>1 DEF ForEach, Active, Holding, Closed
    <3>2. QED
      BY <3>1
  <2>2. CASE th[t].want = Holding
    <3>1. life' = [life EXCEPT ![c] = Life!Held(l)]
      BY <1>3, <1>5, <2>2 DEF ForEach, Active, Holding, Closed
    <3>2. QED
      BY <3>1
  <2>3. CASE th[t].want = Closed
    <3>1. life' = [life EXCEPT ![c] = Life!Destroyed(l)]
      BY <1>3, <1>5, <2>3 DEF ForEach, Active, Holding, Closed
    <3>2. QED
      BY <3>1
  <2>4. QED
    BY <1>1, <2>1, <2>2, <2>3
<1>7. /\ l.finished => l.state = Life!Closed
      /\ accepting[c] \in {"none", "validate"} =>
            l.pending = {} /\ (l.state = Life!NotValidated \/ l.finished)
  BY <1>5 DEF LifeInv
<1>8. /\ x \in LifeRec /\ x.pending = l.pending
      /\ x.finished => x.state = Life!Closed
      /\ Life!IsFinished(l) => Life!IsFinished(x)
      /\ l.state = Life!NotValidated \/ l.finished => x.state = Life!NotValidated \/ x.finished
  BY <1>6, <1>7, LifeOperations
<1>9. /\ th' \in [Threads -> ThreadRec]
      /\ \A s \in Threads : /\ th'[s].at = th[s].at /\ th'[s].want = th[s].want
                            /\ th'[s].then = th[s].then
                            /\ th[s].at \in Ending => th'[s] = th[s]
  BY <1>1, <1>2 DEF Moves, Ending
<1>10. /\ Life!IsFinished(life[c]) => Life!IsFinished(x)
       /\ accepting[c] \in {"none", "validate"} =>
             x.pending = {} /\ (x.state = Life!NotValidated \/ x.finished)
  BY <1>5, <1>7, <1>8
<1>11. UNCHANGED <<instance, oaf, adapter, factory, locks, pool, accepting, calls>>
  BY DEF ForEach
<1>12. QED
  BY <1>6, <1>8, <1>9, <1>10, <1>11, OnlyLife

LEMMA CloseTimesOutKeeps ==
    ASSUME IInv, NEW t \in Threads, CloseTimesOut(t)
    PROVE  IInv'
<1> USE DEF IInv
<1>1. th[t].todo # <<>> /\ th \in [Threads -> ThreadRec] /\ life \in [Conns -> LifeRec]
  BY TypedState DEF CloseTimesOut, ThreadTypes, OtherTypes
<1>2. Head(th[t].todo) \in Conns
  <2>1. th[t].todo \in Seq(Conns)
    BY <1>1 DEF ThreadRec
  <2>2. QED
    BY <1>1, <2>1
<1>3. PICK c \in Conns : c = Head(th[t].todo)
  BY <1>2
<1>4. PICK l \in LifeRec : l = life[c]
  BY <1>1
<1>5. PICK x \in {Life!Activated(l), Life!Held(l), Life!Destroyed(l), Life!Aborted(l)} :
         life' = [life EXCEPT ![c] = x]
  BY <1>3, <1>4 DEF CloseTimesOut
<1>6. /\ l.finished => l.state = Life!Closed
      /\ accepting[c] \in {"none", "validate"} =>
            l.pending = {} /\ (l.state = Life!NotValidated \/ l.finished)
  BY <1>4 DEF LifeInv
<1>7. /\ x \in LifeRec /\ x.pending = l.pending
      /\ x.finished => x.state = Life!Closed
      /\ Life!IsFinished(l) => Life!IsFinished(x)
      /\ l.state = Life!NotValidated \/ l.finished => x.state = Life!NotValidated \/ x.finished
  BY <1>5, <1>6, LifeOperations
<1>8. QED
  BY <1>1, <1>4, <1>5, <1>6, <1>7, OnlyLife DEF CloseTimesOut

-----------------------------------------------------------------------------
(* Waiting for the factory and its connections.                            *)

LEMMA FactoryHoldsKeeps ==
    ASSUME IInv, NEW t \in Threads, FactoryHolds(t)
    PROVE  IInv'
<1> USE DEF IInv
<1>1. /\ th[t].at = "untilHolding" /\ th[t].then \in Stack("untilHolding")
      /\ factory.connections \in Seq(Conns)
      /\ th' = [th EXCEPT ![t].at = "connHolding", ![t].todo = factory.connections]
  BY TypedState DEF FactoryHolds, At, StackInv, OtherTypes, FactoryRec
<1>2. adapter.instance /\ alock = t
  BY <1>1 DEF EndInv, ReleasedIsQuiet, LockInv
<1>3. /\ Moves(t, "connHolding") /\ th'[t].then = th[t].then /\ th'[t].at = "connHolding"
  <2>1. th \in [Threads -> ThreadRec] /\ "connHolding" \in Labels
    BY TypedState DEF ThreadTypes, Labels
  <2>2. QED
    BY <1>1, <2>1 DEF Moves, ThreadRec
<1>4. TypeOK'
  <2>1. ThreadTypes'
    BY <1>3, TypedState DEF FactoryHolds, locks, ThreadTypes, Moves, InstanceRec, OafRec, AdapterRec
  <2>2. QED
    BY <2>1, TypedState, ThreadsOnly DEF FactoryHolds
<1>5. /\ StaysIn({"each"}) /\ StaysIn({"factory", "each"}) /\ StaysIn(Ending \cup {"directCall"})
      /\ SameIn(Ending) /\ th'[t].then \in Stack("connHolding")
  BY <1>1, <1>3, NotThere DEF Ending, Stack
<1>6. StackInv' /\ EnderInv' /\ LifeInv' /\ KnownInv' /\ AcceptorInv'
  BY <1>3, <1>5, StackFrame, EnderFrame, LifeFrame, KnownFrame, AcceptorFrame
  DEF FactoryHolds, locks
<1>7. EndInv'
  BY <1>2, <1>3, EndMove DEF FactoryHolds, Late
<1>8. LockInv'
  <2>1. UNCHANGED <<alock, flock, factory, adapter>>
    BY DEF FactoryHolds, locks
  <2>2. \A s \in Threads : th'[s].at \in {"untilHolding", "connHolding"} => alock' = s
    BY <1>2, <1>3, <2>1 DEF LockInv, Moves
  <2>3. QED
    BY <1>5, <2>1, <2>2 DEF LockInv, StaysIn, At, Active, Holding, Closed
<1>9. QED
  BY <1>4, <1>6, <1>7, <1>8

LEMMA ConnectionHoldsKeeps ==
    ASSUME IInv, NEW t \in Threads, ConnectionHolds(t)
    PROVE  IInv'
<1> USE DEF IInv
<1>1. /\ th[t].at = "connHolding" /\ th[t].then \in Stack("connHolding")
      /\ th' = [th EXCEPT ![t].todo = Tail(@)] /\ th[t].todo # <<>>
  BY DEF ConnectionHolds, At, StackInv
<1>2. Moves(t, th[t].at) /\ th'[t].want = th[t].want /\ th'[t].then = th[t].then
  BY <1>1, TodoMoves
<1>3. TypeOK'
  <2>1. ThreadTypes'
    BY <1>2, TypedState DEF ConnectionHolds, locks, ThreadTypes, Moves, InstanceRec, OafRec, AdapterRec
  <2>2. QED
    BY <2>1, TypedState, ThreadsOnly DEF ConnectionHolds
<1>4. /\ StaysIn({"each"}) /\ StaysIn(Locked) /\ StaysIn(Ending \cup {"directCall"})
      /\ StaysIn(Late \cup Users)
  BY <1>2, StaysThere
<1>5. th'[t].at = th[t].at /\ SameIn(Ending) /\ th'[t].then \in Stack(th'[t].at)
  <2>1. th'[t].at = th[t].at
    BY <1>2 DEF Moves
  <2>2. QED
    BY <1>1, <1>2, <2>1, NotThere DEF Ending
<1>6. StackInv' /\ EnderInv' /\ LifeInv' /\ KnownInv' /\ AcceptorInv' /\ LockInv' /\ EndInv'
  BY <1>2, <1>4, <1>5, StackFrame, EnderFrame, LifeFrame, KnownFrame, AcceptorFrame, LockFrame,
     EndFrame
  DEF ConnectionHolds, locks
<1>7. QED
  BY <1>3, <1>6

\* The thread that ends the adapter, until it comes to the servants.
LEMMA TheEnder ==
    ASSUME IInv, NEW t \in Threads, th[t].at \in {"untilFinished", "connFinished", "servants"}
    PROVE  /\ t \in Enders /\ \A s \in Threads : th[s].at \in Ending => s = t
           /\ adapter.instance
           /\ th[t].at \in {"connFinished", "servants"} =>
                 factory.state = Closed /\ ~factory.acceptor /\ factory.connections = <<>>
<1> USE DEF IInv
<1>1. t \in Enders /\ Enders = {s \in Threads : th[s].at \in Ending}
  BY DEF Enders, Ending
<1>2. \A s \in Threads : th[s].at \in Ending => s = t
  BY <1>1 DEF EnderInv
<1>3. adapter.instance
  BY <1>1 DEF EnderInv, At
<1>4. QED
  BY <1>1, <1>2, <1>3 DEF KnownInv, At

LEMMA FactoryFinishesKeeps ==
    ASSUME IInv, NEW t \in Threads, FactoryFinishes(t)
    PROVE  IInv'
<1> USE DEF IInv
<1>1. /\ th[t].at = "untilFinished" /\ th[t].then \in Stack("untilFinished")
      /\ factory.state = Closed /\ ~factory.acceptor
      /\ factory' = [factory EXCEPT !.connections = <<>>]
      /\ th' = [th EXCEPT ![t].at = "connFinished", ![t].todo = factory.connections]
  BY DEF FactoryFinishes, At, StackInv
<1>2. t \in Enders /\ adapter.instance /\ \A s \in Threads : th[s].at \in Ending => s = t
  BY <1>1, TheEnder
<1>3. factory \in FactoryRec /\ factory.connections \in Seq(Conns)
  BY TypedState DEF OtherTypes, FactoryRec
<1>4. /\ factory' \in FactoryRec /\ factory'.connections = <<>>
      /\ UNCHANGED <<factory.state, factory.acceptor, factory.registered, factory.finishedCount>>
  <2>1. PICK e \in Seq(Conns) : e = <<>>
    <3>1. <<>> \in Seq(Conns)
      OBVIOUS
    <3>2. QED
      BY <3>1, Zenon
  <2>2. factory' = [factory EXCEPT !.connections = e]
    BY <1>1, <2>1
  <2>3. QED
    BY <1>3, <2>1, <2>2 DEF FactoryRec
<1>5. /\ Moves(t, "connFinished") /\ th'[t].then = th[t].then /\ th'[t].at = "connFinished"
      /\ th'[t].todo = factory.connections
  <2>1. th \in [Threads -> ThreadRec] /\ "connFinished" \in Labels
    BY TypedState DEF ThreadTypes, Labels
  <2>2. QED
    BY <1>1, <1>3, <2>1 DEF Moves, ThreadRec
<1>6. TypeOK'
  <2>1. ThreadTypes'
    BY <1>5, TypedState DEF FactoryFinishes, locks, ThreadTypes, Moves, InstanceRec, OafRec, AdapterRec
  <2>2. OtherTypes'
    BY <1>4, TypedState DEF FactoryFinishes, OtherTypes, pool, FactoryRec, LifeRec, Active, Holding,
       Closed, Life!NotValidated, Life!Closed
  <2>3. QED
    BY <2>1, <2>2, Types
<1>7. StaysIn({"each"}) /\ StaysIn(Locked) /\ th'[t].then \in Stack("connFinished")
  BY <1>1, <1>5, NotThere DEF Locked, Stack
<1>8. StackInv' /\ LifeInv' /\ LockInv' /\ AcceptorInv'
  BY <1>4, <1>5, <1>7, StackFrame, LifeFrame, LockFrame, AcceptorFrame
  DEF FactoryFinishes, locks
<1>9. EnderInv'
  BY <1>1, <1>2, <1>5, EnderMove DEF FactoryFinishes, Ending
<1>10. EndInv'
  <2>1. ReleasedIsQuiet'
    BY <1>2 DEF FactoryFinishes, ReleasedIsQuiet
  <2>2. QED
    BY <1>2, <1>4, <1>5, <2>1 DEF EndInv, FactoryFinishes, Moves
<1>11. KnownInv'
  <2>1. Accepted' = Accepted /\ ServantsOutliveRequests'
    BY DEF FactoryFinishes, Accepted, KnownInv, ServantsOutliveRequests, Life!IsFinished
  <2>2. ASSUME NEW c \in Accepted'
        PROVE  \/ Life!IsFinished(life'[c])
               \/ th'[t].at = "connFinished" /\ c \in Range(th'[t].todo)
    BY <1>1, <1>2, <1>5, <2>1 DEF KnownInv, At, FactoryFinishes, Ending
  <2>3. \A s \in Enders' : At(s, "connFinished")'
    BY <1>2, <1>5 DEF Enders, Ending, Moves, At
  <2>4. factory'.state = Closed /\ ~factory'.acceptor /\ factory'.connections = <<>>
    BY <1>1, <1>4
  <2>5. ASSUME NEW s \in Enders'
        PROVE  (At(s, "untilFinished") \/ ~adapter.instance \/
                  /\ factory.state = Closed /\ ~factory.acceptor /\ factory.connections = <<>>
                  /\ At(s, "connFinished") \/ AllAreFinished
                  /\ At(s, "release") => ~adapter.servants)'
    BY <2>3, <2>4 DEF Closed, At
  <2>6. \A c \in Accepted' :
           \/ Life!IsFinished(life'[c])
           \/ c \in Range(factory'.connections)
           \/ \E s \in Threads : th'[s].at = "connFinished" /\ c \in Range(th'[s].todo)
    BY <2>2
  <2>7. QED
    BY <2>1, <2>5, <2>6 DEF KnownInv, At, Life!IsFinished, Range
<1>12. QED
  BY <1>6, <1>8, <1>9, <1>10, <1>11

LEMMA ConnectionFinishesKeeps ==
    ASSUME IInv, NEW t \in Threads, ConnectionFinishes(t)
    PROVE  IInv'
<1> USE DEF IInv
<1>1. /\ th[t].at = "connFinished" /\ th[t].then \in Stack("connFinished")
      /\ th' = [th EXCEPT ![t].todo = Tail(@)] /\ th[t].todo # <<>>
  BY DEF ConnectionFinishes, At, StackInv
<1>2. /\ Moves(t, th[t].at) /\ th'[t].want = th[t].want /\ th'[t].then = th[t].then
      /\ Range(th[t].todo) = {Head(th[t].todo)} \cup Range(th'[t].todo)
  BY <1>1, TodoMoves
<1>3. /\ adapter.instance /\ \A s \in Threads : th[s].at \in Ending => s = t
      /\ factory.state = Closed /\ ~factory.acceptor /\ factory.connections = <<>>
  BY <1>1, TheEnder
<1>4. TypeOK'
  <2>1. ThreadTypes'
    BY <1>2, TypedState DEF ConnectionFinishes, locks, ThreadTypes, Moves, InstanceRec, OafRec, AdapterRec
  <2>2. QED
    BY <2>1, TypedState, ThreadsOnly DEF ConnectionFinishes
<1>5. /\ StaysIn({"each"}) /\ StaysIn(Locked) /\ StaysIn(Ending \cup {"directCall"})
      /\ StaysIn(Late \cup Users)
  BY <1>2, StaysThere
<1>6. th'[t].at = "connFinished" /\ th'[t].then \in Stack(th'[t].at) /\ th'[t].at = th[t].at
  BY <1>1, <1>2 DEF Moves
<1>7. StackInv' /\ EnderInv' /\ LifeInv' /\ AcceptorInv' /\ LockInv' /\ EndInv'
  BY <1>2, <1>5, <1>6, StackFrame, EnderFrame, LifeFrame, AcceptorFrame, LockFrame, EndFrame
  DEF ConnectionFinishes, locks
<1>8. KnownInv'
  <2>1. Accepted' = Accepted /\ ServantsOutliveRequests'
    BY DEF ConnectionFinishes, Accepted, KnownInv, ServantsOutliveRequests, Life!IsFinished
  <2>2. ASSUME NEW c \in Accepted'
        PROVE  \/ Life!IsFinished(life'[c])
               \/ c \in Range(factory'.connections)
               \/ \E s \in Threads : th'[s].at = "connFinished" /\ c \in Range(th'[s].todo)
    <3>1. \/ Life!IsFinished(life[c]) \/ c \in Range(factory.connections)
          \/ c \in Range(th[t].todo)
      BY <1>3, <2>1 DEF KnownInv, At, Ending
    <3>2. Life!IsFinished(life[Head(th[t].todo)]) /\ UNCHANGED <<life, factory>>
      BY DEF ConnectionFinishes
    <3>3. QED
      BY <1>2, <1>6, <3>1, <3>2
  <2>3. \A s \in Enders' : At(s, "connFinished")'
    BY <1>2, <1>3, <1>6 DEF Enders, Ending, Moves, At
  <2>4. factory'.state = Closed /\ ~factory'.acceptor /\ factory'.connections = <<>>
    BY <1>3 DEF ConnectionFinishes
  <2>5. ASSUME NEW s \in Enders'
        PROVE  (At(s, "untilFinished") \/ ~adapter.instance \/
                  /\ factory.state = Closed /\ ~factory.acceptor /\ factory.connections = <<>>
                  /\ At(s, "connFinished") \/ AllAreFinished
                  /\ At(s, "release") => ~adapter.servants)'
    BY <2>3, <2>4 DEF Closed, At
  <2>6. QED
    BY <2>1, <2>2, <2>5 DEF KnownInv, At, Life!IsFinished, Range
<1>9. QED
  BY <1>4, <1>7, <1>8

\* Every connection the factory has accepted is finished by now.
LEMMA AllFinishedKeeps ==
    ASSUME IInv, NEW t \in Threads, AllFinished(t)
    PROVE  IInv'
<1> USE DEF IInv
<1>1. /\ th[t].at = "connFinished" /\ th[t].then \in Stack("connFinished") /\ th[t].todo = <<>>
  BY DEF AllFinished, At, StackInv
<1>2. Moves(t, "servants") /\ th'[t].then = th[t].then /\ th'[t].at = "servants"
  BY GoMoves DEF AllFinished, Labels, Moves
<1>3. /\ adapter.instance /\ \A s \in Threads : th[s].at \in Ending => s = t
      /\ factory.state = Closed /\ ~factory.acceptor /\ factory.connections = <<>>
  BY <1>1, TheEnder
<1>4. TypeOK'
  <2>1. ThreadTypes'
    BY <1>2, TypedState DEF AllFinished, locks, ThreadTypes, Moves, InstanceRec, OafRec, AdapterRec
  <2>2. QED
    BY <2>1, TypedState, ThreadsOnly DEF AllFinished
<1>5. StaysIn({"each"}) /\ StaysIn(Locked) /\ th'[t].then \in Stack("servants")
  BY <1>1, <1>2, NotThere DEF Locked, Stack
<1>6. StackInv' /\ LifeInv' /\ LockInv' /\ AcceptorInv'
  BY <1>2, <1>5, StackFrame, LifeFrame, LockFrame, AcceptorFrame DEF AllFinished, locks
<1>7. EnderInv'
  BY <1>1, <1>2, <1>3, EnderMove DEF AllFinished, Ending
<1>8. EndInv'
  BY <1>2, <1>3, EndMove DEF AllFinished, Late
<1>9. AllAreFinished
  <2>1. Range(<<>>) = {}
    BY DEF Range
  <2>2. QED
    BY <1>1, <1>3, <2>1 DEF AllAreFinished, KnownInv, At, Ending
<1>10. KnownInv'
  <2>1. Accepted' = Accepted /\ ServantsOutliveRequests'
    BY DEF AllFinished, Accepted, KnownInv, ServantsOutliveRequests, Life!IsFinished
  <2>2. AllAreFinished' /\ \A c \in Accepted' : Life!IsFinished(life'[c])
    BY <1>9, <2>1 DEF AllAreFinished, AllFinished, Life!IsFinished
  <2>3. \A s \in Enders' : At(s, "servants")'
    BY <1>2, <1>3 DEF Enders, Ending, Moves, At
  <2>4. factory'.state = Closed /\ ~factory'.acceptor /\ factory'.connections = <<>>
    BY <1>3 DEF AllFinished
  <2>5. ASSUME NEW s \in Enders'
        PROVE  (At(s, "untilFinished") \/ ~adapter.instance \/
                  /\ factory.state = Closed /\ ~factory.acceptor /\ factory.connections = <<>>
                  /\ At(s, "connFinished") \/ AllAreFinished
                  /\ At(s, "release") => ~adapter.servants)'
    BY <2>2, <2>3, <2>4 DEF Closed, At
  <2>6. QED
    BY <2>1, <2>2, <2>5 DEF KnownInv, Life!IsFinished
<1>11. QED
  BY <1>4, <1>6, <1>7, <1>8, <1>10

-----------------------------------------------------------------------------
(* The pool and the connections it accepts.                                *)

\* Nobody moves; connections may finish, and finished ones may be forgotten.
LEMMA Background ==
    ASSUME IInv, OtherTypes', AcceptorInv', LifeInv',
           UNCHANGED <<instance, oaf, adapter, locks, th, calls>>,
           UNCHANGED <<factory.state, factory.acceptor>>,
           \A c \in Conns : Life!IsFinished(life[c]) => Life!IsFinished(life'[c]),
           \A c \in Conns : accepting'[c] # "none" => accepting[c] # "none",
           \A c \in Range(factory.connections) :
              c \in Range(factory'.connections) \/ Life!IsFinished(life'[c]),
           factory.connections = <<>> => factory'.connections = <<>>
    PROVE  IInv'
<1> USE DEF IInv
<1>1. /\ StaysIn(Locked) /\ StaysIn(Ending \cup {"directCall"})
      /\ StaysIn(Late \cup Users) /\ SameIn(Ending)
  BY DEF StaysIn, SameIn
<1>2. LockInv' /\ EnderInv' /\ EndInv'
  BY <1>1, LockFrame, EnderFrame, EndFrame
<1>3. KnownInv'
  BY <1>1, KnownGrows
<1>4. StackInv' /\ TypeOK'
  BY OthersOnly DEF StackInv
<1>5. QED
  BY <1>2, <1>3, <1>4

\* Nothing of the factory changes but its counters.
LEMMA PoolStep ==
    ASSUME IInv, OtherTypes', AcceptorInv',
           UNCHANGED <<instance, oaf, adapter, factory, locks, accepting, life, th, calls>>
    PROVE  IInv'
<1>1. LifeInv'
  BY LifeFrame DEF IInv
<1>2. QED
  BY <1>1, Background

\* The first of the changes, and what is left of them.
LEMMA FirstChange ==
    ASSUME NEW S, NEW s \in Seq(S), s # <<>>
    PROVE  /\ Head(s) \in S /\ Tail(s) \in Seq(S)
           /\ Tail(s) = <<>> => s[Len(s)] = Head(s)
           /\ Tail(s) # <<>> => s[Len(s)] = Tail(s)[Len(Tail(s))]
<1>1. /\ Tail(s) \in Seq(S) /\ Head(s) = s[1] /\ Head(s) \in S
      /\ Len(s) \in Nat /\ Len(s) > 0 /\ Len(Tail(s)) = Len(s) - 1
      /\ \A i \in 1..Len(Tail(s)) : Tail(s)[i] = s[i + 1]
  OBVIOUS
<1>2. PICK u : u = Tail(s)
  OBVIOUS
<1>3. PICK n : n = Len(s)
  OBVIOUS
<1>4. /\ u \in Seq(S) /\ n \in Nat /\ n > 0 /\ Len(u) = n - 1
      /\ \A i \in 1..Len(u) : u[i] = s[i + 1]
  BY <1>1, <1>2, <1>3
<1>5. CASE u = <<>>
  <2>1. n = 1
    BY <1>4, <1>5
  <2>2. QED
    BY <1>1, <1>2, <1>3, <1>5, <2>1
<1>6. CASE u # <<>>
  <2>1. Len(u) \in 1..Len(u) /\ Len(u) + 1 = n
    BY <1>4, <1>6
  <2>2. u[Len(u)] = s[n]
    BY <1>4, <2>1
  <2>3. QED
    BY <1>1, <1>2, <1>3, <1>6, <2>2
<1>7. QED
  BY <1>5, <1>6

LEMMA PoolChangesKeeps ==
    ASSUME IInv, PoolChanges
    PROVE  IInv'
<1> USE DEF IInv
<1>1. /\ changes \in Seq({"add", "remove"}) /\ changes # <<>> /\ ~picked /\ finishing \in Nat
      /\ changes' = Tail(changes) /\ UNCHANGED factory
  BY TypedState DEF PoolChanges, OtherTypes
<1>2. /\ Head(changes) \in {"add", "remove"} /\ Tail(changes) \in Seq({"add", "remove"})
      /\ Tail(changes) = <<>> => changes[Len(changes)] = Head(changes)
      /\ Tail(changes) # <<>> => changes[Len(changes)] = Tail(changes)[Len(Tail(changes))]
  BY <1>1, FirstChange
<1>3. PICK n \in {0, 1} : n = IF Head(changes) = "remove" THEN 1 ELSE 0
  OBVIOUS
<1>4. finishing' = finishing + n /\ (inPool' <=> Head(changes) = "add") /\ inPool' \in BOOLEAN
  BY <1>3 DEF PoolChanges
<1>5. OtherTypes'
  <2>1. finishing' \in Nat
    BY <1>1, <1>4
  <2>2. QED
    BY <1>1, <1>2, <1>4, <2>1, TypedState
    DEF PoolChanges, OtherTypes, FactoryRec, LifeRec, Active, Holding, Closed,
        Life!NotValidated, Life!Closed
<1>6. AcceptorInv'
  <2>1. factory'.finishedCount = Cardinality(Pending') + finishing'
    <3>1. Cardinality(Pending) = Cardinality(Pending') + n
      BY <1>1, <1>3, PositionsTail DEF Pending
    <3>2. Cardinality(Pending) \in Nat /\ Cardinality(Pending') \in Nat
      BY <1>1, <1>2, PositionsFinite DEF Pending
    <3>3. factory.finishedCount = Cardinality(Pending) + finishing
      BY DEF AcceptorInv
    <3>4. QED
      BY <1>1, <1>4, <3>1, <3>2, <3>3
  <2>2. factory.registered <=> changes[Len(changes)] = "add"
    BY <1>1 DEF AcceptorInv, QueueEnds
  <2>3. QueueEnds'
    BY <1>1, <1>2, <1>4, <2>2 DEF QueueEnds
  <2>4. AcceptorOutlivesPool'
    BY <1>1 DEF AcceptorInv, AcceptorOutlivesPool, OutOfPool
  <2>5. UNCHANGED <<flock, th, picked>>
    BY DEF PoolChanges, locks
  <2>6. QED
    BY <1>1, <2>1, <2>3, <2>4, <2>5 DEF AcceptorInv, At, Active
<1>7. QED
  BY <1>5, <1>6, PoolStep DEF PoolChanges

LEMMA PoolPicksKeeps ==
    ASSUME IInv, PoolPicks
    PROVE  IInv'
<1> USE DEF IInv
<1>1. /\ picked' = TRUE /\ inPool /\ ~picked
      /\ UNCHANGED <<changes, inPool, finishing, factory, flock, th>>
  BY DEF PoolPicks, locks
<1>2. OtherTypes'
  BY <1>1, TypedState
  DEF PoolPicks, OtherTypes, FactoryRec, LifeRec, Active, Holding, Closed,
      Life!NotValidated, Life!Closed
<1>3. AcceptorInv'
  <2>1. Pending' = Pending /\ (QueueEnds' <=> QueueEnds)
    BY <1>1 DEF Pending, Positions, QueueEnds
  <2>2. AcceptorOutlivesPool'
    BY <1>1 DEF AcceptorInv, AcceptorOutlivesPool, OutOfPool
  <2>3. QED
    BY <1>1, <2>1, <2>2 DEF AcceptorInv, At, Active
<1>4. QED
  BY <1>2, <1>3, PoolStep DEF PoolPicks

\* finished(): the last one finds nothing of the acceptor in the pool.
LEMMA FinishedKeeps ==
    ASSUME IInv, Finished
    PROVE  IInv'
<1> USE DEF IInv
<1>1. /\ finishing \in Nat /\ finishing > 0 /\ finishing' = finishing - 1 /\ flock = None
      /\ factory \in FactoryRec /\ changes \in Seq({"add", "remove"})
      /\ UNCHANGED <<changes, inPool, picked, flock, th>>
  BY TypedState DEF Finished, OtherTypes, locks
<1>2. PICK k \in Nat : k = Cardinality(Pending)
  BY <1>1, PositionsFinite DEF Pending
<1>3. factory.finishedCount = k + finishing /\ factory.finishedCount \in Nat
  BY <1>1, <1>2 DEF AcceptorInv, FactoryRec
<1>4. factory.acceptor /\ adapter.instance /\ adapter.servants
  BY <1>1 DEF AcceptorInv, AcceptorOutlivesPool, OutOfPool, EndInv
<1>5. PICK b \in BOOLEAN : b <=> ~(factory.finishedCount = 1 /\ factory.state = Closed)
  OBVIOUS
<1>6. /\ factory' \in FactoryRec /\ factory'.finishedCount = factory.finishedCount - 1
      /\ factory'.acceptor = b
      /\ UNCHANGED <<factory.state, factory.registered, factory.connections>>
  <2>1. factory.finishedCount - 1 \in Nat
    BY <1>1, <1>3
  <2>2. PICK m \in Nat : m = factory.finishedCount - 1
    BY <2>1
  <2>3. factory' = [factory EXCEPT !.finishedCount = m, !.acceptor = factory.acceptor /\ b]
    BY <1>5, <2>2 DEF Finished
  <2>4. (factory.acceptor /\ b) \in BOOLEAN /\ ((factory.acceptor /\ b) <=> b)
    BY <1>4
  <2>5. factory' = [factory EXCEPT !.finishedCount = m, !.acceptor = b]
    BY <2>3, <2>4
  <2>6. QED
    BY <1>1, <2>2, <2>5 DEF FactoryRec
<1>7. OtherTypes'
  <2>1. finishing' \in Nat
    BY <1>1
  <2>2. QED
    BY <1>6, <2>1, TypedState
    DEF Finished, OtherTypes, FactoryRec, LifeRec, Active, Holding, Closed,
        Life!NotValidated, Life!Closed
<1>8. TypeOK'
  BY <1>7, OthersOnly DEF Finished
<1>9. ASSUME ~factory'.acceptor
      PROVE  factory'.state = Closed /\ OutOfPool'
  <2>1. factory.finishedCount = 1 /\ factory.state = Closed
    BY <1>5, <1>6, <1>9
  <2>2. k = 0 /\ finishing = 1 /\ finishing' = 0
    BY <1>1, <1>3, <2>1
  <2>3. ~factory.registered
    <3>1. factory.registered <=> factory.state = Active
      BY <1>1 DEF AcceptorInv
    <3>2. QED
      BY <2>1, <3>1 DEF Active, Closed
  <2>4. changes = <<>>
    <3>1. SUFFICES ASSUME changes # <<>> PROVE FALSE
      OBVIOUS
    <3>2. changes[Len(changes)] # "add"
      BY <2>3, <3>1 DEF AcceptorInv, QueueEnds
    <3>3. Len(changes) \in 1..Len(changes) /\ changes[Len(changes)] \in {"add", "remove"}
      BY <1>1, <3>1
    <3>4. Len(changes) \in Pending
      BY <3>2, <3>3 DEF Pending, Positions
    <3>5. IsFiniteSet(Pending)
      BY <1>1, PositionsFinite DEF Pending
    <3>6. QED
      BY <1>2, <2>2, <3>4, <3>5, FS_EmptySet
  <2>5. ~inPool /\ ~picked
    BY <2>3, <2>4 DEF AcceptorInv, QueueEnds
  <2>6. QED
    BY <1>1, <1>6, <2>1, <2>2, <2>4, <2>5 DEF OutOfPool
<1>10. AcceptorInv'
  <2>1. Pending' = Pending /\ (QueueEnds' <=> QueueEnds)
    BY <1>1, <1>6 DEF Pending, Positions, QueueEnds
  <2>2. factory'.finishedCount = Cardinality(Pending') + finishing'
    BY <1>1, <1>2, <1>3, <1>6, <2>1
  <2>3. AcceptorOutlivesPool'
    BY <1>9 DEF AcceptorOutlivesPool, Closed
  <2>4. QED
    BY <1>1, <1>6, <2>1, <2>2, <2>3 DEF AcceptorInv, At, Active
<1>11. UNCHANGED <<instance, oaf, adapter, locks, accepting, life, th>>
  BY DEF Finished
<1>12. StaysIn(Locked) /\ StaysIn(Ending \cup {"directCall"}) /\ SameIn(Ending)
  BY <1>11 DEF StaysIn, SameIn
<1>13. LockInv' /\ EnderInv' /\ LifeInv' /\ StackInv'
  BY <1>6, <1>11, <1>12, LockFrame, EnderFrame, LifeFrame DEF StackInv
<1>14. EndInv'
  <2>1. ReleasedIsQuiet'
    BY <1>4, <1>11 DEF ReleasedIsQuiet
  <2>2. QED
    BY <1>4, <1>11, <2>1 DEF EndInv
<1>15. KnownInv'
  <2>1. Enders' = Enders /\ Accepted' = Accepted /\ ServantsOutliveRequests'
    BY <1>4, <1>11 DEF Enders, Accepted, ServantsOutliveRequests
  <2>2. \A s \in Enders' : At(s, "untilFinished")'
    BY <1>4, <1>11, <2>1 DEF KnownInv, At
  <2>3. ASSUME NEW c \in Accepted'
        PROVE  \/ Life!IsFinished(life'[c])
               \/ c \in Range(factory'.connections)
               \/ \E s \in Threads : th'[s].at = "connFinished" /\ c \in Range(th'[s].todo)
    BY <1>6, <1>11, <2>1 DEF KnownInv, At
  <2>4. QED
    BY <2>1, <2>2, <2>3 DEF KnownInv, At, Life!IsFinished, Range
<1>16. QED
  BY <1>8, <1>10, <1>13, <1>14, <1>15

\* The factory may be accepting: it has not ended.
LEMMA PickedIsUp ==
    ASSUME IInv, picked
    PROVE  factory.acceptor /\ adapter.instance /\ adapter.servants
  BY DEF IInv, AcceptorInv, AcceptorOutlivesPool, OutOfPool, EndInv

\* A list without some of its elements is empty if it was.
LEMMA WithoutEmpty ==
    ASSUME NEW S, NEW s \in Seq(S), NEW gone
    PROVE  s = <<>> => Without(s, gone) = <<>>
<1>1. Without(s, gone) \in Seq(S) /\ Range(Without(s, gone)) \subseteq Range(s)
  BY WithoutRange
<1>2. PICK u \in Seq(S) : u = Without(s, gone)
  BY <1>1, Zenon
<1>3. Range(u) \subseteq Range(s)
  BY <1>1, <1>2
<1>4. ASSUME s = <<>>, u # <<>> PROVE FALSE
  <2>1. Range(s) = {}
    BY <1>4 DEF Range
  <2>2. 1 \in DOMAIN u
    BY <1>4
  <2>3. u[1] \in Range(u)
    BY <2>2 DEF Range
  <2>4. QED
    BY <1>3, <2>1, <2>3
<1>5. QED
  BY <1>2, <1>4

\* message() has been called, and returns without a new connection.
LEMMA MessageReaps ==
    ASSUME IInv, picked, picked' = FALSE,
           NEW left \in Seq(Conns), factory' = [factory EXCEPT !.connections = left],
           \A c \in Range(factory.connections) : c \in Range(left) \/ Life!IsFinished(life[c]),
           factory.connections = <<>> => left = <<>>,
           UNCHANGED <<instance, oaf, adapter, locks, changes, inPool, finishing, accepting, life,
                       th, calls>>
    PROVE  IInv'
<1> USE DEF IInv
<1>1. /\ factory' \in FactoryRec /\ factory'.connections = left
      /\ UNCHANGED <<factory.state, factory.acceptor, factory.registered, factory.finishedCount>>
  BY TypedState DEF OtherTypes, FactoryRec
<1>2. OtherTypes'
  BY <1>1, TypedState
  DEF OtherTypes, FactoryRec, LifeRec, Active, Holding, Closed, Life!NotValidated, Life!Closed
<1>3. AcceptorInv'
  <2>1. Pending' = Pending /\ (QueueEnds' <=> QueueEnds)
    BY <1>1 DEF Pending, Positions, QueueEnds
  <2>2. AcceptorOutlivesPool'
    BY <1>1, PickedIsUp DEF AcceptorOutlivesPool
  <2>3. UNCHANGED flock
    BY DEF locks
  <2>4. QED
    BY <1>1, <2>1, <2>2, <2>3 DEF AcceptorInv, At, Active
<1>4. LifeInv'
  BY LifeFrame
<1>5. QED
  BY <1>1, <1>2, <1>3, <1>4, Background

\* Or with one.
LEMMA MessageAccepts ==
    ASSUME IInv, picked, picked' = FALSE, factory.state = Active,
           NEW left \in Seq(Conns), NEW c \in Conns, accepting[c] = "none",
           factory' = [factory EXCEPT !.connections = Append(left, c)],
           accepting' = [accepting EXCEPT ![c] = "validate"],
           \A d \in Range(factory.connections) : d \in Range(left) \/ Life!IsFinished(life[d]),
           UNCHANGED <<instance, oaf, adapter, locks, changes, inPool, finishing, life, th, calls>>
    PROVE  IInv'
<1> USE DEF IInv
<1>1. PICK new \in Seq(Conns) : new = Append(left, c)
  <2>1. Append(left, c) \in Seq(Conns)
    OBVIOUS
  <2>2. QED
    BY <2>1, Zenon
<1>2. Range(new) = Range(left) \cup {c}
  <2>1. /\ DOMAIN left = 1..Len(left) /\ DOMAIN new = 1..(Len(left) + 1) /\ Len(left) \in Nat
        /\ \A j \in 1..Len(left) : new[j] = left[j]
        /\ new[Len(left) + 1] = c
    BY <1>1
  <2>2. QED
    BY <2>1 DEF Range
<1>3. /\ factory' \in FactoryRec /\ factory'.connections = new
      /\ UNCHANGED <<factory.state, factory.acceptor, factory.registered, factory.finishedCount>>
  <2>1. factory' = [factory EXCEPT !.connections = new]
    BY <1>1
  <2>2. QED
    BY <2>1, TypedState DEF OtherTypes, FactoryRec
<1>4. /\ accepting' \in [Conns -> {"none", "validate", "failed", "activate", "done"}]
      /\ accepting'[c] = "validate" /\ \A d \in Conns \ {c} : accepting'[d] = accepting[d]
  BY TypedState DEF OtherTypes
<1>5. TypeOK'
  <2>1. OtherTypes'
    BY <1>3, <1>4, TypedState
    DEF OtherTypes, FactoryRec, LifeRec, Active, Holding, Closed, Life!NotValidated, Life!Closed
  <2>2. QED
    BY <2>1, OthersOnly
<1>6. factory.acceptor /\ adapter.instance /\ adapter.servants /\ UNCHANGED flock
  BY PickedIsUp DEF locks
<1>7. AcceptorInv'
  <2>1. Pending' = Pending /\ (QueueEnds' <=> QueueEnds)
    BY <1>3 DEF Pending, Positions, QueueEnds
  <2>2. AcceptorOutlivesPool'
    BY <1>3, <1>6 DEF AcceptorOutlivesPool
  <2>3. QED
    BY <1>3, <1>6, <2>1, <2>2 DEF AcceptorInv, At, Active
<1>8. StaysIn(Locked) /\ StaysIn(Ending \cup {"directCall"})
  BY DEF StaysIn
<1>9. LockInv' /\ EnderInv' /\ StackInv'
  BY <1>3, <1>8, LockFrame, EnderFrame DEF StackInv
<1>10. EndInv'
  <2>1. ReleasedIsQuiet'
    BY <1>6 DEF ReleasedIsQuiet
  <2>2. QED
    BY <1>6, <2>1 DEF EndInv
<1>11. LifeInv'
  BY <1>4 DEF LifeInv, Life!IsFinished, Life!Closed, Life!NotValidated
<1>12. KnownInv'
  <2>1. Enders' = Enders /\ Accepted' = Accepted \cup {c} /\ ServantsOutliveRequests'
    BY <1>4, <1>6 DEF Enders, Accepted, ServantsOutliveRequests
  <2>2. \A s \in Enders' : At(s, "untilFinished")'
    BY <1>6, <2>1 DEF KnownInv, At
  <2>3. ASSUME NEW d \in Accepted'
        PROVE  \/ Life!IsFinished(life'[d])
               \/ d \in Range(factory'.connections)
               \/ \E s \in Threads : th'[s].at = "connFinished" /\ d \in Range(th'[s].todo)
    BY <1>2, <1>3, <2>1 DEF KnownInv, At
  <2>4. QED
    BY <2>1, <2>2, <2>3 DEF KnownInv, At, Life!IsFinished, Range
<1>13. QED
  BY <1>5, <1>7, <1>9, <1>10, <1>11, <1>12

LEMMA MessageKeeps ==
    ASSUME IInv, Message
    PROVE  IInv'
<1>1. /\ picked /\ picked' = FALSE
      /\ UNCHANGED <<instance, oaf, adapter, locks, changes, inPool, finishing, life, th, calls>>
  BY DEF Message
<1>2. factory \in FactoryRec /\ factory.connections \in Seq(Conns)
  BY TypedState DEF OtherTypes, FactoryRec
<1>3. CASE factory.state # Active /\ UNCHANGED <<factory, accepting>>
  <2>1. factory' = [factory EXCEPT !.connections = factory.connections]
    BY <1>2, <1>3 DEF FactoryRec
  <2>2. QED
    BY <1>1, <1>2, <1>3, <2>1, MessageReaps
<1>4. ASSUME factory.state = Active,
             NEW reaped \in SUBSET {c \in Conns : Life!IsFinished(life[c])},
             LET left == Without(factory.connections, reaped)
             IN  \/ /\ factory' = [factory EXCEPT !.connections = left]
                    /\ UNCHANGED accepting
                 \/ \E c \in Conns :
                     /\ accepting[c] = "none"
                     /\ accepting' = [accepting EXCEPT ![c] = "validate"]
                     /\ factory' = [factory EXCEPT !.connections = Append(left, c)]
      PROVE  IInv'
  <2>1. /\ Without(factory.connections, reaped) \in Seq(Conns)
        /\ Range(Without(factory.connections, reaped)) = Range(factory.connections) \ reaped
        /\ factory.connections = <<>> => Without(factory.connections, reaped) = <<>>
    BY <1>2, WithoutRange, WithoutEmpty
  <2>2. PICK left \in Seq(Conns) : left = Without(factory.connections, reaped)
    BY <2>1, Zenon
  <2>3. /\ \A c \in Range(factory.connections) : c \in Range(left) \/ Life!IsFinished(life[c])
        /\ factory.connections = <<>> => left = <<>>
    BY <1>4, <2>1, <2>2
  <2>4. CASE factory' = [factory EXCEPT !.connections = left] /\ UNCHANGED accepting
    BY <1>1, <2>3, <2>4, MessageReaps
  <2>5. ASSUME NEW c \in Conns, accepting[c] = "none",
               accepting' = [accepting EXCEPT ![c] = "validate"],
               factory' = [factory EXCEPT !.connections = Append(left, c)]
        PROVE  IInv'
    BY <1>1, <1>4, <2>3, <2>5, MessageAccepts
  <2>6. QED
    BY <1>4, <2>2, <2>4, <2>5
<1>5. QED
  BY <1>3, <1>4 DEF Message

\* The thread that accepted a connection goes on with it.
LEMMA AcceptingStep ==
    ASSUME IInv, NEW c \in Conns, NEW x \in LifeRec, NEW a \in {"failed", "activate", "done"},
           accepting[c] # "none", accepting' = [accepting EXCEPT ![c] = a],
           life' = [life EXCEPT ![c] = x],
           x.finished => x.state = Life!Closed,
           Life!IsFinished(life[c]) => Life!IsFinished(x),
           a = "failed" => Life!IsFinished(x),
           NEW left \in Seq(Conns), factory' = [factory EXCEPT !.connections = left],
           \A d \in Range(factory.connections) : d \in Range(left) \/ Life!IsFinished(life[d]),
           factory.connections = <<>> => left = <<>>,
           UNCHANGED <<instance, oaf, adapter, locks, pool, th, calls>>
    PROVE  IInv'
<1> USE DEF IInv
<1>1. /\ factory' \in FactoryRec /\ factory'.connections = left
      /\ UNCHANGED <<factory.state, factory.acceptor, factory.registered, factory.finishedCount>>
  BY TypedState DEF OtherTypes, FactoryRec
<1>2. /\ accepting' \in [Conns -> {"none", "validate", "failed", "activate", "done"}]
      /\ accepting'[c] = a /\ \A d \in Conns \ {c} : accepting'[d] = accepting[d]
      /\ \A d \in Conns : accepting'[d] # "none" => accepting[d] # "none"
  BY TypedState DEF OtherTypes
<1>3. /\ life' \in [Conns -> LifeRec] /\ life'[c] = x
      /\ \A d \in Conns \ {c} : life'[d] = life[d]
  BY TypedState DEF OtherTypes
<1>4. \A d \in Conns : Life!IsFinished(life[d]) => Life!IsFinished(life'[d])
  BY <1>3
<1>5. OtherTypes'
  BY <1>1, <1>2, <1>3, TypedState
  DEF OtherTypes, pool, FactoryRec, LifeRec, Active, Holding, Closed, Life!NotValidated, Life!Closed
<1>6. LifeInv'
  <2>1. ASSUME NEW d \in Conns
        PROVE  /\ life'[d].finished => life'[d].state = Life!Closed
               /\ accepting'[d] \in {"none", "validate"} =>
                     /\ life'[d].pending = {}
                     /\ life'[d].state = Life!NotValidated \/ life'[d].finished
               /\ accepting'[d] = "failed" => Life!IsFinished(life'[d])
    BY <1>2, <1>3 DEF LifeInv
  <2>2. QED
    BY <2>1 DEF LifeInv, Life!IsFinished, Life!Closed, Life!NotValidated
<1>7. AcceptorInv'
  <2>1. StaysIn({"each"}) /\ UNCHANGED flock
    BY DEF StaysIn, locks
  <2>2. QED
    BY <1>1, <2>1, AcceptorFrame
<1>8. Range(factory.connections) \subseteq Conns
  <2>1. factory.connections \in Seq(Conns)
    BY TypedState DEF OtherTypes, FactoryRec
  <2>2. QED
    BY <2>1 DEF Range
<1>9. \A d \in Range(factory.connections) :
         d \in Range(factory'.connections) \/ Life!IsFinished(life'[d])
  BY <1>1, <1>4, <1>8
<1>10. QED
  BY <1>1, <1>2, <1>4, <1>5, <1>6, <1>7, <1>9, Background

LEMMA ValidateKeeps ==
    ASSUME IInv, NEW c \in Conns, Validate(c)
    PROVE  IInv'
<1> USE DEF IInv
<1>1. /\ accepting[c] = "validate" /\ factory.connections \in Seq(Conns)
      /\ factory' = [factory EXCEPT !.connections = factory.connections]
      /\ UNCHANGED <<instance, oaf, adapter, locks, pool, th, calls>>
  BY TypedState DEF Validate, OtherTypes, FactoryRec
<1>2. PICK l \in LifeRec : l = life[c]
  BY TypedState DEF OtherTypes
<1>3. /\ l.finished => l.state = Life!Closed
      /\ l.pending = {} /\ (l.state = Life!NotValidated \/ l.finished)
  BY <1>1, <1>2 DEF LifeInv
<1>4. CASE /\ life' = [life EXCEPT ![c] = Life!Aborted(@)]
           /\ accepting' = [accepting EXCEPT ![c] = "failed"]
  <2>1. PICK x : x = Life!Aborted(l)
    OBVIOUS
  <2>2. /\ x \in LifeRec /\ x.pending = l.pending
        /\ x.finished => x.state = Life!Closed
        /\ Life!IsFinished(l) => Life!IsFinished(x)
    BY <1>3, <2>1, LifeOperations
  <2>3. x.finished
    <3>1. CASE l.finished
      BY <1>3, <2>1, <3>1 DEF Life!Aborted
    <3>2. CASE l.state = Life!NotValidated
      <4>1. Life!NotValidated # Life!Closed /\ (l.state = Life!NotValidated) = TRUE
        BY <3>2 DEF Life!NotValidated, Life!Closed
      <4>2. x = [l EXCEPT !.state = Life!Closed, !.finished = (l.state = Life!NotValidated)]
        BY <2>1, <3>2, <4>1, Zenon DEF Life!Aborted
      <4>3. x = [l EXCEPT !.state = Life!Closed, !.finished = TRUE]
        BY <4>1, <4>2, Zenon
      <4>4. QED
        BY <4>3 DEF LifeRec
    <3>3. QED
      BY <1>3, <3>1, <3>2
  <2>4. life' = [life EXCEPT ![c] = x] /\ Life!IsFinished(x)
    BY <1>2, <1>3, <1>4, <2>1, <2>2, <2>3 DEF Life!IsFinished
  <2>5. QED
    BY <1>1, <1>2, <1>4, <2>2, <2>4, AcceptingStep
<1>5. CASE /\ life' = [life EXCEPT ![c] = IF @.state = Life!NotValidated
                                          THEN Life!Validated(@) ELSE @]
           /\ accepting' = [accepting EXCEPT ![c] = "activate"]
  <2>1. PICK x : x = IF l.state = Life!NotValidated THEN Life!Validated(l) ELSE l
    OBVIOUS
  <2>2. /\ x \in LifeRec
        /\ x.finished => x.state = Life!Closed
        /\ Life!IsFinished(l) => Life!IsFinished(x)
    <3>1. CASE l.state = Life!NotValidated
      <4>1. x = [l EXCEPT !.state = 2] /\ ~l.finished
        BY <1>3, <2>1, <3>1
        DEF Life!Validated, Life!Holding, Life!NotValidated, Life!Closed
      <4>2. x \in LifeRec /\ x.finished = l.finished
        BY <4>1 DEF LifeRec, Life!NotValidated, Life!Closed
      <4>3. QED
        BY <4>1, <4>2 DEF Life!IsFinished
    <3>2. CASE l.state # Life!NotValidated
      BY <1>3, <2>1, <3>2
    <3>3. QED
      BY <3>1, <3>2
  <2>3. life' = [life EXCEPT ![c] = x]
    BY <1>2, <1>5, <2>1
  <2>4. QED
    BY <1>1, <1>2, <1>5, <2>2, <2>3, AcceptingStep
<1>6. QED
  BY <1>4, <1>5 DEF Validate

LEMMA ValidateFailedKeeps ==
    ASSUME IInv, NEW c \in Conns, ValidateFailed(c)
    PROVE  IInv'
<1> USE DEF IInv
<1>1. /\ accepting[c] = "failed" /\ factory.connections \in Seq(Conns)
      /\ Life!IsFinished(life[c]) /\ life \in [Conns -> LifeRec]
      /\ UNCHANGED <<instance, oaf, adapter, locks, pool, th, calls>>
  BY TypedState DEF ValidateFailed, OtherTypes, FactoryRec
<1>2. PICK l \in LifeRec : l = life[c]
  BY <1>1
<1>3. l.finished => l.state = Life!Closed
  BY <1>2 DEF LifeInv
<1>4. life' = [life EXCEPT ![c] = l]
  BY <1>1, <1>2 DEF ValidateFailed
<1>5. /\ Without(factory.connections, {c}) \in Seq(Conns)
      /\ Range(Without(factory.connections, {c})) = Range(factory.connections) \ {c}
      /\ factory.connections = <<>> => Without(factory.connections, {c}) = <<>>
  BY <1>1, WithoutRange, WithoutEmpty
<1>6. PICK left \in Seq(Conns) : left = Without(factory.connections, {c})
  BY <1>5, Zenon
<1>7. /\ \A d \in Range(factory.connections) : d \in Range(left) \/ Life!IsFinished(life[d])
      /\ factory.connections = <<>> => left = <<>>
  BY <1>1, <1>5, <1>6
<1>8. /\ factory' = [factory EXCEPT !.connections = left]
      /\ accepting' = [accepting EXCEPT ![c] = "done"]
  BY <1>6 DEF ValidateFailed
<1>9. QED
  BY <1>1, <1>2, <1>3, <1>4, <1>7, <1>8, AcceptingStep

LEMMA AcceptActivatesKeeps ==
    ASSUME IInv, NEW c \in Conns, AcceptActivates(c)
    PROVE  IInv'
<1> USE DEF IInv
<1>1. /\ accepting[c] = "activate" /\ factory.connections \in Seq(Conns)
      /\ factory' = [factory EXCEPT !.connections = factory.connections]
      /\ accepting' = [accepting EXCEPT ![c] = "done"]
      /\ UNCHANGED <<instance, oaf, adapter, locks, pool, th, calls>>
  BY TypedState DEF AcceptActivates, OtherTypes, FactoryRec
<1>2. PICK l \in LifeRec : l = life[c]
  BY TypedState DEF OtherTypes
<1>3. l.finished => l.state = Life!Closed
  BY <1>2 DEF LifeInv
<1>4. PICK x : x = Life!Activated(l)
  OBVIOUS
<1>5. /\ x \in LifeRec
      /\ x.finished => x.state = Life!Closed
      /\ Life!IsFinished(l) => Life!IsFinished(x)
  BY <1>3, <1>4, LifeOperations
<1>6. life' = [life EXCEPT ![c] = x]
  BY <1>2, <1>4 DEF AcceptActivates
<1>7. QED
  BY <1>1, <1>2, <1>5, <1>6, AcceptingStep

\* A connection's own step.
LEMMA ConnectionStep ==
    ASSUME IInv, NEW c \in Conns, NEW x \in LifeRec, life' = [life EXCEPT ![c] = x],
           UNCHANGED Others,
           x.finished => x.state = Life!Closed,
           Life!IsFinished(life[c]) => Life!IsFinished(x),
           accepting[c] \in {"none", "validate"} =>
              x.pending = {} /\ (x.state = Life!NotValidated \/ x.finished)
    PROVE  IInv'
<1>1. /\ UNCHANGED <<instance, oaf, adapter, factory, locks, pool, accepting, calls>> /\ th' = th
      /\ th \in [Threads -> ThreadRec]
  BY TypedState DEF Others, ThreadTypes
<1>2. /\ th' \in [Threads -> ThreadRec]
      /\ \A s \in Threads : /\ th'[s].at = th[s].at /\ th'[s].want = th[s].want
                            /\ th'[s].then = th[s].then
                            /\ th[s].at \in Ending => th'[s] = th[s]
  BY <1>1
<1>3. QED
  BY <1>1, <1>2, OnlyLife

LEMMA ConnectionKeeps ==
    ASSUME IInv, NEW c \in Conns,
           \/ Lose(c) \/ Finish(c)
           \/ \E r \in Reqs : Accept(c, r) \/ Answer(c, r)
    PROVE  IInv'
<1> USE DEF IInv
<1> USE DEF Life!NotValidated, Life!Active, Life!Holding, Life!Closing, Life!Closed
<1>1. PICK l \in LifeRec : l = life[c]
  BY TypedState DEF OtherTypes
<1>2. /\ l.finished => l.state = Life!Closed
      /\ accepting[c] \in {"none", "validate"} =>
            l.pending = {} /\ (l.state = Life!NotValidated \/ l.finished)
  BY <1>1 DEF LifeInv
<1>3. LifeRec = [state : 0..4, pending : SUBSET Reqs, finished : BOOLEAN]
  BY DEF LifeRec
<1>4. CASE Lose(c)
  <2>1. PICK x \in {Life!Destroyed(l), Life!Aborted(l)} : life' = [life EXCEPT ![c] = x]
    BY <1>1, <1>4 DEF Lose, Life!Abort, Life!Destroy, Life!Becomes
  <2>2. /\ x \in LifeRec /\ x.pending = l.pending
        /\ x.finished => x.state = Life!Closed
        /\ Life!IsFinished(l) => Life!IsFinished(x)
        /\ l.state = Life!NotValidated \/ l.finished => x.state = Life!NotValidated \/ x.finished
    BY <1>2, LifeOperations
  <2>3. QED
    BY <1>1, <1>2, <1>4, <2>1, <2>2, ConnectionStep DEF Lose
<1>5. CASE Finish(c)
  <2>1. l.state = Life!Closed /\ ~l.finished
    BY <1>1, <1>5 DEF Finish, Life!Finish
  <2>2. PICK x : x = [l EXCEPT !.finished = TRUE]
    OBVIOUS
  <2>3. x \in LifeRec /\ x.state = Life!Closed
    BY <1>3, <2>1, <2>2
  <2>4. life' = [life EXCEPT ![c] = x]
    BY <1>1, <1>5, <2>2 DEF Finish, Life!Finish, Life!Becomes
  <2>5. accepting[c] \notin {"none", "validate"} /\ ~Life!IsFinished(life[c])
    BY <1>1, <1>2, <2>1 DEF Life!IsFinished
  <2>6. QED
    BY <1>5, <2>3, <2>4, <2>5, ConnectionStep DEF Finish
<1>6. ASSUME NEW r \in Reqs, Accept(c, r)
      PROVE  IInv'
  <2>1. l.state \in {Life!Active, Life!Holding} /\ ~l.finished
    BY <1>1, <1>2, <1>6 DEF Accept, Life!Accept
  <2>2. PICK x : x = [l EXCEPT !.pending = l.pending \cup {r}]
    OBVIOUS
  <2>3. x \in LifeRec /\ ~x.finished
    BY <1>3, <2>1, <2>2
  <2>4. life' = [life EXCEPT ![c] = x]
    BY <1>1, <1>6, <2>2 DEF Accept, Life!Accept, Life!Becomes
  <2>5. accepting[c] \notin {"none", "validate"} /\ ~Life!IsFinished(life[c])
    BY <1>1, <1>2, <2>1 DEF Life!IsFinished
  <2>6. QED
    BY <1>6, <2>3, <2>4, <2>5, ConnectionStep DEF Accept
<1>7. ASSUME NEW r \in Reqs, Answer(c, r)
      PROVE  IInv'
  <2>1. r \in l.pending
    BY <1>1, <1>7 DEF Answer, Life!Answer
  <2>2. PICK x : x = [l EXCEPT !.pending = l.pending \ {r}]
    OBVIOUS
  <2>3. x \in LifeRec /\ x.finished = l.finished /\ x.state = l.state
    BY <1>3, <2>2
  <2>4. life' = [life EXCEPT ![c] = x]
    BY <1>1, <1>7, <2>2 DEF Answer, Life!Answer, Life!Becomes
  <2>5. accepting[c] \notin {"none", "validate"} /\ ~Life!IsFinished(life[c])
    BY <1>1, <1>2, <2>1 DEF Life!IsFinished
  <2>6. QED
    BY <1>2, <1>7, <2>3, <2>4, <2>5, ConnectionStep DEF Answer
<1>8. QED
  BY <1>4, <1>5, <1>6, <1>7

-----------------------------------------------------------------------------
(* The invariant holds.                                                    *)

LEMMA InitInvariant == Init => IInv
<1> SUFFICES ASSUME Init PROVE IInv
  OBVIOUS
<1>1. th = [t \in Threads |-> Idle] /\ \A t \in Threads : th[t] = Idle
  BY DEF Init
<1>2. \A t \in Threads : th[t].at = "idle" /\ th[t].then = <<>>
  BY <1>1, IdleRec
<1>3. /\ life = [c \in Conns |-> Life!New] /\ Life!New \in LifeRec
      /\ Life!New.state = Life!NotValidated /\ Life!New.pending = {} /\ ~Life!New.finished
  BY DEF Init, Life!Init, Life!New, LifeRec, Life!NotValidated, Life!Closed
<1>4. TypeOK
  <2>1. ThreadTypes
    BY <1>1, IdleRec, AdapterAssumption DEF Init, ThreadTypes, InstanceRec, OafRec, AdapterRec
  <2>2. OtherTypes
    <3>1. <<>> \in Seq(Conns) /\ <<>> \in Seq({"add", "remove"})
      OBVIOUS
    <3>2. factory \in FactoryRec
      BY <3>1 DEF Init, FactoryRec
    <3>3. QED
      BY <1>3, <3>1, <3>2 DEF Init, OtherTypes
  <2>3. QED
    BY <2>1, <2>2, Types
<1>5. StackInv
  BY <1>2 DEF StackInv, Stack
<1>6. LockInv
  BY <1>2, AdapterAssumption DEF Init, LockInv, At, Holding, Closed
<1>7. AcceptorInv
  <2>1. Pending = {} /\ Cardinality({}) = 0
    BY FS_EmptySet DEF Init, Pending, Positions
  <2>2. QED
    BY <1>2, <2>1 DEF Init, AcceptorInv, QueueEnds, At, AcceptorOutlivesPool, Active, Holding
<1>8. EnderInv
  <2>1. Enders = {} /\ DirectCalls = {} /\ Cardinality({}) = 0
    BY <1>2, FS_EmptySet DEF Enders, DirectCalls, At
  <2>2. QED
    BY <2>1 DEF Init, EnderInv
<1>9. EndInv
  BY <1>2 DEF Init, EndInv, ReleasedIsQuiet
<1>10. LifeInv
  BY <1>3 DEF Init, LifeInv
<1>11. KnownInv
  <2>1. Enders = {} /\ Accepted = {} /\ adapter.servants
    BY <1>2 DEF Init, Enders, Accepted
  <2>2. QED
    BY <2>1 DEF KnownInv, ServantsOutliveRequests
<1>12. QED
  BY <1>4, <1>5, <1>6, <1>7, <1>8, <1>9, <1>10, <1>11 DEF IInv

LEMMA OperationInvariant ==
    ASSUME IInv, NEW t \in Threads, Operation(t) PROVE IInv'
  BY ThrowsKeeps, ActivateAgainKeeps, ActivateFirstKeeps, ActivateUpdatesKeeps,
     ActivateFailsKeeps, ActivateEndsKeeps, HoldKeeps, WaitForHoldKeeps, DeactivateKeeps,
     DeactivateResumesKeeps, WaitForDeactivateKeeps, DestroyServantsKeeps, ReleaseKeeps,
     RemoveObjectAdapterKeeps, IncDirectCountKeeps, DecDirectCountKeeps, ShutdownKeeps,
     WaitForShutdownKeeps, ShutdownDoneKeeps, DestroyKeeps, DestroyPoolKeeps, JoinKeeps,
     SetStateKeeps, SetStateIgnoredKeeps, ForEachKeeps, SetStateEndsKeeps, FactoryHoldsKeeps,
     ConnectionHoldsKeeps, AllHoldKeeps, FactoryFinishesKeeps, ConnectionFinishesKeeps,
     CloseTimesOutKeeps, AllFinishedKeeps, Zenon
  DEF Operation

LEMMA StutterInvariant ==
    ASSUME IInv, UNCHANGED vars PROVE IInv'
<1>1. /\ UNCHANGED <<instance, oaf, adapter, factory, locks, accepting, life, th, calls>>
      /\ UNCHANGED pool
  BY DEF vars
<1>2. OtherTypes'
  BY <1>1, TypedState
  DEF OtherTypes, pool, FactoryRec, LifeRec, Active, Holding, Closed, Life!NotValidated, Life!Closed
<1>3. AcceptorInv'
  BY <1>1, AcceptorFrame DEF IInv, locks, StaysIn
<1>4. QED
  BY <1>1, <1>2, <1>3, PoolStep

LEMMA NextInvariant == IInv /\ [Next]_vars => IInv'
<1> SUFFICES ASSUME IInv, [Next]_vars PROVE IInv'
  OBVIOUS
<1>1. ASSUME NEW t \in Threads, Operation(t) PROVE IInv'
  BY <1>1, OperationInvariant
<1>2. ASSUME NEW t \in Threads, NEW op \in May[t], Call(t, op) PROVE IInv'
  BY <1>2, CallKeeps
<1>3. CASE Pool
  BY <1>3, PoolChangesKeeps, PoolPicksKeeps, MessageKeeps DEF Pool
<1>4. CASE Finished
  BY <1>4, FinishedKeeps
<1>5. ASSUME NEW c \in Conns, Accepting(c) PROVE IInv'
  BY <1>5, ValidateKeeps, ValidateFailedKeeps, AcceptActivatesKeeps DEF Accepting
<1>6. ASSUME NEW c \in Conns,
             Lose(c) \/ Finish(c) \/ \E r \in Reqs : Accept(c, r) \/ Answer(c, r)
      PROVE  IInv'
  BY <1>6, ConnectionKeeps
<1>7. CASE UNCHANGED vars
  BY <1>7, StutterInvariant
<1>8. QED
  BY <1>1, <1>2, <1>3, <1>4, <1>5, <1>6, <1>7, Zenon DEF Next

\* The invariant the others follow from.
THEOREM Invariance == Spec => []IInv
  BY InitInvariant, NextInvariant, PTL DEF Spec

\* Every variable keeps its kind: no counter of the adapter or of its factory
\* goes below zero, whatever the operations and the pool do.
THEOREM TypeCorrect == Spec => []TypeOK
<1>1. IInv => TypeOK
  BY DEF IInv
<1>2. QED
  BY <1>1, Invariance, PTL

\* finished() closes the acceptor when the pool has nothing left to do with it.
THEOREM AcceptorClosedLast == Spec => []AcceptorOutlivesPool
<1>1. IInv => AcceptorOutlivesPool
  BY DEF IInv, AcceptorInv
<1>2. QED
  BY <1>1, Invariance, PTL

\* isLocal() finds the acceptor of an adapter that is not deactivated.
THEOREM AcceptorThere == Spec => []AcceptorWhileUsable
<1>1. IInv => AcceptorWhileUsable
  BY DEF IInv, LockInv, AcceptorInv, AcceptorOutlivesPool, AcceptorWhileUsable
<1>2. QED
  BY <1>1, Invariance, PTL

\* waitForDeactivate() destroys the servants after the last request.
THEOREM ServantsLast == Spec => []ServantsOutliveRequests
<1>1. IInv => ServantsOutliveRequests
  BY DEF IInv, KnownInv
<1>2. QED
  BY <1>1, Invariance, PTL

\* The destructors of the adapter and its factory find nothing in use.
THEOREM ReleasedLast == Spec => []ReleasedIsQuiet
<1>1. IInv => ReleasedIsQuiet
  BY DEF IInv, EndInv
<1>2. QED
  BY <1>1, Invariance, PTL

\* Instance::destroy() destroys an empty pool, after the adapter.
THEOREM PoolLast == Spec => []PoolDestroyedEmpty
<1>1. IInv => PoolDestroyedEmpty
  <2> SUFFICES ASSUME IInv, instance.pool = "destroyed"
               PROVE  /\ OutOfPool /\ \A c \in Accepted : life[c].finished
                      /\ ~oaf.adapters /\ ~adapter.instance
    BY DEF PoolDestroyedEmpty
  <2>1. ~oaf.adapters /\ ~adapter.instance
    BY DEF IInv, EndInv
  <2>2. ~factory.acceptor /\ ~adapter.servants
    BY <2>1 DEF IInv, EndInv, ReleasedIsQuiet
  <2>3. OutOfPool
    BY <2>2 DEF IInv, AcceptorInv, AcceptorOutlivesPool
  <2>4. \A c \in Accepted : life[c].finished
    BY <2>2 DEF IInv, KnownInv, ServantsOutliveRequests, Life!IsFinished
  <2>5. QED
    BY <2>1, <2>3, <2>4
<1>2. QED
  BY <1>1, Invariance, PTL

\* The accepting thread does not wait for a connection that failed.
THEOREM FailedIsDone == Spec => []FailedIsFinished
<1>1. IInv => FailedIsFinished
  BY DEF IInv, LifeInv, FailedIsFinished
<1>2. QED
  BY <1>1, Invariance, PTL

\* Nothing but these operations changes the factory of adapters.
LEMMA OafUnchanged ==
    ASSUME [Next]_vars,
           \A t \in Threads : /\ ~RemoveObjectAdapter(t) /\ ~Shutdown(t)
                              /\ ~WaitForShutdown(t) /\ ~ShutdownDone(t)
    PROVE  UNCHANGED oaf
<1>1. ASSUME NEW t \in Threads, Operation(t) PROVE UNCHANGED oaf
  <2>1. CASE \/ Throws(t) \/ ActivateAgain(t) \/ ActivateFirst(t) \/ ActivateUpdates(t)
             \/ ActivateFails(t) \/ ActivateEnds(t) \/ Hold(t) \/ WaitForHold(t)
             \/ Deactivate(t) \/ DeactivateResumes(t) \/ WaitForDeactivate(t)
             \/ DestroyServants(t) \/ Release(t) \/ IncDirectCount(t) \/ DecDirectCount(t)
    BY <2>1 DEF Throws, ActivateAgain, ActivateFirst, ActivateUpdates, ActivateFails, ActivateEnds,
       Hold, WaitForHold, Deactivate, DeactivateResumes, WaitForDeactivate, DestroyServants,
       Release, IncDirectCount, DecDirectCount
  <2>2. CASE \/ Destroy(t) \/ DestroyPool(t) \/ Join(t) \/ SetState(t) \/ SetStateIgnored(t)
             \/ ForEach(t) \/ SetStateEnds(t) \/ FactoryHolds(t) \/ ConnectionHolds(t)
             \/ AllHold(t) \/ FactoryFinishes(t) \/ ConnectionFinishes(t) \/ CloseTimesOut(t)
             \/ AllFinished(t)
    BY <2>2 DEF Destroy, DestroyPool, Join, SetState, SetStateIgnored, ForEach, SetStateEnds,
       FactoryHolds, ConnectionHolds, AllHold, FactoryFinishes, ConnectionFinishes, CloseTimesOut,
       AllFinished
  <2>3. QED
    BY <1>1, <2>1, <2>2, Zenon DEF Operation
<1>2. ASSUME NEW t \in Threads, NEW op \in May[t], Call(t, op) PROVE UNCHANGED oaf
  BY <1>2 DEF Call
<1>3. ASSUME Pool \/ Finished PROVE UNCHANGED oaf
  BY <1>3 DEF Pool, PoolChanges, PoolPicks, Message, Finished
<1>4. ASSUME NEW c \in Conns,
             \/ Accepting(c) \/ Lose(c) \/ Finish(c)
             \/ \E r \in Reqs : Accept(c, r) \/ Answer(c, r)
      PROVE  UNCHANGED oaf
  BY <1>4 DEF Accepting, Validate, ValidateFailed, AcceptActivates, Lose, Finish, Accept, Answer,
     Others
<1>5. ASSUME UNCHANGED vars PROVE UNCHANGED oaf
  BY <1>5 DEF vars
<1>6. QED
  BY <1>1, <1>2, <1>3, <1>4, <1>5, Zenon DEF Next

\* While waitForShutdown() goes through the adapters nobody else changes them:
\* removeObjectAdapter() leaves them to it.
THEOREM IterationSafe == Spec => IterationIsSafe
<1>1. IInv /\ [Next]_vars =>
         (oaf.waitForShutdown /\ oaf.adapters /\ ~oaf'.adapters
             => \E t \in Threads : At(t, "shutdownDone") /\ ~At(t, "shutdownDone")')
  <2> SUFFICES ASSUME IInv, [Next]_vars, oaf.waitForShutdown, oaf.adapters, ~oaf'.adapters
               PROVE  \E t \in Threads : At(t, "shutdownDone") /\ ~At(t, "shutdownDone")'
    OBVIOUS
  <2>1. oaf \in OafRec
    BY TypedState DEF ThreadTypes
  <2>2. PICK t \in Threads : \/ RemoveObjectAdapter(t) \/ Shutdown(t)
                             \/ WaitForShutdown(t) \/ ShutdownDone(t)
    BY OafUnchanged
  <2>3. ~RemoveObjectAdapter(t) /\ ~Shutdown(t) /\ ~WaitForShutdown(t)
    BY <2>1 DEF RemoveObjectAdapter, Shutdown, WaitForShutdown, OafRec
  <2>4. th[t].at = "shutdownDone" /\ th'[t].at \in {"idle", "destroyPool"}
    BY <2>2, <2>3, ReturnMoves DEF ShutdownDone, At, IInv
  <2>5. QED
    BY <2>4 DEF At
<1>2. QED
  BY <1>1, Invariance, PTL DEF Spec, IterationIsSafe
=============================================================================
