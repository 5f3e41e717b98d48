------------------------- MODULE ConnectionIProofs -------------------------
(***************************************************************************)
(* Proofs about ConnectionI, for every set of requests and batches, every  *)
(* size of the socket's buffer and any number of hold() calls.             *)
(***************************************************************************)
EXTENDS ConnectionI, TLAPS, FiniteSetTheorems, CountingLemmas

-----------------------------------------------------------------------------
(* What the calls of setState() do.  c is the connection they start from.  *)

ConnType ==
    [state : NotValidated..Closed, exception : {None, "closing", "failed"},
     registered : BOOLEAN, finishedCount : Int, dispatchCount : Int,
     transceiver : {"open", "shut", "closed"}, shutdown : BOOLEAN]

ChangesType == Seq({"add", "remove"})

First(c, ex) == IF c.exception = None THEN ex ELSE c.exception

Nothing(c) == conn' = c /\ changes' = changes

\* A connection that is not validated has nothing to unregister.
Drops(c, ex) ==
    /\ c.state = NotValidated
    /\ conn' = [c EXCEPT !.state = Closed, !.exception = First(c, ex), !.transceiver = "closed"]
    /\ changes' = changes

Closes(c) ==
    /\ c.state \in {Active, Holding, Closing}
    /\ conn' = [c EXCEPT !.state = Closed, !.exception = First(c, "failed"), !.registered = FALSE,
                         !.finishedCount = @ + 1, !.transceiver = "shut"]
    /\ changes' = IF c.registered THEN Append(changes, "remove")
                  ELSE Append(Append(changes, "add"), "remove")

Aborts(c) == (c.state = Closed /\ Nothing(c)) \/ Drops(c, "failed") \/ Closes(c)

StartsClosing(c) ==
    /\ c.state \in {Active, Holding}
    /\ conn' = [c EXCEPT !.state = Closing, !.exception = First(c, "closing"), !.registered = TRUE,
                         !.shutdown = (c.dispatchCount = 0)]
    /\ changes' = IF c.registered THEN changes ELSE Append(changes, "add")

Destroys(c) ==
    \/ c.state = Closing /\ Nothing(c)
    \/ c.state = Closed /\ conn' = [c EXCEPT !.exception = First(c, "closing")] /\ changes' = changes
    \/ Drops(c, "closing")
    \/ StartsClosing(c)

Holds(c) ==
    \/ c.state \in {Holding, Closing, Closed} /\ Nothing(c)
    \/ /\ c.state \in {NotValidated, Active}
       /\ IF c.registered
          THEN /\ conn' = [c EXCEPT !.state = Holding, !.registered = FALSE, !.finishedCount = @ + 1]
               /\ changes' = Append(changes, "remove")
          ELSE conn' = [c EXCEPT !.state = Holding] /\ changes' = changes

Activates(c) ==
    \/ c.state \in {Active, Closing, Closed} /\ Nothing(c)
    \/ /\ c.state \in {NotValidated, Holding}
       /\ conn' = [c EXCEPT !.state = Active, !.registered = TRUE]
       /\ changes' = IF c.registered THEN changes ELSE Append(changes, "add")

Pair(c, o) == [c |-> c, ops |-> o]

\* The calls of one section are appended to those the pool has not applied.
LEMMA Concats ==
    ASSUME changes \in ChangesType
    PROVE  /\ changes \o <<>> = changes
           /\ changes \o Append(<<>>, "add") = Append(changes, "add")
           /\ changes \o Append(<<>>, "remove") = Append(changes, "remove")
           /\ changes \o Append(Append(<<>>, "add"), "remove") =
                 Append(Append(changes, "add"), "remove")
  BY DEF ChangesType

\* The operators on pairs, written out.
LEMMA PairParts ==
    ASSUME NEW c, NEW o
    PROVE  Pair(c, o).c = c /\ Pair(c, o).ops = o
  BY DEF Pair

\* The state of a pair is set.
LEMMA WithPair ==
    ASSUME NEW c, NEW o, NEW s
    PROVE  With(Pair(c, o), s) = Pair([c EXCEPT !.state = s], o)
  BY DEF Pair, With

\* The initiateShutdown() flag of a pair is set.
LEMMA UnlockPair ==
    ASSUME NEW c, NEW o, NEW h
    PROVE  [Pair(c, o) EXCEPT !.c.shutdown = h] = Pair([c EXCEPT !.shutdown = h], o)
  BY DEF Pair

\* registerWithPool() registers a connection that is not registered.
LEMMA RegisterPair ==
    ASSUME NEW c, NEW o
    PROVE  /\ c.registered => RegisterWithPool(Pair(c, o)) = Pair(c, o)
           /\ ~c.registered => RegisterWithPool(Pair(c, o)) =
                                  Pair([c EXCEPT !.registered = TRUE], Append(o, "add"))
  BY DEF RegisterWithPool, Pair

\* unregisterWithPool() unregisters one that is, and counts it.
LEMMA UnregisterPair ==
    ASSUME NEW c, NEW o
    PROVE  /\ ~c.registered => UnregisterWithPool(Pair(c, o)) = Pair(c, o)
           /\ c.registered => UnregisterWithPool(Pair(c, o)) =
                                 Pair([c EXCEPT !.registered = FALSE, !.finishedCount = @ + 1],
                                      Append(o, "remove"))
  BY DEF UnregisterWithPool, Pair

\* The result of a section, by its parts.
LEMMA BecomesPair ==
    ASSUME NEW c, NEW o, NEW p, p = Pair(c, o), Becomes(p)
    PROVE  conn' = c /\ changes' = changes \o o
  BY PairParts DEF Becomes

\* Which part of setState() runs.
LEMMA SetStateCases ==
    ASSUME NEW c \in ConnType, NEW o
    PROVE  LET p == Pair(c, o) IN
           /\ c.state \notin {Closed} => SetState(p, Closed) = SwitchToClosed(p)
           /\ c.state = NotValidated => SetState(p, Closing) = SwitchToClosed(p)
           /\ c.state \notin {NotValidated, Closing} => SetState(p, Closing) = SwitchToClosing(p)
           /\ c.state \in {Active, NotValidated} =>
                 SetState(p, Holding) = With(UnregisterWithPool(p), Holding)
           /\ c.state \notin {Active, NotValidated} => SetState(p, Holding) = p
           /\ c.state \in {Holding, NotValidated} =>
                 SetState(p, Active) = With(RegisterWithPool(p), Active)
           /\ c.state \notin {Holding, NotValidated} => SetState(p, Active) = p
<1>1. Pair(c, o).c = c /\ c.state \in 0..4
  BY PairParts DEF ConnType, NotValidated, Closed
<1>2. QED
  BY <1>1 DEF SetState, NotValidated, Active, Holding, Closing, Closed

\* A connection that is not validated is closed at once.
LEMMA DropPair ==
    ASSUME NEW c \in ConnType, c.state = NotValidated
    PROVE  SwitchToClosed(Pair(c, <<>>)) =
              Pair([c EXCEPT !.state = Closed, !.transceiver = "closed"], <<>>)
<1> DEFINE d == [c EXCEPT !.transceiver = "closed"]
<1>1. [Pair(c, <<>>) EXCEPT !.c.transceiver = "closed"] = Pair(d, <<>>)
  BY DEF Pair
<1>2. [d EXCEPT !.state = Closed] = [c EXCEPT !.state = Closed, !.transceiver = "closed"]
  BY DEF ConnType
<1>3. SwitchToClosed(Pair(c, <<>>)) = With(Pair(d, <<>>), Closed)
  BY <1>1, PairParts DEF SwitchToClosed
<1> HIDE DEF d
<1>4. QED
  BY <1>2, <1>3, WithPair

\* A validated one is shut down for writing, and unregistered.
LEMMA ClosePair ==
    ASSUME NEW c \in ConnType, c.state # NotValidated
    PROVE  SwitchToClosed(Pair(c, <<>>)) =
              Pair([c EXCEPT !.state = Closed, !.registered = FALSE,
                             !.finishedCount = @ + 1, !.transceiver = "shut"],
                   IF c.registered THEN Append(<<>>, "remove")
                ELSE Append(Append(<<>>, "add"), "remove"))
<1> DEFINE d == [c EXCEPT !.registered = TRUE]
           e == [c EXCEPT !.registered = FALSE, !.finishedCount = @ + 1]
           f == [e EXCEPT !.transceiver = "shut"]
           o == IF c.registered THEN Append(<<>>, "remove")
                ELSE Append(Append(<<>>, "add"), "remove")
<1>1. UnregisterWithPool(RegisterWithPool(Pair(c, <<>>))) = Pair(e, o)
  <2>1. CASE c.registered
    <3>1. o = Append(<<>>, "remove")
      BY <2>1
    <3> HIDE DEF o
    <3>2. RegisterWithPool(Pair(c, <<>>)) = Pair(c, <<>>)
      BY <2>1, RegisterPair
    <3>3. UnregisterWithPool(Pair(c, <<>>)) = Pair(e, o)
      BY <2>1, <3>1, UnregisterPair
    <3> HIDE DEF e
    <3>4. QED
      BY <3>2, <3>3
  <2>2. CASE ~c.registered
    <3>1. RegisterWithPool(Pair(c, <<>>)) = Pair(d, Append(<<>>, "add"))
      BY <2>2, RegisterPair
    <3>2. d.registered /\ [d EXCEPT !.registered = FALSE, !.finishedCount = @ + 1] = e
      BY DEF ConnType
    <3>3. o = Append(Append(<<>>, "add"), "remove")
      BY <2>2
    <3> HIDE DEF d, e, o
    <3>4. UnregisterWithPool(Pair(d, Append(<<>>, "add"))) = Pair(e, o)
      BY <3>2, <3>3, UnregisterPair
    <3>5. QED
      BY <3>1, <3>4
  <2>3. QED
    BY <2>1, <2>2
<1>2. [Pair(e, o) EXCEPT !.c.transceiver = "shut"] = Pair(f, o)
  BY DEF Pair
<1>3. [f EXCEPT !.state = Closed] =
         [c EXCEPT !.state = Closed, !.registered = FALSE,
                   !.finishedCount = @ + 1, !.transceiver = "shut"]
  BY DEF ConnType
<1>4. SwitchToClosed(Pair(c, <<>>)) =
         With([UnregisterWithPool(RegisterWithPool(Pair(c, <<>>)))
                 EXCEPT !.c.transceiver = "shut"], Closed)
  BY PairParts DEF SwitchToClosed
<1> HIDE DEF d, e, f, o
<1>5. SwitchToClosed(Pair(c, <<>>)) = Pair([f EXCEPT !.state = Closed], o)
  BY <1>1, <1>2, <1>4, WithPair
<1>6. QED
  BY <1>3, <1>5 DEF o

\* Graceful closing: the connection is registered to read the peer's close.
LEMMA ClosingPair ==
    ASSUME NEW c \in ConnType, c.state # Closed
    PROVE  SwitchToClosing(Pair(c, <<>>)) =
              Pair([c EXCEPT !.state = Closing, !.registered = TRUE,
                             !.shutdown = (c.dispatchCount = 0)],
                   IF c.registered THEN <<>> ELSE Append(<<>>, "add"))
<1> DEFINE d == [c EXCEPT !.registered = TRUE]
           e == [d EXCEPT !.shutdown = (c.dispatchCount = 0)]
           o == IF c.registered THEN <<>> ELSE Append(<<>>, "add")
<1>1. RegisterWithPool(Pair(c, <<>>)) = Pair(d, o)
  <2>1. c.registered => d = c
    BY DEF ConnType
  <2> HIDE DEF d
  <2>2. CASE c.registered
    BY <2>1, <2>2, RegisterPair
  <2>3. CASE ~c.registered
    BY <2>3, RegisterPair DEF d
  <2>4. QED
    BY <2>2, <2>3
<1>2. [Pair(d, o) EXCEPT !.c.shutdown = (c.dispatchCount = 0)] = Pair(e, o)
  BY DEF Pair
<1>3. [e EXCEPT !.state = Closing] =
         [c EXCEPT !.state = Closing, !.registered = TRUE, !.shutdown = (c.dispatchCount = 0)]
  BY DEF ConnType
<1>4. SwitchToClosing(Pair(c, <<>>)) =
         With([RegisterWithPool(Pair(c, <<>>)) EXCEPT !.c.shutdown = (c.dispatchCount = 0)], Closing)
  BY PairParts DEF SwitchToClosing
<1> HIDE DEF d, e, o
<1>5. SwitchToClosing(Pair(c, <<>>)) = Pair([e EXCEPT !.state = Closing], o)
  BY <1>1, <1>2, <1>4, WithPair
<1>6. QED
  BY <1>3, <1>5 DEF o

\* setState(Closed, ...) closes a connection for good, whatever its state.
LEMMA AbortEffect ==
    ASSUME NEW c \in ConnType, changes \in ChangesType,
           Becomes(SetStateEx(Pair(c, <<>>), Closed, "failed"))
    PROVE  Aborts(c)
<1> DEFINE d == [c EXCEPT !.exception = First(c, "failed")]
           p == SetStateEx(Pair(c, <<>>), Closed, "failed")
<1>1. CASE c.state = Closed
  BY <1>1, PairParts, Concats DEF Becomes, SetStateEx, Aborts, Nothing
<1>2. d \in ConnType /\ d.state = c.state /\ d.registered = c.registered
  BY DEF ConnType, First
<1>3. ASSUME c.state # Closed
      PROVE  p = SwitchToClosed(Pair(d, <<>>))
  <2>1. [Pair(c, <<>>) EXCEPT !.c.exception = IF @ = None THEN "failed" ELSE @] = Pair(d, <<>>)
    BY DEF Pair, First
  <2> HIDE DEF d
  <2>2. p = SetState(Pair(d, <<>>), Closed)
    BY <1>3, <2>1, PairParts DEF SetStateEx
  <2> HIDE DEF p
  <2>3. QED
    BY <1>2, <1>3, <2>2, SetStateCases
<1>4. CASE c.state = NotValidated
  <2> DEFINE f == [d EXCEPT !.state = Closed, !.transceiver = "closed"]
  <2>1. f = [c EXCEPT !.state = Closed, !.exception = First(c, "failed"), !.transceiver = "closed"]
    BY DEF ConnType
  <2>2. c.state # Closed
    BY <1>4 DEF NotValidated, Closed
  <2> HIDE DEF d, p
  <2>3. p = Pair(f, <<>>)
    BY <1>2, <1>3, <1>4, <2>2, DropPair
  <2> HIDE DEF f
  <2>4. conn' = f /\ changes' = changes
    BY <2>3, BecomesPair, Concats DEF p
  <2>5. QED
    BY <1>4, <2>1, <2>4 DEF Aborts, Drops
<1>5. CASE c.state \in {Active, Holding, Closing}
  <2> DEFINE o == IF c.registered THEN Append(<<>>, "remove")
                  ELSE Append(Append(<<>>, "add"), "remove")
             f == [d EXCEPT !.state = Closed, !.registered = FALSE,
                            !.finishedCount = @ + 1, !.transceiver = "shut"]
  <2>1. f = [c EXCEPT !.state = Closed, !.exception = First(c, "failed"), !.registered = FALSE,
                      !.finishedCount = @ + 1, !.transceiver = "shut"]
    BY DEF ConnType
  <2>2. c.state # NotValidated /\ c.state # Closed
    BY <1>5 DEF NotValidated, Active, Holding, Closing, Closed
  <2>3. changes \o o = IF c.registered THEN Append(changes, "remove")
                       ELSE Append(Append(changes, "add"), "remove")
    BY Concats
  <2> HIDE DEF d, p
  <2>4. p = Pair(f, o)
    BY <1>2, <1>3, <2>2, ClosePair
  <2> HIDE DEF f, o
  <2>5. conn' = f /\ changes' = changes \o o
    BY <2>4, BecomesPair DEF p
  <2>6. QED
    BY <1>5, <2>1, <2>3, <2>5 DEF Aborts, Closes
<1>6. QED
  BY <1>1, <1>4, <1>5 DEF ConnType, NotValidated, Active, Holding, Closing, Closed

\* setState(Closing, ...) starts the graceful close of a validated connection.
LEMMA DestroyEffect ==
    ASSUME NEW c \in ConnType, changes \in ChangesType,
           Becomes(SetStateEx(Pair(c, <<>>), Closing, "closing"))
    PROVE  Destroys(c)
<1> DEFINE d == [c EXCEPT !.exception = First(c, "closing")]
           p == SetStateEx(Pair(c, <<>>), Closing, "closing")
<1>1. CASE c.state = Closing
  BY <1>1, PairParts, Concats DEF Becomes, SetStateEx, Destroys, Nothing
<1>2. d \in ConnType /\ d.state = c.state /\ d.registered = c.registered
         /\ d.dispatchCount = c.dispatchCount
  BY DEF ConnType, First
<1>3. ASSUME c.state # Closing
      PROVE  p = SetState(Pair(d, <<>>), Closing)
  <2>1. [Pair(c, <<>>) EXCEPT !.c.exception = IF @ = None THEN "closing" ELSE @] = Pair(d, <<>>)
    BY DEF Pair, First
  <2> HIDE DEF d
  <2>2. QED
    BY <1>3, <2>1, PairParts DEF SetStateEx
<1>4. CASE c.state = NotValidated
  <2> DEFINE f == [d EXCEPT !.state = Closed, !.transceiver = "closed"]
  <2>1. f = [c EXCEPT !.state = Closed, !.exception = First(c, "closing"), !.transceiver = "closed"]
    BY DEF ConnType
  <2>2. c.state # Closing
    BY <1>4 DEF NotValidated, Closing
  <2> HIDE DEF d, p
  <2>3. p = SwitchToClosed(Pair(d, <<>>))
    BY <1>2, <1>3, <1>4, <2>2, SetStateCases
  <2>4. p = Pair(f, <<>>)
    BY <1>2, <1>4, <2>3, DropPair
  <2> HIDE DEF f
  <2>5. conn' = f /\ changes' = changes
    BY <2>4, BecomesPair, Concats DEF p
  <2>6. QED
    BY <1>4, <2>1, <2>5 DEF Destroys, Drops
<1>5. CASE c.state = Closed
  <2>1. c.state \notin {NotValidated, Closing} /\ c.state # Closing
    BY <1>5 DEF NotValidated, Closing, Closed
  <2> HIDE DEF d, p
  <2>2. p = SwitchToClosing(Pair(d, <<>>))
    BY <1>2, <1>3, <2>1, SetStateCases
  <2>3. p = Pair(d, <<>>)
    BY <1>2, <1>5, <2>2, PairParts DEF SwitchToClosing
  <2>4. conn' = d /\ changes' = changes
    BY <2>3, BecomesPair, Concats DEF p
  <2>5. QED
    BY <1>5, <2>4 DEF Destroys, d
<1>6. CASE c.state \in {Active, Holding}
  <2> DEFINE o == IF c.registered THEN <<>> ELSE Append(<<>>, "add")
             f == [d EXCEPT !.state = Closing, !.registered = TRUE,
                            !.shutdown = (d.dispatchCount = 0)]
  <2>1. f = [c EXCEPT !.state = Closing, !.exception = First(c, "closing"), !.registered = TRUE,
                      !.shutdown = (c.dispatchCount = 0)]
    BY <1>2 DEF ConnType
  <2>2. c.state \notin {NotValidated, Closing} /\ c.state # Closed /\ c.state # Closing
    BY <1>6 DEF NotValidated, Active, Holding, Closing, Closed
  <2>3. changes \o o = IF c.registered THEN changes ELSE Append(changes, "add")
    BY Concats
  <2> HIDE DEF d, p
  <2>4. p = SwitchToClosing(Pair(d, <<>>))
    BY <1>2, <1>3, <2>2, SetStateCases
  <2>5. p = Pair(f, o)
    BY <1>2, <2>2, <2>4, ClosingPair
  <2> HIDE DEF f, o
  <2>6. conn' = f /\ changes' = changes \o o
    BY <2>5, BecomesPair DEF p
  <2>7. QED
    BY <1>6, <2>1, <2>3, <2>6 DEF Destroys, StartsClosing
<1>7. QED
  BY <1>1, <1>4, <1>5, <1>6 DEF ConnType, NotValidated, Active, Holding, Closing, Closed

\* setState(Holding) unregisters an active connection and leaves a closing one.
LEMMA HoldEffect ==
    ASSUME NEW c \in ConnType, changes \in ChangesType,
           Becomes(SetState(Pair(c, <<>>), Holding))
    PROVE  Holds(c)
<1> DEFINE p == SetState(Pair(c, <<>>), Holding)
<1>1. CASE c.state \notin {NotValidated, Active}
  <2>1. p = Pair(c, <<>>)
    BY <1>1, SetStateCases
  <2>2. Nothing(c)
    BY <2>1, BecomesPair, Concats DEF Nothing
  <2>3. QED
    BY <1>1, <2>2 DEF Holds, ConnType, NotValidated, Active, Holding, Closing, Closed
<1>2. CASE c.state \in {NotValidated, Active}
  <2>1. p = With(UnregisterWithPool(Pair(c, <<>>)), Holding)
    BY <1>2, SetStateCases
  <2>2. CASE ~c.registered
    <3> HIDE DEF p
    <3>0. UnregisterWithPool(Pair(c, <<>>)) = Pair(c, <<>>)
      BY <2>2, UnregisterPair
    <3>1. p = Pair([c EXCEPT !.state = Holding], <<>>)
      BY <2>1, <3>0, WithPair
    <3>2. conn' = [c EXCEPT !.state = Holding] /\ changes' = changes
      BY <3>1, BecomesPair, Concats DEF p
    <3>3. QED
      BY <1>2, <2>2, <3>2 DEF Holds
  <2>3. CASE c.registered
    <3> DEFINE d == [c EXCEPT !.registered = FALSE, !.finishedCount = @ + 1]
    <3>1. [d EXCEPT !.state = Holding] =
             [c EXCEPT !.state = Holding, !.registered = FALSE, !.finishedCount = @ + 1]
      BY DEF ConnType
    <3>2. UnregisterWithPool(Pair(c, <<>>)) = Pair(d, Append(<<>>, "remove"))
      BY <2>3, UnregisterPair
    <3> HIDE DEF d, p
    <3>3. p = Pair([d EXCEPT !.state = Holding], Append(<<>>, "remove"))
      BY <2>1, <3>2, WithPair
    <3>4. conn' = [d EXCEPT !.state = Holding] /\ changes' = Append(changes, "remove")
      BY <3>3, BecomesPair, Concats DEF p
    <3>5. QED
      BY <1>2, <2>3, <3>1, <3>4 DEF Holds
  <2>4. QED
    BY <2>2, <2>3
<1>3. QED
  BY <1>1, <1>2

\* setState(Active) registers a held connection and leaves a closing one.
LEMMA ActivateEffect ==
    ASSUME NEW c \in ConnType, changes \in ChangesType,
           Becomes(SetState(Pair(c, <<>>), Active))
    PROVE  Activates(c)
<1> DEFINE p == SetState(Pair(c, <<>>), Active)
<1>1. CASE c.state \notin {NotValidated, Holding}
  <2>1. p = Pair(c, <<>>)
    BY <1>1, SetStateCases
  <2>2. Nothing(c)
    BY <2>1, BecomesPair, Concats DEF Nothing
  <2>3. QED
    BY <1>1, <2>2 DEF Activates, ConnType, NotValidated, Active, Holding, Closing, Closed
<1>2. CASE c.state \in {NotValidated, Holding}
  <2> DEFINE d == [c EXCEPT !.registered = TRUE]
             o == IF c.registered THEN <<>> ELSE Append(<<>>, "add")
  <2>1. p = With(RegisterWithPool(Pair(c, <<>>)), Active)
    BY <1>2, SetStateCases
  <2>2. RegisterWithPool(Pair(c, <<>>)) = Pair(d, o)
    <3>1. c.registered => d = c
      BY DEF ConnType
    <3> HIDE DEF d
    <3>2. CASE c.registered
      BY <3>1, <3>2, RegisterPair
    <3>3. CASE ~c.registered
      BY <3>3, RegisterPair DEF d
    <3>4. QED
      BY <3>2, <3>3
  <2>3. [d EXCEPT !.state = Active] = [c EXCEPT !.state = Active, !.registered = TRUE]
    BY DEF ConnType
  <2>4. changes \o o = IF c.registered THEN changes ELSE Append(changes, "add")
    BY Concats
  <2> HIDE DEF d, o, p
  <2>5. p = Pair([d EXCEPT !.state = Active], o)
    BY <2>1, <2>2, WithPair
  <2>6. conn' = [d EXCEPT !.state = Active] /\ changes' = changes \o o
    BY <2>5, BecomesPair DEF p
  <2>7. QED
    BY <1>2, <2>3, <2>4, <2>6 DEF Activates
<1>3. QED
  BY <1>1, <1>2
-----------------------------------------------------------------------------
(* The changes the pool has not applied yet.                               *)

Rem(s) == Positions(s, "remove")

\* The removals that are queued can be counted.
LEMMA RemFinite ==
    ASSUME NEW s \in ChangesType
    PROVE  IsFiniteSet(Rem(s)) /\ Cardinality(Rem(s)) \in Nat
  BY PositionsFinite DEF Rem, ChangesType

\* Another call is queued.
LEMMA RemAppend ==
    ASSUME NEW s \in ChangesType
    PROVE  /\ Append(s, "add") \in ChangesType /\ Append(s, "remove") \in ChangesType
           /\ Append(s, "add") # <<>> /\ Append(s, "remove") # <<>>
           /\ Append(s, "add")[Len(Append(s, "add"))] = "add"
           /\ Append(s, "remove")[Len(Append(s, "remove"))] = "remove"
           /\ Cardinality(Rem(Append(s, "add"))) = Cardinality(Rem(s))
           /\ Cardinality(Rem(Append(s, "remove"))) = Cardinality(Rem(s)) + 1
<1>1. /\ Append(s, "add") \in ChangesType /\ Append(s, "remove") \in ChangesType
      /\ Append(s, "add") # <<>> /\ Append(s, "remove") # <<>>
      /\ Append(s, "add")[Len(Append(s, "add"))] = "add"
      /\ Append(s, "remove")[Len(Append(s, "remove"))] = "remove"
  BY DEF ChangesType
<1>2. /\ Cardinality(Rem(Append(s, "add"))) = Cardinality(Rem(s)) + 0
      /\ Cardinality(Rem(Append(s, "remove"))) = Cardinality(Rem(s)) + 1
  BY PositionsAppend DEF Rem, ChangesType
<1>3. QED
  BY <1>1, <1>2, RemFinite

\* The pool applies the first call.
LEMMA RemTail ==
    ASSUME NEW s \in ChangesType, s # <<>>
    PROVE  /\ Tail(s) \in ChangesType /\ Head(s) \in {"add", "remove"}
           /\ Tail(s) # <<>> => Tail(s)[Len(Tail(s))] = s[Len(s)]
           /\ Tail(s) = <<>> => Head(s) = s[Len(s)]
           /\ Cardinality(Rem(s)) =
                 Cardinality(Rem(Tail(s))) + (IF Head(s) = "remove" THEN 1 ELSE 0)
<1>1. /\ Tail(s) \in ChangesType /\ Head(s) \in {"add", "remove"} /\ Head(s) = s[1]
      /\ Len(s) \in Nat /\ Len(s) > 0 /\ Len(Tail(s)) = Len(s) - 1
      /\ \A i \in 1..Len(Tail(s)) : Tail(s)[i] = s[i + 1]
  BY DEF ChangesType
<1>2. /\ Tail(s) # <<>> => Tail(s)[Len(Tail(s))] = s[Len(s)]
      /\ Tail(s) = <<>> => Head(s) = s[Len(s)]
  <2>1. Tail(s) = <<>> => Len(s) = 1
    <3>1. Len(<<>>) = 0
      OBVIOUS
    <3> DEFINE t == Tail(s)
    <3>2. Len(t) = Len(s) - 1
      BY <1>1
    <3> HIDE DEF t
    <3>3. t = <<>> => Len(s) = 1
      BY <3>1, <3>2, <1>1
    <3>4. QED
      BY <3>3 DEF t
  <2>2. Tail(s) # <<>> => Len(s) > 1 /\ Len(Tail(s)) \in 1..Len(Tail(s))
    <3>1. Tail(s) # <<>> => Len(Tail(s)) > 0
      BY <1>1 DEF ChangesType
    <3>2. QED
      BY <3>1, <1>1
  <2>3. QED
    BY <1>1, <2>1, <2>2
<1>3. Cardinality(Rem(s)) =
         Cardinality(Rem(Tail(s))) + (IF Head(s) = "remove" THEN 1 ELSE 0)
  BY PositionsTail DEF Rem, ChangesType
<1>4. QED
  BY <1>1, <1>2, <1>3

\* Without removals the last call that is queued is a registration.
LEMMA RemNone ==
    ASSUME NEW s \in ChangesType
    PROVE  /\ s = <<>> => Cardinality(Rem(s)) = 0
           /\ s # <<>> /\ Cardinality(Rem(s)) = 0 => s[Len(s)] = "add"
<1>1. s = <<>> => Rem(s) = {}
  BY DEF Rem, Positions
<1>2. Cardinality(Rem(s)) = 0 <=> Rem(s) = {}
  BY RemFinite, FS_EmptySet
<1>3. s # <<>> /\ Rem(s) = {} => s[Len(s)] = "add"
  BY DEF Rem, Positions, ChangesType
<1>4. QED
  BY <1>1, <1>2, <1>3
-----------------------------------------------------------------------------
(* The connection and the pool.                                            *)

PoolTypes ==
    /\ conn \in ConnType /\ changes \in ChangesType
    /\ inPool \in BOOLEAN /\ finishing \in Nat
    /\ held \in Reqs \cup {None, "close", "lost"}

\* Once the queued changes are applied, the pool selects on the connection
\* exactly if the connection has registered itself.
QueueEnds ==
    /\ changes = <<>> => (inPool <=> conn.registered)
    /\ changes # <<>> => (changes[Len(changes)] = "add" <=> conn.registered)

\* A leader that holds a message applies no change: the connection stays where
\* the message was read.
HeldInPool == held # None => inPool

ClosedUnregistered == conn.state = Closed => ~conn.registered

Unvalidated ==
    conn.state = NotValidated =>
        /\ conn.transceiver = "open" /\ ~conn.registered
        /\ changes = <<>> /\ ~inPool /\ held = None /\ finishing = 0

ShutdownWhenClosing == conn.shutdown => conn.state = Closing

PoolInv ==
    /\ PoolTypes
    /\ QueueEnds /\ HeldInPool /\ ClosedUnregistered /\ Unvalidated /\ ShutdownWhenClosing
    /\ FinishedCountMatches /\ TransceiverOutlivesPool /\ ExceptionWhenClosing

\* A member may take any value of its type.
LEMMA Update ==
    ASSUME NEW c \in ConnType
    PROVE  /\ \A x \in NotValidated..Closed : [c EXCEPT !.state = x] \in ConnType
           /\ \A x \in {None, "closing", "failed"} : [c EXCEPT !.exception = x] \in ConnType
           /\ \A x \in BOOLEAN : [c EXCEPT !.registered = x] \in ConnType
           /\ \A x \in Int : [c EXCEPT !.finishedCount = x] \in ConnType
           /\ \A x \in Int : [c EXCEPT !.dispatchCount = x] \in ConnType
           /\ \A x \in {"open", "shut", "closed"} : [c EXCEPT !.transceiver = x] \in ConnType
           /\ \A x \in BOOLEAN : [c EXCEPT !.shutdown = x] \in ConnType
  BY DEF ConnType

\* The members after Drops have their types.
LEMMA DropType ==
    ASSUME NEW c \in ConnType, NEW e \in {None, "closing", "failed"}
    PROVE  [c EXCEPT !.state = Closed, !.exception = e, !.transceiver = "closed"] \in ConnType
<1> DEFINE c1 == [c EXCEPT !.state = Closed]
           c2 == [c1 EXCEPT !.exception = e]
           c3 == [c2 EXCEPT !.transceiver = "closed"]
<1>1. c1 \in ConnType
  BY DEF ConnType, NotValidated, Closed
<1>2. c3 = [c EXCEPT !.state = Closed, !.exception = e, !.transceiver = "closed"]
  OBVIOUS
<1> HIDE DEF c1
<1>3. c2 \in ConnType
  BY <1>1, Update
<1> HIDE DEF c2
<1>4. c3 \in ConnType
  BY <1>3, Update
<1> HIDE DEF c3
<1>5. QED
  BY <1>2, <1>4

\* The members after Closes have their types.
LEMMA CloseType ==
    ASSUME NEW c \in ConnType, NEW e \in {None, "closing", "failed"}
    PROVE  [c EXCEPT !.state = Closed, !.exception = e, !.registered = FALSE,
                     !.finishedCount = @ + 1, !.transceiver = "shut"] \in ConnType
<1> DEFINE c1 == [c EXCEPT !.state = Closed]
           c2 == [c1 EXCEPT !.exception = e]
           c3 == [c2 EXCEPT !.registered = FALSE]
           c4 == [c3 EXCEPT !.finishedCount = c.finishedCount + 1]
           c5 == [c4 EXCEPT !.transceiver = "shut"]
<1>0. c.finishedCount + 1 \in Int
  BY DEF ConnType
<1>1. c1 \in ConnType
  BY DEF ConnType, NotValidated, Closed
<1>2. c5 = [c EXCEPT !.state = Closed, !.exception = e, !.registered = FALSE,
                     !.finishedCount = @ + 1, !.transceiver = "shut"]
  OBVIOUS
<1> HIDE DEF c1
<1>3. c2 \in ConnType
  BY <1>1, Update
<1> HIDE DEF c2
<1>4. c3 \in ConnType
  BY <1>3, Update
<1> HIDE DEF c3
<1>5. c4 \in ConnType
  BY <1>0, <1>4, Update
<1> HIDE DEF c4
<1>6. c5 \in ConnType
  BY <1>5, Update
<1> HIDE DEF c5
<1>7. QED
  BY <1>2, <1>6

\* The members after StartsClosing have their types.
LEMMA ClosingType ==
    ASSUME NEW c \in ConnType, NEW e \in {None, "closing", "failed"}, NEW h \in BOOLEAN
    PROVE  [c EXCEPT !.state = Closing, !.exception = e, !.registered = TRUE,
                     !.shutdown = h] \in ConnType
<1> DEFINE c1 == [c EXCEPT !.state = Closing]
           c2 == [c1 EXCEPT !.exception = e]
           c3 == [c2 EXCEPT !.registered = TRUE]
           c4 == [c3 EXCEPT !.shutdown = h]
<1>1. c1 \in ConnType
  BY DEF ConnType, NotValidated, Closing, Closed
<1>2. c4 = [c EXCEPT !.state = Closing, !.exception = e, !.registered = TRUE, !.shutdown = h]
  OBVIOUS
<1> HIDE DEF c1
<1>3. c2 \in ConnType
  BY <1>1, Update
<1> HIDE DEF c2
<1>4. c3 \in ConnType
  BY <1>3, Update
<1> HIDE DEF c3
<1>5. c4 \in ConnType
  BY <1>4, Update
<1> HIDE DEF c4
<1>6. QED
  BY <1>2, <1>5

\* The members after a hold have their types.
LEMMA HoldType ==
    ASSUME NEW c \in ConnType
    PROVE  [c EXCEPT !.state = Holding, !.registered = FALSE, !.finishedCount = @ + 1]
              \in ConnType
<1> DEFINE c1 == [c EXCEPT !.state = Holding]
           c2 == [c1 EXCEPT !.registered = FALSE]
           c3 == [c2 EXCEPT !.finishedCount = c.finishedCount + 1]
<1>0. c.finishedCount + 1 \in Int
  BY DEF ConnType
<1>1. c1 \in ConnType
  BY DEF ConnType, NotValidated, Holding, Closed
<1>2. c3 = [c EXCEPT !.state = Holding, !.registered = FALSE, !.finishedCount = @ + 1]
  OBVIOUS
<1> HIDE DEF c1
<1>3. c2 \in ConnType
  BY <1>1, Update
<1> HIDE DEF c2
<1>4. c3 \in ConnType
  BY <1>0, <1>3, Update
<1> HIDE DEF c3
<1>5. QED
  BY <1>2, <1>4

\* The members after an activation have their types.
LEMMA ActiveType ==
    ASSUME NEW c \in ConnType
    PROVE  [c EXCEPT !.state = Active, !.registered = TRUE] \in ConnType
<1> DEFINE c1 == [c EXCEPT !.state = Active]
           c2 == [c1 EXCEPT !.registered = TRUE]
<1>1. c1 \in ConnType
  BY DEF ConnType, NotValidated, Active, Closed
<1>2. c2 = [c EXCEPT !.state = Active, !.registered = TRUE]
  OBVIOUS
<1> HIDE DEF c1
<1>3. c2 \in ConnType
  BY <1>1, Update
<1> HIDE DEF c2
<1>4. QED
  BY <1>2, <1>3

\* The exception that is kept is one.
LEMMA FirstType ==
    ASSUME NEW c \in ConnType, NEW ex \in {"closing", "failed"}
    PROVE  First(c, ex) \in {"closing", "failed"}
  BY ReqsAssumption DEF First, ConnType

\* What the effects do to the members that matter to the others.
LEMMA DropFacts ==
    ASSUME NEW c \in ConnType, NEW ex \in {"closing", "failed"}, Drops(c, ex)
    PROVE  /\ conn' \in ConnType /\ conn'.state = Closed
           /\ conn'.dispatchCount = c.dispatchCount /\ conn'.shutdown = c.shutdown
           /\ conn'.exception # None /\ conn'.transceiver = "closed"
           /\ conn'.registered = c.registered /\ conn'.finishedCount = c.finishedCount
           /\ changes' = changes
<1>1. First(c, ex) \in {"closing", "failed"} /\ First(c, ex) # None
  BY FirstType, ReqsAssumption
<1>2. conn' = [c EXCEPT !.state = Closed, !.exception = First(c, ex), !.transceiver = "closed"]
         /\ changes' = changes
  BY DEF Drops
<1>3. conn' \in ConnType
  BY <1>1, <1>2, DropType
<1>4. QED
  BY <1>1, <1>2, <1>3 DEF ConnType

\* A validated connection is closed: one removal more is queued, and is the last.
LEMMA CloseFacts ==
    ASSUME NEW c \in ConnType, changes \in ChangesType, Closes(c)
    PROVE  /\ conn' \in ConnType /\ conn'.state = Closed
           /\ conn'.dispatchCount = c.dispatchCount /\ conn'.shutdown = c.shutdown
           /\ conn'.exception # None /\ conn'.transceiver = "shut"
           /\ ~conn'.registered /\ conn'.finishedCount = c.finishedCount + 1
           /\ changes' \in ChangesType /\ changes' # <<>>
           /\ changes'[Len(changes')] = "remove"
           /\ Cardinality(Rem(changes')) = Cardinality(Rem(changes)) + 1
<1>1. First(c, "failed") \in {"closing", "failed"} /\ First(c, "failed") # None
  BY FirstType, ReqsAssumption
<1>2. conn' = [c EXCEPT !.state = Closed, !.exception = First(c, "failed"), !.registered = FALSE,
                        !.finishedCount = @ + 1, !.transceiver = "shut"]
  BY DEF Closes
<1>3. conn' \in ConnType
  BY <1>1, <1>2, CloseType
<1>4. /\ conn'.state = Closed /\ conn'.exception # None /\ conn'.transceiver = "shut"
      /\ conn'.dispatchCount = c.dispatchCount /\ conn'.shutdown = c.shutdown
      /\ ~conn'.registered /\ conn'.finishedCount = c.finishedCount + 1
  BY <1>1, <1>2 DEF ConnType
<1>5. Append(changes, "add") \in ChangesType
  BY RemAppend
<1>6. CASE c.registered
  <2>1. changes' = Append(changes, "remove")
    BY <1>6 DEF Closes
  <2>2. QED
    BY <1>3, <1>4, <2>1, RemAppend
<1>7. CASE ~c.registered
  <2>1. changes' = Append(Append(changes, "add"), "remove")
    BY <1>7 DEF Closes
  <2>2. QED
    BY <1>3, <1>4, <1>5, <2>1, RemAppend
<1>8. QED
  BY <1>6, <1>7

\* A registration is queued unless the connection is registered.
LEMMA AddFacts ==
    ASSUME changes \in ChangesType, NEW reg \in BOOLEAN,
           changes' = IF reg THEN changes ELSE Append(changes, "add")
    PROVE  /\ changes' \in ChangesType
           /\ Cardinality(Rem(changes')) = Cardinality(Rem(changes))
           /\ reg => changes' = changes
           /\ ~reg => changes' # <<>> /\ changes'[Len(changes')] = "add"
  BY RemAppend

\* A validated connection starts to close, registered.
LEMMA StartsClosingFacts ==
    ASSUME NEW c \in ConnType, changes \in ChangesType, StartsClosing(c)
    PROVE  /\ conn' \in ConnType /\ conn'.state = Closing
           /\ conn'.dispatchCount = c.dispatchCount
           /\ conn'.shutdown <=> c.dispatchCount = 0
           /\ conn'.exception # None /\ conn'.transceiver = c.transceiver
           /\ conn'.registered /\ conn'.finishedCount = c.finishedCount
<1>1. First(c, "closing") \in {"closing", "failed"} /\ First(c, "closing") # None
  BY FirstType, ReqsAssumption
<1> DEFINE h == (c.dispatchCount = 0)
<1>2. conn' = [c EXCEPT !.state = Closing, !.exception = First(c, "closing"), !.registered = TRUE,
                        !.shutdown = h] /\ h \in BOOLEAN
  BY DEF StartsClosing
<1> HIDE DEF h
<1>3. conn' \in ConnType
  BY <1>1, <1>2, ClosingType
<1>4. /\ conn'.state = Closing /\ conn'.exception # None /\ conn'.transceiver = c.transceiver
      /\ conn'.dispatchCount = c.dispatchCount /\ (conn'.shutdown <=> h)
      /\ conn'.registered /\ conn'.finishedCount = c.finishedCount
  BY <1>1, <1>2 DEF ConnType
<1>5. QED
  BY <1>3, <1>4 DEF h

\* A hold unregisters an active connection.
LEMMA HoldFacts ==
    ASSUME NEW c \in ConnType, changes \in ChangesType, Holds(c)
    PROVE  /\ conn' \in ConnType
           /\ conn'.dispatchCount = c.dispatchCount /\ conn'.shutdown = c.shutdown
           /\ conn'.exception = c.exception /\ conn'.transceiver = c.transceiver
           /\ c.state \in {Holding, Closing, Closed} => conn' = c /\ changes' = changes
           /\ c.state \in {NotValidated, Active} =>
                 /\ conn'.state = Holding /\ ~conn'.registered
                 /\ c.registered =>
                       /\ conn'.finishedCount = c.finishedCount + 1
                       /\ changes' = Append(changes, "remove")
                 /\ ~c.registered => conn'.finishedCount = c.finishedCount /\ changes' = changes
<1> USE DEF NotValidated, Active, Holding, Closing, Closed
<1>1. CASE c.state \in {Holding, Closing, Closed}
  BY <1>1 DEF Holds, Nothing
<1>2. CASE c.state \in {NotValidated, Active} /\ c.registered
  <2>1. /\ conn' = [c EXCEPT !.state = Holding, !.registered = FALSE, !.finishedCount = @ + 1]
        /\ changes' = Append(changes, "remove")
    BY <1>2 DEF Holds
  <2>2. conn' \in ConnType
    BY <2>1, HoldType
  <2>3. QED
    BY <1>2, <2>1, <2>2 DEF ConnType
<1>3. CASE c.state \in {NotValidated, Active} /\ ~c.registered
  <2>1. conn' = [c EXCEPT !.state = Holding] /\ changes' = changes
    BY <1>3 DEF Holds
  <2>2. conn' \in ConnType
    BY <2>1 DEF ConnType
  <2>3. QED
    BY <1>3, <2>1, <2>2 DEF ConnType
<1>4. QED
  BY <1>1, <1>2, <1>3 DEF ConnType

\* An activation registers a held connection.
LEMMA ActivateFacts ==
    ASSUME NEW c \in ConnType, changes \in ChangesType, Activates(c)
    PROVE  /\ conn' \in ConnType
           /\ conn'.dispatchCount = c.dispatchCount /\ conn'.shutdown = c.shutdown
           /\ conn'.exception = c.exception /\ conn'.transceiver = c.transceiver
           /\ conn'.finishedCount = c.finishedCount
           /\ c.state \in {Active, Closing, Closed} => conn' = c /\ changes' = changes
           /\ c.state \in {NotValidated, Holding} =>
                 /\ conn'.state = Active /\ conn'.registered
                 /\ changes' = IF c.registered THEN changes ELSE Append(changes, "add")
<1> USE DEF NotValidated, Active, Holding, Closing, Closed
<1>1. CASE c.state \in {Active, Closing, Closed}
  BY <1>1 DEF Activates, Nothing
<1>2. CASE c.state \in {NotValidated, Holding}
  <2>1. /\ conn' = [c EXCEPT !.state = Active, !.registered = TRUE]
        /\ changes' = IF c.registered THEN changes ELSE Append(changes, "add")
    BY <1>2 DEF Activates
  <2>2. conn' \in ConnType
    BY <2>1, ActiveType
  <2>3. QED
    BY <1>2, <2>1, <2>2 DEF ConnType
<1>3. QED
  BY <1>1, <1>2 DEF ConnType

\* Removals counts the removals that are queued.
LEMMA RemovalsIsRem == Removals = Cardinality(Rem(changes))
  BY DEF Removals, Rem, Positions

\* The same after a step.
LEMMA RemovalsIsRemPrime == Removals' = Cardinality(Rem(changes'))
  BY DEF Removals, Rem, Positions

\* A connection that is not validated drops.
LEMMA DropPool ==
    ASSUME PoolInv, NEW ex \in {"closing", "failed"}, Drops(conn, ex),
           UNCHANGED <<inPool, finishing>>, held' \in {held, None}
    PROVE  PoolInv'
<1> USE DEF NotValidated, Active, Holding, Closing, Closed
<1>1. conn \in ConnType /\ conn.state = NotValidated
  BY DEF PoolInv, PoolTypes, Drops
<1>2. /\ conn' \in ConnType /\ conn'.state = Closed /\ conn'.shutdown = conn.shutdown
      /\ conn'.exception # None /\ conn'.transceiver = "closed"
      /\ conn'.registered = conn.registered /\ conn'.finishedCount = conn.finishedCount
      /\ changes' = changes
  BY <1>1, DropFacts
<1>3. /\ ~conn.registered /\ changes' = <<>> /\ ~inPool' /\ held' = None /\ finishing' = 0
      /\ ~conn.shutdown
  BY <1>1, <1>2 DEF PoolInv, Unvalidated, ShutdownWhenClosing
<1>4. PoolTypes'
  BY <1>2 DEF PoolInv, PoolTypes
<1>5. FinishedCountMatches'
  BY <1>2 DEF PoolInv, FinishedCountMatches, Removals
<1>6. QED
  BY <1>2, <1>3, <1>4, <1>5
     DEF PoolInv, QueueEnds, HeldInPool, ClosedUnregistered, Unvalidated, ShutdownWhenClosing,
         TransceiverOutlivesPool, ExceptionWhenClosing

\* A validated connection is closed; ShutdownFails has taken the flag back.
LEMMA ClosePool ==
    ASSUME PoolInv, NEW c \in {conn, [conn EXCEPT !.shutdown = FALSE]}, Closes(c), ~c.shutdown,
           UNCHANGED <<inPool, finishing>>, held' \in {held, None}
    PROVE  PoolInv'
<1> USE DEF NotValidated, Active, Holding, Closing, Closed
<1>1. /\ c \in ConnType /\ c.finishedCount = conn.finishedCount /\ conn.finishedCount \in Int
      /\ changes \in ChangesType
  BY DEF PoolInv, PoolTypes, ConnType
<1>2. /\ conn' \in ConnType /\ conn'.state = Closed /\ conn'.shutdown = c.shutdown
      /\ conn'.exception # None /\ conn'.transceiver = "shut"
      /\ ~conn'.registered /\ conn'.finishedCount = c.finishedCount + 1
      /\ changes' \in ChangesType /\ changes' # <<>>
      /\ changes'[Len(changes')] = "remove"
      /\ Cardinality(Rem(changes')) = Cardinality(Rem(changes)) + 1
  BY <1>1, CloseFacts
<1>3. PoolTypes'
  BY <1>2 DEF PoolInv, PoolTypes
<1>4. FinishedCountMatches'
  <2>1. Cardinality(Rem(changes)) \in Nat /\ finishing \in Nat
    BY RemFinite DEF PoolInv, PoolTypes
  <2>2. QED
    BY <1>1, <1>2, <2>1, RemovalsIsRem, RemovalsIsRemPrime DEF PoolInv, FinishedCountMatches
<1>5. HeldInPool'
  BY DEF PoolInv, HeldInPool
<1>6. QED
  BY <1>2, <1>3, <1>4, <1>5
     DEF PoolInv, QueueEnds, ClosedUnregistered, Unvalidated, ShutdownWhenClosing,
         TransceiverOutlivesPool, ExceptionWhenClosing

\* A step that touches neither the pool's state nor what the pool knows of the
\* connection; a message may be given up.
Quiet ==
    /\ conn' \in ConnType
    /\ conn'.state = conn.state /\ conn'.exception = conn.exception
    /\ conn'.registered = conn.registered /\ conn'.finishedCount = conn.finishedCount
    /\ conn'.transceiver = conn.transceiver
    /\ conn'.shutdown => conn.state = Closing
    /\ UNCHANGED <<changes, inPool, finishing>>

\* A quiet step keeps the agreement with the pool.
LEMMA QuietPool ==
    ASSUME PoolInv, Quiet, held' \in {held, None}
    PROVE  PoolInv'
<1>1. PoolTypes'
  BY DEF PoolInv, PoolTypes, Quiet
<1>2. FinishedCountMatches'
  BY DEF PoolInv, FinishedCountMatches, Removals, Quiet
<1>3. QueueEnds' /\ HeldInPool' /\ ClosedUnregistered' /\ Unvalidated' /\ ShutdownWhenClosing'
  BY DEF PoolInv, Quiet, QueueEnds, HeldInPool, ClosedUnregistered, Unvalidated,
         ShutdownWhenClosing
<1>4. TransceiverOutlivesPool' /\ ExceptionWhenClosing'
  BY DEF PoolInv, Quiet, TransceiverOutlivesPool, ExceptionWhenClosing
<1>5. QED
  BY <1>1, <1>2, <1>3, <1>4 DEF PoolInv

\* So does a step that closes the connection for good.
LEMMA AbortPool ==
    ASSUME PoolInv, NEW c \in {conn, [conn EXCEPT !.shutdown = FALSE]}, Aborts(c), ~c.shutdown,
           c.state = NotValidated => c = conn,
           UNCHANGED <<inPool, finishing>>, held' \in {held, None}
    PROVE  PoolInv'
<1>1. CASE c.state = Closed /\ Nothing(c)
  <2>1. Quiet
    BY <1>1 DEF Nothing, Quiet, PoolInv, PoolTypes, ConnType
  <2>2. QED
    BY <2>1, QuietPool
<1>2. CASE Drops(c, "failed")
  <2>1. c = conn
    BY <1>2 DEF Drops
  <2>2. QED
    BY <1>2, <2>1, DropPool
<1>3. CASE Closes(c)
  BY <1>3, ClosePool
<1>4. QED
  BY <1>1, <1>2, <1>3 DEF Aborts

\* So does a step that starts to close it.
LEMMA DestroyPool ==
    ASSUME PoolInv, Destroys(conn), ~conn.shutdown, UNCHANGED <<inPool, finishing, held>>
    PROVE  PoolInv'
<1> USE DEF NotValidated, Active, Holding, Closing, Closed
<1>0. conn \in ConnType /\ changes \in ChangesType
  BY DEF PoolInv, PoolTypes
<1>1. CASE conn.state = Closing /\ Nothing(conn)
  <2>1. Quiet
    BY <1>0, <1>1 DEF Nothing, Quiet
  <2>2. QED
    BY <2>1, QuietPool
<1>2. CASE /\ conn.state = Closed /\ conn' = [conn EXCEPT !.exception = First(conn, "closing")]
           /\ changes' = changes
  <2>1. First(conn, "closing") = conn.exception
    BY <1>2 DEF First, PoolInv, ExceptionWhenClosing
  <2>2. conn' = conn
    BY <1>0, <1>2, <2>1 DEF ConnType
  <2>3. Quiet
    BY <1>0, <1>2, <2>2 DEF Quiet
  <2>4. QED
    BY <2>3, QuietPool
<1>3. CASE Drops(conn, "closing")
  BY <1>3, DropPool
<1>4. CASE StartsClosing(conn)
  <2>1. /\ conn' \in ConnType /\ conn'.state = Closing
        /\ conn'.exception # None /\ conn'.transceiver = conn.transceiver
        /\ conn'.registered /\ conn'.finishedCount = conn.finishedCount
    BY <1>0, <1>4, StartsClosingFacts
  <2>2. conn.state \in {Active, Holding} /\ conn.registered \in BOOLEAN
           /\ changes' = IF conn.registered THEN changes ELSE Append(changes, "add")
    BY <1>0, <1>4 DEF StartsClosing, ConnType
  <2>3. /\ changes' \in ChangesType
        /\ Cardinality(Rem(changes')) = Cardinality(Rem(changes))
        /\ conn.registered => changes' = changes
        /\ ~conn.registered => changes' # <<>> /\ changes'[Len(changes')] = "add"
    BY <1>0, <2>2, AddFacts
  <2>4. PoolTypes'
    BY <2>1, <2>3 DEF PoolInv, PoolTypes
  <2>5. FinishedCountMatches'
    BY <2>1, <2>3, RemovalsIsRem, RemovalsIsRemPrime DEF PoolInv, FinishedCountMatches
  <2>6. QueueEnds'
    BY <2>1, <2>3 DEF PoolInv, QueueEnds
  <2>7. TransceiverOutlivesPool'
    BY <2>1, <2>2 DEF PoolInv, TransceiverOutlivesPool
  <2>8. QED
    BY <2>1, <2>4, <2>5, <2>6, <2>7
       DEF PoolInv, HeldInPool, ClosedUnregistered, Unvalidated, ShutdownWhenClosing,
           ExceptionWhenClosing
<1>5. QED
  BY <1>1, <1>2, <1>3, <1>4 DEF Destroys

\* So does a hold.
LEMMA HoldPool ==
    ASSUME PoolInv, Holds(conn), ~conn.shutdown, UNCHANGED <<inPool, finishing, held>>
    PROVE  PoolInv'
<1> USE DEF NotValidated, Active, Holding, Closing, Closed
<1>0. conn \in ConnType /\ changes \in ChangesType
  BY DEF PoolInv, PoolTypes
<1>1. CASE conn.state \in {Holding, Closing, Closed}
  <2>1. conn' = conn /\ changes' = changes
    BY <1>0, <1>1, HoldFacts
  <2>2. Quiet
    BY <1>0, <2>1 DEF Quiet
  <2>3. QED
    BY <2>2, QuietPool
<1>2. CASE conn.state \in {NotValidated, Active}
  <2>1. /\ conn' \in ConnType /\ conn'.state = Holding /\ ~conn'.registered
        /\ conn'.shutdown = conn.shutdown
        /\ conn'.exception = conn.exception /\ conn'.transceiver = conn.transceiver
    BY <1>0, <1>2, HoldFacts
  <2>2. CASE conn.registered
    <3>1. conn'.finishedCount = conn.finishedCount + 1 /\ changes' = Append(changes, "remove")
      BY <1>0, <1>2, <2>2, HoldFacts
    <3>2. /\ changes' \in ChangesType /\ changes' # <<>> /\ changes'[Len(changes')] = "remove"
          /\ Cardinality(Rem(changes')) = Cardinality(Rem(changes)) + 1
      BY <1>0, <3>1, RemAppend
    <3>3. PoolTypes'
      BY <2>1, <3>2 DEF PoolInv, PoolTypes
    <3>4. FinishedCountMatches'
      <4>1. Cardinality(Rem(changes)) \in Nat /\ finishing \in Nat
        BY RemFinite DEF PoolInv, PoolTypes
      <4>2. QED
        BY <3>1, <3>2, <4>1, RemovalsIsRem, RemovalsIsRemPrime DEF PoolInv, FinishedCountMatches
    <3>5. TransceiverOutlivesPool'
      BY <1>2, <2>1 DEF PoolInv, TransceiverOutlivesPool
    <3>6. QED
      BY <1>2, <2>1, <3>2, <3>3, <3>4, <3>5
         DEF PoolInv, QueueEnds, HeldInPool, ClosedUnregistered, Unvalidated,
             ShutdownWhenClosing, ExceptionWhenClosing
  <2>3. CASE ~conn.registered
    <3>1. conn'.finishedCount = conn.finishedCount /\ changes' = changes
      BY <1>0, <1>2, <2>3, HoldFacts
    <3>2. PoolTypes'
      BY <2>1, <3>1 DEF PoolInv, PoolTypes
    <3>3. FinishedCountMatches'
      BY <3>1 DEF PoolInv, FinishedCountMatches, Removals
    <3>4. TransceiverOutlivesPool'
      BY <1>2, <2>1 DEF PoolInv, TransceiverOutlivesPool
    <3>5. QED
      BY <1>2, <2>1, <2>3, <3>1, <3>2, <3>3, <3>4
         DEF PoolInv, QueueEnds, HeldInPool, ClosedUnregistered, Unvalidated,
             ShutdownWhenClosing, ExceptionWhenClosing
  <2>4. QED
    BY <2>2, <2>3
<1>3. QED
  BY <1>0, <1>1, <1>2 DEF ConnType

\* So does an activation.
LEMMA ActivatePool ==
    ASSUME PoolInv, Activates(conn), ~conn.shutdown, UNCHANGED <<inPool, finishing, held>>
    PROVE  PoolInv'
<1> USE DEF NotValidated, Active, Holding, Closing, Closed
<1>0. conn \in ConnType /\ changes \in ChangesType
  BY DEF PoolInv, PoolTypes
<1>1. CASE conn.state \in {Active, Closing, Closed}
  <2>1. conn' = conn /\ changes' = changes
    BY <1>0, <1>1, ActivateFacts
  <2>2. Quiet
    BY <1>0, <2>1 DEF Quiet
  <2>3. QED
    BY <2>2, QuietPool
<1>2. CASE conn.state \in {NotValidated, Holding}
  <2>1. /\ conn' \in ConnType /\ conn'.state = Active /\ conn'.registered
        /\ conn'.shutdown = conn.shutdown /\ conn'.finishedCount = conn.finishedCount
        /\ conn'.exception = conn.exception /\ conn'.transceiver = conn.transceiver
    BY <1>0, <1>2, ActivateFacts
  <2>2. conn.registered \in BOOLEAN
           /\ changes' = IF conn.registered THEN changes ELSE Append(changes, "add")
    BY <1>0, <1>2, ActivateFacts DEF ConnType
  <2>3. /\ changes' \in ChangesType
        /\ Cardinality(Rem(changes')) = Cardinality(Rem(changes))
        /\ conn.registered => changes' = changes
        /\ ~conn.registered => changes' # <<>> /\ changes'[Len(changes')] = "add"
    BY <1>0, <2>2, AddFacts
  <2>4. PoolTypes'
    BY <2>1, <2>3 DEF PoolInv, PoolTypes
  <2>5. FinishedCountMatches'
    BY <2>1, <2>3, RemovalsIsRem, RemovalsIsRemPrime DEF PoolInv, FinishedCountMatches
  <2>6. QueueEnds'
    BY <2>1, <2>3 DEF PoolInv, QueueEnds
  <2>7. TransceiverOutlivesPool'
    BY <1>2, <2>1 DEF PoolInv, TransceiverOutlivesPool
  <2>8. QED
    BY <1>2, <2>1, <2>4, <2>5, <2>6, <2>7
       DEF PoolInv, HeldInPool, ClosedUnregistered, Unvalidated, ShutdownWhenClosing,
           ExceptionWhenClosing
<1>3. QED
  BY <1>0, <1>1, <1>2 DEF ConnType

\* The pool applies a change.
LEMMA PoolChangesPool ==
    ASSUME PoolInv, PoolChanges
    PROVE  PoolInv'
<1> USE DEF NotValidated, Active, Holding, Closing, Closed
<1>0. /\ conn \in ConnType /\ changes \in ChangesType /\ changes # <<>>
      /\ finishing \in Nat /\ held = None
      /\ conn' = conn /\ held' = held /\ changes' = Tail(changes)
      /\ inPool' = (Head(changes) = "add")
      /\ finishing' = IF Head(changes) = "remove" THEN finishing + 1 ELSE finishing
  BY DEF PoolInv, PoolTypes, PoolChanges
<1>1. /\ changes' \in ChangesType /\ Head(changes) \in {"add", "remove"}
      /\ changes' # <<>> => changes'[Len(changes')] = changes[Len(changes)]
      /\ changes' = <<>> => Head(changes) = changes[Len(changes)]
      /\ Cardinality(Rem(changes)) =
            Cardinality(Rem(changes')) + (IF Head(changes) = "remove" THEN 1 ELSE 0)
  BY <1>0, RemTail
<1>2. PoolTypes'
  BY <1>0, <1>1 DEF PoolInv, PoolTypes
<1>3. QueueEnds'
  BY <1>0, <1>1 DEF PoolInv, QueueEnds
<1>4. FinishedCountMatches'
  <2>1. Cardinality(Rem(changes)) \in Nat /\ Cardinality(Rem(changes')) \in Nat
    BY <1>0, <1>1, RemFinite
  <2>2. conn.finishedCount = Cardinality(Rem(changes)) + finishing
    BY RemovalsIsRem DEF PoolInv, FinishedCountMatches
  <2>3. conn'.finishedCount = Cardinality(Rem(changes')) + finishing'
    BY <1>0, <1>1, <2>1, <2>2
  <2>4. QED
    BY <2>3, RemovalsIsRemPrime DEF FinishedCountMatches
<1>5. conn.state # NotValidated /\ conn.transceiver # "closed"
  BY <1>0 DEF PoolInv, Unvalidated, TransceiverOutlivesPool
<1>6. QED
  BY <1>0, <1>2, <1>3, <1>4, <1>5
     DEF PoolInv, HeldInPool, ClosedUnregistered, Unvalidated, ShutdownWhenClosing,
         TransceiverOutlivesPool, ExceptionWhenClosing

\* The pool reads a message of a connection it selects on.
LEMMA PoolReadsPool ==
    ASSUME PoolInv, inb \in Seq(Reqs \cup {"close", "lost"}), PoolReads
    PROVE  PoolInv'
<1>0. /\ inPool /\ UNCHANGED <<conn, changes, inPool, finishing>> /\ held' = Head(inb)
      /\ Head(inb) \in Reqs \cup {"close", "lost"}
  BY DEF PoolReads
<1>1. PoolTypes' /\ FinishedCountMatches'
  BY <1>0 DEF PoolInv, PoolTypes, FinishedCountMatches, Removals
<1>2. QED
  BY <1>0, <1>1
     DEF PoolInv, QueueEnds, HeldInPool, ClosedUnregistered, Unvalidated, ShutdownWhenClosing,
         TransceiverOutlivesPool, ExceptionWhenClosing

\* finished(): when the last one is made nothing of the connection is left in
\* the pool.
LEMMA FinishedPool ==
    ASSUME PoolInv, Finished
    PROVE  PoolInv'
<1> USE DEF NotValidated, Active, Holding, Closing, Closed
<1> DEFINE last == conn.finishedCount = 1 /\ conn.state = Closed
           c1 == [conn EXCEPT !.finishedCount = conn.finishedCount - 1]
           t == IF last THEN "closed" ELSE conn.transceiver
<1>0. /\ conn \in ConnType /\ changes \in ChangesType /\ finishing \in Nat /\ finishing > 0
      /\ ~conn.shutdown /\ UNCHANGED <<changes, inPool, held>> /\ finishing' = finishing - 1
  BY DEF PoolInv, PoolTypes, Finished, Unlocked
<1>1. conn' = [c1 EXCEPT !.transceiver = t]
  BY DEF Finished
<1>2. c1 \in ConnType /\ t \in {"open", "shut", "closed"}
  BY <1>0 DEF ConnType
<1>3. /\ c1.state = conn.state /\ c1.exception = conn.exception
      /\ c1.registered = conn.registered /\ c1.shutdown = conn.shutdown
      /\ c1.finishedCount = conn.finishedCount - 1
  BY <1>0 DEF ConnType
<1> HIDE DEF c1, t
<1>4. /\ conn' \in ConnType
      /\ conn'.state = conn.state /\ conn'.exception = conn.exception
      /\ conn'.registered = conn.registered /\ conn'.shutdown = conn.shutdown
      /\ conn'.finishedCount = conn.finishedCount - 1 /\ conn'.transceiver = t
  BY <1>1, <1>2, <1>3 DEF ConnType
<1>5. PoolTypes'
  BY <1>0, <1>4 DEF PoolInv, PoolTypes
<1>6. Cardinality(Rem(changes)) \in Nat /\ conn.finishedCount = Cardinality(Rem(changes)) + finishing
  BY <1>0, RemFinite, RemovalsIsRem DEF PoolInv, FinishedCountMatches
<1>7. FinishedCountMatches'
  <2>1. conn'.finishedCount = Cardinality(Rem(changes')) + finishing'
    BY <1>0, <1>4, <1>6
  <2>2. QED
    BY <2>1, RemovalsIsRemPrime DEF FinishedCountMatches
<1>8. conn.state # NotValidated /\ conn.transceiver # "closed"
  BY <1>0 DEF PoolInv, Unvalidated, TransceiverOutlivesPool
<1>9. TransceiverOutlivesPool'
  <2>1. SUFFICES ASSUME conn'.transceiver = "closed"
                 PROVE  /\ conn'.state = Closed /\ ~conn'.registered /\ changes' = <<>>
                        /\ ~inPool' /\ held' = None /\ finishing' = 0
    BY DEF TransceiverOutlivesPool
  <2>2. last
    BY <1>4, <1>8, <2>1 DEF t
  <2>3. finishing' = 0 /\ Cardinality(Rem(changes)) = 0 /\ ~conn.registered
    BY <1>0, <1>6, <2>2 DEF PoolInv, ClosedUnregistered
  <2>4. changes = <<>>
    BY <1>0, <2>3, RemNone DEF PoolInv, QueueEnds
  <2>5. ~inPool /\ held = None
    BY <2>3, <2>4 DEF PoolInv, QueueEnds, HeldInPool
  <2>6. QED
    BY <1>0, <1>4, <2>2, <2>3, <2>4, <2>5
<1>10. QED
  BY <1>0, <1>4, <1>5, <1>7, <1>8, <1>9
     DEF PoolInv, QueueEnds, HeldInPool, ClosedUnregistered, Unvalidated, ShutdownWhenClosing,
         ExceptionWhenClosing
-----------------------------------------------------------------------------
(* What the sections of the code do with setState().                       *)

\* Which of the effects above each section has.
LEMMA ActionEffects ==
    ASSUME conn \in ConnType, changes \in ChangesType
    PROVE  /\ ValidateFails => Aborts(conn)
           /\ ValidateHolds => Holds(conn)
           /\ FactoryActivates => Activates(conn)
           /\ Hold => Holds(conn)
           /\ Activate => Activates(conn)
           /\ Destroy => Destroys(conn)
           /\ Close => Aborts(conn) \/ Destroys(conn)
           /\ Monitor => Destroys(conn)
           /\ WaitTimesOut => Aborts(conn)
           /\ Exception => Aborts(conn)
           /\ MessageCloses => Aborts(conn)
           /\ \A r \in Reqs : ResponseFails(r) => Aborts(conn)
           /\ \A r \in Reqs : InvokeThrows(r) => Aborts(conn)
           /\ ShutdownFails => Aborts([conn EXCEPT !.shutdown = FALSE])
<1>1. Self = Pair(conn, <<>>)
  BY DEF Self, Pair
<1>2. [Self EXCEPT !.c.shutdown = FALSE] = Pair([conn EXCEPT !.shutdown = FALSE], <<>>)
  BY <1>1, UnlockPair
<1>3. Becomes(SetStateEx(Self, Closed, "failed")) => Aborts(conn)
  BY <1>1, AbortEffect
<1>4. Becomes(SetStateEx(Self, Closing, "closing")) => Destroys(conn)
  BY <1>1, DestroyEffect
<1>5. Becomes(SetState(Self, Holding)) => Holds(conn)
  BY <1>1, HoldEffect
<1>6. Becomes(SetState(Self, Active)) => Activates(conn)
  BY <1>1, ActivateEffect
<1>7. MessageCloses => Aborts(conn)
  <2>1. SUFFICES ASSUME MessageCloses PROVE Aborts(conn)
    OBVIOUS
  <2>2. CASE conn.state = Closed
    <3>1. Becomes(Self)
      BY <2>1, <2>2 DEF MessageCloses
    <3>2. Nothing(conn)
      BY <3>1, <1>1, BecomesPair, Concats DEF Nothing
    <3>3. QED
      BY <2>2, <3>2 DEF Aborts
  <2>3. CASE conn.state # Closed
    BY <1>3, <2>1, <2>3 DEF MessageCloses
  <2>4. QED
    BY <2>2, <2>3
<1>8. ShutdownFails => Aborts([conn EXCEPT !.shutdown = FALSE])
  <2>1. [conn EXCEPT !.shutdown = FALSE] \in ConnType
    BY Update
  <2>2. QED
    BY <1>2, <2>1, AbortEffect DEF ShutdownFails
<1>9. ValidateFails => Aborts(conn)
  BY <1>3 DEF ValidateFails
<1>10. ValidateHolds => Holds(conn)
  BY <1>5 DEF ValidateHolds
<1>11. FactoryActivates => Activates(conn)
  BY <1>6 DEF FactoryActivates
<1>12. Hold => Holds(conn)
  BY <1>5 DEF Hold
<1>13. Activate => Activates(conn)
  BY <1>6 DEF Activate
<1>14. Destroy => Destroys(conn)
  BY <1>4 DEF Destroy
<1>15. Close => Aborts(conn) \/ Destroys(conn)
  BY <1>3, <1>4 DEF Close
<1>16. Monitor => Destroys(conn)
  BY <1>4 DEF Monitor
<1>17. WaitTimesOut => Aborts(conn)
  BY <1>3 DEF WaitTimesOut
<1>18. Exception => Aborts(conn)
  BY <1>3 DEF Exception
<1>19. \A r \in Reqs : ResponseFails(r) => Aborts(conn)
  BY <1>3 DEF ResponseFails
<1>20. \A r \in Reqs : InvokeThrows(r) => Aborts(conn)
  BY <1>3 DEF InvokeThrows
<1>21. QED
  BY <1>7, <1>8, <1>9, <1>10, <1>11, <1>12, <1>13, <1>14, <1>15, <1>16, <1>17, <1>18,
     <1>19, <1>20
-----------------------------------------------------------------------------
(* The rest of the state.                                                  *)

RestTypes ==
    /\ sender \in Reqs \cup {None}
    /\ factory \in {"check", "write", "validated", "failed", "activate", "done"}
    /\ call \in [Reqs -> {"idle", "invoke", "write", "failed", "count", "threw", "done"}]
    /\ left \in [Reqs -> Int]
    /\ waiter \in {"none", "waiting", "draining", "returned"}
    /\ holder \in {"none", "waiting", "returned"} /\ holds \in 0..MaxHolds
    /\ timed \in BOOLEAN /\ peer \in {"connecting", "open", "gone"}
    /\ inb \in Seq(Reqs \cup {"close", "lost"})
    /\ sent \in Seq(Reqs \cup {"validate", "close"}) /\ got \in 0..Len(sent)

\* What was sent is a sequence of messages.
LEMMA SentType ==
    ASSUME RestTypes, NEW m \in Reqs \cup {"validate", "close"},
           sent' = sent \/ sent' = Append(sent, m), got' = got
    PROVE  sent' \in Seq(Reqs \cup {"validate", "close"}) /\ got' \in 0..Len(sent')
<1>1. CASE sent' = sent
  BY <1>1 DEF RestTypes
<1>2. CASE sent' = Append(sent, m)
  BY <1>2 DEF RestTypes
<1>3. QED
  BY <1>1, <1>2

\* Every step keeps the kinds of the members that the pool does not see.
LEMMA RestTypesNext ==
    ASSUME RestTypes, held \in Reqs \cup {None, "close", "lost"}, [Next]_vars
    PROVE  RestTypes'
<1> USE DEF RestTypes, threads, network, dispatch, pool
<1>1. CASE ValidateChecks
  BY <1>1 DEF ValidateChecks
<1>2. CASE ValidateWrites
  <2>1. sent' \in Seq(Reqs \cup {"validate", "close"}) /\ got' \in 0..Len(sent')
    BY <1>2, SentType DEF ValidateWrites
  <2>2. factory' \in {"validated", "failed"}
    BY <1>2 DEF ValidateWrites
  <2>3. QED
    BY <1>2, <2>1, <2>2 DEF ValidateWrites
<1>3. CASE ValidateFails
  BY <1>3 DEF ValidateFails
<1>4. CASE ValidateHolds
  BY <1>4 DEF ValidateHolds
<1>5. CASE FactoryActivates
  BY <1>5 DEF FactoryActivates
<1>6. CASE PoolChanges
  BY <1>6 DEF PoolChanges
<1>7. CASE PoolReads
  BY <1>7 DEF PoolReads
<1>8. CASE Exception
  BY <1>8 DEF Exception
<1>9. CASE MessageCloses
  BY <1>9 DEF MessageCloses
<1>10. CASE MessageRequest
  <2>1. CASE UNCHANGED dispatch
    BY <1>10, <2>1 DEF MessageRequest
  <2>2. CASE /\ left' = [left EXCEPT ![held] = InvokeNum[held]]
             /\ call' = [call EXCEPT ![held] = IF InvokeNum[held] = 0 THEN "done" ELSE "invoke"]
    <3>1. held \in Reqs /\ InvokeNum[held] \in Int
      BY <1>10, ReqsAssumption DEF MessageRequest
    <3>2. left' \in [Reqs -> Int]
      BY <2>2, <3>1
    <3>3. call' \in [Reqs -> {"idle", "invoke", "write", "failed", "count", "threw", "done"}]
      BY <2>2, <3>1
    <3>4. QED
      BY <1>10, <3>2, <3>3 DEF MessageRequest
  <2>3. QED
    BY <1>10, <2>1, <2>2 DEF MessageRequest, ParseRequest
<1>11. CASE Finished
  BY <1>11 DEF Finished
<1>12. CASE ShutdownWrites
  BY <1>12 DEF ShutdownWrites
<1>13. CASE ShutdownFails
  BY <1>13 DEF ShutdownFails
<1>14. CASE WaitForDispatches
  BY <1>14 DEF WaitForDispatches
<1>15. CASE WaitTimesOut
  BY <1>15 DEF WaitTimesOut
<1>16. CASE WaitReturns
  BY <1>16 DEF WaitReturns
<1>17. CASE Hold
  BY <1>17, BoundsAssumption DEF Hold
<1>18. CASE WaitUntilHolding
  BY <1>18 DEF WaitUntilHolding
<1>19. CASE Activate
  BY <1>19 DEF Activate
<1>20. CASE Destroy
  BY <1>20 DEF Destroy
<1>21. CASE Close
  BY <1>21 DEF Close
<1>22. CASE Monitor
  BY <1>22 DEF Monitor
<1>23. CASE PeerReads
  <2>1. got' \in 0..Len(sent)
    BY <1>23 DEF PeerReads
  <2>2. /\ sent[got'] = "validate" => peer' = "open" /\ inb' = inb
        /\ sent[got'] = "close" => peer' = "gone" /\ inb' = Append(inb, "lost")
        /\ sent[got'] \notin {"validate", "close"} => UNCHANGED <<peer, inb>>
    BY <1>23 DEF PeerReads
  <2>3. peer' \in {"connecting", "open", "gone"} /\ inb' \in {inb, Append(inb, "lost")}
    BY <2>2
  <2>4. Append(inb, "lost") \in Seq(Reqs \cup {"close", "lost"})
    OBVIOUS
  <2>5. inb' \in Seq(Reqs \cup {"close", "lost"})
    BY <2>3, <2>4
  <2>6. QED
    BY <1>23, <2>1, <2>3, <2>5 DEF PeerReads
<1>24. CASE PeerGoes
  BY <1>24 DEF PeerGoes
<1>25. ASSUME NEW r \in Reqs, ResponseLocks(r) PROVE RestTypes'
  BY <1>25 DEF ResponseLocks, Goto
<1>26. ASSUME NEW r \in Reqs, ResponseWrites(r) PROVE RestTypes'
  <2>1. sent' \in Seq(Reqs \cup {"validate", "close"}) /\ got' \in 0..Len(sent')
    BY <1>26, SentType DEF ResponseWrites
  <2>2. call' \in [Reqs -> {"idle", "invoke", "write", "failed", "count", "threw", "done"}]
    BY <1>26 DEF ResponseWrites, Goto
  <2>3. QED
    BY <1>26, <2>1, <2>2 DEF ResponseWrites
<1>27. ASSUME NEW r \in Reqs, ResponseFails(r) PROVE RestTypes'
  BY <1>27 DEF ResponseFails, Goto
<1>28. ASSUME NEW r \in Reqs, ResponseCounts(r) PROVE RestTypes'
  BY <1>28 DEF ResponseCounts, Goto
<1>29. ASSUME NEW r \in Reqs, NoResponse(r) PROVE RestTypes'
  BY <1>29 DEF NoResponse, Goto
<1>30. ASSUME NEW r \in Reqs, InvokeThrows(r) PROVE RestTypes'
  BY <1>30 DEF InvokeThrows, Goto
<1>31. ASSUME NEW r \in Reqs, InvokeAbandons(r) PROVE RestTypes'
  BY <1>31 DEF InvokeAbandons, Goto
<1>32. ASSUME NEW m \in Reqs \cup {"close"}, PeerSends(m) PROVE RestTypes'
  BY <1>32 DEF PeerSends
<1>33. CASE UNCHANGED vars
  BY <1>33 DEF vars
<1>34. QED
  BY <1>1, <1>2, <1>3, <1>4, <1>5, <1>6, <1>7, <1>8, <1>9, <1>10, <1>11, <1>12, <1>13,
     <1>14, <1>15, <1>16, <1>17, <1>18, <1>19, <1>20, <1>21, <1>22, <1>23, <1>24, <1>25,
     <1>26, <1>27, <1>28, <1>29, <1>30, <1>31, <1>32, <1>33
     DEF Next, Factory, Pool, Dispatch, InitiateShutdown, Waiter, Owner, Peer
-----------------------------------------------------------------------------
(* What every call of setState() keeps.                                    *)

Settles(c) ==
    /\ conn' \in ConnType /\ conn'.dispatchCount = c.dispatchCount
    /\ conn'.state # NotValidated
    /\ c.state >= Closing => conn'.state >= c.state
    /\ c.state >= Closing /\ c.exception # None => conn'.exception = c.exception
    /\ c.state = Closed => conn'.transceiver = c.transceiver
    /\ conn'.transceiver = "closed" => c.transceiver = "closed" \/ c.state = NotValidated
    /\ conn'.shutdown =>
          c.state \in {Active, Holding} /\ c.dispatchCount = 0 /\ conn'.state = Closing

\* A call of setState() may change nothing.
LEMMA NothingSettles ==
    ASSUME NEW c \in ConnType, Nothing(c), ~c.shutdown, c.state # NotValidated
    PROVE  Settles(c)
  BY DEF Settles, Nothing, ConnType, NotValidated, Active, Holding, Closing, Closed

\* Whatever setState() is asked for, a connection that closes goes on closing
\* with the exception it has.
LEMMA SetStateSettles ==
    ASSUME NEW c \in ConnType, changes \in ChangesType, ~c.shutdown,
           Aborts(c) \/ Destroys(c) \/ Holds(c) \/ Activates(c)
    PROVE  Settles(c)
<1> USE DEF NotValidated, Active, Holding, Closing, Closed
<1>0. c.state \in 0..4
  BY DEF ConnType
<1>1. CASE Nothing(c) /\ c.state # NotValidated
  BY <1>1, NothingSettles
<1>2. ASSUME NEW ex \in {"closing", "failed"}, Drops(c, ex) PROVE Settles(c)
  <2>1. c.state = NotValidated
    BY <1>2 DEF Drops
  <2>2. QED
    BY <1>2, <2>1, DropFacts DEF Settles
<1>3. CASE Closes(c)
  <2>1. /\ conn' \in ConnType /\ conn'.state = Closed /\ conn'.transceiver = "shut"
        /\ conn'.dispatchCount = c.dispatchCount /\ conn'.shutdown = c.shutdown
    BY <1>3, CloseFacts
  <2>2. conn'.exception = First(c, "failed") /\ c.state \in {Active, Holding, Closing}
    BY <1>3 DEF Closes, ConnType
  <2>3. c.exception # None => conn'.exception = c.exception
    BY <2>2 DEF First
  <2>4. QED
    BY <1>0, <2>1, <2>2, <2>3 DEF Settles
<1>4. CASE StartsClosing(c)
  <2>1. c.state \in {Active, Holding}
    BY <1>4 DEF StartsClosing
  <2>2. /\ conn' \in ConnType /\ conn'.state = Closing /\ conn'.transceiver = c.transceiver
        /\ conn'.dispatchCount = c.dispatchCount /\ (conn'.shutdown <=> c.dispatchCount = 0)
    BY <1>4, StartsClosingFacts
  <2>3. QED
    BY <2>1, <2>2 DEF Settles
<1>5. CASE Holds(c)
  <2>1. CASE c.state \in {Holding, Closing, Closed}
    BY <1>1, <1>5, <2>1, HoldFacts DEF Nothing
  <2>2. CASE c.state \in {NotValidated, Active}
    BY <1>5, <2>2, HoldFacts DEF Settles
  <2>3. QED
    BY <1>0, <2>1, <2>2
<1>6. CASE Activates(c)
  <2>1. CASE c.state \in {Active, Closing, Closed}
    BY <1>1, <1>6, <2>1, ActivateFacts DEF Nothing
  <2>2. CASE c.state \in {NotValidated, Holding}
    BY <1>6, <2>2, ActivateFacts DEF Settles
  <2>3. QED
    BY <1>0, <2>1, <2>2
<1>7. CASE c.state = Closed /\ conn' = [c EXCEPT !.exception = First(c, "closing")] /\ changes' = changes
  <2>1. /\ conn' \in ConnType /\ conn'.state = c.state /\ conn'.transceiver = c.transceiver
        /\ conn'.dispatchCount = c.dispatchCount /\ conn'.shutdown = c.shutdown
        /\ conn'.exception = First(c, "closing")
    <3>1. First(c, "closing") \in {None, "closing", "failed"}
      BY FirstType
    <3>2. conn' \in ConnType
      BY <1>7, <3>1, Update
    <3>3. QED
      BY <1>7, <3>1, <3>2 DEF ConnType
  <2>2. QED
    BY <1>0, <1>7, <2>1 DEF Settles, First
<1>8. CASE Aborts(c)
  BY <1>1, <1>2, <1>3, <1>8 DEF Aborts
<1>9. CASE Destroys(c)
  BY <1>1, <1>2, <1>4, <1>7, <1>9 DEF Destroys
<1>10. QED
  BY <1>5, <1>6, <1>8, <1>9


\* A dispatch is uncounted.
LEMMA UncountFacts ==
    ASSUME conn \in ConnType, conn' = Uncount(conn, 1)
    PROVE  /\ conn' \in ConnType /\ conn'.dispatchCount = conn.dispatchCount - 1
           /\ conn'.state = conn.state /\ conn'.exception = conn.exception
           /\ conn'.registered = conn.registered /\ conn'.finishedCount = conn.finishedCount
           /\ conn'.transceiver = conn.transceiver
           /\ conn'.shutdown <=> conn.state = Closing /\ conn.dispatchCount = 1
<1> DEFINE h == conn.state = Closing /\ conn.dispatchCount = 1
           d == [conn EXCEPT !.dispatchCount = conn.dispatchCount - 1]
<1>1. d \in ConnType /\ h \in BOOLEAN
  BY DEF ConnType
<1>2. /\ d.dispatchCount = conn.dispatchCount - 1
      /\ d.state = conn.state /\ d.exception = conn.exception
      /\ d.registered = conn.registered /\ d.finishedCount = conn.finishedCount
      /\ d.transceiver = conn.transceiver
  BY DEF ConnType
<1>3. conn' = [d EXCEPT !.shutdown = h]
  BY DEF Uncount
<1> HIDE DEF d, h
<1>4. conn' \in ConnType
  BY <1>1, <1>3, Update
<1>5. /\ conn'.dispatchCount = d.dispatchCount
      /\ conn'.state = d.state /\ conn'.exception = d.exception
      /\ conn'.registered = d.registered /\ conn'.finishedCount = d.finishedCount
      /\ conn'.transceiver = d.transceiver /\ conn'.shutdown = h
  BY <1>1, <1>3 DEF ConnType
<1>6. QED
  BY <1>2, <1>4, <1>5 DEF h

\* The dispatches a step adds or gives up.
LEMMA CountFacts ==
    ASSUME conn \in ConnType, NEW n \in Int, conn' = [conn EXCEPT !.dispatchCount = n]
    PROVE  /\ conn' \in ConnType /\ conn'.dispatchCount = n
           /\ conn'.state = conn.state /\ conn'.exception = conn.exception
           /\ conn'.registered = conn.registered /\ conn'.finishedCount = conn.finishedCount
           /\ conn'.transceiver = conn.transceiver /\ conn'.shutdown = conn.shutdown
  BY DEF ConnType

\* CloseConnection has been sent or has failed.
LEMMA UnlockFacts ==
    ASSUME conn \in ConnType, NEW c, c = [conn EXCEPT !.shutdown = FALSE]
    PROVE  /\ c \in ConnType /\ c.dispatchCount = conn.dispatchCount
           /\ c.state = conn.state /\ c.exception = conn.exception
           /\ c.registered = conn.registered /\ c.finishedCount = conn.finishedCount
           /\ c.transceiver = conn.transceiver /\ ~c.shutdown
  BY DEF ConnType

\* A request is dropped, ignored or counted.
LEMMA MessageRequestFacts ==
    ASSUME conn \in ConnType, MessageRequest
    PROVE  /\ held \in Reqs /\ ~conn.shutdown
           /\ \/ conn.state \in {Closing, Closed} /\ UNCHANGED <<conn, call, left>>
              \/ /\ conn.state \notin {Closing, Closed}
                 /\ conn' = [conn EXCEPT !.dispatchCount = conn.dispatchCount + InvokeNum[held]]
                 /\ left' = [left EXCEPT ![held] = InvokeNum[held]]
                 /\ call' = [call EXCEPT ![held] = IF InvokeNum[held] = 0 THEN "done" ELSE "invoke"]
<1>1. CASE conn.state = Closed
  BY <1>1 DEF MessageRequest, dispatch, Unlocked
<1>2. CASE conn.state = Closing
  BY <1>2 DEF MessageRequest, ParseRequest, dispatch, Unlocked, Closing, Closed
<1>3. CASE conn.state \notin {Closing, Closed}
  BY <1>3 DEF MessageRequest, ParseRequest, Unlocked
<1>4. QED
  BY <1>1, <1>2, <1>3

\* The connection and the pool agree after every step.
LEMMA PoolNext ==
    ASSUME PoolInv, RestTypes, [Next]_vars
    PROVE  PoolInv'
<1> USE DEF threads, network, dispatch, pool
<1>0. /\ conn \in ConnType /\ changes \in ChangesType
      /\ conn.shutdown => conn.state = Closing
  BY DEF PoolInv, PoolTypes, ShutdownWhenClosing
<1>q. ASSUME UNCHANGED <<conn, changes, inPool, held, finishing>> PROVE PoolInv'
  <2>1. Quiet
    BY <1>0, <1>q DEF Quiet
  <2>2. QED
    BY <1>q, <2>1, QuietPool
<1>a. ASSUME Aborts(conn), Unlocked, UNCHANGED <<inPool, finishing>>, held' \in {held, None}
      PROVE  PoolInv'
  BY <1>a, AbortPool DEF Unlocked
<1>d. ASSUME Destroys(conn), Unlocked, UNCHANGED <<inPool, finishing, held>>
      PROVE  PoolInv'
  BY <1>d, DestroyPool DEF Unlocked
<1>h. ASSUME Holds(conn), Unlocked, UNCHANGED <<inPool, finishing, held>>
      PROVE  PoolInv'
  BY <1>h, HoldPool DEF Unlocked
<1>c. ASSUME Activates(conn), Unlocked, UNCHANGED <<inPool, finishing, held>>
      PROVE  PoolInv'
  BY <1>c, ActivatePool DEF Unlocked
<1>1. CASE ValidateChecks
  BY <1>q, <1>1 DEF ValidateChecks
<1>2. CASE ValidateWrites
  BY <1>q, <1>2 DEF ValidateWrites
<1>3. CASE WaitUntilHolding
  BY <1>q, <1>3 DEF WaitUntilHolding
<1>4. CASE WaitForDispatches
  BY <1>q, <1>4 DEF WaitForDispatches
<1>5. CASE WaitReturns
  BY <1>q, <1>5 DEF WaitReturns
<1>6. CASE PeerReads
  BY <1>q, <1>6 DEF PeerReads
<1>7. CASE PeerGoes
  BY <1>q, <1>7 DEF PeerGoes
<1>8. ASSUME NEW r \in Reqs, ResponseLocks(r) PROVE PoolInv'
  BY <1>q, <1>8 DEF ResponseLocks
<1>9. ASSUME NEW r \in Reqs, ResponseWrites(r) PROVE PoolInv'
  BY <1>q, <1>9 DEF ResponseWrites
<1>10. ASSUME NEW m \in Reqs \cup {"close"}, PeerSends(m) PROVE PoolInv'
  BY <1>q, <1>10 DEF PeerSends
<1>11. CASE UNCHANGED vars
  BY <1>q, <1>11 DEF vars
<1>12. CASE ValidateFails
  BY <1>0, <1>a, <1>12, ActionEffects DEF ValidateFails
<1>13. CASE WaitTimesOut
  BY <1>0, <1>a, <1>13, ActionEffects DEF WaitTimesOut
<1>14. CASE Exception
  BY <1>0, <1>a, <1>14, ActionEffects DEF Exception
<1>15. CASE MessageCloses
  BY <1>0, <1>a, <1>15, ActionEffects DEF MessageCloses
<1>16. ASSUME NEW r \in Reqs, ResponseFails(r) PROVE PoolInv'
  BY <1>0, <1>a, <1>16, ActionEffects DEF ResponseFails
<1>17. ASSUME NEW r \in Reqs, InvokeThrows(r) PROVE PoolInv'
  BY <1>0, <1>a, <1>17, ActionEffects DEF InvokeThrows
<1>18. CASE Destroy
  BY <1>0, <1>d, <1>18, ActionEffects DEF Destroy
<1>19. CASE Monitor
  BY <1>0, <1>d, <1>19, ActionEffects DEF Monitor
<1>20. CASE Close
  BY <1>0, <1>a, <1>d, <1>20, ActionEffects DEF Close
<1>21. CASE ValidateHolds
  BY <1>0, <1>h, <1>21, ActionEffects DEF ValidateHolds
<1>22. CASE Hold
  BY <1>0, <1>h, <1>22, ActionEffects DEF Hold
<1>23. CASE FactoryActivates
  BY <1>0, <1>c, <1>23, ActionEffects DEF FactoryActivates
<1>24. CASE Activate
  BY <1>0, <1>c, <1>24, ActionEffects DEF Activate
<1>25. CASE PoolChanges
  BY <1>25, PoolChangesPool
<1>26. CASE PoolReads
  BY <1>26, PoolReadsPool DEF RestTypes
<1>27. CASE Finished
  BY <1>27, FinishedPool
<1>28. ASSUME NEW r \in Reqs, ResponseCounts(r) PROVE PoolInv'
  <2>1. conn' = Uncount(conn, 1) /\ UNCHANGED <<changes, inPool, held, finishing>>
    BY <1>28 DEF ResponseCounts
  <2>2. Quiet
    BY <1>0, <2>1, UncountFacts DEF Quiet
  <2>3. QED
    BY <2>1, <2>2, QuietPool
<1>29. ASSUME NEW r \in Reqs, NoResponse(r) PROVE PoolInv'
  <2>1. conn' = Uncount(conn, 1) /\ UNCHANGED <<changes, inPool, held, finishing>>
    BY <1>29 DEF NoResponse
  <2>2. Quiet
    BY <1>0, <2>1, UncountFacts DEF Quiet
  <2>3. QED
    BY <2>1, <2>2, QuietPool
<1>30. ASSUME NEW r \in Reqs, InvokeAbandons(r) PROVE PoolInv'
  <2>1. /\ conn' = [conn EXCEPT !.dispatchCount = conn.dispatchCount - left[r]]
        /\ UNCHANGED <<changes, inPool, held, finishing>>
    BY <1>30 DEF InvokeAbandons
  <2>2. conn.dispatchCount - left[r] \in Int
    BY <1>0 DEF ConnType, RestTypes
  <2>3. Quiet
    BY <1>0, <2>1, <2>2, CountFacts DEF Quiet
  <2>4. QED
    BY <2>1, <2>3, QuietPool
<1>31. CASE MessageRequest
  <2>1. UNCHANGED <<changes, inPool, finishing>> /\ held' = None
    BY <1>31 DEF MessageRequest
  <2>2. held \in Reqs /\ conn.dispatchCount + InvokeNum[held] \in Int
    BY <1>0, <1>31, ReqsAssumption DEF MessageRequest, ConnType
  <2>3. Quiet
    <3>1. CASE conn' = conn
      BY <1>0, <2>1, <3>1 DEF Quiet
    <3>2. CASE conn' = [conn EXCEPT !.dispatchCount = conn.dispatchCount + InvokeNum[held]]
      BY <1>0, <2>1, <2>2, <3>2, CountFacts DEF Quiet
    <3>3. QED
      BY <1>0, <3>1, <3>2, <1>31, MessageRequestFacts
  <2>4. QED
    BY <2>1, <2>3, QuietPool
<1>32. CASE ShutdownWrites
  <2>1. /\ conn' = [conn EXCEPT !.shutdown = FALSE]
        /\ UNCHANGED <<changes, inPool, held, finishing>>
    BY <1>32 DEF ShutdownWrites
  <2>2. Quiet
    BY <1>0, <2>1, UnlockFacts DEF Quiet
  <2>3. QED
    BY <2>1, <2>2, QuietPool
<1>33. CASE ShutdownFails
  <2>0. PICK c : c = [conn EXCEPT !.shutdown = FALSE]
    OBVIOUS
  <2>1. Aborts(c) /\ UNCHANGED <<inPool, held, finishing>> /\ conn.shutdown
    BY <1>0, <2>0, <1>33, ActionEffects DEF ShutdownFails
  <2>2. c.state = Closing /\ ~c.shutdown /\ c \in {conn, [conn EXCEPT !.shutdown = FALSE]}
    BY <1>0, <2>0, <2>1, UnlockFacts
  <2>3. c.state # NotValidated /\ held' \in {held, None}
    BY <2>1, <2>2 DEF NotValidated, Closing
  <2>4. QED
    BY <2>1, <2>2, <2>3, AbortPool
<1>34. QED
  BY <1>1, <1>2, <1>3, <1>4, <1>5, <1>6, <1>7, <1>8, <1>9, <1>10, <1>11, <1>12, <1>13,
     <1>14, <1>15, <1>16, <1>17, <1>18, <1>19, <1>20, <1>21, <1>22, <1>23, <1>24, <1>25,
     <1>26, <1>27, <1>28, <1>29, <1>30, <1>31, <1>32, <1>33
     DEF Next, Factory, Pool, Dispatch, InitiateShutdown, Waiter, Owner, Peer
-----------------------------------------------------------------------------
(* What a step makes of the connection.                                    *)

\* Every section that calls setState() keeps what setState() keeps.
LEMMA ActionsSettle ==
    ASSUME conn \in ConnType, changes \in ChangesType
    PROVE  /\ ValidateFails => Settles(conn)
           /\ ValidateHolds => Settles(conn)
           /\ FactoryActivates => Settles(conn)
           /\ Hold => Settles(conn)
           /\ Activate => Settles(conn)
           /\ Destroy => Settles(conn)
           /\ Close => Settles(conn)
           /\ Monitor => Settles(conn)
           /\ WaitTimesOut => Settles(conn)
           /\ Exception => Settles(conn)
           /\ MessageCloses => Settles(conn)
           /\ \A r \in Reqs : ResponseFails(r) \/ InvokeThrows(r) => Settles(conn)
           /\ ShutdownFails => Settles(conn)
<1>1. ASSUME Aborts(conn) \/ Destroys(conn) \/ Holds(conn) \/ Activates(conn), Unlocked
      PROVE  Settles(conn)
  BY <1>1, SetStateSettles DEF Unlocked
<1>2. ValidateFails => Settles(conn)
  BY <1>1, ActionEffects DEF ValidateFails
<1>3. ValidateHolds => Settles(conn)
  BY <1>1, ActionEffects DEF ValidateHolds
<1>4. FactoryActivates => Settles(conn)
  BY <1>1, ActionEffects DEF FactoryActivates
<1>5. Hold => Settles(conn)
  BY <1>1, ActionEffects DEF Hold
<1>6. Activate => Settles(conn)
  BY <1>1, ActionEffects DEF Activate
<1>7. Destroy => Settles(conn)
  BY <1>1, ActionEffects DEF Destroy
<1>8. Close => Settles(conn)
  BY <1>1, ActionEffects DEF Close
<1>9. Monitor => Settles(conn)
  BY <1>1, ActionEffects DEF Monitor
<1>10. WaitTimesOut => Settles(conn)
  BY <1>1, ActionEffects DEF WaitTimesOut
<1>11. Exception => Settles(conn)
  BY <1>1, ActionEffects DEF Exception
<1>12. MessageCloses => Settles(conn)
  BY <1>1, ActionEffects DEF MessageCloses
<1>13. ASSUME NEW r \in Reqs, ResponseFails(r) PROVE Settles(conn)
  BY <1>1, <1>13, ActionEffects DEF ResponseFails
<1>14. ASSUME NEW r \in Reqs, InvokeThrows(r) PROVE Settles(conn)
  BY <1>1, <1>14, ActionEffects DEF InvokeThrows
<1>15. ASSUME ShutdownFails PROVE Settles(conn)
  <2>1. PICK c : c = [conn EXCEPT !.shutdown = FALSE]
    OBVIOUS
  <2>2. Aborts(c)
    BY <1>15, <2>1, ActionEffects
  <2>3. /\ c \in ConnType /\ c.dispatchCount = conn.dispatchCount
        /\ c.state = conn.state /\ c.exception = conn.exception
        /\ c.transceiver = conn.transceiver /\ ~c.shutdown
    BY <2>1, UnlockFacts
  <2>4. Settles(c)
    BY <2>2, <2>3, SetStateSettles
  <2>5. QED
    BY <2>3, <2>4 DEF Settles
<1>16. QED
  BY <1>2, <1>3, <1>4, <1>5, <1>6, <1>7, <1>8, <1>9, <1>10, <1>11, <1>12, <1>13, <1>14, <1>15

\* A step that does not call setState().
Kept ==
    /\ conn' \in ConnType
    /\ conn'.state = conn.state /\ conn'.exception = conn.exception
    /\ conn'.transceiver = conn.transceiver

\* A step calls setState(), or is one of finished(), or leaves the state.
LEMMA StepKinds ==
    ASSUME PoolInv, RestTypes, [Next]_vars
    PROVE  Settles(conn) \/ Kept \/ Finished
<1> USE DEF threads, network, dispatch, pool
<1>0. conn \in ConnType /\ changes \in ChangesType
  BY DEF PoolInv, PoolTypes
<1>1. ASSUME conn' = conn PROVE Kept
  BY <1>0, <1>1 DEF Kept
<1>2. ASSUME NEW n \in Int, conn' = [conn EXCEPT !.dispatchCount = n] PROVE Kept
  BY <1>0, <1>2, CountFacts DEF Kept
<1>3. ASSUME conn' = Uncount(conn, 1) PROVE Kept
  BY <1>0, <1>3, UncountFacts DEF Kept
<1>4. ASSUME NEW r \in Reqs, Dispatch(r) PROVE Settles(conn) \/ Kept
  <2>1. CASE ResponseLocks(r) \/ ResponseWrites(r)
    BY <1>1, <2>1 DEF ResponseLocks, ResponseWrites
  <2>2. CASE ResponseFails(r) \/ InvokeThrows(r)
    BY <1>0, <2>2, ActionsSettle
  <2>3. CASE ResponseCounts(r) \/ NoResponse(r)
    BY <1>3, <2>3 DEF ResponseCounts, NoResponse
  <2>4. CASE InvokeAbandons(r)
    <3>1. conn.dispatchCount - left[r] \in Int
      BY <1>0 DEF ConnType, RestTypes
    <3>2. QED
      BY <1>2, <2>4, <3>1 DEF InvokeAbandons
  <2>5. QED
    BY <1>4, <2>1, <2>2, <2>3, <2>4 DEF Dispatch
<1>5. ASSUME MessageRequest PROVE Kept
  <2>1. held \in Reqs /\ conn.dispatchCount + InvokeNum[held] \in Int
    BY <1>0, <1>5, ReqsAssumption DEF MessageRequest, ConnType
  <2>2. QED
    BY <1>0, <1>1, <1>2, <1>5, <2>1, MessageRequestFacts
<1>6. ASSUME ShutdownWrites PROVE Kept
  <2>1. conn' = [conn EXCEPT !.shutdown = FALSE]
    BY <1>6 DEF ShutdownWrites
  <2>2. QED
    BY <1>0, <2>1, UnlockFacts DEF Kept
<1>7. CASE Factory
  BY <1>0, <1>1, <1>7, ActionsSettle DEF Factory, ValidateChecks, ValidateWrites
<1>8. CASE Pool
  BY <1>0, <1>1, <1>5, <1>8, ActionsSettle DEF Pool, PoolChanges, PoolReads
<1>9. CASE InitiateShutdown
  BY <1>0, <1>6, <1>9, ActionsSettle DEF InitiateShutdown
<1>10. CASE Waiter
  BY <1>0, <1>1, <1>10, ActionsSettle DEF Waiter, WaitForDispatches, WaitReturns
<1>11. CASE Owner
  BY <1>0, <1>1, <1>11, ActionsSettle DEF Owner, WaitUntilHolding
<1>12. CASE Peer
  BY <1>1, <1>12 DEF Peer, PeerReads, PeerGoes, PeerSends
<1>13. CASE UNCHANGED vars
  BY <1>1, <1>13 DEF vars
<1>14. QED
  BY <1>4, <1>7, <1>8, <1>9, <1>10, <1>11, <1>12, <1>13 DEF Next

\* finished() leaves the state and may close the transceiver of a closed
\* connection.
LEMMA FinishedFacts ==
    ASSUME conn \in ConnType, Finished
    PROVE  /\ conn' \in ConnType /\ conn'.dispatchCount = conn.dispatchCount
           /\ conn'.state = conn.state /\ conn'.exception = conn.exception
           /\ ~conn.shutdown /\ ~conn'.shutdown
           /\ conn.transceiver = "closed" => conn'.transceiver = "closed"
           /\ conn'.transceiver = "closed" => conn.transceiver = "closed" \/ conn.state = Closed
<1> DEFINE last == conn.finishedCount = 1 /\ conn.state = Closed
           c1 == [conn EXCEPT !.finishedCount = conn.finishedCount - 1]
           t == IF last THEN "closed" ELSE conn.transceiver
<1>1. conn' = [c1 EXCEPT !.transceiver = t] /\ ~conn.shutdown
  BY DEF Finished, Unlocked
<1>2. c1 \in ConnType /\ t \in {"open", "shut", "closed"}
  BY DEF ConnType
<1>3. /\ c1.state = conn.state /\ c1.exception = conn.exception
      /\ c1.dispatchCount = conn.dispatchCount /\ c1.shutdown = conn.shutdown
  BY DEF ConnType
<1> HIDE DEF c1, t
<1>4. /\ conn' \in ConnType /\ conn'.transceiver = t
      /\ conn'.state = c1.state /\ conn'.exception = c1.exception
      /\ conn'.dispatchCount = c1.dispatchCount /\ conn'.shutdown = c1.shutdown
  BY <1>1, <1>2 DEF ConnType
<1>5. QED
  BY <1>1, <1>3, <1>4 DEF t

\* No step leaves Closing or Closed, or changes the exception there.
LEMMA ClosingStep ==
    ASSUME PoolInv, RestTypes, [Next]_vars, conn.state >= Closing
    PROVE  conn'.state >= conn.state /\ conn'.exception = conn.exception
<1>1. conn \in ConnType /\ conn.exception # None /\ conn.state \in Int
  BY DEF PoolInv, PoolTypes, ExceptionWhenClosing, ConnType, NotValidated, Closed
<1>2. CASE Settles(conn)
  BY <1>1, <1>2 DEF Settles
<1>3. CASE Kept
  BY <1>1, <1>3 DEF Kept
<1>4. CASE Finished
  BY <1>1, <1>4, FinishedFacts
<1>5. QED
  BY <1>2, <1>3, <1>4, StepKinds
-----------------------------------------------------------------------------
(* The theorems.                                                           *)

\* A new connection is unknown to the pool.
LEMMA InitPool == Init => PoolInv /\ RestTypes
<1> SUFFICES ASSUME Init PROVE PoolInv /\ RestTypes
  OBVIOUS
<1> USE DEF NotValidated, Active, Holding, Closing, Closed
<1>1. changes = <<>> /\ changes \in ChangesType
  BY DEF Init, ChangesType
<1>2. conn \in ConnType
  BY DEF Init, ConnType
<1>3. Cardinality(Rem(changes)) = 0
  BY <1>1, RemNone
<1>4. FinishedCountMatches
  BY <1>3, RemovalsIsRem DEF Init, FinishedCountMatches
<1>5. PoolInv
  <2>1. /\ conn.state = NotValidated /\ conn.exception = None /\ ~conn.registered
        /\ conn.transceiver = "open" /\ ~conn.shutdown
        /\ ~inPool /\ held = None /\ finishing = 0
    BY DEF Init
  <2>2. PoolTypes
    BY <1>1, <1>2 DEF PoolTypes, Init
  <2>3. QED
    BY <1>1, <1>4, <2>1, <2>2
       DEF PoolInv, QueueEnds, HeldInPool, ClosedUnregistered, Unvalidated,
           ShutdownWhenClosing, TransceiverOutlivesPool, ExceptionWhenClosing
<1>6. RestTypes
  BY BoundsAssumption DEF Init, RestTypes
<1>7. QED
  BY <1>5, <1>6

\* The connection's idea of what the pool does with it is right in every
\* reachable state.
THEOREM PoolInvariant == Spec => [](PoolInv /\ RestTypes)
<1>1. PoolInv /\ RestTypes /\ [Next]_vars => (PoolInv /\ RestTypes)'
  BY PoolNext, RestTypesNext DEF PoolInv, PoolTypes
<1>2. QED
  BY <1>1, InitPool, PTL DEF Spec

\* _finishedCount counts the finished() calls the pool still owes, for any
\* number of hold() and activate() calls.
THEOREM FinishedCountCorrect == Spec => []FinishedCountMatches
<1>1. PoolInv => FinishedCountMatches
  BY DEF PoolInv
<1>2. QED
  BY <1>1, PoolInvariant, PTL

\* The transceiver is closed only when nothing of the connection is left in
\* the pool.
THEOREM TransceiverCorrect == Spec => []TransceiverOutlivesPool
<1>1. PoolInv => TransceiverOutlivesPool
  BY DEF PoolInv
<1>2. QED
  BY <1>1, PoolInvariant, PTL

\* The connection has an exception exactly when it is closing or closed.
THEOREM ExceptionCorrect == Spec => []ExceptionWhenClosing
<1>1. PoolInv => ExceptionWhenClosing
  BY DEF PoolInv
<1>2. QED
  BY <1>1, PoolInvariant, PTL

\* Closing is never undone, and its first exception is kept.
THEOREM ClosingFinal == Spec => ClosingIsFinal
<1>1. PoolInv /\ RestTypes /\ [Next]_vars =>
         [conn.state >= Closing =>
             conn'.state >= conn.state /\ conn'.exception = conn.exception]_vars
  BY ClosingStep
<1>2. QED
  BY <1>1, PoolInvariant, PTL DEF Spec, ClosingIsFinal
=============================================================================
