-------------------------- MODULE ThreadPoolProofs --------------------------
(***************************************************************************)
(* Proofs about ThreadPool, for every number of threads and descriptors.   *)
(***************************************************************************)
EXTENDS ThreadPool, TLAPS, FiniteSetTheorems, CountingLemmas

-----------------------------------------------------------------------------
(* The range of the scan: minima and maxima of sets of descriptors.        *)

\* A set of naturals that is not empty has a least element, and Min finds it.
LEMMA MinFacts ==
    ASSUME NEW S \in SUBSET Nat, S # {}
    PROVE  Min(S) \in S /\ \A x \in S : Min(S) <= x
  BY LeastNatural DEF Min

\* A set of naturals below a bound that is not empty has a greatest element,
\* and Max finds it.
LEMMA MaxFacts ==
    ASSUME NEW N \in Nat, NEW S \in SUBSET (0..N), S # {}
    PROVE  Max(S) \in S /\ \A x \in S : x <= Max(S)
<1> DEFINE D == {d \in 0..N : N - d \in S}
<1>1. D \in SUBSET Nat
  OBVIOUS
<1>2. ASSUME NEW x \in S PROVE N - x \in D
  <2>1. x \in 0..N /\ N - x \in 0..N /\ N - (N - x) = x
    OBVIOUS
  <2>2. QED
    BY <2>1
<1>3. D # {}
  BY <1>2
<1> HIDE DEF D
<1>4. Min(D) \in D /\ \A d \in D : Min(D) <= d
  BY <1>1, <1>3, MinFacts
<1>5. Min(D) \in 0..N /\ N - Min(D) \in S
  BY <1>4 DEF D
<1>6. ASSUME NEW x \in S PROVE x <= N - Min(D)
  <2>1. Min(D) <= N - x
    BY <1>2, <1>4
  <2>2. QED
    BY <2>1, <1>5
<1>7. QED
  BY <1>5, <1>6 DEF Max

\* Min and Max of the descriptors in _fdSet: the range lies in the set and
\* encloses it.
LEMMA RangeFacts ==
    ASSUME NEW S \in SUBSET Fds
    PROVE  /\ Min(S \cup {IntrFd}) \in S \cup {IntrFd}
           /\ Max(S \cup {IntrFd}) \in S \cup {IntrFd}
           /\ \A f \in S \cup {IntrFd} :
                 Min(S \cup {IntrFd}) <= f /\ f <= Max(S \cup {IntrFd})
<1>1. S \cup {IntrFd} \in SUBSET (0..(FdSetSize - 1)) /\ S \cup {IntrFd} # {}
  BY FdsAssumption
<1>2. FdSetSize - 1 \in Nat /\ S \cup {IntrFd} \in SUBSET Nat
  BY <1>1, FdsAssumption
<1>3. QED
  BY <1>1, <1>2, MinFacts, MaxFacts

\* A range is the only one that lies in the set and encloses it.
LEMMA RangeUnique ==
    ASSUME NEW S \in SUBSET Fds, NEW m \in S \cup {IntrFd}
    PROVE  /\ (\A f \in S \cup {IntrFd} : m <= f) => m = Min(S \cup {IntrFd})
           /\ (\A f \in S \cup {IntrFd} : f <= m) => m = Max(S \cup {IntrFd})
<1>1. Fds \cup {IntrFd} \subseteq Int
  BY FdsAssumption
<1>2. QED
  BY <1>1, RangeFacts

\* The round-robin scan picks one of the ready descriptors.
LEMMA NextFdIsReady ==
    ASSUME NEW ready \in SUBSET Fds, ready # {}
    PROVE  NextFd(ready) \in ready
<1>1. ready \in SUBSET Nat
  BY FdsAssumption
<1>2. ASSUME NEW A \in SUBSET ready, A # {} PROVE Min(A) \in ready
  BY <1>1, <1>2, MinFacts
<1>3. QED
  BY <1>2 DEF NextFd

-----------------------------------------------------------------------------
(* The inductive invariant.                                                *)

\* A pool with SizeMax = 1 has one thread, which never waits: there
\* promoteFollower does nothing, and leadership is the thread itself.
OneThread ==
    SizeMax = 1 =>
        /\ \A s, t \in Threads : pc[s] # "none" /\ pc[t] # "none" => s = t
        /\ \A t \in Threads : pc[t] \notin Waiting

\* A thread that is about to call a handler has one.
HandlerHeld ==
    \A t \in Threads :
        pc[t] \in {"finished", "finishing", "message"} => handler[t] \in Fds

IInv ==
    /\ TypeOK
    /\ OneThread
    /\ LeaderToken
    /\ PipeMatchesChanges
    /\ FdRange
    /\ SnapshotCurrent
    /\ HandlerHeld
    /\ NoLostWakeup

Labels == Waiting \cup Leading \cup Upcalls \cup Gone \cup {"none"}

-----------------------------------------------------------------------------
(* What the shared parts of the actions do.                                *)

\* promoteFollower by the leader t, which goes on at l: leadership is free,
\* threads may be woken or created, and if one sleeps one is woken.
LEMMA PromoteFollowerEffect ==
    ASSUME TypeOK, NEW t \in Threads, pc[t] \in Leading, NEW l \in Upcalls,
           PromoteFollower(t, l)
    PROVE  /\ pc' \in [Threads -> Labels]
           /\ pc'[t] = l
           /\ \A s \in Threads \ {t} :
                 \/ pc'[s] = pc[s]
                 \/ SizeMax # 1 /\ pc[s] \in {"asleep", "none"} /\ pc'[s] = "wait"
           /\ promote' = IF SizeMax = 1 THEN promote ELSE TRUE
           /\ SizeMax # 1 /\ Asleep # {} => \E s \in Threads : pc'[s] = "wait"
           /\ inUse' \in Int /\ running' \in Int /\ refused' \in BOOLEAN
<1>1. CASE SizeMax = 1
  BY <1>1 DEF PromoteFollower, Goto, TypeOK, Labels, Waiting, Leading, Upcalls, Gone
<1>2. CASE SizeMax # 1
  <2>1. PICK woken \in NotifyChoices, born \in Births :
            /\ pc' = [s \in Threads |-> IF s = t THEN l
                                        ELSE IF s \in woken \cup born THEN "wait"
                                        ELSE pc[s]]
            /\ running' = IF born = {} THEN running ELSE running + 1
            /\ refused' = (refused \/ (NeedsThread /\ born = {}))
    BY <1>2 DEF PromoteFollower
  <2>2. woken \subseteq Asleep /\ (Asleep # {} => woken # {})
    BY DEF NotifyChoices
  <2>3. born \subseteq Unused
    BY DEF Births
  <2>4. t \notin Asleep
    BY DEF Asleep, Leading
  <2>5. /\ pc' \in [Threads -> Labels] /\ pc'[t] = l
        /\ \A s \in Threads \ {t} :
              \/ pc'[s] = pc[s]
              \/ SizeMax # 1 /\ pc[s] \in {"asleep", "none"} /\ pc'[s] = "wait"
    BY <1>2, <2>1, <2>2, <2>3
    DEF TypeOK, Labels, Asleep, Unused, Waiting, Leading, Upcalls, Gone
  <2>6. Asleep # {} => \E s \in Threads : pc'[s] = "wait"
    <3>1. SUFFICES ASSUME NEW s \in woken PROVE s \in Threads /\ pc'[s] = "wait"
      BY <2>2
    <3>2. QED
      BY <2>1, <2>2, <2>4 DEF Asleep
  <2>7. promote' = TRUE /\ inUse' \in Int /\ running' \in Int
    BY <1>2, <2>1 DEF PromoteFollower, TypeOK
  <2>8. refused' \in BOOLEAN
    BY <2>1
  <2>9. QED
    BY <1>2, <2>5, <2>6, <2>7, <2>8
<1>3. QED
  BY <1>1, <1>2

\* A leader that takes a change finds one, and no other thread is between
\* select() and the lock.
LEMMA TakeChangeEffect ==
    ASSUME IInv, NEW t \in Threads, TakeChange(t)
    PROVE  /\ Head(changes)[1] \in Fds
           /\ changes' \in Seq(Fds \X {"add", "remove"})
           /\ Len(changes') = Len(changes) - 1
           /\ pipe' = Len(changes') /\ pipe' \in Nat
           /\ \A s \in Threads : pc[s] = "got" => s = t
<1>1. ~destroyed /\ changes # <<>> /\ changes' = Tail(changes) /\ pipe' = pipe - 1
  BY DEF IInv, TakeChange, SnapshotCurrent
<1>2. changes \in Seq(Fds \X {"add", "remove"}) /\ pipe = Len(changes)
  BY <1>1 DEF IInv, TypeOK, PipeMatchesChanges
<1>3. Head(changes) \in Fds \X {"add", "remove"}
  BY <1>1, <1>2
<1>4. changes' \in Seq(Fds \X {"add", "remove"}) /\ Len(changes') = Len(changes) - 1
  BY <1>1, <1>2
<1>5. \A s \in Threads : pc[s] = "got" => s = t
  BY DEF IInv, LeaderToken, Leaders, Leading, TakeChange
<1>6. QED
  BY <1>1, <1>2, <1>3, <1>4, <1>5

-----------------------------------------------------------------------------
(* One lemma per action: it preserves the invariant.                       *)

\* Leadership passes from free to t.
LEMMA TakeLeadershipPreserves ==
    ASSUME IInv, NEW t \in Threads, TakeLeadership(t)
    PROVE  IInv'
<1> USE DEF IInv
<1>1. TypeOK'
  BY DEF TakeLeadership, counters, fdState, owners, Goto, TypeOK, Waiting, Leading, Upcalls, Gone
<1>2. OneThread'
  BY DEF TakeLeadership, Goto, TypeOK, OneThread, Waiting, Leading, Upcalls, Gone
<1>3. LeaderToken'
  <2>1. SizeMax > 1 /\ promote /\ Leaders = {}
    BY SizeAssumption DEF TakeLeadership, OneThread, LeaderToken, Waiting
  <2>2. Leaders' = {t} /\ promote' = FALSE
    BY <2>1 DEF TakeLeadership, Goto, TypeOK, Leaders, Leading
  <2>3. QED
    BY <2>1, <2>2 DEF LeaderToken
<1>4. PipeMatchesChanges'
  BY DEF TakeLeadership, PipeMatchesChanges
<1>5. FdRange'
  BY DEF TakeLeadership, fdState, FdRange
<1>6. SnapshotCurrent'
  BY DEF TakeLeadership, fdState, Goto, TypeOK, SnapshotCurrent
<1>7. HandlerHeld'
  BY DEF TakeLeadership, Goto, TypeOK, HandlerHeld
<1>8. NoLostWakeup'
  BY DEF TakeLeadership, Goto, TypeOK, OneThread, NoLostWakeup, Asleep, Waiting, Leading, Upcalls, Gone
<1>9. QED
  BY <1>1, <1>2, <1>3, <1>4, <1>5, <1>6, <1>7, <1>8

\* A thread sleeps only while leadership is taken.
LEMMA FallAsleepPreserves ==
    ASSUME IInv, NEW t \in Threads, FallAsleep(t)
    PROVE  IInv'
<1> USE DEF IInv
<1>1. TypeOK'
  BY DEF FallAsleep, counters, fdState, owners, Goto, TypeOK, Waiting, Leading, Upcalls, Gone
<1>2. OneThread'
  BY DEF FallAsleep, Goto, TypeOK, OneThread, Waiting, Leading, Upcalls, Gone
<1>3. LeaderToken'
  BY DEF FallAsleep, Goto, TypeOK, OneThread, LeaderToken, Leaders, Waiting, Leading, Upcalls, Gone
<1>4. PipeMatchesChanges'
  BY DEF FallAsleep, PipeMatchesChanges
<1>5. FdRange'
  BY DEF FallAsleep, fdState, FdRange
<1>6. SnapshotCurrent'
  BY DEF FallAsleep, fdState, Goto, TypeOK, SnapshotCurrent
<1>7. HandlerHeld'
  BY DEF FallAsleep, Goto, TypeOK, HandlerHeld
<1>8. NoLostWakeup'
  BY DEF FallAsleep, Goto, TypeOK, OneThread, NoLostWakeup, Asleep, Waiting, Leading, Upcalls, Gone
<1>9. QED
  BY <1>1, <1>2, <1>3, <1>4, <1>5, <1>6, <1>7, <1>8

\* The snapshot is taken from the current state.
LEMMA SelectPreserves ==
    ASSUME IInv, NEW t \in Threads, Select(t)
    PROVE  IInv'
<1> USE DEF IInv
<1>1. TypeOK'
  BY DEF Select, Ready, counters, fdState, owners, Goto, TypeOK, Waiting, Leading, Upcalls, Gone
<1>2. OneThread'
  BY DEF Select, Goto, TypeOK, OneThread, Waiting, Leading, Upcalls, Gone
<1>3. LeaderToken'
  BY DEF Select, Goto, TypeOK, OneThread, LeaderToken, Leaders, Waiting, Leading, Upcalls, Gone
<1>4. PipeMatchesChanges'
  BY DEF Select, PipeMatchesChanges
<1>5. FdRange'
  BY DEF Select, fdState, FdRange
<1>6. SnapshotCurrent'
  <2>1. \A f \in Fds \cup {IntrFd} : f \in Int
    BY FdsAssumption
  <2>2. \A f \in handlerMap \cup {IntrFd} : minFd <= f /\ f <= maxFd
    BY RangeFacts DEF TypeOK, FdRange
  <2>3. pipe > 0 => destroyed \/ changes # <<>>
    BY DEF PipeMatchesChanges, TypeOK
  <2>4. Ready # {} /\ Ready \subseteq handlerMap \cup {IntrFd}
    BY DEF Select, Ready
  <2>5. IntrFd \in Ready => pipe > 0
    BY FdsAssumption DEF Ready, TypeOK
  <2>6. ASSUME NEW s \in Threads, pc'[s] = "got"
        PROVE  \/ s = t /\ snap'[s] = Ready
               \/ pc[s] = "got" /\ snap'[s] = snap[s]
    BY <2>6 DEF Select, Goto, TypeOK
  <2>7. UNCHANGED <<handlerMap, minFd, maxFd, changes, pipe, destroyed>>
    BY DEF Select, fdState
  <2>8. QED
    BY <2>2, <2>3, <2>4, <2>5, <2>6, <2>7 DEF SnapshotCurrent
<1>7. HandlerHeld'
  BY DEF Select, Goto, TypeOK, HandlerHeld
<1>8. NoLostWakeup'
  BY DEF Select, Goto, TypeOK, OneThread, NoLostWakeup, Asleep, Waiting, Leading, Upcalls, Gone
<1>9. QED
  BY <1>1, <1>2, <1>3, <1>4, <1>5, <1>6, <1>7, <1>8

\* The leader goes on to the shutdown.
LEMMA SelectTimeoutPreserves ==
    ASSUME IInv, NEW t \in Threads, SelectTimeout(t)
    PROVE  IInv'
<1> USE DEF IInv
<1>1. TypeOK'
  BY DEF SelectTimeout, counters, fdState, owners, Goto, TypeOK, Waiting, Leading, Upcalls, Gone
<1>2. OneThread'
  BY DEF SelectTimeout, Goto, TypeOK, OneThread, Waiting, Leading, Upcalls, Gone
<1>3. LeaderToken'
  BY DEF SelectTimeout, Goto, TypeOK, OneThread, LeaderToken, Leaders, Waiting, Leading, Upcalls, Gone
<1>4. PipeMatchesChanges'
  BY DEF SelectTimeout, PipeMatchesChanges
<1>5. FdRange'
  BY DEF SelectTimeout, fdState, FdRange
<1>6. SnapshotCurrent'
  BY DEF SelectTimeout, fdState, Goto, TypeOK, SnapshotCurrent
<1>7. HandlerHeld'
  BY DEF SelectTimeout, Goto, TypeOK, HandlerHeld
<1>8. NoLostWakeup'
  BY DEF SelectTimeout, Goto, TypeOK, OneThread, NoLostWakeup, Asleep, Waiting, Leading, Upcalls, Gone
<1>9. QED
  BY <1>1, <1>2, <1>3, <1>4, <1>5, <1>6, <1>7, <1>8

\* The leader goes on to leave the pool.
LEMMA GotDestroyedPreserves ==
    ASSUME IInv, NEW t \in Threads, GotDestroyed(t)
    PROVE  IInv'
<1> USE DEF IInv
<1>1. TypeOK'
  BY DEF GotDestroyed, counters, fdState, owners, Goto, TypeOK, Waiting, Leading, Upcalls, Gone
<1>2. OneThread'
  BY DEF GotDestroyed, Goto, TypeOK, OneThread, Waiting, Leading, Upcalls, Gone
<1>3. LeaderToken'
  BY DEF GotDestroyed, Goto, TypeOK, OneThread, LeaderToken, Leaders, Waiting, Leading, Upcalls, Gone
<1>4. PipeMatchesChanges'
  BY DEF GotDestroyed, PipeMatchesChanges
<1>5. FdRange'
  BY DEF GotDestroyed, fdState, FdRange
<1>6. SnapshotCurrent'
  BY DEF GotDestroyed, fdState, Goto, TypeOK, SnapshotCurrent
<1>7. HandlerHeld'
  BY DEF GotDestroyed, Goto, TypeOK, HandlerHeld
<1>8. NoLostWakeup'
  BY DEF GotDestroyed, Goto, TypeOK, OneThread, NoLostWakeup, Asleep, Waiting, Leading, Upcalls, Gone
<1>9. QED
  BY <1>1, <1>2, <1>3, <1>4, <1>5, <1>6, <1>7, <1>8

\* A handler is added by the only leader.
LEMMA GotAddPreserves ==
    ASSUME IInv, NEW t \in Threads, GotAdd(t)
    PROVE  IInv'
<1> USE DEF IInv
<1>0. /\ Head(changes)[1] \in Fds
      /\ changes' \in Seq(Fds \X {"add", "remove"})
      /\ pipe' = Len(changes') /\ pipe' \in Nat
      /\ \A s \in Threads : pc[s] = "got" => s = t
  BY TakeChangeEffect DEF GotAdd
<1>1. TypeOK'
  BY <1>0 DEF GotAdd, TakeChange, Goto, counters, owners, TypeOK, Waiting, Leading, Upcalls, Gone
<1>2. OneThread'
  BY DEF GotAdd, TakeChange, Goto, TypeOK, OneThread, Waiting, Leading, Upcalls, Gone
<1>3. LeaderToken'
  BY DEF GotAdd, TakeChange, Goto, TypeOK, OneThread, LeaderToken, Leaders, Waiting, Leading, Upcalls, Gone
<1>4. PipeMatchesChanges'
  BY <1>0 DEF GotAdd, TakeChange, PipeMatchesChanges
<1>5. FdRange'
  <2> DEFINE f == Head(changes)[1]
  <2>1. f \in Fds /\ handlerMap' = handlerMap \cup {f} /\ handlerMap' \in SUBSET Fds
    BY <1>0 DEF GotAdd, TypeOK
  <2>2. /\ maxFd' = IF f > maxFd THEN f ELSE maxFd
        /\ minFd' = IF f < minFd THEN f ELSE minFd
    BY DEF GotAdd
  <2>3. \A g \in Fds \cup {IntrFd} : g \in Int
    BY FdsAssumption
  <2>4. /\ minFd \in handlerMap \cup {IntrFd} /\ maxFd \in handlerMap \cup {IntrFd}
        /\ \A g \in handlerMap \cup {IntrFd} : minFd <= g /\ g <= maxFd
    BY RangeFacts DEF TypeOK, FdRange
  <2> HIDE DEF f
  <2>5. /\ minFd' \in handlerMap' \cup {IntrFd} /\ maxFd' \in handlerMap' \cup {IntrFd}
        /\ \A g \in handlerMap' \cup {IntrFd} : minFd' <= g /\ g <= maxFd'
    BY <2>1, <2>2, <2>3, <2>4
  <2>6. QED
    BY <2>1, <2>5, RangeUnique DEF FdRange
<1>6. SnapshotCurrent'
  <2>1. ASSUME NEW s \in Threads PROVE pc'[s] # "got"
    BY <1>0 DEF GotAdd, TakeChange, Goto, TypeOK
  <2>2. QED
    BY <2>1 DEF SnapshotCurrent
<1>7. HandlerHeld'
  BY DEF GotAdd, TakeChange, Goto, TypeOK, HandlerHeld
<1>8. NoLostWakeup'
  BY DEF GotAdd, TakeChange, Goto, TypeOK, OneThread, NoLostWakeup, Asleep, Waiting, Leading, Upcalls, Gone
<1>9. QED
  BY <1>1, <1>2, <1>3, <1>4, <1>5, <1>6, <1>7, <1>8

\* A handler is removed by the only leader.
LEMMA GotRemovePreserves ==
    ASSUME IInv, NEW t \in Threads, GotRemove(t)
    PROVE  IInv'
<1> USE DEF IInv
<1>0. /\ Head(changes)[1] \in Fds
      /\ changes' \in Seq(Fds \X {"add", "remove"})
      /\ pipe' = Len(changes') /\ pipe' \in Nat
      /\ \A s \in Threads : pc[s] = "got" => s = t
  BY TakeChangeEffect DEF GotRemove
<1>1. TypeOK'
  <2>1. handlerMap' \in SUBSET Fds
    BY DEF GotRemove, TypeOK
  <2>2. minFd' \in Fds \cup {IntrFd} /\ maxFd' \in Fds \cup {IntrFd}
    BY <2>1, RangeFacts DEF GotRemove
  <2>3. QED
    BY <1>0, <2>1, <2>2
    DEF GotRemove, TakeChange, Goto, counters, owners, TypeOK, Waiting, Leading, Upcalls, Gone
<1>2. OneThread'
  BY DEF GotRemove, TakeChange, Goto, TypeOK, OneThread, Waiting, Leading, Upcalls, Gone
<1>3. LeaderToken'
  BY DEF GotRemove, TakeChange, Goto, TypeOK, OneThread, LeaderToken, Leaders, Waiting, Leading, Upcalls, Gone
<1>4. PipeMatchesChanges'
  BY <1>0 DEF GotRemove, TakeChange, PipeMatchesChanges
<1>5. FdRange'
  BY DEF GotRemove, FdRange
<1>6. SnapshotCurrent'
  <2>1. ASSUME NEW s \in Threads PROVE pc'[s] # "got"
    BY <1>0 DEF GotRemove, TakeChange, Goto, TypeOK
  <2>2. QED
    BY <2>1 DEF SnapshotCurrent
<1>7. HandlerHeld'
  BY <1>0 DEF GotRemove, TakeChange, Goto, TypeOK, HandlerHeld
<1>8. NoLostWakeup'
  BY DEF GotRemove, TakeChange, Goto, TypeOK, OneThread, NoLostWakeup, Asleep, Waiting, Leading, Upcalls, Gone
<1>9. QED
  BY <1>1, <1>2, <1>3, <1>4, <1>5, <1>6, <1>7, <1>8

\* The picked descriptor has a handler.
LEMMA GotDataPreserves ==
    ASSUME IInv, NEW t \in Threads, GotData(t)
    PROVE  IInv'
<1> USE DEF IInv
<1>0. NextFd(snap[t]) \in Fds
  <2>1. snap[t] \in SUBSET Fds /\ snap[t] # {}
    BY DEF GotData, SnapshotCurrent, TypeOK
  <2>2. QED
    BY <2>1, NextFdIsReady
<1>1. TypeOK'
  BY <1>0 DEF GotData, counters, fdState, owners, Goto, TypeOK, Waiting, Leading, Upcalls, Gone
<1>2. OneThread'
  BY DEF GotData, Goto, TypeOK, OneThread, Waiting, Leading, Upcalls, Gone
<1>3. LeaderToken'
  BY DEF GotData, Goto, TypeOK, OneThread, LeaderToken, Leaders, Waiting, Leading, Upcalls, Gone
<1>4. PipeMatchesChanges'
  BY DEF GotData, PipeMatchesChanges
<1>5. FdRange'
  BY DEF GotData, fdState, FdRange
<1>6. SnapshotCurrent'
  BY DEF GotData, fdState, Goto, TypeOK, SnapshotCurrent
<1>7. HandlerHeld'
  BY <1>0 DEF GotData, Goto, TypeOK, HandlerHeld
<1>8. NoLostWakeup'
  BY DEF GotData, Goto, TypeOK, OneThread, NoLostWakeup, Asleep, Waiting, Leading, Upcalls, Gone
<1>9. QED
  BY <1>1, <1>2, <1>3, <1>4, <1>5, <1>6, <1>7, <1>8

\* The leader goes on, or back to select().
LEMMA ShutdownPreserves ==
    ASSUME IInv, NEW t \in Threads, Shutdown(t)
    PROVE  IInv'
<1> USE DEF IInv
<1>1. TypeOK'
  BY DEF Shutdown, counters, fdState, owners, Goto, TypeOK, Waiting, Leading, Upcalls, Gone
<1>2. OneThread'
  BY DEF Shutdown, Goto, TypeOK, OneThread, Waiting, Leading, Upcalls, Gone
<1>3. LeaderToken'
  BY DEF Shutdown, Goto, TypeOK, OneThread, LeaderToken, Leaders, Waiting, Leading, Upcalls, Gone
<1>4. PipeMatchesChanges'
  BY DEF Shutdown, PipeMatchesChanges
<1>5. FdRange'
  BY DEF Shutdown, fdState, FdRange
<1>6. SnapshotCurrent'
  BY DEF Shutdown, fdState, Goto, TypeOK, SnapshotCurrent
<1>7. HandlerHeld'
  BY DEF Shutdown, Goto, TypeOK, HandlerHeld
<1>8. NoLostWakeup'
  BY DEF Shutdown, Goto, TypeOK, OneThread, NoLostWakeup, Asleep, Waiting, Leading, Upcalls, Gone
<1>9. QED
  BY <1>1, <1>2, <1>3, <1>4, <1>5, <1>6, <1>7, <1>8

\* promoteFollower before factory->shutdown().
LEMMA ShutdownPromotesPreserves ==
    ASSUME IInv, NEW t \in Threads, ShutdownPromotes(t)
    PROVE  IInv'
<1> USE DEF IInv
<1>0. /\ pc[t] \in Leading /\ pc' \in [Threads -> Labels] /\ pc'[t] = "upcall"
      /\ \A s \in Threads \ {t} :
            \/ pc'[s] = pc[s]
            \/ SizeMax # 1 /\ pc[s] \in {"asleep", "none"} /\ pc'[s] = "wait"
      /\ promote' = IF SizeMax = 1 THEN promote ELSE TRUE
      /\ SizeMax # 1 /\ Asleep # {} => \E s \in Threads : pc'[s] = "wait"
      /\ inUse' \in Int /\ running' \in Int /\ refused' \in BOOLEAN
  BY PromoteFollowerEffect DEF ShutdownPromotes, Leading, Upcalls
<1>1. TypeOK'
  BY <1>0 DEF ShutdownPromotes, fdState, owners, TypeOK, Labels
<1>2. OneThread'
  BY <1>0 DEF OneThread, Waiting, Leading, Upcalls, Gone
<1>3. LeaderToken'
  BY <1>0, SizeAssumption DEF LeaderToken, Leaders, Waiting, Leading, Upcalls, Gone
<1>4. PipeMatchesChanges'
  BY DEF ShutdownPromotes, PipeMatchesChanges
<1>5. FdRange'
  BY DEF ShutdownPromotes, fdState, FdRange
<1>6. SnapshotCurrent'
  BY <1>0 DEF ShutdownPromotes, fdState, SnapshotCurrent
<1>7. HandlerHeld'
  BY <1>0 DEF ShutdownPromotes, TypeOK, HandlerHeld
<1>8. NoLostWakeup'
  BY <1>0 DEF OneThread, NoLostWakeup, Asleep, Waiting, Leading, Upcalls, Gone
<1>9. QED
  BY <1>1, <1>2, <1>3, <1>4, <1>5, <1>6, <1>7, <1>8

\* promoteFollower in finished().
LEMMA FinishedPromotesPreserves ==
    ASSUME IInv, NEW t \in Threads, FinishedPromotes(t)
    PROVE  IInv'
<1> USE DEF IInv
<1>0. /\ pc[t] \in Leading /\ pc' \in [Threads -> Labels] /\ pc'[t] = "finishing"
      /\ \A s \in Threads \ {t} :
            \/ pc'[s] = pc[s]
            \/ SizeMax # 1 /\ pc[s] \in {"asleep", "none"} /\ pc'[s] = "wait"
      /\ promote' = IF SizeMax = 1 THEN promote ELSE TRUE
      /\ SizeMax # 1 /\ Asleep # {} => \E s \in Threads : pc'[s] = "wait"
      /\ inUse' \in Int /\ running' \in Int /\ refused' \in BOOLEAN
  BY PromoteFollowerEffect DEF FinishedPromotes, Leading, Upcalls
<1>1. TypeOK'
  BY <1>0 DEF FinishedPromotes, fdState, owners, TypeOK, Labels
<1>2. OneThread'
  BY <1>0 DEF OneThread, Waiting, Leading, Upcalls, Gone
<1>3. LeaderToken'
  BY <1>0, SizeAssumption DEF LeaderToken, Leaders, Waiting, Leading, Upcalls, Gone
<1>4. PipeMatchesChanges'
  BY DEF FinishedPromotes, PipeMatchesChanges
<1>5. FdRange'
  BY DEF FinishedPromotes, fdState, FdRange
<1>6. SnapshotCurrent'
  BY <1>0 DEF FinishedPromotes, fdState, SnapshotCurrent
<1>7. HandlerHeld'
  BY <1>0 DEF FinishedPromotes, TypeOK, HandlerHeld
<1>8. NoLostWakeup'
  BY <1>0 DEF OneThread, NoLostWakeup, Asleep, Waiting, Leading, Upcalls, Gone
<1>9. QED
  BY <1>1, <1>2, <1>3, <1>4, <1>5, <1>6, <1>7, <1>8

\* promoteFollower in message().
LEMMA MessagePreserves ==
    ASSUME IInv, NEW t \in Threads, Message(t)
    PROVE  IInv'
<1> USE DEF IInv
<1>0. /\ pc[t] \in Leading /\ pc' \in [Threads -> Labels] /\ pc'[t] = "upcall"
      /\ \A s \in Threads \ {t} :
            \/ pc'[s] = pc[s]
            \/ SizeMax # 1 /\ pc[s] \in {"asleep", "none"} /\ pc'[s] = "wait"
      /\ promote' = IF SizeMax = 1 THEN promote ELSE TRUE
      /\ SizeMax # 1 /\ Asleep # {} => \E s \in Threads : pc'[s] = "wait"
      /\ inUse' \in Int /\ running' \in Int /\ refused' \in BOOLEAN
  BY PromoteFollowerEffect DEF Message, Leading, Upcalls
<1>1. TypeOK'
  BY <1>0 DEF Message, Drained, fdState, owners, TypeOK, Labels
<1>2. OneThread'
  BY <1>0 DEF OneThread, Waiting, Leading, Upcalls, Gone
<1>3. LeaderToken'
  BY <1>0, SizeAssumption DEF LeaderToken, Leaders, Waiting, Leading, Upcalls, Gone
<1>4. PipeMatchesChanges'
  BY DEF Message, PipeMatchesChanges
<1>5. FdRange'
  BY DEF Message, fdState, FdRange
<1>6. SnapshotCurrent'
  BY <1>0 DEF Message, fdState, SnapshotCurrent
<1>7. HandlerHeld'
  BY <1>0 DEF Message, TypeOK, HandlerHeld
<1>8. NoLostWakeup'
  BY <1>0 DEF OneThread, NoLostWakeup, Asleep, Waiting, Leading, Upcalls, Gone
<1>9. QED
  BY <1>1, <1>2, <1>3, <1>4, <1>5, <1>6, <1>7, <1>8

\* The owners are told; leadership is not concerned.
LEMMA FinishedCountsPreserves ==
    ASSUME IInv, NEW t \in Threads, FinishedCounts(t)
    PROVE  IInv'
<1> USE DEF IInv
<1>1. TypeOK'
  <2>1. handler[t] \in Fds
    BY DEF FinishedCounts, HandlerHeld
  <2>2. owed' \in [Fds -> Int]
    BY <2>1 DEF FinishedCounts, TypeOK
  <2>3. QED
    BY <2>2 DEF FinishedCounts, Goto, counters, fdState, TypeOK, Waiting, Leading, Upcalls, Gone
<1>2. OneThread'
  BY DEF FinishedCounts, Goto, TypeOK, OneThread, Waiting, Leading, Upcalls, Gone
<1>3. LeaderToken'
  BY DEF FinishedCounts, Goto, TypeOK, OneThread, LeaderToken, Leaders, Waiting, Leading, Upcalls, Gone
<1>4. PipeMatchesChanges'
  BY DEF FinishedCounts, PipeMatchesChanges
<1>5. FdRange'
  BY DEF FinishedCounts, fdState, FdRange
<1>6. SnapshotCurrent'
  BY DEF FinishedCounts, fdState, Goto, TypeOK, SnapshotCurrent
<1>7. HandlerHeld'
  BY DEF FinishedCounts, Goto, TypeOK, HandlerHeld
<1>8. NoLostWakeup'
  BY DEF FinishedCounts, Goto, TypeOK, OneThread, NoLostWakeup, Asleep, Waiting, Leading, Upcalls, Gone
<1>9. QED
  BY <1>1, <1>2, <1>3, <1>4, <1>5, <1>6, <1>7, <1>8

\* The leader goes back to select().
LEMMA ReadThrowsPreserves ==
    ASSUME IInv, NEW t \in Threads, ReadThrows(t)
    PROVE  IInv'
<1> USE DEF IInv
<1>1. TypeOK'
  BY DEF ReadThrows, Drained, counters, fdState, owners, Goto, TypeOK, Waiting, Leading, Upcalls, Gone
<1>2. OneThread'
  BY DEF ReadThrows, Goto, TypeOK, OneThread, Waiting, Leading, Upcalls, Gone
<1>3. LeaderToken'
  BY DEF ReadThrows, Goto, TypeOK, OneThread, LeaderToken, Leaders, Waiting, Leading, Upcalls, Gone
<1>4. PipeMatchesChanges'
  BY DEF ReadThrows, PipeMatchesChanges
<1>5. FdRange'
  BY DEF ReadThrows, fdState, FdRange
<1>6. SnapshotCurrent'
  BY DEF ReadThrows, fdState, Goto, TypeOK, SnapshotCurrent
<1>7. HandlerHeld'
  BY DEF ReadThrows, Goto, TypeOK, HandlerHeld
<1>8. NoLostWakeup'
  BY DEF ReadThrows, Goto, TypeOK, OneThread, NoLostWakeup, Asleep, Waiting, Leading, Upcalls, Gone
<1>9. QED
  BY <1>1, <1>2, <1>3, <1>4, <1>5, <1>6, <1>7, <1>8

\* The thread waits, leaves or, alone, leads again.
LEMMA UpcallReturnsPreserves ==
    ASSUME IInv, NEW t \in Threads, UpcallReturns(t)
    PROVE  IInv'
<1> USE DEF IInv
<1>0. /\ pc[t] = "upcall" /\ pc' \in [Threads -> Labels]
      /\ \/ SizeMax = 1 /\ pc'[t] = "select"
         \/ SizeMax # 1 /\ pc'[t] \in {"wait", "leaving"}
      /\ \A s \in Threads \ {t} :
            pc'[s] = pc[s] \/ (pc[s] = "dead" /\ pc'[s] = "none")
  BY DEF UpcallReturns, Goto, TypeOK, Labels, Waiting, Leading, Upcalls, Gone
<1>1. TypeOK'
  <2>1. inUse' \in Int /\ running' \in Int /\ load' \in Int /\ refused' = refused
    BY DEF UpcallReturns, NewLoads, counters, TypeOK
  <2>2. QED
    BY <1>0, <2>1 DEF UpcallReturns, fdState, owners, TypeOK, Labels
<1>2. OneThread'
  BY <1>0 DEF OneThread, Waiting, Leading, Upcalls, Gone
<1>3. LeaderToken'
  BY <1>0, SizeAssumption DEF UpcallReturns, OneThread, LeaderToken, Leaders, Waiting, Leading, Upcalls, Gone
<1>4. PipeMatchesChanges'
  BY DEF UpcallReturns, PipeMatchesChanges
<1>5. FdRange'
  BY DEF UpcallReturns, fdState, FdRange
<1>6. SnapshotCurrent'
  BY <1>0 DEF UpcallReturns, fdState, SnapshotCurrent
<1>7. HandlerHeld'
  BY <1>0 DEF UpcallReturns, HandlerHeld
<1>8. NoLostWakeup'
  BY <1>0 DEF UpcallReturns, OneThread, NoLostWakeup, Asleep, Waiting, Leading, Upcalls, Gone
<1>9. QED
  BY <1>1, <1>2, <1>3, <1>4, <1>5, <1>6, <1>7, <1>8

\* Leadership is free and a sleeper is woken.
LEMMA ExitPreserves ==
    ASSUME IInv, NEW t \in Threads, Exit(t)
    PROVE  IInv'
<1> USE DEF IInv
<1>0. /\ pc[t] = "exit" /\ pc' \in [Threads -> Labels] /\ pc'[t] = "leaving"
      /\ \A s \in Threads \ {t} :
            \/ pc'[s] = pc[s]
            \/ SizeMax # 1 /\ pc[s] = "asleep" /\ pc'[s] = "wait"
      /\ promote' = IF SizeMax = 1 THEN promote ELSE TRUE
      /\ SizeMax # 1 /\ Asleep # {} => \E s \in Threads : pc'[s] = "wait"
  BY DEF Exit, NotifyChoices, Asleep, Goto, TypeOK, Labels, Waiting, Leading, Upcalls, Gone
<1>1. TypeOK'
  BY <1>0 DEF Exit, counters, fdState, owners, TypeOK, Labels
<1>2. OneThread'
  BY <1>0 DEF OneThread, Waiting, Leading, Upcalls, Gone
<1>3. LeaderToken'
  BY <1>0, SizeAssumption DEF LeaderToken, Leaders, Waiting, Leading, Upcalls, Gone
<1>4. PipeMatchesChanges'
  BY DEF Exit, PipeMatchesChanges
<1>5. FdRange'
  BY DEF Exit, fdState, FdRange
<1>6. SnapshotCurrent'
  BY <1>0 DEF Exit, fdState, SnapshotCurrent
<1>7. HandlerHeld'
  BY <1>0 DEF Exit, TypeOK, HandlerHeld
<1>8. NoLostWakeup'
  BY <1>0 DEF OneThread, NoLostWakeup, Asleep, Waiting, Leading, Upcalls, Gone
<1>9. QED
  BY <1>1, <1>2, <1>3, <1>4, <1>5, <1>6, <1>7, <1>8

\* A thread that left the pool ends.
LEMMA DiePreserves ==
    ASSUME IInv, NEW t \in Threads, Die(t)
    PROVE  IInv'
<1> USE DEF IInv
<1>1. TypeOK'
  BY DEF Die, counters, fdState, owners, Goto, TypeOK, Waiting, Leading, Upcalls, Gone
<1>2. OneThread'
  BY DEF Die, Goto, TypeOK, OneThread, Waiting, Leading, Upcalls, Gone
<1>3. LeaderToken'
  BY DEF Die, Goto, TypeOK, OneThread, LeaderToken, Leaders, Waiting, Leading, Upcalls, Gone
<1>4. PipeMatchesChanges'
  BY DEF Die, PipeMatchesChanges
<1>5. FdRange'
  BY DEF Die, fdState, FdRange
<1>6. SnapshotCurrent'
  BY DEF Die, fdState, Goto, TypeOK, SnapshotCurrent
<1>7. HandlerHeld'
  BY DEF Die, Goto, TypeOK, HandlerHeld
<1>8. NoLostWakeup'
  BY DEF Die, Goto, TypeOK, OneThread, NoLostWakeup, Asleep, Waiting, Leading, Upcalls, Gone
<1>9. QED
  BY <1>1, <1>2, <1>3, <1>4, <1>5, <1>6, <1>7, <1>8


\* The owners' calls and the network add to the queue and the pipe only.
LEMMA OwnerStepPreserves ==
    ASSUME IInv, OwnerStep
    PROVE  IInv'
<1> USE DEF IInv
<1>0. UNCHANGED <<promote, pc, handler, snap, handlerMap, minFd, maxFd>>
  BY DEF OwnerStep, Register, Unregister, Destroy, Arrive, fdState
<1>1. TypeOK' /\ PipeMatchesChanges'
  <2>1. ASSUME NEW f \in Fds, Register(f) PROVE TypeOK' /\ PipeMatchesChanges'
    BY <1>0, <2>1, BoundAssumption DEF Register, counters, TypeOK, PipeMatchesChanges
  <2>2. ASSUME NEW f \in Fds, Unregister(f) PROVE TypeOK' /\ PipeMatchesChanges'
    BY <1>0, <2>2 DEF Unregister, counters, TypeOK, PipeMatchesChanges
  <2>3. ASSUME NEW f \in Fds, Arrive(f) PROVE TypeOK' /\ PipeMatchesChanges'
    BY <1>0, <2>3 DEF Arrive, counters, owners, TypeOK, PipeMatchesChanges
  <2>4. ASSUME Destroy PROVE TypeOK' /\ PipeMatchesChanges'
    BY <1>0, <2>4 DEF Destroy, counters, owners, TypeOK, PipeMatchesChanges
  <2>5. QED
    BY <2>1, <2>2, <2>3, <2>4 DEF OwnerStep
<1>2. SnapshotCurrent'
  <2>1. pipe <= pipe' /\ pipe' \in Nat /\ pipe \in Nat
    BY DEF OwnerStep, Register, Unregister, Destroy, Arrive, TypeOK
  <2>2. destroyed => destroyed'
    BY DEF OwnerStep, Register, Unregister, Destroy, Arrive
  <2>3. changes # <<>> => changes' # <<>>
    BY DEF OwnerStep, Register, Unregister, Destroy, Arrive, TypeOK
  <2>4. QED
    BY <1>0, <2>1, <2>2, <2>3 DEF SnapshotCurrent
<1>3. OneThread' /\ LeaderToken' /\ FdRange' /\ HandlerHeld' /\ NoLostWakeup'
  BY <1>0 DEF OneThread, LeaderToken, Leaders, FdRange, HandlerHeld, NoLostWakeup, Asleep
<1>4. QED
  BY <1>1, <1>2, <1>3

-----------------------------------------------------------------------------
(* The theorems.                                                           *)

\* The constructor establishes the invariant, also when it fails half way.
LEMMA InitInvariant == Init => IInv
<1> SUFFICES ASSUME Init PROVE IInv
  OBVIOUS
<1>1. PICK S \in SUBSET Threads :
          /\ Cardinality(S) <= Size
          /\ pc = [t \in Threads |-> IF t \in S THEN Start ELSE "none"]
          /\ running = Cardinality(S)
          /\ destroyed = (Cardinality(S) < Size)
          /\ pipe = IF Cardinality(S) < Size THEN 1 ELSE 0
  BY DEF Init
<1>2. IsFiniteSet(S) /\ Cardinality(S) \in Nat
  BY SizeAssumption, FS_Subset, FS_CardinalityType
<1>3. TypeOK
  <2>1. pc \in [Threads -> Labels]
    BY <1>1 DEF Start, Labels, Waiting, Leading
  <2>2. destroyed \in BOOLEAN /\ running \in Int /\ pipe \in Nat
    BY <1>1, <1>2, SizeAssumption
  <2>3. /\ promote \in BOOLEAN /\ timeout \in BOOLEAN /\ refused \in BOOLEAN
        /\ handlerMap = {} /\ registered = {} /\ readable = {}
    BY BoundAssumption, Zenon DEF Init
  <2>4. /\ inUse \in Int /\ load \in Int /\ changes \in Seq(Fds \X {"add", "remove"})
        /\ minFd = IntrFd /\ maxFd = IntrFd /\ lastFd = -1
    BY DEF Init
  <2>5. /\ handler \in [Threads -> Fds \cup {NoFd}]
        /\ snap \in [Threads -> SUBSET (Fds \cup {IntrFd})]
        /\ owed \in [Fds -> Int] /\ regs \in [Fds -> 0..MaxRegs]
    BY BoundAssumption DEF Init
  <2>6. QED
    BY <2>1, <2>2, <2>3, <2>4, <2>5 DEF TypeOK, Labels
<1>4. OneThread
  <2>1. SUFFICES ASSUME SizeMax = 1
                 PROVE  \A s, t \in S : s = t
    BY <1>1 DEF OneThread, Start, Waiting
  <2>2. Cardinality(S) = 0 \/ Cardinality(S) = 1
    BY <1>1, <1>2, <2>1, SizeAssumption
  <2>3. S = {} \/ \E x : S = {x}
    BY <1>2, <2>2, FS_EmptySet, FS_Singleton
  <2>4. QED
    BY <2>3
<1>5. LeaderToken
  BY <1>1, <1>4, SizeAssumption DEF Init, OneThread, LeaderToken, Leaders, Start, Waiting, Leading
<1>6. PipeMatchesChanges
  <2>1. Len(changes) = 0
    BY DEF Init
  <2>2. destroyed <=> Cardinality(S) < Size
    BY <1>1, Zenon
  <2>3. pipe = IF destroyed THEN 1 ELSE 0
    BY <1>1, <2>2
  <2>4. QED
    BY <2>1, <2>3 DEF PipeMatchesChanges
<1>7. FdRange
  <2>1. handlerMap = {} /\ minFd = IntrFd /\ maxFd = IntrFd
    BY DEF Init
  <2>2. IntrFd \in Int
    BY FdsAssumption
  <2>3. QED
    BY <2>1, <2>2, RangeFacts DEF FdRange
<1>8. SnapshotCurrent /\ HandlerHeld /\ NoLostWakeup
  BY <1>1 DEF SnapshotCurrent, HandlerHeld, NoLostWakeup, Asleep, Start
<1>9. QED
  BY <1>3, <1>4, <1>5, <1>6, <1>7, <1>8 DEF IInv

\* Every step preserves the invariant.
LEMMA NextInvariant == IInv /\ [Next]_vars => IInv'
<1> SUFFICES ASSUME IInv, [Next]_vars PROVE IInv'
  OBVIOUS
<1>1. ASSUME NEW t \in Threads, ThreadStep(t) PROVE IInv'
  BY <1>1, TakeLeadershipPreserves, FallAsleepPreserves, SelectPreserves,
     SelectTimeoutPreserves, GotDestroyedPreserves, GotAddPreserves, GotRemovePreserves,
     GotDataPreserves, ShutdownPreserves, ShutdownPromotesPreserves,
     FinishedPromotesPreserves, FinishedCountsPreserves, ReadThrowsPreserves,
     MessagePreserves, UpcallReturnsPreserves, ExitPreserves, DiePreserves
  DEF ThreadStep
<1>2. CASE OwnerStep
  BY <1>2, OwnerStepPreserves
<1>3. CASE UNCHANGED vars
  BY <1>3 DEF vars, counters, fdState, owners, IInv, TypeOK, OneThread, LeaderToken,
     Leaders, PipeMatchesChanges, FdRange, SnapshotCurrent, HandlerHeld, NoLostWakeup,
     Asleep
<1>4. QED
  BY <1>1, <1>2, <1>3 DEF Next

\* The invariant holds in every reachable state.
THEOREM Invariance == Spec => []IInv
<1>1. QED
  BY InitInvariant, NextInvariant, PTL DEF Spec

\* Type correctness of the pool.
THEOREM TypeCorrect == Spec => []TypeOK
<1>1. IInv => TypeOK
  BY DEF IInv
<1>2. QED
  BY <1>1, Invariance, PTL

\* At any time one thread leads, or leadership is free: no two threads of the
\* pool are ever in select() or in the locked part of run() for it.
THEOREM OneLeader == Spec => []LeaderToken
<1>1. IInv => LeaderToken
  BY DEF IInv
<1>2. QED
  BY <1>1, Invariance, PTL

\* One byte in the pipe per queued change, and one for destroy().
THEOREM InterruptPerChange == Spec => []PipeMatchesChanges
<1>1. IInv => PipeMatchesChanges
  BY DEF IInv
<1>2. QED
  BY <1>1, Invariance, PTL

\* What select() told the leader is still true under the lock: run()'s two
\* "cannot happen" error branches and its assert on _changes are never reached.
THEOREM SnapshotStaysCurrent == Spec => []SnapshotCurrent
<1>1. IInv => SnapshotCurrent
  BY DEF IInv
<1>2. QED
  BY <1>1, Invariance, PTL

\* The scan range is exact after any additions and removals.
THEOREM ExactRange == Spec => []FdRange
<1>1. IInv => FdRange
  BY DEF IInv
<1>2. QED
  BY <1>1, Invariance, PTL

\* Leadership that is free is never left to sleeping threads only.
THEOREM WakeupNotLost == Spec => []NoLostWakeup
<1>1. IInv => NoLostWakeup
  BY DEF IInv
<1>2. QED
  BY <1>1, Invariance, PTL

\* After destroy() no thread is created or reaped.
THEOREM ThreadsStayAfterDestroy == Spec => ThreadsImmutable
<1>1. TypeOK /\ [Next]_vars => [destroyed => Unused' = Unused]_vars
  <2> SUFFICES ASSUME TypeOK, Next, destroyed PROVE Unused' = Unused
    OBVIOUS
  <2>1. ASSUME NEW t \in Threads, ThreadStep(t) PROVE Unused' = Unused
    <3>1. CASE ShutdownPromotes(t) \/ FinishedPromotes(t) \/ Message(t)
      <4>1. Births = {{}} /\ pc[t] \in Leading
        BY <3>1 DEF NeedsThread, Births, ShutdownPromotes, FinishedPromotes, Message, Leading
      <4>2. PICK l \in Upcalls : PromoteFollower(t, l)
        BY <3>1 DEF ShutdownPromotes, FinishedPromotes, Message, Upcalls
      <4>3. CASE SizeMax = 1
        BY <4>1, <4>2, <4>3 DEF PromoteFollower, Goto, Unused, TypeOK, Leading, Upcalls
      <4>4. CASE SizeMax # 1
        <5>1. PICK woken \in NotifyChoices, born \in Births :
                  pc' = [s \in Threads |-> IF s = t THEN l
                                           ELSE IF s \in woken \cup born THEN "wait"
                                           ELSE pc[s]]
          BY <4>2, <4>4 DEF PromoteFollower
        <5>2. born = {} /\ woken \subseteq Asleep
          BY <4>1 DEF NotifyChoices
        <5>3. QED
          BY <4>1, <5>1, <5>2 DEF Unused, Asleep, Leading, Upcalls
      <4>5. QED
        BY <4>3, <4>4
    <3>2. CASE Exit(t)
      BY <3>2 DEF Exit, NotifyChoices, Asleep, Unused, Goto, TypeOK
    <3>3. CASE UpcallReturns(t)
      BY <3>3 DEF UpcallReturns, Unused, Goto, TypeOK
    <3>4. CASE \/ TakeLeadership(t) \/ FallAsleep(t) \/ Select(t) \/ SelectTimeout(t)
               \/ GotDestroyed(t) \/ GotAdd(t) \/ GotRemove(t) \/ GotData(t)
               \/ Shutdown(t) \/ FinishedCounts(t) \/ ReadThrows(t) \/ Die(t)
      <4>1. pc[t] # "none"
        BY <3>4 DEF TakeLeadership, FallAsleep, Select, SelectTimeout, GotDestroyed,
           GotAdd, GotRemove, TakeChange, GotData, Shutdown, FinishedCounts, ReadThrows, Die
      <4>2. \E l \in {"select", "asleep", "got", "shutdown", "exit", "finished",
                      "message", "promote", "upcall", "dead"} : Goto(t, l)
        BY <3>4 DEF TakeLeadership, FallAsleep, Select, SelectTimeout, GotDestroyed,
           GotAdd, GotRemove, GotData, Shutdown, FinishedCounts, ReadThrows, Die
      <4>3. QED
        BY <4>1, <4>2 DEF Goto, Unused, TypeOK
    <3>5. QED
      BY <2>1, <3>1, <3>2, <3>3, <3>4 DEF ThreadStep
  <2>2. CASE OwnerStep
    BY <2>2 DEF OwnerStep, Register, Unregister, Destroy, Arrive, Unused
  <2>3. QED
    BY <2>1, <2>2 DEF Next
<1>2. QED
  BY <1>1, TypeCorrect, PTL DEF Spec, ThreadsImmutable
=============================================================================
