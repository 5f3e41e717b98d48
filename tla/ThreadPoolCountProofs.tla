------------------------ MODULE ThreadPoolCountProofs ------------------------
(***************************************************************************)
(* Proofs about what ThreadPool counts and queues: the changes and the     *)
(* finished() calls the owners wait for, and the threads in _running and   *)
(* _inUse.                                                                 *)
(***************************************************************************)
EXTENDS ThreadPoolProofs

-----------------------------------------------------------------------------
(* The queue of changes and the finished() calls.                          *)

QueueInv == ChangesConsistent /\ FinishedOncePerUnregister

Finisher == {"finished", "finishing"}

\* Threads that keep their handler and do not enter or leave finished() are the
\* same before and after.
LEMMA FinishingSame ==
    ASSUME \A s \in Threads : pc'[s] \in Finisher <=> pc[s] \in Finisher,
           \A s \in Threads : pc[s] \in Finisher => handler'[s] = handler[s]
    PROVE  \A f \in Fds : Finishing(f)' = Finishing(f)
  BY DEF Finishing, Finisher

\* What follows concerns the queue only in six kinds of steps.
LEMMA OtherSteps ==
    ASSUME IInv, [Next]_vars,
           \A f \in Fds : ~Register(f) /\ ~Unregister(f),
           \A t \in Threads : ~GotAdd(t) /\ ~GotRemove(t) /\ ~FinishedCounts(t)
    PROVE  /\ UNCHANGED <<changes, handlerMap, registered, owed>>
           /\ \A f \in Fds : Finishing(f)' = Finishing(f)
<1> DEFINE Same ==
      /\ UNCHANGED <<changes, handlerMap, registered, owed>>
      /\ \A s \in Threads : pc'[s] \in Finisher <=> pc[s] \in Finisher
      /\ \A s \in Threads : pc[s] \in Finisher => handler'[s] = handler[s]
<1>0. SUFFICES Same
  BY FinishingSame
<1>1. TypeOK
  BY DEF IInv
<1> USE DEF fdState, owners, Finisher
<1>2. ASSUME NEW t \in Threads, ThreadStep(t) PROVE Same
  <2>1. CASE TakeLeadership(t)
    BY <1>1, <2>1 DEF TakeLeadership, Goto, TypeOK
  <2>2. CASE FallAsleep(t)
    BY <1>1, <2>2 DEF FallAsleep, Goto, TypeOK
  <2>3. CASE Select(t)
    BY <1>1, <2>3 DEF Select, Goto, TypeOK
  <2>4. CASE SelectTimeout(t)
    BY <1>1, <2>4 DEF SelectTimeout, Goto, TypeOK
  <2>5. CASE GotDestroyed(t)
    BY <1>1, <2>5 DEF GotDestroyed, Goto, TypeOK
  <2>6. CASE GotData(t)
    BY <1>1, <2>6 DEF GotData, Goto, TypeOK
  <2>7. CASE Shutdown(t)
    BY <1>1, <2>7 DEF Shutdown, Goto, TypeOK
  <2>8. CASE ShutdownPromotes(t)
    <3>1. pc[t] = "promote" /\ PromoteFollower(t, "upcall")
      BY <2>8 DEF ShutdownPromotes
    <3>2. pc'[t] = "upcall" /\ \A s \in Threads \ {t} :
              pc'[s] = pc[s] \/ (pc[s] \in {"asleep", "none"} /\ pc'[s] = "wait")
      BY <1>1, <3>1, PromoteFollowerEffect DEF Leading, Upcalls
    <3>3. QED
      BY <2>8, <3>1, <3>2 DEF ShutdownPromotes
  <2>9. CASE FinishedPromotes(t)
    <3>1. pc[t] = "finished" /\ PromoteFollower(t, "finishing")
      BY <2>9 DEF FinishedPromotes
    <3>2. pc'[t] = "finishing" /\ \A s \in Threads \ {t} :
              pc'[s] = pc[s] \/ (pc[s] \in {"asleep", "none"} /\ pc'[s] = "wait")
      BY <1>1, <3>1, PromoteFollowerEffect DEF Leading, Upcalls
    <3>3. QED
      BY <2>9, <3>1, <3>2 DEF FinishedPromotes
  <2>10. CASE ReadThrows(t)
    BY <1>1, <2>10 DEF ReadThrows, Goto, TypeOK
  <2>11. CASE Message(t)
    <3>1. pc[t] = "message" /\ PromoteFollower(t, "upcall")
      BY <2>11 DEF Message
    <3>2. pc'[t] = "upcall" /\ \A s \in Threads \ {t} :
              pc'[s] = pc[s] \/ (pc[s] \in {"asleep", "none"} /\ pc'[s] = "wait")
      BY <1>1, <3>1, PromoteFollowerEffect DEF Leading, Upcalls
    <3>3. QED
      BY <1>1, <2>11, <3>1, <3>2 DEF Message, TypeOK
  <2>12. CASE UpcallReturns(t)
    BY <1>1, <2>12 DEF UpcallReturns, Goto, TypeOK
  <2>13. CASE Exit(t)
    <3>1. pc[t] = "exit" /\ pc'[t] = "leaving"
          /\ \A s \in Threads \ {t} : pc'[s] = pc[s] \/ (pc[s] = "asleep" /\ pc'[s] = "wait")
      BY <1>1, <2>13 DEF Exit, NotifyChoices, Asleep, Goto, TypeOK
    <3>2. QED
      BY <2>13, <3>1 DEF Exit
  <2>14. CASE Die(t)
    BY <1>1, <2>14 DEF Die, Goto, TypeOK
  <2>15. QED
    BY <1>2, <2>1, <2>2, <2>3, <2>4, <2>5, <2>6, <2>7, <2>8, <2>9, <2>10, <2>11, <2>12, <2>13,
       <2>14 DEF ThreadStep
<1>3. ASSUME OwnerStep PROVE Same
  BY <1>3 DEF OwnerStep, Arrive, Destroy
<1>4. ASSUME UNCHANGED vars PROVE Same
  BY <1>4 DEF vars
<1>5. QED
  BY <1>2, <1>3, <1>4 DEF Next

\* Nothing of it changes.
LEMMA QueueSame ==
    ASSUME IInv, QueueInv, UNCHANGED <<changes, handlerMap, registered, owed>>,
           \A f \in Fds : Finishing(f)' = Finishing(f)
    PROVE  QueueInv'
<1>1. FinishedOncePerUnregister'
  <2>1. \A f \in Fds : Removals(f)' = Removals(f)
    BY DEF Removals
  <2>2. QED
    BY <2>1 DEF QueueInv, FinishedOncePerUnregister
<1>2. ChangesConsistent'
  <2>1. \A f \in Fds, n \in Int : HasHandler(f, n)' <=> HasHandler(f, n)
    BY DEF HasHandler
  <2>2. Len(changes) \in Nat
    BY DEF IInv, TypeOK
  <2>3. QED
    BY <2>1, <2>2 DEF QueueInv, ChangesConsistent
<1>3. QED
  BY <1>1, <1>2 DEF QueueInv

\* The same, of any queue s, handlers H and registered descriptors R.
Has(s, H, f, n) ==
    \/ \E i \in 1..n : s[i] = <<f, "add">> /\ \A j \in (i + 1)..n : s[j][1] # f
    \/ f \in H /\ \A j \in 1..n : s[j][1] # f

Consistent(s, H, R) ==
    \A f \in Fds :
        /\ \A i \in 1..Len(s) : s[i][1] = f => (s[i][2] = "remove" <=> Has(s, H, f, i - 1))
        /\ f \in R <=> Has(s, H, f, Len(s))

Change == Fds \X {"add", "remove"}

\* ChangesConsistent is Consistent of the current queue.
LEMMA ConsistentIs ==
    /\ ChangesConsistent <=> Consistent(changes, handlerMap, registered)
    /\ ChangesConsistent' <=> Consistent(changes', handlerMap', registered')
  BY DEF ChangesConsistent, Consistent, HasHandler, Has

\* A change that fits is queued: a removal for an owner that is registered, an
\* addition for one that is not.
LEMMA ConsistentAppend ==
    ASSUME NEW s \in Seq(Change), NEW H, NEW R, Consistent(s, H, R),
           NEW g \in Fds, NEW op \in {"add", "remove"}, op = "remove" <=> g \in R
    PROVE  Consistent(Append(s, <<g, op>>), H,
                      IF op = "add" THEN R \cup {g} ELSE R \ {g})
<1>1. PICK n \in Nat : n = Len(s)
  OBVIOUS
<1>2. PICK u \in Seq(Change) : u = Append(s, <<g, op>>)
  <2>1. <<g, op>> \in Change
    BY DEF Change
  <2>2. Append(s, <<g, op>>) \in Seq(Change)
    BY <2>1
  <2>3. QED
    BY <2>2
<1>3. /\ Len(u) = n + 1 /\ u[n + 1] = <<g, op>> /\ \A i \in 1..n : u[i] = s[i]
  BY <1>1, <1>2 DEF Change
<1>4. \A f \in Fds, m \in 0..n : Has(u, H, f, m) <=> Has(s, H, f, m)
  <2>1. TAKE f \in Fds, m \in 0..n
  <2>2. \A j \in 1..m : u[j] = s[j]
    BY <1>3
  <2>3. \A i \in 1..m : \A j \in (i + 1)..m : u[j] = s[j]
    BY <2>2
  <2>4. QED
    BY <2>2, <2>3 DEF Has
<1>5. Has(u, H, g, n + 1) <=> op = "add"
  <2>1. op = "add" => Has(u, H, g, n + 1)
    <3>1. n + 1 \in 1..(n + 1) /\ ((n + 1) + 1)..(n + 1) = {}
      OBVIOUS
    <3>2. QED
      BY <1>3, <3>1 DEF Has
  <2>2. n + 1 \in 1..(n + 1) /\ u[n + 1][1] = g
    BY <1>3
  <2>3. ASSUME NEW i \in 1..(n + 1), \A j \in (i + 1)..(n + 1) : u[j][1] # g PROVE i = n + 1
    <3>1. i # n + 1 => n + 1 \in (i + 1)..(n + 1)
      OBVIOUS
    <3>2. QED
      BY <2>2, <2>3, <3>1
  <2>4. Has(u, H, g, n + 1) => op = "add"
    BY <1>3, <2>2, <2>3 DEF Has
  <2>5. QED
    BY <2>1, <2>4
<1>6. ASSUME NEW f \in Fds, f # g PROVE Has(u, H, f, n + 1) <=> Has(s, H, f, n)
  <2>1. u[n + 1][1] # f /\ u[n + 1] # <<f, "add">>
    BY <1>3, <1>6
  <2>2. (\A j \in 1..(n + 1) : u[j][1] # f) <=> (\A j \in 1..n : s[j][1] # f)
    BY <1>3, <2>1
  <2>3. ASSUME NEW i \in 1..n
        PROVE  (\A j \in (i + 1)..(n + 1) : u[j][1] # f) <=> (\A j \in (i + 1)..n : s[j][1] # f)
    BY <1>3, <2>1
  <2>4. \A i \in 1..(n + 1) : i \in 1..n \/ i = n + 1
    OBVIOUS
  <2>5. \A i \in 1..n : i \in 1..(n + 1)
    OBVIOUS
  <2>6. QED
    BY <1>3, <2>1, <2>2, <2>3, <2>4, <2>5 DEF Has
<1>7. ASSUME NEW f \in Fds
      PROVE  /\ \A i \in 1..(n + 1) : u[i][1] = f => (u[i][2] = "remove" <=> Has(u, H, f, i - 1))
             /\ f \in (IF op = "add" THEN R \cup {g} ELSE R \ {g}) <=> Has(u, H, f, n + 1)
  <2>1. /\ \A i \in 1..n : s[i][1] = f => (s[i][2] = "remove" <=> Has(s, H, f, i - 1))
        /\ f \in R <=> Has(s, H, f, n)
    BY <1>1 DEF Consistent
  <2>2. f \in (IF op = "add" THEN R \cup {g} ELSE R \ {g}) <=> Has(u, H, f, n + 1)
    BY <1>5, <1>6, <2>1
  <2>3. ASSUME NEW i \in 1..n PROVE u[i][1] = f => (u[i][2] = "remove" <=> Has(u, H, f, i - 1))
    <3>1. i - 1 \in 0..n
      OBVIOUS
    <3>2. QED
      BY <3>1, <1>3, <1>4, <2>1
  <2>4. u[n + 1][1] = f => (u[n + 1][2] = "remove" <=> Has(u, H, f, (n + 1) - 1))
    <3>1. (n + 1) - 1 = n /\ n \in 0..n
      OBVIOUS
    <3>2. u[n + 1][1] = g /\ u[n + 1][2] = op
      BY <1>3
    <3>3. f = g => (op = "remove" <=> Has(u, H, f, n))
      BY <3>1, <1>4, <2>1
    <3>4. QED
      BY <3>1, <3>2, <3>3
  <2>5. \A i \in 1..(n + 1) : i \in 1..n \/ i = n + 1
    OBVIOUS
  <2>6. QED
    BY <2>2, <2>3, <2>4, <2>5
<1>8. QED
  BY <1>2, <1>3, <1>7 DEF Consistent

\* The first change is applied.
LEMMA ConsistentTail ==
    ASSUME NEW s \in Seq(Change), NEW H, NEW R, Consistent(s, H, R), s # <<>>,
           NEW g \in Fds, NEW op \in {"add", "remove"}, Head(s) = <<g, op>>
    PROVE  /\ op = "remove" <=> g \in H
           /\ Consistent(Tail(s), IF op = "add" THEN H \cup {g} ELSE H \ {g}, R)
<1>1. PICK u \in Seq(Change) : u = Tail(s)
  <2>1. Tail(s) \in Seq(Change)
    OBVIOUS
  <2>2. QED
    BY <2>1
<1>2. PICK n \in Nat : n = Len(u)
  OBVIOUS
<1>3. /\ Len(s) = n + 1 /\ s[1] = <<g, op>>
      /\ \A i \in 1..n : u[i] = s[i + 1]
  BY <1>1, <1>2
<1>4. PICK K : K = IF op = "add" THEN H \cup {g} ELSE H \ {g}
  OBVIOUS
<1>5. ASSUME NEW f \in Fds, NEW m \in 0..n PROVE Has(u, K, f, m) <=> Has(s, H, f, m + 1)
  <2>1. /\ \A i \in 1..m : i + 1 \in 2..(m + 1)
        /\ \A i \in 2..(m + 1) : i - 1 \in 1..m /\ u[i - 1] = s[i]
        /\ \A i \in 1..(m + 1) : i = 1 \/ i \in 2..(m + 1)
        /\ 1 \in 1..(m + 1) /\ 2..(m + 1) \subseteq 1..(m + 1)
    BY <1>3
  <2>2. /\ s[1] = <<f, "add">> <=> (f = g /\ op = "add")
        /\ s[1][1] # f <=> f # g
    BY <1>3
  <2>3. (\A j \in 1..m : u[j][1] # f) <=> (\A j \in 2..(m + 1) : s[j][1] # f)
    BY <1>3, <2>1
  <2>4. ASSUME NEW i \in 1..m
        PROVE  (\A j \in (i + 1)..m : u[j][1] # f) <=> (\A j \in (i + 2)..(m + 1) : s[j][1] # f)
    <3>1. /\ \A j \in (i + 1)..m : j + 1 \in (i + 2)..(m + 1) /\ u[j] = s[j + 1]
          /\ \A j \in (i + 2)..(m + 1) : j - 1 \in (i + 1)..m /\ u[j - 1] = s[j]
      BY <1>3
    <3>2. QED
      BY <3>1
  <2>5. (\E i \in 1..m : u[i] = <<f, "add">> /\ \A j \in (i + 1)..m : u[j][1] # f)
           <=> (\E i \in 2..(m + 1) : s[i] = <<f, "add">>
                                      /\ \A j \in (i + 1)..(m + 1) : s[j][1] # f)
    <3>1. ASSUME NEW i \in 1..m, u[i] = <<f, "add">>, \A j \in (i + 1)..m : u[j][1] # f
          PROVE  /\ i + 1 \in 2..(m + 1) /\ s[i + 1] = <<f, "add">>
                 /\ \A j \in ((i + 1) + 1)..(m + 1) : s[j][1] # f
      <4>1. (i + 1) + 1 = i + 2 /\ i \in 1..n
        OBVIOUS
      <4>2. QED
        BY <1>3, <2>1, <2>4, <3>1, <4>1
    <3>2. ASSUME NEW k \in 2..(m + 1), s[k] = <<f, "add">>,
                 \A j \in (k + 1)..(m + 1) : s[j][1] # f
          PROVE  /\ k - 1 \in 1..m /\ u[k - 1] = <<f, "add">>
                 /\ \A j \in ((k - 1) + 1)..m : u[j][1] # f
      <4>1. (k - 1) + 2 = k + 1 /\ k - 1 \in 1..m
        OBVIOUS
      <4>2. QED
        BY <2>1, <2>4, <3>2, <4>1
    <3>3. QED
      BY <3>1, <3>2
  <2>6. f \in K <=> (f = g /\ op = "add") \/ (f # g /\ f \in H)
    BY <1>4
  <2>7. Has(s, H, f, m + 1) <=>
            \/ \E i \in 2..(m + 1) : s[i] = <<f, "add">>
                                     /\ \A j \in (i + 1)..(m + 1) : s[j][1] # f
            \/ s[1] = <<f, "add">> /\ \A j \in 2..(m + 1) : s[j][1] # f
            \/ f \in H /\ s[1][1] # f /\ \A j \in 2..(m + 1) : s[j][1] # f
    <3>1. 1 + 1 = 2
      OBVIOUS
    <3>2. QED
      BY <2>1, <3>1 DEF Has
  <2>8. QED
    BY <2>2, <2>3, <2>5, <2>6, <2>7 DEF Has
<1>6. ASSUME NEW f \in Fds
      PROVE  /\ \A i \in 1..n : u[i][1] = f => (u[i][2] = "remove" <=> Has(u, K, f, i - 1))
             /\ f \in R <=> Has(u, K, f, n)
  <2>1. /\ \A i \in 1..(n + 1) : s[i][1] = f => (s[i][2] = "remove" <=> Has(s, H, f, i - 1))
        /\ f \in R <=> Has(s, H, f, n + 1)
    BY <1>3 DEF Consistent
  <2>2. ASSUME NEW i \in 1..n PROVE u[i][1] = f => (u[i][2] = "remove" <=> Has(u, K, f, i - 1))
    <3>1. i - 1 \in 0..n /\ i + 1 \in 1..(n + 1) /\ (i + 1) - 1 = i /\ (i - 1) + 1 = i
      OBVIOUS
    <3>2. Has(u, K, f, i - 1) <=> Has(s, H, f, i)
      BY <3>1, <1>5
    <3>3. QED
      BY <3>1, <3>2, <1>3, <2>1
  <2>3. n \in 0..n
    OBVIOUS
  <2>4. QED
    BY <1>5, <2>1, <2>2, <2>3
<1>7. op = "remove" <=> g \in H
  <2>1. 1 \in 1..(n + 1) /\ 1 - 1 = 0 /\ 1..0 = {}
    OBVIOUS
  <2>2. Has(s, H, g, 0) <=> g \in H
    BY <2>1 DEF Has
  <2>3. s[1][1] = g /\ s[1][2] = op
    BY <1>3
  <2>4. QED
    BY <1>3, <2>1, <2>2, <2>3 DEF Consistent
<1>8. QED
  BY <1>1, <1>2, <1>4, <1>6, <1>7 DEF Consistent

\* Removals are positions in the queue; nobody finishes more than a thread.
LEMMA RemovalsArePositions ==
    \A f \in Fds : /\ Removals(f) = Positions(changes, <<f, "remove">>)
                   /\ Removals(f)' = Positions(changes', <<f, "remove">>)
  BY DEF Removals, Positions

LEMMA FinishingFinite ==
    \A f \in Fds : IsFiniteSet(Finishing(f)) /\ Cardinality(Finishing(f)) \in Nat
  BY SizeAssumption, FS_Subset, FS_CardinalityType DEF Finishing

\* An owner's call queues a change.
LEMMA OwnersQueue ==
    ASSUME IInv, QueueInv, NEW g \in Fds, Register(g) \/ Unregister(g)
    PROVE  QueueInv'
<1>1. changes \in Seq(Change) /\ registered \subseteq Fds /\ owed \in [Fds -> Int]
  BY DEF IInv, TypeOK, Change
<1>2. PICK op \in {"add", "remove"} :
          /\ op = "remove" <=> g \in registered
          /\ changes' = Append(changes, <<g, op>>)
          /\ registered' = IF op = "add" THEN registered \cup {g} ELSE registered \ {g}
          /\ owed' = IF op = "add" THEN owed ELSE [owed EXCEPT ![g] = @ + 1]
  <2>1. CASE Register(g)
    BY <2>1 DEF Register
  <2>2. CASE Unregister(g)
    BY <2>2 DEF Unregister
  <2>3. QED
    BY <2>1, <2>2
<1>3. UNCHANGED <<handlerMap, pc, handler>>
  BY DEF Register, Unregister, fdState
<1>4. ChangesConsistent'
  <2>1. Consistent(changes, handlerMap, registered)
    BY ConsistentIs DEF QueueInv
  <2>2. Consistent(changes', handlerMap', registered')
    BY <1>1, <1>2, <1>3, <2>1, ConsistentAppend
  <2>3. QED
    BY <2>2, ConsistentIs
<1>5. FinishedOncePerUnregister'
  <2>1. ASSUME NEW f \in Fds
        PROVE  owed'[f] = Cardinality(Removals(f)') + Cardinality(Finishing(f)')
    <3>1. <<g, op>> \in Change
      BY DEF Change
    <3>2. Cardinality(Removals(f)') =
             Cardinality(Removals(f)) + (IF <<g, op>> = <<f, "remove">> THEN 1 ELSE 0)
      <4>1. Cardinality(Positions(Append(changes, <<g, op>>), <<f, "remove">>)) =
               Cardinality(Positions(changes, <<f, "remove">>))
                  + (IF <<g, op>> = <<f, "remove">> THEN 1 ELSE 0)
        BY <1>1, <3>1, PositionsAppend
      <4>2. QED
        BY <1>2, <4>1, RemovalsArePositions
    <3>3. Finishing(f)' = Finishing(f)
      BY <1>3 DEF Finishing
    <3>4. Cardinality(Removals(f)) \in Nat /\ Cardinality(Finishing(f)) \in Nat
      BY <1>1, PositionsFinite, RemovalsArePositions, FinishingFinite
    <3>5. owed[f] = Cardinality(Removals(f)) + Cardinality(Finishing(f))
      BY DEF QueueInv, FinishedOncePerUnregister
    <3>6. owed'[f] = owed[f] + (IF <<g, op>> = <<f, "remove">> THEN 1 ELSE 0)
      BY <1>1, <1>2
    <3>7. QED
      BY <3>2, <3>3, <3>4, <3>5, <3>6
  <2>2. QED
    BY <2>1 DEF FinishedOncePerUnregister
<1>6. QED
  BY <1>4, <1>5 DEF QueueInv

\* The leader takes a change; with a removal it takes its finished() on.
LEMMA LeaderApplies ==
    ASSUME IInv, QueueInv, NEW t \in Threads, GotAdd(t) \/ GotRemove(t)
    PROVE  QueueInv'
<1>1. changes \in Seq(Change) /\ pc \in [Threads -> Labels] /\ handler \in [Threads -> Fds \cup {NoFd}]
  BY DEF IInv, TypeOK, Change, Labels
<1>2. TakeChange(t) /\ pc[t] = "got" /\ changes # <<>> /\ changes' = Tail(changes)
  BY DEF GotAdd, GotRemove, TakeChange, IInv, SnapshotCurrent
<1>3. UNCHANGED <<registered, owed>>
  BY <1>2 DEF TakeChange, owners
<1>4. PICK g \in Fds, op \in {"add", "remove"} : Head(changes) = <<g, op>>
  <2>1. Head(changes) \in Change
    BY <1>1, <1>2
  <2>2. QED
    BY <2>1 DEF Change
<1>5. /\ handlerMap' = IF op = "add" THEN handlerMap \cup {g} ELSE handlerMap \ {g}
      /\ pc' = [pc EXCEPT ![t] = IF op = "add" THEN "select" ELSE "finished"]
      /\ handler' = IF op = "add" THEN handler ELSE [handler EXCEPT ![t] = g]
  <2>1. Head(changes)[1] = g /\ Head(changes)[2] = op
    BY <1>4
  <2>2. ASSUME GotAdd(t)
        PROVE  /\ op = "add" /\ handlerMap' = handlerMap \cup {g} /\ handler' = handler
               /\ pc' = [pc EXCEPT ![t] = "select"]
    BY <2>1, <2>2 DEF GotAdd, Goto
  <2>3. ASSUME GotRemove(t)
        PROVE  /\ op = "remove" /\ handlerMap' = handlerMap \ {g}
               /\ handler' = [handler EXCEPT ![t] = g]
               /\ pc' = [pc EXCEPT ![t] = "finished"]
    BY <2>1, <2>3 DEF GotRemove, Goto
  <2>4. QED
    BY <2>2, <2>3
<1>6. ChangesConsistent'
  <2>1. Consistent(changes, handlerMap, registered)
    BY ConsistentIs DEF QueueInv
  <2>2. Consistent(Tail(changes), IF op = "add" THEN handlerMap \cup {g} ELSE handlerMap \ {g},
                   registered)
    BY <1>1, <1>2, <1>4, <2>1, ConsistentTail
  <2>3. QED
    BY <1>2, <1>3, <1>5, <2>2, ConsistentIs
<1>7. FinishedOncePerUnregister'
  <2>1. ASSUME NEW f \in Fds
        PROVE  owed'[f] = Cardinality(Removals(f)') + Cardinality(Finishing(f)')
    <3>1. Cardinality(Removals(f)) =
             Cardinality(Removals(f)') + (IF <<g, op>> = <<f, "remove">> THEN 1 ELSE 0)
      BY <1>1, <1>2, <1>4, PositionsTail, RemovalsArePositions
    <3>2. Cardinality(Finishing(f)') =
             Cardinality(Finishing(f)) + (IF <<g, op>> = <<f, "remove">> THEN 1 ELSE 0)
      <4>1. t \notin Finishing(f)
        BY <1>2 DEF Finishing
      <4>2. CASE <<g, op>> = <<f, "remove">>
        <5>1. Finishing(f)' = Finishing(f) \cup {t}
          BY <1>1, <1>5, <4>2 DEF Finishing
        <5>2. QED
          BY <4>1, <4>2, <5>1, FinishingFinite, FS_AddElement
      <4>3. CASE <<g, op>> # <<f, "remove">>
        <5>1. Finishing(f)' = Finishing(f)
          BY <1>1, <1>5, <4>1, <4>3 DEF Finishing
        <5>2. QED
          BY <4>3, <5>1, FinishingFinite
      <4>4. QED
        BY <4>2, <4>3
    <3>3. changes' \in Seq(Change)
      BY <1>1, <1>2
    <3>4. /\ Cardinality(Removals(f)') \in Nat
          /\ Cardinality(Finishing(f)) \in Nat
      BY <3>3, PositionsFinite, RemovalsArePositions, FinishingFinite
    <3>5. owed'[f] = Cardinality(Removals(f)) + Cardinality(Finishing(f))
      BY <1>3 DEF QueueInv, FinishedOncePerUnregister
    <3>6. QED
      BY <3>1, <3>2, <3>4, <3>5
  <2>2. QED
    BY <2>1 DEF FinishedOncePerUnregister
<1>8. QED
  BY <1>6, <1>7 DEF QueueInv

\* The owners are told once.
LEMMA OwnersTold ==
    ASSUME IInv, QueueInv, NEW t \in Threads, FinishedCounts(t)
    PROVE  QueueInv'
<1>1. /\ changes \in Seq(Change) /\ pc \in [Threads -> Labels] /\ handler \in [Threads -> Fds \cup {NoFd}]
      /\ owed \in [Fds -> Int]
  BY DEF IInv, TypeOK, Change, Labels
<1>2. PICK g \in Fds : g = handler[t]
  BY DEF IInv, HandlerHeld, FinishedCounts
<1>3. /\ UNCHANGED <<changes, handlerMap, registered>>
      /\ pc[t] = "finishing" /\ pc' = [pc EXCEPT ![t] = "upcall"]
      /\ handler' = [handler EXCEPT ![t] = NoFd]
      /\ owed' = [owed EXCEPT ![g] = @ - 1]
  BY <1>2 DEF FinishedCounts, Goto, fdState
<1>4. ChangesConsistent'
  BY <1>3, ConsistentIs DEF QueueInv
<1>5. FinishedOncePerUnregister'
  <2>1. ASSUME NEW f \in Fds
        PROVE  owed'[f] = Cardinality(Removals(f)') + Cardinality(Finishing(f)')
    <3>1. Removals(f)' = Removals(f)
      BY <1>3 DEF Removals
    <3>2. Cardinality(Finishing(f)') = Cardinality(Finishing(f)) - (IF f = g THEN 1 ELSE 0)
      <4>1. t \in Finishing(f) <=> f = g
        BY <1>2, <1>3 DEF Finishing
      <4>2. Finishing(f)' = Finishing(f) \ {t}
        BY <1>1, <1>3 DEF Finishing
      <4>3. Cardinality(Finishing(f) \ {t}) =
               IF t \in Finishing(f) THEN Cardinality(Finishing(f)) - 1
               ELSE Cardinality(Finishing(f))
        BY FinishingFinite, FS_RemoveElement
      <4>4. QED
        BY <4>1, <4>2, <4>3, FinishingFinite
    <3>3. Cardinality(Removals(f)) \in Nat /\ Cardinality(Finishing(f)) \in Nat
      BY <1>1, PositionsFinite, RemovalsArePositions, FinishingFinite
    <3>4. owed[f] = Cardinality(Removals(f)) + Cardinality(Finishing(f))
      BY DEF QueueInv, FinishedOncePerUnregister
    <3>5. owed'[f] = owed[f] - (IF f = g THEN 1 ELSE 0)
      BY <1>1, <1>3
    <3>6. QED
      BY <3>1, <3>2, <3>3, <3>4, <3>5
  <2>2. QED
    BY <2>1 DEF FinishedOncePerUnregister
<1>6. QED
  BY <1>4, <1>5 DEF QueueInv

\* Every step keeps the queue and the owners' count consistent.
LEMMA QueueNext == IInv /\ QueueInv /\ [Next]_vars => QueueInv'
<1> SUFFICES ASSUME IInv, QueueInv, [Next]_vars PROVE QueueInv'
  OBVIOUS
<1>1. CASE \E f \in Fds : Register(f) \/ Unregister(f)
  BY <1>1, OwnersQueue
<1>2. CASE \E t \in Threads : GotAdd(t) \/ GotRemove(t)
  BY <1>2, LeaderApplies
<1>3. CASE \E t \in Threads : FinishedCounts(t)
  BY <1>3, OwnersTold
<1>4. CASE /\ \A f \in Fds : ~Register(f) /\ ~Unregister(f)
           /\ \A t \in Threads : ~GotAdd(t) /\ ~GotRemove(t) /\ ~FinishedCounts(t)
  <2>1. /\ UNCHANGED <<changes, handlerMap, registered, owed>>
        /\ \A f \in Fds : Finishing(f)' = Finishing(f)
    BY <1>4, OtherSteps
  <2>2. QED
    BY <2>1, QueueSame
<1>5. QED
  BY <1>1, <1>2, <1>3, <1>4

\* A new pool owes nothing.
LEMMA QueueInit == Init => QueueInv
<1> SUFFICES ASSUME Init PROVE QueueInv
  OBVIOUS
<1>1. /\ changes = <<>> /\ Len(changes) = 0 /\ 1..Len(changes) = {}
      /\ handlerMap = {} /\ registered = {}
  BY DEF Init
<1>2. ChangesConsistent
  BY <1>1 DEF ChangesConsistent, HasHandler
<1>3. ASSUME NEW f \in Fds PROVE owed[f] = Cardinality(Removals(f)) + Cardinality(Finishing(f))
  <2>1. Removals(f) = {}
    BY <1>1 DEF Removals
  <2>2. Finishing(f) = {}
    <3>1. \A t \in Threads : pc[t] \notin {"finished", "finishing"}
      BY DEF Init, Start
    <3>2. QED
      BY <3>1 DEF Finishing
  <2>3. owed[f] = 0
    BY DEF Init
  <2>4. QED
    BY <2>1, <2>2, <2>3, FS_EmptySet
<1>4. QED
  BY <1>2, <1>3 DEF QueueInv, FinishedOncePerUnregister

\* When the owners are done nothing is queued and no handler is left: the last
\* change would be an addition, for an owner that is still registered.
LEMMA NothingLeft == IInv /\ QueueInv => DestroyAsserts
<1> SUFFICES ASSUME IInv, QueueInv, OwnersDone PROVE handlerMap = {} /\ changes = <<>>
  BY DEF DestroyAsserts
<1>1. changes \in Seq(Change) /\ handlerMap \subseteq Fds /\ registered = {}
  BY DEF IInv, TypeOK, Change, OwnersDone
<1>2. PICK n \in Nat : n = Len(changes)
  BY <1>1
<1>3. ASSUME NEW f \in Fds PROVE Removals(f) = {}
  <2>1. /\ IsFiniteSet(Removals(f)) /\ Cardinality(Removals(f)) \in Nat
        /\ Cardinality(Finishing(f)) \in Nat
    BY <1>1, PositionsFinite, RemovalsArePositions, FinishingFinite
  <2>2. Cardinality(Removals(f)) = 0
    BY <2>1 DEF OwnersDone, QueueInv, FinishedOncePerUnregister
  <2>3. QED
    BY <2>1, <2>2, FS_EmptySet
<1>4. changes = <<>>
  <2>1. SUFFICES ASSUME n # 0 PROVE FALSE
    BY <1>1, <1>2
  <2>2. n \in 1..n /\ (n + 1)..n = {} /\ changes[n] \in Change
    BY <1>1, <1>2, <2>1
  <2>3. PICK f \in Fds, op \in {"add", "remove"} : changes[n] = <<f, op>>
    BY <2>2 DEF Change
  <2>4. op = "add"
    BY <1>2, <1>3, <2>2, <2>3 DEF Removals
  <2>5. HasHandler(f, n)
    BY <2>2, <2>3, <2>4 DEF HasHandler
  <2>6. QED
    BY <1>1, <1>2, <2>5 DEF QueueInv, ChangesConsistent
<1>5. handlerMap = {}
  <2>1. SUFFICES ASSUME NEW f \in handlerMap PROVE FALSE
    OBVIOUS
  <2>2. f \in Fds /\ Len(changes) = 0 /\ 1..0 = {}
    BY <1>1, <1>4
  <2>3. HasHandler(f, Len(changes))
    BY <2>2 DEF HasHandler
  <2>4. QED
    BY <1>1, <2>2, <2>3 DEF QueueInv, ChangesConsistent
<1>6. QED
  BY <1>4, <1>5

-----------------------------------------------------------------------------
(* The threads that are counted.                                           *)

\* run() returns true only when the pool is destroyed.
ExitDestroyed == \A t \in Threads : pc[t] = "exit" => destroyed

CountInv == CountersMatch /\ SpareThread /\ ExitDestroyed

LiveLabels == Waiting \cup Leading \cup Upcalls

\* Threads can be counted, and those in upcalls are among those alive.
LEMMA ThreadsFinite ==
    /\ IsFiniteSet(Alive) /\ Cardinality(Alive) \in Nat
    /\ IsFiniteSet(Busy) /\ Cardinality(Busy) \in Nat
    /\ Cardinality(Busy) <= Cardinality(Alive)
    /\ (\E t \in Threads : pc[t] \in Leading) => Cardinality(Busy) < Cardinality(Alive)
<1>1. Alive \subseteq Threads /\ Busy \subseteq Alive
  BY DEF Alive, Busy
<1>2. IsFiniteSet(Alive) /\ IsFiniteSet(Busy)
  BY <1>1, SizeAssumption, FS_Subset
<1>3. ASSUME NEW t \in Threads, pc[t] \in Leading PROVE Busy # Alive
  BY <1>3 DEF Alive, Busy, Leading, Upcalls
<1>4. QED
  BY <1>1, <1>2, <1>3, FS_Subset, FS_CardinalityType

\* A step in which no thread is born, dies, or enters or leaves an upcall.
LEMMA CountSame ==
    ASSUME CountInv, UNCHANGED counters, destroyed => destroyed',
           \A s \in Threads : pc'[s] \in LiveLabels <=> pc[s] \in LiveLabels,
           \A s \in Threads : pc'[s] \in Upcalls <=> pc[s] \in Upcalls,
           \A s \in Threads : pc'[s] = "exit" => pc[s] = "exit" \/ destroyed
    PROVE  CountInv'
<1>1. Alive' = Alive /\ Busy' = Busy
  BY DEF Alive, Busy, LiveLabels
<1>2. UNCHANGED <<inUse, running, refused>>
  BY DEF counters
<1>3. QED
  BY <1>1, <1>2 DEF CountInv, CountersMatch, SpareThread, ExitDestroyed

\* After destroy() the counters are not looked at any more.
LEMMA CountDestroyed ==
    ASSUME destroyed' PROVE CountInv'
  BY DEF CountInv, CountersMatch, SpareThread, ExitDestroyed

\* promoteFollower: one thread more in an upcall and, if it was the last spare
\* one, one more thread unless the system refuses or there are SizeMax.
LEMMA PromoteCounts ==
    ASSUME IInv, CountInv, ~destroyed, destroyed' = destroyed,
           NEW t \in Threads, pc[t] \in Leading, NEW l \in Upcalls, PromoteFollower(t, l)
    PROVE  CountInv'
<1>1. /\ pc \in [Threads -> Labels] /\ inUse \in Int /\ running \in Int
      /\ Size \in Nat \ {0} /\ SizeMax \in Nat
  BY SizeAssumption DEF IInv, TypeOK, Labels
<1>2. ExitDestroyed'
  BY PromoteFollowerEffect DEF IInv, CountInv, ExitDestroyed, Upcalls
<1>3. CASE SizeMax = 1
  <2>1. pc' = [pc EXCEPT ![t] = l] /\ UNCHANGED running
    BY <1>3 DEF PromoteFollower, Goto
  <2>2. Alive' = Alive
    BY <1>1, <2>1 DEF Alive
  <2>3. QED
    BY <1>2, <1>3, <2>1, <2>2 DEF CountInv, CountersMatch, SpareThread
<1>4. CASE SizeMax # 1
  <2>1. PICK woken \in NotifyChoices, born \in Births :
            /\ pc' = [s \in Threads |-> IF s = t THEN l
                                        ELSE IF s \in woken \cup born THEN "wait"
                                        ELSE pc[s]]
            /\ running' = IF born = {} THEN running ELSE running + 1
            /\ refused' = (refused \/ (NeedsThread /\ born = {}))
    BY <1>4 DEF PromoteFollower
  <2>2. inUse' = inUse + 1
    BY <1>4 DEF PromoteFollower
  <2>3. woken \subseteq Asleep /\ (born # {} => NeedsThread /\ \E s \in Unused : born = {s})
    BY DEF NotifyChoices, Births
  <2>4. Cardinality(Busy') = Cardinality(Busy) + 1
    <3>1. Busy' = Busy \cup {t} /\ t \notin Busy
      <4>1. \A s \in woken \cup born : pc[s] \in {"asleep", "none"}
        BY <2>3 DEF Asleep, Unused
      <4>2. QED
        BY <2>1, <4>1 DEF Busy, Upcalls, Leading
    <3>2. QED
      BY <3>1, ThreadsFinite, FS_AddElement
  <2>5. Cardinality(Alive') = Cardinality(Alive) + (IF born = {} THEN 0 ELSE 1)
    <3>1. Alive' = Alive \cup born
      <4>1. woken \subseteq Alive /\ born \subseteq Threads /\ t \in Alive
        BY <2>3 DEF Asleep, Unused, Alive, Waiting
      <4>2. \A s \in Threads : s \in Alive' <=> s \in Alive \/ s \in born
        BY <2>1, <4>1 DEF Alive, Waiting
      <4>3. QED
        BY <4>1, <4>2 DEF Alive
    <3>2. CASE born = {}
      BY <3>1, <3>2, ThreadsFinite
    <3>3. CASE born # {}
      <4>1. PICK s \in Unused : born = {s}
        BY <2>3, <3>3
      <4>2. s \notin Alive
        BY DEF Unused, Alive, Waiting, Leading, Upcalls
      <4>3. QED
        BY <3>1, <3>3, <4>1, <4>2, ThreadsFinite, FS_AddElement
    <3>4. QED
      BY <3>2, <3>3
  <2>6. /\ running = Cardinality(Alive) /\ inUse = Cardinality(Busy)
        /\ Size <= running /\ running <= SizeMax /\ inUse < running
    BY <1>1, <1>4, ThreadsFinite, SizeAssumption DEF CountInv, CountersMatch
  <2>7. born # {} => inUse + 1 < SizeMax /\ inUse + 1 = running
    BY <2>3 DEF NeedsThread
  <2>8. CountersMatch'
    <3>1. running' = Cardinality(Alive') /\ inUse' = Cardinality(Busy')
      BY <1>1, <2>1, <2>2, <2>4, <2>5, <2>6
    <3>2. Size <= running' /\ running' <= SizeMax
      BY <1>1, <2>1, <2>6, <2>7
    <3>3. QED
      BY <3>1, <3>2 DEF CountersMatch
  <2>9. SpareThread'
    <3>1. SUFFICES ASSUME ~refused' PROVE inUse' < running' \/ inUse' = SizeMax
      BY DEF SpareThread
    <3>2. NeedsThread => born # {}
      BY <2>1, <3>1
    <3>3. inUse + 1 < SizeMax /\ inUse + 1 = running => born # {}
      BY <3>2 DEF NeedsThread
    <3>4. QED
      BY <1>1, <2>1, <2>2, <2>6, <3>3
  <2>10. QED
    BY <1>2, <2>8, <2>9 DEF CountInv
<1>5. QED
  BY <1>3, <1>4

\* An upcall returns: one less in use, and the thread leaves only if another
\* one is left over for select().
LEMMA UpcallReturnsCounts ==
    ASSUME IInv, CountInv, ~destroyed, NEW t \in Threads, UpcallReturns(t)
    PROVE  CountInv'
<1>1. /\ pc \in [Threads -> Labels] /\ inUse \in Int /\ running \in Int /\ load \in Int
      /\ Size \in Nat \ {0} /\ SizeMax \in Nat
  BY SizeAssumption DEF IInv, TypeOK, Labels
<1>2. ~destroyed' /\ destroyed' = destroyed /\ pc[t] = "upcall" /\ t \in Alive /\ t \in Busy
  BY DEF UpcallReturns, Alive, Busy, Upcalls
<1>3. ExitDestroyed'
  BY <1>1, <1>2 DEF UpcallReturns, Goto, CountInv, ExitDestroyed
<1>4. CASE SizeMax = 1
  <2>1. pc' = [pc EXCEPT ![t] = "select"] /\ UNCHANGED running
    BY <1>4 DEF UpcallReturns, Goto, counters
  <2>2. Alive' = Alive
    BY <1>1, <1>2, <2>1 DEF Alive, Leading
  <2>3. QED
    BY <1>2, <1>3, <1>4, <2>1, <2>2 DEF CountInv, CountersMatch, SpareThread
<1>5. CASE SizeMax # 1
  <2>1. PICK leaves \in BOOLEAN, reaps \in BOOLEAN :
            /\ leaves <=> TooMany(load')
            /\ load' \in NewLoads /\ inUse' = inUse - 1 /\ refused' = refused
            /\ running' = IF leaves THEN running - 1 ELSE running
            /\ pc' = [s \in Threads |->
                         IF s = t THEN (IF leaves THEN "leaving" ELSE "wait")
                         ELSE IF reaps /\ pc[s] = "dead" THEN "none"
                         ELSE pc[s]]
    <3> DEFINE lv == TooMany(load')
               rp == running < Cardinality({s \in Threads : pc[s] # "none"})
    <3>1. /\ load' \in NewLoads /\ inUse' = inUse - 1 /\ refused' = refused
          /\ running' = IF lv THEN running - 1 ELSE running
          /\ pc' = [s \in Threads |->
                       IF s = t THEN (IF lv THEN "leaving" ELSE "wait")
                       ELSE IF rp /\ pc[s] = "dead" THEN "none"
                       ELSE pc[s]]
      BY <1>5 DEF UpcallReturns
    <3>2. lv \in BOOLEAN /\ rp \in BOOLEAN
      BY DEF TooMany
    <3> HIDE DEF lv, rp
    <3>3. lv <=> TooMany(load')
      BY DEF lv
    <3>4. QED
      BY <3>1, <3>2, <3>3
  <2>2. Cardinality(Busy') = Cardinality(Busy) - 1
    <3>1. Busy' = Busy \ {t}
      BY <1>1, <2>1 DEF Busy, Upcalls
    <3>2. QED
      BY <1>2, <3>1, ThreadsFinite, FS_RemoveElement
  <2>3. Cardinality(Alive') = Cardinality(Alive) - (IF leaves THEN 1 ELSE 0)
    <3>1. CASE leaves
      <4>1. Alive' = Alive \ {t}
        BY <1>1, <2>1, <3>1 DEF Alive, Waiting, Leading, Upcalls
      <4>2. QED
        BY <1>2, <3>1, <4>1, ThreadsFinite, FS_RemoveElement
    <3>2. CASE ~leaves
      <4>1. Alive' = Alive
        BY <1>1, <1>2, <2>1, <3>2 DEF Alive, Waiting, Leading, Upcalls
      <4>2. QED
        BY <3>2, <4>1, ThreadsFinite
    <3>3. QED
      BY <3>1, <3>2
  <2>4. /\ running = Cardinality(Alive) /\ inUse = Cardinality(Busy)
        /\ Size <= running /\ running <= SizeMax /\ inUse <= running
    BY <1>1, <1>5, ThreadsFinite, SizeAssumption DEF CountInv, CountersMatch
  <2>5. leaves => running > Size /\ inUse + 1 < running
    <3>1. load' \in Int /\ load' >= inUse
      BY <1>1, <2>1 DEF NewLoads
    <3>2. \A l, i, n \in Int : l >= i /\ l + 1 < n => i + 1 < n
      OBVIOUS
    <3>3. leaves => running > Size /\ load' + 1 < running
      BY <2>1, Zenon DEF TooMany
    <3>4. QED
      BY <1>1, <3>1, <3>2, <3>3
  <2>6. CountersMatch'
    <3>1. running' = Cardinality(Alive') /\ inUse' = Cardinality(Busy')
      BY <1>1, <2>1, <2>2, <2>3, <2>4
    <3>2. Size <= running' /\ running' <= SizeMax
      BY <1>1, <2>1, <2>4, <2>5
    <3>3. QED
      BY <3>1, <3>2 DEF CountersMatch
  <2>7. inUse' < running'
    BY <1>1, <2>1, <2>4, <2>5
  <2>8. QED
    BY <1>3, <2>6, <2>7 DEF CountInv, SpareThread
<1>6. QED
  BY <1>4, <1>5

\* Every step keeps the counters right.
LEMMA CountNext == IInv /\ CountInv /\ [Next]_vars => CountInv'
<1> SUFFICES ASSUME IInv, CountInv, [Next]_vars PROVE CountInv'
  OBVIOUS
<1>1. TypeOK
  BY DEF IInv
<1>2. CASE destroyed
  <2>1. destroyed'
    BY <1>2 DEF Next, vars, ThreadStep, OwnerStep, TakeLeadership, FallAsleep, Select,
       SelectTimeout, GotDestroyed, GotAdd, GotRemove, TakeChange, GotData, Shutdown,
       ShutdownPromotes, FinishedPromotes, FinishedCounts, ReadThrows, Message,
       UpcallReturns, Exit, Die, Register, Unregister, Arrive, Destroy
  <2>2. QED
    BY <2>1, CountDestroyed
<1>3. ASSUME ~destroyed, NEW t \in Threads, ThreadStep(t) PROVE CountInv'
  <2> USE DEF LiveLabels, Waiting, Leading, Upcalls
  <2>1. CASE TakeLeadership(t)
    BY <1>1, <2>1, CountSame DEF TakeLeadership, Goto, TypeOK
  <2>2. CASE FallAsleep(t)
    BY <1>1, <2>2, CountSame DEF FallAsleep, Goto, TypeOK
  <2>3. CASE Select(t)
    BY <1>1, <2>3, CountSame DEF Select, Goto, TypeOK
  <2>4. CASE SelectTimeout(t)
    BY <1>1, <2>4, CountSame DEF SelectTimeout, Goto, TypeOK
  <2>5. CASE GotDestroyed(t)
    BY <1>3, <2>5 DEF GotDestroyed
  <2>6. CASE GotAdd(t)
    BY <1>1, <2>6, CountSame DEF GotAdd, TakeChange, Goto, TypeOK
  <2>7. CASE GotRemove(t)
    BY <1>1, <2>7, CountSame DEF GotRemove, TakeChange, Goto, TypeOK
  <2>8. CASE GotData(t)
    BY <1>1, <2>8, CountSame DEF GotData, Goto, TypeOK
  <2>9. CASE Shutdown(t)
    BY <1>1, <2>9, CountSame DEF Shutdown, Goto, TypeOK
  <2>10. CASE ShutdownPromotes(t)
    BY <1>3, <2>10, PromoteCounts DEF ShutdownPromotes
  <2>11. CASE FinishedPromotes(t)
    BY <1>3, <2>11, PromoteCounts DEF FinishedPromotes
  <2>12. CASE FinishedCounts(t)
    BY <1>1, <2>12, CountSame DEF FinishedCounts, Goto, TypeOK
  <2>13. CASE ReadThrows(t)
    BY <1>1, <2>13, CountSame DEF ReadThrows, Goto, TypeOK
  <2>14. CASE Message(t)
    BY <1>3, <2>14, PromoteCounts DEF Message
  <2>15. CASE UpcallReturns(t)
    BY <1>3, <2>15, UpcallReturnsCounts
  <2>16. CASE Exit(t)
    BY <1>3, <2>16 DEF Exit, CountInv, ExitDestroyed
  <2>17. CASE Die(t)
    BY <1>1, <2>17, CountSame DEF Die, Goto, TypeOK
  <2>18. QED
    BY <1>3, <2>1, <2>2, <2>3, <2>4, <2>5, <2>6, <2>7, <2>8, <2>9, <2>10, <2>11, <2>12,
       <2>13, <2>14, <2>15, <2>16, <2>17 DEF ThreadStep
<1>4. CASE OwnerStep
  <2>1. UNCHANGED <<pc, counters>> /\ (destroyed => destroyed')
    BY <1>4 DEF OwnerStep, Register, Unregister, Arrive, Destroy
  <2>2. QED
    BY <2>1, CountSame
<1>5. CASE UNCHANGED vars
  BY <1>5, CountSame DEF vars
<1>6. QED
  BY <1>2, <1>3, <1>4, <1>5 DEF Next

\* A pool starts with Size threads or is destroyed.
LEMMA CountInit == Init => CountInv
<1> SUFFICES ASSUME Init PROVE CountInv
  OBVIOUS
<1>1. PICK S \in SUBSET Threads :
          /\ Cardinality(S) <= Size
          /\ pc = [t \in Threads |-> IF t \in S THEN Start ELSE "none"]
          /\ running = Cardinality(S)
          /\ destroyed = (Cardinality(S) < Size)
  BY DEF Init
<1>2. IsFiniteSet(S) /\ Cardinality(S) \in Nat
  BY SizeAssumption, FS_Subset, FS_CardinalityType
<1>3. Alive = S
  BY <1>1 DEF Alive, Start, Waiting, Leading, Upcalls
<1>4. Busy = {} /\ Cardinality(Busy) = 0
  <2>1. Busy = {}
    BY <1>1 DEF Busy, Start, Upcalls
  <2>2. QED
    BY <2>1, FS_EmptySet
<1>5. ~destroyed => running = Size
  <2>1. destroyed <=> Cardinality(S) < Size
    BY <1>1, Zenon
  <2>2. QED
    BY <1>1, <1>2, <2>1, SizeAssumption
<1>6. inUse = 0
  BY DEF Init
<1>7. CountersMatch
  BY <1>1, <1>3, <1>4, <1>5, <1>6, SizeAssumption DEF CountersMatch
<1>8. SpareThread
  BY <1>5, <1>6, SizeAssumption DEF SpareThread
<1>9. ExitDestroyed
  BY <1>1 DEF ExitDestroyed, Start
<1>10. QED
  BY <1>7, <1>8, <1>9 DEF CountInv

-----------------------------------------------------------------------------
(* The theorems.                                                           *)

\* The queue and the counters are right in every reachable state.
THEOREM CountInvariance == Spec => [](QueueInv /\ CountInv)
<1>1. Init => QueueInv /\ CountInv
  BY QueueInit, CountInit
<1>2. IInv /\ (QueueInv /\ CountInv) /\ [Next]_vars => (QueueInv /\ CountInv)'
  BY QueueNext, CountNext
<1>3. QED
  BY <1>1, <1>2, Invariance, PTL DEF Spec

\* Each unregister is answered by one finished(), neither lost in the queue nor
\* called twice: what the owners' _finishedCount waits for is still to come.
THEOREM FinishedOnce == Spec => []FinishedOncePerUnregister
<1>1. QueueInv => FinishedOncePerUnregister
  BY DEF QueueInv
<1>2. QED
  BY <1>1, CountInvariance, PTL

\* Queued changes fit the handlers they will find, for descriptors registered
\* and unregistered any number of times: the assert in run() holds.
THEOREM ChangesFit == Spec => []ChangesConsistent
<1>1. QueueInv => ChangesConsistent
  BY DEF QueueInv
<1>2. QED
  BY <1>1, CountInvariance, PTL

\* destroy() finds no handler and no change, as it asserts.
THEOREM DestroyFindsNothing == Spec => []DestroyAsserts
<1>1. QED
  BY NothingLeft, Invariance, CountInvariance, PTL

\* _inUse and _running are the threads in upcalls and alive, within the limits.
THEOREM CountersCorrect == Spec => []CountersMatch
<1>1. CountInv => CountersMatch
  BY DEF CountInv
<1>2. QED
  BY <1>1, CountInvariance, PTL

\* The pool grows in time and never shrinks by its last spare thread.
THEOREM SpareThreadLeft == Spec => []SpareThread
<1>1. CountInv => SpareThread
  BY DEF CountInv
<1>2. QED
  BY <1>1, CountInvariance, PTL
=============================================================================
