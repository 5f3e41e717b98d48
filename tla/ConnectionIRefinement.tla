----------------------- MODULE ConnectionIRefinement -----------------------
(***************************************************************************)
(* ConnectionI implements the safety part of ConnectionLife: whatever the  *)
(* threads, the pool and the peer do, the factory and the adapter see a    *)
(* connection that lives by ConnectionLife.  A step is one of its actions  *)
(* or changes nothing they can see.                                        *)
(***************************************************************************)
EXTENDS ConnectionIDispatchProofs

\* What ConnectionLife knows of a connection.
Lives(s, p, f) == [state |-> s, pending |-> p, finished |-> f]

IsClosed == conn.transceiver = "closed"

Seen == Lives(conn.state, Busy, IsClosed)

SeenLife == [c \in {"connection"} |-> Seen]

LifeStep == Life!Next \/ SeenLife' = SeenLife

\* The operators of ConnectionLife on it.
LEMMA LivesOps ==
    ASSUME NEW s, NEW p, NEW f
    PROVE  /\ Lives(s, p, f).state = s /\ Lives(s, p, f).pending = p
           /\ Lives(s, p, f).finished = f
           /\ Life!Validated(Lives(s, p, f)) = Lives(Holding, p, f)
           /\ s = Holding => Life!Activated(Lives(s, p, f)) = Lives(Active, p, f)
           /\ s = Active => Life!Held(Lives(s, p, f)) = Lives(Holding, p, f)
           /\ s # Closed => Life!Aborted(Lives(s, p, f)) = Lives(Closed, p, s = NotValidated)
           /\ s \in {Active, Holding} => Life!Destroyed(Lives(s, p, f)) = Lives(Closing, p, f)
           /\ \A q : [Lives(s, p, f) EXCEPT !.pending = q] = Lives(s, q, f)
           /\ \A g : [Lives(s, p, f) EXCEPT !.finished = g] = Lives(s, p, g)
<1>1. Lives(s, p, f).state = s /\ Lives(s, p, f).pending = p /\ Lives(s, p, f).finished = f
  BY DEF Lives
<1>2. Life!Validated(Lives(s, p, f)) = Lives(Holding, p, f)
  BY DEF Lives, Life!Validated, Holding, Life!Holding
<1>3. s = Holding => Life!Activated(Lives(s, p, f)) = Lives(Active, p, f)
  BY DEF Lives, Life!Activated, Holding, Active, Life!Holding, Life!Active
<1>4. s = Active => Life!Held(Lives(s, p, f)) = Lives(Holding, p, f)
  BY DEF Lives, Life!Held, Holding, Active, Life!Holding, Life!Active
<1>5. s # Closed => Life!Aborted(Lives(s, p, f)) = Lives(Closed, p, s = NotValidated)
  BY DEF Lives, Life!Aborted, Closed, NotValidated, Life!Closed, Life!NotValidated
<1>6. s \in {Active, Holding} => Life!Destroyed(Lives(s, p, f)) = Lives(Closing, p, f)
  BY DEF Lives, Life!Destroyed, NotValidated, Active, Holding, Closing,
         Life!NotValidated, Life!Active, Life!Holding, Life!Closing
<1>7. \A q : [Lives(s, p, f) EXCEPT !.pending = q] = Lives(s, q, f)
  BY DEF Lives
<1>8. \A g : [Lives(s, p, f) EXCEPT !.finished = g] = Lives(s, p, g)
  BY DEF Lives
<1>9. QED
  BY <1>1, <1>2, <1>3, <1>4, <1>5, <1>6, <1>7, <1>8

\* The one connection of SeenLife.
LEMMA SeenOne ==
    /\ SeenLife["connection"] = Seen
    /\ \A l : Seen' = l => SeenLife' = [SeenLife EXCEPT !["connection"] = l]
  BY DEF SeenLife

\* The actions of ConnectionLife, for it.
LEMMA SeenActions ==
    /\ \A l : Seen' = l => Life!Becomes("connection", l)
    /\ Seen.state = NotValidated /\ Seen' = Life!Validated(Seen) => Life!Validate("connection")
    /\ Seen.state = Holding /\ Seen' = Life!Activated(Seen) => Life!Activate("connection")
    /\ Seen.state = Active /\ Seen' = Life!Held(Seen) => Life!Hold("connection")
    /\ Seen.state < Closing /\ Seen' = Life!Destroyed(Seen) => Life!Destroy("connection")
    /\ Seen.state < Closed /\ Seen' = Life!Aborted(Seen) => Life!Abort("connection")
    /\ Seen.state = Closed /\ ~Seen.finished /\ Seen' = [Seen EXCEPT !.finished = TRUE] =>
          Life!Finish("connection")
    /\ \A r : Seen.state \in {Active, Holding} /\ r \notin Seen.pending
                 /\ Seen' = [Seen EXCEPT !.pending = Seen.pending \cup {r}] =>
          Life!Accept("connection", r)
    /\ \A r : r \in Seen.pending /\ Seen' = [Seen EXCEPT !.pending = Seen.pending \ {r}] =>
          Life!Answer("connection", r)
<1>1. \A l : Seen' = l => Life!Becomes("connection", l)
  BY DEF SeenLife, Seen, Lives, IsClosed, Life!Becomes
<1>2. Seen.state = NotValidated /\ Seen' = Life!Validated(Seen) => Life!Validate("connection")
  BY DEF SeenLife, Seen, Lives, IsClosed, Life!Becomes, Life!Validate, NotValidated, Life!NotValidated
<1>3. Seen.state = Holding /\ Seen' = Life!Activated(Seen) => Life!Activate("connection")
  BY DEF SeenLife, Seen, Lives, IsClosed, Life!Becomes, Life!Activate, Holding, Life!Holding
<1>4. Seen.state = Active /\ Seen' = Life!Held(Seen) => Life!Hold("connection")
  BY DEF SeenLife, Seen, Lives, IsClosed, Life!Becomes, Life!Hold, Active, Life!Active
<1>5. Seen.state < Closing /\ Seen' = Life!Destroyed(Seen) => Life!Destroy("connection")
  BY DEF SeenLife, Seen, Lives, IsClosed, Life!Becomes, Life!Destroy, Closing, Life!Closing
<1>6. Seen.state < Closed /\ Seen' = Life!Aborted(Seen) => Life!Abort("connection")
  BY DEF SeenLife, Seen, Lives, IsClosed, Life!Becomes, Life!Abort, Closed, Life!Closed
<1>7. Seen.state = Closed /\ ~Seen.finished /\ Seen' = [Seen EXCEPT !.finished = TRUE] =>
         Life!Finish("connection")
  BY DEF SeenLife, Seen, Lives, IsClosed, Life!Becomes, Life!Finish, Closed, Life!Closed
<1>8. \A r : Seen.state \in {Active, Holding} /\ r \notin Seen.pending
                /\ Seen' = [Seen EXCEPT !.pending = Seen.pending \cup {r}] =>
         Life!Accept("connection", r)
  BY DEF SeenLife, Seen, Lives, IsClosed, Life!Becomes, Life!Accept, Active, Holding,
         Life!Active, Life!Holding
<1>9. \A r : r \in Seen.pending /\ Seen' = [Seen EXCEPT !.pending = Seen.pending \ {r}] =>
         Life!Answer("connection", r)
  BY DEF SeenLife, Seen, Lives, IsClosed, Life!Becomes, Life!Answer
<1>10. QED
  BY <1>1, <1>2, <1>3, <1>4, <1>5, <1>6, <1>7, <1>8, <1>9

\* Nothing that can be seen changes.
LEMMA SeenStays ==
    ASSUME conn'.state = conn.state, conn'.transceiver = conn.transceiver, Busy' = Busy
    PROVE  LifeStep
<1>1. IsClosed' = IsClosed
  BY DEF IsClosed
<1>2. Seen' = Seen
  BY <1>1 DEF Seen
<1>3. QED
  BY <1>2 DEF SeenLife, LifeStep

\* A step of ConnectionLife's action for the one connection.
LEMMA SeenNext ==
    ASSUME \/ Life!Validate("connection") \/ Life!Activate("connection") \/ Life!Hold("connection")
           \/ Life!Destroy("connection") \/ Life!Abort("connection") \/ Life!Finish("connection")
           \/ \E r \in Reqs : Life!Accept("connection", r) \/ Life!Answer("connection", r)
    PROVE  LifeStep
  BY DEF LifeStep, Life!Next

\* The members of what is seen.
LEMMA SeenFields ==
    /\ Seen.state = conn.state /\ Seen.pending = Busy /\ Seen.finished = IsClosed
    /\ Seen' = Lives(conn'.state, Busy', IsClosed')
  BY LivesOps DEF Seen

\* A connection that is closed at once is finished at once only if it was not
\* validated.
LEMMA AbortLife ==
    ASSUME conn \in ConnType, conn.state # Closed, conn'.state = Closed,
           conn'.transceiver = "closed" <=> conn.state = NotValidated, Busy' = Busy
    PROVE  LifeStep
<1>1. IsClosed' = (conn.state = NotValidated)
  BY DEF IsClosed
<1>2. Seen' = Lives(Closed, Busy, conn.state = NotValidated)
  BY <1>1, SeenFields
<1>3. Seen' = Life!Aborted(Seen)
  BY <1>2, LivesOps DEF Seen
<1>4. Seen.state < Closed
  BY SeenFields DEF ConnType, NotValidated, Closed
<1>5. QED
  BY <1>3, <1>4, SeenActions, SeenNext

\* setState(Closed, ...) aborts it.
LEMMA AbortsLife ==
    ASSUME PoolInv, NEW c \in ConnType, c.state = conn.state, c.transceiver = conn.transceiver,
           Aborts(c), Busy' = Busy
    PROVE  LifeStep
<1> USE DEF NotValidated, Active, Holding, Closing, Closed
<1>0. conn \in ConnType /\ changes \in ChangesType
  BY DEF PoolInv, PoolTypes
<1>1. CASE c.state = Closed /\ Nothing(c)
  BY <1>1, SeenStays DEF Nothing
<1>2. CASE Drops(c, "failed")
  <2>1. c.state = NotValidated
    BY <1>2 DEF Drops
  <2>2. conn'.state = Closed /\ conn'.transceiver = "closed"
    BY <1>2, DropFacts
  <2>3. QED
    BY <1>0, <2>1, <2>2, AbortLife
<1>3. CASE Closes(c)
  <2>1. c.state \in {Active, Holding, Closing}
    BY <1>3 DEF Closes
  <2>2. conn'.state = Closed /\ conn'.transceiver = "shut"
    BY <1>0, <1>3, CloseFacts
  <2>3. QED
    BY <1>0, <2>1, <2>2, AbortLife
<1>4. QED
  BY <1>1, <1>2, <1>3 DEF Aborts

\* setState(Closing, ...) destroys it.
LEMMA DestroysLife ==
    ASSUME PoolInv, Destroys(conn), Busy' = Busy
    PROVE  LifeStep
<1> USE DEF NotValidated, Active, Holding, Closing, Closed
<1>0. conn \in ConnType /\ changes \in ChangesType
  BY DEF PoolInv, PoolTypes
<1>1. CASE conn.state = Closing /\ Nothing(conn)
  BY <1>1, SeenStays DEF Nothing
<1>2. CASE conn.state = Closed /\ conn' = [conn EXCEPT !.exception = First(conn, "closing")]
  <2>1. conn'.state = conn.state /\ conn'.transceiver = conn.transceiver
    BY <1>0, <1>2 DEF ConnType
  <2>2. QED
    BY <2>1, SeenStays
<1>3. CASE Drops(conn, "closing")
  <2>1. conn.state = NotValidated
    BY <1>3 DEF Drops
  <2>2. conn'.state = Closed /\ conn'.transceiver = "closed"
    BY <1>0, <1>3, DropFacts
  <2>3. QED
    BY <1>0, <2>1, <2>2, AbortLife
<1>4. CASE StartsClosing(conn)
  <2>1. conn.state \in {Active, Holding}
    BY <1>4 DEF StartsClosing
  <2>2. conn'.state = Closing /\ conn'.transceiver = conn.transceiver
    BY <1>0, <1>4, StartsClosingFacts
  <2>3. IsClosed' = IsClosed
    BY <2>2 DEF IsClosed
  <2>4. Seen' = Lives(Closing, Busy, IsClosed)
    BY <2>2, <2>3, SeenFields
  <2>5. Seen' = Life!Destroyed(Seen)
    BY <2>1, <2>4, LivesOps DEF Seen
  <2>6. Seen.state < Closing
    BY <2>1, SeenFields
  <2>7. QED
    BY <2>5, <2>6, SeenActions, SeenNext
<1>5. QED
  BY <1>1, <1>2, <1>3, <1>4 DEF Destroys

\* setState(Holding) validates or holds it.
LEMMA HoldsLife ==
    ASSUME PoolInv, Holds(conn), Busy' = Busy
    PROVE  LifeStep
<1> USE DEF NotValidated, Active, Holding, Closing, Closed
<1>0. conn \in ConnType /\ changes \in ChangesType /\ conn.state \in 0..4
  BY DEF PoolInv, PoolTypes, ConnType
<1>1. /\ conn'.transceiver = conn.transceiver
      /\ conn.state \in {Holding, Closing, Closed} => conn' = conn
      /\ conn.state \in {NotValidated, Active} => conn'.state = Holding
  BY <1>0, HoldFacts
<1>2. CASE conn.state \in {Holding, Closing, Closed}
  BY <1>1, <1>2, SeenStays
<1>3. CASE conn.state \in {NotValidated, Active}
  <2>1. IsClosed' = IsClosed
    BY <1>1 DEF IsClosed
  <2>2. Seen' = Lives(Holding, Busy, IsClosed)
    BY <1>1, <1>3, <2>1, SeenFields
  <2>3. conn.state = NotValidated => Seen' = Life!Validated(Seen)
    BY <2>2, LivesOps DEF Seen
  <2>4. conn.state = Active => Seen' = Life!Held(Seen)
    BY <2>2, LivesOps DEF Seen
  <2>5. QED
    BY <1>3, <2>3, <2>4, SeenFields, SeenActions, SeenNext
<1>4. QED
  BY <1>0, <1>2, <1>3

\* setState(Active) activates it; no validated connection becomes new again.
LEMMA ActivatesLife ==
    ASSUME PoolInv, Activates(conn), conn.state # NotValidated, Busy' = Busy
    PROVE  LifeStep
<1> USE DEF NotValidated, Active, Holding, Closing, Closed
<1>0. conn \in ConnType /\ changes \in ChangesType /\ conn.state \in 0..4
  BY DEF PoolInv, PoolTypes, ConnType
<1>1. /\ conn'.transceiver = conn.transceiver
      /\ conn.state \in {Active, Closing, Closed} => conn' = conn
      /\ conn.state = Holding => conn'.state = Active
  BY <1>0, ActivateFacts
<1>2. CASE conn.state \in {Active, Closing, Closed}
  BY <1>1, <1>2, SeenStays
<1>3. CASE conn.state = Holding
  <2>1. IsClosed' = IsClosed
    BY <1>1 DEF IsClosed
  <2>2. Seen' = Lives(Active, Busy, IsClosed)
    BY <1>1, <1>3, <2>1, SeenFields
  <2>3. Seen' = Life!Activated(Seen)
    BY <1>3, <2>2, LivesOps DEF Seen
  <2>4. QED
    BY <1>3, <2>3, SeenFields, SeenActions, SeenNext
<1>4. QED
  BY <1>0, <1>2, <1>3

\* A request begins or ends.
LEMMA PendingLife ==
    ASSUME conn'.state = conn.state, conn'.transceiver = conn.transceiver, NEW r \in Reqs,
           \/ conn.state \in {Active, Holding} /\ r \notin Busy /\ Busy' = Busy \cup {r}
           \/ r \in Busy /\ Busy' = Busy \ {r}
    PROVE  LifeStep
<1>1. IsClosed' = IsClosed
  BY DEF IsClosed
<1>2. Seen' = Lives(conn.state, Busy', IsClosed)
  BY <1>1, SeenFields
<1>3. Seen' = [Seen EXCEPT !.pending = Busy']
  BY <1>2, LivesOps DEF Seen
<1>4. QED
  BY <1>3, SeenFields, SeenActions, SeenNext

\* The pool is through with the connection.
LEMMA FinishedLife ==
    ASSUME conn \in ConnType, Finished
    PROVE  LifeStep
<1>1. /\ conn'.state = conn.state
      /\ conn.transceiver = "closed" => conn'.transceiver = "closed"
      /\ conn'.transceiver = "closed" => conn.transceiver = "closed" \/ conn.state = Closed
  BY FinishedFacts
<1>2. Busy' = Busy
  BY DEF Finished, Busy, dispatch
<1>3. CASE IsClosed' = IsClosed
  <2>1. Seen' = Seen
    BY <1>1, <1>2, <1>3 DEF Seen
  <2>2. QED
    BY <2>1 DEF SeenLife, LifeStep
<1>4. CASE IsClosed' # IsClosed
  <2>0. ~IsClosed /\ conn'.transceiver = "closed"
    BY <1>1, <1>4 DEF IsClosed
  <2>1. IsClosed' = TRUE /\ ~IsClosed /\ conn.state = Closed
    BY <1>1, <2>0 DEF IsClosed
  <2>2. PICK b : b = TRUE
    OBVIOUS
  <2>3. Seen' = Lives(conn.state, Busy, b)
    BY <1>1, <1>2, <2>1, <2>2, SeenFields
  <2>4. Seen' = [Seen EXCEPT !.finished = b]
    BY <2>3, LivesOps DEF Seen
  <2>5. Seen' = [Seen EXCEPT !.finished = TRUE]
    BY <2>2, <2>4, Zenon
  <2>6. QED
    BY <2>1, <2>5, SeenFields, SeenActions, SeenNext
<1>5. QED
  BY <1>3, <1>4
-----------------------------------------------------------------------------
\* What a dispatch does to the requests that are pending.
LEMMA BusyGoto ==
    ASSUME RestTypes, NEW r \in Reqs, NEW l, call[r] \in Working, Goto(r, l)
    PROVE  /\ r \in Busy
           /\ l \in Working => Busy' = Busy
           /\ l = "done" => Busy' = Busy \ {r}
<1>1. call'[r] = l /\ \A q \in Reqs \ {r} : call'[q] = call[q]
  BY DEF RestTypes, Goto
<1>2. r \in Busy
  BY DEF Busy, Working
<1>3. l \in Working => Busy' = Busy
  BY <1>1, <1>2 DEF Busy, Working
<1>4. l = "done" => Busy' = Busy \ {r}
  BY <1>1 DEF Busy
<1>5. QED
  BY <1>2, <1>3, <1>4

\* A dispatch goes on unseen, is answered, or aborts the connection.
LEMMA DispatchLife ==
    ASSUME IInv, NEW r \in Reqs, Dispatch(r)
    PROVE  LifeStep
<1>0. /\ PoolInv /\ RestTypes /\ CallInv
      /\ conn \in ConnType /\ changes \in ChangesType
  BY DEF IInv, PoolInv, PoolTypes
<1>1. call[r] \in Working
  BY DEF Dispatch, ResponseLocks, ResponseWrites, ResponseFails, ResponseCounts,
         NoResponse, InvokeThrows, InvokeAbandons, Working
<1>2. ASSUME NEW l \in Working, Goto(r, l) PROVE Busy' = Busy
  BY <1>0, <1>1, <1>2, BusyGoto
<1>3. ASSUME Goto(r, "done"), conn'.state = conn.state, conn'.transceiver = conn.transceiver
      PROVE  LifeStep
  BY <1>0, <1>1, <1>3, BusyGoto, PendingLife
<1>4. CASE ResponseLocks(r) \/ ResponseWrites(r)
  <2>1. PICK l \in {"failed", "write", "count"} : Goto(r, l)
    BY <1>4 DEF ResponseLocks, ResponseWrites
  <2>2. conn' = conn /\ l \in Working
    BY <1>4 DEF ResponseLocks, ResponseWrites, Working
  <2>3. QED
    BY <1>2, <2>1, <2>2, SeenStays
<1>5. CASE ResponseFails(r) \/ InvokeThrows(r)
  <2>1. PICK l \in {"count", "threw"} : Goto(r, l)
    BY <1>5 DEF ResponseFails, InvokeThrows
  <2>2. Aborts(conn) /\ l \in Working
    BY <1>0, <1>5, ActionEffects DEF Working
  <2>3. QED
    BY <1>0, <1>2, <2>1, <2>2, AbortsLife
<1>6. CASE ResponseCounts(r) \/ NoResponse(r)
  <2>1. conn' = Uncount(conn, 1)
    BY <1>6 DEF ResponseCounts, NoResponse
  <2>2. conn'.state = conn.state /\ conn'.transceiver = conn.transceiver
    BY <1>0, <2>1, UncountFacts
  <2>3. PICK l \in {"done", "invoke"} : Goto(r, l)
    BY <1>6 DEF ResponseCounts, NoResponse
  <2>4. CASE l = "done"
    BY <1>3, <2>2, <2>3, <2>4
  <2>5. CASE l = "invoke"
    <3>1. Busy' = Busy
      BY <1>2, <2>3, <2>5 DEF Working
    <3>2. QED
      BY <2>2, <3>1, SeenStays
  <2>6. QED
    BY <2>4, <2>5
<1>7. CASE InvokeAbandons(r)
  <2>1. /\ conn' = [conn EXCEPT !.dispatchCount = conn.dispatchCount - left[r]]
        /\ Goto(r, "done")
    BY <1>7 DEF InvokeAbandons
  <2>2. conn'.state = conn.state /\ conn'.transceiver = conn.transceiver
    BY <1>0, <2>1 DEF ConnType
  <2>3. QED
    BY <1>3, <2>1, <2>2
<1>8. QED
  BY <1>4, <1>5, <1>6, <1>7 DEF Dispatch

\* A request is accepted, or ignored by a connection that closes.
LEMMA RequestLife ==
    ASSUME IInv, MessageRequest
    PROVE  LifeStep
<1>0. /\ PoolInv /\ RestTypes /\ FreshInv
      /\ conn \in ConnType /\ conn.state \in 0..4
  BY DEF IInv, PoolInv, PoolTypes, ConnType, NotValidated, Closed
<1>1. PICK r \in Reqs : r = held
  BY DEF MessageRequest
<1>2. conn.state # NotValidated
  BY <1>0, <1>1, ReqsAssumption DEF PoolInv, Unvalidated
<1>3. CASE conn' = conn /\ call' = call
  BY <1>3, SeenStays DEF Busy
<1>4. CASE /\ conn.state \notin {Closing, Closed}
           /\ conn' = [conn EXCEPT !.dispatchCount = conn.dispatchCount + InvokeNum[held]]
           /\ call' = [call EXCEPT ![held] = IF InvokeNum[held] = 0 THEN "done" ELSE "invoke"]
  <2>1. conn'.state = conn.state /\ conn'.transceiver = conn.transceiver
    BY <1>0, <1>4 DEF ConnType
  <2>2. conn.state \in {Active, Holding}
    BY <1>0, <1>2, <1>4 DEF NotValidated, Active, Holding, Closing, Closed
  <2>3. /\ call'[r] \in {"done", "invoke"} /\ call[r] = "idle"
        /\ \A q \in Reqs \ {r} : call'[q] = call[q]
    BY <1>0, <1>1, <1>4 DEF RestTypes, FreshInv
  <2>4. r \notin Busy
    BY <2>3 DEF Busy
  <2>5. CASE call'[r] = "done"
    <3>1. Busy' = Busy
      BY <2>3, <2>5 DEF Busy
    <3>2. QED
      BY <2>1, <3>1, SeenStays
  <2>6. CASE call'[r] = "invoke"
    <3>1. Busy' = Busy \cup {r}
      BY <2>3, <2>6 DEF Busy
    <3>2. QED
      BY <2>1, <2>2, <2>4, <3>1, PendingLife
  <2>7. QED
    BY <2>3, <2>5, <2>6
<1>5. QED
  BY <1>0, <1>3, <1>4, MessageRequestFacts

\* Every step of the connection is a step of its life.
LEMMA NextLife ==
    ASSUME IInv, [Next]_vars
    PROVE  LifeStep
<1> USE DEF threads, network, dispatch, pool
<1>0. /\ PoolInv /\ RestTypes /\ ThreadInv
      /\ conn \in ConnType /\ changes \in ChangesType
  BY DEF IInv, PoolInv, PoolTypes
<1>1. UNCHANGED call => Busy' = Busy
  BY DEF Busy
<1>2. UNCHANGED <<conn, call>> => LifeStep
  BY <1>1, SeenStays
<1>3. Aborts(conn) /\ UNCHANGED call => LifeStep
  BY <1>0, <1>1, AbortsLife
<1>4. Destroys(conn) /\ UNCHANGED call => LifeStep
  BY <1>0, <1>1, DestroysLife
<1>5. Holds(conn) /\ UNCHANGED call => LifeStep
  BY <1>0, <1>1, HoldsLife
<1>6. Activates(conn) /\ conn.state # NotValidated /\ UNCHANGED call => LifeStep
  BY <1>0, <1>1, ActivatesLife
<1>7. CASE Factory
  <2>1. CASE ValidateChecks \/ ValidateWrites
    BY <1>2, <2>1 DEF ValidateChecks, ValidateWrites
  <2>2. CASE ValidateFails
    BY <1>0, <1>3, <2>2, ActionEffects DEF ValidateFails
  <2>3. CASE ValidateHolds
    BY <1>0, <1>5, <2>3, ActionEffects DEF ValidateHolds
  <2>4. CASE FactoryActivates
    <3>1. conn.state # NotValidated /\ UNCHANGED call
      BY <1>0, <2>4 DEF FactoryActivates, ThreadInv, Early
    <3>2. QED
      BY <1>0, <1>6, <2>4, <3>1, ActionEffects
  <2>5. QED
    BY <1>7, <2>1, <2>2, <2>3, <2>4 DEF Factory
<1>8. CASE Pool
  <2>1. CASE PoolChanges \/ PoolReads
    BY <1>2, <2>1 DEF PoolChanges, PoolReads
  <2>2. CASE Exception \/ MessageCloses
    BY <1>0, <1>3, <2>2, ActionEffects DEF Exception, MessageCloses
  <2>3. QED
    BY <1>0, <1>8, <2>1, <2>2, RequestLife, FinishedLife DEF Pool
<1>9. CASE ShutdownWrites
  <2>1. conn' = [conn EXCEPT !.shutdown = FALSE] /\ UNCHANGED call
    BY <1>9 DEF ShutdownWrites
  <2>2. conn'.state = conn.state /\ conn'.transceiver = conn.transceiver
    BY <1>0, <2>1, UnlockFacts
  <2>3. QED
    BY <1>1, <2>1, <2>2, SeenStays
<1>10. CASE ShutdownFails
  <2>1. PICK c : c = [conn EXCEPT !.shutdown = FALSE]
    OBVIOUS
  <2>2. Aborts(c) /\ UNCHANGED call
    BY <1>0, <1>10, <2>1, ActionEffects DEF ShutdownFails
  <2>3. c \in ConnType /\ c.state = conn.state /\ c.transceiver = conn.transceiver
    BY <1>0, <2>1, UnlockFacts
  <2>4. QED
    BY <1>0, <1>1, <2>2, <2>3, AbortsLife
<1>11. CASE Waiter
  <2>1. CASE WaitForDispatches \/ WaitReturns
    BY <1>2, <2>1 DEF WaitForDispatches, WaitReturns
  <2>2. CASE WaitTimesOut
    BY <1>0, <1>3, <2>2, ActionEffects DEF WaitTimesOut
  <2>3. QED
    BY <1>11, <2>1, <2>2 DEF Waiter
<1>12. CASE Owner
  <2>1. CASE Hold
    BY <1>0, <1>5, <2>1, ActionEffects DEF Hold
  <2>2. CASE WaitUntilHolding
    BY <1>2, <2>2 DEF WaitUntilHolding
  <2>3. CASE Activate
    <3>1. conn.state # NotValidated /\ UNCHANGED call
      BY <1>0, <2>3 DEF Activate, ThreadInv
    <3>2. QED
      BY <1>0, <1>6, <2>3, <3>1, ActionEffects
  <2>4. CASE Destroy \/ Monitor
    BY <1>0, <1>4, <2>4, ActionEffects DEF Destroy, Monitor
  <2>5. CASE Close
    BY <1>0, <1>3, <1>4, <2>5, ActionEffects DEF Close
  <2>6. QED
    BY <1>12, <2>1, <2>2, <2>3, <2>4, <2>5 DEF Owner
<1>13. CASE Peer
  BY <1>2, <1>13 DEF Peer, PeerReads, PeerGoes, PeerSends
<1>14. CASE UNCHANGED vars
  BY <1>2, <1>14 DEF vars
<1>15. QED
  BY <1>7, <1>8, <1>9, <1>10, <1>11, <1>12, <1>13, <1>14, DispatchLife DEF Next, InitiateShutdown

\* A new connection is a new connection of ConnectionLife.
LEMMA InitLife == Init => Life!Init
<1> SUFFICES ASSUME Init PROVE Life!Init
  OBVIOUS
<1>1. conn.state = 0 /\ Busy = {} /\ conn.transceiver = "open"
  BY DEF Init, Busy, NotValidated
<1>2. (conn.transceiver = "closed") = FALSE
  BY <1>1
<1>3. QED
  BY <1>1, <1>2 DEF Life!Init, Life!New, Life!NotValidated

\* The detailed connection implements the abstract one that the factory and
\* the adapter are modelled with, for every set of requests.
THEOREM LifeRefined == Spec => Life!Safe
<1>1. IInv /\ [Next]_vars => Life!Next \/ SeenLife' = SeenLife
  BY NextLife DEF LifeStep
<1>2. IInv /\ [Next]_vars =>
         [Life!Next]_([c \in {"connection"} |->
                          [state |-> conn.state, pending |-> Busy,
                           finished |-> conn.transceiver = "closed"]])
  BY <1>1 DEF SeenLife, Seen, Lives, IsClosed
<1>3. QED
  BY <1>2, InitLife, DispatchInvariant, PTL DEF Spec, Life!Safe
=============================================================================
