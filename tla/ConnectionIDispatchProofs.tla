---------------------- MODULE ConnectionIDispatchProofs ----------------------
(***************************************************************************)
(* Proofs about the dispatches of ConnectionI: what _dispatchCount counts, *)
(* what has been sent when the peer is told to close, and what is over     *)
(* when waitUntilFinished() returns.                                       *)
(***************************************************************************)
EXTENDS ConnectionIProofs

Early == {"check", "write", "validated", "failed"}

Counting == {"write", "failed", "count"}

\* What is left of a request that is being dispatched is counted.
CallInv ==
    /\ \A r \in Reqs : call[r] \in Counting => r \in Twoway
    /\ \A r \in Reqs : left[r] \in Nat
    /\ \A r \in Busy : left[r] > 0 /\ (r \in Twoway => left[r] = 1)
    /\ DispatchCountMatches

\* A request the server has not dispatched is on its way once.
FreshInv ==
    /\ held \in Reqs => call[held] = "idle"
    /\ \A i \in 1..Len(inb) : inb[i] \in Reqs => call[inb[i]] = "idle" /\ inb[i] # held
    /\ \A i, j \in 1..Len(inb) : inb[i] \in Reqs /\ inb[i] = inb[j] => i = j

\* validate() works on a connection that is not validated, or on one that was
\* closed meanwhile; nobody holds or waits for a connection before that.
\* waitUntilFinished() has seen the end of the dispatches.
ThreadInv ==
    /\ factory \in Early => conn.state = NotValidated \/ conn.transceiver = "closed"
    /\ conn.state = NotValidated => factory \in Early /\ holder = "none" /\ waiter = "none"
    /\ waiter \in {"draining", "returned"} => conn.state >= Closing /\ conn.dispatchCount = 0
    /\ waiter = "returned" => conn.transceiver = "closed"

\* Until the connection is closed a two-way request that is over was answered,
\* and CloseConnection is sent when everything is over.
ReplyInv ==
    /\ \A r \in Reqs : call[r] = "threw" => conn.state = Closed
    /\ conn.state # Closed =>
          \A r \in Twoway : call[r] \in {"count", "done"} => r \in Range(sent)
    /\ conn.shutdown => conn.dispatchCount = 0
    /\ CloseConnectionIsSafe
    /\ "close" \in Range(sent) =>
          ~conn.shutdown /\ conn.state >= Closing /\ factory \notin Early

IInv == PoolInv /\ RestTypes /\ CallInv /\ FreshInv /\ ThreadInv /\ ReplyInv
-----------------------------------------------------------------------------
(* _dispatchCount                                                          *)

Working == {"invoke", "write", "failed", "count", "threw"}

\* The requests that are being dispatched, a finite set.
LEMMA BusyIsWorking ==
    ASSUME RestTypes
    PROVE  Busy = {r \in Reqs : call[r] \in Working} /\ IsFiniteSet(Busy)
<1>1. Busy = {r \in Reqs : call[r] \in Working}
  BY DEF Busy, RestTypes, Working
<1>2. IsFiniteSet(Busy)
  BY FS_Subset, ReqsAssumption DEF Busy
<1>3. QED
  BY <1>1, <1>2

\* The count is 0 exactly when no request is being dispatched.
LEMMA CountPositive ==
    ASSUME RestTypes, CallInv
    PROVE  conn.dispatchCount \in Nat /\ (conn.dispatchCount = 0 <=> Busy = {})
<1>1. \A r \in Busy : left[r] \in Nat \ {0}
  BY DEF CallInv, Busy
<1>2. QED
  BY <1>1, BusyIsWorking, SumPositive DEF CallInv, DispatchCountMatches

\* A step moves one request on, and counts what this changes.
LEMMA CountStep ==
    ASSUME RestTypes, RestTypes', CallInv,
           NEW r \in Reqs, NEW l, NEW n \in Nat,
           call' = [call EXCEPT ![r] = l], left' = [left EXCEPT ![r] = n],
           l \in Counting => r \in Twoway,
           l \in Working => n > 0 /\ (r \in Twoway => n = 1),
           conn'.dispatchCount =
              conn.dispatchCount - (IF r \in Busy THEN left[r] ELSE 0)
                                 + (IF r \in Busy' THEN n ELSE 0)
    PROVE  CallInv'
<1>1. /\ call'[r] = l /\ left'[r] = n
      /\ \A q \in Reqs \ {r} : call'[q] = call[q] /\ left'[q] = left[q]
  BY DEF RestTypes
<1>2. Busy' = {q \in Reqs : call'[q] \notin {"idle", "done"}}
  BY DEF Busy
<1>3. Busy' \ {r} = Busy \ {r}
  BY <1>1, <1>2 DEF Busy
<1>4. Busy' = {q \in Reqs : call'[q] \in Working}
  BY <1>2 DEF RestTypes, Working
<1>5. IsFiniteSet(Busy) /\ IsFiniteSet(Busy')
  <2>1. Busy' \subseteq Reqs
    BY <1>2
  <2>2. QED
    BY <2>1, BusyIsWorking, FS_Subset, ReqsAssumption
<1>6. \A q \in Reqs : call'[q] \in Counting => q \in Twoway
  BY <1>1 DEF CallInv
<1>7. \A q \in Reqs : left'[q] \in Nat
  BY <1>1 DEF CallInv
<1>8. \A q \in Busy' : left'[q] > 0 /\ (q \in Twoway => left'[q] = 1)
  <2>1. SUFFICES ASSUME NEW q \in Busy'
                 PROVE  left'[q] > 0 /\ (q \in Twoway => left'[q] = 1)
    OBVIOUS
  <2>2. CASE q = r
    BY <1>1, <1>4, <2>2
  <2>3. CASE q # r
    BY <1>1, <1>2, <1>3, <2>3 DEF CallInv
  <2>4. QED
    BY <2>2, <2>3
<1>9. DispatchCountMatches'
  <2>1. SumFunctionOnSet(left', Busy') =
           SumFunctionOnSet(left, Busy) - (IF r \in Busy THEN left[r] ELSE 0)
                                        + (IF r \in Busy' THEN left'[r] ELSE 0)
    <3>1. \A q \in Busy : left[q] \in Int
      BY DEF CallInv, Busy
    <3>2. \A q \in Busy' : left'[q] \in Int
      BY <1>2, <1>7
    <3>3. \A q \in Busy \ {r} : left[q] = left'[q]
      BY <1>1 DEF Busy
    <3>4. PICK S, T, f, g : S = Busy /\ T = Busy' /\ f = left /\ g = left'
      OBVIOUS
    <3>5. /\ IsFiniteSet(S) /\ IsFiniteSet(T) /\ S \ {r} = T \ {r}
          /\ \A q \in S : f[q] \in Int
          /\ \A q \in T : g[q] \in Int
          /\ \A q \in S \ {r} : f[q] = g[q]
      BY <1>3, <1>5, <3>1, <3>2, <3>3, <3>4
    <3>6. SumFunctionOnSet(g, T) =
             SumFunctionOnSet(f, S) - (IF r \in S THEN f[r] ELSE 0)
                                    + (IF r \in T THEN g[r] ELSE 0)
      BY <3>5, SumChange
    <3>7. QED
      BY <3>4, <3>6
  <2>2. QED
    BY <1>1, <2>1 DEF CallInv, DispatchCountMatches
<1>10. QED
  BY <1>6, <1>7, <1>8, <1>9 DEF CallInv

\* A step that moves no request.
LEMMA CountSame ==
    ASSUME CallInv, UNCHANGED <<call, left>>, conn'.dispatchCount = conn.dispatchCount
    PROVE  CallInv'
<1>1. Busy' = Busy
  BY DEF Busy
<1>2. QED
  BY <1>1 DEF CallInv, DispatchCountMatches


\* A dispatch that goes on stays counted.
LEMMA CountGoto ==
    ASSUME RestTypes, RestTypes', CallInv, conn \in ConnType,
           NEW r \in Reqs, NEW l \in Working, call[r] \in Working,
           Goto(r, l), left' = left, l \in Counting => r \in Twoway,
           conn'.dispatchCount = conn.dispatchCount
    PROVE  CallInv'
<1>1. /\ call' = [call EXCEPT ![r] = l] /\ left' = [left EXCEPT ![r] = left[r]]
      /\ call'[r] = l
  BY DEF Goto, RestTypes
<1>2. r \in Busy /\ r \in Busy'
  BY <1>1 DEF Busy, Working
<1>3. left[r] \in Nat /\ left[r] > 0 /\ (r \in Twoway => left[r] = 1)
  BY <1>2 DEF CallInv
<1>4. conn'.dispatchCount =
         conn.dispatchCount - (IF r \in Busy THEN left[r] ELSE 0)
                            + (IF r \in Busy' THEN left[r] ELSE 0)
  BY <1>2, <1>3 DEF ConnType
<1>5. QED
  BY <1>1, <1>3, <1>4, CountStep

\* A dispatch that is over, answered or given up, is no longer counted.
LEMMA CountOver ==
    ASSUME RestTypes, RestTypes', CallInv, conn \in ConnType,
           NEW r \in Reqs, call[r] \in Working,
           Goto(r, "done"), left' = [left EXCEPT ![r] = 0],
           conn'.dispatchCount = conn.dispatchCount - left[r]
    PROVE  CallInv'
<1>1. call' = [call EXCEPT ![r] = "done"] /\ call'[r] = "done"
  BY DEF Goto, RestTypes
<1>2. r \in Busy /\ r \notin Busy'
  BY <1>1 DEF Busy, Working
<1>3. conn'.dispatchCount =
         conn.dispatchCount - (IF r \in Busy THEN left[r] ELSE 0)
                            + (IF r \in Busy' THEN 0 ELSE 0)
  BY <1>2 DEF ConnType, RestTypes
<1>4. "done" \notin Working /\ "done" \notin Counting /\ 0 \in Nat
  BY DEF Working, Counting
<1>5. QED
  BY <1>1, <1>3, <1>4, CountStep

\* Every step keeps the count.
LEMMA CallNext ==
    ASSUME PoolInv, RestTypes, RestTypes', CallInv, FreshInv, [Next]_vars
    PROVE  CallInv'
<1> USE DEF threads, network, dispatch, pool
<1>0. conn \in ConnType /\ changes \in ChangesType
  BY DEF PoolInv, PoolTypes
<1>1. ASSUME Settles(conn), UNCHANGED dispatch PROVE CallInv'
  BY <1>1, CountSame DEF Settles
<1>2. ASSUME UNCHANGED <<conn, dispatch>> PROVE CallInv'
  BY <1>2, CountSame
<1>3. CASE Factory
  BY <1>0, <1>1, <1>2, <1>3, ActionsSettle
     DEF Factory, ValidateChecks, ValidateWrites, ValidateFails, ValidateHolds, FactoryActivates
<1>4. CASE PoolChanges \/ PoolReads \/ Exception \/ MessageCloses
  BY <1>0, <1>1, <1>2, <1>4, ActionsSettle DEF PoolChanges, PoolReads, Exception, MessageCloses
<1>5. CASE MessageRequest
  <2>1. held \in Reqs /\ InvokeNum[held] \in Nat
    BY <1>5, ReqsAssumption DEF MessageRequest
  <2>2. CASE UNCHANGED <<conn, call, left>>
    BY <1>2, <2>2
  <2>3. CASE /\ conn' = [conn EXCEPT !.dispatchCount = conn.dispatchCount + InvokeNum[held]]
             /\ left' = [left EXCEPT ![held] = InvokeNum[held]]
             /\ call' = [call EXCEPT ![held] = IF InvokeNum[held] = 0 THEN "done" ELSE "invoke"]
    <3>1. PICK r \in Reqs, m \in Nat, l \in {"done", "invoke"} :
              /\ r = held /\ m = InvokeNum[held]
              /\ l = IF m = 0 THEN "done" ELSE "invoke"
      BY <2>1
    <3>2. conn'.dispatchCount = conn.dispatchCount + m
      BY <1>0, <2>3, <3>1 DEF ConnType
    <3>3. call' = [call EXCEPT ![r] = l] /\ left' = [left EXCEPT ![r] = m] /\ call'[r] = l
      BY <2>3, <3>1 DEF RestTypes
    <3>4. r \notin Busy /\ (r \in Busy' <=> m > 0)
      BY <3>1, <3>3 DEF Busy, FreshInv
    <3>5. conn'.dispatchCount =
             conn.dispatchCount - (IF r \in Busy THEN left[r] ELSE 0)
                                + (IF r \in Busy' THEN m ELSE 0)
      BY <1>0, <3>2, <3>4 DEF ConnType
    <3>6. /\ l \notin Counting
          /\ l \in Working => m > 0 /\ (r \in Twoway => m = 1)
      BY <3>1, ReqsAssumption DEF Counting, Working
    <3>7. QED
      BY <3>3, <3>5, <3>6, CountStep
  <2>4. QED
    BY <1>0, <2>2, <2>3, <1>5, MessageRequestFacts
<1>6. CASE Finished
  BY <1>0, <1>6, CountSame, FinishedFacts DEF Finished
<1>7. CASE InitiateShutdown
  <2>1. CASE ShutdownFails
    BY <1>0, <1>1, <2>1, ActionsSettle DEF ShutdownFails
  <2>2. CASE ShutdownWrites
    <3>1. conn' = [conn EXCEPT !.shutdown = FALSE] /\ UNCHANGED <<call, left>>
      BY <2>2 DEF ShutdownWrites
    <3>2. conn'.dispatchCount = conn.dispatchCount
      BY <1>0, <3>1, UnlockFacts
    <3>3. QED
      BY <3>1, <3>2, CountSame
  <2>3. QED
    BY <1>7, <2>1, <2>2 DEF InitiateShutdown
<1>8. CASE Waiter
  BY <1>0, <1>1, <1>2, <1>8, ActionsSettle
     DEF Waiter, WaitForDispatches, WaitTimesOut, WaitReturns
<1>9. CASE Owner
  BY <1>0, <1>1, <1>2, <1>9, ActionsSettle
     DEF Owner, Hold, WaitUntilHolding, Activate, Destroy, Close, Monitor
<1>10. CASE Peer
  BY <1>2, <1>10 DEF Peer, PeerReads, PeerGoes, PeerSends
<1>11. CASE UNCHANGED vars
  BY <1>2, <1>11 DEF vars
<1>12. ASSUME NEW r \in Reqs, ResponseLocks(r) PROVE CallInv'
  <2>1. PICK l \in {"failed", "write"} : Goto(r, l)
    BY <1>12 DEF ResponseLocks
  <2>2. call[r] \in Working /\ l \in Working /\ r \in Twoway /\ UNCHANGED <<conn, left>>
    BY <1>12, <2>1 DEF ResponseLocks, Working
  <2>3. QED
    BY <1>0, <2>1, <2>2, CountGoto
<1>13. ASSUME NEW r \in Reqs, ResponseWrites(r) PROVE CallInv'
  <2>1. PICK l \in {"failed", "count"} : Goto(r, l)
    BY <1>13 DEF ResponseWrites
  <2>2. call[r] \in Working /\ l \in Working /\ r \in Twoway /\ UNCHANGED <<conn, left>>
    BY <1>13, <2>1 DEF ResponseWrites, Working, Counting, CallInv
  <2>3. QED
    BY <1>0, <2>1, <2>2, CountGoto
<1>14. ASSUME NEW r \in Reqs, ResponseFails(r) PROVE CallInv'
  <2>1. /\ Goto(r, "count") /\ UNCHANGED left /\ r \in Twoway
        /\ call[r] \in Working /\ "count" \in Working
    BY <1>14 DEF ResponseFails, Working, Counting, CallInv
  <2>2. conn'.dispatchCount = conn.dispatchCount
    BY <1>0, <1>14, ActionsSettle DEF Settles
  <2>3. QED
    BY <1>0, <2>1, <2>2, CountGoto
<1>15. ASSUME NEW r \in Reqs, InvokeThrows(r) PROVE CallInv'
  <2>1. /\ Goto(r, "threw") /\ UNCHANGED left /\ "threw" \notin Counting
        /\ call[r] \in Working /\ "threw" \in Working
    BY <1>15 DEF InvokeThrows, Working, Counting
  <2>2. conn'.dispatchCount = conn.dispatchCount
    BY <1>0, <1>15, ActionsSettle DEF Settles
  <2>3. QED
    BY <1>0, <2>1, <2>2, CountGoto
<1>16. ASSUME NEW r \in Reqs, ResponseCounts(r) PROVE CallInv'
  <2>1. /\ Goto(r, "done") /\ call[r] \in Working /\ r \in Twoway /\ r \in Busy
        /\ left' = [left EXCEPT ![r] = left[r] - 1] /\ conn' = Uncount(conn, 1)
    BY <1>16 DEF ResponseCounts, Working, Counting, CallInv, Busy
  <2>2. left[r] = 1
    BY <2>1 DEF CallInv
  <2>3. left' = [left EXCEPT ![r] = 0] /\ conn'.dispatchCount = conn.dispatchCount - left[r]
    BY <1>0, <2>1, <2>2, UncountFacts
  <2>4. QED
    BY <1>0, <2>1, <2>3, CountOver
<1>17. ASSUME NEW r \in Reqs, NoResponse(r) PROVE CallInv'
  <2>1. /\ call[r] = "invoke" /\ call[r] \in Working /\ r \notin Twoway /\ r \in Busy
        /\ Goto(r, IF left[r] = 1 THEN "done" ELSE "invoke")
        /\ left' = [left EXCEPT ![r] = left[r] - 1] /\ conn' = Uncount(conn, 1)
    BY <1>17 DEF NoResponse, Working, Busy
  <2>2. left[r] \in Nat /\ left[r] > 0
    BY <2>1 DEF CallInv
  <2>3. conn'.dispatchCount = conn.dispatchCount - 1
    BY <1>0, <2>1, UncountFacts
  <2>4. CASE left[r] = 1
    <3>1. left' = [left EXCEPT ![r] = 0] /\ conn'.dispatchCount = conn.dispatchCount - left[r]
      BY <2>1, <2>3, <2>4
    <3>2. QED
      BY <1>0, <2>1, <2>4, <3>1, CountOver
  <2>5. CASE left[r] # 1
    <3>1. PICK m \in Nat : m = left[r] - 1 /\ m > 0
      BY <2>2, <2>5
    <3>2. /\ call' = [call EXCEPT ![r] = "invoke"] /\ left' = [left EXCEPT ![r] = m]
          /\ call'[r] = "invoke"
      BY <2>1, <2>5, <3>1 DEF Goto, RestTypes
    <3>3. r \in Busy'
      BY <3>2 DEF Busy
    <3>4. conn'.dispatchCount =
             conn.dispatchCount - (IF r \in Busy THEN left[r] ELSE 0)
                                + (IF r \in Busy' THEN m ELSE 0)
      BY <1>0, <2>1, <2>2, <2>3, <3>1, <3>3 DEF ConnType
    <3>5. "invoke" \notin Counting
      BY DEF Counting
    <3>6. QED
      BY <2>1, <3>1, <3>2, <3>4, <3>5, CountStep
  <2>6. QED
    BY <2>4, <2>5
<1>18. ASSUME NEW r \in Reqs, InvokeAbandons(r) PROVE CallInv'
  <2>1. /\ Goto(r, "done") /\ call[r] \in Working /\ left' = [left EXCEPT ![r] = 0]
        /\ conn' = [conn EXCEPT !.dispatchCount = conn.dispatchCount - left[r]]
    BY <1>18 DEF InvokeAbandons, Working
  <2>2. conn'.dispatchCount = conn.dispatchCount - left[r]
    BY <1>0, <2>1 DEF ConnType
  <2>3. QED
    BY <1>0, <2>1, <2>2, CountOver
<1>19. QED
  BY <1>3, <1>4, <1>5, <1>6, <1>7, <1>8, <1>9, <1>10, <1>11, <1>12, <1>13, <1>14, <1>15, <1>16, <1>17, <1>18
     DEF Next, Pool, Dispatch
-----------------------------------------------------------------------------
(* The messages the peer has sent.                                         *)

\* Requests are moved on or given up, none that waits.
LEMMA FreshKept ==
    ASSUME FreshInv, inb' = inb, held' \in {held, None},
           \A q \in Reqs : call[q] = "idle" /\ (q = held => held' = held) => call'[q] = "idle"
    PROVE  FreshInv'
<1>1. None \notin Reqs
  BY ReqsAssumption
<1>2. held' \in Reqs => call'[held'] = "idle"
  BY <1>1 DEF FreshInv
<1>3. \A i \in 1..Len(inb) : inb[i] \in Reqs => call'[inb[i]] = "idle" /\ inb[i] # held'
  BY <1>1 DEF FreshInv
<1>4. QED
  BY <1>2, <1>3 DEF FreshInv

\* A dispatched request is not one that waits.
LEMMA FreshGoto ==
    ASSUME RestTypes, FreshInv, NEW r \in Reqs, NEW l, call[r] # "idle", Goto(r, l),
           UNCHANGED <<inb, held>>
    PROVE  FreshInv'
<1>1. \A q \in Reqs : call[q] = "idle" => call'[q] = "idle"
  BY DEF RestTypes, Goto
<1>2. QED
  BY <1>1, FreshKept

\* The peer sends something.
LEMMA FreshAppend ==
    ASSUME RestTypes, FreshInv, NEW m \in Reqs \cup {"close", "lost"},
           m \in Reqs => call[m] = "idle" /\ m # held /\ m \notin Range(inb),
           inb' = Append(inb, m), UNCHANGED <<call, held>>
    PROVE  FreshInv'
<1>1. /\ Len(inb) \in Nat /\ Len(inb') = Len(inb) + 1 /\ inb'[Len(inb) + 1] = m
      /\ \A i \in 1..Len(inb) : inb'[i] = inb[i] /\ inb[i] \in Range(inb)
  BY DEF RestTypes, Range
<1>2. \A i \in 1..Len(inb') : i \in 1..Len(inb) \/ i = Len(inb) + 1
  BY <1>1
<1>3. \A i \in 1..Len(inb') : inb'[i] \in Reqs => call[inb'[i]] = "idle" /\ inb'[i] # held
  BY <1>1, <1>2 DEF FreshInv
<1>4. \A i, j \in 1..Len(inb') : inb'[i] \in Reqs /\ inb'[i] = inb'[j] => i = j
  BY <1>1, <1>2 DEF FreshInv
<1>5. QED
  BY <1>3, <1>4 DEF FreshInv

\* The pool reads the first message.
LEMMA FreshRead ==
    ASSUME RestTypes, FreshInv, PoolReads
    PROVE  FreshInv'
<1>1. /\ inb # <<>> /\ held' = Head(inb) /\ call' = call
      /\ inb' = IF Head(inb) = "lost" THEN inb ELSE Tail(inb)
  BY DEF PoolReads, dispatch
<1>2. /\ Len(inb) \in Nat /\ Len(inb) > 0 /\ Head(inb) = inb[1]
      /\ Len(Tail(inb)) = Len(inb) - 1
      /\ \A i \in 1..Len(Tail(inb)) : Tail(inb)[i] = inb[i + 1] /\ i + 1 \in 1..Len(inb)
  BY <1>1 DEF RestTypes
<1>3. "lost" \notin Reqs
  BY ReqsAssumption
<1>4. held' \in Reqs => call[held'] = "idle"
  BY <1>1, <1>2 DEF FreshInv
<1>5. CASE Head(inb) = "lost"
  BY <1>1, <1>3, <1>5 DEF FreshInv
<1>6. CASE Head(inb) # "lost"
  <2>1. inb' = Tail(inb)
    BY <1>1, <1>6
  <2>2. ASSUME NEW i \in 1..Len(Tail(inb)), Tail(inb)[i] \in Reqs
        PROVE  call[Tail(inb)[i]] = "idle" /\ Tail(inb)[i] # held'
    <3>1. Tail(inb)[i] = inb[i + 1] /\ i + 1 \in 1..Len(inb) /\ 1 \in 1..Len(inb) /\ i + 1 # 1
      BY <1>2
    <3>2. inb[i + 1] # inb[1]
      BY <2>2, <3>1 DEF FreshInv
    <3>3. QED
      BY <1>1, <1>2, <2>2, <3>1, <3>2 DEF FreshInv
  <2>3. ASSUME NEW i \in 1..Len(Tail(inb)), NEW j \in 1..Len(Tail(inb)), Tail(inb)[i] \in Reqs,
               Tail(inb)[i] = Tail(inb)[j]
        PROVE  i = j
    <3>1. /\ Tail(inb)[i] = inb[i + 1] /\ i + 1 \in 1..Len(inb)
          /\ Tail(inb)[j] = inb[j + 1] /\ j + 1 \in 1..Len(inb)
      BY <1>2
    <3>2. i + 1 = j + 1
      BY <2>3, <3>1 DEF FreshInv
    <3>3. QED
      BY <3>2
  <2>4. QED
    BY <1>1, <1>4, <2>1, <2>2, <2>3 DEF FreshInv
<1>7. QED
  BY <1>5, <1>6

\* Every step keeps waiting requests apart from dispatched ones.
LEMMA FreshNext ==
    ASSUME RestTypes, FreshInv, [Next]_vars
    PROVE  FreshInv'
<1> USE DEF threads, network, dispatch, pool
<1>1. ASSUME UNCHANGED <<call, inb>>, held' \in {held, None} PROVE FreshInv'
  BY <1>1, FreshKept
<1>2. CASE Factory
  BY <1>1, <1>2 DEF Factory, ValidateChecks, ValidateWrites, ValidateFails, ValidateHolds,
                    FactoryActivates
<1>3. CASE PoolChanges \/ Exception \/ MessageCloses \/ Finished
  BY <1>1, <1>3 DEF PoolChanges, Exception, MessageCloses, Finished
<1>4. CASE PoolReads
  BY <1>4, FreshRead
<1>5. CASE MessageRequest
  <2>1. inb' = inb /\ held' = None /\ held \in Reqs
    BY <1>5 DEF MessageRequest
  <2>2. call' = call \/ \E l : call' = [call EXCEPT ![held] = l]
    BY <1>5 DEF MessageRequest, ParseRequest
  <2>3. held # None
    BY <2>1, ReqsAssumption
  <2>4. \A q \in Reqs \ {held} : call'[q] = call[q]
    BY <2>2 DEF RestTypes
  <2>5. QED
    BY <2>1, <2>3, <2>4, FreshKept
<1>6. ASSUME NEW r \in Reqs, Dispatch(r) PROVE FreshInv'
  <2>1. PICK l : Goto(r, l)
    BY <1>6 DEF Dispatch, ResponseLocks, ResponseWrites, ResponseFails, ResponseCounts,
                NoResponse, InvokeThrows, InvokeAbandons
  <2>2. call[r] # "idle" /\ UNCHANGED <<inb, held>>
    BY <1>6 DEF Dispatch, ResponseLocks, ResponseWrites, ResponseFails, ResponseCounts,
                NoResponse, InvokeThrows, InvokeAbandons
  <2>3. QED
    BY <2>1, <2>2, FreshGoto
<1>7. CASE InitiateShutdown \/ Waiter \/ Owner
  BY <1>1, <1>7 DEF InitiateShutdown, ShutdownWrites, ShutdownFails, Waiter, WaitForDispatches,
                    WaitTimesOut, WaitReturns, Owner, Hold, WaitUntilHolding, Activate, Destroy,
                    Close, Monitor
<1>8. CASE PeerReads
  <2>1. UNCHANGED <<call, held>> /\ (inb' = inb \/ inb' = Append(inb, "lost"))
    BY <1>8 DEF PeerReads
  <2>2. "lost" \notin Reqs
    BY ReqsAssumption
  <2>3. QED
    BY <1>1, <2>1, <2>2, FreshAppend
<1>9. CASE PeerGoes
  BY <1>9, FreshAppend, ReqsAssumption DEF PeerGoes
<1>10. ASSUME NEW m \in Reqs \cup {"close"}, PeerSends(m) PROVE FreshInv'
  BY <1>10, FreshAppend DEF PeerSends
<1>11. CASE UNCHANGED vars
  BY <1>1, <1>11 DEF vars
<1>12. QED
  BY <1>2, <1>3, <1>4, <1>5, <1>6, <1>7, <1>8, <1>9, <1>10, <1>11 DEF Next, Pool, Peer
-----------------------------------------------------------------------------
(* The threads that wait for the connection.                               *)

\* setState(Closed), and what closing does to a connection that is not
\* validated.
LEMMA ClosingFacts ==
    ASSUME conn \in ConnType, changes \in ChangesType
    PROVE  /\ Aborts(conn) => conn'.state = Closed
           /\ (Aborts(conn) \/ Destroys(conn)) /\ conn.state = NotValidated =>
                 conn'.transceiver = "closed"
<1> USE DEF NotValidated, Active, Holding, Closing, Closed
<1>1. ASSUME NEW ex \in {"closing", "failed"}, Drops(conn, ex)
      PROVE  conn'.state = Closed /\ conn'.transceiver = "closed"
  BY <1>1, DropFacts
<1>2. Closes(conn) => conn'.state = Closed /\ conn.state # NotValidated
  <2>1. Closes(conn) => conn'.state = Closed
    BY CloseFacts
  <2>2. Closes(conn) => conn.state # NotValidated
    BY DEF Closes
  <2>3. QED
    BY <2>1, <2>2
<1>3. StartsClosing(conn) => conn.state # NotValidated
  BY DEF StartsClosing
<1>4. Aborts(conn) => conn'.state = Closed
  BY <1>1, <1>2 DEF Aborts, Nothing
<1>5. Aborts(conn) /\ conn.state = NotValidated => conn'.transceiver = "closed"
  BY <1>1, <1>2 DEF Aborts
<1>6. Destroys(conn) /\ conn.state = NotValidated => conn'.transceiver = "closed"
  BY <1>1, <1>3 DEF Destroys
<1>7. QED
  BY <1>4, <1>5, <1>6

\* A closed transceiver stays closed.
LEMMA TransceiverStays ==
    ASSUME PoolInv, RestTypes, [Next]_vars, conn.transceiver = "closed"
    PROVE  conn'.transceiver = "closed"
<1>1. conn \in ConnType /\ conn.state = Closed
  BY DEF PoolInv, PoolTypes, TransceiverOutlivesPool
<1>2. CASE Settles(conn)
  BY <1>1, <1>2 DEF Settles
<1>3. CASE Kept
  BY <1>3 DEF Kept
<1>4. CASE Finished
  BY <1>1, <1>4, FinishedFacts
<1>5. QED
  BY <1>2, <1>3, <1>4, StepKinds

\* A closing connection whose dispatches are over starts none.
LEMMA IdleStays ==
    ASSUME PoolInv, RestTypes, CallInv, [Next]_vars,
           conn.state >= Closing, conn.dispatchCount = 0
    PROVE  UNCHANGED <<call, left>> /\ conn'.dispatchCount = 0
<1> USE DEF threads, network, dispatch, pool
<1>0. conn \in ConnType /\ changes \in ChangesType /\ conn.state \in 0..4
  BY DEF PoolInv, PoolTypes, ConnType, NotValidated, Closed
<1>1. ASSUME NEW r \in Reqs, Dispatch(r) PROVE FALSE
  <2>1. call[r] \in Working
    BY <1>1 DEF Dispatch, ResponseLocks, ResponseWrites, ResponseFails, ResponseCounts,
                NoResponse, InvokeThrows, InvokeAbandons, Working
  <2>2. r \in Busy
    BY <2>1 DEF Busy, Working
  <2>3. QED
    BY <2>2, CountPositive
<1>2. CASE Factory
  BY <1>0, <1>2, ActionsSettle
     DEF Factory, ValidateChecks, ValidateWrites, ValidateFails, ValidateHolds,
         FactoryActivates, Settles
<1>3. CASE PoolChanges \/ PoolReads \/ Exception \/ MessageCloses
  BY <1>0, <1>3, ActionsSettle DEF PoolChanges, PoolReads, Exception, MessageCloses, Settles
<1>4. CASE MessageRequest
  BY <1>0, <1>4, MessageRequestFacts DEF Closing, Closed
<1>5. CASE Finished
  BY <1>0, <1>5, FinishedFacts DEF Finished
<1>6. CASE ShutdownWrites
  <2>1. conn' = [conn EXCEPT !.shutdown = FALSE] /\ UNCHANGED <<call, left>>
    BY <1>6 DEF ShutdownWrites
  <2>2. QED
    BY <1>0, <2>1, UnlockFacts
<1>7. CASE ShutdownFails
  BY <1>0, <1>7, ActionsSettle DEF ShutdownFails, Settles
<1>8. CASE Waiter
  BY <1>0, <1>8, ActionsSettle DEF Waiter, WaitForDispatches, WaitTimesOut, WaitReturns, Settles
<1>9. CASE Owner
  BY <1>0, <1>9, ActionsSettle
     DEF Owner, Hold, WaitUntilHolding, Activate, Destroy, Close, Monitor, Settles
<1>10. CASE Peer
  BY <1>10 DEF Peer, PeerReads, PeerGoes, PeerSends
<1>11. CASE UNCHANGED vars
  BY <1>11 DEF vars
<1>12. QED
  BY <1>1, <1>2, <1>3, <1>4, <1>5, <1>6, <1>7, <1>8, <1>9, <1>10, <1>11
     DEF Next, Pool, InitiateShutdown

\* The part of ThreadInv that is about the thread that accepted the connection.
EarlyInv ==
    /\ factory \in Early => conn.state = NotValidated \/ conn.transceiver = "closed"
    /\ conn.state = NotValidated => factory \in Early /\ holder = "none" /\ waiter = "none"

\* Every step keeps it.
LEMMA EarlyNext ==
    ASSUME PoolInv, RestTypes, EarlyInv, [Next]_vars
    PROVE  EarlyInv'
<1> USE DEF threads, network, dispatch, pool
<1>0. conn \in ConnType /\ changes \in ChangesType
  BY DEF PoolInv, PoolTypes
<1>t. conn.transceiver = "closed" => conn'.transceiver = "closed"
  BY TransceiverStays
<1>1. ASSUME Kept, UNCHANGED threads PROVE EarlyInv'
  BY <1>1 DEF Kept, EarlyInv
<1>2. ASSUME Aborts(conn) \/ Destroys(conn), Settles(conn), UNCHANGED factory PROVE EarlyInv'
  BY <1>0, <1>t, <1>2, ClosingFacts DEF Settles, EarlyInv
<1>3. ASSUME Settles(conn), UNCHANGED factory, conn.state # NotValidated PROVE EarlyInv'
  BY <1>t, <1>3 DEF Settles, EarlyInv
<1>4. ASSUME Settles(conn), factory' \notin Early PROVE EarlyInv'
  BY <1>4 DEF Settles, EarlyInv
<1>5. CASE ValidateChecks
  <2>1. conn' = conn /\ UNCHANGED <<holder, waiter>>
    BY <1>5 DEF ValidateChecks
  <2>2. factory = "check" /\ factory' = IF conn.state = Closed THEN "done" ELSE "write"
    BY <1>5 DEF ValidateChecks
  <2>3. QED
    BY <2>1, <2>2 DEF EarlyInv, Early, NotValidated, Closed
<1>6. CASE ValidateWrites
  <2>1. /\ conn' = conn /\ UNCHANGED <<holder, waiter>>
        /\ factory = "write" /\ factory' \in {"validated", "failed"}
    BY <1>6 DEF ValidateWrites
  <2>2. QED
    BY <2>1 DEF EarlyInv, Early
<1>7. CASE ValidateFails \/ ValidateHolds \/ FactoryActivates
  BY <1>0, <1>4, <1>7, ActionsSettle DEF ValidateFails, ValidateHolds, FactoryActivates, Early
<1>8. CASE PoolChanges \/ PoolReads
  <2>1. Kept /\ UNCHANGED threads
    BY <1>0, <1>8 DEF Kept, PoolChanges, PoolReads
  <2>2. QED
    BY <1>1, <2>1
<1>9. CASE Exception \/ MessageCloses \/ WaitTimesOut
  BY <1>0, <1>2, <1>9, ActionsSettle, ActionEffects DEF Exception, MessageCloses, WaitTimesOut
<1>10. CASE Close \/ Monitor \/ Destroy
  BY <1>0, <1>2, <1>10, ActionsSettle, ActionEffects DEF Close, Monitor, Destroy
<1>11. CASE Hold \/ Activate
  <2>1. conn.state # NotValidated /\ UNCHANGED factory /\ Settles(conn)
    BY <1>0, <1>11, ActionsSettle DEF Hold, Activate, EarlyInv
  <2>2. QED
    BY <1>3, <2>1
<1>12. CASE WaitUntilHolding \/ WaitForDispatches \/ WaitReturns
  BY <1>12 DEF WaitUntilHolding, WaitForDispatches, WaitReturns, EarlyInv
<1>13. CASE MessageRequest
  <2>1. held \in Reqs /\ conn.dispatchCount + InvokeNum[held] \in Int
    BY <1>0, <1>13, ReqsAssumption DEF MessageRequest, ConnType
  <2>2. Kept
    BY <1>0, <1>13, <2>1, MessageRequestFacts, CountFacts DEF Kept
  <2>3. QED
    BY <1>1, <1>13, <2>2 DEF MessageRequest
<1>14. CASE Finished
  <2>1. conn'.state = conn.state /\ UNCHANGED threads
    BY <1>0, <1>14, FinishedFacts DEF Finished
  <2>2. QED
    BY <1>t, <2>1 DEF EarlyInv
<1>15. CASE ShutdownWrites
  <2>1. conn' = [conn EXCEPT !.shutdown = FALSE] /\ UNCHANGED threads
    BY <1>15 DEF ShutdownWrites
  <2>2. Kept
    BY <1>0, <2>1, UnlockFacts DEF Kept
  <2>3. QED
    BY <1>1, <2>1, <2>2
<1>16. CASE ShutdownFails
  <2>1. conn.state # NotValidated /\ UNCHANGED factory
    BY <1>16 DEF PoolInv, ShutdownWhenClosing, ShutdownFails, NotValidated, Closing
  <2>2. QED
    BY <1>0, <1>3, <1>16, <2>1, ActionsSettle
<1>17. ASSUME NEW r \in Reqs, Dispatch(r) PROVE EarlyInv'
  <2>1. CASE ResponseLocks(r) \/ ResponseWrites(r)
    BY <2>1 DEF ResponseLocks, ResponseWrites, EarlyInv
  <2>2. CASE ResponseFails(r) \/ InvokeThrows(r)
    BY <1>0, <1>2, <2>2, ActionsSettle, ActionEffects DEF ResponseFails, InvokeThrows
  <2>3. CASE ResponseCounts(r) \/ NoResponse(r)
    <3>1. conn' = Uncount(conn, 1) /\ UNCHANGED threads
      BY <2>3 DEF ResponseCounts, NoResponse
    <3>2. Kept
      BY <1>0, <3>1, UncountFacts DEF Kept
    <3>3. QED
      BY <1>1, <3>1, <3>2
  <2>4. CASE InvokeAbandons(r)
    <3>1. /\ conn' = [conn EXCEPT !.dispatchCount = conn.dispatchCount - left[r]]
          /\ UNCHANGED threads
      BY <2>4 DEF InvokeAbandons
    <3>2. conn.dispatchCount - left[r] \in Int
      BY <1>0 DEF ConnType, RestTypes
    <3>3. Kept
      BY <1>0, <3>1, <3>2, CountFacts DEF Kept
    <3>4. QED
      BY <1>1, <3>1, <3>3
  <2>5. QED
    BY <1>17, <2>1, <2>2, <2>3, <2>4 DEF Dispatch
<1>18. CASE Peer
  BY <1>18 DEF Peer, PeerReads, PeerGoes, PeerSends, EarlyInv
<1>19. CASE UNCHANGED vars
  BY <1>19 DEF vars, EarlyInv
<1>20. QED
  BY <1>5, <1>6, <1>7, <1>8, <1>9, <1>10, <1>11, <1>12, <1>13, <1>14, <1>15, <1>16, <1>17, <1>18,
     <1>19
     DEF Next, Factory, Pool, InitiateShutdown, Waiter, Owner

\* Every step keeps what the waiting threads rely on.
LEMMA ThreadNext ==
    ASSUME PoolInv, RestTypes, CallInv, ThreadInv, [Next]_vars
    PROVE  ThreadInv'
<1> USE DEF threads, network, dispatch, pool
<1>1. EarlyInv'
  BY EarlyNext DEF ThreadInv, EarlyInv
<1>2. conn.transceiver = "closed" => conn'.transceiver = "closed"
  BY TransceiverStays
<1>3. conn.state >= Closing /\ conn.dispatchCount = 0 =>
         conn'.state >= Closing /\ conn'.dispatchCount = 0
  <2>1. SUFFICES ASSUME conn.state >= Closing, conn.dispatchCount = 0
                 PROVE  conn'.state >= Closing /\ conn'.dispatchCount = 0
    OBVIOUS
  <2>2. conn'.state >= conn.state /\ conn'.dispatchCount = 0
    BY <2>1, ClosingStep, IdleStays
  <2>3. conn.state \in Int /\ conn'.state \in Int
    BY PoolNext DEF PoolInv, PoolTypes, ConnType, NotValidated, Closed
  <2>4. QED
    BY <2>1, <2>2, <2>3 DEF Closing
<1>4. CASE WaitForDispatches
  BY <1>1, <1>4 DEF WaitForDispatches, ThreadInv, EarlyInv
<1>5. CASE WaitReturns
  BY <1>1, <1>2, <1>3, <1>5 DEF WaitReturns, ThreadInv, EarlyInv
<1>6. CASE Destroy
  BY <1>1, <1>6 DEF Destroy, ThreadInv, EarlyInv
<1>7. ASSUME UNCHANGED waiter PROVE ThreadInv'
  BY <1>1, <1>2, <1>3, <1>7 DEF ThreadInv, EarlyInv
<1>8. CASE Factory
  BY <1>7, <1>8 DEF Factory, ValidateChecks, ValidateWrites, ValidateFails, ValidateHolds,
                    FactoryActivates
<1>9. CASE Pool
  BY <1>7, <1>9 DEF Pool, PoolChanges, PoolReads, Exception, MessageCloses, MessageRequest,
                    Finished
<1>10. ASSUME NEW r \in Reqs, Dispatch(r) PROVE ThreadInv'
  BY <1>7, <1>10 DEF Dispatch, ResponseLocks, ResponseWrites, ResponseFails, ResponseCounts,
                     NoResponse, InvokeThrows, InvokeAbandons
<1>11. CASE InitiateShutdown \/ WaitTimesOut
  BY <1>7, <1>11 DEF InitiateShutdown, ShutdownWrites, ShutdownFails, WaitTimesOut
<1>12. CASE Hold \/ WaitUntilHolding \/ Activate \/ Close \/ Monitor
  BY <1>7, <1>12 DEF Hold, WaitUntilHolding, Activate, Close, Monitor
<1>13. CASE Peer
  BY <1>7, <1>13 DEF Peer, PeerReads, PeerGoes, PeerSends
<1>14. CASE UNCHANGED vars
  BY <1>7, <1>14 DEF vars
<1>15. QED
  BY <1>4, <1>5, <1>6, <1>8, <1>9, <1>10, <1>11, <1>12, <1>13, <1>14 DEF Next, Waiter, Owner
-----------------------------------------------------------------------------
(* Replies and CloseConnection.                                            *)

\* The history of what was sent grows at its end.
LEMMA RangeAppend ==
    ASSUME RestTypes, NEW m, sent' = Append(sent, m)
    PROVE  /\ Range(sent') = Range(sent) \cup {m}
           /\ Len(sent) \in Nat /\ Len(sent') = Len(sent) + 1
           /\ sent'[Len(sent')] = m
           /\ \A i \in 1..Len(sent) : sent'[i] = sent[i] /\ sent[i] \in Range(sent)
<1>1. /\ Len(sent) \in Nat /\ Len(sent') = Len(sent) + 1
      /\ DOMAIN sent = 1..Len(sent) /\ DOMAIN sent' = 1..(Len(sent) + 1)
      /\ sent'[Len(sent) + 1] = m
      /\ \A i \in 1..Len(sent) : sent'[i] = sent[i]
  BY DEF RestTypes
<1>2. \A i \in 1..(Len(sent) + 1) : i \in 1..Len(sent) \/ i = Len(sent) + 1
  BY <1>1
<1>3. 1..Len(sent) \subseteq 1..(Len(sent) + 1) /\ Len(sent) + 1 \in 1..(Len(sent) + 1)
  BY <1>1
<1>4. Range(sent') = Range(sent) \cup {m}
  BY <1>1, <1>2, <1>3 DEF Range
<1>5. QED
  BY <1>1, <1>4 DEF Range

\* What a step may put on the socket.
LEMMA SentSteps ==
    ASSUME [Next]_vars
    PROVE  \/ sent' = sent
           \/ factory = "write" /\ sent' = Append(sent, "validate")
           \/ \E r \in Reqs : call[r] = "write" /\ sent' = Append(sent, r)
           \/ ShutdownWrites
<1> USE DEF threads, network, dispatch, pool
<1>1. CASE Factory
  BY <1>1 DEF Factory, ValidateChecks, ValidateWrites, ValidateFails, ValidateHolds,
              FactoryActivates
<1>2. CASE Pool
  BY <1>2 DEF Pool, PoolChanges, PoolReads, Exception, MessageCloses, MessageRequest, Finished
<1>3. ASSUME NEW r \in Reqs, Dispatch(r)
      PROVE  sent' = sent \/ (call[r] = "write" /\ sent' = Append(sent, r))
  BY <1>3 DEF Dispatch, ResponseLocks, ResponseWrites, ResponseFails, ResponseCounts,
              NoResponse, InvokeThrows, InvokeAbandons
<1>4. CASE InitiateShutdown
  BY <1>4 DEF InitiateShutdown, ShutdownFails
<1>5. CASE Waiter
  BY <1>5 DEF Waiter, WaitForDispatches, WaitTimesOut, WaitReturns
<1>6. CASE Owner
  BY <1>6 DEF Owner, Hold, WaitUntilHolding, Activate, Destroy, Close, Monitor
<1>7. CASE Peer
  BY <1>7 DEF Peer, PeerReads, PeerGoes, PeerSends
<1>8. CASE UNCHANGED vars
  BY <1>8 DEF vars
<1>9. QED
  BY <1>1, <1>2, <1>3, <1>4, <1>5, <1>6, <1>7, <1>8 DEF Next

\* Nothing that was sent is taken back.
LEMMA SentStays ==
    ASSUME RestTypes, [Next]_vars
    PROVE  Range(sent) \subseteq Range(sent')
<1>1. ASSUME NEW m, sent' = Append(sent, m) PROVE Range(sent) \subseteq Range(sent')
  BY <1>1, RangeAppend
<1>2. ShutdownWrites => sent' = Append(sent, "close")
  BY DEF ShutdownWrites
<1>3. QED
  BY <1>1, <1>2, SentSteps

\* How a step moves a request.
LEMMA CallSteps ==
    ASSUME RestTypes, conn \in ConnType, [Next]_vars, NEW q \in Reqs, call'[q] # call[q]
    PROVE  \/ Dispatch(q)
           \/ /\ MessageRequest /\ q = held
              /\ call'[q] = IF InvokeNum[q] = 0 THEN "done" ELSE "invoke"
<1> USE DEF threads, network, dispatch, pool
<1>1. ASSUME call' = call PROVE FALSE
  BY <1>1
<1>2. CASE Factory
  BY <1>1, <1>2 DEF Factory, ValidateChecks, ValidateWrites, ValidateFails, ValidateHolds,
                    FactoryActivates
<1>3. CASE PoolChanges \/ PoolReads \/ Exception \/ MessageCloses \/ Finished
  BY <1>1, <1>3 DEF PoolChanges, PoolReads, Exception, MessageCloses, Finished
<1>4. CASE MessageRequest
  <2>1. /\ held \in Reqs
        /\ call' = [call EXCEPT ![held] = IF InvokeNum[held] = 0 THEN "done" ELSE "invoke"]
    BY <1>1, <1>4, MessageRequestFacts
  <2>2. QED
    BY <1>4, <2>1 DEF RestTypes
<1>5. ASSUME NEW r \in Reqs, Dispatch(r) PROVE r = q
  <2>1. PICK l : Goto(r, l)
    BY <1>5 DEF Dispatch, ResponseLocks, ResponseWrites, ResponseFails, ResponseCounts,
                NoResponse, InvokeThrows, InvokeAbandons
  <2>2. QED
    BY <2>1 DEF Goto, RestTypes
<1>6. CASE InitiateShutdown \/ Waiter
  BY <1>1, <1>6 DEF InitiateShutdown, ShutdownWrites, ShutdownFails, Waiter, WaitForDispatches,
                    WaitTimesOut, WaitReturns
<1>7. CASE Owner
  BY <1>1, <1>7 DEF Owner, Hold, WaitUntilHolding, Activate, Destroy, Close, Monitor
<1>8. CASE Peer
  BY <1>1, <1>8 DEF Peer, PeerReads, PeerGoes, PeerSends
<1>9. CASE UNCHANGED vars
  BY <1>1, <1>9 DEF vars
<1>10. QED
  BY <1>2, <1>3, <1>4, <1>5, <1>6, <1>7, <1>8, <1>9 DEF Next, Pool

\* Where a dispatch goes.
LEMMA DispatchSteps ==
    ASSUME RestTypes, CallInv, conn \in ConnType, changes \in ChangesType,
           NEW r \in Reqs, Dispatch(r)
    PROVE  /\ call'[r] = "threw" /\ call[r] # "threw" => conn'.state = Closed
           /\ call'[r] = "count" /\ call[r] # "count" =>
                 conn'.state = Closed \/ sent' = Append(sent, r)
           /\ call'[r] = "done" /\ r \in Twoway => call[r] \in {"count", "threw"}
<1>1. CASE ResponseLocks(r)
  BY <1>1 DEF ResponseLocks, Goto, RestTypes
<1>2. CASE ResponseWrites(r)
  BY <1>2 DEF ResponseWrites, Goto, RestTypes
<1>3. CASE ResponseFails(r)
  <2>1. conn'.state = Closed
    BY <1>3, ActionEffects, ClosingFacts
  <2>2. call'[r] = "count"
    BY <1>3 DEF ResponseFails, Goto, RestTypes
  <2>3. QED
    BY <2>1, <2>2
<1>4. CASE ResponseCounts(r)
  BY <1>4 DEF ResponseCounts, Goto, RestTypes
<1>5. CASE NoResponse(r)
  BY <1>5 DEF NoResponse, Goto, RestTypes
<1>6. CASE InvokeThrows(r)
  <2>1. conn'.state = Closed
    BY <1>6, ActionEffects, ClosingFacts
  <2>2. call'[r] = "threw"
    BY <1>6 DEF InvokeThrows, Goto, RestTypes
  <2>3. QED
    BY <2>1, <2>2
<1>7. CASE InvokeAbandons(r)
  BY <1>7 DEF InvokeAbandons, Goto, RestTypes
<1>8. QED
  BY <1>1, <1>2, <1>3, <1>4, <1>5, <1>6, <1>7 DEF Dispatch
\* How a step comes to initiateShutdown().
LEMMA ShutdownSteps ==
    ASSUME PoolInv, RestTypes, [Next]_vars, conn'.shutdown
    PROVE  \/ conn' = conn
           \/ conn.state \in {Active, Holding} /\ conn'.dispatchCount = 0
           \/ conn'.dispatchCount = 0 /\ \E r \in Reqs : Dispatch(r)
<1> USE DEF threads, network, dispatch, pool
<1>0. conn \in ConnType /\ changes \in ChangesType
  BY DEF PoolInv, PoolTypes
<1>1. Settles(conn) => conn.state \in {Active, Holding} /\ conn'.dispatchCount = 0
  BY DEF Settles
<1>2. CASE Factory
  BY <1>0, <1>1, <1>2, ActionsSettle DEF Factory, ValidateChecks, ValidateWrites
<1>3. CASE PoolChanges \/ PoolReads \/ Exception \/ MessageCloses
  BY <1>0, <1>1, <1>3, ActionsSettle DEF PoolChanges, PoolReads
<1>4. CASE MessageRequest
  <2>1. held \in Reqs /\ conn.dispatchCount + InvokeNum[held] \in Int
    BY <1>0, <1>4, ReqsAssumption DEF MessageRequest, ConnType
  <2>2. QED
    BY <1>0, <1>4, <2>1, MessageRequestFacts, CountFacts
<1>5. CASE Finished
  BY <1>0, <1>5, FinishedFacts
<1>6. CASE InitiateShutdown
  <2>1. ShutdownWrites => conn' = [conn EXCEPT !.shutdown = FALSE]
    BY DEF ShutdownWrites
  <2>2. QED
    BY <1>0, <1>1, <1>6, <2>1, ActionsSettle, UnlockFacts DEF InitiateShutdown
<1>7. ASSUME NEW r \in Reqs, Dispatch(r)
      PROVE  \/ conn' = conn
             \/ conn'.dispatchCount = 0
  <2>1. CASE ResponseLocks(r) \/ ResponseWrites(r)
    BY <2>1 DEF ResponseLocks, ResponseWrites
  <2>2. CASE ResponseFails(r) \/ InvokeThrows(r)
    BY <1>0, <1>1, <2>2, ActionsSettle
  <2>3. CASE ResponseCounts(r) \/ NoResponse(r)
    <3>1. conn' = Uncount(conn, 1)
      BY <2>3 DEF ResponseCounts, NoResponse
    <3>2. conn.dispatchCount = 1 /\ conn'.dispatchCount = conn.dispatchCount - 1
      BY <1>0, <3>1, UncountFacts
    <3>3. QED
      BY <3>2
  <2>4. CASE InvokeAbandons(r)
    <3>1. /\ conn' = [conn EXCEPT !.dispatchCount = conn.dispatchCount - left[r]]
          /\ ~conn.shutdown
      BY <2>4 DEF InvokeAbandons, Unlocked
    <3>2. conn.dispatchCount - left[r] \in Int
      BY <1>0 DEF ConnType, RestTypes
    <3>3. QED
      BY <1>0, <3>1, <3>2, CountFacts
  <2>5. QED
    BY <1>7, <2>1, <2>2, <2>3, <2>4 DEF Dispatch
<1>8. CASE Waiter
  BY <1>0, <1>1, <1>8, ActionsSettle DEF Waiter, WaitForDispatches, WaitReturns
<1>9. CASE Owner
  BY <1>0, <1>1, <1>9, ActionsSettle DEF Owner, WaitUntilHolding
<1>10. CASE Peer
  BY <1>10 DEF Peer, PeerReads, PeerGoes, PeerSends
<1>11. CASE UNCHANGED vars
  BY <1>11 DEF vars
<1>12. QED
  BY <1>2, <1>3, <1>4, <1>5, <1>6, <1>7, <1>8, <1>9, <1>10, <1>11 DEF Next, Pool

\* The accepting thread does not come back to validate().
LEMMA FactorySteps ==
    ASSUME [Next]_vars, factory \notin Early
    PROVE  factory' \notin Early
<1> USE DEF threads, network, dispatch, pool, Early
<1>1. CASE Factory
  BY <1>1 DEF Factory, ValidateChecks, ValidateWrites, ValidateFails, ValidateHolds,
              FactoryActivates
<1>2. CASE Pool
  BY <1>2 DEF Pool, PoolChanges, PoolReads, Exception, MessageCloses, MessageRequest, Finished
<1>3. ASSUME NEW r \in Reqs, Dispatch(r) PROVE factory' = factory
  BY <1>3 DEF Dispatch, ResponseLocks, ResponseWrites, ResponseFails, ResponseCounts,
              NoResponse, InvokeThrows, InvokeAbandons
<1>4. CASE InitiateShutdown \/ Waiter
  BY <1>4 DEF InitiateShutdown, ShutdownWrites, ShutdownFails, Waiter, WaitForDispatches,
              WaitTimesOut, WaitReturns
<1>5. CASE Owner
  BY <1>5 DEF Owner, Hold, WaitUntilHolding, Activate, Destroy, Close, Monitor
<1>6. CASE Peer
  BY <1>6 DEF Peer, PeerReads, PeerGoes, PeerSends
<1>7. CASE UNCHANGED vars
  BY <1>7 DEF vars
<1>8. QED
  BY <1>1, <1>2, <1>3, <1>4, <1>5, <1>6, <1>7 DEF Next

\* Every step keeps what the peer may conclude from a CloseConnection message.
LEMMA ReplyNext ==
    ASSUME PoolInv, RestTypes, CallInv, FreshInv, ThreadInv, ReplyInv, [Next]_vars
    PROVE  ReplyInv'
<1>0. /\ conn \in ConnType /\ changes \in ChangesType
      /\ conn.state \in 0..4 /\ conn'.state \in 0..4
  BY PoolNext DEF PoolInv, PoolTypes, ConnType, NotValidated, Closed
<1>1. conn.state >= Closing => conn'.state >= conn.state
  BY ClosingStep
<1>2. conn.state = Closed => conn'.state = Closed
  BY <1>0, <1>1 DEF Closing, Closed
<1>3. (\A r \in Reqs : call[r] = "threw" => conn.state = Closed)'
  <2>1. SUFFICES ASSUME NEW r \in Reqs, call'[r] = "threw" PROVE conn'.state = Closed
    OBVIOUS
  <2>2. CASE call[r] = "threw"
    BY <1>2, <2>2 DEF ReplyInv
  <2>3. CASE call[r] # "threw"
    BY <1>0, <2>1, <2>3, CallSteps, DispatchSteps
  <2>4. QED
    BY <2>2, <2>3
<1>4. (conn.state # Closed =>
          \A r \in Twoway : call[r] \in {"count", "done"} => r \in Range(sent))'
  <2>1. SUFFICES ASSUME conn'.state # Closed, NEW r \in Twoway, call'[r] \in {"count", "done"}
                 PROVE  r \in Range(sent')
    OBVIOUS
  <2>2. r \in Reqs /\ InvokeNum[r] = 1 /\ conn.state # Closed
    BY <1>2, <2>1, ReqsAssumption
  <2>3. CASE call[r] \in {"count", "done"}
    BY <2>2, <2>3, SentStays DEF ReplyInv
  <2>4. CASE call[r] \notin {"count", "done"}
    <3>1. Dispatch(r)
      BY <1>0, <2>1, <2>2, <2>4, CallSteps
    <3>2. call'[r] = "done" => call[r] = "threw"
      BY <1>0, <2>2, <2>4, <3>1, DispatchSteps
    <3>3. call'[r] = "count"
      BY <2>1, <2>2, <3>2 DEF ReplyInv
    <3>4. sent' = Append(sent, r)
      BY <1>0, <2>1, <2>2, <2>4, <3>1, <3>3, DispatchSteps
    <3>5. QED
      BY <3>4, RangeAppend
  <2>5. QED
    BY <2>3, <2>4
<1>5. (conn.shutdown => conn.dispatchCount = 0)'
  BY ShutdownSteps DEF ReplyInv
<1>6. DOMAIN sent = 1..Len(sent)
  BY DEF RestTypes
<1>7. CASE "close" \in Range(sent)
  <2>1. PICK i \in 1..Len(sent) : sent[i] = "close"
    BY <1>6, <1>7 DEF Range
  <2>2. /\ Busy = {} /\ ~conn.shutdown /\ conn.state >= Closing /\ factory \notin Early
        /\ \A r \in Twoway : call[r] = "done" => r \in Range(sent)
        /\ \A j \in 1..Len(sent) : sent[j] = "close" => j = Len(sent)
    BY <1>7, <2>1 DEF ReplyInv, CloseConnectionIsSafe
  <2>3. conn.dispatchCount = 0
    BY <2>2, CountPositive
  <2>4. call' = call
    BY <2>2, <2>3, IdleStays
  <2>5. Busy' = {}
    BY <2>2, <2>4 DEF Busy
  <2>6. sent' = sent
    <3>1. \A r \in Reqs : call[r] # "write"
      BY <2>2 DEF Busy
    <3>2. QED
      BY <2>2, <3>1, SentSteps DEF ShutdownWrites, Early
  <2>7. conn'.state >= Closing
    BY <1>0, <1>1, <2>2 DEF Closing
  <2>8. ~conn'.shutdown
    <3>1. \A r \in Reqs : ~Dispatch(r)
      BY <2>2 DEF Busy, Dispatch, ResponseLocks, ResponseWrites, ResponseFails, ResponseCounts,
                  NoResponse, InvokeThrows, InvokeAbandons
    <3>2. conn.state \notin {Active, Holding}
      BY <2>2 DEF Active, Holding, Closing
    <3>3. QED
      BY <2>2, <3>1, <3>2, ShutdownSteps
  <2>9. factory' \notin Early
    BY <2>2, FactorySteps
  <2>10. CloseConnectionIsSafe'
    BY <2>2, <2>4, <2>5, <2>6 DEF CloseConnectionIsSafe
  <2>11. QED
    BY <1>3, <1>4, <1>5, <2>7, <2>8, <2>9, <2>10 DEF ReplyInv
<1>8. CASE "close" \notin Range(sent) /\ ShutdownWrites
  <2>1. /\ conn.shutdown /\ sent' = Append(sent, "close") /\ call' = call /\ factory' = factory
        /\ conn' = [conn EXCEPT !.shutdown = FALSE] /\ conn.transceiver # "closed"
    BY <1>8 DEF ShutdownWrites, CanWrite, dispatch, threads
  <2>2. conn.state = Closing /\ conn.dispatchCount = 0
    BY <2>1 DEF PoolInv, ShutdownWhenClosing, ReplyInv
  <2>3. Busy = {}
    BY <2>2, CountPositive
  <2>4. conn'.state = Closing /\ ~conn'.shutdown
    BY <1>0, <2>1, <2>2, UnlockFacts
  <2>5. factory \notin Early
    BY <2>1, <2>2 DEF ThreadInv, NotValidated, Closing
  <2>6. /\ Range(sent) \subseteq Range(sent')
        /\ Len(sent) \in Nat /\ Len(sent') = Len(sent) + 1
        /\ \A i \in 1..Len(sent) : sent'[i] = sent[i] /\ sent[i] \in Range(sent)
    BY <2>1, RangeAppend
  <2>7. \A i \in 1..Len(sent') : sent'[i] = "close" => i = Len(sent')
    <3>1. SUFFICES ASSUME NEW i \in 1..Len(sent'), sent'[i] = "close", i # Len(sent')
                   PROVE  FALSE
      OBVIOUS
    <3>2. i \in 1..Len(sent)
      BY <2>6, <3>1
    <3>3. QED
      BY <1>8, <2>6, <3>1, <3>2
  <2>8. \A r \in Twoway : call'[r] = "done" => r \in Range(sent')
    BY <2>1, <2>2, <2>6 DEF ReplyInv, Closing, Closed
  <2>9. Busy' = {}
    BY <2>1, <2>3 DEF Busy
  <2>10. CloseConnectionIsSafe'
    BY <2>7, <2>8, <2>9 DEF CloseConnectionIsSafe
  <2>11. QED
    BY <1>3, <1>4, <1>5, <2>1, <2>4, <2>5, <2>10 DEF ReplyInv, Closing
<1>9. CASE "close" \notin Range(sent) /\ ~ShutdownWrites
  <2>1. ASSUME NEW m, m # "close", sent' = Append(sent, m) PROVE "close" \notin Range(sent')
    BY <1>9, <2>1, RangeAppend
  <2>2. "close" \notin Reqs
    BY ReqsAssumption
  <2>3. "close" \notin Range(sent')
    BY <1>9, <2>1, <2>2, SentSteps
  <2>4. DOMAIN sent' = 1..Len(sent')
    BY RestTypesNext DEF RestTypes, PoolInv, PoolTypes
  <2>5. CloseConnectionIsSafe'
    BY <2>3, <2>4 DEF CloseConnectionIsSafe, Range
  <2>6. QED
    BY <1>3, <1>4, <1>5, <2>3, <2>5 DEF ReplyInv
<1>10. QED
  BY <1>7, <1>8, <1>9
-----------------------------------------------------------------------------
(* The theorems.                                                           *)

\* A new connection has dispatched nothing and sent nothing.
LEMMA InitDispatch == Init => IInv
<1> SUFFICES ASSUME Init PROVE IInv
  OBVIOUS
<1>1. PoolInv /\ RestTypes
  BY InitPool
<1>2. Busy = {} /\ conn.dispatchCount = 0 /\ sent = <<>> /\ inb = <<>> /\ held = None
  BY DEF Init, Busy
<1>3. CallInv
  <2>1. SumFunctionOnSet(left, {}) = 0
    BY FS_EmptySet, SumBody
  <2>2. DispatchCountMatches
    BY <1>2, <2>1 DEF DispatchCountMatches
  <2>3. QED
    BY <1>2, <2>2 DEF CallInv, Init, Counting
<1>4. FreshInv
  <2>1. None \notin Reqs
    BY ReqsAssumption
  <2>2. QED
    BY <1>2, <2>1 DEF FreshInv
<1>5. ThreadInv
  BY DEF ThreadInv, Init, Early
<1>6. ReplyInv
  <2>1. Range(sent) = {} /\ Len(sent) = 0
    BY <1>2 DEF Range
  <2>2. ~conn.shutdown /\ \A r \in Reqs : call[r] = "idle"
    BY DEF Init
  <2>3. Twoway \subseteq Reqs
    BY ReqsAssumption
  <2>4. CloseConnectionIsSafe
    BY <2>1 DEF CloseConnectionIsSafe
  <2>5. QED
    BY <2>1, <2>2, <2>3, <2>4 DEF ReplyInv
<1>7. QED
  BY <1>1, <1>3, <1>4, <1>5, <1>6 DEF IInv

\* The invariant that carries the theorems below.
THEOREM DispatchInvariant == Spec => []IInv
<1>1. IInv /\ [Next]_vars => IInv'
  <2>1. SUFFICES ASSUME IInv, [Next]_vars PROVE IInv'
    OBVIOUS
  <2>2. PoolInv /\ RestTypes /\ CallInv /\ FreshInv /\ ThreadInv /\ ReplyInv
    BY <2>1 DEF IInv
  <2>3. held \in Reqs \cup {None, "close", "lost"}
    BY <2>2 DEF PoolInv, PoolTypes
  <2>4. PoolInv' /\ RestTypes'
    BY <2>1, <2>2, <2>3, PoolNext, RestTypesNext
  <2>5. CallInv' /\ FreshInv' /\ ThreadInv' /\ ReplyInv'
    BY <2>1, <2>2, <2>4, CallNext, FreshNext, ThreadNext, ReplyNext
  <2>6. QED
    BY <2>4, <2>5 DEF IInv
<1>2. QED
  BY <1>1, InitDispatch, PTL DEF Spec

\* Every variable holds a value of its kind: the counts never go below zero.
THEOREM TypeCorrect == Spec => []TypeOK
<1>1. IInv => TypeOK
  <2> SUFFICES ASSUME IInv PROVE TypeOK
    OBVIOUS
  <2>1. PoolInv /\ PoolTypes /\ RestTypes /\ CallInv
    BY DEF IInv, PoolInv
  <2>2. conn.dispatchCount \in Nat
    BY <2>1, CountPositive
  <2>3. conn.finishedCount \in Nat
    <3>1. Cardinality(Rem(changes)) \in Nat /\ finishing \in Nat
      BY <2>1, RemFinite DEF PoolTypes
    <3>2. QED
      BY <2>1, <3>1, RemovalsIsRem DEF PoolInv, FinishedCountMatches
  <2>4. conn \in [state : NotValidated..Closed, exception : {None, "closing", "failed"},
                  registered : BOOLEAN, finishedCount : Nat, dispatchCount : Nat,
                  transceiver : {"open", "shut", "closed"}, shutdown : BOOLEAN]
    BY <2>1, <2>2, <2>3 DEF PoolTypes, ConnType
  <2>5. left \in [Reqs -> Nat]
    BY <2>1 DEF RestTypes, CallInv
  <2>6. QED
    BY <2>1, <2>4, <2>5 DEF TypeOK, PoolTypes, RestTypes, ChangesType
<1>2. QED
  BY <1>1, DispatchInvariant, PTL

\* _dispatchCount counts the invocations that are not over.
THEOREM DispatchCountCorrect == Spec => []DispatchCountMatches
<1>1. IInv => DispatchCountMatches
  BY DEF IInv, CallInv
<1>2. QED
  BY <1>1, DispatchInvariant, PTL

\* After CloseConnection the peer may send again what it got no reply for.
THEOREM CloseConnectionCorrect == Spec => []CloseConnectionIsSafe
<1>1. IInv => CloseConnectionIsSafe
  BY DEF IInv, ReplyInv
<1>2. QED
  BY <1>1, DispatchInvariant, PTL

\* When waitUntilFinished() returns nobody uses the connection any more.
THEOREM FinishedCorrect == Spec => []FinishedIsFinal
<1>1. IInv => FinishedIsFinal
  <2> SUFFICES ASSUME IInv, waiter = "returned"
               PROVE  /\ conn.state = Closed /\ conn.transceiver = "closed"
                      /\ conn.dispatchCount = 0 /\ Busy = {}
    BY DEF FinishedIsFinal
  <2>1. conn.transceiver = "closed" /\ conn.dispatchCount = 0
    BY DEF IInv, ThreadInv
  <2>2. conn.state = Closed
    BY <2>1 DEF IInv, PoolInv, TransceiverOutlivesPool
  <2>3. Busy = {}
    BY <2>1, CountPositive DEF IInv
  <2>4. QED
    BY <2>1, <2>2, <2>3
<1>2. QED
  BY <1>1, DispatchInvariant, PTL
=============================================================================
