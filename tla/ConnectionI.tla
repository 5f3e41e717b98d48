----------------------------- MODULE ConnectionI -----------------------------
(***************************************************************************)
(* One incoming Ice::ConnectionI (src/Ice-3.1.1/src/Ice/ConnectionI.cpp)   *)
(* with a thread pool: validation and activation by the thread that        *)
(* accepted it, hold and destroy by its factory, requests dispatched by    *)
(* pool threads that reply under _sendMutex, and the two-stage shutdown    *)
(* of Closing (the CloseConnection message) and Closed (finished() closes  *)
(* the transceiver).  The peer and the socket are around it.               *)
(*                                                                         *)
(* A step is one section under the connection's mutex, or one use of the   *)
(* transceiver under _sendMutex.  The mutex is taken before _sendMutex and *)
(* never after it, so a section that needs both is one step, enabled when  *)
(* _sendMutex is free; only initiateShutdown(), whose write() may block    *)
(* while it holds both, is a step of its own.                              *)
(***************************************************************************)
EXTENDS Integers, Sequences, FiniteSets, FiniteSetsExt

CONSTANTS
    Reqs,        \* requests the peer may send
    Twoway,      \* those of Reqs that expect a reply
    InvokeNum,   \* invocations in each request: 1, or the size of a batch
    OutCap,      \* messages the socket holds for the peer before write() blocks
    MaxHolds,    \* bound: how often the factory calls hold()
    None

ASSUME ReqsAssumption ==
    /\ IsFiniteSet(Reqs) /\ Twoway \subseteq Reqs
    /\ Reqs \cap {"validate", "close", "lost"} = {}
    /\ None \notin Reqs \cup {"close", "lost", "closing", "failed"}
    /\ InvokeNum \in [Reqs -> Nat]
    /\ \A r \in Twoway : InvokeNum[r] = 1

ASSUME BoundsAssumption == OutCap \in Nat \ {0} /\ MaxHolds \in Nat

VARIABLES
    conn,      \* the members of the connection guarded by its mutex
    changes,   \* _register and unregister calls the pool has not applied yet
    inPool,    \* the pool selects on the connection
    held,      \* message the leader has read and not yet passed to message()
    finishing, \* finished() calls the pool has made that are not in the lock yet
    sender,    \* who holds _sendMutex to write
    factory,   \* the accepting thread: in validate(), activate(), or done
    call,      \* where the thread that dispatches each request is
    left,      \* invocations of each request still to be made
    waiter,    \* the thread in waitUntilFinished()
    holder,    \* the thread in hold() and waitUntilHolding()
    holds,     \* how often hold() was called
    timed,     \* the endpoint has a timeout
    peer,      \* the peer: "connecting", "open" (validated), "gone"
    inb,       \* messages from the peer the server has not read
    sent,      \* history: messages the server has put on the socket
    got        \* how many of them the peer has read

pool == <<changes, inPool, held, finishing>>
dispatch == <<call, left>>
threads == <<factory, waiter, holder, holds>>
network == <<peer, inb, sent, got>>
vars == <<conn, pool, sender, dispatch, threads, timed, network>>

NotValidated == 0
Active       == 1
Holding      == 2
Closing      == 3
Closed       == 4

Init ==
    /\ conn = [state |-> NotValidated, exception |-> None, registered |-> FALSE,
               finishedCount |-> 0, dispatchCount |-> 0, transceiver |-> "open",
               shutdown |-> FALSE]
    /\ changes = <<>> /\ inPool = FALSE /\ held = None /\ finishing = 0
    /\ sender = None
    /\ factory = "check"
    /\ call = [r \in Reqs |-> "idle"]
    /\ left = [r \in Reqs |-> 0]
    /\ waiter = "none" /\ holder = "none" /\ holds = 0
    /\ timed \in BOOLEAN
    /\ peer = "connecting" /\ inb = <<>> /\ sent = <<>> /\ got = 0
-----------------------------------------------------------------------------
(* setState().  A connection and the calls it makes on the pool are passed *)
(* around as a pair, so that calls can be nested as in the code.           *)

RegisterWithPool(p) ==
    IF p.c.registered THEN p
    ELSE [c |-> [p.c EXCEPT !.registered = TRUE], ops |-> Append(p.ops, "add")]

\* Mutant: the unregistration is not counted.
UnregisterUncounted(p) ==
    IF ~p.c.registered THEN p
    ELSE [c |-> [p.c EXCEPT !.registered = FALSE], ops |-> Append(p.ops, "remove")]

UnregisterWithPool(p) ==
    IF ~p.c.registered THEN p
    ELSE [c |-> [p.c EXCEPT !.registered = FALSE, !.finishedCount = @ + 1],
          ops |-> Append(p.ops, "remove")]

With(p, s) == [p EXCEPT !.c.state = s]

\* Closed: not validated, the transceiver is closed at once; otherwise it is
\* shut down for writing, and closed by the finished() of this unregister.
SwitchToClosed(p) ==
    IF p.c.state = NotValidated
    THEN With([p EXCEPT !.c.transceiver = "closed"], Closed)
    ELSE With([UnregisterWithPool(RegisterWithPool(p))
                  EXCEPT !.c.transceiver = "shut"], Closed)

\* Mutant: a connection that was holding is not registered again.
SwitchToClosingMutant(p) ==
    IF p.c.state = Closed THEN p
    ELSE With([p EXCEPT !.c.shutdown = (p.c.dispatchCount = 0)], Closing)

\* Closing: reading goes on; without dispatches initiateShutdown() follows.
SwitchToClosing(p) ==
    IF p.c.state = Closed THEN p
    ELSE With([RegisterWithPool(p)
                  EXCEPT !.c.shutdown = (p.c.dispatchCount = 0)], Closing)

\* Mutant: hold() and activate() also leave Closing.
SetStateMutant(p, state) ==
    CASE state = p.c.state -> p
      [] state = Active    -> With(RegisterWithPool(p), Active)
      [] state = Holding   -> With(UnregisterWithPool(p), Holding)
      [] state = Closing   -> SwitchToClosing(p)
      [] state = Closed    -> SwitchToClosed(p)

SetState(p, state) ==
    LET s == IF p.c.state = NotValidated /\ state = Closing THEN Closed ELSE state
    IN  CASE s = p.c.state -> p
          [] s = Active /\ p.c.state # s ->
                IF p.c.state \in {Holding, NotValidated}
                THEN With(RegisterWithPool(p), Active) ELSE p
          [] s = Holding /\ p.c.state # s ->
                IF p.c.state \in {Active, NotValidated}
                THEN With(UnregisterWithPool(p), Holding) ELSE p
          [] s = Closing /\ p.c.state # s -> SwitchToClosing(p)
          [] s = Closed /\ p.c.state # s  -> SwitchToClosed(p)

\* Mutant: the last exception wins.
SetStateExMutant(p, state, ex) ==
    IF p.c.state = state THEN p
    ELSE SetState([p EXCEPT !.c.exception = ex], state)

\* setState with an exception: the first one is kept.
SetStateEx(p, state, ex) ==
    IF p.c.state = state THEN p
    ELSE SetState([p EXCEPT !.c.exception = IF @ = None THEN ex ELSE @], state)

Self == [c |-> conn, ops |-> <<>>]

\* The result of a section: the members, and the calls on the pool.
Becomes(p) ==
    /\ conn' = p.c
    /\ changes' = changes \o p.ops

\* The mutex is free unless a thread sends CloseConnection while holding it.
Unlocked == ~conn.shutdown

\* setState(Closed) of a connection that is not validated takes _sendMutex.
MayClose == conn.state = NotValidated => sender = None

-----------------------------------------------------------------------------
(* The transceiver                                                         *)

CanWrite == conn.transceiver = "open" /\ peer # "gone" /\ Len(sent) - got < OutCap

\* A write fails once the transceiver is shut down, when the peer is gone, or
\* when the peer reads too slowly for the endpoint's timeout: a message may be
\* larger than what the socket takes.
WriteThrows == conn.transceiver = "shut" \/ peer = "gone" \/ timed
-----------------------------------------------------------------------------
(* validate() and activate(), called by IncomingConnectionFactory::message *)

ValidateChecks ==
    /\ factory = "check" /\ Unlocked
    /\ factory' = IF conn.state = Closed THEN "done" ELSE "write"
    /\ UNCHANGED <<conn, pool, sender, dispatch, waiter, holder, holds, timed, network>>

\* The validate message, under _sendMutex.
ValidateWrites ==
    /\ factory = "write" /\ sender = None
    /\ \/ CanWrite /\ sent' = Append(sent, "validate") /\ factory' = "validated"
       \/ (conn.transceiver = "closed" \/ WriteThrows)
          /\ factory' = "failed" /\ UNCHANGED sent
    /\ UNCHANGED <<conn, pool, sender, dispatch, waiter, holder, holds, timed,
                   peer, inb, got>>

ValidateFails ==
    /\ factory = "failed" /\ Unlocked /\ MayClose
    /\ Becomes(SetStateEx(Self, Closed, "failed"))
    /\ factory' = "done"
    /\ UNCHANGED <<inPool, held, finishing, sender, dispatch, waiter, holder, holds,
                   timed, network>>

\* "We start out in holding state."
ValidateHolds ==
    /\ factory = "validated" /\ Unlocked
    /\ Becomes(SetState(Self, Holding))
    /\ factory' = "activate"
    /\ UNCHANGED <<inPool, held, finishing, sender, dispatch, waiter, holder, holds,
                   timed, network>>

FactoryActivates ==
    /\ factory = "activate" /\ Unlocked
    /\ Becomes(SetState(Self, Active))
    /\ factory' = "done"
    /\ UNCHANGED <<inPool, held, finishing, sender, dispatch, waiter, holder, holds,
                   timed, network>>
-----------------------------------------------------------------------------
(* hold(), activate(), destroy(), close(true), monitor()                   *)

Hold ==
    /\ holder = "none" /\ holds < MaxHolds /\ waiter = "none"
    /\ conn.state # NotValidated /\ Unlocked
    /\ Becomes(SetState(Self, Holding))
    /\ holder' = "waiting" /\ holds' = holds + 1
    /\ UNCHANGED <<inPool, held, finishing, sender, dispatch, factory, waiter, timed, network>>

WaitUntilHolding ==
    /\ holder = "waiting" /\ Unlocked
    /\ conn.state >= Holding /\ conn.dispatchCount = 0
    /\ holder' = "returned"
    /\ UNCHANGED <<conn, pool, sender, dispatch, factory, waiter, holds, timed, network>>

Activate ==
    /\ holder = "returned" /\ waiter = "none" /\ Unlocked
    /\ Becomes(SetState(Self, Active))
    /\ holder' = "none"
    /\ UNCHANGED <<inPool, held, finishing, sender, dispatch, factory, waiter, holds,
                   timed, network>>

\* The factory destroys the connection and waits for it.
Destroy ==
    /\ waiter = "none" /\ Unlocked /\ MayClose
    /\ Becomes(SetStateEx(Self, Closing, "closing"))
    /\ waiter' = "waiting"
    /\ UNCHANGED <<inPool, held, finishing, sender, dispatch, factory, holder, holds,
                   timed, network>>

\* close(force), which a servant may call; without force it waits for requests
\* the server itself has sent, of which there are none.
Close ==
    /\ \E r \in Reqs : call[r] = "invoke"
    /\ Unlocked
    /\ \/ Becomes(SetStateEx(Self, Closed, "failed"))
       \/ Becomes(SetStateEx(Self, Closing, "closing"))
    /\ UNCHANGED <<inPool, held, finishing, sender, dispatch, threads, timed, network>>

\* The connection monitor closes an idle connection.
Monitor ==
    /\ conn.state = Active /\ conn.dispatchCount = 0 /\ Unlocked
    /\ Becomes(SetStateEx(Self, Closing, "closing"))
    /\ UNCHANGED <<inPool, held, finishing, sender, dispatch, threads, timed, network>>
-----------------------------------------------------------------------------
(* waitUntilFinished()                                                     *)

WaitForDispatches ==
    /\ waiter = "waiting" /\ Unlocked
    /\ conn.state >= Closing /\ conn.dispatchCount = 0
    /\ waiter' = "draining"
    /\ UNCHANGED <<conn, pool, sender, dispatch, factory, holder, holds, timed, network>>

\* The endpoint's timeout has passed since the connection began to close.
WaitTimesOut ==
    /\ waiter = "draining" /\ Unlocked
    /\ timed /\ conn.state # Closed
    /\ Becomes(SetStateEx(Self, Closed, "failed"))
    /\ UNCHANGED <<inPool, held, finishing, sender, dispatch, threads, timed, network>>

WaitReturns ==
    /\ waiter = "draining" /\ Unlocked
    /\ conn.transceiver = "closed"
    /\ waiter' = "returned"
    /\ UNCHANGED <<conn, pool, sender, dispatch, factory, holder, holds, timed, network>>
-----------------------------------------------------------------------------
(* The pool: changes are applied in order, and before any message is read; *)
(* the leader that holds a message applies none.                           *)

PoolChanges ==
    /\ held = None /\ changes # <<>>
    /\ changes' = Tail(changes)
    /\ inPool' = (Head(changes) = "add")
    /\ finishing' = IF Head(changes) = "remove" THEN finishing + 1 ELSE finishing
    /\ UNCHANGED <<conn, held, sender, dispatch, threads, timed, network>>

\* read(): a lost connection is read again and again.
PoolReads ==
    /\ held = None /\ changes = <<>> /\ inPool /\ inb # <<>>
    /\ held' = Head(inb)
    /\ inb' = IF Head(inb) = "lost" THEN inb ELSE Tail(inb)
    /\ UNCHANGED <<conn, changes, inPool, finishing, sender, dispatch, threads, timed,
                   peer, sent, got>>

\* exception(): the pool could not read.
Exception ==
    /\ held = "lost" /\ Unlocked
    /\ Becomes(SetStateEx(Self, Closed, "failed"))
    /\ held' = None
    /\ UNCHANGED <<inPool, finishing, sender, dispatch, threads, timed, network>>

\* message() of a CloseConnection message, or of one that parseMessage() refuses.
MessageCloses ==
    /\ held = "close" /\ Unlocked
    /\ Becomes(IF conn.state = Closed THEN Self ELSE SetStateEx(Self, Closed, "failed"))
    /\ held' = None
    /\ UNCHANGED <<inPool, finishing, sender, dispatch, threads, timed, network>>

\* Mutant: a request that comes in Closing is dispatched too.
ParseRequestMutant(r) ==
    /\ conn' = [conn EXCEPT !.dispatchCount = @ + InvokeNum[r]]
    /\ left' = [left EXCEPT ![r] = InvokeNum[r]]
    /\ call' = [call EXCEPT ![r] = IF InvokeNum[r] = 0 THEN "done" ELSE "invoke"]

\* A request or a batch of requests: ignored in Closing ("client will retry"),
\* else its invocations are counted.
ParseRequest(r) ==
    IF conn.state = Closing
    THEN UNCHANGED <<conn, dispatch>>
    ELSE /\ conn' = [conn EXCEPT !.dispatchCount = @ + InvokeNum[r]]
         /\ left' = [left EXCEPT ![r] = InvokeNum[r]]
         /\ call' = [call EXCEPT ![r] = IF InvokeNum[r] = 0 THEN "done" ELSE "invoke"]

\* message() of a request: dropped if the connection was closed meanwhile.
MessageRequest ==
    /\ held \in Reqs /\ Unlocked
    /\ held' = None
    /\ IF conn.state = Closed THEN UNCHANGED <<conn, dispatch>> ELSE ParseRequest(held)
    /\ UNCHANGED <<changes, inPool, finishing, sender, threads, timed, network>>

\* Mutant: the first finished() after the close closes the transceiver.
FinishedMutant ==
    /\ finishing > 0 /\ Unlocked /\ sender = None
    /\ finishing' = finishing - 1
    /\ conn' = [conn EXCEPT !.finishedCount = @ - 1,
                            !.transceiver = IF conn.state = Closed THEN "closed" ELSE @]
    /\ UNCHANGED <<changes, inPool, held, sender, dispatch, threads, timed, network>>

\* finished(): the last one of a closed connection closes the transceiver.
Finished ==
    /\ finishing > 0 /\ Unlocked
    /\ finishing' = finishing - 1
    /\ LET last == conn.finishedCount = 1 /\ conn.state = Closed
       IN  /\ last => sender = None
           /\ conn' = [conn EXCEPT !.finishedCount = @ - 1,
                                   !.transceiver = IF last THEN "closed" ELSE @]
    /\ UNCHANGED <<changes, inPool, held, sender, dispatch, threads, timed, network>>
-----------------------------------------------------------------------------
(* invokeAll(), sendResponse(), sendNoResponse()                           *)

\* A dispatch is no longer counted; the last one of a closing connection
\* goes on to initiateShutdown().
Uncount(c, n) ==
    [c EXCEPT !.dispatchCount = @ - n,
              !.shutdown = c.state = Closing /\ c.dispatchCount = n]

Goto(r, l) == call' = [call EXCEPT ![r] = l]

\* sendResponse() takes _sendMutex, and finds the transceiver closed or not.
ResponseLocks(r) ==
    /\ r \in Twoway /\ call[r] = "invoke" /\ sender = None /\ Unlocked
    /\ IF conn.transceiver = "closed"
       THEN Goto(r, "failed") /\ UNCHANGED sender
       ELSE Goto(r, "write") /\ sender' = r
    /\ UNCHANGED <<conn, pool, left, threads, timed, network>>

ResponseWrites(r) ==
    /\ call[r] = "write"
    /\ \/ CanWrite /\ sent' = Append(sent, r) /\ Goto(r, "count")
       \/ WriteThrows /\ Goto(r, "failed") /\ UNCHANGED sent
    /\ sender' = None
    /\ UNCHANGED <<conn, pool, left, threads, timed, peer, inb, got>>

\* Mutant: a reply that could not be sent does not close the connection.
ResponseFailsMutant(r) ==
    /\ call[r] = "failed" /\ Unlocked
    /\ Goto(r, "count")
    /\ UNCHANGED <<conn, changes, inPool, held, finishing, sender, left, threads, timed, network>>

ResponseFails(r) ==
    /\ call[r] = "failed" /\ Unlocked
    /\ Becomes(SetStateEx(Self, Closed, "failed"))
    /\ Goto(r, "count")
    /\ UNCHANGED <<inPool, held, finishing, sender, left, threads, timed, network>>

ResponseCounts(r) ==
    /\ call[r] = "count" /\ Unlocked
    /\ conn' = Uncount(conn, 1)
    /\ left' = [left EXCEPT ![r] = @ - 1]
    /\ Goto(r, "done")
    /\ UNCHANGED <<pool, sender, threads, timed, network>>

\* sendNoResponse() after each invocation of a oneway request or a batch.
NoResponse(r) ==
    /\ r \notin Twoway /\ call[r] = "invoke" /\ Unlocked
    /\ conn' = Uncount(conn, 1)
    /\ left' = [left EXCEPT ![r] = @ - 1]
    /\ Goto(r, IF left[r] = 1 THEN "done" ELSE "invoke")
    /\ UNCHANGED <<pool, sender, threads, timed, network>>

\* invoke() throws before it has answered ...
InvokeThrows(r) ==
    /\ call[r] = "invoke" /\ Unlocked
    /\ Becomes(SetStateEx(Self, Closed, "failed"))
    /\ Goto(r, "threw")
    /\ UNCHANGED <<inPool, held, finishing, sender, left, threads, timed, network>>

\* Mutant: only the invocation that threw is uncounted.
InvokeAbandonsMutant(r) ==
    /\ call[r] = "threw" /\ Unlocked
    /\ conn' = [conn EXCEPT !.dispatchCount = @ - 1]
    /\ left' = [left EXCEPT ![r] = 0]
    /\ Goto(r, "done")
    /\ UNCHANGED <<pool, sender, threads, timed, network>>

\* ... and the remaining invocations are uncounted.
InvokeAbandons(r) ==
    /\ call[r] = "threw" /\ Unlocked
    /\ conn' = [conn EXCEPT !.dispatchCount = @ - left[r]]
    /\ left' = [left EXCEPT ![r] = 0]
    /\ Goto(r, "done")
    /\ UNCHANGED <<pool, sender, threads, timed, network>>

\* initiateShutdown() has the mutex: it waits for _sendMutex and writes.
ShutdownWrites ==
    /\ conn.shutdown /\ sender = None /\ CanWrite
    /\ sent' = Append(sent, "close")
    /\ conn' = [conn EXCEPT !.shutdown = FALSE]
    /\ UNCHANGED <<pool, sender, dispatch, threads, timed, peer, inb, got>>

ShutdownFails ==
    /\ conn.shutdown /\ sender = None /\ WriteThrows
    /\ Becomes(SetStateEx([Self EXCEPT !.c.shutdown = FALSE], Closed, "failed"))
    /\ UNCHANGED <<inPool, held, finishing, sender, dispatch, threads, timed, network>>
-----------------------------------------------------------------------------
(* The peer                                                                *)

PeerSends(m) ==
    /\ peer = "open"
    /\ m \in Reqs => call[m] = "idle" /\ m # held /\ m \notin Range(inb)
    /\ "close" \notin Range(inb) /\ held # "close"
    /\ inb' = Append(inb, m)
    /\ UNCHANGED <<conn, pool, sender, dispatch, threads, timed, peer, sent, got>>

\* A peer that reads CloseConnection closes its end.
PeerReads ==
    /\ peer # "gone" /\ got < Len(sent)
    /\ got' = got + 1
    /\ CASE sent[got'] = "validate" -> peer' = "open" /\ UNCHANGED inb
         [] sent[got'] = "close" -> peer' = "gone" /\ inb' = Append(inb, "lost")
         [] OTHER -> UNCHANGED <<peer, inb>>
    /\ UNCHANGED <<conn, pool, sender, dispatch, threads, timed, sent>>

PeerGoes ==
    /\ peer # "gone"
    /\ peer' = "gone" /\ inb' = Append(inb, "lost")
    /\ UNCHANGED <<conn, pool, sender, dispatch, threads, timed, sent, got>>
-----------------------------------------------------------------------------
Factory ==
    ValidateChecks \/ ValidateWrites \/ ValidateFails \/ ValidateHolds \/ FactoryActivates

Pool == PoolChanges \/ PoolReads \/ Exception \/ MessageCloses \/ MessageRequest \/ Finished

Dispatch(r) ==
    \/ ResponseLocks(r) \/ ResponseWrites(r) \/ ResponseFails(r) \/ ResponseCounts(r)
    \/ NoResponse(r) \/ InvokeThrows(r) \/ InvokeAbandons(r)

InitiateShutdown == ShutdownWrites \/ ShutdownFails

Waiter == WaitForDispatches \/ WaitTimesOut \/ WaitReturns

Owner == Hold \/ WaitUntilHolding \/ Activate \/ Destroy \/ Close \/ Monitor

Peer == PeerReads \/ PeerGoes \/ \E m \in Reqs \cup {"close"} : PeerSends(m)

Next == Factory \/ Pool \/ (\E r \in Reqs : Dispatch(r)) \/ InitiateShutdown \/ Waiter
        \/ Owner \/ Peer

\* Threads are scheduled and servants return; the pool serves a registered
\* connection (ThreadPool: NoStarvation, EventuallyFinished).  A peer owes
\* nothing to an endpoint with a timeout; without one it has to read.
Fairness ==
    /\ WF_vars(Factory) /\ WF_vars(Pool) /\ WF_vars(Finished)
    /\ \A r \in Reqs : WF_vars(Dispatch(r))
    /\ WF_vars(InitiateShutdown) /\ WF_vars(Waiter)
    /\ WF_vars(~timed /\ PeerReads)

Spec == Init /\ [][Next]_vars /\ Fairness
-----------------------------------------------------------------------------
(* Properties                                                              *)

\* Every variable holds a value of its kind.
TypeOK ==
    /\ conn \in [state : NotValidated..Closed, exception : {None, "closing", "failed"},
                 registered : BOOLEAN, finishedCount : Nat, dispatchCount : Nat,
                 transceiver : {"open", "shut", "closed"}, shutdown : BOOLEAN]
    /\ changes \in Seq({"add", "remove"}) /\ inPool \in BOOLEAN /\ finishing \in Nat
    /\ held \in Reqs \cup {None, "close", "lost"}
    /\ sender \in Reqs \cup {None}
    /\ factory \in {"check", "write", "validated", "failed", "activate", "done"}
    /\ call \in [Reqs -> {"idle", "invoke", "write", "failed", "count", "threw", "done"}]
    /\ left \in [Reqs -> Nat]
    /\ waiter \in {"none", "waiting", "draining", "returned"}
    /\ holder \in {"none", "waiting", "returned"} /\ holds \in 0..MaxHolds
    /\ timed \in BOOLEAN /\ peer \in {"connecting", "open", "gone"}
    /\ inb \in Seq(Reqs \cup {"close", "lost"})
    /\ sent \in Seq(Reqs \cup {"validate", "close"}) /\ got \in 0..Len(sent)

Removals == Cardinality({i \in 1..Len(changes) : changes[i] = "remove"})
Busy == {r \in Reqs : call[r] \notin {"idle", "done"}}

\* "For each unregistration, finished() is called once": _finishedCount is the
\* number of removals queued or on their way, however hold(), activate() and
\* the closing of the connection followed each other.
FinishedCountMatches == conn.finishedCount = Removals + finishing

\* The pool never touches a closed transceiver: it is closed only when nothing
\* of the connection is left in the pool, registered, queued, read or in
\* finished().
TransceiverOutlivesPool ==
    conn.transceiver = "closed" =>
        /\ conn.state = Closed /\ ~conn.registered
        /\ changes = <<>> /\ ~inPool /\ held = None /\ finishing = 0

\* _dispatchCount is the number of invocations accepted and not yet answered
\* or given up, batches that fail in the middle included.
DispatchCountMatches ==
    conn.dispatchCount = SumFunctionOnSet(left, Busy)

\* Why a client may retry what it got no reply for after CloseConnection: all
\* dispatches are over, every two-way request that was executed was answered
\* before the message, and the message is sent once and is the last one.
CloseConnectionIsSafe ==
    \A i \in 1..Len(sent) : sent[i] = "close" =>
        /\ i = Len(sent)
        /\ Busy = {}
        /\ \A r \in Twoway : call[r] = "done" => r \in Range(sent)

\* An exception is set exactly in Closing and Closed: the asserts of validate,
\* sendResponse, sendRequest, throwException and finished().
ExceptionWhenClosing == conn.state >= Closing <=> conn.exception # None

\* Closing and Closed are left by no hold(), activate() or validate() that
\* comes late, and "the exception is immutable at this point".
ClosingIsFinal ==
    [][conn.state >= Closing =>
          conn'.state >= conn.state /\ conn'.exception = conn.exception]_vars

\* When waitUntilFinished() returns no servant is being called and nobody uses
\* the connection any more: the asserts of the destructor, and what the
\* deactivation of the servant locators relies on.
FinishedIsFinal ==
    waiter = "returned" =>
        /\ conn.state = Closed /\ conn.transceiver = "closed"
        /\ conn.dispatchCount = 0 /\ Busy = {}

\* A destroyed connection is finished, whatever its peer does if the endpoint
\* has a timeout, and with a peer that reads if it has none.
DestroyedIsFinished == waiter = "waiting" ~> waiter = "returned"

\* "[waitForHold] only returns when holding of requests has been completed":
\* afterwards no request is dispatched until the next activate().
HoldIsComplete ==
    [][conn.state = Holding /\ holder = "returned" =>
          conn'.dispatchCount <= conn.dispatchCount]_vars
-----------------------------------------------------------------------------
(* What the connection promises                                            *)

Life == INSTANCE ConnectionLife WITH
    Conns <- {"connection"},
    life <- [c \in {"connection"} |->
                [state |-> conn.state, pending |-> Busy,
                 finished |-> conn.transceiver = "closed"]]

\* The connection is what its factory and its adapter take it for: it is held,
\* activated and destroyed from the states they know, takes no request once it
\* is closing, is finished once and for all, and its dispatches and its close
\* come to an end.
ImplementsLife == Life!Spec
=============================================================================
