---------------------------- MODULE ObjectAdapter ----------------------------
(***************************************************************************)
(* How an Ice server stops, holds and starts again: the communicator       *)
(* (Instance::destroy, ObjectAdapterFactory), its object adapter           *)
(* (ObjectAdapterI), the adapter's incoming connection factory             *)
(* (IncomingConnectionFactory, ConnectionFactory.cpp) and the connections  *)
(* the factory accepts, as ConnectionLife describes them.                  *)
(*                                                                         *)
(* Application threads call the public operations, pool threads accept     *)
(* connections and dispatch requests.  A step is one section under a       *)
(* mutex.  Two mutexes are held across steps: the adapter's by hold(),     *)
(* activate() and waitForHold(), and the factory's by setState() while it  *)
(* goes through the connections.                                           *)
(***************************************************************************)
EXTENDS Integers, Sequences, FiniteSets, Functions

CONSTANTS
    Threads,       \* application threads
    Conns,         \* connections clients may open
    Reqs,          \* requests on each connection
    UsesAdapter,   \* those of Reqs whose servant calls an operation of the adapter
    May,           \* the operations each thread may call
    MaxCalls,      \* bound: how many operations the application calls
    None

Operations == {"activate", "hold", "waitForHold", "deactivate", "waitForDeactivate",
               "shutdown", "waitForShutdown", "destroy", "direct"}

ASSUME AdapterAssumption ==
    /\ UsesAdapter \subseteq Reqs /\ None \notin Threads /\ IsFiniteSet(Threads)
    /\ May \in [Threads -> SUBSET Operations] /\ MaxCalls \in Nat

VARIABLES
    instance,  \* Instance: _state, and its server pool: "up" or "destroyed"
    oaf,       \* ObjectAdapterFactory: the adapter is the only one it may have
    adapter,   \* ObjectAdapterI
    alock,     \* the thread that holds the adapter's mutex across steps
    factory,   \* IncomingConnectionFactory
    flock,     \* the thread that holds the factory's mutex across steps
    changes,   \* registrations of the acceptor the pool has not applied yet
    inPool,    \* the pool selects on the acceptor
    picked,    \* the pool's leader is about to call the factory's message()
    finishing, \* calls of the factory's finished() that are not in the lock yet
    accepting, \* the pool thread that accepted each connection
    life,      \* the connections
    th,        \* the application threads
    calls      \* how many operations were called

pool == <<changes, inPool, picked, finishing>>
locks == <<alock, flock>>
vars == <<instance, oaf, adapter, factory, locks, pool, accepting, life, th, calls>>

Life == INSTANCE ConnectionLife

\* States of the factory.
Active  == 0
Holding == 1
Closed  == 2

Idle == [at |-> "idle", want |-> None, todo |-> <<>>, then |-> <<>>]

\* An adapter with one endpoint, with a timeout or (as "default -p 10000" of
\* the server) without, created and not yet activated.
Init ==
    /\ instance = [state |-> "active", pool |-> "up"]
    /\ oaf = [instance |-> TRUE, waitForShutdown |-> FALSE, adapters |-> TRUE]
    /\ adapter = [deactivated |-> FALSE, waitForActivate |-> FALSE, oneOffDone |-> FALSE,
                  waitForDeactivate |-> FALSE, instance |-> TRUE, directCount |-> 0,
                  servants |-> TRUE]
    /\ \E timed \in BOOLEAN :
          factory = [state |-> Holding, acceptor |-> TRUE, registered |-> FALSE,
                     finishedCount |-> 0, connections |-> <<>>, timed |-> timed]
    /\ alock = None /\ flock = None
    /\ changes = <<>> /\ inPool = FALSE /\ picked = FALSE /\ finishing = 0
    /\ accepting = [c \in Conns |-> "none"]
    /\ Life!Init
    /\ th = [t \in Threads |-> Idle]
    /\ calls = 0
-----------------------------------------------------------------------------
(* Threads: where a thread is, the state it wants the factory in, the      *)
(* connections it still has to go through, and what it does afterwards.    *)

At(t, l) == th[t].at = l

Go(t, l) == th' = [th EXCEPT ![t].at = l]

\* An exception leaves all operations the thread is in.
Throw(t) == th' = [th EXCEPT ![t] = Idle]

\* The operation returns to the one that called it.
Return(t) ==
    LET ls == th[t].then
    IN  th' = [th EXCEPT ![t] = IF ls = <<>> THEN Idle
                                ELSE [Idle EXCEPT !.at = Head(ls), !.then = Tail(ls)]]

\* The operation continues with others.
Continue(t, ls) ==
    th' = [th EXCEPT ![t] = [Idle EXCEPT !.at = Head(ls), !.then = Tail(ls) \o th[t].then]]

\* It goes on in the factory, which is to switch to a state.
Switch(t, s) == th' = [th EXCEPT ![t].at = "factory", ![t].want = s]

\* The adapter's lock is left, if the operation held it.
LeaveAdapter(t) == alock' = IF alock = t THEN None ELSE alock

Call(t, op) ==
    /\ At(t, "idle") /\ calls < MaxCalls
    /\ Go(t, op) /\ calls' = calls + 1
    /\ UNCHANGED <<instance, oaf, adapter, factory, locks, pool, accepting, life>>
-----------------------------------------------------------------------------
(* ObjectAdapterI::activate(), hold() and waitForHold()                    *)

\* checkForDeactivation()
Throws(t) ==
    /\ th[t].at \in {"activate", "hold", "waitForHold", "direct"} /\ alock = None
    /\ adapter.deactivated
    /\ Throw(t)
    /\ UNCHANGED <<instance, oaf, adapter, factory, locks, pool, accepting, life, calls>>

ActivateAgain(t) ==
    /\ At(t, "activate") /\ alock = None /\ ~adapter.deactivated /\ adapter.oneOffDone
    /\ alock' = t /\ Switch(t, Active)
    /\ UNCHANGED <<instance, oaf, adapter, factory, flock, pool, accepting, life, calls>>

ActivateFirst(t) ==
    /\ At(t, "activate") /\ alock = None /\ ~adapter.deactivated /\ ~adapter.oneOffDone
    /\ adapter' = [adapter EXCEPT !.waitForActivate = TRUE]
    /\ Go(t, "update")
    /\ UNCHANGED <<instance, oaf, factory, locks, pool, accepting, life, calls>>

\* The locator registry is updated without the lock; createDirectProxy() checks
\* for deactivation, and the call may fail.
ActivateUpdates(t) ==
    /\ At(t, "update") /\ alock = None
    /\ \/ ~adapter.deactivated /\ Go(t, "updated")
       \/ Go(t, "updateFailed")
    /\ UNCHANGED <<instance, oaf, adapter, factory, locks, pool, accepting, life, calls>>

ActivateFails(t) ==
    /\ At(t, "updateFailed") /\ alock = None
    /\ adapter' = [adapter EXCEPT !.waitForActivate = FALSE]
    /\ Throw(t)
    /\ UNCHANGED <<instance, oaf, factory, locks, pool, accepting, life, calls>>

\* A released adapter has no factories any more.
ActivateEnds(t) ==
    /\ At(t, "updated") /\ alock = None
    /\ adapter' = [adapter EXCEPT !.waitForActivate = FALSE, !.oneOffDone = TRUE]
    /\ IF adapter.instance THEN alock' = t /\ Switch(t, Active)
                           ELSE UNCHANGED alock /\ Return(t)
    /\ UNCHANGED <<instance, oaf, factory, flock, pool, accepting, life, calls>>

Hold(t) ==
    /\ At(t, "hold") /\ alock = None /\ ~adapter.deactivated
    /\ alock' = t /\ Switch(t, Holding)
    /\ UNCHANGED <<instance, oaf, adapter, factory, flock, pool, accepting, life, calls>>

WaitForHold(t) ==
    /\ At(t, "waitForHold") /\ alock = None /\ ~adapter.deactivated
    /\ alock' = t /\ Go(t, "untilHolding")
    /\ UNCHANGED <<instance, oaf, adapter, factory, flock, pool, accepting, life, calls>>
-----------------------------------------------------------------------------
(* deactivate()                                                            *)

\* Mutant: the flag is to be set after the factory is destroyed.
DeactivatedLate(t) == Switch(t, Closed) /\ UNCHANGED adapter

\* The rest of it, with the lock: the factory is destroyed after the lock is
\* left.  Without _instance the call ends in an exception.
Deactivated(t) ==
    IF adapter.instance
    THEN adapter' = [adapter EXCEPT !.deactivated = TRUE] /\ Switch(t, Closed)
    ELSE UNCHANGED adapter /\ Throw(t)

Deactivate(t) ==
    /\ At(t, "deactivate") /\ alock = None
    /\ CASE adapter.deactivated -> UNCHANGED adapter /\ Return(t)
         [] ~adapter.deactivated /\ adapter.waitForActivate ->
                UNCHANGED adapter /\ Go(t, "waitActivate")
         [] ~adapter.deactivated /\ ~adapter.waitForActivate -> Deactivated(t)
    /\ UNCHANGED <<instance, oaf, factory, locks, pool, accepting, life, calls>>

DeactivateResumes(t) ==
    /\ At(t, "waitActivate") /\ alock = None /\ ~adapter.waitForActivate
    /\ Deactivated(t)
    /\ UNCHANGED <<instance, oaf, factory, locks, pool, accepting, life, calls>>
-----------------------------------------------------------------------------
(* waitForDeactivate()                                                     *)

\* Mutant: direct calls are not waited for.
WaitForDeactivateMutant(t) ==
    /\ At(t, "waitForDeactivate") /\ alock = None
    /\ adapter.deactivated /\ ~adapter.waitForDeactivate
    /\ adapter' = [adapter EXCEPT !.waitForDeactivate = TRUE]
    /\ Go(t, IF adapter.instance THEN "untilFinished" ELSE "release")
    /\ UNCHANGED <<instance, oaf, factory, locks, pool, accepting, life, calls>>

WaitForDeactivate(t) ==
    /\ At(t, "waitForDeactivate") /\ alock = None
    /\ adapter.deactivated /\ adapter.directCount = 0 /\ ~adapter.waitForDeactivate
    /\ adapter' = [adapter EXCEPT !.waitForDeactivate = TRUE]
    /\ Go(t, IF adapter.instance THEN "untilFinished" ELSE "release")
    /\ UNCHANGED <<instance, oaf, factory, locks, pool, accepting, life, calls>>

DestroyServants(t) ==
    /\ At(t, "servants")
    /\ adapter' = [adapter EXCEPT !.servants = FALSE]
    /\ Go(t, "release")
    /\ UNCHANGED <<instance, oaf, factory, locks, pool, accepting, life, calls>>

\* Mutant: other threads that wait are not told.
ReleaseMutant(t) ==
    /\ At(t, "release") /\ alock = None
    /\ adapter' = [adapter EXCEPT !.instance = FALSE]
    /\ IF adapter.instance THEN Go(t, "remove") ELSE Return(t)
    /\ UNCHANGED <<instance, oaf, factory, locks, pool, accepting, life, calls>>

\* The first one to come here drops the references, and tells the factory.
Release(t) ==
    /\ At(t, "release") /\ alock = None
    /\ adapter' = [adapter EXCEPT !.waitForDeactivate = FALSE, !.instance = FALSE]
    /\ IF adapter.instance THEN Go(t, "remove") ELSE Return(t)
    /\ UNCHANGED <<instance, oaf, factory, locks, pool, accepting, life, calls>>

\* Mutant: the adapter is erased though a thread goes through the map.
RemoveObjectAdapterMutant(t) ==
    /\ At(t, "remove")
    /\ oaf' = [oaf EXCEPT !.adapters = FALSE]
    /\ Return(t)
    /\ UNCHANGED <<instance, adapter, factory, locks, pool, accepting, life, calls>>

RemoveObjectAdapter(t) ==
    /\ At(t, "remove")
    /\ oaf' = [oaf EXCEPT !.adapters = @ /\ oaf.waitForShutdown]
    /\ Return(t)
    /\ UNCHANGED <<instance, adapter, factory, locks, pool, accepting, life, calls>>
-----------------------------------------------------------------------------
(* incDirectCount() and decDirectCount(): a call without a connection.     *)

IncDirectCount(t) ==
    /\ At(t, "direct") /\ alock = None /\ ~adapter.deactivated
    /\ adapter' = [adapter EXCEPT !.directCount = @ + 1]
    /\ Go(t, "directCall")
    /\ UNCHANGED <<instance, oaf, factory, locks, pool, accepting, life, calls>>

DecDirectCount(t) ==
    /\ At(t, "directCall") /\ alock = None
    /\ adapter' = [adapter EXCEPT !.directCount = @ - 1]
    /\ Return(t)
    /\ UNCHANGED <<instance, oaf, factory, locks, pool, accepting, life, calls>>
-----------------------------------------------------------------------------
(* ObjectAdapterFactory::shutdown(), waitForShutdown(); Instance::destroy() *)

Shutdown(t) ==
    /\ At(t, "shutdown")
    /\ oaf' = [oaf EXCEPT !.instance = FALSE]
    /\ IF oaf.instance /\ oaf.adapters THEN Go(t, "deactivate") ELSE Return(t)
    /\ UNCHANGED <<instance, adapter, factory, locks, pool, accepting, life, calls>>

WaitForShutdown(t) ==
    /\ At(t, "waitForShutdown") /\ ~oaf.instance /\ ~oaf.waitForShutdown
    /\ oaf' = [oaf EXCEPT !.waitForShutdown = TRUE]
    /\ Continue(t, IF oaf.adapters THEN <<"waitForDeactivate", "shutdownDone">>
                                   ELSE <<"shutdownDone">>)
    /\ UNCHANGED <<instance, adapter, factory, locks, pool, accepting, life, calls>>

ShutdownDone(t) ==
    /\ At(t, "shutdownDone")
    /\ oaf' = [oaf EXCEPT !.adapters = FALSE, !.waitForShutdown = FALSE]
    /\ Return(t)
    /\ UNCHANGED <<instance, adapter, factory, locks, pool, accepting, life, calls>>

\* Mutant: nobody waits for the adapters.
DestroyMutant(t) ==
    /\ At(t, "destroy")
    /\ IF instance.state = "active"
       THEN /\ instance' = [instance EXCEPT !.state = "destroyInProgress"]
            /\ Continue(t, <<"shutdown", "destroyPool">>)
       ELSE UNCHANGED instance /\ Return(t)
    /\ UNCHANGED <<oaf, adapter, factory, locks, pool, accepting, life, calls>>

Destroy(t) ==
    /\ At(t, "destroy")
    /\ IF instance.state = "active"
       THEN /\ instance' = [instance EXCEPT !.state = "destroyInProgress"]
            /\ Continue(t, <<"shutdown", "waitForShutdown", "destroyPool">>)
       ELSE UNCHANGED instance /\ Return(t)
    /\ UNCHANGED <<oaf, adapter, factory, locks, pool, accepting, life, calls>>

DestroyPool(t) ==
    /\ At(t, "destroyPool")
    /\ instance' = [state |-> "destroyed", pool |-> "destroyed"]
    /\ Go(t, "join")
    /\ UNCHANGED <<oaf, adapter, factory, locks, pool, accepting, life, calls>>

\* joinWithAllThreads(): no thread of the pool is accepting or dispatching.
Join(t) ==
    /\ At(t, "join")
    /\ \A c \in Conns : accepting[c] \in {"none", "done"} /\ life[c].pending = {}
    /\ Return(t)
    /\ UNCHANGED <<instance, oaf, adapter, factory, locks, pool, accepting, life, calls>>
-----------------------------------------------------------------------------
(* IncomingConnectionFactory::setState()                                   *)

\* Active and holding alternate; closed is final.
MaySwitch(s) == s # factory.state /\ factory.state # Closed

\* registerWithPool() and unregisterWithPool(): "we first must make sure that
\* we are registered, then we unregister, and let finished() do the close".
PoolCalls(s) ==
    (IF s # Holding /\ ~factory.registered THEN <<"add">> ELSE <<>>)
    \o (IF s = Closed \/ (s = Holding /\ factory.registered) THEN <<"remove">> ELSE <<>>)

\* Mutant: the unregistration is not counted.
SetStateMutant(t) ==
    /\ At(t, "factory") /\ flock = None /\ MaySwitch(th[t].want)
    /\ changes' = changes \o PoolCalls(th[t].want)
    /\ factory' = [factory EXCEPT !.registered = (th[t].want = Active)]
    /\ flock' = t
    /\ th' = [th EXCEPT ![t].at = "each", ![t].todo = factory.connections]
    /\ UNCHANGED <<instance, oaf, adapter, alock, inPool, picked, finishing, accepting,
                   life, calls>>

SetState(t) ==
    /\ At(t, "factory") /\ flock = None /\ MaySwitch(th[t].want)
    /\ LET ops == PoolCalls(th[t].want)
       IN  /\ changes' = changes \o ops
           /\ factory' = [factory EXCEPT
                             !.registered = (th[t].want = Active),
                             !.finishedCount = @ + (IF "remove" \in Range(ops) THEN 1 ELSE 0)]
    /\ flock' = t
    /\ th' = [th EXCEPT ![t].at = "each", ![t].todo = factory.connections]
    /\ UNCHANGED <<instance, oaf, adapter, alock, inPool, picked, finishing, accepting,
                   life, calls>>

SetStateIgnored(t) ==
    /\ At(t, "factory") /\ flock = None /\ ~MaySwitch(th[t].want)
    /\ LeaveAdapter(t) /\ Return(t)
    /\ UNCHANGED <<instance, oaf, adapter, factory, flock, pool, accepting, life, calls>>

\* One connection after the other: activate() and hold() wait until it is
\* validated.
ForEach(t) ==
    /\ At(t, "each") /\ th[t].todo # <<>>
    /\ LET c == Head(th[t].todo)
           l == life[c]
       IN  /\ th[t].want # Closed => l.state # Life!NotValidated
           /\ life' = [life EXCEPT ![c] = CASE th[t].want = Active  -> Life!Activated(l)
                                            [] th[t].want = Holding -> Life!Held(l)
                                            [] th[t].want = Closed  -> Life!Destroyed(l)]
    /\ th' = [th EXCEPT ![t].todo = Tail(@)]
    /\ UNCHANGED <<instance, oaf, adapter, factory, locks, pool, accepting, calls>>

SetStateEnds(t) ==
    /\ At(t, "each") /\ th[t].todo = <<>>
    /\ factory' = [factory EXCEPT !.state = th[t].want]
    /\ flock' = None /\ LeaveAdapter(t) /\ Return(t)
    /\ UNCHANGED <<instance, oaf, adapter, pool, accepting, life, calls>>
-----------------------------------------------------------------------------
(* waitUntilHolding() and waitUntilFinished()                              *)

\* First the factory itself, then a copy of its connections without its lock.
FactoryHolds(t) ==
    /\ At(t, "untilHolding") /\ flock = None /\ factory.state >= Holding
    /\ th' = [th EXCEPT ![t].at = "connHolding", ![t].todo = factory.connections]
    /\ UNCHANGED <<instance, oaf, adapter, factory, locks, pool, accepting, life, calls>>

ConnectionHolds(t) ==
    /\ At(t, "connHolding") /\ th[t].todo # <<>>
    /\ LET l == life[Head(th[t].todo)]
       IN  l.state >= Life!Holding /\ l.pending = {}
    /\ th' = [th EXCEPT ![t].todo = Tail(@)]
    /\ UNCHANGED <<instance, oaf, adapter, factory, locks, pool, accepting, life, calls>>

AllHold(t) ==
    /\ At(t, "connHolding") /\ th[t].todo = <<>>
    /\ LeaveAdapter(t) /\ Return(t)
    /\ UNCHANGED <<instance, oaf, adapter, factory, flock, pool, accepting, life, calls>>

FactoryFinishes(t) ==
    /\ At(t, "untilFinished") /\ flock = None
    /\ factory.state = Closed /\ ~factory.acceptor
    /\ th' = [th EXCEPT ![t].at = "connFinished", ![t].todo = factory.connections]
    /\ factory' = [factory EXCEPT !.connections = <<>>]
    /\ UNCHANGED <<instance, oaf, adapter, locks, pool, accepting, life, calls>>

\* Mutant: the transceiver is waited for, the dispatches are not.
ConnectionFinishesMutant(t) ==
    /\ At(t, "connFinished") /\ th[t].todo # <<>>
    /\ life[Head(th[t].todo)].finished
    /\ th' = [th EXCEPT ![t].todo = Tail(@)]
    /\ UNCHANGED <<instance, oaf, adapter, factory, locks, pool, accepting, life, calls>>

ConnectionFinishes(t) ==
    /\ At(t, "connFinished") /\ th[t].todo # <<>>
    /\ Life!IsFinished(life[Head(th[t].todo)])
    /\ th' = [th EXCEPT ![t].todo = Tail(@)]
    /\ UNCHANGED <<instance, oaf, adapter, factory, locks, pool, accepting, life, calls>>

\* The endpoint's timeout, if it has one, has passed since the CloseConnection
\* message: the waiting thread closes the connection.  Without a timeout it just
\* waits for the peer.
CloseTimesOut(t) ==
    /\ factory.timed /\ At(t, "connFinished") /\ th[t].todo # <<>>
    /\ LET c == Head(th[t].todo)
       IN  /\ life[c].state = Life!Closing /\ life[c].pending = {}
           /\ life' = [life EXCEPT ![c] = Life!Aborted(@)]
    /\ UNCHANGED <<instance, oaf, adapter, factory, locks, pool, accepting, th, calls>>

AllFinished(t) ==
    /\ At(t, "connFinished") /\ th[t].todo = <<>>
    /\ Go(t, "servants")
    /\ UNCHANGED <<instance, oaf, adapter, factory, locks, pool, accepting, life, calls>>
-----------------------------------------------------------------------------
(* The pool and the factory                                                *)

PoolChanges ==
    /\ ~picked /\ changes # <<>>
    /\ changes' = Tail(changes)
    /\ inPool' = (Head(changes) = "add")
    /\ finishing' = finishing + (IF Head(changes) = "remove" THEN 1 ELSE 0)
    /\ UNCHANGED <<instance, oaf, adapter, factory, locks, picked, accepting, life, th, calls>>

\* A client connects.
PoolPicks ==
    /\ ~picked /\ changes = <<>> /\ inPool
    /\ \E c \in Conns : accepting[c] = "none"
    /\ picked' = TRUE
    /\ UNCHANGED <<instance, oaf, adapter, factory, locks, changes, inPool, finishing,
                   accepting, life, th, calls>>

\* remove_if
Without(s, gone) ==
    LET kept[i \in 0..Len(s)] ==
            IF i = 0 THEN <<>>
            ELSE IF s[i] \in gone THEN kept[i - 1]
            ELSE Append(kept[i - 1], s[i])
    IN  kept[Len(s)]

\* message(): nothing unless active; else finished connections are reaped (all
\* whose mutex is free) and one is accepted, which may fail.
Message ==
    /\ picked /\ flock = None
    /\ picked' = FALSE
    /\ \/ factory.state # Active /\ UNCHANGED <<factory, accepting>>
       \/ /\ factory.state = Active
          /\ \E reaped \in SUBSET {c \in Conns : Life!IsFinished(life[c])} :
                LET left == Without(factory.connections, reaped)
                IN  \/ /\ factory' = [factory EXCEPT !.connections = left]
                       /\ UNCHANGED accepting
                    \/ \E c \in Conns :
                        /\ accepting[c] = "none"
                        /\ accepting' = [accepting EXCEPT ![c] = "validate"]
                        /\ factory' = [factory EXCEPT !.connections = Append(left, c)]
    /\ UNCHANGED <<instance, oaf, adapter, locks, changes, inPool, finishing, life, th, calls>>

\* Mutant: the connection is validated before the message is written.
ValidateMutant(c) ==
    /\ accepting[c] = "validate"
    /\ \/ /\ life' = [life EXCEPT ![c] = Life!Aborted(Life!Validated(@))]
          /\ accepting' = [accepting EXCEPT ![c] = "failed"]
       \/ /\ life' = [life EXCEPT ![c] = IF @.state = Life!NotValidated
                                         THEN Life!Validated(@) ELSE @]
          /\ accepting' = [accepting EXCEPT ![c] = "activate"]
    /\ UNCHANGED <<instance, oaf, adapter, factory, locks, pool, th, calls>>

\* validate(), outside the lock.  It fails if the connection is destroyed
\* before the message is written, and if the write fails.
Validate(c) ==
    /\ accepting[c] = "validate"
    /\ \/ /\ life' = [life EXCEPT ![c] = Life!Aborted(@)]
          /\ accepting' = [accepting EXCEPT ![c] = "failed"]
       \/ /\ life' = [life EXCEPT ![c] = IF @.state = Life!NotValidated
                                         THEN Life!Validated(@) ELSE @]
          /\ accepting' = [accepting EXCEPT ![c] = "activate"]
    /\ UNCHANGED <<instance, oaf, adapter, factory, locks, pool, th, calls>>

\* "We must call waitUntilFinished() for cleanup."
ValidateFailed(c) ==
    /\ accepting[c] = "failed" /\ flock = None /\ Life!IsFinished(life[c])
    /\ factory' = [factory EXCEPT !.connections = Without(@, {c})]
    /\ accepting' = [accepting EXCEPT ![c] = "done"]
    /\ UNCHANGED <<instance, oaf, adapter, locks, pool, life, th, calls>>

\* activate(), whatever the state of the factory is by now.
AcceptActivates(c) ==
    /\ accepting[c] = "activate"
    /\ life' = [life EXCEPT ![c] = Life!Activated(@)]
    /\ accepting' = [accepting EXCEPT ![c] = "done"]
    /\ UNCHANGED <<instance, oaf, adapter, factory, locks, pool, th, calls>>

\* Mutant: the first finished() after the close closes the acceptor.
FinishedMutant ==
    /\ finishing > 0 /\ flock = None
    /\ finishing' = finishing - 1
    /\ factory' = [factory EXCEPT !.finishedCount = @ - 1,
                                  !.acceptor = @ /\ factory.state # Closed]
    /\ UNCHANGED <<instance, oaf, adapter, locks, changes, inPool, picked, accepting, life,
                   th, calls>>

\* finished(): the last one of a closed factory closes the acceptor.
Finished ==
    /\ finishing > 0 /\ flock = None
    /\ finishing' = finishing - 1
    /\ factory' = [factory EXCEPT !.finishedCount = @ - 1,
                                  !.acceptor = @ /\ ~(factory.finishedCount = 1
                                                      /\ factory.state = Closed)]
    /\ UNCHANGED <<instance, oaf, adapter, locks, changes, inPool, picked, accepting, life,
                   th, calls>>
-----------------------------------------------------------------------------
(* The connections, as ConnectionLife lets them.                           *)

Others == <<instance, oaf, adapter, factory, locks, pool, accepting, th, calls>>

Accept(c, r) == accepting[c] # "none" /\ Life!Accept(c, r) /\ UNCHANGED Others

\* The servant may need the adapter before it returns.
Answer(c, r) ==
    /\ r \in UsesAdapter => alock = None
    /\ Life!Answer(c, r) /\ UNCHANGED Others

\* The peer or an error ends the connection, or its idle monitor closes it.
Lose(c) ==
    /\ life[c].state > Life!NotValidated
    /\ Life!Abort(c) \/ Life!Destroy(c)
    /\ UNCHANGED Others

\* The peer closes the connection after the CloseConnection message.
PeerCloses(c) ==
    /\ life[c].state = Life!Closing /\ life[c].pending = {}
    /\ Life!Abort(c) /\ UNCHANGED Others

Finish(c) == Life!Finish(c) /\ UNCHANGED Others
-----------------------------------------------------------------------------
Operation(t) ==
    \/ Throws(t) \/ ActivateAgain(t) \/ ActivateFirst(t) \/ ActivateUpdates(t)
    \/ ActivateFails(t) \/ ActivateEnds(t) \/ Hold(t) \/ WaitForHold(t)
    \/ Deactivate(t) \/ DeactivateResumes(t)
    \/ WaitForDeactivate(t) \/ DestroyServants(t) \/ Release(t) \/ RemoveObjectAdapter(t)
    \/ IncDirectCount(t) \/ DecDirectCount(t)
    \/ Shutdown(t) \/ WaitForShutdown(t) \/ ShutdownDone(t)
    \/ Destroy(t) \/ DestroyPool(t) \/ Join(t)
    \/ SetState(t) \/ SetStateIgnored(t) \/ ForEach(t) \/ SetStateEnds(t)
    \/ FactoryHolds(t) \/ ConnectionHolds(t) \/ AllHold(t)
    \/ FactoryFinishes(t) \/ ConnectionFinishes(t) \/ CloseTimesOut(t) \/ AllFinished(t)

Pool == PoolChanges \/ PoolPicks \/ Message

Accepting(c) == Validate(c) \/ ValidateFailed(c) \/ AcceptActivates(c)

Next ==
    \/ \E t \in Threads : Operation(t) \/ \E op \in May[t] : Call(t, op)
    \/ Pool \/ Finished
    \/ \E c \in Conns :
        \/ Accepting(c) \/ Lose(c) \/ Finish(c)
        \/ \E r \in Reqs : Accept(c, r) \/ Answer(c, r)

\* Threads are scheduled, the pool serves the acceptor (ThreadPool), and a
\* connection keeps what ConnectionI was shown to keep: its dispatches end, and
\* once it is closed it is finished.  Of the peer one thing is assumed, and only
\* of an endpoint without a timeout, as there the code just waits for it: told
\* that the connection closes, the peer closes it.
Fairness ==
    /\ \A t \in Threads : WF_vars(Operation(t))
    /\ WF_vars(PoolChanges) /\ WF_vars(Message) /\ WF_vars(Finished)
    /\ \A c \in Conns :
        /\ WF_vars(Accepting(c)) /\ WF_vars(Finish(c))
        /\ WF_vars(~factory.timed /\ PeerCloses(c))
        /\ \A r \in Reqs : WF_vars(Answer(c, r))

Spec == Init /\ [][Next]_vars /\ Fairness
-----------------------------------------------------------------------------
(* Properties                                                              *)

Labels == Operations \cup
    {"idle", "update", "updated", "updateFailed", "untilHolding", "connHolding",
     "waitActivate", "untilFinished", "connFinished", "servants", "release", "remove",
     "directCall", "shutdownDone", "destroyPool", "join", "factory", "each"}

\* Every variable holds a value of its kind.
TypeOK ==
    /\ instance \in [state : {"active", "destroyInProgress", "destroyed"},
                     pool : {"up", "destroyed"}]
    /\ oaf \in [instance : BOOLEAN, waitForShutdown : BOOLEAN, adapters : BOOLEAN]
    /\ adapter \in [deactivated : BOOLEAN, waitForActivate : BOOLEAN, oneOffDone : BOOLEAN,
                    waitForDeactivate : BOOLEAN, instance : BOOLEAN, directCount : Nat,
                    servants : BOOLEAN]
    /\ alock \in Threads \cup {None} /\ flock \in Threads \cup {None}
    /\ factory \in [state : {Active, Holding, Closed}, acceptor : BOOLEAN,
                    registered : BOOLEAN, finishedCount : Nat, connections : Seq(Conns),
                    timed : BOOLEAN]
    /\ changes \in Seq({"add", "remove"}) /\ inPool \in BOOLEAN /\ picked \in BOOLEAN
    /\ finishing \in Nat
    /\ accepting \in [Conns -> {"none", "validate", "failed", "activate", "done"}]
    /\ life \in [Conns -> [state : Life!NotValidated..Life!Closed, pending : SUBSET Reqs,
                           finished : BOOLEAN]]
    /\ th \in [Threads -> [at : Labels, want : {Active, Holding, Closed, None},
                           todo : Seq(Conns), then : Seq(Labels)]]
    /\ calls \in 0..MaxCalls

Accepted == {c \in Conns : accepting[c] # "none"}
OutOfPool == changes = <<>> /\ ~inPool /\ ~picked /\ finishing = 0

\* The acceptor is closed only when the pool has nothing left to do with it,
\* after any number of activate() and hold() calls.
AcceptorOutlivesPool == ~factory.acceptor => factory.state = Closed /\ OutOfPool

\* isLocal() looks at the acceptor of each factory without the factory's lock
\* and asserts that it is there: an adapter that is not deactivated has it, and
\* nobody is closing it.
AcceptorWhileUsable ==
    ~adapter.deactivated => factory.acceptor /\ factory.state # Closed

\* "There are no outstanding calls when deactivate() is called on the servant
\* locators", and none can come: every connection ever accepted is finished.
ServantsOutliveRequests ==
    ~adapter.servants =>
        /\ \A c \in Accepted : Life!IsFinished(life[c])
        /\ adapter.directCount = 0

\* The asserts of the destructors of the factory and the adapter, of
\* decDirectCount() and of getThreadPool(): when the adapter drops its
\* references the factory is closed and empty, and nobody is in them.
ReleasedIsQuiet ==
    ~adapter.instance =>
        /\ ~factory.acceptor /\ factory.connections = <<>> /\ ~adapter.servants
        /\ \A t \in Threads :
              th[t].at \notin {"each", "untilHolding", "connHolding", "untilFinished",
                              "connFinished", "servants", "directCall"}

\* The asserts of ThreadPool::destroy() and of ~ObjectAdapterFactory(): the pool
\* is destroyed with no descriptor in it or queued, and the adapter is released,
\* whoever else was shutting down or waiting at the time.
PoolDestroyedEmpty ==
    instance.pool = "destroyed" =>
        /\ OutOfPool /\ \A c \in Accepted : life[c].finished
        /\ ~oaf.adapters /\ ~adapter.instance

\* waitUntilFinished(), which the accepting thread calls with the factory's
\* lock, does not make it wait.
FailedIsFinished == \A c \in Conns : accepting[c] = "failed" => Life!IsFinished(life[c])

\* waitForShutdown() goes through _adapters without a lock: nobody else changes
\* them meanwhile.
IterationIsSafe ==
    [][oaf.waitForShutdown /\ oaf.adapters /\ ~oaf'.adapters
          => \E t \in Threads : At(t, "shutdownDone") /\ ~At(t, "shutdownDone")']_vars

\* A waitForHold() that cannot return: the adapter is not held, the connection
\* it waits for was activated by the thread that accepted it after hold() had
\* passed it, or the connection's servant waits for the adapter's lock.
HoldStuck ==
    \E t \in Threads :
        \/ At(t, "untilHolding") /\ factory.state = Active
        \/ /\ At(t, "connHolding") /\ th[t].todo # <<>>
           /\ LET l == life[Head(th[t].todo)]
              IN  l.state = Life!Active \/ l.pending \cap UsesAdapter # {}

\* A thread is in the part of destroy() that waits for the adapters.
Destroying(t) == "destroyPool" \in Range(th[t].then)

\* The deactivate() of a destroy() waited for an activate() and comes back to an
\* adapter that another thread has released meanwhile: it ends in an exception,
\* and with it the destroy().
LateDeactivate ==
    \E t \in Threads : Destroying(t) /\ At(t, "waitActivate") /\ ~adapter.instance

\* Once the communicator shuts down every operation returns, whichever of them
\* the threads have called, unless a waitForHold() is stuck with the lock; and a
\* destroy() that has begun destroys the communicator, rather than leaving it
\* half destroyed, unless its own deactivate() comes too late and throws.
OperationsReturn ==
    ([]<>~HoldStuck) =>
        /\ ~oaf.instance ~> \A t \in Threads : At(t, "idle")
        /\ (\E t \in Threads : Destroying(t)) ~>
              (instance.state = "destroyed" \/ LateDeactivate)

\* "assert(!_deactivated); // Not possible if _waitForActivate = true;"
ActivateAssert == \A t \in Threads : At(t, "updated") => ~adapter.deactivated
=============================================================================
