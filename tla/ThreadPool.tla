----------------------------- MODULE ThreadPool -----------------------------
(***************************************************************************)
(* IceInternal::ThreadPool (Ice-3.1.1/src/Ice/ThreadPool.cpp): a           *)
(* leader/follower pool.  One thread, the leader, selects on the interrupt *)
(* pipe and the registered descriptors; it hands leadership on             *)
(* (promoteFollower) from inside the upcall it makes.                      *)
(*                                                                         *)
(* The handlers' owners (ConnectionI, IncomingConnectionFactory) call      *)
(* _register and unregister in turn for a descriptor, and destroy once     *)
(* finished() was called for every unregister.                             *)
(***************************************************************************)
EXTENDS Integers, Sequences, FiniteSets, FiniteSetsExt

CONSTANTS
    Threads,     \* identities for the pool's threads
    Fds,         \* descriptors of event handlers
    IntrFd,      \* _fdIntrRead
    FdSetSize,   \* FD_SETSIZE: select() takes descriptors below it
    Size,        \* _size
    SizeMax,     \* _sizeMax
    IdleTimeout, \* the pool has a timeout (Ice.ServerIdleTime)
    MaxRegs,     \* bound: registrations of a descriptor
    NoFd

ASSUME FdsAssumption ==
    /\ FdSetSize \in Nat
    /\ Fds \cup {IntrFd} \subseteq 0..(FdSetSize - 1)
    /\ IntrFd \notin Fds /\ NoFd \notin Fds

ASSUME SizeAssumption ==
    /\ Size \in Nat \ {0} /\ SizeMax \in Nat /\ Size <= SizeMax
    /\ IsFiniteSet(Threads) /\ SizeMax <= Cardinality(Threads)

ASSUME BoundAssumption == MaxRegs \in Nat /\ IdleTimeout \in BOOLEAN

VARIABLES
    promote,     \* _promote: leadership is free
    pc,          \* where each thread is in EventHandlerThread::run and run()
    handler,     \* the descriptor whose handler the thread is busy with
    snap,        \* fdSet, as select() returned it to the thread
    handlerMap,  \* _handlerMap's keys; _fdSet is these and _fdIntrRead
    minFd, maxFd, lastFd,
    changes,     \* _changes: pairs of a descriptor and "add" or "remove"
    pipe,        \* bytes in the interrupt pipe
    destroyed,   \* _destroyed
    timeout,     \* _timeout > 0
    inUse, running, load,
    refused,     \* history: the system refused to create a thread
    registered,  \* owners: descriptors with a _register not yet undone
    owed,        \* owners: unregister calls whose finished() is outstanding
    regs,        \* registrations so far, for the bound
    readable     \* descriptors with data, or a connection to accept

counters == <<inUse, running, load, refused>>
fdState == <<handlerMap, minFd, maxFd>>
owners == <<registered, owed, regs>>
vars == <<promote, pc, handler, snap, fdState, lastFd, changes, pipe, destroyed,
          timeout, counters, owners, readable>>

-----------------------------------------------------------------------------
\* A thread without leadership that has not started an upcall; "asleep" is in
\* wait() on the monitor, "wait" is about to test _promote.
Waiting == {"wait", "asleep"}

\* A thread that leads: from taking leadership to promoteFollower.
Leading == {"select", "got", "shutdown", "promote", "finished", "message", "exit"}

\* A thread that has promoted a follower and is in an upcall.
Upcalls == {"finishing", "upcall"}

\* A thread that left run(), still alive or not, but still in _threads.
Gone == {"leaving", "dead"}

Asleep == {t \in Threads : pc[t] = "asleep"}
Unused == {t \in Threads : pc[t] = "none"}
Leaders == {t \in Threads : pc[t] \in Leading}
Busy == {t \in Threads : pc[t] \in Upcalls}
Alive == {t \in Threads : pc[t] \in Waiting \cup Leading \cup Upcalls}

Start == IF SizeMax > 1 THEN "wait" ELSE "select"

Goto(t, l) == pc' = [pc EXCEPT ![t] = l]

-----------------------------------------------------------------------------
\* The constructor: Size threads, or fewer if one cannot be created, and then
\* destroy() has been called.
Init ==
    /\ promote = TRUE
    /\ \E S \in SUBSET Threads :
          /\ Cardinality(S) <= Size
          /\ pc = [t \in Threads |-> IF t \in S THEN Start ELSE "none"]
          /\ running = Cardinality(S)
          /\ destroyed = (Cardinality(S) < Size)
          /\ pipe = IF Cardinality(S) < Size THEN 1 ELSE 0
    /\ handler = [t \in Threads |-> NoFd]
    /\ snap = [t \in Threads |-> {}]
    /\ handlerMap = {} /\ minFd = IntrFd /\ maxFd = IntrFd /\ lastFd = -1
    /\ changes = <<>>
    /\ timeout = IdleTimeout
    /\ inUse = 0 /\ load = 1 /\ refused = FALSE
    /\ registered = {} /\ owed = [f \in Fds |-> 0] /\ regs = [f \in Fds |-> 0]
    /\ readable = {}

-----------------------------------------------------------------------------
(* The owners' calls.                                                      *)

\* Mutant: setInterrupt is not called.
RegisterMutant(f) ==
    /\ ~destroyed /\ f \notin registered /\ regs[f] < MaxRegs
    /\ changes' = Append(changes, <<f, "add">>)
    /\ registered' = registered \cup {f}
    /\ regs' = [regs EXCEPT ![f] = @ + 1]
    /\ UNCHANGED <<promote, pc, handler, snap, fdState, lastFd, pipe, destroyed, timeout,
                   counters, owed, readable>>

Register(f) ==
    /\ ~destroyed /\ f \notin registered /\ regs[f] < MaxRegs
    /\ changes' = Append(changes, <<f, "add">>)
    /\ pipe' = pipe + 1
    /\ registered' = registered \cup {f}
    /\ regs' = [regs EXCEPT ![f] = @ + 1]
    /\ UNCHANGED <<promote, pc, handler, snap, fdState, lastFd, destroyed, timeout,
                   counters, owed, readable>>

\* Mutant: the removal overtakes the changes queued before it.
UnregisterMutant(f) ==
    /\ ~destroyed /\ f \in registered
    /\ changes' = <<<<f, "remove">>>> \o changes
    /\ pipe' = pipe + 1
    /\ registered' = registered \ {f}
    /\ owed' = [owed EXCEPT ![f] = @ + 1]
    /\ UNCHANGED <<promote, pc, handler, snap, fdState, lastFd, destroyed, timeout,
                   counters, regs, readable>>

\* Mutant: the outstanding finished() is not counted.
UnregisterUncounted(f) ==
    /\ ~destroyed /\ f \in registered
    /\ changes' = Append(changes, <<f, "remove">>)
    /\ pipe' = pipe + 1
    /\ registered' = registered \ {f}
    /\ UNCHANGED <<promote, pc, handler, snap, fdState, lastFd, destroyed, timeout,
                   counters, owed, regs, readable>>

\* ++_finishedCount goes with it, as in ConnectionI::unregisterWithPool.
Unregister(f) ==
    /\ ~destroyed /\ f \in registered
    /\ changes' = Append(changes, <<f, "remove">>)
    /\ pipe' = pipe + 1
    /\ registered' = registered \ {f}
    /\ owed' = [owed EXCEPT ![f] = @ + 1]
    /\ UNCHANGED <<promote, pc, handler, snap, fdState, lastFd, destroyed, timeout,
                   counters, regs, readable>>

\* The owners wait until everything is unregistered and finished.
OwnersDone == registered = {} /\ \A f \in Fds : owed[f] = 0

Destroy ==
    /\ ~destroyed /\ OwnersDone
    /\ destroyed' = TRUE
    /\ pipe' = pipe + 1
    /\ UNCHANGED <<promote, pc, handler, snap, fdState, lastFd, changes, timeout,
                   counters, owners, readable>>

\* Data or a connection arrives.
Arrive(f) ==
    /\ f \notin readable
    /\ readable' = readable \cup {f}
    /\ UNCHANGED <<promote, pc, handler, snap, fdState, lastFd, changes, pipe,
                   destroyed, timeout, counters, owners>>

-----------------------------------------------------------------------------
(* promoteFollower                                                         *)

\* notify() wakes one of the threads in wait(), if there is one.
NotifyChoices == IF Asleep = {} THEN {{}} ELSE {{s} : s \in Asleep}

\* Mutant: _destroyed is not tested.
NeedsThreadMutant == inUse + 1 < SizeMax /\ inUse + 1 = running

NeedsThread == ~destroyed /\ inUse + 1 < SizeMax /\ inUse + 1 = running

\* The threads created: one or, when the system refuses, none.
Births == IF NeedsThread THEN {{}} \cup {{s} : s \in Unused} ELSE {{}}

\* t promotes a follower and goes on at l.
PromoteFollower(t, l) ==
    IF SizeMax = 1
    THEN Goto(t, l) /\ UNCHANGED <<promote, inUse, running, refused>>
    ELSE /\ promote' = TRUE
         /\ inUse' = IF destroyed THEN inUse ELSE inUse + 1
         /\ \E woken \in NotifyChoices, born \in Births :
               /\ pc' = [s \in Threads |-> IF s = t THEN l
                                           ELSE IF s \in woken \cup born THEN "wait"
                                           ELSE pc[s]]
               /\ running' = IF born = {} THEN running ELSE running + 1
               /\ refused' = (refused \/ (NeedsThread /\ born = {}))

-----------------------------------------------------------------------------
(* run()                                                                   *)

\* Mutant: _promote stays set.
TakeLeadershipMutant(t) ==
    /\ pc[t] = "wait" /\ promote
    /\ Goto(t, "select")
    /\ UNCHANGED <<promote, handler, snap, fdState, lastFd, changes, pipe, destroyed,
                   timeout, counters, owners, readable>>

\* while(!_promote) wait(); _promote = false
TakeLeadership(t) ==
    /\ pc[t] = "wait" /\ promote
    /\ promote' = FALSE
    /\ Goto(t, "select")
    /\ UNCHANGED <<handler, snap, fdState, lastFd, changes, pipe, destroyed, timeout,
                   counters, owners, readable>>

FallAsleep(t) ==
    /\ pc[t] = "wait" /\ ~promote
    /\ Goto(t, "asleep")
    /\ UNCHANGED <<promote, handler, snap, fdState, lastFd, changes, pipe, destroyed,
                   timeout, counters, owners, readable>>

Ready == (handlerMap \cap readable) \cup (IF pipe > 0 THEN {IntrFd} ELSE {})

\* select() returns; nothing is locked.
Select(t) ==
    /\ pc[t] = "select" /\ Ready # {}
    /\ snap' = [snap EXCEPT ![t] = Ready]
    /\ Goto(t, "got")
    /\ UNCHANGED <<promote, handler, fdState, lastFd, changes, pipe, destroyed, timeout,
                   counters, owners, readable>>

\* select() times out: the leader initiates a shutdown, once.
SelectTimeout(t) ==
    /\ pc[t] = "select" /\ Ready = {} /\ timeout
    /\ timeout' = FALSE
    /\ Goto(t, "shutdown")
    /\ UNCHANGED <<promote, handler, snap, fdState, lastFd, changes, pipe, destroyed,
                   counters, owners, readable>>

\* Mutant: the interrupt is cleared first.
GotDestroyedMutant(t) ==
    /\ pc[t] = "got" /\ IntrFd \in snap[t] /\ destroyed
    /\ pipe' = pipe - 1
    /\ snap' = [snap EXCEPT ![t] = {}]
    /\ Goto(t, "exit")
    /\ UNCHANGED <<promote, handler, fdState, lastFd, changes, destroyed, timeout,
                   counters, owners, readable>>

\* Interrupted, and the pool is destroyed: the byte stays for the others.
GotDestroyed(t) ==
    /\ pc[t] = "got" /\ IntrFd \in snap[t] /\ destroyed
    /\ snap' = [snap EXCEPT ![t] = {}]
    /\ Goto(t, "exit")
    /\ UNCHANGED <<promote, handler, fdState, lastFd, changes, pipe, destroyed, timeout,
                   counters, owners, readable>>

\* Mutant: the pipe is emptied in one read.
TakeChangeMutant(t) ==
    /\ pc[t] = "got" /\ IntrFd \in snap[t] /\ ~destroyed
    /\ pipe' = 0
    /\ changes' = Tail(changes)
    /\ snap' = [snap EXCEPT ![t] = {}]
    /\ UNCHANGED <<promote, lastFd, destroyed, timeout, counters, owners, readable>>

\* Interrupted: clearInterrupt, and the front of _changes is taken.
TakeChange(t) ==
    /\ pc[t] = "got" /\ IntrFd \in snap[t] /\ ~destroyed
    /\ pipe' = pipe - 1
    /\ changes' = Tail(changes)
    /\ snap' = [snap EXCEPT ![t] = {}]
    /\ UNCHANGED <<promote, lastFd, destroyed, timeout, counters, owners, readable>>

\* An addition: the leader goes back to select().
GotAdd(t) ==
    /\ TakeChange(t)
    /\ LET f == Head(changes)[1]
       IN  /\ Head(changes)[2] = "add"
           /\ handlerMap' = handlerMap \cup {f}
           /\ maxFd' = IF f > maxFd THEN f ELSE maxFd
           /\ minFd' = IF f < minFd THEN f ELSE minFd
    /\ Goto(t, "select")
    /\ UNCHANGED handler

\* Mutant: the range is not recomputed.
GotRemoveKeepsRange(t) ==
    /\ TakeChange(t)
    /\ LET f == Head(changes)[1]
       IN  /\ Head(changes)[2] = "remove"
           /\ handlerMap' = handlerMap \ {f}
           /\ handler' = [handler EXCEPT ![t] = f]
    /\ Goto(t, "finished")
    /\ UNCHANGED <<minFd, maxFd>>

\* Mutant: a removal is followed by continue, like an addition.
GotRemoveContinues(t) ==
    /\ TakeChange(t)
    /\ LET f == Head(changes)[1]
       IN  /\ Head(changes)[2] = "remove"
           /\ handlerMap' = handlerMap \ {f}
           /\ maxFd' = Max(handlerMap' \cup {IntrFd})
           /\ minFd' = Min(handlerMap' \cup {IntrFd})
    /\ Goto(t, "select")
    /\ UNCHANGED handler

\* A removal: the leader has to call finished().
GotRemove(t) ==
    /\ TakeChange(t)
    /\ LET f == Head(changes)[1]
       IN  /\ Head(changes)[2] = "remove"
           /\ handlerMap' = handlerMap \ {f}
           /\ maxFd' = Max(handlerMap' \cup {IntrFd})
           /\ minFd' = Min(handlerMap' \cup {IntrFd})
           /\ handler' = [handler EXCEPT ![t] = f]
    /\ Goto(t, "finished")

\* Mutant: the descriptor after the last one, ready or not.
NextFdUnchecked(ready) == lastFd + 1

\* Mutant: always the lowest ready descriptor.
NextFdLowest(ready) == Min(ready)

\* The do-while scan for a ready descriptor: upwards from _lastFd, once round.
NextFd(ready) ==
    LET from == IF lastFd < minFd - 1 \/ lastFd = -1 THEN minFd - 1 ELSE lastFd
        above == {f \in ready : from < f /\ f <= maxFd}
    IN  IF above # {} THEN Min(above) ELSE Min(ready)

\* No interrupt: a ready handler is picked round robin.
GotData(t) ==
    /\ pc[t] = "got" /\ IntrFd \notin snap[t]
    /\ lastFd' = NextFd(snap[t])
    /\ handler' = [handler EXCEPT ![t] = lastFd']
    /\ snap' = [snap EXCEPT ![t] = {}]
    /\ Goto(t, "message")
    /\ UNCHANGED <<promote, fdState, changes, pipe, destroyed, timeout, counters, owners,
                   readable>>

\* shutdown: objectAdapterFactory() throws once the communicator is destroyed,
\* which Instance::destroy does together with the pool's destroy().
Shutdown(t) ==
    /\ pc[t] = "shutdown"
    /\ Goto(t, IF destroyed THEN "select" ELSE "promote")
    /\ UNCHANGED <<promote, handler, snap, fdState, lastFd, changes, pipe, destroyed,
                   timeout, counters, owners, readable>>

ShutdownPromotes(t) ==
    /\ pc[t] = "promote"
    /\ PromoteFollower(t, "upcall")
    /\ UNCHANGED <<handler, snap, fdState, lastFd, changes, pipe, destroyed, timeout,
                   load, owners, readable>>

\* handler->finished(): promotes first ...
FinishedPromotes(t) ==
    /\ pc[t] = "finished"
    /\ PromoteFollower(t, "finishing")
    /\ UNCHANGED <<handler, snap, fdState, lastFd, changes, pipe, destroyed, timeout,
                   load, owners, readable>>

\* ... then --_finishedCount lets the owners go on.
FinishedCounts(t) ==
    /\ pc[t] = "finishing"
    /\ owed' = [owed EXCEPT ![handler[t]] = @ - 1]
    /\ handler' = [handler EXCEPT ![t] = NoFd]
    /\ Goto(t, "upcall")
    /\ UNCHANGED <<promote, snap, fdState, lastFd, changes, pipe, destroyed, timeout,
                   counters, registered, regs, readable>>

\* What a read leaves behind: more data, or none.
Drained(f) == readable' \in {readable, readable \ {f}}

\* read() throws: a timeout, a datagram over the limit, a broken connection
\* (handler->exception).  The thread goes on leading.
ReadThrows(t) ==
    /\ pc[t] = "message"
    /\ Drained(handler[t])
    /\ handler' = [handler EXCEPT ![t] = NoFd]
    /\ Goto(t, "select")
    /\ UNCHANGED <<promote, snap, fdState, lastFd, changes, pipe, destroyed, timeout,
                   counters, owners>>

\* handler->message(), which promotes a follower.
Message(t) ==
    /\ pc[t] = "message"
    /\ Drained(handler[t])
    /\ handler' = [handler EXCEPT ![t] = NoFd]
    /\ PromoteFollower(t, "upcall")
    /\ UNCHANGED <<snap, fdState, lastFd, changes, pipe, destroyed, timeout, load, owners>>

\* The load factor jumps up to inUse at once and decays towards it; load is
\* its value rounded, as the test for destroying the thread uses it.
NewLoads == IF load <= inUse THEN {inUse} ELSE inUse..load

\* Mutant: the load is not looked at.
TooManyMutant(l) == running > Size

\* One thread more than the load is needed, for select().
TooMany(l) == running > Size /\ l + 1 < running

\* Mutant: the thread that leaves stays in _running.
UpcallReturnsMutant(t) ==
    /\ pc[t] = "upcall"
    /\ load' \in NewLoads
    /\ inUse' = inUse - 1
    /\ Goto(t, IF TooMany(load') THEN "leaving" ELSE "wait")
    /\ UNCHANGED <<promote, handler, snap, fdState, lastFd, changes, pipe, destroyed,
                   timeout, running, refused, owners, readable>>

\* The upcall returns.  Dead threads are reaped; the thread leaves if the pool
\* has more than Size threads and the load is low, or waits for leadership.
UpcallReturns(t) ==
    /\ pc[t] = "upcall"
    /\ IF SizeMax = 1
       THEN Goto(t, "select") /\ UNCHANGED counters
       ELSE IF destroyed
       THEN Goto(t, "wait") /\ UNCHANGED counters
       ELSE /\ load' \in NewLoads
            /\ inUse' = inUse - 1
            /\ LET leaves == TooMany(load')
                   inThreads == {s \in Threads : pc[s] # "none"}
                   reaps == running < Cardinality(inThreads)
               IN  /\ running' = IF leaves THEN running - 1 ELSE running
                   /\ pc' = [s \in Threads |->
                                IF s = t THEN (IF leaves THEN "leaving" ELSE "wait")
                                ELSE IF reaps /\ pc[s] = "dead" THEN "none"
                                ELSE pc[s]]
            /\ UNCHANGED refused
    /\ UNCHANGED <<promote, handler, snap, fdState, lastFd, changes, pipe, destroyed,
                   timeout, owners, readable>>

-----------------------------------------------------------------------------
(* EventHandlerThread::run after ThreadPool::run                           *)

\* Mutant: _promote is set without notify().
ExitMutant(t) ==
    /\ pc[t] = "exit"
    /\ promote' = TRUE
    /\ Goto(t, "leaving")
    /\ UNCHANGED <<handler, snap, fdState, lastFd, changes, pipe, destroyed, timeout,
                   counters, owners, readable>>

\* run() returned true: a follower is promoted, no counter is touched.
Exit(t) ==
    /\ pc[t] = "exit"
    /\ IF SizeMax = 1
       THEN Goto(t, "leaving") /\ UNCHANGED promote
       ELSE /\ promote' = TRUE
            /\ \E woken \in NotifyChoices :
                  pc' = [s \in Threads |-> IF s = t THEN "leaving"
                                           ELSE IF s \in woken THEN "wait"
                                           ELSE pc[s]]
    /\ UNCHANGED <<handler, snap, fdState, lastFd, changes, pipe, destroyed, timeout,
                   counters, owners, readable>>

Die(t) ==
    /\ pc[t] = "leaving"
    /\ Goto(t, "dead")
    /\ UNCHANGED <<promote, handler, snap, fdState, lastFd, changes, pipe, destroyed,
                   timeout, counters, owners, readable>>

-----------------------------------------------------------------------------
ThreadStep(t) ==
    \/ TakeLeadership(t) \/ FallAsleep(t)
    \/ Select(t) \/ SelectTimeout(t)
    \/ GotDestroyed(t) \/ GotAdd(t) \/ GotRemove(t) \/ GotData(t)
    \/ Shutdown(t) \/ ShutdownPromotes(t)
    \/ FinishedPromotes(t) \/ FinishedCounts(t)
    \/ ReadThrows(t) \/ Message(t) \/ UpcallReturns(t)
    \/ Exit(t) \/ Die(t)

OwnerStep ==
    \/ \E f \in Fds : Register(f) \/ Unregister(f) \/ Arrive(f)
    \/ Destroy

Next == (\E t \in Threads : ThreadStep(t)) \/ OwnerStep

\* The operating system schedules every thread that can run, and every upcall
\* returns.  Nothing is assumed of the owners and the network.
Fairness == \A t \in Threads : WF_vars(ThreadStep(t))

Spec == Init /\ [][Next]_vars /\ Fairness
-----------------------------------------------------------------------------
(* Properties                                                              *)

\* Every variable holds a value of its kind.
TypeOK ==
    /\ promote \in BOOLEAN /\ destroyed \in BOOLEAN /\ timeout \in BOOLEAN
    /\ refused \in BOOLEAN
    /\ pc \in [Threads -> Waiting \cup Leading \cup Upcalls \cup Gone \cup {"none"}]
    /\ handler \in [Threads -> Fds \cup {NoFd}]
    /\ snap \in [Threads -> SUBSET (Fds \cup {IntrFd})]
    /\ handlerMap \subseteq Fds /\ registered \subseteq Fds /\ readable \subseteq Fds
    /\ minFd \in Fds \cup {IntrFd} /\ maxFd \in Fds \cup {IntrFd}
    /\ lastFd \in Fds \cup {-1}
    /\ changes \in Seq(Fds \X {"add", "remove"})
    /\ pipe \in Nat /\ inUse \in Int /\ running \in Int /\ load \in Int
    /\ owed \in [Fds -> Int] /\ regs \in [Fds -> 0..MaxRegs]

\* Leadership is held by exactly one thread or is free: two threads never
\* select, apply changes or read at once, and the asserts on _promote in
\* promoteFollower and EventHandlerThread::run hold.
LeaderToken ==
    /\ \A s, t \in Leaders : s = t
    /\ SizeMax > 1 => (promote <=> Leaders = {})

\* The interrupt pipe holds one byte for each queued change, and one more once
\* the pool is destroyed, so no change is left without a wake-up and
\* clearInterrupt never finds the pipe empty.
PipeMatchesChanges == pipe = Len(changes) + (IF destroyed THEN 1 ELSE 0)

\* What the leader saw in select() is still so when it has the lock: its ready
\* descriptors have handlers and lie in the range the scan covers ("no
\* filedescriptor is readable" and "not registered" cannot happen), and an
\* interrupt it saw comes with a change to apply (the assert on _changes).
SnapshotCurrent ==
    \A t \in Threads : pc[t] = "got" =>
        /\ snap[t] # {}
        /\ snap[t] \subseteq handlerMap \cup {IntrFd}
        /\ \A f \in snap[t] : minFd <= f /\ f <= maxFd
        /\ IntrFd \in snap[t] => pipe > 0 /\ (destroyed \/ changes # <<>>)

\* _minFd and _maxFd are the exact range of the descriptors in _fdSet.
FdRange ==
    /\ minFd = Min(handlerMap \cup {IntrFd})
    /\ maxFd = Max(handlerMap \cup {IntrFd})

\* Positions of changes that remove f's handler.
Removals(f) == {i \in 1..Len(changes) : changes[i] = <<f, "remove">>}
Finishing(f) == {t \in Threads : pc[t] \in {"finished", "finishing"} /\ handler[t] = f}

\* Each unregister leads to exactly one finished(): the outstanding ones are
\* queued or in the hands of a thread.
FinishedOncePerUnregister ==
    \A f \in Fds : owed[f] = Cardinality(Removals(f)) + Cardinality(Finishing(f))

\* f has a handler once the first n changes are applied: the last of them about
\* f adds it, or none is about f and it has one already.
HasHandler(f, n) ==
    \/ \E i \in 1..n : changes[i] = <<f, "add">> /\ \A j \in (i + 1)..n : changes[j][1] # f
    \/ f \in handlerMap /\ \A j \in 1..n : changes[j][1] # f

\* A queued removal finds its handler (the assert in run()), and an addition
\* finds none, whatever was registered, unregistered and registered again in
\* between; and after all changes f has a handler if its owner thinks so.
ChangesConsistent ==
    \A f \in Fds :
        /\ \A i \in 1..Len(changes) :
              changes[i][1] = f => (changes[i][2] = "remove" <=> HasHandler(f, i - 1))
        /\ f \in registered <=> HasHandler(f, Len(changes))

\* destroy()'s asserts: when the owners have seen all their finished() calls,
\* no handler and no change is left.
DestroyAsserts == OwnersDone => handlerMap = {} /\ changes = <<>>

\* While the pool is not destroyed _inUse counts the threads in upcalls and
\* _running the threads alive, between Size and SizeMax of them.
CountersMatch ==
    ~destroyed =>
        /\ running = Cardinality(Alive)
        /\ SizeMax > 1 => inUse = Cardinality(Busy)
        /\ Size <= running /\ running <= SizeMax

\* As long as no thread creation was refused, a thread is left to wait for
\* events unless all SizeMax threads are in upcalls: growing is never late and
\* shrinking never takes the last spare thread.
SpareThread ==
    SizeMax > 1 /\ ~destroyed /\ ~refused =>
        inUse < running \/ inUse = SizeMax

\* No wake-up is lost: while leadership is free and threads sleep, one thread
\* is on its way to take it.
NoLostWakeup ==
    promote /\ Asleep # {} => \E t \in Threads : pc[t] = "wait"

\* "_threads is immutable after destroy() has been called": no thread is
\* created or reaped, so joinWithAllThreads needs no lock.
ThreadsImmutable == [][destroyed => Unused' = Unused]_vars

\* A registered descriptor with data is picked, however many others are busy.
NoStarvation ==
    \A f \in Fds :
        (f \in handlerMap /\ f \in readable) ~>
            (f \notin handlerMap \/ \E t \in Threads : pc[t] = "message" /\ handler[t] = f)

\* Every unregister is followed by its finished().
EventuallyFinished == \A f \in Fds : (owed[f] > 0) ~> (owed[f] = 0)

\* Once the pool is destroyed every thread ends, so joinWithAllThreads returns.
JoinReturns == destroyed ~> \A t \in Threads : pc[t] \in {"none", "dead"}
=============================================================================
