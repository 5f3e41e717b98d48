# A TLA+ verification of ice_server_serial_port

The repository holds a small C++ server, `src/src/main.cpp` and
`src/src/device.c`, that lets Ice clients read and write a serial port and ask
a device for its info, and the Ice 3.1.1 runtime it is built on
(`src/Ice-3.1.1`). What happens between two system calls of a servant, and
between two lock regions of the runtime, decides whether the server works; that is
what the modules here describe. Paths below are relative to `src/` unless they
begin with `src/`.

## 1. Inventory

### Parts of the system

| part | state | operations | talks to |
|---|---|---|---|
| `SerialPortI` (main.cpp) | none of its own: the terminal `/dev/pts/0` and its descriptor during a call | `readSerialPort`, `writeSerialPort` | the pseudo terminal; called by pool threads |
| `DriverI`, `deviceInfo` (main.cpp, device.c) | the static `buffer[128]`, the file `/tmp/device-info` | `readInfoFromDevice` | curl, the device's HTTP service; called by pool threads |
| `main`, `start.sh` | the adapter and its two servants | start, `waitForShutdown` | starts after socat, without waiting for it |
| socat and the pseudo terminal (external) | data in both directions | forward, drain, die | the serial peer on tcp port 4641 |
| Java client and steps (IceSteps.java, ice.feature) | one proxy per call | `checkedCast`, then the operation | the server, the serial peer, a mock device |
| `ThreadPool` | leadership, handler map, queue of changes, interrupt pipe, counters | `run`, `promoteFollower`, `_register`, `unregister`, `destroy` | calls `message`, `finished`, `exception` of handlers |
| `ConnectionI` | state, exception, registration, `_finishedCount`, `_dispatchCount`, transceiver | `validate`, `activate`, `hold`, `destroy`, `close`, `monitor`, `message`, `finished`, `exception`, `sendResponse`, `sendNoResponse`, `waitUntilHolding`, `waitUntilFinished` | the pool, the factory, the peer, servants |
| `IncomingConnectionFactory` | state, acceptor, list of connections | `activate`, `hold`, `destroy`, `message` (accept), `finished`, `waitUntil...` | the pool, its connections, the adapter |
| `ObjectAdapterI`, `ObjectAdapterFactory` | active or deactivated, one-off activation, direct calls | `activate`, `hold`, `waitForHold`, `deactivate`, `waitForDeactivate`, `shutdown` | factories, the communicator |
| `Instance`, `CommunicatorI` | created and destroyed subsystems | `destroy`, `shutdown`, `waitForShutdown` | everything above |
| outgoing calls, streams, servant lookup | request tables, buffers | `sendRequest`, marshalling | unused by the server, or sequential |
| other Ice services, Slice compilers, generated code, packaging | - | - | not part of the running server |

A client opens a connection; the pool's leader finds the acceptor readable and
calls the factory's `message`, which accepts, validates and activates a
`ConnectionI`, which registers with the pool. A request makes the connection
readable; the leader reads it, calls `message`, which takes the connection's mutex,
hands leadership to another thread and dispatches the request to a servant on
the thread it runs in. The servant's result goes back through `sendResponse`
under a second mutex, `_sendMutex`. Shutdown goes the other way: the adapter
destroys its factory, the factory its connections, a connection tells its peer
(CloseConnection), unregisters, and is closed by the pool's `finished` call.

### What is hard, and what makes each part correct

* *Servants.* System calls block, fail, return less than asked for, and two
  threads may be in the same servant, while socat's processes mix the messages of
  several connections. Correct: a reply is what was sent, in order, an acknowledged
  write is whole, the device info is current, and callers are answered.
* *Thread pool.* Leadership, wake-ups, a queue and a pipe that must agree, a
  snapshot used after the lock was released, growing and shrinking. Correct: one
  leader, no lost wake-up, no lost change, one `finished` per `unregister`, no
  starved descriptor, and an end after `destroy`.
* *Connection.* Validation, hold, dispatch, replies and close interleave under two
  mutexes; every write may fail or block. Correct: the transceiver is closed once
  and after its last use, CloseConnection is the last message and implies that
  executed requests were answered, and closing ends.
* *Factory, adapter, communicator.* Locks held across waits, callbacks into each
  other, an order of destruction. Correct: hold holds, deactivation ends, nothing is
  used after it was destroyed.

The hazards, each with the line where it bites and the property that would catch
it, are listed in `PROJECT.json`.

## 2. Plan

1. `SerialServer` - the program's own code with its environment - and
   `SerialServerProofs`. **Done.**
2. `ThreadPool` - the pool every request runs on - and its proofs for any number of
   threads and descriptors, `ThreadPoolProofs` and `ThreadPoolCountProofs`.
   **Done.**
3. `ConnectionI` - one incoming connection over an abstract pool. **Done** for the
   incoming half.
4. `ConnectionLife` - what a connection promises its factory and its adapter.
   **Done**: `ConnectionI` is shown to implement it.
5. `ObjectAdapter` - the incoming connection factory, `ObjectAdapterI`,
   `ObjectAdapterFactory` and `Instance::destroy` over connections as
   `ConnectionLife` describes them: who waits for whom, with which lock - and
   `ObjectAdapterProofs`. **Done** for one adapter that uses the communicator's pool.
6. Proofs about `ConnectionI`: its invariants, and that it refines
   `ConnectionLife`. **Done.**
7. Left: a dispatcher that runs each upcall once, which `ThreadPool` would refine and
   `ConnectionI`, `SerialServer` and `ObjectAdapter` would use in place of the
   contract each of them states for itself.

## 3. The modules

### SerialServer (`MCSerialServer`, `SerialServerProofs`)

Models `src/src/main.cpp`, `src/src/device.c`, `start.sh` and what IceSteps.java
does from outside. A call is a member of `ReadCalls`, `WriteCalls` or `InfoCalls`
and has a program counter `pc`; it starts with the two-way `ice_isA` of
`checkedCast`, and needs one of `PoolSize` threads for that and for the operation. Each
system call of a servant is one action: `Open`, `ReadData`/`ReadFails`,
`WriteSome`/`WriteFails`; `TruncateFile` (the shell), `FetchOk`/`FetchFails`
(curl), `Scan`, `StoreBegin`, `StoreEnd` (fscanf into the shared buffer),
`CopyBuffer`.

Serial data is a sequence of fragments; a message is its fragments and a NUL.
`CString` is the conversion `string(read_buf)`: what comes before the first NUL.
A `read_buf` that is full and holds no NUL makes the conversion run on;
`ReadResults` then returns the data with or without garbage behind it. A body of
the device is a sequence of words, `FirstWord` is `%s`. The unsynchronised use of
the buffer is a `Torn` value between `StoreBegin` and `StoreEnd`.

The environment: socat starts late, and may die, which hangs up open descriptors.
`start.sh` runs it with `fork`, and IceSteps.java sends each message over a connection
of its own, so that there is a process of socat for each message (`children`) with
its own `wire`: `SocatForwards(m)` copies any non-empty part of what message `m` has
left to the terminal, in any order with the other messages, and `PeerEnds(m)` ends the
process. The terminal is drained only while there is a connection, the `Listener` of
`connectToSerialPort` or one that sends; the processes compete for what the server
writes, and `delivered` is what all of them took. curl has no timeout: `Fetch`, the end
of a request to the device, may never happen.

### ThreadPool (`MCThreadPool`, `ThreadPoolProofs`, `ThreadPoolCountProofs`)

Models `Ice-3.1.1/src/Ice/ThreadPool.cpp`. The variables are its members
(`promote`, `handlerMap`, `minFd`, `maxFd`, `lastFd`, `changes`, `destroyed`,
`inUse`, `running`, `load`), the bytes in the interrupt `pipe`, and for each thread
its place in the code, the result of its `select()` (`snap`) and the handler it
is busy with. One action is one region under the pool's monitor, or one system
call. `NotifyChoices` is the monitor's `notify`, which wakes one sleeper.
`load` is the load factor rounded as the code rounds it: it jumps up to
`inUse` and may decay to any value in between. Thread creation may be refused
(`Births`). `owed`, `registered` and `regs` are the handlers' owners, who
register and unregister a descriptor in turn and destroy the pool only after their
`finished` calls, as `ConnectionI::waitUntilFinished` makes them.

### ConnectionI (`MCConnectionI`, `ConnectionIProofs`, `ConnectionIDispatchProofs`, `ConnectionIRefinement`)

Models an incoming connection of `Ice-3.1.1/src/Ice/ConnectionI.cpp` that uses a
thread pool. `conn` is the record of the members the mutex guards. `setState` is the
pure operator `SetState` on a connection and the calls it has made on the pool, so
that it nests as in the code (`SetStateEx`, `RegisterWithPool`,
`UnregisterWithPool`). A step is one region under the mutex or one use of the
transceiver under `_sendMutex` (`sender`). The mutex is always taken before
`_sendMutex`, so a region that needs both is one step that waits until `_sendMutex`
is free. The exception is `initiateShutdown`, whose blocking write happens with
both held: `conn.shutdown` keeps the mutex locked (`Unlocked`) until
`ShutdownWrites` or `ShutdownFails`.

The pool appears as its contract: changes are applied in order, before anything
else is read, and by the leader only, which applies none while it holds a message
(`held`). The thread that accepted the connection (`factory`), the thread in
`hold` (`holder`), the one that destroys it and waits (`waiter`), the idle monitor
and a servant that closes the connection are the other actors. `timed` says whether
the endpoint has a timeout; it is chosen in `Init`, so both cases are in every run.

### ConnectionLife

The abstract specification of a connection, for any number of them: `life[c]` is
its state, the set of requests that are being dispatched and whether its
transceiver has been closed. It has no pool, locks, socket or peer. A new request
is accepted in `Active` and `Holding` (not only in `Active`: see the finding about
`waitForHold`), never from `Closing` on; closing is graceful or abrupt; an
unvalidated connection is finished the moment it is destroyed; and, by its
`Fairness`, dispatches end and a closed connection is finished. `ConnectionI` is
mapped to it, for one connection, by the `WITH` of its `Life` instance.

### ObjectAdapter (`MCObjectAdapter`, `ObjectAdapterProofs`)

Models the incoming part of `ConnectionFactory.cpp`, `ObjectAdapterI.cpp`,
`ObjectAdapterFactory.cpp` and `Instance::destroy`. Application threads call the
operations of `Operations`; `th` holds where a thread is, the state it wants the
factory in, the connections it still has to visit, and the operations it returns
to, so that `shutdown` can contain `deactivate`, and `destroy` contains `shutdown`,
`waitForShutdown` and the destruction of the pool. A step is one section under a
mutex. Two mutexes are held across steps, because the code blocks or calls out with
them: the adapter's (`alock`) by `activate`, `hold` and `waitForHold`, the factory's
(`flock`) by `setState`, which visits its connections one at a time.

The acceptor has the same two-stage close as a connection (`changes`, `inPool`,
`picked`, `finishing`): `Message` is the accept, `Validate`, `ValidateFailed` and
`AcceptActivates` what the accepting thread does afterwards without the factory's
lock. Connections are those of `ConnectionLife` (`Life == INSTANCE
ConnectionLife`); the factory applies its operators to them, and `Accept`, `Answer`,
`Lose` and `Finish` are what they do by themselves. A request of `UsesAdapter` has a
servant that calls an operation of the adapter and so needs `alock`. The locator is
external: its update takes time and may fail.

### CountingLemmas

What several proofs need to know of counters. `LeastNatural` (a set of naturals that
is not empty has a least element) stands in for induction. `Positions(s, x)` are the
places of a value in a queue: the removals that `_finishedCount` waits for;
`PositionsAppend` and `PositionsTail` say what queueing and applying a change does to
their number. `_dispatchCount` is compared with a sum over all requests
(`SumFunctionOnSet` of the community modules): the sum of a set is an element's value
plus the sum of the rest (`SumRemove`), it depends on the values in the set only
(`SumSame`), it is at least each value (`SumPositive`), and changing one value changes
it by as much (`SumChange`).

## 4. Runs

| run | expects | what it shows |
|---|---|---|
| `serial_port` | pass | Two readers, two writers, two messages of two fragments that mix in the terminal, two pool threads, terminal and `read_buf` of two fragments, one death of socat. `TypeOK`, `ReplyInOrder`, `AckedWriteIsWhole` |
| `device_info` | pass | One pool thread, two info calls and a write, bodies of no word, one and two, two changes, one failing curl. `InfoFreshIfFetched`, and `WriteServedIfAnswered`: if the device ends each request in some way, no info call keeps the only thread, and the writer is answered |
| `message_loss` | violation | `MessageNotLost`: a message and some of the next in the terminal, one `read()`, what follows the first NUL is dropped |
| `write_lost` | violation | `AckMeansWritten`: a write before socat is up is acknowledged |
| `stale_info` | violation | `InfoFresh`: a call gets the info, the device changes, curl fails in a second call, which returns the first call's info |
| `blocked_read` | violation | `WriteServed`: a read of a silent port keeps the only thread |
| `pool_safety` | pass | Up to three threads with `Size` 1, descriptors 3 and 5 on both sides of the pipe's 4, each registered twice. `TypeOK`, `LeaderToken`, `PipeMatchesChanges`, `SnapshotCurrent`, `FdRange`, `FinishedOncePerUnregister`, `ChangesConsistent`, `DestroyAsserts`, `CountersMatch`, `SpareThread`, `NoLostWakeup` |
| `pool_progress` | pass | One to two threads with an idle timeout, destroyed at any time the owners may: `NoStarvation`, `EventuallyFinished`, `ThreadsImmutable`, `JoinReturns` |
| `connection` | pass | A two-way request and a batch of two, one hold, a socket that takes one message, with and without timeout. `TypeOK`, `FinishedCountMatches`, `TransceiverOutlivesPool`, `DispatchCountMatches`, `CloseConnectionIsSafe`, `ExceptionWhenClosing`, `FinishedIsFinal`, `ClosingIsFinal`, `DestroyedIsFinished`, and `ImplementsLife`: the connection implements `ConnectionLife` with its fairness |
| `hold_leak` | violation | `HoldIsComplete`: a request read before `hold` is dispatched after `waitUntilHolding` has returned |
| `adapter` | pass | The threads of main, of an administrator who activates and holds the adapter and of one who stops the server make up to four calls, in any order, while the pool accepts a connection and dispatches a request that uses the adapter, over an endpoint with a timeout or without. `TypeOK`, `AcceptorOutlivesPool`, `AcceptorWhileUsable`, `ServantsOutliveRequests`, `ReleasedIsQuiet`, `PoolDestroyedEmpty`, `FailedIsFinished`, `IterationIsSafe`, `OperationsReturn` |
| `activate_assert` | violation | `ActivateAssert`: two first activations and a `deactivate` |

Deadlock is not checked: every one of these systems may come to rest (all calls
answered, the pool joined, the connection finished, or no client left), and what must
not stop is stated as a liveness property.

*Bounds.* Two readers, two writers and two messages are what it takes to mix or lose
data; two fragments per message with buffers of two make every message arrive in
pieces and meet a full buffer. Two registrations of a descriptor put an unregister and
a re-registration in the queue at once; three threads are a leader, an upcall and
a thread that is born or leaving, and descriptors below and above the pipe's reach
both ends of the scan. A batch of two can fail before and between its
invocations; one hold gives two outstanding `finished` calls when the connection
closes. In `adapter` four calls are enough for two operations of one thread to
meet two of others: a first and a second activation around a hold, or two
destructions against a wait; one connection can be in every state of its
acceptance when the factory reaches it.

*Symmetry* is used only in runs without liveness, over interchangeable calls and
threads.

*Fairness.* Weak fairness of each thread that can run, which the operating system's
scheduler gives; of socat's copying, which is a loop over ready descriptors; and of
upcalls returning. Nothing is assumed of clients, the device or the owners of
handlers. In particular no fairness makes `Fetch` happen, as curl has no timeout
(device.c:9): a device that accepts a request and never answers keeps the only thread
for ever, and `WriteServedIfAnswered` has that the device does not do this as its premise. In `ConnectionI` a peer of an endpoint with a timeout may stop for ever;
without a timeout, which is what main.cpp's `default -p 10000` gives, it is assumed to go
on reading and to close its end when it reads CloseConnection: the code waits
without limit for that (`waitUntilFinished`, ConnectionI.cpp:435-438). That the pool
serves a registered connection is what `pool_progress` shows (`NoStarvation`). That
servants return is an assumption of `connection` that `readSerialPort` breaks on a
silent port, as `blocked_read` shows. `adapter` assumes of threads and of the pool the
same, and of connections the `Fairness` of `ConnectionLife`, which `ImplementsLife`
shows for `ConnectionI`. Its endpoint has a timeout or not (`factory.timed`, chosen in
`Init`). With one `waitUntilFinished` closes the connection by force
(`CloseTimesOut`), and nothing is assumed of the peer; without one, the server's case,
it just waits, and there the peer is assumed to close its end after CloseConnection
(`PeerCloses`), as in `ConnectionI`. Nothing makes an application call anything.

*When `waitForHold` does not return.* `OperationsReturn` says that once the
communicator shuts down every operation of every thread returns, unless some
`waitForHold` stays in `HoldStuck`, and `HoldStuck` names the only ways it can,
with the adapter's mutex held, so that the shutdown waits for it too:

* the adapter was not held, or was activated again before the wait began;
* the thread that accepted a connection activates it after `hold` has visited it
  (ConnectionFactory.cpp:783): the factory holds and the connection does not;
* the servant of a dispatched request needs the adapter's mutex, which the waiting
  thread keeps (ObjectAdapterI.cpp:166).

These are faults of the code, not excluded by the property: it says that there are no
others.

*When `destroy` does not complete.* An operation that throws has returned too, so
`OperationsReturn` also says that a `destroy` that has begun (`Destroying`) ends with the
communicator destroyed. There is one exception, `LateDeactivate`: the `deactivate` in it
waits for an activation (ObjectAdapterI.cpp:189), meanwhile another thread deactivates
and releases the adapter, and the resumed call uses the null `_instance`
(ObjectAdapterI.cpp:211). The exception leaves `Instance::destroy` with
`StateDestroyInProgress` set: every later `destroy` returns at once and the pool is
never destroyed.

### Findings

* `string(read_buf)` drops what follows the first NUL of a read (main.cpp:40).
* `writeSerialPort` succeeds when nothing was written (main.cpp:49-53).
* `deviceInfo` returns an earlier call's info when curl fails (device.c:9-13). The
  same happens when the device answers with an empty body: fscanf stores nothing, and
  the static buffer still holds the earlier word. `InfoFreshIfFetched` excepts both.
* A read of a silent port blocks the whole server with the default pool
  (main.cpp:36).
* `waitForHold` returns before holding is complete, contrary to
  slice/Ice/ObjectAdapter.ice:86-88: `parseMessage` turns requests away in
  `StateClosing` only (ConnectionI.cpp:2058), and the leader may hold one it has
  already read.
* Two threads that activate the adapter for the first time share `_waitForActivate`;
  the first to be done clears it for both, and `deactivate` overtakes the other,
  which then meets `assert(!_deactivated)` (ObjectAdapterI.cpp:133).

Two more faults are in the model and named by the properties, without a run of their
own. `deactivate` throws when it resumes after the adapter's release, though
slice/Ice/ObjectAdapter.ice:104-106 says that deactivating a deactivated adapter is
ignored and a comment (ObjectAdapterI.cpp:226) that "We can't throw exceptions in
deactivate". And curl without a timeout lets a silent device stop the server
(device.c:9).

## 5. Proofs

Every safety property that a passing run checks is proved here without the bounds of
the run.

### The serial server

`SerialServerProofs` proves, for any sets of calls, messages and bodies, messages of
any length and any sizes of `read_buf`, the terminal and the pool
(`ConfigAssumption`, `CallsDisjoint`, `MarkersAssumption`, `BodiesAssumption` of
`SerialServer`):

| theorem | statement |
|---|---|
| `TypeCorrect` | `Spec => []TypeOK` |
| `ReplyOrdered` | `Spec => []ReplyInOrder` |
| `WriteWhole` | `Spec => []AckedWriteIsWhole` |
| `InfoIsFresh` | `Spec => []InfoFreshIfFetched`, if `PoolSize = 1` |

`MarkersAssumption` only says that the markers of the model (the NUL, the memory behind
`read_buf`, the reply that has not come) are no data and no acknowledgement. The
invariant `IInv` has three parts. `KindInv` is the types. `LineInv` is about what a
reader will find: the terminal holds fragments of messages that were sent, of each an
unbroken run in order (`Ordered`), and for each message there is a `k` such that what is
still on its wire begins with the `k`-th symbol and the run in the terminal, if any, goes
on to the one before (`SentAt`, `Upto`). The reply property is not inductive without the
latter: a read may leave any part of a message behind and take it up later, mixed with
any other, and what socat adds continues a run only because the wire of each message
goes on where the terminal ends. `WriteInv` says how far a
writer is: it is at some fragment `k` of its message, has the rest unsent, and the
line ends with the `k - 1` fragments before (`WriterAt`). That no other writer gets in
between is the guard of `WriteSome`, the terminal's own lock on a `write()`.

`InfoIsFresh` uses a further invariant, `InfoInv`: with one thread at most one call is
in a servant (`OneInServant`, from the number of busy threads, `FreeIsIdle`), and
therefore the file and the static buffer are this call's from the truncation on
(`InfoAt`). Its hypothesis is the default configuration of the server; with two
threads the property fails, as two calls share both. That an empty body has to be
excepted came out of this proof, at `Scan`.

### The thread pool

`ThreadPoolProofs` proves, for any finite set of threads, any descriptors below
`FD_SETSIZE`, any `Size <= SizeMax` and any bound on registrations
(`FdsAssumption`, `SizeAssumption`, `BoundAssumption` of `ThreadPool`):

| theorem | statement |
|---|---|
| `TypeCorrect` | `Spec => []TypeOK` |
| `OneLeader` | `Spec => []LeaderToken` |
| `InterruptPerChange` | `Spec => []PipeMatchesChanges` |
| `SnapshotStaysCurrent` | `Spec => []SnapshotCurrent` |
| `ExactRange` | `Spec => []FdRange` |
| `WakeupNotLost` | `Spec => []NoLostWakeup` |
| `ThreadsStayAfterDestroy` | `Spec => ThreadsImmutable` |

They rest on one inductive invariant, `IInv`: the conjunction of these properties
with `OneThread` (a pool with `SizeMax = 1` uses one thread only, which leads or is in
its upcall, so that skipping `promoteFollower` is sound) and `HandlerHeld` (a
thread in `message` or `finished` has a handler). None of the parts is inductive
alone. `SnapshotCurrent` needs `LeaderToken`: the leader's snapshot stays valid
because only a leader changes the handler map. It needs `FdRange` for the scan and
`PipeMatchesChanges` for an interrupt to come with a change. `NoLostWakeup` needs
`LeaderToken`, since a thread may go to sleep only while somebody leads.

The argument has one lemma per action that proves each conjunct of `IInv'`;
`MinFacts`, `MaxFacts`, `RangeFacts`, `RangeUnique` and `NextFdIsReady` are about
the scan, `PromoteFollowerEffect` and `TakeChangeEffect` about what several actions
share.

`ThreadPoolCountProofs` adds, from the same assumptions:

| theorem | statement |
|---|---|
| `FinishedOnce` | `Spec => []FinishedOncePerUnregister` |
| `ChangesFit` | `Spec => []ChangesConsistent` |
| `DestroyFindsNothing` | `Spec => []DestroyAsserts` |
| `CountersCorrect` | `Spec => []CountersMatch` |
| `SpareThreadLeft` | `Spec => []SpareThread` |

`QueueInv` is the first two together. `Consistent` states `ChangesConsistent` of any
queue, any handlers and any owners, so that a change that is appended
(`ConsistentAppend`) and one that is applied (`ConsistentTail`) can be treated by
themselves; the calls that the owners are owed are the removals in the queue
and the threads that are about to call `finished`. `DestroyAsserts` follows: if nothing
is owed no removal is queued, so the last queued change would be an addition of an
owner that is still registered (`NothingLeft`). `CountInv` is the last two with
`ExitDestroyed` (`run` returns `true` only in a destroyed pool, so the counters, which
nobody corrects then, need not match). The thread in
`promoteFollower` is alive and not yet in an upcall, so fewer threads are busy than
alive before it and at most all of them after it, when the pool grows
(`PromoteCounts`); since `load` is at least `inUse` after it was recomputed, a thread
leaves only if a spare one stays (`UpcallReturnsCounts`).

### The adapter

`ObjectAdapterProofs` proves, for any finite set of threads that may call any operations
any number of times, and any connections and requests (`AdapterAssumption` of
`ObjectAdapter`):

| theorem | statement |
|---|---|
| `TypeCorrect` | `Spec => []TypeOK` |
| `AcceptorClosedLast` | `Spec => []AcceptorOutlivesPool` |
| `AcceptorThere` | `Spec => []AcceptorWhileUsable` |
| `ServantsLast` | `Spec => []ServantsOutliveRequests` |
| `ReleasedLast` | `Spec => []ReleasedIsQuiet` |
| `PoolLast` | `Spec => []PoolDestroyedEmpty` |
| `FailedIsDone` | `Spec => []FailedIsFinished` |
| `IterationSafe` | `Spec => IterationIsSafe` |

The threads are finite because the adapter counts its direct calls. The parts of `IInv`:

* `StackInv`: what an operation returns to, by the place its thread is at;
* `LockInv`: who keeps a lock across steps and what for; the factory is closed, or
  asked to close, only once the adapter is deactivated;
* `AcceptorInv`: `_finishedCount` is the number of queued removals and `finished` calls
  under way, and the last queued change agrees with `_registeredWithPool`, so that the
  last `finished` finds an empty queue and may close the acceptor;
* `EnderInv`: one thread at a time takes the adapter apart, and `_directCount` is the
  number of threads in direct calls, none meanwhile;
* `EndInv`: the adapter ends before its factory forgets it, and that before the pool
  is destroyed;
* `LifeInv`: a connection that is not validated is not used, one that failed is
  finished;
* `KnownInv`: a connection that is not finished is in the factory's list, or in the copy
  of the thread that waits for it. `waitUntilFinished` takes the list away, and
  `Message` takes finished connections out of it: without this part neither
  `ServantsOutliveRequests` nor `ReleasedIsQuiet` is preserved.

There is a lemma for each action. They share frames: `Moves` and `SameIn` say that one
thread moves and where nobody does, and `StackFrame`, `LockFrame`, `AcceptorFrame`,
`EnderFrame`, `EndFrame`, `LifeFrame` and `KnownFrame` that a part survives it.
`WithoutRange` is what removing elements from the list leaves. TLC checked `IInv` as an
invariant of the run's instance before it was proved.

### The connection

Proved for any finite set of requests, any of them two-way, batches of any length,
any bound on holds and any capacity of the socket (`ReqsAssumption`,
`BoundsAssumption` of `ConnectionI`):

| module | theorem | statement |
|---|---|---|
| `ConnectionIProofs` | `FinishedCountCorrect` | `Spec => []FinishedCountMatches` |
| | `TransceiverCorrect` | `Spec => []TransceiverOutlivesPool` |
| | `ExceptionCorrect` | `Spec => []ExceptionWhenClosing` |
| | `ClosingFinal` | `Spec => ClosingIsFinal` |
| `ConnectionIDispatchProofs` | `TypeCorrect` | `Spec => []TypeOK` |
| | `DispatchCountCorrect` | `Spec => []DispatchCountMatches` |
| | `CloseConnectionCorrect` | `Spec => []CloseConnectionIsSafe` |
| | `FinishedCorrect` | `Spec => []FinishedIsFinal` |
| `ConnectionIRefinement` | `LifeRefined` | `Spec => Life!Safe` |

`ConnectionIProofs` begins with what `SetState` does: one lemma for each kind of
switch, so that no later proof opens the nest of `setState`, `registerWithPool` and
`unregisterWithPool`. Its invariant `PoolInv` is about the connection and the pool:
the three invariants above; `QueueEnds` (the last queued change, or the pool's selection if there is
none, agrees with `_registeredWithPool`, so that a closed transceiver means the pool
has let go);
`HeldInPool` (the leader holds a message only of a selected descriptor);
`ClosedUnregistered`; `Unvalidated` (before validation the pool knows nothing of the
connection, which is why `setState` may close the transceiver at once); and
`ShutdownWhenClosing` (the mutex is kept across `initiateShutdown` only in
`StateClosing`).

`ConnectionIDispatchProofs` adds what a request goes through. `IInv` is `PoolInv`
with `RestTypes`; `CallInv`, which relates how far each invocation is to its place
in the code and to the count; `FreshInv`, that a request that is not yet dispatched is on its way once and has left
no trace, without which `CallInv` is not preserved when it is dispatched;
`ThreadInv`, that the accepting, holding and waiting threads are where the state
allows (it needs `CallInv` for the waiter: what drained once must stay drained); and
`ReplyInv`, about what has been written: a reply is missing only if the connection is
closed, and CloseConnection is written at `_dispatchCount = 0`. It needs all
the others. TLC checked `IInv` as an invariant before it was proved.

`LifeRefined` uses the mapping of `Life` in `ConnectionI`. Each action is shown to
be a step of `ConnectionLife` or to leave the mapped state alone; `IInv` is needed
where one step of the code changes state, calls and transceiver together, and
where the abstract step has a guard that the code leaves to its callers.

### Only model-checked

Liveness is out of the prover's reach and stays with TLC: `NoStarvation`,
`EventuallyFinished`, `JoinReturns`, `DestroyedIsFinished`, `OperationsReturn`,
`WriteServedIfAnswered`, and the fairness half of `ImplementsLife`.

## 6. Not modelled

* Of the adapter, the factory and the communicator: thread-per-connection mode, an
  adapter with a pool of its own, a second adapter, routers, the servant map, lazy
  creation and property parsing. The server uses or configures none of them except
  the servant map, which it fills before it activates the adapter.
* The outgoing half of `ConnectionI`, `OutgoingConnectionFactory`, proxies,
  compression and datagrams: the server makes no outgoing call.
* `Incoming::invoke`, streams, servant lookup: sequential conversion; their outcomes
  (reply, no reply, exception) are actions of `ConnectionI`.
* An exception that leaves `ThreadPool::run` (ThreadPool.cpp:880-897): `run` catches the
  local exceptions of upcalls (657, 584), so only another kind, or a failing `select` of
  the pool itself, would leave it.
* Which of socat's processes takes what the server writes.
* Memory: a device word longer than `buffer`, a descriptor of `FD_SETSIZE` or more.
* IceStorm, IceGrid, Glacier2, Freeze, IceBox, IcePatch2, IceSSL, IceXML, the Slice
  compilers, the C preprocessor and generated code. They are most of the repository's
  lines: the whole of the Ice 3.1.1 distribution is vendored, and the server links
  the runtime library only. A model of them would say nothing about this program.
