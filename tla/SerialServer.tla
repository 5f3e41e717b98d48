---------------------------- MODULE SerialServer ----------------------------
(***************************************************************************)
(* The ice_server_serial_port program: the servants SerialPort and Driver  *)
(* of src/src/main.cpp and src/src/device.c, called by clients that do     *)
(* what java/.../IceSteps.java does, on a pool of dispatch threads, with   *)
(* the pseudo terminal, socat and the device's HTTP service around them.   *)
(*                                                                         *)
(* A client call is used once.  Serial data is a sequence of fragments: a  *)
(* message is the fragments <<m, 1>> ... <<m, FragsPerMsg>> and a NUL.     *)
(* Each message comes over a connection of its own, and socat forks a      *)
(* process for each connection, so messages may mix in the terminal.       *)
(***************************************************************************)
EXTENDS Naturals, Sequences, FiniteSets, FiniteSetsExt

CONSTANTS
    ReadCalls,        \* calls of SerialPort::readSerialPort
    WriteCalls,       \* calls of SerialPort::writeSerialPort
    InfoCalls,        \* calls of Driver::readInfoFromDevice
    PoolSize,         \* threads of the server pool (Ice.ThreadPool.Server.Size)
    Messages,         \* messages the serial peer may send
    FragsPerMsg,      \* fragments of a message, without its NUL
    ReadMax,          \* fragments that fit in read_buf
    TxCap,            \* fragments the terminal holds for the serial peer
    Bodies,           \* bodies /device-info may have, as sequences of words
    MaxDeviceChanges, \* bound: how often the device's body changes
    MaxCurlFails,     \* bound: how often curl gets no answer
    MaxHangups,       \* bound: how often socat dies
    NUL, NoData, Garbage, NoReply, EmptyString, Torn

ASSUME ConfigAssumption ==
    /\ PoolSize \in Nat \ {0} /\ FragsPerMsg \in Nat \ {0}
    /\ ReadMax \in Nat \ {0} /\ TxCap \in Nat \ {0}
    /\ MaxDeviceChanges \in Nat /\ MaxCurlFails \in Nat /\ MaxHangups \in Nat

ASSUME CallsDisjoint ==
    /\ ReadCalls \cap WriteCalls = {}
    /\ (ReadCalls \cup WriteCalls) \cap InfoCalls = {}

ASSUME BodiesAssumption == Bodies # {} /\ Bodies \subseteq Seq(STRING)

Calls == ReadCalls \cup WriteCalls \cup InfoCalls

VARIABLES
    pc,          \* where each call is, on the client and then in its servant
    fd,          \* serial_port of each call: "none", "ok", "bad", "hup"
    unsent,      \* fragments a write call has still to put on the terminal
    reply,       \* what the client got back
    pty,         \* /dev/pts/0: "absent", "up" (socat holds its master), "gone"
    wire,        \* serial data of each message still on its way through socat
    rx,          \* serial data the terminal holds for the server
    tx,          \* serial data the terminal holds for the serial peer
    delivered,   \* serial data socat's processes took from the terminal
    children,    \* connections to tcp port 4641, each with a process of socat
    offered,     \* messages a peer has sent
    device,      \* the body of /device-info at present
    file,        \* content of /tmp/device-info
    buffer,      \* the static char buffer[128] of device.c
    scanned,     \* the body each info call read back from the file
    seen,        \* history: bodies the device had during each info call
    faults       \* how often each bounded environment event has happened

serial == <<pty, wire, rx, tx, delivered, children, offered>>
driver == <<device, file, buffer, scanned, seen>>
vars == <<pc, fd, unsent, reply, serial, driver, faults>>

-----------------------------------------------------------------------------
(* Data                                                                    *)

Fragments == (Messages \cup WriteCalls) \X (1..FragsPerMsg)

ASSUME MarkersAssumption ==
    NUL \notin Fragments /\ Garbage \notin Fragments /\ NoReply # "ack"

\* The connection that only listens to what the server writes.
Listener == "listener"

\* A message with its terminating NUL, as the serial peer sends it and as
\* writeSerialPort does (message.length() + 1 bytes).
Frame(m) == [i \in 1..(FragsPerMsg + 1) |->
                IF i <= FragsPerMsg THEN <<m, i>> ELSE NUL]

\* string(read_buf): what comes before the first NUL.
CString(s) ==
    LET nuls == {i \in 1..Len(s) : s[i] = NUL}
    IN  IF nuls = {} THEN s ELSE SubSeq(s, 1, Min(nuls) - 1)

\* Mutant: read_buf is not zeroed.
ReadResultsMutant(s) ==
    IF CString(s) = s THEN {s, Append(s, Garbage)} ELSE {CString(s)}

\* read_buf is zeroed, so the text ends where the data ends, unless the data
\* fills read_buf: then the conversion runs on into the memory behind it.
ReadResults(s) ==
    IF Len(s) = ReadMax /\ CString(s) = s
    THEN {s, Append(s, Garbage)} ELSE {CString(s)}

\* fscanf(ptr, "%s", buffer): the first word.
FirstWord(body) == IF body = <<>> THEN EmptyString ELSE body[1]

TornBody == <<Torn>>
-----------------------------------------------------------------------------
Init ==
    /\ pc = [c \in Calls |-> "start"]
    /\ fd = [c \in Calls |-> "none"]
    /\ unsent = [c \in WriteCalls |-> <<>>]
    /\ reply = [c \in Calls |-> NoReply]
    /\ pty = "absent"
    /\ wire = [m \in Messages |-> <<>>]
    /\ rx = <<>> /\ tx = <<>> /\ delivered = <<>>
    /\ children = {}
    /\ offered = {}
    /\ device \in Bodies
    /\ file = <<>>
    /\ buffer = EmptyString
    /\ scanned = [c \in InfoCalls |-> <<>>]
    /\ seen = [c \in InfoCalls |-> {}]
    /\ faults = [curl |-> 0, hangup |-> 0, change |-> 0]

-----------------------------------------------------------------------------
(* Clients and dispatch                                                    *)

InServant(c) == pc[c] \notin {"start", "casting", "queued", "done"}

ThreadFree == Cardinality({c \in Calls : InServant(c)}) < PoolSize

Goto(c, l) == pc' = [pc EXCEPT ![c] = l]

Return(c, v) ==
    /\ Goto(c, "done")
    /\ reply' = [reply EXCEPT ![c] = v]

\* The client calls checkedCast, a two-way ice_isA request.
ClientCast(c) ==
    /\ pc[c] = "start"
    /\ Goto(c, "casting")
    /\ UNCHANGED <<fd, unsent, reply, serial, driver, faults>>

\* A pool thread answers ice_isA; the client sends the operation.
DispatchIsA(c) ==
    /\ pc[c] = "casting" /\ ThreadFree
    /\ Goto(c, "queued")
    /\ UNCHANGED <<fd, unsent, reply, serial, driver, faults>>

\* A pool thread calls the servant.
DispatchCall(c) ==
    /\ pc[c] = "queued" /\ ThreadFree
    /\ Goto(c, IF c \in InfoCalls THEN "truncate" ELSE "open")
    /\ seen' = IF c \in InfoCalls THEN [seen EXCEPT ![c] = {device}] ELSE seen
    /\ UNCHANGED <<fd, unsent, reply, serial, device, file, buffer, scanned, faults>>

-----------------------------------------------------------------------------
(* SerialPortI.  A failed open is only printed: the call goes on with -1.  *)

Open(c) ==
    /\ pc[c] = "open"
    /\ fd' = [fd EXCEPT ![c] = IF pty = "up" THEN "ok" ELSE "bad"]
    /\ IF c \in ReadCalls
       THEN Goto(c, "read") /\ UNCHANGED unsent
       ELSE Goto(c, "write") /\ unsent' = [unsent EXCEPT ![c] = Frame(c)]
    /\ UNCHANGED <<reply, serial, driver, faults>>

\* n > 0: read() takes what the terminal holds, up to the size of read_buf.
ReadData(c) ==
    /\ pc[c] = "read" /\ fd[c] = "ok" /\ rx # <<>>
    /\ LET n == Min({Len(rx), ReadMax})
       IN  /\ \E v \in ReadResults(SubSeq(rx, 1, n)) : Return(c, v)
           /\ rx' = SubSeq(rx, n + 1, Len(rx))
    /\ UNCHANGED <<fd, unsent, pty, wire, tx, delivered, children, offered, driver, faults>>

\* n <= 0: bad descriptor, or the terminal was hung up during the call.
ReadFails(c) ==
    /\ pc[c] = "read" /\ fd[c] \in {"bad", "hup"}
    /\ Return(c, NoData)
    /\ UNCHANGED <<fd, unsent, serial, driver, faults>>

\* Mutant: a non-blocking write(), which puts what fits and returns.
WriteSomeMutant(c) ==
    /\ pc[c] = "write" /\ fd[c] = "ok"
    /\ tx' = tx \o SubSeq(unsent[c], 1, Min({Len(unsent[c]), TxCap - Len(tx)}))
    /\ unsent' = [unsent EXCEPT ![c] = <<>>]
    /\ Return(c, "ack")
    /\ UNCHANGED <<fd, pty, wire, rx, delivered, children, offered, driver, faults>>

\* Mutant: the terminal takes data beyond its capacity.
WriteSomeOverfull(c) ==
    /\ pc[c] = "write" /\ fd[c] = "ok"
    /\ tx' = tx \o unsent[c]
    /\ unsent' = [unsent EXCEPT ![c] = <<>>]
    /\ Return(c, "ack")
    /\ UNCHANGED <<fd, pty, wire, rx, delivered, children, offered, driver, faults>>

\* write() blocks while the terminal is full.  The terminal lets no second
\* write in before the first one has put all its data.
WriteSome(c) ==
    /\ pc[c] = "write" /\ fd[c] = "ok" /\ Len(tx) < TxCap
    /\ \A d \in WriteCalls \ {c} : unsent[d] \in {<<>>, Frame(d)}
    /\ LET n == Min({Len(unsent[c]), TxCap - Len(tx)})
       IN  /\ tx' = tx \o SubSeq(unsent[c], 1, n)
           /\ unsent' = [unsent EXCEPT ![c] = SubSeq(@, n + 1, Len(@))]
           /\ IF n = Len(unsent[c]) THEN Return(c, "ack") ELSE UNCHANGED <<pc, reply>>
    /\ UNCHANGED <<fd, pty, wire, rx, delivered, children, offered, driver, faults>>

\* A failed or short write() is only printed; the client is told nothing.
WriteFails(c) ==
    /\ pc[c] = "write" /\ fd[c] \in {"bad", "hup"}
    /\ Return(c, "ack")
    /\ unsent' = [unsent EXCEPT ![c] = <<>>]
    /\ UNCHANGED <<fd, serial, driver, faults>>

-----------------------------------------------------------------------------
(* DriverI and deviceInfo().                                               *)

\* Mutant: the file keeps what an earlier call left in it.
TruncateFileMutant(c) ==
    /\ pc[c] = "truncate"
    /\ Goto(c, "fetch")
    /\ UNCHANGED <<fd, unsent, reply, serial, driver, faults>>

\* system("curl ... >/tmp/device-info"): the shell empties the file first.
TruncateFile(c) ==
    /\ pc[c] = "truncate"
    /\ file' = <<>>
    /\ Goto(c, "fetch")
    /\ UNCHANGED <<fd, unsent, reply, serial, device, buffer, scanned, seen, faults>>

\* curl writes the body from its own offset 0: over what another call's curl
\* has written since, if bodies differ in length; an empty body overwrites nothing.
FetchOk(c) ==
    /\ pc[c] = "fetch"
    /\ file' \in IF file \in {<<>>, device} THEN {device}
                 ELSE IF device = <<>> THEN {file}
                 ELSE {device, TornBody}
    /\ Goto(c, "scan")
    /\ UNCHANGED <<fd, unsent, reply, serial, device, buffer, scanned, seen, faults>>

\* The device refuses, or breaks off; the exit status of system() is ignored.
FetchFails(c) ==
    /\ pc[c] = "fetch" /\ faults.curl < MaxCurlFails
    /\ faults' = [faults EXCEPT !.curl = @ + 1]
    /\ Goto(c, "scan")
    /\ UNCHANGED <<fd, unsent, reply, serial, driver>>

\* curl has no timeout: a device that accepts and never answers keeps the call
\* in system() for ever, so that no fairness is stated for this step.
Fetch(c) == FetchOk(c) \/ FetchFails(c)

\* Mutant: the file is fetched again until there is a word in it.
ScanRetry(c) ==
    /\ pc[c] = "scan"
    /\ scanned' = [scanned EXCEPT ![c] = file]
    /\ Goto(c, IF file = <<>> THEN "truncate" ELSE "store")
    /\ UNCHANGED <<fd, unsent, reply, serial, device, file, buffer, seen, faults>>

\* fopen and fscanf; at end of file fscanf stores nothing.
Scan(c) ==
    /\ pc[c] = "scan"
    /\ scanned' = [scanned EXCEPT ![c] = file]
    /\ Goto(c, IF file = <<>> THEN "copy" ELSE "store")
    /\ UNCHANGED <<fd, unsent, reply, serial, device, file, buffer, seen, faults>>

\* fscanf stores into the shared buffer byte by byte: unsynchronised readers
\* see a torn value meanwhile.
StoreBegin(c) ==
    /\ pc[c] = "store"
    /\ buffer' = Torn
    /\ Goto(c, "storing")
    /\ UNCHANGED <<fd, unsent, reply, serial, device, file, scanned, seen, faults>>

StoreEnd(c) ==
    /\ pc[c] = "storing"
    /\ buffer' = FirstWord(scanned[c])
    /\ Goto(c, "copy")
    /\ UNCHANGED <<fd, unsent, reply, serial, device, file, scanned, seen, faults>>

\* return deviceInfo(): the shared buffer is copied into the result string.
CopyBuffer(c) ==
    /\ pc[c] = "copy"
    /\ Return(c, buffer)
    /\ UNCHANGED <<fd, unsent, serial, driver, faults>>

-----------------------------------------------------------------------------
(* Environment: start.sh's socat, the serial peer, the device service.     *)

\* start.sh starts socat once, in the background, and does not wait for it.
SocatStart ==
    /\ pty = "absent"
    /\ pty' = "up"
    /\ UNCHANGED <<pc, fd, unsent, reply, wire, rx, tx, delivered, children, offered, driver, faults>>

\* socat and its processes are stopped, and the terminal's master closed.
SocatDies ==
    /\ pty = "up" /\ faults.hangup < MaxHangups
    /\ faults' = [faults EXCEPT !.hangup = @ + 1]
    /\ pty' = "gone" /\ children' = {}
    /\ wire' = [m \in Messages |-> <<>>] /\ rx' = <<>> /\ tx' = <<>>
    /\ fd' = [c \in Calls |-> IF fd[c] = "ok" /\ InServant(c) THEN "hup" ELSE fd[c]]
    /\ UNCHANGED <<pc, unsent, reply, delivered, offered, driver>>

\* echo -en "...\0" | nc localhost 4641: a connection that carries one message.
PeerSends(m) ==
    /\ pty = "up" /\ m \notin offered
    /\ offered' = offered \cup {m}
    /\ wire' = [wire EXCEPT ![m] = Frame(m)]
    /\ children' = children \cup {m}
    /\ UNCHANGED <<pc, fd, unsent, reply, pty, rx, tx, delivered, driver, faults>>

\* The process of a connection copies any non-empty part of what it has left
\* to the terminal, with no regard to the other processes.
SocatForwards(m) ==
    /\ wire[m] # <<>>
    /\ \E n \in 1..Len(wire[m]) :
          /\ rx' = rx \o SubSeq(wire[m], 1, n)
          /\ wire' = [wire EXCEPT ![m] = SubSeq(@, n + 1, Len(@))]
    /\ UNCHANGED <<pc, fd, unsent, reply, pty, tx, delivered, children, offered, driver, faults>>

\* The message has passed: nc and its process of socat end.
PeerEnds(m) ==
    /\ m \in children /\ wire[m] = <<>>
    /\ children' = children \ {m}
    /\ UNCHANGED <<pc, fd, unsent, reply, pty, wire, rx, tx, delivered, offered, driver, faults>>

PeerConnects ==
    /\ pty = "up" /\ Listener \notin children
    /\ children' = children \cup {Listener}
    /\ UNCHANGED <<pc, fd, unsent, reply, pty, wire, rx, tx, delivered, offered, driver, faults>>

\* Only for a connection is the terminal read.  The processes of several
\* connections compete for the data: which one takes it is left open.
SocatDrains ==
    /\ children # {} /\ tx # <<>>
    /\ delivered' = delivered \o tx
    /\ tx' = <<>>
    /\ UNCHANGED <<pc, fd, unsent, reply, pty, wire, rx, children, offered, driver, faults>>

DeviceChanges ==
    /\ faults.change < MaxDeviceChanges
    /\ faults' = [faults EXCEPT !.change = @ + 1]
    /\ device' \in Bodies \ {device}
    /\ seen' = [c \in InfoCalls |->
                   IF InServant(c) THEN seen[c] \cup {device'} ELSE seen[c]]
    /\ UNCHANGED <<pc, fd, unsent, reply, serial, file, buffer, scanned>>

-----------------------------------------------------------------------------
Server(c) ==
    \/ DispatchIsA(c) \/ DispatchCall(c)
    \/ c \in ReadCalls \cup WriteCalls /\ Open(c)
    \/ c \in ReadCalls /\ (ReadData(c) \/ ReadFails(c))
    \/ c \in WriteCalls /\ (WriteSome(c) \/ WriteFails(c))
    \/ c \in InfoCalls /\ (\/ TruncateFile(c) \/ Scan(c)
                           \/ StoreBegin(c) \/ StoreEnd(c) \/ CopyBuffer(c))

Environment ==
    \/ SocatStart \/ SocatDies \/ PeerConnects \/ SocatDrains \/ DeviceChanges
    \/ \E m \in Messages : PeerSends(m) \/ SocatForwards(m) \/ PeerEnds(m)

Next ==
    \/ \E c \in Calls : ClientCast(c) \/ Server(c)
    \/ \E c \in InfoCalls : Fetch(c)
    \/ Environment

\* The operating system schedules the pool's threads and socat; nothing makes
\* a client call, a peer connect, serial data arrive or the device answer.
Fairness ==
    /\ \A c \in Calls : WF_vars(Server(c))
    /\ \A m \in Messages : WF_vars(SocatForwards(m))
    /\ WF_vars(SocatDrains)

Spec == Init /\ [][Next]_vars /\ Fairness
-----------------------------------------------------------------------------
(* Properties                                                              *)

\* What readSerialPort gave back that came from the terminal.
ReadText(c) == IF reply[c] \in {NoReply, NoData} THEN <<>> ELSE reply[c]

Contains(s, t) ==
    \E i \in 0..(Len(s) - Len(t)) : SubSeq(s, i + 1, i + Len(t)) = t

Symbols == Fragments \cup {NUL}

\* Every variable holds a value of its kind, and the serial data in flight is
\* made of fragments and NULs.
TypeOK ==
    /\ pc \in [Calls -> {"start", "casting", "queued", "open", "read", "write",
                         "truncate", "fetch", "scan", "store", "storing", "copy",
                         "done"}]
    /\ fd \in [Calls -> {"none", "ok", "bad", "hup"}]
    /\ \A c \in WriteCalls : \E k \in 1..(FragsPerMsg + 2) :
          unsent[c] \in {<<>>, SubSeq(Frame(c), k, FragsPerMsg + 1)}
    /\ \A c \in WriteCalls : reply[c] \in {NoReply, "ack"}
    /\ pty \in {"absent", "up", "gone"} /\ children \subseteq Messages \cup {Listener}
    /\ \A s \in {rx, tx, delivered} \cup {wire[m] : m \in Messages} : \A i \in 1..Len(s) : s[i] \in Symbols
    /\ Len(tx) <= TxCap
    /\ offered \subseteq Messages
    /\ device \in Bodies
    /\ \A c \in InfoCalls : seen[c] \subseteq Bodies
    /\ faults.curl <= MaxCurlFails /\ faults.hangup <= MaxHangups
    /\ faults.change <= MaxDeviceChanges

\* Of each message a text holds an unbroken run of fragments, in order.
Ordered(t) ==
    \A i, j \in 1..Len(t) : \A m \in Messages : \A a, b \in 1..FragsPerMsg :
        i < j /\ t[i] = <<m, a>> /\ t[j] = <<m, b>> =>
            a < b /\ \A k \in a..b : \E l \in i..j : t[l] = <<m, k>>

\* What readSerialPort returns is serial data: fragments of messages that were
\* sent, of each message an unbroken run in order, whatever the pieces in which
\* socat's processes mix the messages and however many readers share the
\* terminal.  Memory behind read_buf is seen only behind a full read_buf.
ReplyInOrder ==
    \A c \in ReadCalls :
        LET t == ReadText(c)
        IN  /\ \A i \in 1..Len(t) :
                  \/ t[i] \in offered \X (1..FragsPerMsg)
                  \/ t[i] = Garbage /\ i = ReadMax + 1
            /\ Ordered(t)

\* A writeSerialPort that returns after writing to an open terminal has put its
\* whole message, NUL included and unmixed with other writers', on the line.
AckedWriteIsWhole ==
    faults.hangup = 0 =>
        \A c \in WriteCalls :
            reply[c] = "ack" /\ fd[c] = "ok" => Contains(delivered \o tx, Frame(c))

\* What ice.feature says of device info: the info readInfoFromDevice returns,
\* if it returns any, is the device's, as it was at some moment of the call.
InfoFresh ==
    \A c \in InfoCalls :
        pc[c] = "done" =>
            reply[c] \in {FirstWord(b) : b \in seen[c]} \cup {EmptyString}

\* With one pool thread, readInfoFromDevice returns the device's info as it was
\* at some moment of the call, whatever earlier calls left in the file and in
\* the static buffer, as long as the device answers, and with a word at least:
\* of an empty body fscanf stores nothing, and the buffer keeps its old word.
InfoFreshIfFetched ==
    faults.curl = 0 =>
        \A c \in InfoCalls :
            pc[c] = "done" /\ <<>> \notin seen[c] =>
                reply[c] \in {FirstWord(b) : b \in seen[c]}

\* What java/src/test/resources/ice.feature says of reading, "ice client get
\* server response": no message put on the serial port is lost, its fragments
\* are on the way, in the terminal or in some reply.
MessageNotLost ==
    \A m \in offered : \A i \in 1..FragsPerMsg :
        \/ Contains(wire[m], <<<<m, i>>>>) \/ Contains(rx, <<<<m, i>>>>)
        \/ \E c \in ReadCalls : Contains(ReadText(c), <<<<m, i>>>>)

\* What ice.feature says of writing: after the write request the message is on
\* the serial port.
AckMeansWritten ==
    \A c \in WriteCalls : reply[c] = "ack" => Contains(delivered \o tx, Frame(c))

\* What ice.feature says of writing with a connected peer: a client that calls
\* writeSerialPort is answered while a peer listens on the serial port.
WriteServed ==
    \A c \in WriteCalls :
        (pc[c] = "casting" /\ Listener \in children) ~> (pc[c] = "done" \/ pty = "gone")

\* The one thing of the driver that a writer may wait for is the device: if the
\* device ends every request in some way, with info, without, or by breaking
\* off, a writer is answered, for one pool thread too.
WriteServedIfAnswered ==
    (\A c \in InfoCalls : []<>(pc[c] # "fetch")) => WriteServed
=============================================================================
