# Priston Tale EU server: TLA+ models, checks and proofs

This directory models the authentication server of the Priston Tale EU
repository (C++14, Boost.Asio, MySQL Connector/C++). Paths below are relative
to the directory that holds `AuthServer/` and `Shared/`.

## 1. Inventory

```
 main ── Config ── Database::CreateDatabase ── ConnectionPool ── MySQL server
   │                                                │ Borrow / UnBorrow
   └─ Listener (acceptor thread)                    │
        │ OnAccept → Open                           │
        ▼                                           │
      Socket ◄── NetworkThread (io_service thread)  │
        │ ProcessIncomingData                       │
        ▼                                           │
      AuthSocket ── Opcodes ── login handlers ── QueryDatabase
```

| Component | State | Operations | Hard part | What makes it correct |
|---|---|---|---|---|
| `PacketBuffer` | byte vector, read and write position | `Read`, `Write`; `Socket` moves and resets the positions itself | boundaries, bytes moved to the front | the unread bytes are always the right ones |
| `Socket` | asio socket, two buffers, read and write state, flush timer | `Open`, `Write`, `FlushOut`, `OnWriteComplete`, `StartAsyncRead`, `OnRead`, `CloseSocket` | completion handlers in any order, partial transfers, a close with operations in flight, `Open` on another thread | FIFO in both directions, one flush trigger, a read loop that never stops, release after close |
| `NetworkThread` | io_service, set of sockets | `CreateSocket`, `RemoveSocket`, `Size`, destructor | the set is used by two threads, `Size` without the mutex | every closed socket leaves the set |
| `Listener` | acceptor, worker threads | `SelectWorker`, `BeginAccept`, `OnAccept` | failed accepts, a failing `Open`, a stale size | accepting goes on, load is spread |
| `handler_allocator` (in `Socket.h`) | one block, `m_inUse` | `allocate`, `deallocate` | two threads, read and write operation at once | the block is never handed out twice |
| `ConnectionPool` | `m_Pool`, `m_BorrowedPool` | constructor, `Borrow`, `UnBorrow` | threads that nest, connects that fail | exclusive lending, nothing lost, no waiting on each other |
| `Database`, `MySQLConnection` | map of pools, last connection | `CreateDatabase` | a connect that throws | the failure is reported |
| `QueryDatabase`, `Result` | connection, statement, result | `PrepareQuery`, `ExecuteQuery`, `GetResult`, `Fetch` | order of destruction, swallowed exceptions, a stale result | a result belongs to the query just run |
| `AuthSocket`, handlers | ping time | `ProcessIncomingData`, `HandleLoginUser`, `SendUserSuccess`, `HandlePing` | packets split or joined by TCP, nested queries, failing statements, a clock that wraps | what a client is told is true; a ping is judged by its socket's age |
| `Opcodes` | two maps | `InitializePackets`, `Store…`, `GetClientPacket` | numbers that both directions use | a header has the handler stored for the client's packets, or none |
| `ThreadPool`, `Worker` | task deque, `m_Stop`, condition | `Enqueue`, worker loop, destructor | the constructor of `Worker` enters the loop itself | a task runs once; the constructor returns |
| `FunctionCallBack` | deque | `AddCallBack`, `ProcessFunctions` | unlocked reader | each call-back runs once |
| `Config`, `main` | parsed file | `SetFile`, `Get…Default` | keys and defaults that disagree | what the file sets is used |
| `StrSplit`, codecs, `Timer` | none | pure functions | empty tokens, wrapping clock | inverse functions, right differences |
| `ServerPacket`, `StringBuffer`, `ClientPacket` | storage, read position | append, read | a field whose length is found by encoding it again | what was written is read, and the next field is found |

The concurrency is this: one acceptor thread runs `Listener::OnAccept`, hence
`Socket::Open`; each network thread runs the handlers of its own sockets, one
at a time; the flush timer armed in `Open` may expire on the network thread
while `Open` still runs. The database is shared by all network threads, and
its mutex is held during a blocking connect. `PROJECT.json` lists every hazard
at its line.

## 2. Modules

| Module | Models |
|---|---|
| `PacketBuffer` | class `PacketBuffer` and what `Socket` does to its fields, as operators on a record |
| `Socket` | class `Socket`, its two threads, Asio, the kernel and the peer |
| `ByteStream` | abstract: what one direction of a connection promises |
| `SocketProofs` | theorems about `Socket`: its handlers, its two streams and their refinement of `ByteStream` |
| `ConnectionPool` | class `ConnectionPool`, its users the `QueryDatabase` objects, and its creation at startup |
| `Lending` | abstract: what a `QueryDatabase` is promised by the pool of its database |
| `MCConnectionPool` | `ConnectionPool` for TLC, with symmetry for the run that needs no liveness |
| `ConnectionPoolProofs` | theorems about `ConnectionPool` |
| `Listener` | classes `Listener` and `NetworkThread`: the acceptor thread, the network threads and their sets of sockets |
| `ListenerProofs` | theorems about `Listener` |
| `HandlerAllocator` | class `handler_allocator` of `Socket.h`, under the operations of a socket on its two threads |
| `AllocatorProofs` | theorems about `HandlerAllocator` |
| `LoginSession` | `HandleLoginUser` and `SendUserSuccess` on several threads, with `QueryDatabase`, over `Lending` and a table of accounts |
| `LoginProofs` | theorems about `LoginSession` |
| `Session` | one `AuthSocket` from its constructor to its end: `Opcodes`, `ProcessIncomingData`, `HandlePing` and the server time |
| `MCSession` | `Session` for TLC: the limits |
| `SessionProofs` | theorems about `Session` |
| `Packets` | the packets of the earlier protocol: `ServerPacket`, `StringBuffer`, `ClientPacket` and their two encodings |
| `MCPackets` | `Packets` for TLC: numbers at the edges of each length |
| `PacketsProofs` | theorems about `Packets`: the codecs, and packets of any length |
| `Startup` | `main`: from the configuration file to a server that listens, with `Config`, `StrSplit` and `Database::CreateDatabase` |
| `MCStartup` | `Startup` for TLC: the files |
| `StartupProofs` | theorems about `Startup` |

### 2.1 Socket and PacketBuffer

A byte is represented by its position in its stream, so "lost, repeated or
reordered" can be read off the numbers; `Garbage` (0) is a byte of no stream.
A buffer is `[bytes, read, size]`: the contents up to the write position, the
read position, and the size of the vector.

One completion handler is one action, because Asio runs the handlers of a
network thread one at a time and each is atomic to the others. `Open` is three
actions, with `OpenCheck` and `OpenStartRead` splitting `StartAsyncRead`, since
`Open` runs on the acceptor thread and the timer it armed in
`SendVersionCheck` may already run `FlushOut`, and a failed transfer may
already close the socket, on the other one.

| Variable | Code |
|---|---|
| `opening` | how far `Open` is |
| `isOpen`, `registered` | `m_Socket.is_open()`; membership in `NetworkThread::mSockets` |
| `writeState`, `readState` | `m_WriteState`, `m_ReadState` |
| `out`, `inBuf` | `m_OutBuffer`, `m_InBuffer` |
| `flushes` | waits on `m_OutBufferFlushTimer` with a handler to come |
| `sendOp`, `readOp` | the `async_write_some`, `async_read_some` in flight, or done with the handler queued |
| `kernelIn` | what `available()` counts |
| `written`, `wire`, `arrived`, `consumed` | history: what was written, sent, received, read |
| `torn` | history: storage was freed, or copied over itself, under a transfer |

`ProcessIncomingData` is virtual. The model gives it every way of ending that
`OnRead` distinguishes: true with all bytes read, with or without a reply or a
`CloseSocket`; false with `errno = EBADMSG` after any number of bytes; false
otherwise. The constant `Outcomes` restricts it: `{"true"}` is the server as
it is (`AuthSocket` reads everything and returns true), all three is the
contract `OnRead` offers.

Three choices stand for undefined behaviour. A `Write` that outgrows the
vector may or may not move it; if it does under a transfer, any of the bytes
the transfer then takes may be garbage. When `memcpy` is given overlapping
ranges and `OverlapSafe` is FALSE, any of the bytes moved may be garbage. When
`OverlapSafe` is TRUE it copies like `memmove`; that holds for a forward copy
to a lower address on the usual implementations, and the runs that isolate
other questions use it.

`OpenThrows` is the case that `remote_endpoint` throws: `Open` catches
`error_code`, but what is thrown is a `system_error`, so the process ends.

### 2.2 ConnectionPool

Connections are numbered as they are made. `Ask` is the construction of a
`QueryDatabase`, which leaves the thread in `waiting` for the mutex;
`BorrowPooled` and `BorrowMisses` are the two sides of `Borrow`, the second
keeping the mutex (`owner`) while the thread connects (`BorrowConnects`,
`BorrowFails`). The loop over `m_BorrowedPool` in between never finds a unique
pointer, as it tests a copy it has just made, and changes nothing. `UnBorrow`
is the body of the destructor of `QueryDatabase`; the members, its statement
among them, are destroyed after it (`closing`, `CloseStatement`). Objects have
scope, so a thread gives back what it borrowed last, and it may nest:
`SendUserSuccess` queries while the `QueryDatabase` of `HandleLoginUser` is
alive, so two levels are what the code reaches.

Asserts are what the default build makes of them: nothing (`NDebug`), so
`PrintException`, which asserts when the server "has gone away", only logs.

At startup each connect may succeed, may be refused the schema (an exception
that `Database::CreateDatabase` catches and `main` reports) or may fail to
connect, in which case the half-made `Connection` is destroyed and its
destructor uses a null pointer.

What the users of the pool rely on is module `Lending`: a thread that asks is
lent a connection whatever the others hold, unless the process ends, and a
thread gives back what it has. `ConnectionPool` implements it under the mapping

| `Lending` | `ConnectionPool` |
|---|---|
| `phase` | `status`, with the four ways of ending taken together |
| `depth` | the length of `held`, per thread |
| `asking` | `waiting` and the `owner` of the mutex that connects |

`LenderSpec` is this refinement with its liveness. `LoginSession` is built on
`Lending` and not on the pool itself, so what is shown of the login holds for
any pool that lends like this.

### 2.3 Listener and NetworkThread

`Socket` follows one connection; `Listener` follows the set each of them is in.
What `Listener` needs to know of a socket is little: `served` are those whose
handlers may run on their network thread, that is, `Open` has armed the flush
timer (`Socket`: `OpenSendVersion`) and `CloseSocket` has not begun.

| Variable | Code |
|---|---|
| `pc` | where the acceptor thread is: in `SelectWorker` (`scan`), waiting for a client, in `Open` before or after the timer is armed |
| `index`, `minIndex`, `minSize` | locals of `SelectWorker`; after it `minIndex` is `worker` |
| `pending` | `socket`, held by the lambda of `async_accept` and by `OnAccept` |
| `mSockets` | `NetworkThread::mSockets` of each worker |
| `served`, `closing` | sockets with handlers to run; the one whose `CloseSocket` is between `m_Socket.close()` and its close handler |
| `left` | history: removals by network threads since `SelectWorker` began |

`Size` is read without the mutex, worker by worker, so the scan is one action
per worker (`SelectFirst`, `SelectNext`) and sockets close in between.
`CreateSocket` and `RemoveSocket` hold the mutex and are atomic. `CloseSocket`
is two actions, since the asio socket is closed before the close handler takes
the mutex. The bound `Sockets` is on the objects alive at once.

### 2.4 LoginSession

A network thread runs one handler at a time, so a handler is a little program
(`pc`) and its steps end where another thread can come in between: at a
statement, at `Borrow` and at the return of a connection. The places are those
of the two functions: `select`, `result`, `update`, `success`, `realms`,
`return`.

| Variable | Code |
|---|---|
| `process` | how the process ended: an exception nobody catches, a null pointer used, an array overrun |
| `accounts`, `online` | the columns `sha_pass` and `online` of the table `account`; a password stands for the hash that belongs to it |
| `request` | the packet the handler points to |
| `row` | what `GetResult` finds: no result set, no row, or a row |
| `replies` | the packets given to `SendPacket` |
| `seen` | history: what the account had since the request came |
| `phase`, `depth`, `asking` | the pool, by `Lending` |

A statement may fail wherever one is run. `ExecuteQuery` catches the exception
(`SelectFails`, `UpdateFails`, `RealmsFail`), and the handler goes on; what the
connector throws elsewhere ends the process (`ConnectorThrows`).
`DecryptPacket` returns a pointer into its own frame, so the packet may have been
overwritten when the handler reads it: `intact` says whether it was. One that
was overwritten names no account or has the wrong password; that it might name
another account by chance is left out. `UPDATE` and `SELECT` are atomic, which
is what the server does for a single row.

### 2.5 Startup

`main` runs alone until the listener's thread starts, so its steps are what it
calls: the file, the database, the listener. What is hard is the data, so the
file is a sequence of lines, and the loop of `Reload` takes them one by one
(`ReadLine`, `AddEntry`) into `l_NewEntries`, which replaces `m_Entries` only at the end
of the file (`Reload`); a bad line ends it before (`ReloadFails`). `FileIsObeyed`
compares the outcome with the last line of each key. `StrSplit` drops empty
fields, and `Holder` hands out the tokens that are left by position. `Listen`
narrows its numbers to `uint16` and `uint8`, and needs `BindIP` to be an address in
numbers; `GetIntDefault` and `from_string` may throw what nobody catches
(`ListenThrows`), and of no workers `BeginAccept` takes the first. `Login` is the first `QueryDatabase("auth")`, which needs the database to
have that name.

### 2.6 HandlerAllocator

Asio keeps an operation in flight in memory it asks of the handler's allocator,
and gives it back just before it calls the handler. A socket has one block for
its read and its write; what finds it in use, or is larger, goes to the heap.
The flush timer has an ordinary handler and takes no part.

| Variable | Code |
|---|---|
| `inUse` | `m_inUse` |
| `memory` | where the object of the read, of the write, is |
| `at` | where each thread is: in `Open`, in `allocate` before or after the test of the flag, in a handler |
| `timer` | a wait on `m_OutBufferFlushTimer` is pending |
| `fits` | which of the two objects are no larger than the block; the build decides |

What a socket does is taken from `Socket`, as far as it starts or ends operations:
one read and one write at most, the read again and again, a write after each
timer and for what a transfer left (`InTurn`, which `SocketProofs` proves). `allocate` is two steps, the test and the set,
because two threads are in it: the acceptor thread for the first read and the
network thread for everything else. When both operations have got the block
(`Shared`), what follows is undefined and the model ends.

### 2.7 Session

`Session` follows what `LoginSession` leaves out: how a packet reaches its handler,
and the ping. The actions are `InitializePackets` (which `main` calls before it
listens), the constructor, `Open`, and one `ProcessIncomingData` for each read, with
the handler it calls as part of it.

| Variable | Code |
|---|---|
| `opcodes` | `mClientOpcode` and `mServerOpcode` |
| `pongTimer` | the entry `PongTimer`; `Junk` is no number |
| `clock`, `p_PingDiff` | what `GetServerTime` returns now, what it returned to the constructor |
| `state` | the socket, or how the process ended |
| `sent`, `taken` | the client's packets, and how much of them was read |
| `age`, `heard` | history: what the clock gained since the constructor, and when the client was last heard of |
| `exact` | history: whether each read was one packet so far, and its header found as it was sent |
| `verdict` | history: what `HandlePing` made of the age |

A packet is three units, what is before its header, the header, and the rest, and a
read brings any number of units: parts of packets, and several at once. What was read
is copied into `Packet[8192]`, on the stack, of `PacketRoom` units here: more than that
overruns it, and no behaviour is defined (`DecryptOverruns`). `DecryptPacket` returns a
pointer to this array, which is gone when `ProcessIncomingData` reads the header, for
the log and again to find the handler. So the header may be any, also when the read
was one whole packet, and the handler that is called may be any too. `PING` and `SMSG_PONG` are the same number in the code and so
are they here; which map an entry goes to is what keeps them apart.

`HandlePing` takes the address of its parameter for that of the packet. So the length
it compares first is half of a pointer, which may or may not be the right one
(`PingIgnored`); and what it writes and sends is not the packet, after which no
behaviour is defined (`PingAnswered`). In between it compares two 32-bit readings of
the clock: `Minus` wraps, and `Limit` is a signed number converted to an unsigned one.
The clock has `Span` values, may start anywhere and may be set back.

### 2.8 Packets

These classes are left from an earlier protocol and no code of the servers calls
them, but they are the only use there is of the codecs. A behaviour writes a header
and some fields (`Append…`), and hands the bytes to a `ClientPacket`, which reads
the fields in order, each by some function for its kind. The bytes of the numbers are
modelled one by one, since that is what the codecs are about; six bits are `Digit`
values, so an `int` has `Span = 4 * Digit^5`, which is 2^32 for the code's 64.

| Variable | Code |
|---|---|
| `stage` | writing, reading, or an array overrun or not ended by a zero (`EncodeWired`), a string read past its end (`DecodeWired`), an exception of `substr` |
| `m_Storage`, `m_Content`, `m_Header`, `m_ReadPosition` | the members of that name |
| `fields` | history: what was written, and where each field ends |
| `results` | history: what was read, and by which function |

`EncodeWired` makes a `std::string` of its six characters with no zero behind them
(`SharedDefines.cpp:117`), so that it reads beyond its array, unless there is a zero
among what is in there by chance. `Unterminated` is the case that this goes wrong, and
the behaviour ends there; it can happen wherever a number is encoded, to write it or to
measure what was read.

## 3. Runs

| Run | Question | Bounds |
|---|---|---|
| `socket_core` | The asserts of the handlers, one trigger, operations in turn, nothing lost either way, read loop alive, for every outcome of `ProcessIncomingData` | buffer 2, version 1, replies 1-2, 4 bytes in, 5 out, both kinds of undefined behaviour on; 174 thousand states |
| `socket_stream` | Each direction implements `ByteStream!FairSpec`; every read has room; a closed socket is released | buffer 4 = all that is written, 5 bytes in, 4 out |
| `socket_growth` | *violated:* what `Write` is given is what is sent | buffer 2, 3 bytes out |
| `pool` | Exclusive lending, accounting, bound on connections; the pool implements `Lending!FairSpec` | 2 threads, 3 nested queries each, 2 configured connections; 285 thousand states |
| `pool_shared` | *violated:* a connection in the pool is shared with no query | 2 threads, 1 connection |
| `listener` | Every socket is in the set it should be in; the worker chosen has the fewest; accepting goes on | 3 network threads, 4 sockets; 42 thousand states |
| `allocator` | The flag of the block tells the truth; only the first read can race; memory of a closed socket comes back | none: one socket, 168 states |
| `login` | What a client is told is true, who is online has earned it, every login ends | 2 threads, 1 account, 2 passwords, 1 change, 0, 2 or 5 realms; 128 thousand states |
| `session` | A ping is judged by the socket's age, `GetTimeDifference` measures the time | a clock of 6 values, ages -2 to 9, limits 2, -2 and no number, 2 packets of 3 units, room for 4; 882 thousand states |
| `session_ping` | *violated:* a client that is closed as late was silent | a clock of 8 values that is never set back, 1 packet |
| `packets` | What is written is read, and the reader stays in step | digits of 5 bits, headers, values and lengths at both sides of each edge, 2 fields; 68 thousand states |
| `startup` | A server that listens uses the last value of each key as it is written, where it fits; the start ends | every file of up to 3 lines out of 18; 140 thousand states |

Why the bounds are enough. The interesting cases of the socket are a write in
each write state, a transfer that takes less than half, half and more of the
bytes, growth with and without a transfer in flight, and reads that fill the
vector, exceed it and leave a rest: a buffer of two to four bytes and four or
five bytes in each direction reach all of them, several times in a row. In the
pool the cases are an empty and a filled `m_Pool`, a thread that waits while the
other connects, nesting, and more demand (6) than configuration (2). The listener needs a
third worker for a scan whose minimum changes after others were read, and four
sockets for sets of different sizes that shrink meanwhile. For the login two
threads at the same account with a password that changes once are enough to put
a change between any two steps of either, and the counts of realms stand for
none, some and more than the packet has room for. A clock of six values wraps within
the ages there are, which also exceed it, and half of it is enough for both ways
round `GetTimeDifference` can take; two packets of three units can be cut and joined
in every way, and with room for four units a packet fits, with a part of the next, and
two do not. A wired number has a length of one to seven bytes, and each length is
there with its least and its greatest value, in both signs; digits of five bits keep
the numbers within what TLC can calculate with, and the header and bytes within eight
bits as in the code. With two fields a wrong step at the first shows in the second.
Three lines of a file are a key
twice, with anything before, between or after; every key has values at both
sides of the width it is narrowed to, or of what is a number or an address. Deadlock is
checked in every run; a released socket and an ended process stutter
explicitly (`Gone`, `Over`, `Terminated`).

What the properties say:

- `OneTrigger` is what makes the write path work: waiting bytes have exactly one
  timer or transfer that will send them. `HandlerAsserts` are the asserts the
  default build drops. `InTurn` is about steps, and about closed sockets too: no
  wait, transfer or read is started while another that excludes it is under way.
- `OutputFIFO` holds even with both kinds of undefined behaviour: every byte
  sent is the right one in its place, or garbage of torn storage.
  `SentAsWritten` asks for no garbage and fails.
- `InputFIFO` and `ReadLoopAlive` are the same for the read path. `ReadHasRoom`
  is about the server as built (`socket_stream`). For a subclass that leaves bytes
  in the buffer (EBADMSG) the growth test of `OnRead`, which ignores them, can
  leave a read without room.
- `OutgoingStream` and `IncomingStream` are refinements: `ByteStream` says that
  what is put in comes out complete, unchanged and in order, and that it does
  come out while the stream stays open. The mapping takes `written` and `wire`,
  respectively `arrived` and `consumed`, for input and output.
- `Exclusive` and `Accounted` hold however borrowing interleaves. `Bounded` is
  why temporary connections, which are never closed, do not grow without end.
  `LenderSpec` is why the nested query of `SendUserSuccess` is no deadlock.
- `Truthful` compares what is sent with what the account had at some time during
  the request, for with other writers nothing stronger can be true.
  `OnlineIsEarned` is a property of the step that sets an account online.
  `LoginEnds` needs the promise of the pool, and nothing else of the others.
- `FileIsObeyed` is about `Reload` and the look-ups together: which of several values
  is used, that nothing is taken from a file with a bad line, and that a number, an
  address or a field arrives as it is written. It asks this only where it can be: of a
  number that its parameter cannot hold, and of a string with an empty field, it says
  nothing, as the server is then not the one the file describes (section 5).
- `FlagIsTruth` is about a flag that two threads write without a lock, and holds as
  long as that did no harm. `OnlyOpenRaces` says where the harm can come from:
  a socket that is through `Open` with one owner of its block keeps it so for
  ever. More than that cannot be true (section 5).
- `PingJudgesAge` has the exceptions the code has: a clock that was set back, and a
  socket older than the range of the clock. Apart from them no wrap and no
  conversion of the limit makes a ping close a young socket or keep an old one.
  `SilentIfLate` asks that the age be counted from what was last heard of the
  client, and fails.
- Nothing is stated of which handler a packet gets. It depends on how TCP cuts what
  was sent and on what is found in a dead frame, so that nothing is true of it.
- `DifferenceIsElapsed` bounds the error of `GetTimeDifference`: one, and only if the
  clock has wrapped, up to half its range.
- `ReadsBack` and `InStep` say when the decoders are inverse to the encoders, and when
  a read finds the next field: whenever the number fits the type it is read as. A
  negative number read by `ReadWiredUint` fits no `uint32`, and what follows it is read
  from the wrong place. `InStep` is about the bytes of the packet, as far as it gets;
  what `EncodeWired` reads behind its own array is `Unterminated`, and no property.
- `Registered` is what the close handler is for: a socket lost from its set
  would still be served, one left in it would count for ever. `LeastLoaded`
  says how good a choice from sizes that were never true together can be.

Fairness. `FairSpec` of `Socket` assumes weak fairness of the steps the two
threads and Asio take: `Open` goes on, an expired timer's handler runs, a
pending transfer of a socket ends in some way, queued handlers run, a read
with bytes in the kernel completes, and closing the socket aborts a pending
read. Nothing is assumed of the peer, which may send nothing for ever, nor
that an open socket's operation fails. `FairSpec` of `ConnectionPool` assumes
weak fairness of taking the mutex and of a connect. A handler need not go on
after `Borrow`, hence `LenderSpec` cannot rely on anyone giving back. A
thread that waits for the mutex gets it under weak fairness because, by
`Bounded`, connects end and nobody holds the mutex for ever. `FairSpec` of
`Listener` has the acceptor thread go on wherever it does not wait for a client,
and a network thread that began to close a socket finish it; nobody has to
connect or to leave. `FairSpec` of `HandlerAllocator` has both threads go on, and the
operations of a closed socket end. `FairSpec` of `LoginSession` has each thread go on with its
handler: a statement ends somehow, and `Borrow` returns, which is what
`LenderSpec` shows. Requests, and changes of passwords, need not come. `FairSpec`
of `Startup` has `main` go on. `Session` and `Packets` have safety properties only:
that handlers go on is shown in `Socket`.

Mutants. Operators named `Mutant…` are plausible bugs (a lost reset, a missing
guard, a wrong order); replacing the definition they stand for makes the
property listed beside it in `PROJECT.json` fail. No specification uses them.

## 4. Proofs

`SocketProofs` proves, for every `StorageSize`, `VersionLength`, `MaxReply`,
`MaxIn`, `MaxOut`, `Outcomes` and `OverlapSafe` that satisfy
`SocketAssumption`:

| Theorem | States |
|---|---|
| `Invariance` | `Spec => []IInv` |
| `TypeCorrect` | `TypeOK` |
| `AssertsHold` | `HandlerAsserts` |
| `OneTriggerHolds` | `OneTrigger` |
| `OutputIsFIFO` | `OutputFIFO` |
| `ReadLoopStaysAlive` | `ReadLoopAlive` |
| `OperationsTakeTurns` | `InTurn` |
| `LeavesWhenClosed` | `mSockets` loses a socket in the step that closes it, once, and after `Open` armed the timer |

None of these is inductive by itself. `IInv` adds four conjuncts to `TypeOK`.
`SendInv` ties the write state of an open socket to what is under way (idle:
nothing and an empty buffer; buffering: one timer; sending: one transfer whose
range lies in the buffer). `FifoInv` says where each byte is: those up to
`Retired` (written minus what is still buffered) have left the buffer, the
next are in it in order, and the wire is ahead of `Retired` by a transfer that
is done and whose handler has not run. `ReadInv` has the read operation of an
open socket fit behind the write position. `AcceptInv` says that nothing is
under way before `Open`. The lemmas come in three groups: what the buffer
operators return, what `Write` and `StartAsyncRead` keep, and one lemma per
action that `IInv` survives it. A step of the read side leaves the
conjuncts of the write side alone (`WriteSideKept`) and the other way round
(`ReadSideKept`).

The last two theorems are what the other two modules about a socket take for
granted. `HandlerAllocator` has one read and one write at most, a timer only
without a write, a write from the timer's handler or from the write before, and
a first read from `Open`; `InTurn` says that of `Socket`. `OneTrigger` is not enough
for it: it says nothing once the socket is closed, when handlers still run and
the acceptor thread may still start the read. `TurnInv` is what remains true then.
`Listener` lets a socket leave its set when it is closed, and not before it is
`served`; that is `LeavesWhenClosed`. `CloseSocket` is one step of `Socket`, while in
`Listener` the acceptor reads `Size` in the middle of it, so that neither theorem is
stated as a refinement.

`ConnectionPoolProofs` proves, for every finite set of `Threads` and every
`PoolSize`, `MaxHeld` and `NDebug` that satisfy `PoolAssumption`:

| Theorem | States |
|---|---|
| `PoolInvariance` | `Spec => []IInv` |
| `PoolTypeCorrect` | `TypeOK` |
| `ExclusiveHolds` | `Exclusive` |
| `AccountedHolds` | `Accounted` |
| `BoundedHolds` | `Bounded` |
| `LendingImplemented` | `Spec => Lender!Spec`, the refinement without its liveness |

The properties hold one another up: a connection taken from `m_Pool` is lent to
nobody because of `Exclusive`, it is in `m_Pool` once because of `Accounted`,
and a new number is fresh because those in use are `1 .. created`. `Bounded`
needs two more conjuncts: a thread that asks has room for one more
(`RoomInv`), and while a thread connects `m_Pool` is and stays empty
(`OwnerInv`); so when the connect is over all connections are with the
threads, and the map from the threads' places to connections is onto. The
lemmas `Pushed`, `Popped`, `AppendPool` and `TailPool` say what each data
structure operation does to the connections it holds.

`ListenerProofs` proves, for every `WorkerCount` above 0 and every finite set of
`Sockets`:

| Theorem | States |
|---|---|
| `ListenerInvariance` | `Spec => []IInv` |
| `ListenerTypeCorrect` | `TypeOK` |
| `RegisteredHolds` | `Registered` |
| `LeastLoadedHolds` | `LeastLoaded` |

`LeastLoaded` speaks of the end of the scan; `ScanInv` is what is true all
through it: a size that was read is an upper bound from then on, because only
`CreateSocket` adds to a set, and it is wrong by the removals since at most.
A removal takes one element at most, for a network thread closes one socket at a
time (`OneInv`). `PendingInv` keeps the socket to be accepted apart from those
that are served or being closed, which `Registered` needs after a failed accept.
`WorkerCount` above 0 is an assumption the configuration may break: the value is
narrowed to `uint8` (module `Startup`).

`AllocatorProofs` proves, whichever objects fit into the block:

| Theorem | States |
|---|---|
| `AllocatorInvariance` | `Spec => []IInv` |
| `AllocatorTypeCorrect` | `TypeOK` |
| `FlagIsTruthHolds` | `FlagIsTruth` |
| `OnlyOpenRacesHolds` | `OnlyOpenRaces` |

`StartInv` says that an operation which is being started, or whose handler runs, has
no memory, so none is given memory twice; `OwnInv` that the read is the acceptor's
until `Open` is through, and that a timer and a write exclude each other.
`OnlyOpenRaces` is a property of the rest of a behaviour. It follows from `OneThread`,
which a settled state satisfies and every later step keeps: with the acceptor
thread gone, nobody takes the block between the network thread's test and its
set.

`LoginProofs` proves, for every `Threads`, `Names`, `Passwords`, `RealmCounts` and
`MaxChanges` that satisfy `LoginAssumption`:

| Theorem | States |
|---|---|
| `LoginInvariance` | `Spec => []IInv` |
| `LoginTypeCorrect` | `TypeOK` |
| `TruthfulHolds` | `Truthful` |
| `OnlineIsEarnedHolds` | `OnlineIsEarned` |

`Truthful` says little about the middle of a handler, so `Progress` says for each
place what the thread knows and has sent: after the SELECT the row is something
the account had since the request came (or nothing, if the packet was
overwritten), after the comparison it is the password sent. `seen` only grows,
which is why a change of password in between does no harm. The action property
follows from the same invariant, since `UpdateRuns` is the only step that sets
anybody online.

On top of its `IInv`, `SocketProofs` proves of the two streams:

| Theorem | States |
|---|---|
| `InputInvariance` | `Spec => []InputInv` |
| `InputIsFIFO` | `InputFIFO` |
| `ReadsHaveRoom` | `ReadHasRoom`, if `Outcomes` has no `badmsg` |
| `IncomingImplemented` | `Spec => Incoming!Spec`, the safety part of `IncomingStream` |
| `OutgoingImplemented` | `Spec /\ []Ungrown => Outgoing!Spec`, the safety part of `OutgoingStream`, if `OverlapSafe` |
| `SentAsWrittenIfUngrown` | `SentAsWritten`, if `OverlapSafe` and `[]Ungrown` |
| `ShortOutputIsSent` | `Outgoing!Spec` and `SentAsWritten`, if `OverlapSafe` and `MaxOut <= StorageSize` |

`InputInv` is `InputFIFO` with the unread part of the buffer named (`Unread`), which
makes each step a matter of where the sequence of the bytes that arrived is cut:
`SplitSlice`, `SliceOfLonger` and `Regrouped` are what that takes. A read takes
bytes from the kernel, `OnRead` puts them behind what is unread, and
`ProcessIncomingData` takes a part from the front (`ProcessKeeps`). So what it has
read is a prefix of the stream (`ConsumedIsPrefix`), which is what `ByteStream` asks.
`RoomInv` adds to `ReadHasRoom` that the buffer is empty until the first read;
after that either `ProcessIncomingData` emptied it or room was made for what the
kernel has.

The sending direction is a FIFO stream only until `m_OutBuffer` is grown, for a
`Write` that grows it can free what a transfer sends (section 5); `Ungrown` says that
its size is still the one it was made with. While it is, nothing is `torn`
(`TearsNothing`), and each step of the kernel delivers what `FifoInv` says is next
(`OutgoingNext`). `ShortOutputIsSent` gives a condition on the server for that: no
more written to a connection than the buffer is made for (`StaysUngrown`), which is
4096 bytes (`STORAGE_INITIAL_SIZE`).

`SessionProofs` proves, for every `Span`, `PongTimers`, `Headers`, `PacketRoom`,
`MaxPackets`, `MaxAge` and `MaxBack` that satisfy `SessionAssumption`:

| Theorem | States |
|---|---|
| `SessionInvariance` | `Spec => []IInv` |
| `SessionTypeCorrect` | `TypeOK` |
| `PingJudgesAgeHolds` | `PingJudgesAge` |
| `DifferenceIsElapsedHolds` | `DifferenceIsElapsed` |

`TableInv` says that the two maps hold handlers of `AuthSocket`, so that whatever header
is found leads to one of the steps of `ExecutePacket`. `ClockInv`
ties the clock to the age: it is `p_PingDiff` plus the age, up to a whole number of
its ranges. Everything `HandlePing` and `GetTimeDifference` make of two readings
follows from that number being 0, 1 or something an age out of range leaves.

`StartupProofs` proves, for every set of `Files` of any length and every `Texts` and
`Addresses` that satisfy `StartupAssumption`:

| Theorem | States |
|---|---|
| `StartupInvariance` | `Spec => []IInv` |
| `StartupTypeCorrect` | `TypeOK` |
| `FileIsObeyedHolds` | `FileIsObeyed` |

`ReloadInv` is the invariant of the loop: among the lines read so far none is bad,
each key met has an entry, and each entry is the value of the last line with its key
(`LastFor`). At the end of the file that is what `FileIsObeyed` asks of `m_Entries`,
which nothing changes afterwards (`LoadedInv`). `DatabaseInv` has the pool grow to
the size in the file before the database is there, `ListenerInv` says what `Listen`
makes of the entries, narrowing included, which is the identity on the numbers that
fit. `SplitKeepsAll` says that `StrSplit` keeps a string of five fields that are
not empty. Of the others, and of numbers that do not fit, the theorem says nothing.

`PacketsProofs` proves, for every `Headers`, `Values`, `Numbers`, `Texts` and `MaxFields`,
and every `Digit` that satisfies `PacketsAssumption`, the 64 of the code among them:

| Theorem | States |
|---|---|
| `WiredInverse` | `DecodeWired` gives back what `EncodeWired` wrote, as an `int` or as a `uint32`, if it has room there |
| `PacketsInvariance` | `Spec => []IInv` |
| `PacketsTypeCorrect` | `TypeOK` |
| `ReadsBackHolds` | `ReadsBack` |
| `InStepHolds` | `InStep` |

The runs try numbers at the edges with digits of five bits and packets of two fields;
the theorems are about every number, and packets of any length. The codecs come first.
After *i* bytes the loop of `DecodeWired` has the number but for its higher digits,
`Abs(v) % (4 * Digit^(i-1))` (`DecodedWired`, by `OneDigitMore`), and a number whose
length is *n* is smaller than `4 * Digit^(n-1)` (`WiredFits`). `EncodedBase64` is the
same for two digits. Then `Written` says that the storage is the header and the bytes
of the fields one behind the other (`Placed`), `Parsed` that the client holds that
storage, and `Followed` that a reader whose fields fitted so far is where the next
one begins (`Aligned`), has read what was meant, and was never lost. When a field does
not fit nothing more is claimed of position or values, as the code goes astray there; nor
after `Unterminated`, which changes nothing but the stage.
`Digit` is one of six powers of two because `Weights` needs its powers as numbers.

Only model-checked, because the prover does neither fairness nor `ENABLED`: the
liveness in `OutgoingStream`, `IncomingStream` and `LenderSpec`, `ClosedIsReleased`,
`AcceptingGoesOn`, `LoginEnds`, `MemoryComesBack` and `StartsOrEnds`. Every invariant
and every other action property of a run that passes has its theorem. Recursive
definitions are unrolled as far as the code bounds them: a wired number that
`EncodeWired` has room for is of six bytes at most, a base-64 number of two, and
`CreateDatabase` uses five fields.

## 5. Where the code and its documentation disagree

The runs marked *violated* each show one; `PROJECT.json` quotes the lines under
"findings".

1. `Socket.cpp:213`: `Write` may free the storage of a transfer in flight.
2. `QueryDatabase.cpp:34`: the connection is given back before the statement is
   closed, and another thread can be using it by then.
3. `AuthenticationHandler.cpp:136`: `p_PingDiff` is not when the client was last heard
   of, so that a client which pings in time is closed all the same.

More need no run, as they are single steps of the models or single lines:

- `AuthSocket` takes what one read brings for one packet (`AuthSocket.cpp:87`): a packet
  that TCP splits, or joins to the next, is dropped, though `OnRead` was written to
  keep the rest (`Socket.cpp:132`; `ProcessIncomingData` of `Session`).
- What one read brings is copied into the 8192 bytes of `PacketReceiving` however long
  it is (`AuthSocket.cpp:87`), while `m_InBuffer` grows (`Socket.cpp:125`;
  `DecryptOverruns`). The pointer `DecryptPacket` returns is to an array that is gone
  when the header is read through it (`AuthSocket.cpp:48` and 90).
- The flag of the block is tested and set without a lock (`Socket.h:190`), and `Open`
  and the first flush can both be given the block, against `Socket.h:169`: the state
  `Shared` of `HandlerAllocator`, which `OnlyOpenRaces` confines to that moment.
- A client is let in when the UPDATE that sets its account online has failed
  (`AuthenticationHandler.cpp:65`, action `UpdateFails`).
- `HandlePing` uses the address of its parameter as that of the packet
  (`AuthenticationHandler.cpp:131` and 142; `PingIgnored`, `PingAnswered`).
- A base-64 number above 4095 is written as another (`SharedDefines.cpp:78`), and the
  string of a wired number is made from six characters that no zero ends
  (`SharedDefines.cpp:117`, `Unterminated`).
- The constructor of `Worker` enters the worker loop
  (`ThreadWorker.h:35`), so a pool with a worker is never constructed.
- `ProcessFunctions` runs one call-back, the last added, without the mutex
  (`FunctionCallBack.cpp:51`).
- `Open` means to return false for a client that is gone (`Socket.cpp:43`), but
  catches `error_code` where `system_error` is thrown, and the process ends (action
  `OpenThrows`).
- `StrSplit` drops empty tokens, so an empty field of `AuthDatabaseInfo`, whose format
  `authserver.conf.dist.in:75` gives, moves up those behind it (`SharedDefines.cpp:51`,
  operator `StrSplit`).
- A port or a number of workers that `uint16` or `uint8` cannot hold is taken for
  another (`main.cpp:60`, `Listen`): port 65537 is 1, 257 workers are one and 256 are
  none, where `authserver.conf.dist.in:34` and 48 name no limit.
- `authserver.conf.dist.in:41` has `BindIP` be an "IP/hostname", but a hostname ends the
  process, as `from_string` takes addresses only (`Listener.h:68`, `ListenThrows`).
- An unreachable MySQL server at startup crashes the process before it can be
  reported (`MySQLConnection.h:47`, action `StartUnreachable`).
- With asserts compiled out, as they are by default, a failed connect in `Borrow`
  goes on to the front of an empty deque (`ConnectionPool.h:91`, `BorrowFails`).
- Temporary connections are put into the pool and stay (`ConnectionPool.h:114`).
- After a failed query `GetResult` uses a null pointer (`QueryDatabase.cpp:86`,
  `NoResultSet`).
- `authserver.conf.dist.in` names the port `ServerPort` and a database `habbo`; the
  code reads `AuthServerPort` and asks for a database named `auth`.

## 6. Plan

What is left, in this order:

1. `Listener` with a `Socket` for each member of its sets, if TLC can bear it. That a
   `Socket` starts its operations, and leaves its set, as `HandlerAllocator` and
   `Listener` assume is proved (`OperationsTakeTurns`, `LeavesWhenClosed`).
2. `DirectExecuteQuery`, and the destructors of `Listener` and `NetworkThread`, once
   something calls them.

## 7. Not modelled

`ThreadPool`, `Worker`: the constructor of `Worker` runs the worker loop on the thread
that constructs the pool, so nothing of a pool with a worker can ever be reached, and
there is no behaviour to check. No server has one. `FunctionCallBack` is used by
nothing, so that which thread adds and which runs a call-back is not in the code.
`WorldServer` cannot be built: it uses functions and a namespace that `Shared`
no longer has. `Tick` of `WorldTimer` and the random numbers of `Maths` are called by
nothing that keeps state. `SHA1` wraps one library call. `plog`, `dep/` and `cmake/`
are vendored, and are most of the lines of the repository. Text of log lines and the
layout of packets are data the properties do not depend on.
