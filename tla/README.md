# Xeroa, verified

TLA+ models of the Xeroa server (`src/src`), the TLC runs that check them and the theorems TLAPS proves about
them. Paths below are relative to `src/src` unless they say otherwise; `PROJECT.json` maps every
definition to the lines it stands for.

## 1. The system

Xeroa is one process with two servers on one `io_context` that sixteen threads run (`main.cpp`).

| part | state | operations | hard behaviour |
|---|---|---|---|
| `GameServer` (`game/GameServer.*`) | the socket, `m_CurEndpoint`, the global `g_Clients` | the coroutine `AsyncOnReceive` / `ParsePacket`: one datagram at a time | shares `g_Clients` with the threads of every session, without a lock; any receive error ends it |
| `Kcp` (`game/Kcp.*`) | `_State`, `lastPacketTime`, `ip_port_num`, `mt_key`, `packet_queue`, the KCP control block | `Input`, `Recv`, `Send`; two detached threads per object, `Background` and `PacketQueueHandler` | `Background` deletes the object while the coroutine and the other thread may be using it |
| packet handlers (`game/packets`) | none of their own | token, ping, login | run in `PacketQueueHandler`; switch the key the coroutine decrypts with |
| handshake (`Kcp::Input`, `Handshake`) | `_Conv` | `MAGIC_CONNECT` is answered once by `MAGIC_SEND_BACK_CONV` | datagrams are lost, doubled, delayed |
| `BufferView`, `BasePacket`, `Crypto` (`util`) | offset into a view | read and write fields, `Xor` | boundaries |
| `DynamicBuffer` (`util`) | the bytes, their capacity, `m_CurOffset` | append numbers, strings and arrays, patch a number, `Seek`, give the bytes away | memory that runs out in the middle of a string; the ends of the buffer |
| `HttpServer`, `HttpSession` (`http`) | acceptor; per connection buffer, request, `res_`, deadline | accept, read, answer, write, close | handlers in a strand per session; pipelining; the deadline; lifetime of the response |
| `main` | the `io_context`, `v` | starts the HTTP server, the game server, the threads, and waits in `run` | each of them may throw; `run` returns when nothing is left to wait for; `v` is never joined |
| not in the build | | `HttpRequest`, `HttpRouter`, `GetPlayerSocialDetailReq` | not part of the program |

How they meet: `ParsePacket` creates `Kcp` objects and puts them into `g_Clients`; `~Kcp`, in the session's own
`Background` thread, takes them out. `ParsePacket` gives datagrams to `Kcp::Input`, takes messages from `Kcp::Recv`
and puts packets into `packet_queue`, which the session's `PacketQueueHandler` empties; the handlers answer through
`Kcp::Send`. There are no locks anywhere: `kcplock` is declared, `Background` and the overloads of `Send` have calls to it that are commented
out, and `Input` and `Recv` do not mention it.

What makes each part correct:

* the table: a pointer in `g_Clients` leads to a living object that carries that key; a session in use is in the table; nobody removes another's entry; a silent session leaves
* a session: the packets the client sends are handled once and in order, decrypted with the key they were encrypted with, and
  what holds no packet does not disturb the others
* the handshake: both sides mean the same session; a client that keeps trying gets in
* the bytes: what is written is what is read, and nothing beyond the view is
* the clocks: a silent session ends after its timeout, neither sooner nor much later, whatever wraps or is set
* the process: nobody is served before both servers are there, and it does not stay behind when both are over
* HTTP: responses in the order of the requests, never two for one, alive while they are written; nobody holds a session or the accept loop for ever

`PROJECT.json` lists the hazards behind these, each at its line.

## 2. Modules

| module | what it is | code |
|---|---|---|
| `SessionTable` | abstract specification: a key is absent, live or doomed | what `g_Clients` promises |
| `GameServer` | the coroutine, the threads, the heap and the table; refines `SessionTable` | `GameServer.cpp`, `Kcp.cpp` |
| `GameServerProofs` | theorems about `GameServer` | |
| `Background` | the clocks of `Kcp::Background`: wall clock, `clock()`, sleep, widths | `Kcp::Background`, `Kcp::Input` |
| `BackgroundProofs` | theorems about `Background` | |
| `Handshake` | client, network and server side of the handshake, on top of `SessionTable` | `Kcp::Input`, `ParsePacket` |
| `HandshakeProofs` | theorems about `Handshake` | |
| `SessionStream` | abstract specification: an ordered stream of messages with one change of keys | what a session promises its client |
| `PacketPipeline` | the data path of one session; refines `SessionStream` | `Kcp.cpp`, `ParsePacket`, `game/packets` |
| `PacketPipelineProofs` | theorems about `PacketPipeline` | |
| `ByteNumbers` | numbers as bytes, of either byte order | `Write`, `Read`, `ReverseEndianness` |
| `ByteNumberProofs` | theorems about `ByteNumbers`, lemmas about parts of byte sequences | |
| `Codec` | reading and writing of packets and handshakes, `Xor` | `util`, `Handshake::Encode`, `Decode` |
| `CodecProofs` | theorems about `Codec` | |
| `Buffers` | filling a `DynamicBuffer` and reading it back | `DynamicBuffer.*`, `BufferView::ReadString` and the like |
| `BuffersProofs` | theorems about `Buffers` | |
| `HttpServer` | acceptor and sessions | `http/HttpServer.cpp`, `http/HttpSession.*` |
| `Xeroa` | the process: `main` and `HttpServer` on its threads | `main.cpp` |
| `XeroaProofs` | theorems about `HttpServer` and `Xeroa` | |
| `MC*` | values of the constants for TLC | |

They compose like this: `GameServer` shows that sessions behave as `SessionTable`; `Handshake` takes `SessionTable`'s
actions (`Open`, `Hear`, `Doom`, `Close`, `Pass`) as the server and adds the network; `PacketPipeline` zooms into one
session that `GameServer` treats as `push` and `work` steps; `GameServer`'s fault `packet` stands for the packets that
end the process in `PacketPipeline`. `Codec` is what `PacketPipeline` calls a packet that is readable. `Background` is about the clocks that `GameServer` and
`Handshake` take as given. `Xeroa` extends `HttpServer`: each action of it happens inside a running process, and the end of
the process, for any of the reasons `GameServer` and `PacketPipeline` have, cuts it off.

### GameServer

A step is one access to memory that other threads use, so the coroutine's one function `ParsePacket` is the counters
`find`, `accept`, `start_ph`, `set_key`, `insert` (a new session) and `find`, `index`, `input`, `kcp`, `push` (a known
one). The object of a session is an address with the fields that matter (`connState`, `idle`, `ipPortNum`, `peer`);
`loc[s]` is the `this` of session `s`'s threads; freed memory keeps its bytes and can be handed out again
(`HeapReuses`). `Background` is `check`, `condemned`, `erase`, `free`, the statements of lines 34 to 37 of `Kcp.cpp` and of
the destructor. `idle` is `time(0) - lastPacketTime`.

Undefined behaviour is a choice between what the machine would do and `running = FALSE`, after which nothing is
claimed. The access to freed memory, the null dereference, the two threads in the map at once are modelled so.
Every property of the form `running => ...` therefore says what holds as long as each race so far went the way the
machine would do it. **The model does not
show that the races never happen: they do** (`MapBusy`, the null entry). It shows what holds in spite of them.

Bounds: `MaxSessions` objects in a behaviour, `MaxStall` seconds for one datagram, `Timeout` 1 instead of 20 seconds.
Nothing else is bounded: time goes on for ever, any endpoint sends anything at any time.

### PacketPipeline

Three threads with program counters (`rxpc`, `phpc`, `bgpc`) over `_ShouldUseMt`, `mt_key`, `packet_queue` and KCP, which is
external: a reliable ordered stream of which a datagram completes any number of messages. A counter inside an ikcp call
means the thread is inside ikcp; completing it beside another thread may end in `data_race`. A message holds a packet
with one of the ids the switch names or with some other, bytes that `BasePacket` throws at since they end before the fields and blocks
of a packet do (`Malformed`), or nothing at all (`Empty`, which never gets past `Recv`). Whatever the key, `ParsePacket` catches the exception and
drops the message, which KCP has handed over already. Decrypting with the wrong key makes bytes that are dropped like these, or a
packet with an id the switch does not know. Where a block of size 0 begins at the end of the bytes, `ReadView` refers to the byte behind them:
undefined, so such a message may also end the process (`empty_view`).

`SessionStream` forgets the threads: the messages on their way are one sequence, those in the handler's hands, in the queue
from back to front, in the coroutine's hands and those KCP has still to hand over (`OnTheirWay`). Popping and finishing a
packet is `Handle`, a message that `ParsePacket` throws away is `Lose`. `Lose` is allowed for a message that holds no packet, at any time,
and for one with the old key after the server has changed to the new one; for no other. The abstract stream is told of a message its key and whether it
holds a packet (`Posted`), and never handles one without while the keys agree. The queue itself, and the three threads' races that go
well, are stutters.

### Background

One session, seen by its `Background` thread only: `look` (line 34), `update` (41 to 43), `sleep` (52). Time is real time in ticks;
the wall clock is real time in whole seconds plus an offset that may change at any moment. `longMod` is the number of values of a
`long` and is chosen in the initial state, so that one run covers platforms where `lastPacketTime` and `clock_t` have 32 bits and
those where they have 64: `AsLong` cuts `time(0)` off, `SleepFor` is `ts - current` as C++ converts it. `clock()` returns
anything it can return, at each call, so its unit, its start and its wrapping do not matter. `lag` is how long the thread was
ready and did not run since it last looked.

`NotTooLate` is what `Handshake` assumes when it lets a session be condemned within the second after the timeout:
interval and lag are small against a second, and nobody sets the clock. The
bound is exact: with one tick less TLC finds a violation. What it also says: no `sleep_for` is ever long, although
`ts - current` is unsigned on one kind of platform and wraps on both.

### Handshake

One key, its session (`status`, `silence`), the datagrams under way with their age. A datagram may be delivered any
number of times until it is lost or older than `MaxDelay`. The client is external: it sends `MAGIC_CONNECT` every `RetryPause`
seconds, takes the first conv it gets, talks, may go silent or restart. `now` is what `_Conv` is set to.

### Codec

A state is a `BufferView` in the middle of being read; the actions are the reads of the `BasePacket` constructor and of
`Handshake::Decode`, in order. `ByteMod` and `ByteXor` are constants: TLC runs with bytes of one bit, where `uint16_t` has
two of them and `uint32_t` four, so that all views up to 14 bytes can be enumerated; the theorems hold for any width.
Protobuf is external.

### Buffers

The writer's steps are `WriteArray`s, so that a string is two of them, and the second may fail for want of memory where the
buffer has to grow (`Grows`); `capacity` and `m_CurOffset` only decide that. `items` is what the writer meant to write; the
reader asks for the same kinds of items in the same order. Nothing in the program writes strings, patches or seeks yet:
`BasePacket`, `Handshake` and `generateKey` use `Write` and `WriteArray`.

### HttpServer

Handlers of a session run in its strand, so each is one step. `reading` and `writing` are the outstanding operations,
`left` the seconds to the deadline of the stream. The session is gone when no handler holds it. The acceptor's
`shared_ptr` is held by its pending handler only: after an error in `on_accept` the `HttpServer` is destroyed and the
backlog reset. A constructor that could not listen (`broken`) goes on to `run()` and fails in the first accept.

### Xeroa

`pc` follows `main`: `game` (the constructor of `GameServer`, line 36), `threads` (40), `run` (some thread is in `io_context.run`),
`over`. Clients can connect and send from the start, since the port is open; handlers need `run`. Every way the process
ends is `Terminate`: a constructor or a thread that throws in `main`, a session's thread that throws
(`SessionEndsProcess`), and also `main` returning, since `v` holds threads nobody joined. `game` is `ended` once
`AsyncOnReceive` has caught a receive error.

## 3. Runs

| run | bounds | shows |
|---|---|---|
| `gameserver` | 2 endpoints, 2 addresses, 3 sessions, all addresses reused; receive and send may fail | the five safety properties, the inductive invariant, the action property `OnlyOwnEntryErased`, refinement of `SessionTable` |
| `gameserver_faults` | the same with 2 sessions, fair threads, and also threads that cannot be started and packets that end the process | `TableInv`, which implies the properties that survive orphaned objects (section 4); silent sessions leave, handler threads end |
| `gameserver_collision` | two endpoints with equal address plus port | violated: finding 1 |
| `pipeline` | 3 messages, each a packet, malformed or empty; fair threads | order, once, keys, refinement of `SessionStream`, a backlog drains |
| `pipeline_login` | 2 messages | violated: finding 2 |
| `pipeline_kcplock` | 2 messages | violated: finding 3 |
| `background` | 3 ticks to a second, timeout 2 seconds, 24 ticks, longs of 4 and 6 bits, clock set by up to 2 seconds | when a session is condemned |
| `handshake` | `Timeout` 2, `MaxDelay` 1, `RetryPause` 5, a clock of 8 seconds | agreement on the conv, connection in the end |
| `process` | 2 connections, 2 requests each | order, lifetime, deadlines, accepting; start and end of the process |
| `http_head` | 1 connection, 2 requests | violated: finding 4 |
| `codec` | every view up to 14 one-bit bytes, packets with up to 2 bytes of metadata and of data, 32 handshakes | reading and writing are inverse |
| `buffers` | 3 items out of 6 numbers and 9 strings and arrays, two-bit bytes, 2 offsets to seek, memory for 0, 4 and 20 bytes | written, patched, read back; half a string is noticed |

Why the bounds suffice: a session, its successor at the same address and its successor under the same key need three
sessions, two addresses and two keys at most; every race here is between the coroutine and one or two sessions. Three
messages give a queue with a packet in each thread's hands and one before the switch of keys. `Timeout` counts only in
its order to `MaxStall`, `MaxDelay` and `RetryPause`. The 8 seconds of `now` are more than the span of a stale datagram, so a conv
does not come round by accident while one is under way. Fourteen bytes hold a packet with two bytes of content, and all
the ways to cut it short. With two bits to a byte a string may have two characters and a long string fourteen, so that strings
of three and four are refused as those of 255 and 256 are. In `background` a narrow long is full after seven seconds, of which a behaviour has eight, and up to two more by setting
the clock.

Where a property needs an assumption, the instance is just on the right side of it, and the other side was tried:

* `SameConv` needs `2 * MaxDelay <= Timeout`: it holds for 2 and 4, fails for 2 and 3. `ConvsAgree` (section 4) proves
  that the bound is enough for every `Timeout`
* `Connects` needs `RetryPause > Timeout + 1 + MaxDelay`: it holds for 5, fails for 4. In the program that is more than
  twenty seconds between two attempts. A client that retries faster and has lost the one answer keeps the session it
  does not know of alive with its own retries; `Kcp::Input` sets `lastPacketTime` before it looks at the datagram, and
  the branch for short datagrams of a connected session (`Kcp.cpp` 127) is empty
* the safety of the table needs `MaxStall <= Timeout`

### Fairness

`GameServer`: every thread and the coroutine are weakly fair, and so is the clock. The code justifies it: the threads are
operating system threads, the coroutine is resumed by one of sixteen `io_context` threads, none of them ever blocks on
another (there are no locks). Datagrams and connecting clients are not fair. `HandlerThreadsEnd` says nothing of a thread whose object's address was handed out
again: it may find the next session there. `PacketPipeline`: the same three threads; `BacklogDrains`
asks only that datagrams keep coming, and says so in its hypothesis. `Handshake`: `Background` and the clock, the client's
retries, and strong fairness of delivery, without which a network may lose everything. `HttpServer`: handlers that are
ready run, deadlines fire, the clock goes on; clients are not assumed to do anything. `Xeroa`: the same, and `main` goes on;
that `IdleProcessEnds` holds then rests on the deadline of each HTTP session. `Background` has safety properties only:
`NotTooLate` has the scheduler's delay as a bound.

`CHECK_DEADLOCK FALSE` is in the runs because the bounds let every model come to an end: all messages sent, all sessions used, a process
that has ended, a view that has been read.

### Findings

1. `ip_port_num` is address plus port, which two clients may share (`GameServer.cpp` 101).
2. The answer to a login is sent with the id of the token reply, 131 instead of 137, and the wrong key (`PlayerLoginReq.cpp` 115).
3. `kcplock` is never locked: threads of one session are inside ikcp at once (`Kcp.cpp` 181, `Kcp.h` 74).
4. HEAD is answered with a body (`HttpSession.cpp` 52).

## 4. Proofs

Every safety property a run checks is also a theorem, for every value of the constants that the assumptions allow, and
so are both refinements, of `SessionTable` and of `SessionStream`. Each module's named assumption (`GameServerAssumption`,
`BuffersAssumption` and so on) says what its constants are: numbers are numbers, a set of packets holds packets. It
is part of every theorem. The tables name what a theorem needs beyond it.

### The table of sessions

`GameServerProofs` proves about `GameServer`, for every set of endpoints and addresses, every number of sessions and
every `Timeout`:

| theorem | states | assumes |
|---|---|---|
| `TypeCorrect` | `[]TypeOK` | |
| `TableInvariant` | `[]TableInv` | `MaxStall <= Timeout` |
| `EntriesLive` | `[]TableEntriesLive` | `MaxStall <= Timeout` |
| `NullEntriesTransient` | `[]NullEntryIsTransient` | `MaxStall <= Timeout` |
| `RefreshIsEnough` | `[]RefreshProtects` | `MaxStall <= Timeout` |
| `KeysSeparateEndpoints` | `[]SessionHearsItsEndpoint` | that, and `IpPortNum` injective |
| `IndInvariant` | `[]IndInv` | that, and threads can be started |
| `SessionsListed` | `[]RunningSessionsListed` | that, and threads can be started |
| `OwnEntryErased` | `OnlyOwnEntryErased` | that, and threads can be started |
| `ImplementsSessionTable` | `Spec => Implements` | that, and threads can be started |

The argument. `TableEntriesLive` is not inductive: nothing in it says why the object being accepted is still there when it
is listed, nor why the entry a Background erases is its own. The strengthening `TableInv` says who owns what:

* `ObjectsOwned`: an allocated object belongs to the session last created in it, and a session that has not freed its
  object still owns it, so no two sessions act on one object
* `EntriesOwned`: an entry leads to an allocated object that carries that key and whose Background has not erased yet; with
  `ObjectsOwned`, erasing by one's own key removes one's own entry only
* `AcceptInv`: the object being accepted is `Safe`. Its age is at most the time `rx` has spent on the datagram, `stall`, and
  `stall <= MaxStall <= Timeout`, so its Background cannot find it expired before it is listed. This is where the
  assumption is used, and it is needed: threads start before `ip_port_num` is set
* `ClientInv`: by the same comparison, a session whose `lastPacketTime` was set before it was condemned is not deleted while
  `ParsePacket` goes on
* `NullEntryInv`: a null entry is the one the coroutine is about to dereference

`TableInv` is inductive whatever fails. `ListedInv`, with it `IndInv`, says that a running Background is listed; a
`std::thread` that throws between the two starts breaks it, hence the assumption of the last four theorems. The run
`gameserver` checks `IndInv`, `gameserver_faults` checks `TableInv`. The refinement maps a key to `live` while the Background of
the session it leads to is at `check`, to `doomed` from there to the erase; `Insert` is `Open`, `Input` is `Hear`, `BgCheck` is
`Doom`, `BgErase` is `Close`, `Tick` is `Pass`, `Undefined` is `Stop`, and all else is a stutter.

### The data path of a session

`PacketPipelineProofs` proves about `PacketPipeline`, for every number of messages and every way the threads, the network
and the client go on:

| theorem | states |
|---|---|
| `TypeCorrect` | `[]TypeOK` |
| `OrderKept` | `[]HandledInOrder` |
| `InOnePlace` | `[]ReceivedOnce` |
| `MTNeverLost` | `[]MTMessagesReadable` |
| `PatienceServed` | `[]PatientClientServed` |
| `ImplementsSessionStream` | `Spec => ImplementsStream` |

The invariant `IInv` says of the messages received that each is in somebody's hands, and in which order:

* `HandsInv` ties the threads' program counters to what they hold; the handler never pops an empty queue
* `OrderInv`: handled before in the handler's hands before in the queue, from back to front, before in the coroutine's
  hands. With it every message is in one place at most; `AccountedInv` says that one that holds a packet is in some place, or lost to the
  wrong key
* `ReadInv`: what got past `BasePacket` holds a packet, unless another key than the message's was used; that is so for the
  messages in `lost` only, and only once the flag is set. So a message that holds none is never handled as one it is not
  while the keys agree, which the stream demands
* `KeysInv`: the keys change in one order (the flag `_ShouldUseMt`, `mt_key`, the reply, the client's key, a message with it), and the
  handler has a message in hand while it changes them
* `DecidedInv`: what the coroutine has read from the flag before it decrypts stays right. It may decide on the dispatch key
  and then wait while the key is generated: the message in its hands was sent before the reply, so it has the old key.
  That is why a test of the flag and a use of the key that are not one step lose nothing of the new key
* `PatientClientServed` itself: a client that waits for its reply has one message under way, so the coroutine that has seen the flag
  holds another than the first (`NotTheFirst`), and the handler has generated the key before that one was sent

The refinement maps the hands, the queue and KCP to one sequence (`OnTheirWay`). The lemmas `WayPost`, `WayRecv`, `WayPush`, `WayPop`,
`WayHandle` and `WayLose` say what each step does to it: a message added at the end, three times nothing, the first one taken off, and
one taken out from the middle. That the stream allows what is taken off or out follows from `ReadInv` and `DecidedInv`
(`OldestReadable`, and step <1>5 of `RxImplements`).

### The handshake

`HandshakeProofs` proves about `Handshake`, for every delay, timeout, pause between retries and number of convs:

| theorem | states | assumes |
|---|---|---|
| `TypeCorrect` | `[]TypeOK` | |
| `ConvsAgree` | `[]SameConv` | `2 * MaxDelay <= Timeout` |

`SameConv` speaks of a connected client; why an answer under way cannot be one of an earlier session is about ages.
`AnswersInv`: an answer on its way is that of the session there is, whose silence is no longer than the answer is old.
`RequestsInv`: while the client is connected, a `MAGIC_CONNECT` on its way is younger than the session's silence by no more
than `MaxDelay`, since it was sent before the answer came, and the answer was at most that old. A session is dropped after more
than `Timeout`, so with the assumption nothing of either kind is under way then. The bound is tight: TLC finds
`SameConv` violated one second beyond it.

### The clocks

`BackgroundProofs` proves about `Background`, for every length of a second, timeout, interval, delay and width of the clocks:

| theorem | states | assumes |
|---|---|---|
| `TypeCorrect` | `[]TypeOK` | `BackgroundAssumption` |
| `CondemnsInTime` | `[]NotTooLate` | the same |
| `CondemnsNoneEarly` | `NotTooSoon` | the same |

`BackgroundAssumption` is about the constants only: an interval fits into 32 bits, and a long has at least those. `NotTooLate` is not inductive,
since it is the same bound at every `pc`. `IInv` has a bound for each (`OnTime`): a look leaves a session `Budget`, the
sleep adds the part of it that is over, and `lag` the rest, so a step of the thread only moves time from one term to the other;
`SetClock` back makes `Budget` larger, and `Input` sets the silence to nothing. `KeepsTime` says that `lastPacketTime` is the
time of the last `Input`, cut off. Three lemmas carry the arithmetic: `AsLong(n) <= n`, with equality where `n` fits (`AsLongHolds`:
cutting off makes a session look more silent, never less, hence the condition in `NotTooSoon` alone); `SleepFor` is at most an
interval for both ways C++ converts `ts - current` (`SleepsInterval`); and times that are `k` seconds apart on the wall clock are
less than `k + 1` apart (`SecondsBound`, `SecondsAtLeast`). They rest on `Division`, quotient and remainder of a symbolic divisor.

### Bytes

`ByteNumberProofs`, `CodecProofs` and `BuffersProofs`, for every width of a byte (at least one bit) and every length:

| module | theorem | states | assumes |
|---|---|---|---|
| `ByteNumberProofs` | `DigitsOfNumber` | the bytes of the number that bytes make are those bytes | |
| | `NumberOfDigits` | the number that the bytes of a number make is that number | it has room in them |
| `CodecProofs` | `TypeCorrect` | `[]TypeOK` | |
| | `ReadingIsWriting` | `[]ReadIsWritten` | |
| | `WritingIsReading` | `[]WrittenIsRead` | `SizesFit` |
| | `XorInvolution` | `Xor` twice with one key is nothing | |
| | `XorAlwaysInverts` | `[]XorInverts` | |
| `BuffersProofs` | `TypeCorrect` | `[]TypeOK` | |
| | `ReadBack` | `[]ItemsReadBack` | |
| | `BrokenNoticed` | `[]BrokenStringNoticed` | |

Numbers. `Weight` and `Number` are recursive functions, and what they yield is an induction. The induction rules of the library have an
operator as a parameter and are of no use to the provers, so `ByteNumberProofs` states induction of a set: a set of numbers
that has 0 and with each number the next is all of them (`Induction`). It follows from the order of the numbers being well founded,
which gives every set a least element. A second induction gives a recursive function for each base and step (`Recursion`).
From there it is division: `DivisionUnique`, `DivideTwice`, and `HighBytes`, that the upper bytes of a number make the
number without its lower ones.

Packets. The invariant of reading says that each field read so far is the number or the part of the view at its place
(`Fields`, `HandshakeInv`), and that the offset is behind the last of them (`Position`). `ReadingIsWriting` then puts the parts together
again. `SizesFit` says that metadata and data are shorter than their size fields can say, 2^16 and 2^32 bytes. The code relies on
it: `BasePacket` cuts `MetaData.size()` and `data.size()` off to these types without a look. Metadata has two numbers, and what
`Kcp::Send` sends goes through one KCP message, so both fit by far.

Buffers. `ItemsReadBack` is about the reader only. The invariant says what the writer leaves to him: `ContentInv`, that each item's bytes
are at its start, the characters of a string too unless they found no memory; `LayoutInv`, that an item ends where the
next starts, so that items do not overlap, without which `WriteToOffset` might patch into another item; `ItemsInv`, that lengths
fit in front of their strings and that only strings and arrays can be broken; `ReaderInv`, that a reader who has met nothing broken is where an
item starts. `Seek` does not appear: nothing in the invariant depends on `m_CurOffset`, which only decides when memory is needed.
`TypeOK` alone is not inductive, since `WriteCharacters` takes the last item for a string. This invariant was checked by TLC on the
instance of `MCBuffers` before it was proved.

### HTTP and the process

`XeroaProofs` proves about `Xeroa`, which extends `HttpServer`, for all connections, requests and deadlines:

| theorem | states |
|---|---|
| `ProcessTypeCorrect` | `[]ProcessTypeOK` |
| `InOrder` | `[]AnsweredInOrder` |
| `ResponseLives` | `[]ResponseOutlivesWrite` |
| `GameFirst` | `[]DispatchAfterGame` |

`SessionInv` says that an open session either waits for a request, with all before it answered, or writes the answer to
the last one it has read, which is the one `res_` holds; that it is open only as long as every answer so far kept the connection; and
what is left of that when it is gone. `StartInv`: before `main` runs the `io_context` no connection is past the backlog.

### Only model-checked

Liveness (`SilentSessionsExpire`, `HandlerThreadsEnd`, `BacklogDrains`, `Connects`, `ClientsCannotStall`,
`ConnectionsAccepted`, `IdleProcessEnds`): the prover has no rule for fairness or `ENABLED`. The findings are counterexamples, which
need no proof.

## 5. Not modelled

* KCP, Boost.Asio, Boost.Beast, protobuf and the operating system: external, by what the code expects of them
* the numbers `generateKey` produces (a function of one constant), the contents of protobuf messages, packet ids beyond
  those named
* `ReadFile`: three sequential calls before anything else runs. A missing file makes `tellg` return -1 and the span has
  2^64 - 1 bytes; an empty one makes a key of size zero
* the writing side of `BufferView`, which repeats `DynamicBuffer` line by line and moves the reader's offset; a packet
  that was built is never read
* `HttpRequest`, `HttpRouter` and `GetPlayerSocialDetailReq`: not in `CMakeLists.txt`, and they include headers that are
  not in the repository
* messages longer than `_recvBuf`: 65534 bytes are more than a KCP message of a client has, as far as the code says
* reordering of a thread's own memory accesses by the compiler (the threads' fields are not atomic): steps are
  sequentially consistent
* what happens after undefined behaviour: the null dereference, calls that overlap in `g_Clients`, an object used while it is
  deleted and the empty `ReadView` end the model, and no property excludes them
* a failed allocation in `new Kcp` or in the insertion into `g_Clients`: it is not among the `Faults` of `GameServer`
* `size_t` of 32 bits: `CanReadBytes` adds an offset and a size without a bound in `Codec`, where 32 bits could wrap

## 6. Plan

Done: the session table, the clocks, the handshake, the data path as a stream, the bytes, the buffers, HTTP and the process
around it, each checked and, but for liveness, proved.

Next, in this order:

1. the reuse of a freed address by a new session as seen from the old handler thread: two handlers on one queue. It needs
   `GameServer`'s heap below `PacketPipeline`'s queue
2. `Handshake`: what its retries give up (`Connects`) as a safety property, a bound on how long a session the client does not
   know of can be kept alive
3. `ReadFile` and the empty key as part of the start of the process
