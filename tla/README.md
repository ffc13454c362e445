# A TLA+ development of poco-echo

poco-echo is an echo server and its client in C++ on the Poco libraries. The
server admits connections from the addresses in a white list (an SQLite file),
and sends every text a client sends back to it. This directory holds TLA+
modules translated from the sources, the TLC configurations that check them on
small instances, and proofs for every instance that TLAPS checks.

The repository has no README, no tests and no documents; the reference is the
code. Paths below are relative to its root.

## The system

| Part | Source | State | Operations |
|---|---|---|---|
| White list | `server/src/CWhiteList.cpp` | the table `whitelist` in `whitelist.sql`; the map `m_acceptList`; `m_pDatabase` | `Initialize`, `TryGetList`, `Add`, `Remove`, `IsClientCanConnect` |
| Server menu | `server/src/CActionManager.cpp` | none (loop on the terminal) | add, remove, `exit(0)` |
| Server network thread | `CNetworkServer` in `shared/include/Network/CNetwork.cpp`, `server/src/CServer.cpp` | listening socket, list of client sockets, `m_bCloseRequested`, `m_pThread`; the connections themselves | one `select` loop: accept and judge, receive and dispatch, drop; `Close`, `Exit` |
| Server packets | `server/src/CPacketHandler.cpp`, `CPacketTranslator.cpp`, `packets/` | one packet at a time | `Translate`, `Read`, `Packet_Message`, `Write` |
| Client network | `CNetwork` in `CNetwork.cpp`, `client/src/CClient.cpp` | socket, update thread, close request | `TryClientStart`, `OnUpdate`, `Close`, `Exit`, `ListenAction` |
| Client menu | `client/src/CActionManager.cpp` | the pending action (`m_pActionResult`, ...) | `GetAction`, `PopActionResult` |
| Client options | `client/src/COption.cpp` | address and port | `ParseOptions` |
| FIFO buffer | `shared/include/Poco/FIFOBuffer.h` | memory, begin, used, flags | `write`, `read`, `peek`, `drain`, `copy`, `advance`, `resize`, ... |
| Handler list | `CNetwork::AddPacketHandler` ... | a list of functions | add, remove |
| The rest of Poco, SQLite | vendored headers and libraries | | |

Threads and how they meet. The server runs `main` (opens and loads the white
list, starts both threads, then waits in `join`), the action thread (the menu)
and the network thread. They share `m_acceptList` without a lock (the action
thread writes, the network thread reads), `m_bCloseRequested`, `m_pSocket` and
`m_pThread`. The client runs `main`, its action thread (which also sends) and
its update thread (which receives), sharing the socket pointer and the thread
object. Server and client meet in TCP connections: a verdict packet first
(`ACCEPT` or `KICK`), then `MESSAGE` packets both ways. Every packet is put
together and taken apart in a `Poco::FIFOBuffer` of 1024 bytes.

What is hard here, and therefore what the properties are about:

* look-ups in the map while a command changes it, and the two steps of every
  command (SQL statement, map) with failures, kills and restarts between them;
* a `select` result that is used for a whole round while connections close,
  reset and are dropped;
* TCP: a `receiveBytes` returns any prefix of what is queued; the server
  handles the first packet of it and discards the rest, the client reads a
  packet in two receives on a non-blocking socket;
* `CNetworkServer::OnUpdate` catches nothing: one exception ends the thread and
  closes every client, while the listening socket stays open;
* the request to close, which may find the thread anywhere;
* in the client, the life of the socket, of the thread object and of the
  network object, which two threads use and delete without a lock;
* lengths and types that are left uninitialised when a packet is cut, and
  numbers at the edge of an array, a buffer or an `int`.

`PROJECT.json` lists each hazard at its line.

## Modules

| Module | What it is |
|---|---|
| `AccessList` | abstract: what the server may rely on when it asks who may connect |
| `WhiteList` | `CWhiteList`, the commands that change it, the start of `main`, kills and restarts; implements `AccessList` |
| `EchoLink` | abstract: what the two ends of one connection may do; the contract between server and client |
| `NetworkServer` | `CNetworkServer::OnUpdate` with the handlers it calls, `Close` and `Exit`, the connections and the clients as the server sees them; uses `AccessList`, implements `EchoLink` for every connection |
| `ClientNetwork` | the client's owner (`main` and the action thread) and update thread, statement by statement where they share objects; runs against any server that keeps `EchoLink`, and implements the client's side of it |
| `ByteQueue` | abstract: a bounded queue of bytes |
| `FifoBuffer` | `Poco::BasicFIFOBuffer` with its memory; implements `ByteQueue` |
| `Framing` | the bytes of one message from the client's menu through the server to the client's display; its buffers are `ByteQueue` |
| `Options` | `COption::ParseOptions` |
| `...Proofs` | inductive invariants, safety properties, descents and refinements, proved (`NetworkServerLinkProofs` extends `NetworkServerProofs`); `EchoLinkProofs` has what follows from the contract alone |
| `MC...` | instances for TLC |

The modules are composed by contract. `WhiteList` is proved to implement
`AccessList`, and `NetworkServer` uses `AccessList` in its place;
`NetworkServer` and `ClientNetwork` are each proved to keep `EchoLink`, and each
sees the other only through it; `FifoBuffer` is proved to implement
`ByteQueue`, and `Framing` uses `ByteQueue` in its place.

Operators marked "Fault" are wrong variants of the definition that follows
them (a dropped guard, a missing erase, a result not checked). They are used
only to test that each property distinguishes them from the code.

### WhiteList

`table` (rows per address) and `hasTable` survive; `m_pDatabase`,
`m_acceptList`, `pc`, `strIp` and `answer` are lost when the process ends. `pc`
is the next statement of the thread that owns the list: `main` up to
`TryStart`, then the action thread, for which `INSERT`/`emplace` and
`DELETE`/`erase` are the two halves of `Add` and `Remove`. A statement fails
without effect or succeeds. `IsClientCanConnect` is the other thread: while
`emplace` or `erase` runs it may miss any key that is in the map, and may or may
not see the key that is moving (`Found`). `acked` remembers what the operator
was last told of an address. Every statement of `main` may be the last one
(`Kill`, `StartFails`, `Exit`).

The addresses are model values: the map and the table compare them as strings,
and so does the model. They stand for texts that are IP addresses. The menu takes
any word, and `CWhiteList.cpp:92` and `:118` put it into the statement with
`sprintf` as it is: a word with a quotation mark in it can give the table another
row than the map has, and nothing here speaks of such a word. The length of an
SQL statement is not modelled either (a `szIp` of 15 characters fits in
`szSql[64]`).

A look-up of an address that the list has may miss it while a command is under
way (`IsIpCanConnect` takes no lock). `AccessList` allows that: an unsettled
look-up may answer either way, and a client may be refused that both the old and
the new list admit.

### NetworkServer

`pc` follows one round of `OnUpdate`: `select`, `dispatch` (the `for` over
`readList`; `connect`, `admit`, `kick` and `reply` are the calls made inside it
for connection `cur`), `drop` (the `for` over `dropList`), and `dead`, `done` or
`gone` when the thread has ended by an exception, by a close request, or with
the process. In which order `select` lists the ready sockets is left open. A
round in which nothing is readable (the write list makes `select` return at
once) changes nothing and is not modelled.

A connection is `sock` (server's end), `peer` (client's end: up, closed, or
reset), `inbox` (what has arrived), `outlog` and `rd` (what was sent to the
client and how much of it has been read). A frame is two pieces, head and tail;
`Prefixes` says how many of the pieces a receive may return. When TCP cuts
frames (`Segmented`) that is any number. When it does not, a receive still takes
no more than the `MAX_BUFFER_LENGTH` bytes of its buffer (1024 in the code), so
it ends behind a frame or, once more of the longest frames are queued than fit
(`Overfull`: the fourth, at 266 bytes each), inside one. `BeginsWithFrame` says
whether the text of the first packet can be read; if not, the packet is garbled,
ignored, or has a length for which `new char[iLength]` throws, and a garbled text
may run off the heap (`Overrun`). `cut` remembers in which connections a frame
was cut, `rude` which clients closed before everything they sent was answered and
read.

A client in `dropList` is erased from `clients` one at a time (`Drop`); its
socket is held open by the lists of the round until they leave their scope
(`EndRound`).

A client sends after ACCEPT, or with no verdict
yet: `TryClientStart` compares a `packetType` that it never read when its
`poll` times out. A client that closes with unread packets resets the
connection, and a send to a closed client does the same; afterwards
`receiveBytes`, `sendBytes` and `peerAddress` may throw (`Throws`).

The white list is `AccessList`: `ConnectHandler` is its `Lookup`, and the
operator's `Add`, `Remove` and `Settle` interleave.

`Close` is reached when `CServer::Run` returns, which the endless loop of the
action thread allows only by an exception; the ordinary end is command 3,
`exit(0)` (`ExitCommand`).

### EchoLink and ClientNetwork

`EchoLink` has the two ends (`srv`, `cli`), everything the server has sent
(`log`), how much of it has been read (`rd`) and how many messages have left the
client (`sent`). The server sends one verdict, after ACCEPT the numbers of this
client's messages in increasing order (or a garbled text, when TCP cuts
packets), and may hang up. `NetworkServer` maps `outlog[c]`, `sock[c]` and
`peer[c]` to it.

In `ClientNetwork` the owner's `own` goes through `TryClientStart` (connect,
wait for the verdict), `Run`, the menu, `ListenAction` (`listen`, `send`),
`Disconnect`, `CNetwork::Close` (`close`, `closeThread`, `request`, `join`,
`waiting`), the destructor and the end of the process. The action thread and
`main` are one owner because `main` waits in `join` while the action thread
runs; `byMain` says who it is, since an exception is the end of the action
thread but of the whole process in `main`. The update thread's `upd` goes
through `OnUpdate` (`poll`, the receive of the type, the receive of the rest,
`PacketHandler`) and through `CNetwork::Exit` one statement at a time. Every
read of `m_pSocket` and `m_pThread` is a step of its own.

`sock` and `thr` are what the pointers point to, kept apart from the pointers
(`m_pSocket`, `m_pThread` are "not null"), so that a dangling pointer can be
told from a null one. A call on a deleted object crashes or finds the object as
it was left: a socket was closed before it was deleted, so a call on it throws;
the `join` of a deleted thread object may throw or return. `inq` holds what has arrived, in pieces: the type of a packet, its length, its
text, or the rest of a piece that a receive has cut. The second receive takes
what has arrived and fits into `MAX_BUFFER_LENGTH` bytes: when TCP does not cut
packets (`~Segmented`) it ends behind one of them or, when more of the longest
echoes have arrived than fit, inside one (`Prefixes`, `Overfull`: the fourth, at
264 bytes each). History variables (`quit`, `late`, `cut`, `misread`, `threw`) say
why something may have gone wrong; the properties use them to state that nothing
else goes wrong.

### ByteQueue and FifoBuffer

`FifoBuffer` has the memory (`ptr`, `ownMem`, the capacity is its length),
`size`, `begin` and `used`; each public operation is one action, since each
holds the mutex. Subtractions of `size_t` wrap (`Minus`). `Fill` stands for
`copy` and for `next`, a `memcpy` by the caller and `advance`, which is how a
socket receives into a buffer; `Replace` for an assignment through
`operator[]`. `told` is what observers of the two events were told last. A
failed call throws and changes nothing. The queue of the refinement is the
`used` bytes from `begin`. `Shrinks` says whether callers may make a buffer
smaller: no caller in the repository resizes one at all.

### Framing

`pc` follows one message through `GetAction`, `ListenAction`,
`CPacketTranslator::Translate`, `CMessagePacket::Read`, `Packet_Message`,
`CMessageSendPacket::Write`, and the client's `OnUpdate` and `PacketHandler`;
each read or write of a buffer is a step. The text, the frames and the
variables `packetType` and `iLength` are sequences of bytes in the order of a
little-endian machine. A receive returns any part of what is there; a read of a
packet that is not there leaves the variable's old bytes, which are any member
of `Stack` (the type: whatever was last handled), and a string that has lost its
0 goes on with any member of `Heap`, which may be of any length that an `int`
counts: what the buffer has no room for is then not written. The client's second
receive may return nothing. The client writes the text, its 0 and two
bytes from behind its array (`Beyond`).

### Options

The arguments are sequences of characters, of which the digits matter; `atoi`
reads digit by digit and stops at the largest `int`, as the library of the
platform does.

## Runs

| Run | Instance | What it shows |
|---|---|---|
| `white_list` | 2 addresses, at most 2 rows each in the given file | map and table agree while serving (`MemoryMatchesTable`), acknowledgements are durable (`AckedDurable`), no duplicate row is inserted, `AccessList` is implemented |
| `white_list_assert` | the same | `assert(m_pDatabase)` fails: `main` ignores the result of `Initialize` |
| `server_sockets` | 2 clients from 2 addresses, 1 message each, cut frames, resets | lists hold exactly the live sockets, no blocking receive, clients that wait for their answers never end the thread (`PatientClientsHarmless`), echoes go to their sender; one verdict, first, ACCEPT only to who was listed |
| `server_stream` | 1 client, 4 messages, cut frames, resets | echoes come in order, none twice (`EchoOrder`), and `EchoLink` is implemented |
| `server_live` | 2 clients, 2 messages of one and 1 of the other, frames that TCP does not cut, a buffer of 512 bytes, with fairness | every connection gets a verdict, the message at its front is echoed even when several arrive at once, closed clients leave, Close returns; nothing is misread until the buffer has cut a frame, which takes more of them than it holds (`WholeFramesRead`). Each step of the thread brings the end of its round nearer (`RoundDescends`) and, once Close waits, its own end (`CloseDescends`) |
| `client_sockets` | 2 messages, 3 packets from the server, cut packets, resets | the loop works on objects that exist, nothing is deleted twice, a crash needs a server that has gone, a user who quits or a misread, and a failed assertion the first of these (`FaultNeedsCause`, which does not say that there are no crashes: `Close` may join a thread object that `Exit` deletes), texts are displayed in the order typed, `EchoLink` is implemented; once the server has gone each step of the update thread brings its end nearer (`HangUpDescends`), and so does each step of both threads once the owner is leaving (`DisconnectDescends`) |
| `client_whole` | 2 messages, 4 packets that TCP does not cut, a buffer of 512 bytes, with fairness | the two receives of a round misread nothing until the buffer has cut a packet, a server that leaves is noticed, `Disconnect` ends the client |
| `client_assert` | 1 message, 2 packets | `assert(m_pSocket)` in `Exit` fails after an exception |
| `fifo_queue` | sizes 2 and 3, two byte values, inputs of up to 2 bytes | data stays in its memory, the assertion of `write` holds, no writer is left waiting for room that is there, `ByteQueue` is implemented |
| `framing_echo` | texts of 1, 2, 3, 254 and 255 bytes, receives cut around every field, heap strings shorter and longer than a buffer | a text that arrives whole is displayed as typed, what arrives of a cut one is displayed first, only a text that lost its 0 is written cut short, a length that is none needs a cut before the text or its 0 |
| `options` | numbers of up to 6 digits around 65535, other characters, two that do not fit an `int` | exactly the ports are accepted |
| `options_port` | the same | the port that is given is not used |

The types of `WhiteList`, `FifoBuffer` and `Framing` are proved
(`TypeCorrect`, `FramingTypes`) and not run.

Bounds. Two addresses let a command on one meet a look-up of the other, and two
rows are what distinguishes "a row" from "all rows". Two clients are what one
can do to another; the loop treats clients uniformly and no operation involves
three. Four of the longest frames are what it takes to fill the 1024 bytes of a
receive, so `server_stream` has four messages: a receive may end inside the
second frame with others behind it, and the buffer may cut the fourth.
`SendCap` 1 makes `sendBytes` block on every packet
that has not been read, 2 lets the verdict and an echo be under way together.
`server_live` has a second client and `client_whole` a second thread, and no room
for four messages besides. Their buffer is scaled down to 512 bytes, in which two
of the longest frames do not fit: the second is cut there as the fourth is by
1024. `NetworkServer` and `ClientNetwork` only compare `MAX_BUFFER_LENGTH` with a
number of frames, and their theorems are for every size that takes one frame.
`Talkers` are the clients that send more than one message; the second client of
`server_live` sends one. With one message of each client `server_sockets` says of an echo that it goes to
the client whose text it is; the order of several is the matter of
`server_stream`. A client that has three packets coming can find a second and a
third one behind the one it reads. A buffer of three bytes has room in front of, behind and on
both sides of its data; two sizes are what growing needs; `Word` is far above
both, as `size_t` is. In `framing_echo` 255 is the longest text that fits, and
`Cut` has every place within the two headers, and the places around the end of
the longest texts. Liveness is checked without resets (`MayReset = FALSE` in
`server_live`): a reset ends the thread, and every liveness property is about a
thread that goes on.

The server and the client may stop, and one message of `Framing` and one command
line of `Options` come to an end, so those runs allow deadlock. `white_list` and
`fifo_queue` do not.

Fairness. `NetworkServer!FairSpec`: the network thread is scheduled (it is a
Poco thread that `StartUpdateThread` started and never waits except in
`sendBytes`), `join` returns once the thread has ended, and a connected client
keeps reading (its update thread polls once a second). Nothing makes a client
connect, send or close, or the operator type. The assumption on the clients
matters: `sendBytes` blocks on a client that does not read, and the loop with
it. `ClientNetwork!FairSpec`: the owner outside the menu and the update thread
are scheduled; the user and the server need not do anything, and the only wait,
`join`, ends with the thread.

## Proofs

All for any set of addresses and connections, any number of rows, messages and
packets, any bytes and any sizes, from the assumptions that the modules name
(`WhiteListAssumption`, `ServerAssumption`, `ClientAssumption`,
`BufferAssumption`, `FramingAssumption`, `OptionsAssumption`) alone.
`EchoLinkProofs` assumes `BufferSize`, which both ends of a connection assume too.

`WhiteListProofs`. `MemoryMatchesTable` and `AckedDurable` are not inductive
alone: what the second half of a command does to the map depends on which command
was issued. `IInv` adds that an `INSERT` under way is of an address without a
row, a `DELETE` of one with a row, that an address under way is not
acknowledged, and that a stopped process has no map. `Invariance` is the
induction; `TypeCorrect`, `MemoryAgrees`, `AcksAreDurable` and `NoDuplicates`
follow. `Refinement` maps the initial states (`InitMaps`) and every step
(`StepMaps`) to `AccessList`; the racy look-up is the case that needs the
invariant (`FoundAllowed`).

`NetworkServerProofs`. `IInv` is the conjunction of `TypeOK`, `LiveSockets`,
`NeverBlocksInReceive`, `VerdictFirst`, `OnlyListedServed` and
`PatientClientsHarmless` with four parts that make them inductive: `Patience`
(towards a client that waited and closed nothing is still to be sent, so that its
connection is never reset), `Connections` (a
connection is in the backlog once, and nothing was sent to it before its
verdict), `Admission` (what a look-up may admit has been listed) and `Round`
(a reply goes to a client in the list; nothing is left to read when clients are
dropped). One lemma per part shows that every step preserves it, split by
action; `NextIInv` puts them together and the theorems follow.

Two of its theorems are about progress. `StepsLeft` is the greatest number of
steps that a round has left: what is listed to be received from and to be
closed, with the calls in between. `RoundsEnd` says that a step of the thread
makes it smaller and that no step of a client or of the operator makes it
larger. It needs that the lists are finite (`ListsFinite`), which holds because
a connection enters a list one step at a time, however many clients there are.
`CloseIsNear` says the same of the end of the thread once `Close` waits in
`join`, for which the request must not be lost (`RequestKept`). A round that
reads a client until nothing is left, or a `Close` that does not ask, breaks
them.

`NetworkServerLinkProofs`. `EchoOrder` needs to know what still waits:
`OrderInv` adds that the pieces of a connection are in the order in which they
were sent (`InOrder`), that every echo is behind every head that waits
(`EchoBehind`), that a reply under way is between the two (`ReplyBetween`), and
that in a connection whose frames have not been cut heads and tails alternate
(`WholeFrames`), from which `WholeFramesAreRead`: a receive that does not begin
with a whole frame needs a cut, by TCP or by a buffer that is full, and it takes
more frames than fit to fill it (those that wait are at most those sent).
`LinkRefinement` then maps every step of the server
to steps of `EchoLink` for all connections at once.

`ClientNetworkProofs`. `ObjectInv` says what exists at each place of the update
thread, where the owner can be, and why each thread has left its loop; it gives
`LoopStaysOnLiveObjects`, `DeletesOnce` and `FaultsHaveCauses`. `StreamInv`, on
top of it, says that what has arrived, what is in the buffer and what was
displayed follow each other by their places in `log`, and that `log` is in the
order of the user's messages; it gives `TypeCorrect`, `DisplaysInOrder` and,
with the steps mapped, `LinkRefinement`. `RoundInv` (packets follow each other
whole, and each of the two receives begins where it should, until one has ended
inside a packet) and `CauseInv` (what such an end needs: TCP, a text that the
server garbled, or more echoes than the buffer holds) give `WholePacketsAreRead`.

The measure of `HangUpIsNear` is eight for every receive that the pieces which
have arrived may still take (`Unread`: a piece is received whole or cut once),
the place in the round, and the eight steps of `Exit` and of the second `Exit`
that follows an exception (`ExitLeft`). `UpdateMoves` says where every step of the
thread goes, and `DrainFalls` that the measure falls on each of these moves;
what it needs of the rest is that a closed server sends nothing more and that
the other thread does not touch what the loop is at (`ObjectInv`).
`DisconnectIsNear` has two measures: `OwnerLeft` for the owner, who in `main` may
come back to `Disconnect` once, through an exception of `join`, and `AskedLeft`
for the thread it joins, whose loop ends after the round it is in because it has
been asked (`Asked`): the request is made before the join, and `Exit` clears it
only when the loop is over.

`EchoLinkProofs`. `ContractHolds` is what the contract amounts to for either
end: one verdict, first, and nothing after a kick (`OneVerdict`); the client's
own texts, each once and in their order, and none that it did not send unless a
frame may have been cut, by TCP or by a full buffer (`OwnTextsInOrder`); nothing is read that was not sent. By the two
refinements it holds of every connection of the server and of every client.
`NothingIsTakenBack` is the same for steps.

`FifoBufferProofs`. `IInv` is `TypeOK` and `InMemory`; with it go that a buffer
with its error flag is empty and that no assertion has failed. Each
operation has a lemma that it preserves `IInv` and maps to its operation of
`ByteQueue`; `BufferIsQueue` is the refinement. `WritersAreWoken` is by a
separate invariant. All of them assume `~Shrinks`.

`FramingProofs`. `IInv` says, at each place of the journey, where in the buffer
or on the connection the length, the text and its EOS stand, as far as they fit
(`IsBody`; a text that came with its 0 always does, `TextOrCut`), that what a reader has left is what came behind what it asked for (`Rest`), and that
what it made of the text keeps what came of it (`Keeps`). The lemmas below it are
about the operators: that four bytes give back the length that was put into them,
whatever `int` it is (`BytesFacts`), that a string ends at the first 0
(`CStringFacts`), and what a write, whole or cut, and a read of `ByteQueue` do
(`WriteWhole`, `WriteCut`, `ReadRest`). `EchoIsExact` and
`CutsKeepPrefixes` put the two halves of the journey together (`KeptTwice`), for
every text, every content of uninitialised memory and every cut.

`OptionsProofs`. `PortIsChecked` is about arguments of any length, so what
`atoi` computes must be known for all of them. The library's induction takes an
operator, which the provers cannot instantiate; `Induction` states it for a
set, and the lemmas apply it to sets of lengths: the recursive function exists
(`ValueExists`), stays within the `int` (`ValueType`) and never falls
(`ValueGrows`). Zeros in front change nothing (`ZerosInFront`), five digits or
fewer behind them are read exactly, and from the sixth on the number is out of
range whatever follows, also at the largest `int` (`LeadingPort`).

What is only model-checked is liveness (`VerdictComes`, `FrontIsEchoed`,
`ClosedIsDropped`, `CloseCompletes`, `HangUpIsSeen`, `DisconnectEnds`), which is
out of the prover's reach. For four of them the part that is safety is proved:
`CloseCompletes`, `HangUpIsSeen` and `DisconnectEnds` follow from `CloseDescends`,
`HangUpDescends` and `DisconnectDescends` with the fairness that makes a thread
take its steps and the absence of a wait that nobody ends, and a verdict or an
echo needs that rounds end (`RoundDescends`).

## What was found

* `main` ignores the result of `CWhiteList::Initialize`; when the file cannot
  be opened, the next call violates `assert(m_pDatabase)` (run
  `white_list_assert`).
* When a receive throws, the client's `OnUpdate` calls `Exit()` and goes on with
  the deleted socket; the next `Exit` violates `assert(m_pSocket)` (run
  `client_assert`).
* The port of the client's command line is checked and never used (run
  `options_port`). Without one, the client connects to 28220, while the usage
  line says 28210.
* The comment at `CClient.cpp:98` says that the length is made to include the
  EOS; it already does, so the frame's length is one too many and two bytes from
  behind the text are sent. The server stops at the first 0, and the echo is
  right (`EchoExact`).
* The prompt for a text allows 256 characters; the array has room for 255 and the
  EOS.
* `FIFOBuffer::resize` to a smaller size leaves `_begin` where it was; a `write`
  then takes a difference of `size_t` that wraps for room, and its
  `poco_assert(_used <= _buffer.size())` fails (`UsedFits` with
  `Shrinks = TRUE`). To a larger size, it tells nobody that a full buffer has
  become writable. Neither program calls it.
* The 1024 bytes of a receive are filled by four of the longest texts: the fourth
  that is queued is cut without TCP cutting anything, on the server (266 bytes a
  frame) and, behind the type, on the client (264 bytes an echo). What follows is
  then misread; on the server it may be ignored, echoed garbled, or end the thread
  by its length (`WholeFramesRead`, `WholePacketsRead`).
* `CMessagePacket::Read` adds no NUL to a text. One whose frame was cut before
  its 0 runs on over the heap; beyond 1015 characters its echo does not fit the
  packet's buffer, `FIFOBuffer::write` cuts it, nobody looks at the result, and
  the frame goes out with a length that is not its own (`FrameFits` says that no
  other write is ever cut).
* Behaviour that no document contradicts but a reader should know: a client that
  closes before its echo is sent, or with packets unread, ends the network
  thread for everyone (`peerAddress` in the drop loop throws); of several frames
  that arrive together only the first is echoed; `IsIpCanConnect` races with the
  menu; removing an address does not disconnect its clients; a client whose
  verdict is late starts all the same; `Disconnect` while the server hangs up
  may join a thread object that is being deleted; a word where the menu expects
  a number ends the client with its stack.

## Not modelled

* The vendored libraries. Of the 83,600 lines in the repository all but about
1,700 are headers of Poco and SQLite, most of them templates that neither
  program instantiates (`NamedTuple.h`, `Dynamic/`, `Logger.h`, ...); the
  sources behind the headers are not there. The one that carries state of both
  programs, `FIFOBuffer`, is modelled in full; sockets, threads and SQLite appear
  as the operations that the code calls. This is why the modelled share of all
  lines is small while nearly every line of the two programs is covered.
* The handler list (`AddPacketHandler`, `RemovePacketHandler`). Each program
  registers one handler, before its thread runs, and never removes it.
* `CNetworkServer::TryStart`, one `bind` before the thread starts, and the
  server's `Close` against a thread object that `Exit` deletes, which is
  modelled for the client, whose code it shares.
* On the client's side a send that is short or returns -1 (it is reported as
  delivered); the server's side of it, a frame cut by its sender, is a cut
  frame in `NetworkServer`. A cut inside the four bytes of a length is, in
  `ClientNetwork`, a cut before or behind it; `Framing` has the bytes.
* The recursion of the menus, terminal output and wording, Windows thread
  handles, and memory allocation failure other than of a length that is none.
