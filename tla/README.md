# A TLA+ model of socket-serializer

This directory models [socket-serializer](../src/README.md) in TLA+: the buffer list that reads
many chunks as one stream, the framing of packets, what is written for a value and read of it, the
decoder behind a socket, the writers in front of one, and the two ends of a connection with servers
that fail and clients that reconnect. TLC checks small instances; TLAPS proves, for all of them, every
safety property that a passing run checks. Paths below are relative to `src/` unless they name a module.

## The system

| Component | State it keeps | Operations |
|---|---|---|
| `BufferListReader` (`src/buffer/bufferListReader.ts`, `reader.ts`) | the list of buffers, its length, the cursor twice (an offset; a buffer and a place in it), a timestamp of merges, a stack of saved contexts | append, reads in one piece (which may merge buffers), reads as a list, seek, pushd/popd, getContext/setContext, reduce, reset |
| `IpcPacketHeader` (`src/packet/ipcPacketHeader.ts`) | type, header size, content size | DeclareHeader, ReadHeader |
| `IpcPacketSocketDecoder` (`src/socket/ipcPacketSocketDecoder.ts`) with `IpcPacketBufferList` | a BufferListReader, the packet being decoded | handleData: append, decode as many packets as there are, emit `packet`, `error`, `packet[]`, reduce |
| `IpcSocket`, `IpcPacketSocket` (`src/socket/ipcSocket.ts`, `ipcPacketSocket.ts`) | the net.Socket of the last attempt, the number of reconnects, timers, listeners | connect, the handlers of `connect`, `error`, `close`, reconnect; listen and the handlers of a server |
| socket writers (`src/socket/socketWriter.ts`, `socketBufferWriter.ts`) over `BufferListWriter` | waiting buffers, their length, open contexts | append, write, pushContext/popContext, flush, buffer, reset |
| `IpcPacketWriter`, `IpcPacketReader` (`src/packet/`) | none | write, read, read arrays in part |
| `IpcPacketCore`, `IpcPacketBuffer`, `IpcPacketBufferList` (`src/packet/`) | a header; the bytes in one buffer or in an array of buffers | write, read; serialize, decodeFromReader, decodeFromBuffer, reset, get/setRawData, parse, parseArray..., bytelength |
| `BufferReader`, `BufferWriter`, `BufferWriterSize` (`src/buffer/`) | one buffer and an offset; a length | the same interfaces over one buffer |
| JSON, text and type helpers | none | conversions |

A packet goes IpcPacketWriter -> socket writer -> net.Socket -> TCP, which cuts the bytes as it
likes -> `data` of a net.Socket -> the decoder `_parseStream` attached to it -> BufferListReader ->
ReadHeader -> `packet` of the IpcPacketSocket. The objects call one another synchronously; what
interleaves are the events of sockets, the timers of reconnect, the calls of the program, and the
program's listeners in the middle of handleData, where they may throw.

### What is hard, and what makes each component correct

* **BufferListReader.** Two forms of the cursor, a length and a stack of contexts are updated apart
  by eleven methods, and reading may replace the buffers they refer to. Correct: a client sees a
  stream. Reads return the next bytes, popd returns to the matching pushd, releasing takes read
  bytes only.
* **Decoder.** A packet may be cut anywhere, also inside its header, so a header is read several
  times; listeners may throw in the loop. Correct: each packet sent is delivered once, in order,
  whole, and as soon as its last byte has arrived; read bytes do not pile up.
* **IpcSocket.** Failures, refusals, closings and timers come in any order, and handlers act on
  `this._socket` as it is when they run. Correct: one attempt at a time, one decoder on a connected
  socket, no silent end, `connect` once and then `reconnect`, and a connection again when the server
  is back.
* **Listening.** The handlers of a server act on `this._server`; listeners of `error` are removed when
  it listens and accepted sockets have none. Correct: a socket is reported with the server that
  accepted it, a server that does not listen is reported, and no error is without a listener for a
  program that adds its own when it is told.
* **Both ends.** One end of a connection may be gone long before the other knows, and half a packet
  may be lost with it. Correct: no packet is made of the bytes of two connections; when a server is
  back to stay, the client is served again.
* **Values and packets.** Types, sizes and counts are written by one class, counted by a second and
  consumed by a third; parsing merges buffers in an array that packets may share. Correct: what is
  read is what was written; parts of an array are those of the whole; a packet keeps its bytes.
* **Writers.** A content is written before its size is known; buffers wait for the end of contexts.
  Correct: whole frames in order with true sizes, nothing left waiting.

## Modules

| Module | What it is |
|---|---|
| `BufferList` | the data structure: a reader as a record of the private fields, one operator per method |
| `BufferListReader` | the state machine: a reader and a client that calls its methods in any order |
| `StreamReader` | the abstract specification of a reader: a stream with a cursor, no buffers |
| `BufferListLoops` | the loops of seek, `_consolidate` and readBufferList as the code runs them, compared with the closed forms of `BufferList` in every reachable state |
| `Buffers_proofs` | lemmas about sequences of buffers, about the operators of `BufferList`, and about lists of fields: `FlattenSeq`, and `Total`, the sum of their sizes |
| `BufferListReader_proofs` | the invariant of the reader, its refinement of `StreamReader`, what its calls return, what each loop computes, turn by turn |
| `PacketHeader` | types, sizes, DeclareHeader, ReadHeader on a reader of either class |
| `PacketDecoder` | sender, network and handleData |
| `PacketDecoder_proofs` | the invariant of the decoder, its five properties, its steps as steps of `PacketChannel` |
| `PacketChannel` | the abstract specification: a queue of packets with an open connection |
| `Readers` | the interface Reader: BufferReader, and BufferListReader by `BufferList` |
| `Writers` | the operators of BufferListWriter and the three socket writers |
| `PacketWriter` | how IpcPacketWriter writes a packet of each type, field by field |
| `SocketWriter` | a program that serializes packets into the socket writers |
| `SocketWriter_proofs` | what each operator writes; the invariant of the writers and their properties |
| `PacketCodec` | values of JavaScript to packets and back, and bytelength, by the depth to which arrays are nested |
| `PacketCodec_proofs` | what is written of a value and what is counted; what is read at any place of its fields, of every type, in whole and in part |
| `PacketCore` | a program that writes values and reads them through a reader of either class |
| `PacketCore_proofs` | the types of that program, the invariant of what it reads, its properties |
| `PacketBuffer` | packets with their bytes: made, received, copied, shared, reset, parsed in whole and in part |
| `PacketBuffer_proofs` | the invariant of packets, of their bytes and of their values, and their properties |
| `IpcSocket` | the connecting side, sockets with their listeners, timers, a server that comes and goes |
| `IpcServer` | the listening side, servers with their listeners and the sockets they accept |
| `Connection` | composes `IpcSocket` and `IpcServer` with TCP between them, packets in halves, and the decoder of each connection |
| `Connection_proofs` | the invariant of the connecting side, with a server that comes and goes freely; that one end of a connection does what `IpcSocket` does; the invariant of both ends |
| `MC*` | small constants for TLC |

### How the state corresponds to the code

**Bytes are positions.** A buffer is an interval `[lo, hi)` of positions of the stream, so "the
right bytes" is an equality of intervals, and data that no property tells apart is gone. `reader`
has the fields of the class under their names (`curBufferIndex` counts from 1). `arrived` and
`places` are ghosts: how much was appended, and where pushd was called. `out` is what the last call
returned. A method of the class runs to its end, hence is one step.

The client of `BufferListReader` calls anything with anything, but for two uses the code does not
survive, which it makes only when `Habits` names them: `seek_at_end` (seek to somewhere else when
everything was read) and `array_buffer_mid_buffer` (readArrayBuffer when the cursor is not at the start
of a buffer). Each is a finding with a run of its own. And it does not reduce while contexts are saved:
reduce leaves them where they were, and a popd after it goes to another byte. Numbers and array buffers
are read only after checkEOF, as every caller in the repository does (`ReadHeader` checks header and
content before anything is read).

`BufferList` gives loops in closed form: `LastSpanned` is the first buffer that completes the bytes,
`Holding` the buffer that has the byte. `BufferListLoops` has the loops themselves: a turn of each
(`ForwardTurn`, `BackwardTurn`, `AccumulateTurn`, `PieceTurn`) is the body of the loop under its
condition, and the loop is the recursive function of the number of turns. TLC compares both for every
argument in every reachable state, and `BufferListReader_proofs` proves them equal.

**Packets on a stream.** In `PacketDecoder` a packet is a record of type, content size and the
position where it starts; what two bytes "say" is looked up there (`PacketAt`), and bytes from the
middle of a packet are the header of none. handleData is cut where it calls listeners: `HandleData`
appends; `DecodePacket` is one turn of the loop with its `emit('packet')`; `DecodeNothing` is the
turn that ends it; `CheckHeader` the `error`; `EmitPackets` the `packet[]` and the reduce. With
`ListenersThrow` a listener may throw at each of these and end the call there.

**Sockets with listeners.** In `IpcSocket` each net.Socket has its state and the listeners the code
adds and removes. `Prepared` and `OnSocketError` act on `current`, which is `this._socket`, and not
on the socket the event comes from: with two attempts at once the model shows the mix-up the code
has. `guarded` is an `error` listener the program adds in its own `connect` handler. `Connect` is
the code of connect, shared by the program and by the timer. The automatic reconnection is always on
and always delayed because of `ipcSocket.ts:23-24`. `IpcServer` has the same for net.Servers:
`listener` is `this._server`, and a peer remembers the server it is `reported` with beside the one that
accepted it.

**Two events called `error`.** An IpcPacketSocket emits `error` with `(err, socket)` when an attempt has
ended for good (`_onSocketError`), and its decoders emit `error` on it with `(socket, server, err)`: by
finding 3 at the end of every call of handleData. `event` tells them apart as `"error"` and `"invalid"`, and
`SocketReceives`, a step of every socket that is given data, emits the second. `ConnectsOn` says after which
events the program calls connect. It has `"start"` and `"error"` in the runs: a program that looks at the
arguments. A program that connects on every `error` does so with the first data it receives, while it is
connected. With `"invalid"` added to `ConnectsOn`, TLC finds `OneAttempt`, `ConnectedSocketIsServed` and
`AnnouncesReconnections` violated within ten steps: there are two sockets, one of them no longer
`this._socket`, and a second `connect` where a `reconnect` is due. That is finding 3 at work and not a
property of IpcSocket that fails. Of the events that bring data (`packet`, `packet[]`, `data`) nothing is
said: the program does not connect because of them.

**Both ends of a connection.** In `Connection` a socket and the one accepted for it have one name; a
peer is `pending` from the moment the connecting end is told until a server accepts, and either end
may fail or close while the other is still open, until fairness has it told. `up` of `IpcSocket` is
no longer free: it is whether a server listens. `ServerRestarts` is the death of the serving process:
all it had is gone at once. `wire` counts the halves of packets a connection carried, and `decoder`
is the one made by the last `_parseStream`; `HandleData` gives it half a packet and emits the `error` that
follows. Data goes from the serving program to the connecting one only: on the way back the decoder of an
accepted socket would do the same, and its `error`, like `connection` and `close` of accepted sockets, is
none of the `Occasions` after which a program calls listen. A socket is used again when nothing of it is left at
either end.

**Buffers with fields.** In `SocketWriter` a buffer is a sequence of fields (type, content size,
content, footer) with sizes; content size also with the value it says. `Frame` is what the reader of
headers expects, from `DeclareHeader`, and the writer is compared with it.

**Values.** In `PacketCodec` a value is what `typeof` and `instanceof` make of it, a number (its own for
numbers, a size in bytes for texts and buffers), a token for the rest of it, and the elements of an
array. The code calls itself for what is in an array. Here `AllValues` is the set of all values there
are, with the elements of its arrays, and what is written, counted and read of them is a function made
level by level: `ContentsNested[d]` has the contents of arrays nested at most `d` deep, from those of
the level below (`BytelengthsNested` and `Reading` alike). `MaxNesting` bounds the depth, and the
assumption says that it is enough for every value of `AllValues`. `WriteValue` writes it into a writer
of `Writers`; `Memory` lays the fields that were written out at their positions, and reading is done by
position through `Readers`: bytes that are exactly a field say what was written there, any others say
`NoText`, so a cursor that is off by a byte is noticed at once. `MaxUInt32` stands for 2^32 - 1, scaled
down: numbers at, below and above it take the same branches, and what does not fit wraps. A Float32Array
is a value of its own because its name is missing in the table of `ipcPacketHeader.ts:73`; it is given no
packet. `ValuesAssumption` says that tokens are used as the model means them: `null`, `true` or an empty buffer
is one value and not several that reading could not tell apart. `ElementsHavePackets` says that no array
holds a symbol, a function or a Float32Array, which the code counts and does not write; it is a hypothesis of the
theorems about what is read, and the modules for TLC assume it of their values.

**Packets.** In `PacketBuffer` the array `_buffers` of a list is an object: `sharing` says which
packets have the same one, so that a merge by the reader of one changes the others, and `CopyRawData`,
`LookAtBuffer` and the actions that take a new array cut it off. `value` is the value whose bytes the
packet has, and `inStep` whether its header is theirs; write and read with a writer or reader of the
program, and a value that is not written, part the two (as in the code), and nothing is said of such
a packet but that it can be made whole again.

## Runs

| Run | Bounds | Distinct states | What it shows |
|---|---|---|---|
| `reader` | 5 bytes in buffers of 1-3, reads of -1, 1, 3, all, numbers of 1, 2, 4, two saved contexts, threshold 2 | 319 779 | types, `HoldsTheStream`, `CursorAgrees`, `SavedPlacesAgree`, the three comparisons of loops, `ImplementsStream` |
| `decoder` | 3 packets (fixed, dynamic, foreign), chunks of 1, 4, 9, listeners may throw | 845 979 | `DeliversWhatWasSent`, `DeliversAtOnce`, `BatchesWhatWasDelivered`, `DeadBytesAreBounded` |
| `decoder_channel` | 2 packets of 4 kinds, chunks of 1, 2, 5, 9 | 26 937 | `ImplementsChannel`, with liveness |
| `writer` | 4 packets of 5 shapes, 2 contexts, size 24 | 37 770 | `WritesFrames`, `SendsWholePackets`, `NothingIsHeldBack`, `HeldBackBelowSize` |
| `packet_core` | 2 of 24 values, one buffer, the writer's buffers, or a cut at 6 places | 9 901 | `ReadsWhatWasWritten`, `HeaderIsTheOneInTheBytes` |
| `packet_buffer` | 2 packets of either class, 2 of 5 values, cut at up to 3 places, the last byte missing or not | 7 586 | `KeepsItsBytes`, `ParseGivesTheValue`, `PartsAgreeWithParse`, `BytelengthIsThePacketSize` |
| `connection` | 3 net.Sockets, 2 net.Servers, 2 halves of packets on a connection | 132 046 | `OneAttempt`, `ConnectedSocketIsServed`, `NeverSilentlyIdle`, `ErrorsAreHandled`, `PacketsAreOfOneConnection`, `PeersAreReportedWithTheirServer`, `NeverSilentlyDeaf`, `AnnouncesReconnections`, `IsServedAgain` |

Five more runs each end in a violation, and are the findings below.

**Why these bounds.** Five bytes in buffers of one to three bytes give up to five buffers; a read of
four meets every cut, the threshold of two is crossed, an emptied first buffer and a cursor behind
the last byte both occur, and two contexts make one stale under a valid one. A packet of the decoder
has 3 to 10 bytes, so chunks of one byte cut every header and chunks of nine hold several packets and
part of the next; the third packet meets what reducing left of the second. Three sockets are one in use,
one on its way to `close`, and one too many; two servers are the one that listens and the one that
takes its place; the code asks of `_numReconnects` only whether it is zero, so it stops counting at
`MaxReconnects`. The first half of a packet may be the last thing a connection brings, and the second
completes it: `MaxHalves` is two. Size 24 of the writer takes two packets and is passed by a third.
The values of `packet_core` take every branch of write and of readContent, with arrays in an array in
an array; one value behind another shows what the first consumed. The cuts fall into a type, a size, a
count and a content. A packet with three elements has elements before, at and behind every index of
`Indices`, and `SliceBounds` has slices that are negative, empty, crossed and too long. `MaxBytes`,
`MaxSaved`, `MaxPackets`, `MaxContexts`, `MaxValues` and `MaxHalves` are guards of the actions that
would count on; `Cuts`, `Indices` and `SliceBounds` are the arguments tried.

**Left out because of a finding.** Packets with an ArrayBuffer are not received cut and not read from
cut bytes (`reader_array_buffer`): each action names the guard `HoldsArrayBuffer`. The program of
`connection` does not connect on the `error` of a decoder (`decoder_error`). A Float32Array is among the
values of `packet_core`, and like a symbol given no packet.

**Deadlock** is checked except where the system really stops: a closed socket whose sender has
nothing more to send (`decoder`, `decoder_channel`), a program that has read what there was
(`packet_core`), a client whose call threw, a process that ended with an uncaught error.

**Fairness.** `PacketDecoder`: weak fairness of `Decode`. TCP delivers what was written while the socket
is open, and handleData runs to its end. Nobody has to send or to close. `Connection`: a timer that is
due runs, an attempt ends in one way or another, `close` follows `error`, an end whose other end is gone
is told, a listening server accepts what has connected; that is the event loop of Node and TCP. Nothing
makes a server listen, the program connect, or a connection break. `IsServedAgain` has the rest in its
statement: a server listens from some time on (`<>[]up`), and from some time on no connection that is
there at both ends goes (`Lost`). Without the second a server that resets every connection would be a
counterexample, and no fault of IpcSocket. What is left is the hard case: a client whose connection
went, whatever attempts, refusals and half-closed connections it is in the middle of, ends up connected
to a server that has accepted it, or was told that it will not be. The readers, writers and packets are
called; nothing makes a program call, and they have no liveness.

Every property of a passing run has a mutant: an operator marked "As a bug" that replaces one
definition and breaks the property.

## What is proved

The theorems hold for every value of the constants that the named assumptions of the modules admit:
any sizes of buffers, chunks and packets, any number of sockets and servers, any thresholds and bounds.
Each rests on an inductive invariant, which TLC has also checked on the instance of the run of that
component (without the type of the writer's fields, a set of records TLC cannot test, and without the types
of `PacketCore`, of which `TypeOK` stands in the run).

### The reader (`BufferListReader_proofs`)

For a client without the harmful habits (`Habits = {}`; each habit is a finding with a run):

* `TypeCorrect`, `StreamIsHeld`, `CursorAlwaysAgrees`, `SavedPlacesAlwaysAgree`: the four invariants
  of the run `reader`;
* `ReaderImplementsStream`: `Spec => Stream!Spec`;
* `ReadsAlwaysReturnTheNextBytes` and `NoCallThrows`: what the runs `reader_array_buffer` and
  `reader_seek_at_end` refute of a client with the habit holds of one without it, so the habits are
  the only causes;
* `SeekAlwaysWalksToTheByte`, `OnlyWhatIsNeededIsMerged`, `ListsAreReadPieceByPiece`: the loops of the
  code do what the closed forms say, in every reachable state;
* `InvariantHolds`: the inductive invariant `IInv`.

`IInv` needs two parts beyond the invariants. `Covers` says of any two buffers, and of any byte, what
`HoldsTheStream` says of neighbours; carrying it along spares an induction over the list in every
step. `SavedAtEndIsExact` says that a context saved at the end of the bytes never becomes stale while
it is there: setContext could not find it again. It is inductive because a merge needs unread bytes,
so it happens only after bytes were appended and such a context is no longer at the end, or after a
seek from the end, which is the habit excluded.

`Buffers_proofs` has what the operators do to a sound reader: splicing keeps the list one piece
(`SplicedList`, `MergeKeepsBytes`), a read in one piece and a read as a list return the next bytes and
move both cursors to the same byte (`ReadReaches`, `ConsolidateReads`, `ReadListMoves`, `ListPieces`),
seek and setContext reach the byte (`SeekGoes`, `SetContextRestores`), reduce releases read bytes only
(`DropSound`, `TrimSound`, `ReduceSound`). Then `BufferListReader_proofs` has one lemma per action
for the invariant (`...Step`) and one for the refinement (`...Refines`).

A loop is proved by naming its state after each turn (`ForwardEnds`, `BackwardEnds`, `Accumulates`,
`PiecesAreTaken`): that state is shown to satisfy the equation of the recursive function, and
`TurnsMove` shows by induction over an interval of turns that the function is no other. The prover
takes induction theorems over sets only, so an induction is always stated as a set of numbers.

### The decoder (`PacketDecoder_proofs`)

No assumption but those of the constants, and listeners may throw anywhere:

* `DecoderTypes`, `DeliversExactly`, `NothingIsLeftBehind`, `BatchesAreTheSame`, `DeadBytesStayBounded`:
  the five invariants of the run `decoder`;
* `DecoderIsSafeChannel`: each step is a step of `PacketChannel` or a stutter. It assumes `Declared`: a
  packet the sender sends as one of a fixed type has the content size of that type, which is what
  the writer writes. `PacketChannel` delivers the packet as it was sent, the decoder one of the
  size declared;
* `DecoderInvariant`: the inductive invariant.

`IInv` says that packets lie on the stream one after another (`Laid`), that between two turns the
cursor stands where the first packet not yet delivered starts (`Reading`, with `Sound` of
`Buffers_proofs`), that what was delivered are the first packets sent, all of them arrived
(`DeliveredRight`), what `packet[]` is still to bring (`BatchedRight`), that the loop ends only when no
packet is left or a listener threw (`LoopEnds`), and the bound of reduce (`Reduced`). `Reading` is the
part that carries it: the invariants speak of what was delivered and nothing of the cursor, from which
the next packet is read. The lemma on ReadHeader shows that at such a place it either finds the whole
packet, with its header, or leaves the cursor to be set back, whatever the buffers are cut into.

### The writers (`SocketWriter_proofs`)

* `WriterTypes`, `FramesAreWritten`, `WholePacketsAreSent`, `AllIsSentOutsideContexts`,
  `LessThanTheSizeWaits`: the five invariants of the run `writer`, for data of any type and size and
  arrays of any length (`WriterAssumption`);
* `WriterInvariant`: the inductive invariant.

`IInv` says that a writer knows the length of its buffers (`WriterCounts`), counts the contexts of the
program (`ContextIsDepth`), keeps buffers only in a context of a BufferedSocketWriter and then below its
size (`WaitsInContext`), and that what was sent and what waits are together the frames in order, with
what was sent a whole number of them (`FramesInOrder`). The last is stronger than `SendsWholePackets`,
which does not say what waits. A size is written before its content, so the lemmas follow what each
operator appends to any writer, and that the length of a content writer is the `Total` of its fields.

### The two ends of a connection (`Connection_proofs`)

* `SocketInvariant`, `SocketTypes`, `SocketSafety`: `IpcSocket` by itself, with a server that comes and
  goes as it likes;
* `ConnectionImplementsSocket`: every step of both ends is a step of `IpcSocket` or leaves its variables,
  so that what is proved of `IpcSocket` holds of the composition;
* `OneAttemptAtATime`, `ConnectedIsAlwaysServed`, `SilenceIsNeverIdle`, `ReconnectionsAreAnnounced` (an
  action property), `PacketsStayInTheirConnection`, `PeersAreAlwaysReportedRight`, `SilenceIsNeverDeaf`,
  `ErrorsAreAlwaysHandled`, `ConnectionTypes`: the invariants and the action property of the run
  `connection`;
* `ConnectionInvariant`: the inductive invariant of both ends.

They assume what the run assumes of the program: it calls connect at the start or when the `error` of
`_onSocketError` has told it that IpcSocket has given up (`Careful`), and listen when no server of its own
listens (`CarefulServer`). `Careful` excludes a program that connects on the `error` of a decoder, which
comes with all data: for such a program `OneAttemptAtATime`, `ConnectedIsAlwaysServed` and
`ReconnectionsAreAnnounced` are false, as TLC shows. That the decoders emit it is in the model: the
proofs have a case for it in each step (`SocketReceivesStep`), and need for it that data comes only while a
socket is in use, so that the `error` after it never hides the one that says IpcSocket gave up. A program that calls connect while IpcSocket tries on its own replaces
`this._socket` under the attempt there is; nothing in the repository says that it may. And for
`ErrorsAreAlwaysHandled` it adds listeners for the sockets and servers it is told of
(`ProgramListens`, `ServerGuarded`): without them the property is false, which is the finding of
`socket_error`.

The invariant of `IpcSocket` says that a socket has one of five forms, by which listeners it has
(`SocketForms`: unused, connecting, connected, broken, refused), that at most one of them is
connecting, connected or broken, and none with a timer running (`OneBusy`), that such a socket is
`this._socket` (`BusyIsCurrent`), that the program's turn and IpcSocket's exclude each other
(`ProgramsTurn`), and when `_numReconnects` is 0 (`CountsLostConnections`). `OneAttempt` alone is not
inductive: a listener left on a socket that nobody uses would start a second chain of attempts later,
and a socket about to close counts already as the attempt that will follow. `ServerSound` is the like
for servers and what they accept; `FreshSockets` of `DataSound` says that a socket is used again without
bytes of its last connection, and without it `PacketsAreOfOneConnection` is not inductive.

### Values (`PacketCodec_proofs`)

Lemmas about the operators of `PacketWriter` and `PacketCodec`, for values nested to any depth. They
serve the two modules that follow.

*Written.* `Longer(w, x, buffers)` says that the list `x` is `w` with these buffers behind and still
knows its length, and there is a lemma for each way to write a packet (`FixedLonger`, `HeaderLonger`,
`DynamicContentLonger`, ..., joined in `ValueWritten`). An array is its elements one after another:
`ContentSteps` and `SizeSteps` unfold the two folds into steps, and `ContentSums` shows by induction over
the steps that both come to the same size if they do for the elements. `ContentsAreCounted` is the
induction over the levels.

*Read safely.* `WellFramed` says of fields that behind every type there is what is read of a packet of
that type. All that is written is well framed (`WrittenIsFramed`), and then whatever is read, from
wherever, only moves the cursor forward within the bytes and merges buffers that touch (`Leads`:
`ContentLeads`, `ReadingLeads`, `ArrayAtLeads`, ...). This needs no agreement of writer and reader, only
that a header is looked for before it is read.

*Read right.* `At(r, size, pos)` puts a reader at a place; `PacketIsAt(f, a, v, c, b)` says that the
fields `f` are `a`, the packet of `v`, and `b`. `PacketHeaderThere` finds the header there,
`ContentThere` the content of each type, `ArrayContentThere` the elements one after another, and
`EveryValueIsRead` by induction over the levels: read returns the value and leaves the reader behind its
packet. Behind the last packet there is, seek refuses to skip the footer, and the reader stays on it
(`EndAt`). `ArrayAtThere` and `ArraySliceThere` are the like for parts of arrays.

*ArrayBuffers.* readArrayBuffer takes its bytes from the first byte of a buffer, which is the finding of
`reader_array_buffer`, so a value that holds one is read right only from buffers as they were written:
`Tidy` says that no field is cut and that a content that is written alone begins a buffer, `Neat` that
the cursor does not wait at the end of a buffer, and every reading keeps both (`Keeps`).
`OrderlyWritten` shows that the writer writes such buffers.

### Writing and reading (`PacketCore_proofs`)

* `CoreIsTyped`: the invariant `TypeOK` of the run `packet_core`, for any values: where an array counts what
  it does not write, the reader reads something else, but stays within the bytes;
* `WhatIsWrittenIsRead`, `HeadersAreThoseInTheBytes`: `ReadsWhatWasWritten` and `HeaderIsTheOneInTheBytes`, if
  `ElementsHavePackets`;
* `PacketsAreInPlace`: the inductive invariant, `IInv /\ InPlace`.

`IInv` has the types, that the reader has a place in the bytes, and that no more is read than there are
packets and once behind them. `InPlace` adds where that place is: behind as many packets as were read
(`ReaderReaches`), the last of which leaves its footer, and that the header kept is the one of the last
packet written or read (`HeaderTold`). `ReadsWhatWasWritten` says nothing of the reader, from which the
next value comes, hence is not inductive. The packets of what was written are a fold over the values, as
SelectSeq is a definition that the provers cannot unfold.

### Packets (`PacketBuffer_proofs`)

Any values, nested in one another to any depth, any number of packets of either class, any cuts.

* `CountedIsWritten`: `IpcPacketWriterSize` counts for a value the size of what `IpcPacketWriter` writes;
* `PacketsAreTyped`, `BytelengthHolds`, `PacketsKeepTheirBytes`: the invariants `TypeOK`,
  `BytelengthIsThePacketSize` and `KeepsItsBytes` of the run `packet_buffer`;
* `ParsingGivesTheValue`, `PartsAreThoseOfTheArray`: `ParseGivesTheValue` and `PartsAgreeWithParse`, if
  `ElementsHavePackets`;
* `PacketsStayCoherent`, `PacketsStandForTheirValues`: the inductive invariants, `IInv`, and
  `IInv /\ InBytes /\ InValues`.

`IInv` says that a valid packet in step with its bytes has the header of its value (`Told`), that one
buffer is all an IpcPacketBuffer has, and that sharing an array is mutual, of lists only, with the same
buffers in it (`Shared`). `BytelengthIsThePacketSize` is not inductive: it says of the size what `Told`
says of the whole header, and a packet gets its header from serialize, from a reader or from another
packet.

`InBytes` says that the buffers of a packet touch and reach from its first byte to its size, and that an
invalid packet has no two that could be merged (`Spread`, `HasBytes`). `KeepsItsBytes` says nothing of
invalid packets, and says of valid ones less than parsing them needs. A step of one packet merges
buffers of all that share its array, so the proofs show for each action what becomes of the buffers, and
`Shared` hands it on.

`InValues` says that packets that share an array have the same value, that the packet of a value with an
ArrayBuffer is in one buffer or in those of the writer (`HasValue`), and that an invalid packet has no
value but undefined. Without the `Tidy` buffers of `HasValue` parsing one of two packets that share an
array could leave the other with an ArrayBuffer that is read from its header, and `ParseGivesTheValue`
would not be kept.

### Only model-checked

* Liveness, which this prover does not reach: `IsServedAgain`, and of `ImplementsChannel` that each packet
  comes out in the end.
* The five runs that end in a violation: a proof has nothing to say there. That the habits of finding 1
  and 2 are their only causes is proved (`NoCallThrows`, `ReadsAlwaysReturnTheNextBytes`).

## Findings

1. `reader_seek_at_end`: seek throws a TypeError when all buffers are read to the end
   (`bufferListReader.ts:110`), though it answers a boolean.
2. `reader_array_buffer`: readArrayBuffer reads from the first byte of the consolidated buffer and not
   from the cursor (`bufferListReader.ts:277`). An ArrayBuffer whose packet arrives in two chunks
   is parsed from its header.
3. `decoder_error`: a partial header is declared as the invalid one (`ipcPacketHeader.ts:299`), so
   handleData emits `error` at the end of every call. A program that takes it for a failed attempt and
   connects has two sockets with the first data (see "Two events called `error`").
4. `socket_error`: a connected net.Socket has no `error` listener (`ipcSocket.ts:48`): a connection
   that breaks is an uncaught exception.
5. `writer_size`: `README.md:157-158` says of BufferedSocketWriter "Write packets when reaching a size"; it
   writes a packet to the socket at once, whatever its size, unless the program has a context open
   (`socketBufferWriter.ts:50`). `NothingIsHeldBack` is what the code does instead: nothing waits for a
   size outside of a context, and in one `HeldBackBelowSize` is the limit.

Met while modelling, without a run: a popd after a reduce goes to another byte
(`bufferListReader.ts:131`); `parseArraySlice(-10, -5)` of a shorter array throws a RangeError where
`slice` gives an empty array (`ipcPacketReader.ts:187`, excluded by `BothBefore`), and
`parseArrayAt(-1)` gives the first element (`ipcPacketReader.ts:142`); no short
code is found for a Float32Array (`ipcPacketHeader.ts:110` names it `BigUint64Float32ArrayArray` where
`utils/types.ts:11` has `Float32Array`), so nothing is written for one though `README.md:9` lists TypedArray;
an element
of an array that is given no packet (a symbol, a function) is counted all the same
(`ipcPacketWriter.ts:228`) and what follows is misread (`ElementsHavePackets`); a typed array that is a
view is written with all of the ArrayBuffer under it (`ipcPacketWriter.ts:249`);
`BufferWriter.writeBytes` copies out of the buffer and not into it (`bufferWriter.ts:39`).

## Not modelled, and why

* Conversions: JSON, text, numbers to bytes, the elements of typed arrays. No property here tells their
  results apart.
* BufferWriter's own writes at an offset: the packets use it for blocks of a known size, which are one
  buffer of fields in `PacketWriter`. pushd, popd, reset and reduce of BufferReader: nothing calls them.
* One raw data given to two packets: setRawData keeps the object, and reset writes into it. `CopyRawData`
  has a getRawData, which copies, for every setRawData.
* Backpressure (`socket.write` returning false): the code ignores it.
* decodeFromBuffer of a buffer with more or less in it than one packet: `DecodeFromBuffer` is given the bytes
  of a packet and no others.
* A program that connects on `close`, where it meets the timer of the reconnect, and one that listens
  while a server of its own does: `ConnectsOn` and `ListensOn` of the runs and theorems exclude them.
* `noAssert = false`, which turns the false of seek into a RangeError.

## Plan

1. Done: the reader, its loops, its proofs; header and decoder with the channel; the writers; values and
   packets; the two sides of a connection and their composition.
2. Done: the safety of every part and the two refinements.
3. Open: what bytes of a foreign sender are read as, which needs types and sizes that nothing
   wrote; a program that connects or listens again while the last attempt is under way.
