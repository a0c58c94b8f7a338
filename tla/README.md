# Kitura-WebSocket in TLA+

Specifications, model checking and proofs for the server side WebSocket
implementation in `src/Sources/KituraWebSocket`. Every module is a translation of
the Swift source at this commit; `PROJECT.json` maps each definition to its lines.

## The system

A connection starts as an HTTP upgrade request. `WSConnectionUpgradeFactory`
finds the service registered for the path, makes a `WebSocketConnection` and a
`WSSocketProcessor`, and hands the processor to KituraNet, which attaches it to
the socket's `IncomingSocketHandler`. From then on:

    socket --> IncomingSocketHandler --> WSSocketProcessor.process(_:)
                 (read buffer)             | WSFrameParser.parse(_:from:)
                                           v
              service <-- callbackQueue <- WebSocketConnection.received(frame:)
                 |                            ^            |
                 | send, ping, close, drop    | timer      | sendMessage
                 +----------------------------+------------+--> write --> socket

| component | state | operations | what makes it correct |
|---|---|---|---|
| `WSFrameParser` | `state`, `frame`, `payloadLength`, `mask`; outlives a read | `parse`, `reset` | the frames it completes are the client's, wherever the network cuts the bytes |
| `WSSocketProcessor` | `byteIndex`, the parser, the weak `handler` | `process`, `write`, `close`, `socketClosed`, `handler.didSet` | frames are handed on in order and at once; the handler is left its read buffer only by reads that end inside a header; a parse error is the client's fault |
| `WebSocketConnection` | `active`, `writeLock`, `buffer`, `callbackQueue`, `messageState`, `message`, `timer`, `lastFrameReceivedAt` | `received(frame:)`, `send`, `ping`, `close`, `drop`, `connectionClosed`, the timer's handler | frames are written whole; a message is what its fragments were; the service is told once of the end; every call returns; a silent client is pinged before it is given up, and then given up; one that answers is kept |
| `WebSocketService` (the application) | its own | `connected`, `received`, `disconnected` | called in order on one queue |
| `WSFrame.createFrameHeader` | none | encoder | inverse of the decoder, for every length |
| `WSConnectionUpgradeFactory`, `WebSocket` | `registry` | `upgrade`, `register`, `unregister`, `clear` | a request reaches the service registered last on its path |
| `WebSocketCloseReasonCode` | none | `code`, `from(code:)` | inverse where the protocol lets a code be sent |
| `WSServerRequest`, `WebSocketError` | immutable | | nothing to check |
| `IncomingSocketHandler` (KituraNet, external) | read and write buffers, the socket | reads, `write`, `prepareToClose` | |

Four kinds of threads meet in a connection: the reader queue of its socket, the
timer's queue, the serial `callbackQueue`, and whatever threads the application
uses. `writeLock` covers one frame's way to the socket and nothing else;
`active` is read and written without it. That is where the hard behaviours are:
interleavings around `active`, the mutual recursion of `closeConnection`,
`WSSocketProcessor.close` and `connectionClosed`, the read buffer that is
sometimes kept and sometimes replaced while `byteIndex` and the parser carry on,
and the errors that leave them behind. `PROJECT.json` lists the hazards by line.

## Modules

| part | modules | proofs |
|---|---|---|
| what a layer promises | `Delivery`, `Directory` | |
| the parser and the loop that feeds it | `FrameParser`, `StreamEncoding`, `MCFrameParser` | `FrameParser_proofs` |
| the connection: its threads, sending and closing | `Connection`, `MCConnection` | `Connection_proofs` |
| the connection: frames to messages | `CloseReason`, `Messages`, `MCMessages` | `Messages_proofs` |
| the connection: the timer | `Keepalive` | `Keepalive_proofs` |
| what the server writes | `FrameHeader` | `FrameHeader_proofs` |
| parser, connection and encoder together | `Session`, `MCSession` | `Session_proofs` |
| services and upgrades | `UpgradeFactory`, `MCUpgradeFactory` | `UpgradeFactory_proofs` |

The operators whose comment starts with "Mutant:" are plausible mistakes in the
definition below them. No specification uses them; put in its place, each makes
TLC refute a property (`PROJECT.json`, "mutants").

### Delivery, FrameParser, StreamEncoding, MCFrameParser, FrameParser_proofs

`Delivery` is what each layer of the inbound path promises to the one above:
what a client sent is handed on one by one, in order, each once, and all of it.
For the frame layer the items are frames, for the message layer (below) messages.

`FrameParser` is `WSFrameParser` and the loop of `process(_:)`. What a client
writes is a constant byte sequence (`stream`) that `WellFormed` describes: frames
as the tests' `sendFrame` encodes them, and then nothing, a bad first byte, or an
unmasked frame, followed by arbitrary bytes. The handler's read buffer is the
part of the stream between `bufferStart` and `arrived`; `Read(n)` may bring any
number of bytes. Each exit of `parse`, `parseOpCode`, `parseMaskAndLength` and
`parsePayload` is an action, and `process(_:)` is `CallParse`, `ContinueAfter`,
`FailAfterError`, `HandOn` and `FinishBuffer`. Bytes, masks and both extended
lengths are real: masking and network byte order are computed, exclusive or being
a constant operator (`BitXor` for TLC; the proofs only use that it yields a byte).
`StreamEncoding` makes streams from frames for the runs.

| run | shows |
|---|---|
| `ParserChunking` | streams of up to three frames with payload, length fields of 0, 2 and 8 bytes; of up to three with empty control frames among them; and of up to two followed by operation code 15, a reserved bit or an unmasked frame; all ways to cut them (371,506 states): `FramesInOrder`, `ErrorOnlyAtViolation`, `TypeOK` although the parser goes on from a stale state; the read buffer is kept only over reads that end inside a header (`BufferKeptOnlyInHeader`); only an empty frame whose header was cut between length and mask is ever held back (`HeldBackOnlyAtEmptyHeader`); and `Delivery` is implemented up to there, with liveness (`DeliversEveryFrame`) |
| `ParserEmptyStall` | violation: such a frame, and all that follow it, are held back for good |
| `ParserFabricated` | violation: after a parse error the parser goes on behind the operation code it found the error at, and hands on a frame the client never wrote |

Three frames, of which the first and the last may be cut, are every situation
`process(_:)` can be in (end of one frame, whole ones, start of another); payloads
of 1, 2 and 5 bytes end inside, at and behind the four byte key. A length field
need not be the shortest, to this parser, so the long forms are exercised with
small payloads. `BufferKeptOnlyInHeader` is about the whole buffer, since that is what the
handler keeps when `process(_:)` returns false, payload the parser has consumed included:
it is not bounded by a header, and grows with each read that ends inside one, but a read
that ends anywhere else frees all of it. The exception, in the property as in the code, is
a parser that waits for the mask of an empty frame, behind which the buffer grows for good
(`ParserEmptyStall`). The fairness is weak fairness of the whole next-state relation:
the reader queue does not stop inside a call and the network delivers.

`FrameParser_proofs` proves, for every set of well formed streams:
`NeverLosesPlace`, the inductive invariant `IInv`, and from it `TypeOK`,
`FramesInOrder`, `ErrorOnlyAtViolation`, `HeldBackOnlyAtEmptyHeader`,
`BufferKeptOnlyInHeader` (`KeepsOnlyInHeader`), that no frame with an operation code the connection does not know
is ever handed on (`HandsOnKnownOpCodes`), and the safety half of the refinement
(`ImplementsDelivery`). `FramesInOrder` is not inductive: it says nothing of
the frame in progress. `Located` relates the parser's state to a place in the
stream (before an opcode, behind it, in a payload, each with the fields parsed so
far), `CallShape` relates the positions to the loop that is running, `ParserShape`
says what each state promises of the variables even after an error, and `Waiting`
what is missing between two calls. The argument has one lemma per action; the
lemmas before them turn `WellFormed` into facts about single bytes (the first
byte of a frame decodes to its fields, the length field to the payload's length,
the key is where the length ends). Assumptions: `StreamsAssumption` (streams are
well formed) and `ByteXorAssumption`.

### Connection, MCConnection, Connection_proofs

`Connection` is one `WebSocketConnection` with its threads. `pc[t]` is the point
thread `t` has reached in its call; steps end where another thread can see or
change something: `sendMessage` is enter (the processor may be gone), wait, fill
`buffer`, write it, perhaps write the payload on its own, unlock;
`closeConnection` then clears `active` and, when hard, closes the processor;
`connectionClosed` tests `active` in a step of its own, calls `closeConnection` and
afterwards queues the call of `disconnected`; `WSSocketProcessor.close` tests `active`,
too, calls `connectionClosed` if it is set, and then tells the handler. These three call
one another in a circle, so `stack[t]` holds the points at which thread `t` goes on when the
call it is in returns (`Nest`, `Return`). The timer, the reader and `socketClosed` enter the
circle at `connectionClosed`, `drop` and text that is not UTF-8 at `closeConnection`, and
`CallCloseProcessor` at `close()`, as `ConnectionCleanupTests.swift:131` does. The service's methods run on `callbackQueue`, its calls are
made there and on the threads in `Apps`. Frames come in batches, as buffers do,
and the loop of `process(_:)` goes on with the rest of a batch whatever a frame
did. Weak references are explicit: `ProcessorAlive`, `ConnectionAlive`. Frames are
classified by what `received(frame:)` does with them (`FrameKind`); how messages
are put together is in `Messages`. Silence is nondeterministic: the timer may ping
or give up whenever it fires; `Keepalive` says when it does.

| run | shows |
|---|---|
| `ConnClosing` | every frame kind, the timer, all calls of the service and `close()` on the processor, with frames written in one piece and in two (2.4 million states): `WireFramesWhole`; `CloseCommandFirst`; no thread is ever more than two calls deep in the circle of closing calls (`ClosingNeverReenters`); `TypeOK` |
| `ConnLifecycle` | the client (with a frame behind its close frame), the service and an application thread, the latter two through `close()` on the processor, all end one connection (80,301 states): no thread brings about two calls of `disconnected` (`DisconnectedOncePerEnder`), once the socket is closed there is one (`DisconnectReported`), and every call returns (`CallsReturn`) |
| `ConnTimerRace` | violation: the timer and the reader queue both find the connection active and both report the end (`DisconnectedAtMostOnce`) |
| `ConnParseErrorSilent` | violation: after a parse error the service never hears of the end |

Bounds: `MaxCalls` is 1 call per application thread and one firing of the timer
in each run that has them, up to two frames from the client (in `ConnClosing` the second is
one that is answered or closes). A race needs one
call on each side; in `ConnClosing` the reader, the timer and the service contend for the lock
and for `active`, in `ConnLifecycle` the reader, the service and an application thread.
Deadlock is not checked, because a connection rightly stops when it is closed or
when nobody has anything to say. Fairness: a thread inside a call goes on (weak
fairness of `Continue`), waiters for the semaphore get it in turn (strong fairness
of `LockWriteLock`; libdispatch wakes waiters in order), `callbackQueue` runs its
blocks, the reader queue handles the frames it has read, and the handler closes a
socket it was told to close. Nothing obliges the client, the application or the
timer to act.

`DisconnectedOncePerEnder` is what is left of "once" when several threads may find the
connection active: each of them does so at most once. `ConnLifecycle` leaves out what ends a
connection without telling the service: a parse error (`ConnParseErrorSilent` shows it), text
that is not UTF-8, `close` and `drop`. With `ServiceKeeps = FALSE` `DisconnectReported` fails, too: the block
that calls `disconnected` holds the connection weakly.

`Connection_proofs` proves, for any application threads, any number of calls,
any frames and with or without a timer: `OneWriter` (the inductive invariant
`IInv`), `TypeOK`, `WireFramesWhole`, `CloseCommandFirst`,
`ClosingNeverReenters` (`NeverReenters`) and `DisconnectedOncePerEnder` (`ToldOncePerEnder`);
and `ToldOnceWithoutTimer`, that `disconnected` is called at most once if there is no timer
and nobody closes the processor from outside, of which `ConnTimerRace` shows the first to be
needed.
`WireFramesWhole` is not inductive: whether a header may be followed by something
else depends on who is inside `sendMessage`. `LockHeld` says that one thread is,
`BufferFilled` that what it is about to write is its own, `ChunksPaired` that
headers and payloads on the wire are neighbours, and `HeaderPending` that a header is
last exactly while its sender is about to write the payload. For
`CloseCommandFirst`, `JobShape` says that only a close command is followed by
more than the end of its call, and `Commanded` that there is a close command on
the wire or nobody has got as far as to need one. For `ClosingNeverReenters`, `NestShape`
says of each stack at which points its thread can be, and that a thread about to go on
inside `close()`, or to tell the service, is there with the connection inactive: that is what
stops the circle, although others may clear `active` between any two of its steps. One lemma
(for `OutsideStep`) covers the many actions that neither touch the lock, the buffer
nor the wire. For `ToldOncePerEnder`, `OnlyEnders`
says that the threads which are not `Enders` never get into the active branch of
`connectionClosed`, and `ToldOnce` counts: while the connection is active nothing is told or
queued, and afterwards what is told, what is queued and the threads still inside that
branch are together no more than the `Enders`, since nobody enters it any more.
Assumptions: `ThreadsAssumption` (the threads are different, and finitely many) and
`InstanceAssumption`.

### CloseReason, Messages, MCMessages, Messages_proofs

`CloseReason` is `WebSocketCloseReasonCode`: `code` and `from`. `Messages` is
`received(frame:)` frame by frame, with `messageState` and `message`, one action
per opcode and per way to refuse it. Steps are whole calls here; what happens
between the steps of a call is in `Connection`. `Clients` says what clients send:
messages, the frames they are cut into with pings and pongs in between, and for
each frame its place in the messages; after `good` frames the client stops, closes
or breaks a rule, and then sends anything. `WellFormed` states this relation, which
is the reference the code's two variables are compared with. `IsText` (is it
UTF-8?) is a constant operator. `told` is the order of the blocks put into
`callbackQueue`; `received` the messages among them that come from good frames.
Close, drop, the timer and a reset of the socket come at any point between frames; a
`close()` on the processor is, as a whole call, what the timer does when it gives up
(`TimerExpires`).

One run, `MsgEndings` (1.4 million states): all clients of four good frames, with
a two byte character that may be cut, an empty text, and bytes that are no text;
and up to two good frames followed by each kind of close frame and broken rule, some with
a message or the rest of one behind it; with up to two interrupts anywhere. It shows `MessagesInOrder`, that `Delivery` is
implemented with liveness (`DeliversEveryMessage`), `CloseCodeEchoed`,
`BlamesOnlyViolations`, `EndsAtViolation`, `TypeOK`, and `LateOnlyFromLastBuffer`:
`process(_:)` handles the rest of a buffer whatever a frame of it did, so a
service may still receive a message after `disconnected`, but only from what had
been read by then.

Four frames are a message of two fragments with a control frame inside it and the
start or whole of another, in any order. A control frame may carry 4 bytes here
(125 in the code), so that a payload of 5 is too long. Two interrupts are a close
and the end of the socket behind it. Fairness: the reader queue handles what has
been read, and the network delivers.

`Messages_proofs` proves, for all clients, all `IsText` and any number of
interrupts: `NeverLosesPlace` (the inductive invariant `IInv`), `TypeOK`,
`MessagesInOrder`, `BlamesOnlyViolations`, `EndsAtViolation`, the safety half of
the refinement (`ImplementsDelivery`), `LateOnlyFromLastBuffer`
(`NothingReadAfterGone`), `CloseCodeEchoed` (`EchoesCloseCode`), and for the close
codes `CloseCodeRoundTrip`.
`MessagesInOrder` says nothing of the message in progress and so is not
inductive: `InProgress` adds that `message` holds what the client has sent of it
and `messageState` its type, `HandedOn` that the messages before it, and no others,
are in `received`. `EndsAtViolation` needs both, since whether a frame breaks a
rule depends on the message in progress, and `InactiveIsClosing`, since the one way
to an inactive connection with an open socket is `close` by others. The step lemma
splits into frames of the good part (control frame, first fragment, continuation),
the frame that ends it and those behind it, and the others' actions.
`LateOnlyFromLastBuffer` needs `GoneIsClosing`: nobody tells the service that a client is
gone and leaves the socket open. `CloseCodeEchoed` needs `OpenUntilEnd` (a connection
nobody else closes is active when the frame that ends the good ones comes, so
that `received(frame:)` does not ignore a close frame) and `CloseCodeRoundTrip`.
Assumptions: `ClientsAssumption` (clients are as `WellFormed` says) and
`BoundsAssumption`.

### Keepalive, Keepalive_proofs

`Keepalive` is `connectionTimeout`: the timer, its handler and
`lastFrameReceivedAt`, with time in whole units and the write path left out. The unit
is chosen so that the timeout is `20 * Tick`; the timer then fires every `10 * Tick`,
up to `Tick` late (the leeway it is scheduled with), pings after `8 * Tick` of silence and
gives up after `20 * Tick`. The handler takes two steps, `Look` (it copies
`lastFrameReceivedAt`) and one of `LeaveAlone`, `Ping` and `GiveUp`, between which
the reader queue may receive a frame and time may pass. Times are kept as ages, up to
`Horizon`. A connection that was closed softly and is no longer active is still
the timer's; a service that was released is not looked after any more, which the code
does not promise either.

Run `Keepalive` (56,542 states, `Tick = 2`, every schedule of the timer, two kinds of
client): nobody is given up who was not pinged nearly half of the timeout before
(`AskedBeforeGivenUp`); a client that answers within 0.45 of the timeout, what is
left of the frame it is sending included, is never given up
(`AnsweringClientKept`); no socket stays open for more than 1.55 timeouts of silence
while there is a service (`ClosedInTime`, `SilentClientClosed`). `Tick = 2`
leaves room for a firing that is late by half of the leeway. Fairness: time passes, the
timer's queue runs, and an answering client answers. That a firing is at most its leeway
late and its handler through by then is an assumption about the machine
(a leeway is no guarantee), and the bounds hold under it only.

`Keepalive_proofs` proves the first three and `TypeOK` for every `Tick`, however fine,
and every `AnswerTime` below `9 * Tick`. `IInv` relates the clocks: `Elapsed` is
the time since the handler was last through, `Kept` and `Pinged` say what that
look left behind, `PingAge` that a ping is at least as old as the last look,
`Running` that the handler's copy is never younger than the truth and, where
it has not asked, not old enough to be given up for, and `Answered` that a client
that answers has done so by the next look. Assumptions: `TickAssumption` and
`AnswerTimeAssumption`. `SilentClientClosed` is only model-checked.

### FrameHeader, FrameHeader_proofs

`FrameHeader` is `createFrameHeader`, `sendMessage`'s choice between one write and two,
and the parser of the tests' client (`parseFrame` and its helpers). They are pure
operators over bytes. `FrameHeader_proofs` proves `HeaderIsBytes` (a header is 2,
4 or 10 bytes) and `ClientReadsFrame`: whatever is written before and after it, the
client reads back operation code, fin bit, payload and end of every frame whose
payload has fewer than 2^32 bytes; `createFrameHeader` traps beyond. The lemmas are
about sixteen and thirty-two bits in network order. The run `Session` evaluates the
length field at 125/126, 65535/65536 and 2^31 - 1 (`HeadersAtEdges`) and
reads all it writes back through it.

### Session, MCSession, Session_proofs

`Session` composes `FrameParser` and `Messages` as the code does: on the reader queue
`process(_:)` calls `received(frame:)` for each frame the parser completes and goes on when
that returns; a parse error calls `close`; the socket that `Messages` closes is the one
`FrameParser` reads; the service and the timer act at any point between. On the way back
`FrameHeader` turns each frame that is sent into bytes (`Write`), and a client, that of the
tests, reads frames from these whenever it likes (`ClientReads`).

Run `Session` (258,170 states; up to two frames of any kind, a fragmented message with a
ping inside, messages in a row, operation code 15 or an unmasked frame; every cutting;
one interrupt anywhere; the client reading at every pace) shows that until a parse error
the composition implements `Messages` (`ImplementsMessages`): the connection is called as
if whole frames had been read at once. What `Messages` assumes of the layer below is thereby
checked. It implements `Delivery` from bytes to messages, with liveness
(`DeliversEveryMessage`). From bytes to bytes, `PingsAnswered`: the n-th pong a client
reads carries the payload of its n-th ping, one that has read everything has a pong for every
ping handled so far, and one that keeps to the rules on a connection nobody else closes reads
nothing but these. One interrupt is enough to meet every state of `process(_:)`; two are in
`MsgEndings`. Fairness: the reader queue does not stop inside a call, and the network
delivers; the client need not read.

`Session_proofs` proves, for every set of streams, any number of interrupts and any
`IsText`: `PlaceKept` (the inductive invariant `IInv`), `TypeOK`, `PingsAnswered`
(`AnswersPings`), `ImplementsMessages` (`ActsAsMessages`) and the safety half of
`DeliversEveryMessage` (`ImplementsDelivery`). Nothing about the parser or the messages is
proved a second time. The theorems of their modules are used through three instances:
`PP`, the parser; `LP`, the connection that is given the frames the parser has handed on,
those after an error included; and `MP`, the connection of the whole stream, of which
as many frames are available as have arrived. `IInv` is the parser's invariant, the types of `LP`,
the invariant of `MP` as long as there was no parse error, and four parts that relate them:
`KnownOpCodes` (proved in `FrameParser_proofs`, and of interest on its own:
`HandsOnKnownOpCodes`), since `Messages` has no case for the operation code `unknown`;
`Turn`, that the connection is at most one frame behind the parser, that it is not behind at all
between two calls, and that an error comes only when all good frames are handled;
`OnTheWire`, that the bytes written are the frames sent, one behind the other, and the
client is at the beginning of one of them; and `Answers`, which ranks the pongs that were
sent as `PingsAnswered` ranks those that were read. `StepActs`, the step to `Messages`,
is where these are needed: a frame handed on is the stream's next (`FramesInOrder`),
it has arrived (`HandedFrames`, `MoreArrives`), and whenever the socket is read or closed
no frame that has arrived is held back (`NeverEmpty` and `FramesCounted`).

Assumptions: those of the parts; that frames have payload (`PayloadAssumption`), since an empty
one may be held back, and everything behind it (`ParserEmptyStall`); and that what control frames
may carry fits a length field of 16 bits (`BoundsAssumption`; it is 125 in the code).

### Directory, UpgradeFactory, MCUpgradeFactory, UpgradeFactory_proofs

`UpgradeFactory` is the registry: `register` (through `WebSocket`, which lowers the path),
`unregister`, `clear` and `upgrade`, with its checks of the request's headers. A path is a
name with or without capitals and slash. Every call is a step. `Directory` is the promise: a
path names the service registered on it last, however it is spelled.

| run | shows |
|---|---|
| `UpgradeFactory` | two services and two names, every spelling, every request without capitals (364 states): `Directory` is implemented (`ReachesTheRegistered`), `TypeOK` |
| `UpgradeCapitals` | violation: a request with capitals finds nothing, also spelled as it was registered |

Two names and two services tell apart overwriting, removing and mixing up. No
fairness is stated, since nothing has to happen. `UpgradeFactory_proofs`
proves `TypeOK` (whose second part, that services are only kept under lower case
paths with a slash, is the strengthening) and `ReachesTheRegistered` for all names and services
and every set of requests without capitals.

## Findings

`PROJECT.json` has them with their lines and the sentences they contradict:

- an empty frame whose header is cut between length and mask stalls the
  connection (`ParserEmptyStall`);
- after a parse error the parser goes on in a stale state and hands on a frame
  nobody sent (`ParserFabricated`);
- `disconnected` may be called twice (`ConnTimerRace`);
- and is never called after a parse error (`ConnParseErrorSilent`; the code takes the same
  way for text that is not UTF-8 and a close by the service);
- paths are lowered when a service is registered (`WebSocket.swift:31`) and not when one
  is looked up (`WSConnectionUpgradeFactory.swift:61`), although registration is
  documented as insensitive to capitals (`UpgradeCapitals`).

## Plan

Done, in this order: `FrameParser` and `Messages` with their proofs, `Connection`,
`CloseReason`; then `Keepalive`, `UpgradeFactory` and `FrameHeader` with their proofs, the
composition `Session`, `Connection_proofs`, and `Session_proofs`. Left: `Connection` and
`Keepalive` share the timer as an abstraction of each other (there its threads, here its
clock); a composition would join them.

## What is only model-checked

Liveness: `CallsReturn`, `DisconnectReported`, `SilentClientClosed` and the liveness
halves of `DeliversEveryFrame` and of both `DeliversEveryMessage`. It rests on fairness,
and on `ENABLED` of the actions that are fair, which are out of the prover's reach. All invariants,
action properties and refinements of the passing runs are proved.

## Not modelled

- `WSServerRequest` and `WebSocketError`: immutable data and texts.
- Logging, the texts of close reasons, the SHA-1 digest and the headers of the upgrade
  response.
- Memory and its exhaustion. The length of a 64 bit length field is read from its
  lower four bytes, in the model as in the code; streams keep below that.
- Torn reads of values that Swift code shares without synchronisation (`active`,
  `lastFrameReceivedAt`) and simultaneous use of the registry's Dictionary.
  Both are undefined and would need a model of the build; here each access is a step.
- KituraNet, beyond what the code in this repository sees of it.
- `docs/`: the pages of the API documentation with the scripts jazzy puts into them
  (`jazzy.js`, `jazzy.search.js`, `typeahead.jquery.js`). They are generated or third
  party, and not part of the package.
