------------------------------ MODULE Session ------------------------------
(***************************************************************************)
(* FrameParser and Messages composed: one connection from the bytes its    *)
(* client writes to the messages its service gets, and back to the bytes   *)
(* the client reads.  The reader queue runs both: process(_:) calls        *)
(* received(frame:) for each frame the parser completes and goes on when   *)
(* that call returns.  What either module takes for granted of the other   *)
(* is what the other does: Messages' frames are those that come out of     *)
(* FrameParser, FrameParser's socket is the one Messages closes, and a     *)
(* parse error closes the connection.                                      *)
(*                                                                         *)
(* What the connection sends is written to the socket as bytes, and the    *)
(* client (that of the tests) reads frames from these at its own pace.     *)
(*                                                                         *)
(* A stream is one of FrameParser's, of which messages, good and place say *)
(* what its frames mean, as they do for a client of Messages.              *)
(***************************************************************************)
EXTENDS FrameHeader, FiniteSets

CONSTANTS
  Streams, ByteXor(_, _),                           \* of FrameParser
  IsText(_), ControlLimit, Interrupts, MaxInterrupts    \* of Messages

VARIABLES
  (* of FrameParser, framesReceived being its received *)
  stream, arrived, bufferStart, byteIndex, parserState, payloadLength, mask,
  finalFrame, opCode, payload, pc, bytesParsed, framesReceived, strays, closes,
  (* of Messages, messagesReceived being its received *)
  handled, messageState, message, active, socket, told, wire, interrupts,
  messagesReceived,
  (* of the way back *)
  written,        \* the bytes written to the socket
  readUpTo,       \* how many of them the client has read
  framesRead      \* history: the frames it has read from them

Parser == INSTANCE FrameParser WITH received <- framesReceived

-----------------------------------------------------------------------------
(* Frames of the parser as those of the connection. *)

rawValue ==
  [continuation |-> 0, text |-> 1, binary |-> 2, close |-> 8, ping |-> 9, pong |-> 10]

NameOf(op) == CHOOSE name \in DOMAIN rawValue : rawValue[name] = op

AsFrame(f) ==
  [opCode |-> NameOf(f.opCode), finalFrame |-> f.finalFrame, payload |-> f.payload]

\* A client of Messages that sends the given frames of stream s.
ClientOf(s, frames) ==
  [frames |-> [k \in 1..Len(frames) |-> AsFrame(frames[k])],
   messages |-> s.messages, good |-> s.good, place |-> s.place]

Clients == {ClientOf(s, s.frames) : s \in Streams}

\* The frames that received(frame:) has been called with or is about to be.
handed == framesReceived \o strays

Layer == INSTANCE Messages WITH client <- ClientOf(stream, handed),
                                available <- Len(handed), received <- messagesReceived

parserVars == <<stream, arrived, bufferStart, byteIndex, parserState, payloadLength, mask,
                finalFrame, opCode, payload, pc, bytesParsed, framesReceived, strays, closes>>
layerVars == <<handled, messageState, message, active, socket, told, wire, interrupts,
               messagesReceived>>
clientVars == <<readUpTo, framesRead>>
vars == <<parserVars, layerVars, written, clientVars>>

ASSUME StreamsAssumption == \A s \in Streams : Parser!WellFormed(s)

ASSUME ByteXorAssumption == \A a, b \in Parser!Byte : ByteXor(a, b) \in Parser!Byte

\* The answer to a ping has a length field of 7 or 16 bits.
ASSUME BoundsAssumption ==
  /\ ControlLimit \in 0..UInt16Max
  /\ Interrupts \subseteq {"close", "drop", "expire", "reset"}
  /\ MaxInterrupts \in Nat

\* An empty frame may be held back (FrameParser), and so may all behind it.
ASSUME PayloadAssumption ==
  \A s \in Streams : \A k \in 1..Len(s.frames) : s.frames[k].payload # << >>

ASSUME MeaningAssumption ==
  \A s \in Streams : Layer!WellFormed(ClientOf(s, s.frames))

-----------------------------------------------------------------------------
Init ==
  /\ Parser!Init
  /\ handled = 0
  /\ messageState = "unknown" /\ message = << >>
  /\ active = TRUE
  /\ socket = "open"
  /\ told = << >> /\ wire = << >> /\ messagesReceived = << >>
  /\ interrupts = 0
  /\ written = << >> /\ readUpTo = 0 /\ framesRead = << >>

\* received(frame:) has returned for every frame handed on.
AllHandled == handled = Len(handed)

Read(n) ==
  /\ AllHandled /\ socket = "open"
  /\ Parser!Read(n)
  /\ UNCHANGED <<layerVars, written>>

\* What goes on in process(_:) does not depend on the state of the connection.
Process ==
  /\ AllHandled
  /\ \/ Parser!CallParse \/ Parser!FinishBuffer
     \/ Parser!ParseOpCode \/ Parser!ParseMaskAndLength \/ Parser!AwaitMaskAndLength
     \/ Parser!ParsePayload \/ Parser!ReturnIncomplete \/ Parser!ReturnComplete
  /\ UNCHANGED <<layerVars, written>>

\* The bytes of a frame that is sent, in one write or in two.
FrameBytes(f) ==
  LET writes == Writes(createFrameHeader(TRUE, rawValue[f.opCode], Len(f.payload)), f.payload)
  IN  IF Len(writes) = 1 THEN writes[1] ELSE writes[1] \o writes[2]

\* A frame that a step sends is written to the socket.
Write == written' = IF wire' = wire THEN written
                                    ELSE written \o FrameBytes(wire'[Len(wire')])

\* process(_:) calls close(reason: .protocolError).
ParseError ==
  /\ AllHandled
  /\ Parser!RejectOpCode \/ Parser!RejectUnmasked
  /\ Layer!SendMessage("close", Layer!CodeBytes(Layer!Reason("protocolError")))
  /\ active' = FALSE
  /\ UNCHANGED <<handled, messageState, message, socket, told, interrupts, messagesReceived>>
  /\ Write

ReceivedFrame == UNCHANGED parserVars /\ Layer!ReceivedFrame /\ Write

\* The service and the timer, at any point of the above.
Others ==
  /\ UNCHANGED parserVars
  /\ Layer!CloseByOthers \/ Layer!DropByOthers \/ Layer!TimerExpires
  /\ Write

\* The handler has closed the socket, between two calls of process(_:).
SocketClosed ==
  /\ pc = "idle"
  /\ UNCHANGED <<parserVars, written>>
  /\ \/ /\ socket = "closing" \/ arrived = Len(stream.bytes)
        /\ Layer!SocketClosed
        /\ UNCHANGED <<handled, messageState, message, interrupts, messagesReceived>>
     \/ Layer!ConnectionReset

\* The client reads the next frame of what has been written.
ClientReads ==
  /\ readUpTo < Len(written)
  /\ LET f == parseFrame(written, readUpTo) IN
       /\ framesRead' = Append(framesRead, [finalFrame |-> f.finalFrame, opCode |-> f.opCode,
                                           payload |-> f.payload])
       /\ readUpTo' = f.next
  /\ UNCHANGED <<parserVars, layerVars, written>>

ReaderQueue ==
  \/ \E n \in 1..Len(stream.bytes) : Read(n)
  \/ Process \/ ParseError \/ ReceivedFrame

Next ==
  \/ (ReaderQueue \/ Others \/ SocketClosed) /\ UNCHANGED clientVars
  \/ ClientReads

\* The reader queue does not stop inside a call, and the network delivers.
Spec == Init /\ [][Next]_vars /\ WF_vars(ReaderQueue /\ UNCHANGED clientVars)

-----------------------------------------------------------------------------
ReadFrame == [finalFrame : BOOLEAN, opCode : 0..127, payload : Seq(Parser!Byte)]

TypeOK ==
  /\ Parser!TypeOK /\ Layer!TypeOK
  /\ Len(handed) - handled \in {0, 1}
  /\ written \in Seq(Parser!Byte)
  /\ readUpTo \in 0..Len(written)
  /\ framesRead \in Seq(ReadFrame)

\* A frame counts as available to Messages when its last byte has arrived.
FramesArrived ==
  Cardinality({k \in 1..Len(stream.frames) : Parser!FrameEnd(stream.frames[k]) <= arrived})

Whole == INSTANCE Messages WITH client <- ClientOf(stream, stream.frames),
                                available <- FramesArrived, received <- messagesReceived

\* Until a parse error the composition is a behaviour of Messages: however the
\* bytes arrive, the connection is called as if whole frames were read at once,
\* each with its own content, and all of them before the next read (process(_:),
\* whose index and parser outlive a read).
ImplementsMessages == Whole!Init /\ [][closes' = 0 => Whole!Next]_(Whole!vars)

\* From bytes to messages: the service gets the client's messages, whole and in
\* order, and in the end all of them, unless somebody else ends the connection.
Service == INSTANCE Delivery WITH
             sent <- Layer!Complete(ClientOf(stream, stream.frames)),
             received <- messagesReceived

DeliversEveryMessage ==
  /\ Service!SafeSpec
  /\ [](interrupts = 0) => <>Service!AllDelivered

\* The pings handled while the client kept to the rules, the pongs it has read,
\* and which one of a set of numbers i is.
Pings == {k \in 1..handled : k <= stream.good /\ stream.frames[k].opCode = rawValue["ping"]}
Pongs == {i \in 1..Len(framesRead) : framesRead[i].opCode = rawValue["pong"]}
Nth(S, i) == Cardinality({j \in S : j <= i})

\* From bytes to bytes: the n-th pong a client reads has the payload of its n-th
\* ping, and when it has read everything there is one for each ping handled so
\* far; and as long as it keeps to the rules and nobody interferes it reads
\* nothing else.
PingsAnswered ==
  /\ \A k \in Pings, i \in Pongs :
       Nth(Pings, k) = Nth(Pongs, i) => framesRead[i].payload = stream.frames[k].payload
  /\ readUpTo = Len(written) => Cardinality(Pings) <= Cardinality(Pongs)
  /\ handled <= stream.good /\ closes = 0 =>
       /\ Cardinality(Pongs) <= Cardinality(Pings)
       /\ interrupts = 0 => Len(framesRead) = Cardinality(Pongs)
=============================================================================
