---------------------------- MODULE FrameParser ----------------------------
(***************************************************************************)
(* The inbound byte path of one connection: WSFrameParser and the loop of  *)
(* WSSocketProcessor.process(_:) that feeds it.  Everything here runs on   *)
(* the reader queue of the connection's socket, one call at a time; the    *)
(* nondeterminism is the network's, which may cut the client's bytes into  *)
(* reads anywhere.                                                         *)
(*                                                                         *)
(* What a client writes is fixed at the start (stream).  The socket and    *)
(* the read buffer of KituraNet's IncomingSocketHandler are positions in   *)
(* it: bytes up to `arrived` have been read, bytes up to `bufferStart`     *)
(* have been dropped because process(_:) returned true, so the NSData      *)
(* handed to process(_:) is the bytes in between.                          *)
(*                                                                         *)
(* Each function of the parser is an action; pc says which loop the reader *)
(* queue is in.  Left out: WSFrameParser.masked, which is written right    *)
(* before its only use, and the 125 byte pieces parsePayload works in.     *)
(***************************************************************************)
EXTENDS Integers, Sequences

CONSTANTS
  Streams,     \* what clients may write: records described by WellFormed
  ByteXor(_, _)    \* exclusive or of two bytes

Byte == 0..255

\* Network byte order to host.
ntohs(a, b) == 256 * a + b
ntohl(a, b, c, d) == 256 * (256 * (256 * a + b) + c) + d

\* WSFrame.FrameOpcode: continuation, text, binary, close, ping and pong;
\* -1 is unknown, the value before the first frame.
FrameOpcode == {0, 1, 2, 8, 9, 10}
unknown == -1

-----------------------------------------------------------------------------
(* The wire format, as the clients of the tests write it. *)

\* A frame on the wire: its offset, the size of its extended length field
\* (0, 2 or 8 bytes), its masking key and what it carries.
FrameOnWire ==
  [at : Nat, ext : {0, 2, 8}, mask : [1..4 -> Byte],
   finalFrame : BOOLEAN, opCode : FrameOpcode, payload : Seq(Byte)]

PayloadAt(f) == f.at + 6 + f.ext
FrameEnd(f) == PayloadAt(f) + Len(f.payload)

\* The bytes of s at frame f are f's header, masking key and masked payload.
\* (s[n + 1] is the byte at offset n.)
Encodes(s, f) ==
  /\ s[f.at + 1] = (IF f.finalFrame THEN 128 ELSE 0) + f.opCode
  /\ f.ext = 0 => /\ Len(f.payload) < 126
                  /\ s[f.at + 2] = 128 + Len(f.payload)
  /\ f.ext = 2 => /\ s[f.at + 2] = 128 + 126
                  /\ Len(f.payload) = ntohs(s[f.at + 3], s[f.at + 4])
  /\ f.ext = 8 => /\ s[f.at + 2] = 128 + 127
                  /\ \A i \in 3..6 : s[f.at + i] = 0
                  /\ Len(f.payload) = ntohl(s[f.at + 7], s[f.at + 8],
                                            s[f.at + 9], s[f.at + 10])
  /\ \A i \in 1..4 : s[f.at + 2 + f.ext + i] = f.mask[i]
  /\ \A i \in 1..Len(f.payload) :
       ByteXor(s[PayloadAt(f) + i], f.mask[((i - 1) % 4) + 1]) = f.payload[i]

\* The first byte of a frame the server accepts: reserved bits clear and a
\* known operation code.
ValidFirstByte(b) == (b \div 16) % 8 = 0 /\ b % 16 \in FrameOpcode

\* The end of the well formed frames of a stream.
GoodEnd(s) == IF s.frames = << >> THEN 0 ELSE FrameEnd(s.frames[Len(s.frames)])

\* A stream is a run of well formed frames, after which the client either
\* stops or breaks the protocol in the first or the second byte of a frame.
WellFormed(s) ==
  /\ s.bytes \in Seq(Byte)
  /\ s.frames \in Seq(FrameOnWire)
  /\ s.violation \in {"none", "opCode", "unmasked"}
  /\ \A k \in 1..Len(s.frames) :
       /\ s.frames[k].at = IF k = 1 THEN 0 ELSE FrameEnd(s.frames[k - 1])
       /\ \A j \in 1..(k - 1) : FrameEnd(s.frames[j]) <= s.frames[k].at
       /\ FrameEnd(s.frames[k]) <= Len(s.bytes)
       /\ Encodes(s.bytes, s.frames[k])
  /\ s.violation = "none" => Len(s.bytes) = GoodEnd(s)
  /\ s.violation = "opCode" =>
       /\ Len(s.bytes) > GoodEnd(s)
       /\ ~ValidFirstByte(s.bytes[GoodEnd(s) + 1])
  /\ s.violation = "unmasked" =>
       /\ Len(s.bytes) > GoodEnd(s) + 1
       /\ ValidFirstByte(s.bytes[GoodEnd(s) + 1])
       /\ s.bytes[GoodEnd(s) + 2] < 128

ASSUME StreamsAssumption == \A s \in Streams : WellFormed(s)

ASSUME ByteXorAssumption == \A a, b \in Byte : ByteXor(a, b) \in Byte

-----------------------------------------------------------------------------
VARIABLES
  stream,         \* what the client of this connection writes
  arrived,        \* bytes the handler has read from the socket
  bufferStart,    \* bytes the handler has dropped from its read buffer
  byteIndex,      \* WSSocketProcessor.byteIndex
  parserState,    \* WSFrameParser.state
  payloadLength,  \* WSFrameParser.payloadLength
  mask,           \* WSFrameParser.mask
  finalFrame, opCode, payload,   \* WSFrameParser.frame
  pc,             \* the loop the reader queue is in: idle, process or parse
  bytesParsed,    \* the local of parse(_:from:)
  received,       \* history: frames handed on before any parse error
  strays,         \* history: frames handed on after a parse error
  closes          \* history: times a parse error closed the connection

parserVars == <<parserState, payloadLength, mask, finalFrame, opCode, payload>>
history == <<received, strays, closes>>
vars == <<stream, arrived, bufferStart, byteIndex, parserVars, pc, bytesParsed, history>>

Init ==
  /\ stream \in Streams
  /\ arrived = 0 /\ bufferStart = 0
  /\ byteIndex = 0
  /\ parserState = "initial" /\ payloadLength = -1
  /\ mask = [i \in 1..4 |-> 0]
  /\ finalFrame = FALSE /\ opCode = unknown /\ payload = << >>
  /\ pc = "idle" /\ bytesParsed = 0
  /\ received = << >> /\ strays = << >> /\ closes = 0

\* The buffer of the current call: its length, and its byte at index i.
length == arrived - bufferStart
bytes(i) == stream.bytes[bufferStart + i + 1]

\* parse(_:from:)'s own byteIndex.
from == byteIndex + bytesParsed

-----------------------------------------------------------------------------
(* The socket, and the loop of WSSocketProcessor.process(_:). *)

\* The handler reads n more bytes and calls process(_:).
Read(n) ==
  /\ pc = "idle"
  /\ arrived + n <= Len(stream.bytes)
  /\ arrived' = arrived + n
  /\ pc' = "process"
  /\ UNCHANGED <<stream, bufferStart, byteIndex, parserVars, bytesParsed, history>>

CallParse ==
  /\ pc = "process"
  /\ byteIndex < length
  /\ pc' = "parse"
  /\ UNCHANGED <<stream, arrived, bufferStart, byteIndex, parserVars, bytesParsed, history>>

\* Mutant: byteIndex is not taken back to the start of the next buffer.
FinishBufferKeepingIndex ==
  /\ pc = "process"
  /\ byteIndex >= length
  /\ bufferStart' = arrived
  /\ pc' = "idle"
  /\ UNCHANGED <<stream, arrived, byteIndex, parserVars, bytesParsed, history>>

\* The buffer is used up: process(_:) returns true and the handler drops it.
FinishBuffer ==
  /\ pc = "process"
  /\ byteIndex >= length
  /\ byteIndex' = 0
  /\ bufferStart' = arrived
  /\ pc' = "idle"
  /\ UNCHANGED <<stream, arrived, parserVars, bytesParsed, history>>

\* parse returned (false, nil, consumed).  If nothing was consumed process(_:)
\* returns false and the handler keeps the buffer for the next read.
ContinueAfter(consumed) ==
  /\ byteIndex' = byteIndex + consumed
  /\ pc' = IF consumed = 0 THEN "idle" ELSE "process"
  /\ bytesParsed' = 0
  /\ UNCHANGED <<stream, arrived, bufferStart, history>>

\* parse returned an error: the connection is closed, softly, and process(_:)
\* returns true at once.  byteIndex and the parser stay as they are.
FailAfterError ==
  /\ closes' = closes + 1
  /\ bufferStart' = arrived
  /\ pc' = "idle"
  /\ bytesParsed' = 0
  /\ UNCHANGED <<stream, arrived, byteIndex, received, strays>>

\* received(frame:) copies what it keeps of the frame before it returns.
HandOn(frame) ==
  IF closes = 0
    THEN received' = Append(received, frame) /\ UNCHANGED strays
    ELSE strays' = Append(strays, frame) /\ UNCHANGED received

\* Mutant: the length of the last frame survives the reset.
ResetKeepingLength ==
  /\ parserState' = "initial"
  /\ payload' = << >>
  /\ UNCHANGED <<payloadLength, mask, finalFrame, opCode>>

\* Mutant: the payload of the last frame survives the reset.
ResetKeepingPayload ==
  /\ parserState' = "initial"
  /\ payloadLength' = -1
  /\ UNCHANGED <<mask, finalFrame, opCode, payload>>

\* WSFrameParser.reset() keeps the opcode, the fin bit and the mask.
Reset ==
  /\ parserState' = "initial"
  /\ payloadLength' = -1
  /\ payload' = << >>
  /\ UNCHANGED <<mask, finalFrame, opCode>>

-----------------------------------------------------------------------------
(* WSFrameParser.parse(_:from:) *)

InParseLoop == pc = "parse" /\ from < length /\ payloadLength # Len(payload)

\* Mutant: the operation code is not looked up.
ParseAnyOpCode ==
  /\ InParseLoop
  /\ parserState = "initial"
  /\ LET byte == bytes(from) IN
       /\ finalFrame' = (byte >= 128)
       /\ opCode' = byte % 16
  /\ parserState' = "opCodeParsed"
  /\ bytesParsed' = bytesParsed + 1
  /\ UNCHANGED <<stream, arrived, bufferStart, byteIndex, payloadLength, mask,
                 payload, pc, history>>

ParseOpCode ==
  /\ InParseLoop
  /\ parserState = "initial"
  /\ LET byte == bytes(from) IN
       /\ ValidFirstByte(byte)
       /\ finalFrame' = (byte >= 128)
       /\ opCode' = byte % 16
  /\ parserState' = "opCodeParsed"
  /\ bytesParsed' = bytesParsed + 1
  /\ UNCHANGED <<stream, arrived, bufferStart, byteIndex, payloadLength, mask,
                 payload, pc, history>>

\* A reserved bit is found before the fin bit is stored, a bad operation code
\* after.
RejectOpCode ==
  /\ InParseLoop
  /\ parserState = "initial"
  /\ LET byte == bytes(from) IN
       /\ ~ValidFirstByte(byte)
       /\ finalFrame' = IF (byte \div 16) % 8 = 0 THEN byte >= 128 ELSE finalFrame
  /\ FailAfterError
  /\ UNCHANGED <<parserState, payloadLength, mask, opCode, payload>>

\* The bytes that hold the payload length, from the mask and length byte on.
LengthBytes == CASE bytes(from) % 128 = 126 -> 3
                 [] bytes(from) % 128 = 127 -> 9
                 [] OTHER -> 1

\* Of a 64 bit length only the low 32 bits are read.
DecodedLength ==
  CASE LengthBytes = 3 -> ntohs(bytes(from + 1), bytes(from + 2))
    [] LengthBytes = 9 -> ntohl(bytes(from + 5), bytes(from + 6),
                                bytes(from + 7), bytes(from + 8))
    [] OTHER -> bytes(from) % 128

\* Mutant: the mask bit is not looked at.
ParseLengthOfUnmasked ==
  /\ InParseLoop
  /\ parserState = "opCodeParsed"
  /\ length - from >= LengthBytes + 4
  /\ payloadLength' = DecodedLength
  /\ mask' = [i \in 1..4 |-> bytes(from + LengthBytes + i - 1)]
  /\ parserState' = "lengthParsed"
  /\ bytesParsed' = bytesParsed + LengthBytes + 4
  /\ UNCHANGED <<stream, arrived, bufferStart, byteIndex, finalFrame, opCode,
                 payload, pc, history>>

ParseMaskAndLength ==
  /\ InParseLoop
  /\ parserState = "opCodeParsed"
  /\ bytes(from) >= 128
  /\ length - from >= LengthBytes + 4
  /\ payloadLength' = DecodedLength
  /\ mask' = [i \in 1..4 |-> bytes(from + LengthBytes + i - 1)]
  /\ parserState' = "lengthParsed"
  /\ bytesParsed' = bytesParsed + LengthBytes + 4
  /\ UNCHANGED <<stream, arrived, bufferStart, byteIndex, finalFrame, opCode,
                 payload, pc, history>>

\* Mutant: nothing counts as consumed until the header is complete.
AwaitWholeHeader ==
  /\ InParseLoop
  /\ parserState = "opCodeParsed"
  /\ bytes(from) >= 128
  /\ length - from < LengthBytes + 4
  /\ payloadLength' = IF length - from >= LengthBytes THEN DecodedLength
                                                      ELSE payloadLength
  /\ ContinueAfter(0)
  /\ UNCHANGED <<parserState, mask, finalFrame, opCode, payload>>

\* The length or the mask is not all there: parse returns what it consumed
\* so far.  A length that is there is stored all the same.
AwaitMaskAndLength ==
  /\ InParseLoop
  /\ parserState = "opCodeParsed"
  /\ bytes(from) >= 128
  /\ length - from < LengthBytes + 4
  /\ payloadLength' = IF length - from >= LengthBytes THEN DecodedLength
                                                      ELSE payloadLength
  /\ ContinueAfter(bytesParsed)
  /\ UNCHANGED <<parserState, mask, finalFrame, opCode, payload>>

RejectUnmasked ==
  /\ InParseLoop
  /\ parserState = "opCodeParsed"
  /\ bytes(from) < 128
  /\ FailAfterError
  /\ UNCHANGED parserVars

\* Mutant: the key starts again with every read.
UnmaskedPerRead(n) ==
  [i \in 1..n |-> ByteXor(bytes(from + i - 1), mask[((i - 1) % 4) + 1])]

\* The n next payload bytes, unmasked with the key byte of their place in the
\* frame.
Unmasked(n) ==
  [i \in 1..n |-> ByteXor(bytes(from + i - 1), mask[((Len(payload) + i - 1) % 4) + 1])]

\* What is still missing of the payload, or what the buffer has of it.
BytesToUnmask ==
  LET missing == payloadLength - Len(payload)
  IN  IF missing <= length - from THEN missing ELSE length - from

ParsePayload ==
  /\ InParseLoop
  /\ parserState = "lengthParsed"
  /\ payload' = payload \o Unmasked(BytesToUnmask)
  /\ bytesParsed' = bytesParsed + BytesToUnmask
  /\ UNCHANGED <<stream, arrived, bufferStart, byteIndex, parserState,
                 payloadLength, mask, finalFrame, opCode, pc, history>>

\* The loop of parse ended on an incomplete frame.
ReturnIncomplete ==
  /\ pc = "parse" /\ ~InParseLoop
  /\ payloadLength # Len(payload)
  /\ ContinueAfter(bytesParsed)
  /\ UNCHANGED parserVars

\* Mutant: process(_:) returns after the first complete frame.
ReturnOneFrame ==
  /\ pc = "parse" /\ ~InParseLoop
  /\ payloadLength = Len(payload)
  /\ byteIndex' = byteIndex + bytesParsed
  /\ pc' = "idle"
  /\ bytesParsed' = 0
  /\ HandOn([finalFrame |-> finalFrame, opCode |-> opCode, payload |-> payload])
  /\ Reset
  /\ UNCHANGED <<stream, arrived, bufferStart, closes>>

\* The loop of parse ended on a complete frame; process(_:) looks at the
\* bytes consumed before it looks at the frame.
ReturnComplete ==
  /\ pc = "parse" /\ ~InParseLoop
  /\ payloadLength = Len(payload)
  /\ IF bytesParsed = 0
       THEN ContinueAfter(0) /\ UNCHANGED parserVars
       ELSE /\ byteIndex' = byteIndex + bytesParsed
            /\ pc' = "process"
            /\ bytesParsed' = 0
            /\ HandOn([finalFrame |-> finalFrame, opCode |-> opCode, payload |-> payload])
            /\ Reset
            /\ UNCHANGED <<stream, arrived, bufferStart, closes>>

-----------------------------------------------------------------------------
Next ==
  \/ \E n \in 1..Len(stream.bytes) : Read(n)
  \/ CallParse
  \/ FinishBuffer
  \/ ParseOpCode
  \/ RejectOpCode
  \/ ParseMaskAndLength
  \/ AwaitMaskAndLength
  \/ RejectUnmasked
  \/ ParsePayload
  \/ ReturnIncomplete
  \/ ReturnComplete

\* The reader queue does not stop inside a call, and the network delivers
\* what the client wrote.
Spec == Init /\ [][Next]_vars /\ WF_vars(Next)

-----------------------------------------------------------------------------
Frame == [finalFrame : BOOLEAN, opCode : FrameOpcode \union {unknown}, payload : Seq(Byte)]
FrameOf(f) == [finalFrame |-> f.finalFrame, opCode |-> f.opCode, payload |-> f.payload]
WellFormedFrames(s) == [k \in 1..Len(s.frames) |-> FrameOf(s.frames[k])]

\* (That stream is one of Streams is part of the inductive invariant of
\* FrameParser_proofs; TLC would build the set again in every state.)
TypeOK ==
  /\ arrived \in 0..Len(stream.bytes)
  /\ bufferStart \in 0..arrived
  /\ byteIndex \in Nat
  /\ parserState \in {"initial", "opCodeParsed", "lengthParsed"}
  /\ payloadLength \in Nat \union {-1}
  /\ mask \in [1..4 -> Byte]
  /\ finalFrame \in BOOLEAN
  /\ opCode \in FrameOpcode \union {unknown}
  /\ payload \in Seq(Byte)
  /\ pc \in {"idle", "process", "parse"}
  /\ bytesParsed \in Nat
  /\ closes \in Nat
  /\ received \in Seq(Frame) /\ strays \in Seq(Frame)

\* The frames handed on are the frames the client wrote, in order, with their
\* own fin bit, opcode and unmasked payload, wherever the reads cut the bytes
\* (process(_:) and parse(_:from:), whose state outlives a read).
FramesInOrder ==
  /\ Len(received) <= Len(stream.frames)
  /\ \A k \in 1..Len(received) : received[k] = FrameOf(stream.frames[k])

\* The connection is closed for a parse error only if the client broke the
\* protocol, and only after every frame before that was handed on.
ErrorOnlyAtViolation ==
  closes > 0 => /\ stream.violation # "none"
                /\ Len(received) = Len(stream.frames)

\* When process(_:) has returned, every frame that has arrived in full has
\* been handed on: no frame waits for bytes of a later one.
NothingHeldBack ==
  pc = "idle" /\ closes = 0 =>
    \A k \in 1..Len(stream.frames) :
      FrameEnd(stream.frames[k]) <= arrived => k <= Len(received)

\* The parser has the length 0 of an empty frame but not yet its mask.
AwaitsEmptyMask == parserState = "opCodeParsed" /\ payloadLength = 0

\* The only frame that can ever be held back is an empty one whose header
\* was cut between its length and its mask (parse(_:from:) takes the stored
\* length 0 for a complete frame).
HeldBackOnlyAtEmptyHeader == AwaitsEmptyMask \/ NothingHeldBack

\* process(_:) leaves the handler its buffer (the whole of it, what the parser
\* has consumed included) only if this read ended behind the second byte of a
\* frame and before its payload, or if the parser waits for the mask of an
\* empty frame.  So a read that ends anywhere else frees all that was kept, and
\* the buffer grows over just as many reads as end inside a header.
BufferKeptOnlyInHeader ==
  pc = "idle" /\ closes = 0 /\ length > 0 =>
    /\ Len(received) < Len(stream.frames)
    /\ LET f == stream.frames[Len(received) + 1] IN
         /\ bufferStart + byteIndex = f.at + 1
         /\ f.at + 1 < arrived
         /\ arrived < PayloadAt(f) \/ (AwaitsEmptyMask /\ f.payload = << >>)

\* A frame handed on after a parse error is one the client wrote
\* (WebSocketService.received: "Called when a WebSocket client sent ...").
NoFabricatedFrame ==
  \A i \in 1..Len(strays) :
    \E k \in 1..Len(stream.frames) : strays[i] = FrameOf(stream.frames[k])

\* The frame layer as its user sees it.
Frames == INSTANCE Delivery WITH sent <- WellFormedFrames(stream)

\* The parser implements Delivery: every frame is handed on in its turn and, as
\* long as the client goes on and unless the parser waits for the mask of an
\* empty frame for good, in the end they all are.
DeliversEveryFrame ==
  /\ Frames!SafeSpec
  /\ []<>~AwaitsEmptyMask => <>Frames!AllDelivered
=============================================================================
