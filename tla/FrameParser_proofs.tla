------------------------ MODULE FrameParser_proofs ------------------------
(***************************************************************************)
(* Proofs about FrameParser for every set of streams: the parser never     *)
(* loses its place.  The inductive invariant relates the three positions   *)
(* of the read path (bufferStart, byteIndex, bytesParsed) and the state    *)
(* the parser carries from read to read to the frame the client is in the  *)
(* middle of.                                                              *)
(***************************************************************************)
EXTENDS FrameParser, SequenceTheorems, TLAPS

\* The offset in the stream of the next byte the parser looks at.
Position == bufferStart + from

\* The frame being parsed, while the client keeps to the protocol.
Current == stream.frames[Len(received) + 1]

\* The offset at which frame k starts, or would start.
StartAt(s, k) == IF k = 1 THEN 0 ELSE FrameEnd(s.frames[k - 1])

\* What each state of the parser says of its variables, errors or not.
ParserShape ==
  /\ parserState = "initial" => payload = << >> /\ payloadLength = -1
  /\ parserState = "opCodeParsed" => payload = << >>
  /\ parserState = "opCodeParsed" /\ bytesParsed > 0 => payloadLength = -1
  /\ parserState = "lengthParsed" => payloadLength \in Nat /\ Len(payload) <= payloadLength

CallShape ==
  /\ pc # "parse" => bytesParsed = 0
  /\ pc = "parse" => byteIndex < length /\ from <= length
  /\ closes = 0 => byteIndex <= length
  /\ closes = 0 /\ pc = "idle" => byteIndex = length \/ parserState = "opCodeParsed"

AtOpCode == Position = StartAt(stream, Len(received) + 1)

\* The opcode is the current frame's, or that of the frame that is not masked.
AtLength ==
  /\ Position = StartAt(stream, Len(received) + 1) + 1
  /\ IF Len(received) < Len(stream.frames)
       THEN /\ finalFrame = Current.finalFrame
            /\ opCode = Current.opCode
            /\ payloadLength \in {-1, Len(Current.payload)}
       ELSE stream.violation = "unmasked" /\ payloadLength = -1

\* The header is the current frame's; what is there of the payload is, too.
AtPayload ==
  /\ Len(received) < Len(stream.frames)
  /\ Position = PayloadAt(Current) + Len(payload)
  /\ finalFrame = Current.finalFrame
  /\ opCode = Current.opCode
  /\ payloadLength = Len(Current.payload)
  /\ mask = Current.mask
  /\ \A i \in 1..Len(payload) : payload[i] = Current.payload[i]
  /\ Len(payload) = payloadLength => pc = "parse" /\ bytesParsed > 0

Located ==
  closes = 0 =>
    /\ parserState = "initial" => AtOpCode
    /\ parserState = "opCodeParsed" => AtLength
    /\ parserState = "lengthParsed" => AtPayload

\* The read ended behind the opcode of the current frame and, unless the
\* parser has its length 0, before its payload.
EndsInHeader ==
  /\ parserState = "opCodeParsed"
  /\ Len(received) < Len(stream.frames)
  /\ byteIndex < length
  /\ arrived < PayloadAt(Current) \/ AwaitsEmptyMask

\* Between two calls the read ends inside the current frame, and the buffer is
\* empty unless it ends inside the header.
Waiting ==
  pc = "idle" /\ closes = 0 =>
    /\ ~AwaitsEmptyMask /\ Len(received) < Len(stream.frames) => arrived < FrameEnd(Current)
    /\ length > 0 => EndsInHeader

IInv ==
  /\ stream \in Streams
  /\ TypeOK
  /\ FramesInOrder
  /\ ErrorOnlyAtViolation
  /\ ParserShape
  /\ CallShape
  /\ Located
  /\ Waiting

-----------------------------------------------------------------------------
(* What a well formed stream says of one of its frames. *)

\* The fields of a frame have their types and the frame its place.
LEMMA FramePlace ==
  ASSUME NEW s \in Streams, NEW k \in 1..Len(s.frames)
  PROVE  /\ s.bytes \in Seq(Byte) /\ s.frames \in Seq(FrameOnWire)
         /\ s.frames[k].at \in Nat /\ s.frames[k].ext \in {0, 2, 8}
         /\ s.frames[k].mask \in [1..4 -> Byte]
         /\ s.frames[k].finalFrame \in BOOLEAN
         /\ s.frames[k].opCode \in FrameOpcode
         /\ s.frames[k].payload \in Seq(Byte)
         /\ s.frames[k].at = StartAt(s, k)
         /\ FrameEnd(s.frames[k]) <= Len(s.bytes)
         /\ Encodes(s.bytes, s.frames[k])
<1>1. WellFormed(s)
  BY StreamsAssumption
<1>2. s.bytes \in Seq(Byte) /\ s.frames \in Seq(FrameOnWire)
  BY <1>1 DEF WellFormed
<1>3. s.frames[k] \in FrameOnWire
  BY <1>2
<1>4. /\ s.frames[k].at = StartAt(s, k)
      /\ FrameEnd(s.frames[k]) <= Len(s.bytes)
      /\ Encodes(s.bytes, s.frames[k])
  BY <1>1 DEF WellFormed, StartAt
<1> QED
  BY <1>2, <1>3, <1>4 DEF FrameOnWire

\* The parts of a frame add up.
LEMMA FrameSize ==
  ASSUME NEW s \in Streams, NEW k \in 1..Len(s.frames), NEW f, f = s.frames[k]
  PROVE  /\ Len(f.payload) \in Nat
         /\ PayloadAt(f) = f.at + 6 + f.ext
         /\ FrameEnd(f) = f.at + 6 + f.ext + Len(f.payload)
         /\ PayloadAt(f) \in Nat
         /\ FrameEnd(f) \in Nat
         /\ f.at + 6 <= FrameEnd(f)
<1>1. f.at \in Nat /\ f.ext \in {0, 2, 8} /\ f.payload \in Seq(Byte)
  BY FramePlace
<1>2. Len(f.payload) \in Nat
  BY <1>1
<1>3. f.ext \in Nat
  BY <1>1
<1>4. PayloadAt(f) = f.at + 6 + f.ext
  BY DEF PayloadAt
<1>5. FrameEnd(f) = f.at + 6 + f.ext + Len(f.payload)
  BY <1>4 DEF FrameEnd
<1>6. /\ f.at + 6 + f.ext + Len(f.payload) \in Nat
      /\ f.at + 6 <= f.at + 6 + f.ext + Len(f.payload)
  <2> DEFINE a == f.at  e == f.ext  l == Len(f.payload)
  <2>1. a \in Nat /\ e \in Nat /\ l \in Nat
    BY <1>1, <1>2, <1>3
  <2> HIDE DEF a, e, l
  <2>2. a + 6 + e + l \in Nat /\ a + 6 <= a + 6 + e + l
    BY <2>1
  <2> QED
    BY <2>2 DEF a, e, l
<1>8. PayloadAt(f) \in Nat
  <2> DEFINE a == f.at  e == f.ext
  <2>1. a \in Nat /\ e \in Nat
    BY <1>1, <1>3
  <2> HIDE DEF a, e
  <2>2. a + 6 + e \in Nat
    BY <2>1
  <2> QED
    BY <1>4, <2>2 DEF a, e
<1>9. FrameEnd(f) \in Nat /\ f.at + 6 <= FrameEnd(f)
  BY <1>5, <1>6
<1> QED
  BY <1>2, <1>4, <1>5, <1>8, <1>9

\* The first byte of a frame is accepted and decodes to its fields.
LEMMA FirstByte ==
  ASSUME NEW s \in Streams, NEW k \in 1..Len(s.frames)
  PROVE  LET b == s.bytes[s.frames[k].at + 1] IN
           /\ ValidFirstByte(b)
           /\ (b >= 128) = s.frames[k].finalFrame
           /\ b % 16 = s.frames[k].opCode
<1> DEFINE b == s.bytes[s.frames[k].at + 1]
           fin == s.frames[k].finalFrame
           op == s.frames[k].opCode
<1>1. b = (IF fin THEN 128 ELSE 0) + op /\ fin \in BOOLEAN /\ op \in FrameOpcode
  BY FramePlace DEF Encodes
<1> HIDE DEF b, fin, op
<1>2. op \in {0, 1, 2, 8, 9, 10}
  BY <1>1 DEF FrameOpcode
<1>3. ValidFirstByte(b) /\ (b >= 128) = fin /\ b % 16 = op
  BY <1>1, <1>2 DEF ValidFirstByte, FrameOpcode
<1> QED
  BY <1>3 DEF b, fin, op

\* The low seven bits of a mask and length byte with its mask bit set.
LEMMA LowBits == ASSUME NEW n \in 0..127 PROVE (128 + n) % 128 = n
OBVIOUS

\* The mask and length byte and what follows it: mask bit, size of the length
\* field and length.
HasLengthField(s, f) ==
  /\ s[f.at + 2] \in 128..255
  /\ f.ext = 0 => s[f.at + 2] % 128 = Len(f.payload) /\ Len(f.payload) < 126
  /\ f.ext = 2 => /\ s[f.at + 2] % 128 = 126
                  /\ Len(f.payload) = ntohs(s[f.at + 3], s[f.at + 4])
  /\ f.ext = 8 => /\ s[f.at + 2] % 128 = 127
                  /\ Len(f.payload) = ntohl(s[f.at + 7], s[f.at + 8],
                                            s[f.at + 9], s[f.at + 10])

\* A frame on the wire has a length field of its own size and length.
LEMMA LengthOnWire ==
  ASSUME NEW s \in Streams, NEW k \in 1..Len(s.frames), NEW f, f = s.frames[k]
  PROVE  HasLengthField(s.bytes, f)
<1> DEFINE b == s.bytes[f.at + 2]
<1>1. Encodes(s.bytes, f) /\ f.ext \in {0, 2, 8} /\ Len(f.payload) \in Nat
  BY FramePlace
<1>2. CASE f.ext = 0
  <2>1. b = 128 + Len(f.payload) /\ Len(f.payload) < 126
    BY <1>1, <1>2 DEF Encodes
  <2> DEFINE n == Len(f.payload)
  <2>a. n \in Nat /\ n < 126
    BY <1>1, <2>1
  <2>b. b = 128 + n
    BY <2>1
  <2> HIDE DEF b, n
  <2>0. n \in 0..127 /\ b = 128 + n
    BY <2>a, <2>b
  <2> HIDE DEF b, n
  <2>2. b \in 128..255 /\ b % 128 = n
    BY <2>0, LowBits
  <2>3. f.ext # 2 /\ f.ext # 8
    BY <1>2
  <2> QED
    BY <2>1, <2>2, <2>3 DEF b, n, HasLengthField
<1>3. CASE f.ext = 2
  <2>1. /\ b = 254
        /\ Len(f.payload) = ntohs(s.bytes[f.at + 3], s.bytes[f.at + 4])
    BY <1>1, <1>3 DEF Encodes
  <2>2. b \in 128..255 /\ b % 128 = 126
    BY <2>1
  <2> QED
    BY <1>3, <2>1, <2>2 DEF HasLengthField
<1>4. CASE f.ext = 8
  <2>1. /\ b = 255
        /\ Len(f.payload) = ntohl(s.bytes[f.at + 7], s.bytes[f.at + 8],
                                  s.bytes[f.at + 9], s.bytes[f.at + 10])
    BY <1>1, <1>4 DEF Encodes
  <2>2. b \in 128..255 /\ b % 128 = 127
    BY <2>1
  <2> QED
    BY <1>4, <2>1, <2>2 DEF HasLengthField
<1> QED
  BY <1>1, <1>2, <1>3, <1>4

\* What a stream is where its well formed frames end.
LEMMA EndOfFrames ==
  ASSUME NEW s \in Streams
  PROVE  /\ GoodEnd(s) = StartAt(s, Len(s.frames) + 1)
         /\ s.frames \in Seq(FrameOnWire) /\ s.bytes \in Seq(Byte)
         /\ s.violation \in {"none", "opCode", "unmasked"}
         /\ s.violation = "none" => Len(s.bytes) = GoodEnd(s)
         /\ s.violation = "opCode" => ~ValidFirstByte(s.bytes[GoodEnd(s) + 1])
         /\ s.violation = "unmasked" => /\ ValidFirstByte(s.bytes[GoodEnd(s) + 1])
                                        /\ s.bytes[GoodEnd(s) + 2] < 128
<1>1. WellFormed(s)
  BY StreamsAssumption
<1>2. s.frames \in Seq(FrameOnWire)
  BY <1>1 DEF WellFormed
<1>3. GoodEnd(s) = StartAt(s, Len(s.frames) + 1)
  BY <1>2 DEF GoodEnd, StartAt
<1> QED
  BY <1>1, <1>2, <1>3 DEF WellFormed

-----------------------------------------------------------------------------
(* The invariant holds at the start and every step keeps it. *)

\* The parser starts in its place: before the first byte of the first frame.
LEMMA InitPlace == Init => IInv
<1> SUFFICES ASSUME Init PROVE IInv
  OBVIOUS
<1> USE DEF Init
<1>1. stream.frames \in Seq(FrameOnWire) /\ stream.bytes \in Seq(Byte)
  BY EndOfFrames
<1>2. TypeOK
  <2>1. payload \in Seq(Byte) /\ received \in Seq(Frame) /\ strays \in Seq(Frame)
    BY EmptySeq
  <2>2. mask \in [1..4 -> Byte]
    BY DEF Byte
  <2>3. arrived \in 0..Len(stream.bytes) /\ bufferStart \in 0..arrived
    BY <1>1
  <2>4. opCode \in FrameOpcode \union {unknown} /\ payloadLength \in Nat \union {-1}
    OBVIOUS
  <2> QED
    BY <2>1, <2>2, <2>3, <2>4 DEF TypeOK
<1>3. FramesInOrder /\ ErrorOnlyAtViolation
  BY <1>1 DEF FramesInOrder, ErrorOnlyAtViolation
<1>4. ParserShape /\ CallShape
  BY DEF ParserShape, CallShape, length, from
<1>5. Located
  BY <1>1 DEF Located, AtOpCode, Position, StartAt, from
<1>6. Waiting
  <2>1. ASSUME 0 < Len(stream.frames) PROVE 0 < FrameEnd(stream.frames[1])
    <3>1. 1 \in 1..Len(stream.frames)
      BY <1>1, <2>1
    <3> DEFINE a == stream.frames[1].at
    <3>2. a \in Nat /\ a + 6 <= FrameEnd(stream.frames[1]) /\ FrameEnd(stream.frames[1]) \in Nat
      BY <3>1, FramePlace, FrameSize
    <3> HIDE DEF a
    <3> QED
      BY <3>2
  <2> QED
    BY <1>1, <2>1 DEF Waiting, Current, length, AwaitsEmptyMask
<1> QED
  BY <1>2, <1>3, <1>4, <1>5, <1>6 DEF IInv

\* The bytes of the buffer are bytes of the stream.
LEMMA BufferByte ==
  ASSUME IInv, NEW i \in Nat, i < length
  PROVE  bytes(i) \in Byte
BY EndOfFrames DEF IInv, TypeOK, length, bytes

\* A frame ends after it starts: at least its header comes in between.
LEMMA FrameLength ==
  ASSUME IInv, Len(received) < Len(stream.frames)
  PROVE  /\ Len(received) + 1 \in 1..Len(stream.frames)
         /\ Current.at \in Nat /\ Current.ext \in {0, 2, 8}
         /\ Current.payload \in Seq(Byte) /\ Len(Current.payload) \in Nat
         /\ Current.at = StartAt(stream, Len(received) + 1)
         /\ PayloadAt(Current) = Current.at + 6 + Current.ext
         /\ FrameEnd(Current) = Current.at + 6 + Current.ext + Len(Current.payload)
         /\ FrameEnd(Current) = PayloadAt(Current) + Len(Current.payload)
         /\ PayloadAt(Current) \in Nat /\ FrameEnd(Current) \in Nat
         /\ Current.at + 6 <= FrameEnd(Current)
<1>1. Len(received) + 1 \in 1..Len(stream.frames)
  BY EndOfFrames DEF IInv, TypeOK
<1>2. stream \in Streams
  BY DEF IInv
<1> QED
  BY <1>1, <1>2, FramePlace, FrameSize DEF Current, FrameEnd

\* More bytes in the read buffer do not move the parser (a call of process(_:)).
LEMMA ReadPlace == ASSUME IInv, NEW n \in Nat \ {0}, Read(n) PROVE IInv'
<1> USE DEF Read, parserVars, history
<1>1. TypeOK'
  BY DEF IInv, TypeOK
<1>2. FramesInOrder' /\ ErrorOnlyAtViolation' /\ stream' \in Streams
  BY DEF IInv, FramesInOrder, ErrorOnlyAtViolation
<1>3. ParserShape' /\ CallShape' 
  BY DEF IInv, TypeOK, ParserShape, CallShape, length, from
<1>4. Located'
  BY DEF IInv, ParserShape, Located, AtOpCode, AtLength, AtPayload, Current, Position, from
<1>5. Waiting'
  BY DEF Waiting
<1> QED
  BY <1>1, <1>2, <1>3, <1>4, <1>5 DEF IInv

\* Entering parse(_:from:) moves nothing either: it starts at byteIndex.
LEMMA CallParsePlace == ASSUME IInv, CallParse PROVE IInv'
<1> USE DEF CallParse, parserVars, history
<1>1. TypeOK'
  BY DEF IInv, TypeOK
<1>2. FramesInOrder' /\ ErrorOnlyAtViolation' /\ stream' \in Streams
  BY DEF IInv, FramesInOrder, ErrorOnlyAtViolation
<1>3. ParserShape' /\ CallShape' 
  BY DEF IInv, TypeOK, ParserShape, CallShape, length, from
<1>4. Located'
  BY DEF IInv, ParserShape, Located, AtOpCode, AtLength, AtPayload, Current, Position, from
<1>5. Waiting'
  BY DEF Waiting
<1> QED
  BY <1>1, <1>2, <1>3, <1>4, <1>5 DEF IInv

\* A buffer that is used up is dropped, and byteIndex starts again at the next
\* one: the sum of the two stays the same.
LEMMA FinishBufferPlace == ASSUME IInv, FinishBuffer PROVE IInv'
<1> USE DEF FinishBuffer, parserVars, history
<1>1. TypeOK'
  BY DEF IInv, TypeOK
<1>2. FramesInOrder' /\ ErrorOnlyAtViolation' /\ stream' \in Streams
  BY DEF IInv, FramesInOrder, ErrorOnlyAtViolation
<1>3. ParserShape' /\ CallShape' 
  BY DEF IInv, TypeOK, ParserShape, CallShape, length, from
<1>4. ASSUME closes = 0 PROVE Position' = Position /\ Position' = arrived
  BY <1>4 DEF IInv, TypeOK, CallShape, Position, length, from
<1>5. Located'
  BY <1>4 DEF IInv, ParserShape, Located, AtOpCode, AtLength, AtPayload, Current
<1>6. Waiting'
  <2>1. length' = 0
    BY DEF IInv, TypeOK, length
  <2> SUFFICES ASSUME closes = 0, ~AwaitsEmptyMask
               PROVE  Len(received) < Len(stream.frames) => arrived < FrameEnd(Current)
    BY <2>1 DEF Waiting, Current, AwaitsEmptyMask
  <2>2. ASSUME Len(received) < Len(stream.frames) PROVE arrived < FrameEnd(Current)
    <3> DEFINE at == Current.at  all == FrameEnd(Current)
    <3>1. at \in Nat /\ all \in Nat /\ at + 6 <= all /\ Position = arrived
      BY <1>4, <2>2, FrameLength
    <3>2. CASE parserState = "initial"
      <4>1. Position = at
        BY <2>2, <3>2, FrameLength DEF IInv, Located, AtOpCode
      <4> HIDE DEF at, all
      <4> QED
        BY <3>1, <4>1 DEF all
    <3>3. CASE parserState = "opCodeParsed"
      <4>1. Position = at + 1
        BY <2>2, <3>3, FrameLength DEF IInv, Located, AtLength
      <4> HIDE DEF at, all
      <4> QED
        BY <3>1, <4>1 DEF all
    <3>4. CASE parserState = "lengthParsed"
      <4> DEFINE put == PayloadAt(Current)  there == Len(payload)  size == Len(Current.payload)
      <4>1. Position = put + there /\ there # size /\ there <= size
        BY <3>4 DEF IInv, Located, AtPayload, ParserShape
      <4>2. all = put + size /\ put \in Int /\ there \in Nat /\ size \in Nat
        BY <2>2, FrameLength DEF IInv, TypeOK
      <4> HIDE DEF put, there, size, all
      <4> QED
        BY <3>1, <4>1, <4>2 DEF all
    <3> QED
      BY <3>2, <3>3, <3>4 DEF IInv, TypeOK
  <2> QED
    BY <2>2
<1> QED
  BY <1>1, <1>2, <1>3, <1>5, <1>6 DEF IInv

-----------------------------------------------------------------------------
(* The steps of parse(_:from:). *)

\* parse looks at the byte of the stream at Position.
LEMMA NextByte ==
  ASSUME IInv, InParseLoop
  PROVE  /\ bytes(from) \in Byte
         /\ bytes(from) = stream.bytes[Position + 1]
         /\ from \in Nat /\ Position \in Nat /\ Position < Len(stream.bytes)
         /\ Len(stream.bytes) \in Nat
<1>1. from \in Nat
  BY DEF IInv, TypeOK, from
<1>2. bytes(from) \in Byte
  BY <1>1, BufferByte DEF InParseLoop
<1>3. Position \in Nat /\ Position < Len(stream.bytes) /\ Len(stream.bytes) \in Nat
  BY <1>1 DEF IInv, TypeOK, InParseLoop, length, Position
<1> QED
  BY <1>1, <1>2, <1>3 DEF bytes, Position

\* Where a frame starts the parser finds its first byte, and where the frames
\* end the byte that breaks the protocol or the start of an unmasked frame.
LEMMA ByteAtOpCode ==
  ASSUME IInv, InParseLoop, parserState = "initial", closes = 0
  PROVE  /\ Len(received) < Len(stream.frames) =>
              /\ ValidFirstByte(bytes(from))
              /\ (bytes(from) >= 128) = Current.finalFrame
              /\ bytes(from) % 16 = Current.opCode
         /\ ~(Len(received) < Len(stream.frames)) =>
              /\ Len(received) = Len(stream.frames)
              /\ stream.violation # "none"
              /\ ValidFirstByte(bytes(from)) => stream.violation = "unmasked"
<1> DEFINE n == Len(received)
<1>1. AtOpCode /\ stream \in Streams
  BY DEF IInv, Located
<1>2. CASE n < Len(stream.frames)
  <2>1. n + 1 \in 1..Len(stream.frames) /\ Current.at = Position
    BY <1>1, <1>2, FrameLength DEF AtOpCode
  <2>2. bytes(from) = stream.bytes[stream.frames[n + 1].at + 1]
    BY <2>1, NextByte DEF Current
  <2> QED
    BY <1>1, <1>2, <2>1, <2>2, FirstByte DEF Current
<1>3. CASE ~(n < Len(stream.frames))
  <2>1. n = Len(stream.frames)
    BY <1>3, EndOfFrames DEF IInv, TypeOK, FramesInOrder
  <2>2. Position = GoodEnd(stream)
    BY <1>1, <2>1, EndOfFrames DEF AtOpCode
  <2>3. stream.violation # "none"
    BY <1>1, <2>2, EndOfFrames, NextByte
  <2>4. ValidFirstByte(bytes(from)) => stream.violation = "unmasked"
    BY <1>1, <2>2, <2>3, EndOfFrames, NextByte
  <2> QED
    BY <1>3, <2>1, <2>3, <2>4
<1> QED
  BY <1>2, <1>3

\* parseOpCode takes the first byte of the client's next frame, and its fields.
LEMMA ParseOpCodePlace == ASSUME IInv, ParseOpCode PROVE IInv'
<1> USE DEF ParseOpCode, history
<1>1. InParseLoop /\ ValidFirstByte(bytes(from)) /\ parserState = "initial"
  OBVIOUS
<1>2. TypeOK'
  <2>1. opCode' \in FrameOpcode /\ finalFrame' \in BOOLEAN
    BY <1>1 DEF ValidFirstByte
  <2> QED
    BY <2>1 DEF IInv, TypeOK
<1>3. FramesInOrder' /\ ErrorOnlyAtViolation' /\ stream' \in Streams
  BY DEF IInv, FramesInOrder, ErrorOnlyAtViolation
<1>4. ParserShape'
  BY DEF IInv, ParserShape
<1>5. CallShape'
  BY DEF IInv, TypeOK, CallShape, InParseLoop, length, from
<1>6. Located'
  <2> SUFFICES ASSUME closes = 0 PROVE AtLength'
    BY DEF Located
  <2>1. Position' = StartAt(stream, Len(received) + 1) + 1
    <3>1. Position = StartAt(stream, Len(received) + 1) /\ Position \in Nat
      BY <1>1, NextByte DEF IInv, Located, AtOpCode
    <3>2. Position' = Position + 1
      BY DEF IInv, TypeOK, Position, from
    <3> QED
      BY <3>1, <3>2
  <2>2. payloadLength' = -1
    BY DEF IInv, ParserShape
  <2> QED
    BY <1>1, <2>1, <2>2, ByteAtOpCode DEF AtLength, Current, StartAt
<1>7. Waiting'
  BY DEF Waiting, InParseLoop
<1> QED
  BY <1>2, <1>3, <1>4, <1>5, <1>6, <1>7 DEF IInv

\* An error leaves the parser as it is, and no frame is missing.
LEMMA FailPlace ==
  ASSUME IInv, InParseLoop, FailAfterError,
         UNCHANGED <<parserState, payloadLength, mask, opCode, payload>>,
         finalFrame' \in BOOLEAN,
         closes = 0 => /\ Len(received) = Len(stream.frames)
                       /\ stream.violation # "none"
  PROVE  IInv'
<1> USE DEF FailAfterError
<1>0. closes' > 0 /\ closes' # 0
  BY DEF IInv, TypeOK
<1>1. TypeOK'
  BY DEF IInv, TypeOK
<1>2. FramesInOrder' /\ ErrorOnlyAtViolation' /\ stream' \in Streams
  BY DEF IInv, TypeOK, FramesInOrder, ErrorOnlyAtViolation
<1>3. ParserShape'
  BY DEF IInv, TypeOK, ParserShape
<1>4. CallShape'
  BY <1>0 DEF CallShape
<1>5. Located' /\ Waiting'
  BY <1>0 DEF Located, Waiting
<1> QED
  BY <1>1, <1>2, <1>3, <1>4, <1>5 DEF IInv

\* parseOpCode only rejects the byte at which the client breaks the protocol.
LEMMA RejectOpCodePlace == ASSUME IInv, RejectOpCode PROVE IInv'
<1>1. finalFrame' \in BOOLEAN
  <2>1. finalFrame' = (bytes(from) >= 128) \/ finalFrame' = finalFrame
    BY DEF RejectOpCode
  <2>2. (bytes(from) >= 128) \in BOOLEAN
    OBVIOUS
  <2>3. finalFrame \in BOOLEAN
    BY DEF IInv, TypeOK
  <2> QED
    BY <2>1, <2>2, <2>3, Zenon
<1>2. closes = 0 => /\ Len(received) = Len(stream.frames)
                    /\ stream.violation # "none"
  BY ByteAtOpCode DEF RejectOpCode
<1> QED
  BY <1>1, <1>2, FailPlace DEF RejectOpCode

\* Past the opcode of a frame the parser decodes the frame's own length field;
\* past the opcode where the frames end, an unmasked one.
LEMMA BytesAtLength ==
  ASSUME IInv, InParseLoop, parserState = "opCodeParsed", closes = 0
  PROVE  /\ Len(received) < Len(stream.frames) =>
              /\ bytes(from) >= 128
              /\ LengthBytes = 1 + Current.ext
              /\ DecodedLength = Len(Current.payload)
              /\ Position = Current.at + 1
         /\ ~(Len(received) < Len(stream.frames)) =>
              /\ Len(received) = Len(stream.frames)
              /\ stream.violation # "none"
              /\ bytes(from) < 128
<1> DEFINE n == Len(received)
<1>1. AtLength /\ stream \in Streams
  BY DEF IInv, Located
<1>2. CASE n < Len(stream.frames)
  <2> DEFINE at == Current.at
  <2>1. n + 1 \in 1..Len(stream.frames) /\ at \in Nat /\ Position = at + 1
    BY <1>1, <1>2, FrameLength DEF AtLength
  <2>2. Current.ext \in {0, 2, 8}
    BY <1>2, FrameLength
  <2>3. \A i \in Nat : bytes(from + i) = stream.bytes[at + 2 + i]
    <3> TAKE i \in Nat
    <3>1. bytes(from + i) = stream.bytes[bufferStart + (from + i) + 1]
      BY DEF bytes
    <3>2. bufferStart \in Nat /\ from \in Nat /\ bufferStart + from = at + 1
      BY <2>1, NextByte DEF IInv, TypeOK, Position
    <3> HIDE DEF at
    <3>3. bufferStart + (from + i) + 1 = at + 2 + i
      BY <2>1, <3>2
    <3> QED
      BY <3>1, <3>3
  <2>4. bytes(from) = stream.bytes[at + 2]
    <3>1. Position + 1 = at + 2
      <4> HIDE DEF at
      <4> QED
        BY <2>1
    <3> QED
      BY <3>1, NextByte
  <2>5. /\ bytes(from + 1) = stream.bytes[at + 3] /\ bytes(from + 2) = stream.bytes[at + 4]
        /\ bytes(from + 5) = stream.bytes[at + 7] /\ bytes(from + 6) = stream.bytes[at + 8]
        /\ bytes(from + 7) = stream.bytes[at + 9] /\ bytes(from + 8) = stream.bytes[at + 10]
    <3> HIDE DEF at
    <3>1. /\ at + 2 + 1 = at + 3 /\ at + 2 + 2 = at + 4 /\ at + 2 + 5 = at + 7
          /\ at + 2 + 6 = at + 8 /\ at + 2 + 7 = at + 9 /\ at + 2 + 8 = at + 10
      BY <2>1
    <3> QED
      BY <2>3, <3>1
  <2> DEFINE b == bytes(from)
             size == Len(Current.payload)
  <2>6. /\ b \in 128..255
        /\ Current.ext = 0 => b % 128 = size /\ size < 126
        /\ Current.ext = 2 => b % 128 = 126 /\ size = ntohs(bytes(from + 1), bytes(from + 2))
        /\ Current.ext = 8 => b % 128 = 127 /\ size = ntohl(bytes(from + 5), bytes(from + 6),
                                                           bytes(from + 7), bytes(from + 8))
    <3>1. HasLengthField(stream.bytes, Current)
      BY <1>1, <2>1, LengthOnWire DEF Current
    <3>2. /\ stream.bytes[at + 2] \in 128..255
          /\ Current.ext = 0 => stream.bytes[at + 2] % 128 = size /\ size < 126
          /\ Current.ext = 2 => /\ stream.bytes[at + 2] % 128 = 126
                                /\ size = ntohs(stream.bytes[at + 3], stream.bytes[at + 4])
          /\ Current.ext = 8 => /\ stream.bytes[at + 2] % 128 = 127
                                /\ size = ntohl(stream.bytes[at + 7], stream.bytes[at + 8],
                                                stream.bytes[at + 9], stream.bytes[at + 10])
      BY <3>1 DEF HasLengthField
    <3> HIDE DEF at, size
    <3> QED
      BY <2>4, <2>5, <3>2
  <2>7. LengthBytes = 1 + Current.ext
    <3>1. CASE Current.ext = 0
      <4>1. b % 128 # 126 /\ b % 128 # 127
        <5>1. size \in Nat
          BY <1>2, FrameLength
        <5> HIDE DEF b, size
        <5> QED
          BY <2>6, <3>1, <5>1
      <4> QED
        BY <3>1, <4>1 DEF LengthBytes
    <3>2. CASE Current.ext = 2
      BY <2>6, <3>2 DEF LengthBytes
    <3>3. CASE Current.ext = 8
      BY <2>6, <3>3 DEF LengthBytes
    <3> QED
      BY <2>2, <3>1, <3>2, <3>3
  <2>8. DecodedLength = size
    BY <2>2, <2>6, <2>7 DEF DecodedLength
  <2>9. b >= 128
    <3> HIDE DEF b
    <3> QED
      BY <2>6
  <2> QED
    BY <1>2, <2>1, <2>7, <2>8, <2>9
<1>3. CASE ~(n < Len(stream.frames))
  <2>1. n = Len(stream.frames)
    BY <1>3, EndOfFrames DEF IInv, TypeOK, FramesInOrder
  <2>2. Position = GoodEnd(stream) + 1 /\ stream.violation = "unmasked"
    BY <1>1, <1>3, <2>1, EndOfFrames DEF AtLength
  <2>3. GoodEnd(stream) \in Nat
    <3>1. CASE stream.frames = << >>
      BY <3>1 DEF GoodEnd
    <3>2. CASE stream.frames # << >>
      <4>1. Len(stream.frames) \in 1..Len(stream.frames)
        BY <1>1, <3>2, EndOfFrames
      <4> QED
        BY <1>1, <3>2, <4>1, FrameSize DEF GoodEnd
    <3> QED
      BY <3>1, <3>2
  <2>4. bytes(from) = stream.bytes[GoodEnd(stream) + 2]
    BY <2>2, <2>3, NextByte
  <2> QED
    BY <1>1, <1>3, <2>1, <2>2, <2>4, EndOfFrames
<1> QED
  BY <1>2, <1>3

\* parseMaskAndLength only rejects the frame the client did not mask.
LEMMA RejectUnmaskedPlace == ASSUME IInv, RejectUnmasked PROVE IInv'
<1>1. finalFrame' \in BOOLEAN
  BY DEF RejectUnmasked, parserVars, IInv, TypeOK
<1>2. closes = 0 => /\ Len(received) = Len(stream.frames)
                    /\ stream.violation # "none"
  <2>1. ~(bytes(from) >= 128)
    <3> DEFINE b == bytes(from)
    <3>1. b < 128
      BY DEF RejectUnmasked
    <3>2. b \in 0..255
      BY NextByte DEF RejectUnmasked, Byte
    <3> HIDE DEF b
    <3>3. ~(b >= 128)
      BY <3>1, <3>2
    <3> QED
      BY <3>3 DEF b
  <2> QED
    BY <2>1, BytesAtLength DEF RejectUnmasked
<1> QED
  BY <1>1, <1>2, FailPlace DEF RejectUnmasked, parserVars

\* Whatever the bytes are, the length they decode to is a natural number.
LEMMA LengthType ==
  ASSUME IInv, InParseLoop
  PROVE  /\ LengthBytes \in {1, 3, 9}
         /\ length - from >= LengthBytes => DecodedLength \in Nat
<1>1. LengthBytes \in {1, 3, 9}
  BY DEF LengthBytes
<1>2. length \in Int /\ from \in Nat
  BY NextByte DEF IInv, TypeOK, length
<1>3. ASSUME length - from >= LengthBytes PROVE DecodedLength \in Nat
  <2>1. CASE LengthBytes = 1
    <3>1. DecodedLength = bytes(from) % 128
      BY <2>1 DEF DecodedLength
    <3>2. bytes(from) \in 0..255
      BY NextByte DEF Byte
    <3>3. bytes(from) % 128 \in Nat
      <4> DEFINE b == bytes(from)
      <4> HIDE DEF b
      <4>1. b \in 0..255 => b % 128 \in Nat
        OBVIOUS
      <4> QED
        BY <3>2, <4>1 DEF b
    <3> QED
      BY <3>1, <3>3
  <2>2. CASE LengthBytes = 3
    <3> DEFINE b1 == bytes(from + 1)  b2 == bytes(from + 2)
    <3>1. b1 \in 0..255 /\ b2 \in 0..255
      BY <1>2, <1>3, <2>2, BufferByte DEF Byte
    <3>2. DecodedLength = ntohs(b1, b2)
      BY <2>2 DEF DecodedLength
    <3> HIDE DEF b1, b2
    <3> QED
      BY <3>1, <3>2 DEF ntohs
  <2>3. CASE LengthBytes = 9
    <3> DEFINE b1 == bytes(from + 5)  b2 == bytes(from + 6)
               b3 == bytes(from + 7)  b4 == bytes(from + 8)
    <3>1. b1 \in 0..255 /\ b2 \in 0..255 /\ b3 \in 0..255 /\ b4 \in 0..255
      BY <1>2, <1>3, <2>3, BufferByte DEF Byte
    <3>2. DecodedLength = ntohl(b1, b2, b3, b4)
      BY <2>3 DEF DecodedLength
    <3> HIDE DEF b1, b2, b3, b4
    <3> QED
      BY <3>1, <3>2 DEF ntohl
  <2> QED
    BY <1>1, <2>1, <2>2, <2>3
<1> QED
  BY <1>1, <1>3

\* The masking key read behind the length is the frame's.
LEMMA MaskAtLength ==
  ASSUME IInv, InParseLoop, parserState = "opCodeParsed", closes = 0,
         Len(received) < Len(stream.frames)
  PROVE  \A i \in 1..4 : bytes(from + LengthBytes + i - 1) = Current.mask[i]
<1> DEFINE at == Current.at  e == Current.ext
<1>1. /\ at \in Nat /\ e \in {0, 2, 8} /\ LengthBytes = 1 + e /\ Position = at + 1
      /\ from \in Nat /\ bufferStart \in Nat
  BY FrameLength, BytesAtLength, NextByte DEF IInv, TypeOK
<1>2. Encodes(stream.bytes, Current)
  BY FrameLength, FramePlace DEF IInv, Current
<1> TAKE i \in 1..4
<1>3. stream.bytes[at + 2 + e + i] = Current.mask[i]
  BY <1>2 DEF Encodes
<1>4. bytes(from + LengthBytes + i - 1) = stream.bytes[bufferStart + (from + LengthBytes + i - 1) + 1]
  BY DEF bytes
<1>5. bufferStart + (from + LengthBytes + i - 1) + 1 = at + 2 + e + i
  <2>1. bufferStart + from = at + 1
    BY <1>1 DEF Position
  <2> HIDE DEF at, e
  <2> QED
    BY <1>1, <2>1
<1> QED
  BY <1>3, <1>4, <1>5

\* parseMaskAndLength takes the current frame's length and key, and is then at
\* its payload.
LEMMA ParseMaskAndLengthPlace == ASSUME IInv, ParseMaskAndLength PROVE IInv'
<1> USE DEF ParseMaskAndLength, history
<1>1. /\ InParseLoop /\ parserState = "opCodeParsed" /\ bytes(from) >= 128
      /\ length - from >= LengthBytes + 4 /\ payload = << >> /\ Len(payload) = 0
  BY EmptySeq DEF IInv, ParserShape
<1>2. /\ LengthBytes \in {1, 3, 9} /\ length \in Int /\ from \in Nat
      /\ byteIndex \in Nat /\ bytesParsed \in Nat /\ bufferStart \in Nat
  BY <1>1, LengthType, NextByte DEF IInv, TypeOK, length
<1>3. DecodedLength \in Nat
  BY <1>1, <1>2, LengthType
<1>4. TypeOK'
  <2>1. \A i \in 1..4 : bytes(from + LengthBytes + i - 1) \in Byte
    <3> TAKE i \in 1..4
    <3> DEFINE j == from + LengthBytes + i - 1
    <3>1. j \in Nat /\ j < length
      BY <1>1, <1>2
    <3> HIDE DEF j
    <3>2. bytes(j) \in Byte
      BY <3>1, BufferByte
    <3> QED
      BY <3>2 DEF j
  <2>2. mask' \in [1..4 -> Byte]
    BY <2>1
  <2>3. bytesParsed' \in Nat
    BY <1>2
  <2> QED
    BY <1>3, <2>2, <2>3 DEF IInv, TypeOK
<1>5. FramesInOrder' /\ ErrorOnlyAtViolation' /\ stream' \in Streams
  BY DEF IInv, FramesInOrder, ErrorOnlyAtViolation
<1>6. ParserShape'
  BY <1>1, <1>3 DEF ParserShape
<1>7. CallShape'
  <2>1. from' = from + LengthBytes + 4 /\ length' = length
    BY <1>2 DEF from, length
  <2> QED
    BY <1>1, <1>2, <2>1 DEF IInv, CallShape, InParseLoop
<1>8. Located'
  <2> SUFFICES ASSUME closes = 0 PROVE AtPayload'
    BY DEF Located
  <2>1. Len(received) < Len(stream.frames)
    <3> DEFINE b == bytes(from)
    <3>1. b \in 0..255 /\ b >= 128
      BY <1>1, NextByte DEF Byte
    <3> HIDE DEF b
    <3>2. ~(b < 128)
      BY <3>1
    <3> QED
      BY <1>1, <3>2, BytesAtLength DEF b
  <2>2. mask' = Current.mask
    <3>1. Current.mask \in [1..4 -> Byte]
      BY <2>1, FrameLength, FramePlace DEF IInv, Current
    <3> QED
      BY <1>1, <2>1, <3>1, MaskAtLength
  <2>3. Position' = PayloadAt(Current) + Len(payload)
    <3> DEFINE at == Current.at  e == Current.ext
    <3>1. /\ at \in Nat /\ e \in {0, 2, 8} /\ LengthBytes = 1 + e
          /\ Position = at + 1 /\ PayloadAt(Current) = at + 6 + e
      BY <1>1, <2>1, FrameLength, BytesAtLength
    <3>2. Position' = Position + LengthBytes + 4
      BY <1>2 DEF Position, from
    <3> HIDE DEF at, e
    <3>3. Position' = at + 6 + e + 0
      BY <3>1, <3>2
    <3>4. at + 6 + e + 0 = PayloadAt(Current) + Len(payload)
      BY <1>1, <3>1
    <3> QED
      BY <3>3, <3>4
  <2>4. finalFrame = Current.finalFrame /\ opCode = Current.opCode
    BY <1>1, <2>1 DEF IInv, Located, AtLength
  <2>5. DecodedLength = Len(Current.payload)
    BY <1>1, <2>1, BytesAtLength
  <2>6. Current' = Current /\ PayloadAt(Current)' = PayloadAt(Current)
    BY DEF Current, PayloadAt
  <2>7. bytesParsed' > 0 /\ pc' = "parse"
    BY <1>1, <1>2 DEF InParseLoop
  <2> QED
    BY <1>1, <2>1, <2>2, <2>3, <2>4, <2>5, <2>6, <2>7 DEF AtPayload
<1>9. Waiting'
  BY DEF Waiting, InParseLoop
<1> QED
  BY <1>4, <1>5, <1>6, <1>7, <1>8, <1>9 DEF IInv

\* A length or key that is not all there leaves the parser behind the opcode,
\* with less than a length field and a key in the buffer.
LEMMA AwaitMaskAndLengthPlace == ASSUME IInv, AwaitMaskAndLength PROVE IInv'
<1> USE DEF AwaitMaskAndLength, ContinueAfter, history
<1>1. /\ InParseLoop /\ parserState = "opCodeParsed" /\ bytes(from) >= 128
      /\ length - from < LengthBytes + 4 /\ pc' \in {"idle", "process"}
  OBVIOUS
<1>2. /\ LengthBytes \in {1, 3, 9} /\ length \in Int /\ from \in Nat
      /\ byteIndex \in Nat /\ bytesParsed \in Nat
      /\ bufferStart \in Nat /\ arrived \in Nat
  BY <1>1, LengthType, NextByte DEF IInv, TypeOK, length
<1>3. payloadLength' = payloadLength
        \/ (length - from >= LengthBytes /\ payloadLength' = DecodedLength)
  OBVIOUS
<1>4. /\ byteIndex' = from /\ bytesParsed' = 0 /\ from' = from
      /\ length' = length /\ Position' = Position
  BY <1>2 DEF from, length, Position
<1>5. TypeOK'
  <2>1. payloadLength' \in Nat \union {-1}
    BY <1>1, <1>3, LengthType DEF IInv, TypeOK
  <2> QED
    BY <1>1, <1>2, <1>4, <2>1 DEF IInv, TypeOK
<1>6. FramesInOrder' /\ ErrorOnlyAtViolation' /\ stream' \in Streams
  BY DEF IInv, FramesInOrder, ErrorOnlyAtViolation
<1>7. ParserShape'
  BY <1>1, <1>4 DEF IInv, ParserShape
<1>8. CallShape'
  BY <1>1, <1>2, <1>4 DEF CallShape, InParseLoop
<1>9. ASSUME closes = 0
      PROVE  Len(received) < Len(stream.frames)
  <2> DEFINE b == bytes(from)
  <2>1. b \in 0..255 /\ b >= 128
    BY <1>1, NextByte DEF Byte
  <2> HIDE DEF b
  <2>2. ~(b < 128)
    BY <2>1
  <2> QED
    BY <1>1, <1>9, <2>2, BytesAtLength DEF b
<1>10. Located'
  <2> SUFFICES ASSUME closes = 0 PROVE AtLength'
    BY <1>1 DEF Located
  <2>1. payloadLength' \in {-1, Len(Current.payload)}
    BY <1>1, <1>3, <1>9, BytesAtLength DEF IInv, Located, AtLength
  <2> QED
    BY <1>1, <1>4, <1>9, <2>1 DEF IInv, Located, AtLength, Current, StartAt
<1>11. Waiting'
  <2> SUFFICES ASSUME closes = 0
               PROVE  /\ arrived < FrameEnd(Current)
                      /\ from < length /\ arrived < PayloadAt(Current)
    BY <1>1, <1>4, <1>9 DEF Waiting, EndsInHeader, Current
  <2> DEFINE at == Current.at  e == Current.ext  all == FrameEnd(Current)
             size == Len(Current.payload)  put == PayloadAt(Current)
  <2>1. /\ at \in Nat /\ e \in {0, 2, 8} /\ LengthBytes = 1 + e /\ size \in Nat
        /\ Position = at + 1 /\ all = at + 6 + e + size /\ put = at + 6 + e
    BY <1>1, <1>9, FrameLength, BytesAtLength
  <2>2. arrived = Position + (length - from)
    BY <1>2 DEF Position, length
  <2> HIDE DEF at, e, all, size, put
  <2>3. arrived < all /\ arrived < put
    BY <1>1, <1>2, <2>1, <2>2
  <2> QED
    BY <1>1, <2>3 DEF all, put, InParseLoop
<1> QED
  BY <1>5, <1>6, <1>7, <1>8, <1>10, <1>11 DEF IInv

\* parsePayload takes the current frame's next bytes, and never one of the
\* frame after it.
LEMMA ParsePayloadPlace == ASSUME IInv, ParsePayload PROVE IInv'
<1> USE DEF ParsePayload, history
<1> DEFINE m == BytesToUnmask
           there == Len(payload)
<1>1. InParseLoop /\ parserState = "lengthParsed"
  OBVIOUS
<1>2. /\ from \in Nat /\ from < length /\ length \in Int /\ there \in Nat
      /\ payloadLength \in Nat /\ there <= payloadLength /\ there # payloadLength
      /\ byteIndex \in Nat /\ bytesParsed \in Nat
      /\ bufferStart \in Nat /\ arrived \in Nat /\ payload \in Seq(Byte)
  BY <1>1, NextByte DEF IInv, TypeOK, ParserShape, InParseLoop, length
<1>3. m \in Nat /\ m > 0 /\ m <= length - from /\ m <= payloadLength - there
  <2> HIDE DEF there
  <2> QED
    BY <1>2 DEF BytesToUnmask, there
<1>4. \A i \in 1..m : Unmasked(m)[i] \in Byte
  <2> TAKE i \in 1..m
  <2>1. from + i - 1 \in Nat /\ from + i - 1 < length
    <3> HIDE DEF m
    <3> QED
      BY <1>2, <1>3
  <2>2. bytes(from + i - 1) \in Byte
    BY <2>1, BufferByte
  <2>3. mask[((there + i - 1) % 4) + 1] \in Byte
    <3>1. ((there + i - 1) % 4) + 1 \in 1..4
      <4> HIDE DEF m, there
      <4> QED
        BY <1>2, <1>3
    <3> QED
      BY <3>1 DEF IInv, TypeOK
  <2>4. Unmasked(m)[i] = ByteXor(bytes(from + i - 1), mask[((there + i - 1) % 4) + 1])
    BY DEF Unmasked
  <2> QED
    BY <2>2, <2>3, <2>4, ByteXorAssumption
<1>5. Unmasked(m) \in Seq(Byte) /\ Len(Unmasked(m)) = m
  <2>1. Unmasked(m) = [i \in 1..m |-> Unmasked(m)[i]]
    BY DEF Unmasked
  <2>2. Unmasked(m) \in [1..m -> Byte]
    BY <1>4, <2>1
  <2> HIDE DEF m
  <2> QED
    BY <1>3, <2>2
<1>6. /\ payload' \in Seq(Byte) /\ Len(payload') = there + m
      /\ \A i \in 1..there : payload'[i] = payload[i]
      /\ \A i \in 1..m : payload'[there + i] = Unmasked(m)[i]
  <2>1. payload' = payload \o Unmasked(m)
    OBVIOUS
  <2> DEFINE u == Unmasked(m)
  <2> HIDE DEF u
  <2>2. u \in Seq(Byte) /\ Len(u) = m
    BY <1>5 DEF u
  <2>3. /\ payload \o u \in Seq(Byte) /\ Len(payload \o u) = there + m
        /\ \A i \in 1..there + m :
             (payload \o u)[i] = IF i <= there THEN payload[i] ELSE u[i - there]
    BY <1>2, <2>2, ConcatProperties
  <2> HIDE DEF m, there
  <2>4. \A i \in 1..there : i \in 1..there + m /\ i <= there
    BY <1>2, <1>3
  <2>5. \A i \in 1..m : /\ there + i \in 1..there + m /\ ~(there + i <= there)
                        /\ (there + i) - there = i
    BY <1>2, <1>3
  <2> QED
    BY <2>1, <2>3, <2>4, <2>5 DEF u
<1>7. bytesParsed' = bytesParsed + m /\ from' = from + m /\ length' = length
      /\ Position' = Position + m
  <2> HIDE DEF m
  <2> QED
    BY <1>2, <1>3 DEF from, length, Position, m
<1> HIDE DEF m
<1>8. TypeOK'
  BY <1>2, <1>3, <1>6, <1>7 DEF IInv, TypeOK
<1>9. FramesInOrder' /\ ErrorOnlyAtViolation' /\ stream' \in Streams
  BY DEF IInv, FramesInOrder, ErrorOnlyAtViolation
<1>10. ParserShape'
  BY <1>1, <1>2, <1>3, <1>6 DEF IInv, ParserShape
<1>11. CallShape'
  BY <1>1, <1>2, <1>3, <1>7 DEF IInv, CallShape, InParseLoop
<1>12. Located'
  <2> SUFFICES ASSUME closes = 0 PROVE AtPayload'
    BY <1>1 DEF Located
  <2> DEFINE put == PayloadAt(Current)  size == Len(Current.payload)
  <2>1. AtPayload
    BY <1>1 DEF IInv, Located
  <2>2. /\ put \in Nat /\ size \in Nat /\ Position = put + there /\ size = payloadLength
        /\ mask = Current.mask /\ Len(received) < Len(stream.frames)
    BY <2>1, FrameLength DEF AtPayload
  <2>3. Encodes(stream.bytes, Current)
    BY <2>2, FrameLength, FramePlace DEF IInv, Current
  <2>4. \A i \in 1..m : payload'[there + i] = Current.payload[there + i]
    <3> TAKE i \in 1..m
    <3>1. payload'[there + i] = ByteXor(bytes(from + i - 1), mask[((there + i - 1) % 4) + 1])
      BY <1>6 DEF Unmasked
    <3>2. bytes(from + i - 1) = stream.bytes[bufferStart + (from + i - 1) + 1]
      BY DEF bytes
    <3>3. /\ bufferStart + (from + i - 1) + 1 = put + (there + i)
          /\ there + i \in 1..size /\ there + i - 1 = (there + i) - 1
      <4>1. bufferStart + from = put + there
        BY <2>2 DEF Position
      <4> HIDE DEF there, put, size
      <4> QED
        BY <1>2, <1>3, <2>2, <4>1
    <3>4. ByteXor(stream.bytes[put + (there + i)], mask[(((there + i) - 1) % 4) + 1])
            = Current.payload[there + i]
      BY <2>2, <2>3, <3>3 DEF Encodes
    <3> QED
      BY <3>1, <3>2, <3>3, <3>4
  <2>5. \A i \in 1..there : payload'[i] = Current.payload[i]
    BY <1>6, <2>1 DEF AtPayload
  <2>6. \A i \in 1..Len(payload') : payload'[i] = Current.payload[i]
    <3> HIDE DEF there
    <3>1. \A i \in 1..there + m : i \in 1..there \/ (i - there \in 1..m /\ there + (i - there) = i)
      BY <1>2, <1>3 DEF there
    <3> QED
      BY <1>6, <2>4, <2>5, <3>1
  <2>7. Position' = PayloadAt(Current) + Len(payload')
    <3>1. Position' = put + there + m
      BY <1>7, <2>2
    <3> HIDE DEF put, there
    <3>2. put + there + m = put + (there + m)
      BY <1>2, <1>3, <2>2 DEF there
    <3> QED
      BY <1>6, <3>1, <3>2 DEF put
  <2>8. pc' = "parse" /\ bytesParsed' > 0
    BY <1>1, <1>2, <1>3, <1>7 DEF InParseLoop
  <2>9. Current' = Current /\ PayloadAt(Current)' = PayloadAt(Current)
    BY DEF Current, PayloadAt
  <2> QED
    BY <2>1, <2>6, <2>7, <2>8, <2>9 DEF AtPayload
<1>13. Waiting'
  BY DEF Waiting, InParseLoop
<1> QED
  BY <1>8, <1>9, <1>10, <1>11, <1>12, <1>13 DEF IInv

\* What parse consumed of an incomplete frame moves on to byteIndex.
LEMMA ReturnIncompletePlace == ASSUME IInv, ReturnIncomplete PROVE IInv'
<1> USE DEF ReturnIncomplete, ContinueAfter, parserVars, history
<1>1. /\ byteIndex \in Nat /\ bytesParsed \in Nat /\ length \in Int
      /\ bufferStart \in Nat /\ arrived \in Nat
      /\ byteIndex < length /\ from <= length /\ from = byteIndex + bytesParsed
  BY DEF IInv, TypeOK, CallShape, length, from
<1>2. from = length /\ bytesParsed # 0 /\ pc' = "process" /\ byteIndex' = length
  BY <1>1 DEF InParseLoop
<1>3. from' = from /\ length' = length /\ Position' = Position
  BY <1>1 DEF from, length, Position
<1>4. TypeOK'
  BY <1>1, <1>2 DEF IInv, TypeOK
<1>5. FramesInOrder' /\ ErrorOnlyAtViolation' /\ stream' \in Streams
  BY DEF IInv, FramesInOrder, ErrorOnlyAtViolation
<1>6. ParserShape' /\ CallShape' /\ Waiting'
  BY <1>1, <1>2, <1>3 DEF IInv, ParserShape, CallShape, Waiting
<1>7. Located'
  BY <1>3 DEF IInv, ParserShape, Located, AtOpCode, AtLength, AtPayload, Current
<1> QED
  BY <1>4, <1>5, <1>6, <1>7 DEF IInv

\* The frame parse has completed is the client's next frame.
LEMMA CompleteFrame ==
  ASSUME IInv, payloadLength = Len(payload), parserState = "lengthParsed", closes = 0
  PROVE  /\ Len(received) < Len(stream.frames)
         /\ payload = Current.payload
         /\ [finalFrame |-> finalFrame, opCode |-> opCode, payload |-> payload] = FrameOf(Current)
         /\ Position = FrameEnd(Current)
<1>1. AtPayload
  BY DEF IInv, Located
<1>2. Len(received) < Len(stream.frames)
  BY <1>1 DEF AtPayload
<1>3. payload = Current.payload
  BY <1>1, <1>2, FrameLength, SeqEqual DEF AtPayload, IInv, TypeOK
<1> QED
  BY <1>1, <1>2, <1>3, FrameLength DEF AtPayload, FrameOf

\* With a frame handed on, the parser is at the first byte of the next one.
LEMMA ReturnCompletePlace == ASSUME IInv, ReturnComplete PROVE IInv'
<1> DEFINE frame == [finalFrame |-> finalFrame, opCode |-> opCode, payload |-> payload]
           n == Len(received)
<1>1. /\ byteIndex \in Nat /\ bytesParsed \in Nat /\ length \in Int /\ n \in Nat
      /\ bufferStart \in Nat /\ arrived \in Nat /\ Len(payload) \in Nat
      /\ byteIndex < length /\ from <= length /\ from = byteIndex + bytesParsed
      /\ payloadLength = Len(payload) /\ parserState # "initial"
  BY DEF ReturnComplete, IInv, TypeOK, ParserShape, CallShape, length, from
<1>2. CASE bytesParsed = 0
  <2> USE DEF ReturnComplete, ContinueAfter, parserVars, history
  <2>1. /\ byteIndex' = byteIndex /\ bytesParsed' = 0 /\ from' = from /\ length' = length
        /\ Position' = Position /\ pc' = "idle"
    BY <1>1, <1>2 DEF from, length, Position
  <2>2. ASSUME closes = 0
        PROVE  /\ parserState = "opCodeParsed" /\ AwaitsEmptyMask
               /\ Len(received) < Len(stream.frames)
    <3>1. parserState # "lengthParsed"
      BY <1>1, <1>2, <2>2 DEF IInv, Located, AtPayload
    <3>2. parserState = "opCodeParsed"
      BY <1>1, <3>1 DEF IInv, TypeOK
    <3>3. payload = << >> /\ payloadLength = Len(payload)
      BY <1>1, <3>2 DEF IInv, ParserShape
    <3>4. payloadLength = 0
      BY <3>3, EmptySeq
    <3>5. Len(received) < Len(stream.frames)
      BY <2>2, <3>2, <3>4 DEF IInv, Located, AtLength
    <3> QED
      BY <3>2, <3>4, <3>5 DEF AwaitsEmptyMask
  <2>3. TypeOK'
    BY <1>2, <2>1 DEF IInv, TypeOK
  <2>4. FramesInOrder' /\ ErrorOnlyAtViolation' /\ stream' \in Streams
    BY <1>2 DEF IInv, FramesInOrder, ErrorOnlyAtViolation
  <2>5. ParserShape'
    BY <1>2, <2>1 DEF IInv, ParserShape
  <2>6. CallShape'
    BY <1>1, <1>2, <2>1, <2>2 DEF CallShape
  <2>7. Located'
    BY <1>2, <2>1, <2>2 DEF IInv, Located, AtLength, Current
  <2>8. Waiting'
    BY <1>1, <1>2, <2>1, <2>2 DEF Waiting, EndsInHeader, AwaitsEmptyMask
  <2> QED
    BY <2>3, <2>4, <2>5, <2>6, <2>7, <2>8 DEF IInv
<1>3. CASE bytesParsed # 0
  <2> USE DEF ReturnComplete, Reset
  <2>1. /\ byteIndex' = from /\ bytesParsed' = 0 /\ from' = from /\ length' = length
        /\ Position' = Position /\ pc' = "process" /\ closes' = closes
        /\ stream' = stream /\ arrived' = arrived /\ bufferStart' = bufferStart
        /\ parserState' = "initial" /\ payloadLength' = -1 /\ payload' = << >>
    BY <1>1, <1>3 DEF from, length, Position
  <2>2. parserState = "lengthParsed"
    BY <1>1, <1>3 DEF IInv, TypeOK, ParserShape
  <2>3. IF closes = 0 THEN received' = Append(received, frame) /\ strays' = strays
                      ELSE strays' = Append(strays, frame) /\ received' = received
    BY <1>3 DEF HandOn
  <2>4. frame \in Frame
    BY DEF Frame, IInv, TypeOK
  <2> HIDE DEF frame
  <2>5. /\ received' \in Seq(Frame) /\ strays' \in Seq(Frame)
        /\ closes = 0 => Len(received') = n + 1
    <3>1. received \in Seq(Frame) /\ strays \in Seq(Frame)
      BY DEF IInv, TypeOK
    <3>2. /\ Append(received, frame) \in Seq(Frame) /\ Append(strays, frame) \in Seq(Frame)
          /\ Len(Append(received, frame)) = n + 1
      BY <2>4, <3>1, AppendProperties
    <3> QED
      BY <2>3, <3>1, <3>2, Zenon
  <2>6. TypeOK'
    <3>1. payload' \in Seq(Byte)
      BY <2>1, EmptySeq
    <3>2. byteIndex' \in Nat /\ mask' = mask /\ finalFrame' = finalFrame /\ opCode' = opCode
      BY <1>1, <1>3, <2>1
    <3> QED
      BY <2>1, <2>5, <3>1, <3>2 DEF IInv, TypeOK
  <2>7. FramesInOrder'
    <3>1. CASE closes = 0
      <4>1. /\ n < Len(stream.frames) /\ frame = FrameOf(stream.frames[n + 1])
            /\ n + 1 \in 1..Len(stream.frames)
        BY <1>1, <2>2, <3>1, CompleteFrame, FrameLength DEF frame, Current
      <4>2. \A k \in 1..(n + 1) : received'[k] = FrameOf(stream.frames[k])
        <5> TAKE k \in 1..(n + 1)
        <5>1. CASE k = n + 1
          BY <2>3, <3>1, <4>1, <5>1 DEF IInv, TypeOK
        <5>2. CASE k # n + 1
          <6>1. k \in 1..n
            BY <1>1, <5>2
          <6>2. received'[k] = received[k]
            <7>1. received \in Seq(Frame) /\ received' = Append(received, frame)
              BY <2>3, <3>1 DEF IInv, TypeOK
            <7> QED
              BY <2>4, <6>1, <7>1, AppendProperties
          <6> QED
            BY <6>1, <6>2 DEF IInv, FramesInOrder
        <5> QED
          BY <5>1, <5>2
      <4> QED
        BY <2>1, <2>5, <3>1, <4>1, <4>2 DEF FramesInOrder
    <3>2. CASE closes # 0
      BY <2>1, <2>3, <3>2 DEF IInv, FramesInOrder
    <3> QED
      BY <3>1, <3>2
  <2>8. ErrorOnlyAtViolation' /\ stream' \in Streams
    BY <2>1, <2>3 DEF IInv, TypeOK, ErrorOnlyAtViolation
  <2>9. ParserShape' /\ CallShape' /\ Waiting'
    BY <1>1, <2>1 DEF IInv, ParserShape, CallShape, Waiting
  <2>10. Located'
    <3> SUFFICES ASSUME closes = 0 PROVE Position' = StartAt(stream, Len(received') + 1)
      BY <2>1 DEF Located, AtOpCode
    <3>1. Position' = FrameEnd(stream.frames[n + 1])
      BY <1>1, <2>1, <2>2, CompleteFrame DEF Current
    <3>2. Len(received') + 1 # 1 /\ (Len(received') + 1) - 1 = n + 1
      BY <1>1, <2>5
    <3> QED
      BY <3>1, <3>2 DEF StartAt
  <2> QED
    BY <2>6, <2>7, <2>8, <2>9, <2>10 DEF IInv
<1> QED
  BY <1>2, <1>3

-----------------------------------------------------------------------------
\* The invariant speaks of the variables only.
LEMMA StutterPlace == ASSUME IInv, UNCHANGED vars PROVE IInv'
<1> USE DEF vars, parserVars, history
<1>1. /\ UNCHANGED <<length, from, Position, Current, AwaitsEmptyMask>>
  BY DEF length, from, Position, Current, AwaitsEmptyMask
<1>2. TypeOK' /\ FramesInOrder' /\ ErrorOnlyAtViolation' /\ stream' \in Streams
  BY DEF IInv, TypeOK, FramesInOrder, ErrorOnlyAtViolation
<1>3. ParserShape' /\ CallShape' /\ Waiting'
  BY <1>1 DEF IInv, ParserShape, CallShape, Waiting, EndsInHeader
<1>4. Located'
  BY <1>1 DEF IInv, Located, AtOpCode, AtLength, AtPayload
<1> QED
  BY <1>2, <1>3, <1>4 DEF IInv

\* No step of the reader queue loses the place.
LEMMA NextPlace == IInv /\ [Next]_vars => IInv'
<1> SUFFICES ASSUME IInv, [Next]_vars PROVE IInv'
  OBVIOUS
<1>1. ASSUME NEW n \in 1..Len(stream.bytes), Read(n) PROVE IInv'
  <2>1. n \in Nat \ {0}
    BY EndOfFrames DEF IInv
  <2> QED
    BY <1>1, <2>1, ReadPlace
<1>2. CASE CallParse
  BY <1>2, CallParsePlace
<1>3. CASE FinishBuffer
  BY <1>3, FinishBufferPlace
<1>4. CASE ParseOpCode
  BY <1>4, ParseOpCodePlace
<1>5. CASE RejectOpCode
  BY <1>5, RejectOpCodePlace
<1>6. CASE ParseMaskAndLength
  BY <1>6, ParseMaskAndLengthPlace
<1>7. CASE AwaitMaskAndLength
  BY <1>7, AwaitMaskAndLengthPlace
<1>8. CASE RejectUnmasked
  BY <1>8, RejectUnmaskedPlace
<1>9. CASE ParsePayload
  BY <1>9, ParsePayloadPlace
<1>10. CASE ReturnIncomplete
  BY <1>10, ReturnIncompletePlace
<1>11. CASE ReturnComplete
  BY <1>11, ReturnCompletePlace
<1>12. CASE UNCHANGED vars
  BY <1>12, StutterPlace
<1> QED
  BY <1>1, <1>2, <1>3, <1>4, <1>5, <1>6, <1>7, <1>8, <1>9, <1>10, <1>11, <1>12 DEF Next

\* The parser never loses its place: wherever the reads cut the bytes, its
\* state and its positions are those of the frame the client is in.
THEOREM NeverLosesPlace == Spec => []IInv
BY InitPlace, NextPlace, PTL DEF Spec

\* The variables keep their types, after a parse error too.
THEOREM TypeCorrect == Spec => []TypeOK
BY NeverLosesPlace, PTL DEF IInv

\* Every frame handed on is the client's next frame, unmasked.
THEOREM InOrder == Spec => []FramesInOrder
BY NeverLosesPlace, PTL DEF IInv

\* No legal stream, however it is cut, is answered with a protocol error.
THEOREM NoFalseError == Spec => []ErrorOnlyAtViolation
BY NeverLosesPlace, PTL DEF IInv

-----------------------------------------------------------------------------
(* What a reader sees between two calls of process(_:). *)

\* The ends of the frames grow along a stream.
LEMMA EndsGrow ==
  ASSUME NEW s \in Streams, NEW j \in 1..Len(s.frames), NEW k \in j..Len(s.frames)
  PROVE  FrameEnd(s.frames[j]) <= FrameEnd(s.frames[k])
<1> DEFINE last == Len(s.frames)
           end(i) == FrameEnd(s.frames[i])
           at == s.frames[k].at
<1>1. last \in Nat
  BY EndOfFrames
<1>2. k \in 1..last /\ j \in 1..k
  BY <1>1
<1>3. end(j) \in Nat /\ end(k) \in Nat /\ at \in Nat /\ at + 6 <= end(k)
  BY <1>2, FrameSize, FramePlace
<1>4. CASE j = k
  <2> HIDE DEF end
  <2>1. end(j) <= end(k)
    BY <1>3, <1>4
  <2> QED
    BY <2>1 DEF end
<1>5. CASE j # k
  <2>1. j \in 1..(k - 1)
    BY <1>2, <1>5
  <2>2. end(j) <= at
    BY <1>2, <2>1, StreamsAssumption DEF WellFormed
  <2> HIDE DEF end, at
  <2>3. end(j) <= end(k)
    BY <1>3, <2>2
  <2> QED
    BY <2>3 DEF end
<1> QED
  BY <1>4, <1>5

\* A parser in its place has handed on all that has arrived in full.
LEMMA HeldBackFromPlace == IInv => HeldBackOnlyAtEmptyHeader
<1> SUFFICES ASSUME IInv, ~AwaitsEmptyMask, pc = "idle", closes = 0,
                    NEW k \in 1..Len(stream.frames),
                    FrameEnd(stream.frames[k]) <= arrived, ~(k <= Len(received))
             PROVE  FALSE
  BY DEF HeldBackOnlyAtEmptyHeader, NothingHeldBack
<1> DEFINE n == Len(received)  end(i) == FrameEnd(stream.frames[i])
<1>1. n \in Nat /\ arrived \in Nat /\ Len(stream.frames) \in Nat
  BY EndOfFrames DEF IInv, TypeOK
<1>2. n + 1 \in 1..Len(stream.frames) /\ k \in (n + 1)..Len(stream.frames) /\ n < Len(stream.frames)
  BY <1>1
<1>3. arrived < end(n + 1)
  BY <1>2 DEF IInv, Waiting, Current
<1>4. end(n + 1) <= end(k)
  BY <1>2, EndsGrow DEF IInv
<1>5. end(k) \in Nat /\ end(n + 1) \in Nat
  BY <1>2, FrameSize DEF IInv
<1> HIDE DEF end
<1>6. end(k) <= arrived
  BY DEF end
<1> QED
  BY <1>1, <1>3, <1>4, <1>5, <1>6

\* Only an empty frame cut inside its header can be held back.
THEOREM HeldBackOnlyThere == Spec => []HeldBackOnlyAtEmptyHeader
BY NeverLosesPlace, HeldBackFromPlace, PTL

\* A read leaves the handler its buffer only if it ended inside a header: one
\* that ends anywhere else frees what all the reads before it had left.
THEOREM KeepsOnlyInHeader == Spec => []BufferKeptOnlyInHeader
<1>1. IInv => BufferKeptOnlyInHeader
  <2> SUFFICES ASSUME IInv, pc = "idle", closes = 0, length > 0
               PROVE  /\ Len(received) < Len(stream.frames)
                      /\ bufferStart + byteIndex = Current.at + 1
                      /\ Current.at + 1 < arrived
                      /\ \/ arrived < PayloadAt(Current)
                         \/ AwaitsEmptyMask /\ Current.payload = << >>
    BY DEF BufferKeptOnlyInHeader, Current
  <2>1. EndsInHeader
    BY DEF IInv, Waiting
  <2>2. Len(received) < Len(stream.frames) /\ parserState = "opCodeParsed" /\ byteIndex < length
    BY <2>1 DEF EndsInHeader
  <2>3. AtLength
    BY <2>2 DEF IInv, Located
  <2> DEFINE at == Current.at  size == Len(Current.payload)
  <2>4. at \in Nat /\ Current.at = StartAt(stream, Len(received) + 1)
    BY <2>2, FrameLength
  <2>5. /\ bufferStart \in Nat /\ byteIndex \in Nat /\ arrived \in Nat
        /\ bytesParsed = 0
    BY DEF IInv, TypeOK, CallShape
  <2>6. bufferStart + byteIndex = at + 1
    BY <2>3, <2>4, <2>5 DEF AtLength, Position, from
  <2>7. at + 1 < arrived
    <3> HIDE DEF at
    <3> QED
      BY <2>2, <2>4, <2>5, <2>6 DEF length
  <2>8. ASSUME AwaitsEmptyMask PROVE Current.payload = << >>
    <3>1. size = 0
      BY <2>2, <2>3, <2>8 DEF AtLength, AwaitsEmptyMask
    <3>2. Current.payload \in Seq(Byte)
      BY <2>2, FrameLength
    <3> QED
      BY <3>1, <3>2, EmptySeq
  <2> QED
    BY <2>1, <2>2, <2>6, <2>7, <2>8 DEF EndsInHeader
<1> QED
  BY NeverLosesPlace, <1>1, PTL

-----------------------------------------------------------------------------
(* What received(frame:) may take for granted. *)

\* A frame in progress has an operation code, and so had every frame that was
\* handed on after a parse error.
KnownOpCodes ==
  /\ parserState # "initial" => opCode \in FrameOpcode
  /\ \A i \in 1..Len(strays) : strays[i].opCode \in FrameOpcode

\* The parser starts without a frame.
LEMMA InitKnown == Init => KnownOpCodes
BY DEF Init, KnownOpCodes

\* The operation code is stored when its byte has been looked at, and a frame is
\* not handed on before that.
LEMMA NextKnown == IInv /\ KnownOpCodes /\ [Next]_vars => KnownOpCodes'
<1> SUFFICES ASSUME IInv, KnownOpCodes, [Next]_vars PROVE KnownOpCodes'
  OBVIOUS
<1>1. CASE ParseOpCode
  BY <1>1 DEF ParseOpCode, KnownOpCodes, ValidFirstByte, history
<1>2. CASE ReturnComplete /\ bytesParsed # 0
  <2>1. parserState' = "initial" /\ HandOn([finalFrame |-> finalFrame, opCode |-> opCode,
                                          payload |-> payload])
    BY <1>2 DEF ReturnComplete, Reset
  <2>2. parserState # "initial"
    <3>1. payloadLength = Len(payload) /\ Len(payload) \in Nat
      BY <1>2 DEF ReturnComplete, IInv, TypeOK
    <3> QED
      BY <3>1 DEF IInv, ParserShape
  <2> DEFINE f == [finalFrame |-> finalFrame, opCode |-> opCode, payload |-> payload]
  <2>3. f \in Frame /\ f.opCode \in FrameOpcode /\ strays \in Seq(Frame)
    BY <2>2 DEF KnownOpCodes, Frame, IInv, TypeOK
  <2>4. strays' = strays \/ strays' = Append(strays, f)
    BY <2>1 DEF HandOn
  <2> HIDE DEF f
  <2>5. \A i \in 1..Len(strays') : strays'[i] = f \/ (i \in 1..Len(strays) /\ strays'[i] = strays[i])
    BY <2>3, <2>4
  <2> QED
    BY <2>1, <2>3, <2>5 DEF KnownOpCodes
<1>3. CASE ~ParseOpCode /\ ~(ReturnComplete /\ bytesParsed # 0)
  <2>1. /\ strays' = strays /\ opCode' = opCode
        /\ parserState = "initial" => parserState' = "initial"
    BY <1>3 DEF Next, vars, history, parserVars, Read, CallParse, FinishBuffer, RejectOpCode,
         ParseMaskAndLength, AwaitMaskAndLength, RejectUnmasked, ParsePayload,
         ReturnIncomplete, ReturnComplete, ContinueAfter, FailAfterError, InParseLoop
  <2> QED
    BY <2>1 DEF KnownOpCodes
<1> QED
  BY <1>1, <1>2, <1>3

\* Every frame handed on, after a parse error too, has one of the operation codes
\* received(frame:) has a case for: it never sees the unknown one the parser
\* starts with.
THEOREM HandsOnKnownOpCodes ==
  Spec => [](\A f \in {received[i] : i \in 1..Len(received)}
                        \union {strays[i] : i \in 1..Len(strays)} :
               f.opCode \in FrameOpcode)
<1> DEFINE Known == \A f \in {received[i] : i \in 1..Len(received)}
                               \union {strays[i] : i \in 1..Len(strays)} :
                      f.opCode \in FrameOpcode
<1>1. IInv /\ KnownOpCodes => Known
  <2> SUFFICES ASSUME IInv, KnownOpCodes PROVE Known
    OBVIOUS
  <2>1. ASSUME NEW i \in 1..Len(received) PROVE received[i].opCode \in FrameOpcode
    <3>1. received[i] = FrameOf(stream.frames[i]) /\ i \in 1..Len(stream.frames)
      BY EndOfFrames DEF IInv, TypeOK, FramesInOrder
    <3> QED
      BY <3>1, FramePlace DEF FrameOf, IInv
  <2> QED
    BY <2>1 DEF KnownOpCodes
<1> QED
  BY <1>1, NeverLosesPlace, InitKnown, NextKnown, PTL DEF Spec

\* A frame that was handed on had arrived in full.
LEMMA ReceivedHasArrived ==
  ASSUME IInv, closes = 0, NEW k \in 1..Len(received)
  PROVE  k \in 1..Len(stream.frames) /\ FrameEnd(stream.frames[k]) <= arrived
<1> DEFINE n == Len(received)  end(i) == FrameEnd(stream.frames[i])
<1>1. n \in Nat /\ n <= Len(stream.frames) /\ Len(stream.frames) \in Nat /\ arrived \in Nat
  BY EndOfFrames DEF IInv, TypeOK, FramesInOrder
<1>2. n \in 1..Len(stream.frames) /\ k \in 1..Len(stream.frames) /\ n \in k..Len(stream.frames)
  BY <1>1
<1>3. end(k) \in Nat /\ end(n) \in Nat /\ end(k) <= end(n)
  BY <1>2, FrameSize, EndsGrow DEF IInv
<1>4. StartAt(stream, n + 1) = end(n)
  BY <1>2 DEF StartAt
<1> HIDE DEF end
<1>5. Position <= arrived /\ Position \in Nat
  <2>1. /\ byteIndex \in Nat /\ bytesParsed \in Nat /\ bufferStart \in Nat
        /\ bytesParsed = 0 \/ pc = "parse"
        /\ byteIndex <= length /\ (pc = "parse" => from <= length)
    BY <1>1 DEF IInv, TypeOK, CallShape
  <2> QED
    BY <1>1, <2>1 DEF Position, from, length
<1>6. end(n) <= Position
  <2>1. CASE parserState = "initial"
    BY <1>3, <1>4, <2>1 DEF IInv, Located, AtOpCode
  <2>2. CASE parserState = "opCodeParsed"
    BY <1>3, <1>4, <2>2 DEF IInv, Located, AtLength
  <2>3. CASE parserState = "lengthParsed"
    <3>1. n < Len(stream.frames) /\ Position = PayloadAt(Current) + Len(payload)
      BY <2>3 DEF IInv, Located, AtPayload
    <3> DEFINE a == Current.at  e == Current.ext  l == Len(payload)
    <3>2. /\ a = StartAt(stream, n + 1) /\ e \in {0, 2, 8}
          /\ PayloadAt(Current) = a + 6 + e
      BY <3>1, FrameLength
    <3>3. l \in Nat
      BY DEF IInv, TypeOK
    <3>4. Position = PayloadAt(Current) + l
      BY <3>1
    <3> HIDE DEF a, e, l
    <3> QED
      BY <1>3, <1>4, <3>2, <3>3, <3>4
  <2> QED
    BY <2>1, <2>2, <2>3 DEF IInv, TypeOK
<1>7. end(k) <= arrived
  BY <1>1, <1>3, <1>5, <1>6
<1> QED
  BY <1>2, <1>7 DEF end

-----------------------------------------------------------------------------
(* The frame layer implements Delivery: every step hands on the client's   *)
(* next frame or nothing.                                                  *)

\* A step hands on the client's next frame, or none.
LEMMA StepIsDelivery == IInv /\ IInv' /\ [Next]_vars => [Frames!Deliver]_Frames!vars
<1> SUFFICES ASSUME IInv, IInv', [Next]_vars,
                    ~ UNCHANGED Frames!vars
             PROVE  Frames!Deliver
  OBVIOUS
<1>1. UNCHANGED stream
  BY DEF Next, vars, history, parserVars, Read, CallParse, FinishBuffer, ParseOpCode, RejectOpCode,
         ParseMaskAndLength, AwaitMaskAndLength, RejectUnmasked, ParsePayload,
         ReturnIncomplete, ReturnComplete, ContinueAfter, FailAfterError
<1>2. received' # received
  BY <1>1 DEF Frames!vars, WellFormedFrames
<1>3. ReturnComplete /\ bytesParsed # 0 /\ closes = 0
  BY <1>2 DEF Next, vars, history, parserVars, Read, CallParse, FinishBuffer, ParseOpCode, RejectOpCode,
         ParseMaskAndLength, AwaitMaskAndLength, RejectUnmasked, ParsePayload,
         ReturnIncomplete, ReturnComplete, ContinueAfter, FailAfterError, HandOn
<1>4. parserState = "lengthParsed" /\ payloadLength = Len(payload)
  BY <1>3 DEF ReturnComplete, IInv, TypeOK, ParserShape
<1>5. Len(received) < Len(stream.frames) /\ received' = Append(received, FrameOf(Current))
  BY <1>3, <1>4, CompleteFrame DEF ReturnComplete, HandOn
<1>6. /\ Len(WellFormedFrames(stream)) = Len(stream.frames)
      /\ WellFormedFrames(stream)[Len(received) + 1] = FrameOf(Current)
  <2>1. Len(stream.frames) \in Nat /\ Len(received) + 1 \in 1..Len(stream.frames)
    BY <1>5, FrameLength, EndOfFrames DEF IInv
  <2> QED
    BY <2>1 DEF WellFormedFrames, Current
<1> QED
  BY <1>1, <1>5, <1>6 DEF Frames!Deliver

\* Every run of the parser is a run of Delivery, as far as safety goes.
THEOREM ImplementsDelivery == Spec => Frames!SafeSpec
<1>1. Init => Frames!Init
  BY DEF Init, Frames!Init
<1> QED
  BY NeverLosesPlace, <1>1, StepIsDelivery, PTL DEF Spec, Frames!SafeSpec
=============================================================================
