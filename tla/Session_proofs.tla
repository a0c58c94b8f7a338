--------------------------- MODULE Session_proofs ---------------------------
(***************************************************************************)
(* Proofs about Session for every set of streams.  What is proved of       *)
(* FrameParser and of Messages is used through instances of their proof    *)
(* modules; what is new is that each gives the other what it takes for     *)
(* granted, that the steps of both together are steps of Messages, and     *)
(* that the bytes written are, frame by frame, what the client reads.      *)
(***************************************************************************)
EXTENDS Session, FrameHeader_proofs, FiniteSetTheorems

\* The parser, whose frames framesReceived are; the connection with the frames it
\* is handed, strays included; and the connection of Messages, with the whole
\* stream to come.
PP == INSTANCE FrameParser_proofs WITH received <- framesReceived
LP == INSTANCE Messages_proofs WITH client <- ClientOf(stream, handed),
                                    available <- Len(handed), received <- messagesReceived
MP == INSTANCE Messages_proofs WITH client <- ClientOf(stream, stream.frames),
                                    available <- FramesArrived, received <- messagesReceived

-----------------------------------------------------------------------------
(* What the modules assume, and the sets they share. *)

LEMMA Bytes == /\ Parser!Byte = Byte /\ PP!Byte = Byte
               /\ Layer!Byte = Byte /\ LP!Byte = Byte /\ MP!Byte = Byte
BY DEF Parser!Byte, PP!Byte, Layer!Byte, LP!Byte, MP!Byte, Byte

LEMMA ParserAssumptions ==
  /\ \A s \in Streams : PP!WellFormed(s)
  /\ \A a, b \in PP!Byte : ByteXor(a, b) \in PP!Byte
<1>1. Parser!FrameOnWire = PP!FrameOnWire
  BY DEF Parser!FrameOnWire, PP!FrameOnWire, Parser!FrameOpcode, PP!FrameOpcode, Parser!Byte, PP!Byte
<1>2. \A f : Parser!FrameEnd(f) = PP!FrameEnd(f) /\ Parser!PayloadAt(f) = PP!PayloadAt(f)
  BY DEF Parser!FrameEnd, PP!FrameEnd, Parser!PayloadAt, PP!PayloadAt
<1>3. \A s : Parser!GoodEnd(s) = PP!GoodEnd(s)
  BY <1>2 DEF Parser!GoodEnd, PP!GoodEnd
<1>4. \A b : Parser!ValidFirstByte(b) <=> PP!ValidFirstByte(b)
  BY DEF Parser!ValidFirstByte, PP!ValidFirstByte, Parser!FrameOpcode, PP!FrameOpcode
<1>5. \A s, f : Parser!Encodes(s, f) <=> PP!Encodes(s, f)
  BY <1>2 DEF Parser!Encodes, PP!Encodes, Parser!ntohs, PP!ntohs, Parser!ntohl, PP!ntohl
<1>6. \A s : Parser!WellFormed(s) => PP!WellFormed(s)
  BY <1>1, <1>2, <1>3, <1>4, <1>5, Bytes DEF Parser!WellFormed, PP!WellFormed
<1> QED
  BY <1>6, StreamsAssumption, ByteXorAssumption, Bytes

LEMMA LayerAssumptions ==
  /\ \A c \in Clients : LP!WellFormed(c)
  /\ \A c \in Clients : MP!WellFormed(c)
  /\ ControlLimit \in Nat
  /\ Interrupts \subseteq {"close", "drop", "expire", "reset"}
  /\ MaxInterrupts \in Nat
<1>1. \A c \in Clients : Layer!WellFormed(c)
  BY MeaningAssumption DEF Clients
<1>2. \A c : Layer!WellFormed(c) => LP!WellFormed(c)
  <2>1. Layer!WSFrame = LP!WSFrame /\ Layer!Message = LP!Message /\ Layer!Place = LP!Place
    BY DEF Layer!WSFrame, LP!WSFrame, Layer!FrameOpcode, LP!FrameOpcode, Layer!Byte, LP!Byte,
           Layer!Message, LP!Message, Layer!Place, LP!Place
  <2>2. \A k : Layer!StartOf(k) = LP!StartOf(k)
    BY DEF Layer!StartOf, LP!StartOf
  <2>3. \A f : Layer!IsControl(f) <=> LP!IsControl(f)
    BY DEF Layer!IsControl, LP!IsControl
  <2>4. \A f, m, p, after : Layer!IsFragment(f, m, p, after) <=> LP!IsFragment(f, m, p, after)
    BY ZenonT(60) DEF Layer!IsFragment, LP!IsFragment, Layer!StartOf, LP!StartOf
  <2>5. \A f, ms, p : Layer!IsEnd(f, ms, p) <=> LP!IsEnd(f, ms, p)
    BY ZenonT(60) DEF Layer!IsEnd, LP!IsEnd, Layer!IsControl, LP!IsControl
  <2> QED
    BY <2>1, <2>2, <2>3, <2>4, <2>5, ZenonT(60) DEF Layer!WellFormed, LP!WellFormed
<1>3. \A c : Layer!WellFormed(c) => MP!WellFormed(c)
  <2>1. Layer!WSFrame = MP!WSFrame /\ Layer!Message = MP!Message /\ Layer!Place = MP!Place
    BY DEF Layer!WSFrame, MP!WSFrame, Layer!FrameOpcode, MP!FrameOpcode, Layer!Byte, MP!Byte,
           Layer!Message, MP!Message, Layer!Place, MP!Place
  <2>2. \A k : Layer!StartOf(k) = MP!StartOf(k)
    BY DEF Layer!StartOf, MP!StartOf
  <2>3. \A f : Layer!IsControl(f) <=> MP!IsControl(f)
    BY DEF Layer!IsControl, MP!IsControl
  <2>4. \A f, m, p, after : Layer!IsFragment(f, m, p, after) <=> MP!IsFragment(f, m, p, after)
    BY ZenonT(60) DEF Layer!IsFragment, MP!IsFragment, Layer!StartOf, MP!StartOf
  <2>5. \A f, ms, p : Layer!IsEnd(f, ms, p) <=> MP!IsEnd(f, ms, p)
    BY ZenonT(60) DEF Layer!IsEnd, MP!IsEnd, Layer!IsControl, MP!IsControl
  <2> QED
    BY <2>1, <2>2, <2>3, <2>4, <2>5, ZenonT(60) DEF Layer!WellFormed, MP!WellFormed
<1>4. ControlLimit \in Nat
  BY BoundsAssumption, SMT DEF UInt16Max
<1> QED
  BY <1>1, <1>2, <1>3, <1>4, BoundsAssumption

-----------------------------------------------------------------------------
(* Operation codes and frames. *)

OpCodeName == {"continuation", "text", "binary", "close", "ping", "pong"}

\* A raw value has one name, and a name one raw value.
LEMMA Names ==
  /\ DOMAIN rawValue = OpCodeName
  /\ \A name \in OpCodeName : rawValue[name] \in PP!FrameOpcode /\ NameOf(rawValue[name]) = name
  /\ \A op \in PP!FrameOpcode : NameOf(op) \in OpCodeName /\ rawValue[NameOf(op)] = op
<1>1. /\ DOMAIN rawValue = OpCodeName
      /\ rawValue["continuation"] = 0 /\ rawValue["text"] = 1 /\ rawValue["binary"] = 2
      /\ rawValue["close"] = 8 /\ rawValue["ping"] = 9 /\ rawValue["pong"] = 10
  BY DEF rawValue, OpCodeName
<1>2. \A name \in OpCodeName : rawValue[name] \in PP!FrameOpcode
  BY <1>1 DEF OpCodeName, PP!FrameOpcode
<1>3. \A a, b \in OpCodeName : rawValue[a] = rawValue[b] => a = b
  BY <1>1 DEF OpCodeName
<1>4. \A op \in PP!FrameOpcode : \E name \in OpCodeName : rawValue[name] = op
  BY <1>1 DEF OpCodeName, PP!FrameOpcode
<1>5. ASSUME NEW op \in PP!FrameOpcode
      PROVE  NameOf(op) \in OpCodeName /\ rawValue[NameOf(op)] = op
  BY <1>1, <1>4, Zenon DEF NameOf
<1>6. ASSUME NEW name \in OpCodeName PROVE NameOf(rawValue[name]) = name
  <2> DEFINE op == rawValue[name]
  <2>1. op \in PP!FrameOpcode
    BY <1>2
  <2>2. NameOf(op) \in OpCodeName /\ rawValue[NameOf(op)] = op
    BY <1>5, <2>1
  <2> QED
    BY <1>3, <2>2
<1> QED
  BY <1>1, <1>2, <1>5, <1>6

\* What a stream's frames are to the connection.
LEMMA StreamFrame ==
  ASSUME NEW s \in Streams, NEW k \in 1..Len(s.frames)
  PROVE  /\ s.frames[k].payload \in Seq(Byte)
         /\ s.frames[k].opCode \in PP!FrameOpcode
         /\ s.frames[k].finalFrame \in BOOLEAN
         /\ AsFrame(PP!FrameOf(s.frames[k])) = AsFrame(s.frames[k])
<1>1. /\ s.frames[k].payload \in Seq(PP!Byte) /\ s.frames[k].opCode \in PP!FrameOpcode
      /\ s.frames[k].finalFrame \in BOOLEAN
  BY PP!FramePlace, ParserAssumptions
<1> QED
  BY <1>1, Bytes DEF AsFrame, PP!FrameOf

\* A stream and the client it makes.
LEMMA StreamType ==
  ASSUME NEW s \in Streams
  PROVE  /\ Len(s.frames) \in Nat /\ Len(s.bytes) \in Nat
         /\ s.good \in Nat /\ s.good <= Len(s.frames)
         /\ ClientOf(s, s.frames) \in Clients
<1>1. Len(s.frames) \in Nat /\ Len(s.bytes) \in Nat
  BY PP!EndOfFrames, ParserAssumptions
<1>2. ClientOf(s, s.frames) \in Clients
  BY DEF Clients
<1> DEFINE c == ClientOf(s, s.frames)
<1>3. c.good = s.good /\ c.frames = [k \in 1..Len(s.frames) |-> AsFrame(s.frames[k])]
  BY DEF ClientOf
<1>4. Len(c.frames) = Len(s.frames)
  BY <1>1, <1>3
<1> HIDE DEF c
<1>5. c.good \in Nat /\ c.good <= Len(c.frames)
  BY <1>2, MP!ClientType, LayerAssumptions DEF c
<1> QED
  BY <1>1, <1>2, <1>3, <1>4, <1>5 DEF c

-----------------------------------------------------------------------------
(* Which one of a set of numbers a number is. *)

\* A set that gets a new greatest element: it is the last one, and the others
\* keep their places.
LEMMA NewLast ==
  ASSUME NEW S \in SUBSET Nat, IsFiniteSet(S), NEW m \in Nat, \A i \in S : i < m
  PROVE  /\ IsFiniteSet(S \union {m})
         /\ Cardinality(S) \in Nat /\ Cardinality(S \union {m}) = Cardinality(S) + 1
         /\ Nth(S \union {m}, m) = Cardinality(S) + 1
         /\ \A i \in S : Nth(S \union {m}, i) = Nth(S, i)
<1>1. m \notin S
  OBVIOUS
<1>2. IsFiniteSet(S \union {m}) /\ Cardinality(S) \in Nat
      /\ Cardinality(S \union {m}) = Cardinality(S) + 1
  BY <1>1, FS_AddElement, FS_CardinalityType
<1>3. {j \in S \union {m} : j <= m} = S \union {m}
  <2>1. \A j \in S \union {m} : j <= m
    OBVIOUS
  <2> QED
    BY <2>1, Zenon
<1>4. \A i \in S : {j \in S \union {m} : j <= i} = {j \in S : j <= i}
  OBVIOUS
<1> QED
  BY <1>2, <1>3, <1>4 DEF Nth

\* No element comes later than the last.
LEMMA NthInSet ==
  ASSUME NEW S, IsFiniteSet(S), NEW i
  PROVE  Nth(S, i) \in Nat /\ Nth(S, i) <= Cardinality(S)
<1>1. {j \in S : j <= i} \in SUBSET S
  OBVIOUS
<1>2. IsFiniteSet({j \in S : j <= i}) /\ Cardinality({j \in S : j <= i}) <= Cardinality(S)
  BY <1>1, FS_Subset
<1> QED
  BY <1>2, FS_CardinalityType DEF Nth

\* A set of numbers up to n is finite.
LEMMA FiniteUpTo ==
  ASSUME NEW n \in Nat, NEW S \in SUBSET (1..n)
  PROVE  IsFiniteSet(S) /\ Cardinality(S) \in Nat /\ Cardinality(S) <= n /\ S \in SUBSET Nat
<1>1. IsFiniteSet(1..n) /\ Cardinality(1..n) = n
  BY FS_Interval
<1>2. IsFiniteSet(S) /\ Cardinality(S) <= n
  BY <1>1, FS_Subset
<1>3. Cardinality(S) \in Nat
  BY <1>2, FS_CardinalityType
<1> QED
  BY <1>2, <1>3

-----------------------------------------------------------------------------
(* The bytes of what is sent. *)

Sent == [opCode : {"pong", "close"}, payload : Seq(Byte)]

\* The length field has room for what it holds: all answers are short.
Fits(f) == f \in Sent /\ Len(f.payload) <= UInt16Max

\* The header of a frame that is sent.
HeaderOf(f) == createFrameHeader(TRUE, rawValue[f.opCode], Len(f.payload))

\* One write or two, the bytes of a frame are its header and its payload.
LEMMA FrameBytesAre ==
  ASSUME NEW f, Fits(f)
  PROVE  /\ rawValue[f.opCode] \in SentOpCode /\ Encodable(Len(f.payload))
         /\ HeaderOf(f) \in Seq(Byte) /\ Len(HeaderOf(f)) \in Nat \ {0}
         /\ FrameBytes(f) = HeaderOf(f) \o f.payload
         /\ FrameBytes(f) \in Seq(Byte)
         /\ Len(FrameBytes(f)) = Len(HeaderOf(f)) + Len(f.payload)
         /\ Len(FrameBytes(f)) \in Nat \ {0}
<1> DEFINE op == rawValue[f.opCode]  n == Len(f.payload)  h == createFrameHeader(TRUE, op, n)
<1>1. f.opCode \in {"pong", "close"} /\ f.payload \in Seq(Byte) /\ n \in Nat /\ n <= UInt16Max
  BY DEF Fits, Sent
<1>2. op \in SentOpCode
  BY <1>1 DEF rawValue, SentOpCode
<1>3. Encodable(n)
  BY <1>1, SMT DEF Encodable, UInt32Max, UInt16Max
<1>4. h \in Seq(Byte) /\ Len(h) \in Nat \ {0}
  <2>1. h \in Seq(Byte) /\ Len(h) = (IF n < 126 THEN 2 ELSE IF n <= UInt16Max THEN 4 ELSE 10)
    BY <1>2, <1>3, HeaderIsBytes
  <2> HIDE DEF h, n
  <2> QED
    BY <2>1
<1>5. FrameBytes(f) = h \o f.payload
  <2>1. FrameBytes(f) = IF Len(Writes(h, f.payload)) = 1
                          THEN Writes(h, f.payload)[1]
                          ELSE Writes(h, f.payload)[1] \o Writes(h, f.payload)[2]
    BY Zenon DEF FrameBytes
  <2> DEFINE both == h \o f.payload  w == Writes(h, f.payload)
  <2>2. w = <<both>> \/ w = <<h, f.payload>>
    BY Zenon DEF Writes
  <2> HIDE DEF h, both, w
  <2>3. CASE w = <<both>>
    <3>1. Len(w) = 1 /\ w[1] = both
      BY <2>3
    <3> QED
      BY <2>1, <3>1 DEF both, w
  <2>4. CASE w = <<h, f.payload>>
    <3>1. Len(w) # 1 /\ w[1] = h /\ w[2] = f.payload
      BY <2>4
    <3> QED
      BY <2>1, <3>1 DEF both, w
  <2> QED
    BY <2>2, <2>3, <2>4 DEF both
<1> HIDE DEF op, n, h
<1>6. FrameBytes(f) \in Seq(Byte) /\ Len(FrameBytes(f)) = Len(h) + Len(f.payload)
  BY <1>1, <1>4, <1>5, ConcatProperties
<1>7. h = HeaderOf(f) /\ n = Len(f.payload) /\ op = rawValue[f.opCode]
  BY DEF h, op, n, HeaderOf
<1>8. Len(FrameBytes(f)) \in Nat \ {0}
  BY <1>1, <1>4, <1>6, <1>7
<1> QED
  BY <1>1, <1>2, <1>3, <1>4, <1>5, <1>6, <1>7, <1>8

\* The bytes s have those of frame f at offset p.
HasAt(s, p, f) ==
  \E before, after \in Seq(Byte) :
    s = (before \o FrameBytes(f)) \o after /\ Len(before) = p

\* Writing more moves nothing.
LEMMA StaysThere ==
  ASSUME NEW s, NEW p, NEW f, Fits(f), HasAt(s, p, f), NEW more \in Seq(Byte)
  PROVE  HasAt(s \o more, p, f)
<1>1. PICK before, after \in Seq(Byte) :
        s = (before \o FrameBytes(f)) \o after /\ Len(before) = p
  BY DEF HasAt
<1>2. FrameBytes(f) \in Seq(Byte)
  BY FrameBytesAre
<1>3. (before \o FrameBytes(f)) \in Seq(Byte) /\ (after \o more) \in Seq(Byte)
  BY <1>2, ConcatProperties
<1>4. s \o more = (before \o FrameBytes(f)) \o (after \o more)
  <2> DEFINE start == before \o FrameBytes(f)
  <2>1. start \in Seq(Byte) /\ s = start \o after
    BY <1>1, <1>3
  <2> HIDE DEF start
  <2>2. (start \o after) \o more = start \o (after \o more)
    BY <2>1, ConcatAssociative
  <2> QED
    BY <2>1, <2>2, Zenon DEF start
<1> QED
  BY <1>1, <1>3, <1>4 DEF HasAt

\* What is written last is at the end.
LEMMA WrittenLast ==
  ASSUME NEW s \in Seq(Byte), NEW f, Fits(f)
  PROVE  HasAt(s \o FrameBytes(f), Len(s), f)
<1>1. FrameBytes(f) \in Seq(Byte)
  BY FrameBytesAre
<1>2. (s \o FrameBytes(f)) \in Seq(Byte)
  BY <1>1, ConcatProperties
<1>3. s \o FrameBytes(f) = (s \o FrameBytes(f)) \o << >> /\ << >> \in Seq(Byte)
  BY <1>2, ConcatEmptySeq, EmptySeq
<1> QED
  BY <1>3 DEF HasAt

\* There is something to read where a frame is, and it is that frame.
LEMMA ReadsBack ==
  ASSUME NEW s, NEW p, NEW f, Fits(f), HasAt(s, p, f)
  PROVE  /\ p \in Nat /\ p < Len(s) /\ Len(s) \in Nat
         /\ parseFrame(s, p) = [finalFrame |-> TRUE, opCode |-> rawValue[f.opCode],
                                payload |-> f.payload, next |-> p + Len(FrameBytes(f))]
<1> DEFINE op == rawValue[f.opCode]  pl == f.payload  n == Len(pl)  h == HeaderOf(f)
           b == FrameBytes(f)
<1>1. PICK before, after \in Seq(Byte) :
        s = (before \o FrameBytes(f)) \o after /\ Len(before) = p
  BY DEF HasAt
<1>2. /\ op \in SentOpCode /\ Encodable(n)
      /\ h = createFrameHeader(TRUE, op, n)
      /\ h \in Seq(Byte) /\ b = h \o pl /\ b \in Seq(Byte)
      /\ Len(b) = Len(h) + n /\ Len(b) \in Nat \ {0}
      /\ pl \in Seq(Byte)
  BY FrameBytesAre DEF HeaderOf, Fits, Sent
<1> HIDE DEF op, pl, h, b
<1>3. s = (before \o b) \o after
  BY <1>1 DEF b
<1>a. h \in Seq(Byte) /\ pl \in Seq(Byte) /\ b \in Seq(Byte)
  BY <1>2
<1>b. b = h \o pl /\ h = createFrameHeader(TRUE, op, n) /\ p = Len(before)
  BY <1>1, <1>2
<1>c. Len(b) = Len(h) + n /\ Len(b) \in Nat \ {0}
  BY <1>2
<1>d. op \in SentOpCode /\ Encodable(n)
  BY <1>2
<1>4. (before \o b) \in Seq(Byte) /\ Len(before \o b) = Len(before) + Len(b)
  BY <1>a, ConcatProperties
<1>5. Len(s) = Len(before \o b) + Len(after)
  BY <1>3, <1>4, ConcatProperties
<1>6. Len(before) \in Nat /\ Len(after) \in Nat /\ Len(h) \in Nat /\ n \in Nat
  BY <1>a, LenProperties
<1>7. p \in Nat /\ p < Len(s) /\ Len(s) \in Nat /\ Len(before) + Len(h) + n = p + Len(b)
  <2> DEFINE x == Len(before)  y == Len(after)  z == Len(h)  u == Len(b)  v == Len(s)
  <2>1. p = x /\ x \in Nat /\ y \in Nat /\ z \in Nat /\ n \in Nat /\ u \in Nat \ {0}
    BY <1>b, <1>c, <1>6
  <2>2. u = z + n
    BY <1>c
  <2>3. v = (x + u) + y
    BY <1>4, <1>5, Zenon
  <2> HIDE DEF x, y, z, u, v, n
  <2>4. p \in Nat /\ p < v /\ v \in Nat /\ x + z + n = p + u
    BY <2>1, <2>2, <2>3
  <2> QED
    BY <2>4, Zenon DEF x, z, u, v
<1>8. before \o b = (before \o h) \o pl
  <2>1. (before \o h) \o pl = before \o (h \o pl)
    <3>1. before \in Seq(Byte) /\ h \in Seq(Byte) /\ pl \in Seq(Byte)
      BY <1>a
    <3> HIDE DEF n
    <3> QED
      BY <3>1, ConcatAssociative, SMTT(60)
  <2> QED
    BY <1>b, <2>1, Zenon
<1>9. s = before \o h \o pl \o after
  BY <1>3, <1>8
<1> HIDE DEF n
<1>10. n = Len(pl) /\ TRUE \in BOOLEAN
  BY DEF n
<1>11. parseFrame(before \o createFrameHeader(TRUE, op, n) \o pl \o after, Len(before))
         = [finalFrame |-> TRUE, opCode |-> op, payload |-> pl,
            next |-> Len(before) + Len(createFrameHeader(TRUE, op, n)) + n]
  <2>1. /\ before \in Seq(Byte) /\ after \in Seq(Byte) /\ pl \in Seq(Byte) /\ Len(pl) = n
        /\ TRUE \in BOOLEAN
    BY <1>a, <1>10
  <2> QED
    BY <1>d, <2>1, ClientReadsFrame, ZenonT(60)
<1>12. parseFrame(s, p) = [finalFrame |-> TRUE, opCode |-> op, payload |-> pl,
                          next |-> p + Len(b)]
  BY <1>b, <1>7, <1>9, <1>11, Zenon
<1> QED
  BY <1>7, <1>12, Zenon DEF op, pl, b

-----------------------------------------------------------------------------
(* The instances of Messages have the same actions. *)

\* What a step of the connection is, in the module its types are proved in.
LEMMA LayerIsLP ==
  /\ Layer!ReceivedFrame => LP!ReceivedFrame
  /\ Layer!CloseByOthers => LP!CloseByOthers
  /\ Layer!DropByOthers => LP!DropByOthers
  /\ Layer!TimerExpires => LP!TimerExpires
<1>1. \A x : /\ Layer!Reason(x) = LP!Reason(x) /\ Layer!code(x) = LP!code(x)
             /\ Layer!from(x) = LP!from(x)
  BY DEF Layer!Reason, LP!Reason, Layer!userDefined, LP!userDefined, Layer!code,
         LP!code, Layer!from, LP!from, Layer!CodeOf, LP!CodeOf, Layer!OnWire,
         LP!OnWire
<1>2. \A x : /\ Layer!CodeBytes(x) = LP!CodeBytes(x) /\ Layer!ReasonIn(x) = LP!ReasonIn(x)
             /\ Layer!IsControl(x) <=> LP!IsControl(x)
  BY <1>1 DEF Layer!CodeBytes, LP!CodeBytes, Layer!ReasonIn, LP!ReasonIn,
         Layer!IsControl, LP!IsControl
<1>3. Layer!PrepareToClose <=> LP!PrepareToClose
  BY DEF Layer!PrepareToClose, LP!PrepareToClose
<1>4. \A x, y : Layer!SendMessage(x, y) = LP!SendMessage(x, y)
  BY DEF Layer!SendMessage, LP!SendMessage
<1>5. \A x : Layer!CloseHard(x) = LP!CloseHard(x)
  BY <1>2, <1>3, <1>4 DEF Layer!CloseHard, LP!CloseHard
<1>6. \A x : Layer!ConnectionClosed(x) = LP!ConnectionClosed(x)
  BY <1>3, <1>5 DEF Layer!ConnectionClosed, LP!ConnectionClosed
<1>7. Layer!ProtocolError <=> LP!ProtocolError
  BY <1>1, <1>6 DEF Layer!ProtocolError, LP!ProtocolError
<1>8. Layer!frame = LP!frame /\ \A x : Layer!Received(x) = LP!Received(x)
  BY DEF Layer!Received, LP!Received, Layer!frame, LP!frame
<1>9. \A x, y : Layer!Fire(x, y) <=> LP!Fire(x, y)
  BY DEF Layer!Fire, LP!Fire
<1>10. \A x, y : Layer!FireReceived(x, y) <=> LP!FireReceived(x, y)
  BY <1>1, <1>5, <1>9 DEF Layer!FireReceived, LP!FireReceived,
         Layer!FireReceivedString, LP!FireReceivedString
<1>11. Layer!ReceivedFirst => LP!ReceivedFirst
  BY <1>8, <1>10 DEF Layer!ReceivedFirst, LP!ReceivedFirst
<1>12. Layer!ReceivedFirstTooSoon => LP!ReceivedFirstTooSoon
  BY <1>7, <1>8 DEF Layer!ReceivedFirstTooSoon, LP!ReceivedFirstTooSoon
<1>13. Layer!ReceivedContinuation => LP!ReceivedContinuation
  BY <1>8, <1>10 DEF Layer!ReceivedContinuation, LP!ReceivedContinuation
<1>14. Layer!ReceivedContinuationOfNothing => LP!ReceivedContinuationOfNothing
  BY <1>7, <1>8 DEF Layer!ReceivedContinuationOfNothing,
         LP!ReceivedContinuationOfNothing
<1>15. Layer!ReceivedPing => LP!ReceivedPing
  BY <1>2, <1>4, <1>7, <1>8 DEF Layer!ReceivedPing, LP!ReceivedPing
<1>16. Layer!ReceivedPong => LP!ReceivedPong
  BY <1>8 DEF Layer!ReceivedPong, LP!ReceivedPong
<1>17. Layer!ReceivedClose => LP!ReceivedClose
  BY <1>1, <1>2, <1>5, <1>6, <1>8 DEF Layer!ReceivedClose, LP!ReceivedClose
<1>18. \A x : Layer!Interrupt(x) => LP!Interrupt(x)
  BY DEF Layer!Interrupt, LP!Interrupt
<1>19. /\ Layer!CloseByOthers => LP!CloseByOthers
       /\ Layer!DropByOthers => LP!DropByOthers
       /\ Layer!TimerExpires => LP!TimerExpires
  BY <1>1, <1>2, <1>4, <1>5, <1>6, <1>18 DEF Layer!CloseByOthers, LP!CloseByOthers,
         Layer!DropByOthers, LP!DropByOthers, Layer!TimerExpires, LP!TimerExpires
<1>20. Layer!ReceivedFrame => LP!ReceivedFrame
  BY <1>11, <1>12, <1>13, <1>14, <1>15, <1>16, <1>17 DEF Layer!ReceivedFrame,
         LP!ReceivedFrame
<1> QED
  BY <1>19, <1>20

\* And in the one whose frames are those of the whole stream.
LEMMA WholeIsMP ==
  /\ Whole!ReceivedFrame => MP!ReceivedFrame
  /\ Whole!CloseByOthers => MP!CloseByOthers
  /\ Whole!DropByOthers => MP!DropByOthers
  /\ Whole!TimerExpires => MP!TimerExpires
<1>1. \A x : /\ Whole!Reason(x) = MP!Reason(x) /\ Whole!code(x) = MP!code(x)
             /\ Whole!from(x) = MP!from(x)
  BY DEF Whole!Reason, MP!Reason, Whole!userDefined, MP!userDefined, Whole!code,
         MP!code, Whole!from, MP!from, Whole!CodeOf, MP!CodeOf, Whole!OnWire,
         MP!OnWire
<1>2. \A x : /\ Whole!CodeBytes(x) = MP!CodeBytes(x) /\ Whole!ReasonIn(x) = MP!ReasonIn(x)
             /\ Whole!IsControl(x) <=> MP!IsControl(x)
  BY <1>1 DEF Whole!CodeBytes, MP!CodeBytes, Whole!ReasonIn, MP!ReasonIn,
         Whole!IsControl, MP!IsControl
<1>3. Whole!PrepareToClose <=> MP!PrepareToClose
  BY DEF Whole!PrepareToClose, MP!PrepareToClose
<1>4. \A x, y : Whole!SendMessage(x, y) = MP!SendMessage(x, y)
  BY DEF Whole!SendMessage, MP!SendMessage
<1>5. \A x : Whole!CloseHard(x) = MP!CloseHard(x)
  BY <1>2, <1>3, <1>4 DEF Whole!CloseHard, MP!CloseHard
<1>6. \A x : Whole!ConnectionClosed(x) = MP!ConnectionClosed(x)
  BY <1>3, <1>5 DEF Whole!ConnectionClosed, MP!ConnectionClosed
<1>7. Whole!ProtocolError <=> MP!ProtocolError
  BY <1>1, <1>6 DEF Whole!ProtocolError, MP!ProtocolError
<1>8. Whole!frame = MP!frame /\ \A x : Whole!Received(x) = MP!Received(x)
  BY DEF Whole!Received, MP!Received, Whole!frame, MP!frame
<1>9. \A x, y : Whole!Fire(x, y) <=> MP!Fire(x, y)
  BY DEF Whole!Fire, MP!Fire
<1>10. \A x, y : Whole!FireReceived(x, y) <=> MP!FireReceived(x, y)
  BY <1>1, <1>5, <1>9 DEF Whole!FireReceived, MP!FireReceived,
         Whole!FireReceivedString, MP!FireReceivedString
<1>11. Whole!ReceivedFirst => MP!ReceivedFirst
  BY <1>8, <1>10 DEF Whole!ReceivedFirst, MP!ReceivedFirst
<1>12. Whole!ReceivedFirstTooSoon => MP!ReceivedFirstTooSoon
  BY <1>7, <1>8 DEF Whole!ReceivedFirstTooSoon, MP!ReceivedFirstTooSoon
<1>13. Whole!ReceivedContinuation => MP!ReceivedContinuation
  BY <1>8, <1>10 DEF Whole!ReceivedContinuation, MP!ReceivedContinuation
<1>14. Whole!ReceivedContinuationOfNothing => MP!ReceivedContinuationOfNothing
  BY <1>7, <1>8 DEF Whole!ReceivedContinuationOfNothing,
         MP!ReceivedContinuationOfNothing
<1>15. Whole!ReceivedPing => MP!ReceivedPing
  BY <1>2, <1>4, <1>7, <1>8 DEF Whole!ReceivedPing, MP!ReceivedPing
<1>16. Whole!ReceivedPong => MP!ReceivedPong
  BY <1>8 DEF Whole!ReceivedPong, MP!ReceivedPong
<1>17. Whole!ReceivedClose => MP!ReceivedClose
  BY <1>1, <1>2, <1>5, <1>6, <1>8 DEF Whole!ReceivedClose, MP!ReceivedClose
<1>18. \A x : Whole!Interrupt(x) => MP!Interrupt(x)
  BY DEF Whole!Interrupt, MP!Interrupt
<1>19. /\ Whole!CloseByOthers => MP!CloseByOthers
       /\ Whole!DropByOthers => MP!DropByOthers
       /\ Whole!TimerExpires => MP!TimerExpires
  BY <1>1, <1>2, <1>4, <1>5, <1>6, <1>18 DEF Whole!CloseByOthers, MP!CloseByOthers,
         Whole!DropByOthers, MP!DropByOthers, Whole!TimerExpires, MP!TimerExpires
<1>20. Whole!ReceivedFrame => MP!ReceivedFrame
  BY <1>11, <1>12, <1>13, <1>14, <1>15, <1>16, <1>17 DEF Whole!ReceivedFrame,
         MP!ReceivedFrame
<1> QED
  BY <1>19, <1>20

\* What is available to Messages is a matter of the bytes that have arrived.
LEMMA SameArrived ==
  ASSUME stream' = stream
  PROVE  /\ ClientOf(stream, stream.frames)' = ClientOf(stream, stream.frames)
         /\ arrived' = arrived => FramesArrived' = FramesArrived
<1>1. ClientOf(stream, stream.frames)' = ClientOf(stream, stream.frames)
  BY DEF ClientOf, AsFrame, NameOf
<1>2. ASSUME arrived' = arrived PROVE FramesArrived' = FramesArrived
  BY <1>2 DEF FramesArrived
<1> QED
  BY <1>1, <1>2

\* While what the parser hands on is what the client sent, what the connection
\* does with it is what Messages does with the frames of the whole stream.
LEMMA LayerIsWhole ==
  ASSUME UNCHANGED parserVars
  PROVE  /\ Layer!frame = Whole!frame /\ handled < FramesArrived =>
              (Layer!ReceivedFrame => Whole!ReceivedFrame)
         /\ Layer!CloseByOthers => Whole!CloseByOthers
         /\ Layer!DropByOthers => Whole!DropByOthers
         /\ Layer!TimerExpires => Whole!TimerExpires
<1>0. /\ UNCHANGED ClientOf(stream, stream.frames)
      /\ UNCHANGED FramesArrived
  BY SameArrived DEF parserVars
<1>1. \A x : /\ Layer!Reason(x) = Whole!Reason(x) /\ Layer!code(x) = Whole!code(x)
             /\ Layer!from(x) = Whole!from(x)
  BY DEF Layer!Reason, Whole!Reason, Layer!userDefined, Whole!userDefined, Layer!code,
         Whole!code, Layer!from, Whole!from, Layer!CodeOf, Whole!CodeOf, Layer!OnWire,
         Whole!OnWire
<1>2. \A x : /\ Layer!CodeBytes(x) = Whole!CodeBytes(x) /\ Layer!ReasonIn(x) = Whole!ReasonIn(x)
             /\ Layer!IsControl(x) <=> Whole!IsControl(x)
  BY <1>1 DEF Layer!CodeBytes, Whole!CodeBytes, Layer!ReasonIn, Whole!ReasonIn,
         Layer!IsControl, Whole!IsControl
<1>3. Layer!PrepareToClose <=> Whole!PrepareToClose
  BY DEF Layer!PrepareToClose, Whole!PrepareToClose
<1>4. \A x, y : Layer!SendMessage(x, y) = Whole!SendMessage(x, y)
  BY DEF Layer!SendMessage, Whole!SendMessage
<1>5. \A x : Layer!CloseHard(x) = Whole!CloseHard(x)
  BY <1>2, <1>3, <1>4 DEF Layer!CloseHard, Whole!CloseHard
<1>6. \A x : Layer!ConnectionClosed(x) = Whole!ConnectionClosed(x)
  BY <1>3, <1>5 DEF Layer!ConnectionClosed, Whole!ConnectionClosed
<1>7. Layer!ProtocolError <=> Whole!ProtocolError
  BY <1>1, <1>6 DEF Layer!ProtocolError, Whole!ProtocolError
<1>8. \A x, y : Layer!Fire(x, y) <=> Whole!Fire(x, y)
  BY DEF Layer!Fire, Whole!Fire, ClientOf
<1>9. \A x, y : Layer!FireReceived(x, y) <=> Whole!FireReceived(x, y)
  BY <1>1, <1>5, <1>8 DEF Layer!FireReceived, Whole!FireReceived,
         Layer!FireReceivedString, Whole!FireReceivedString
<1>10. \A x : Layer!Interrupt(x) => Whole!Interrupt(x)
  BY <1>0 DEF Layer!Interrupt, Whole!Interrupt
<1>11. /\ Layer!CloseByOthers => Whole!CloseByOthers
       /\ Layer!DropByOthers => Whole!DropByOthers
       /\ Layer!TimerExpires => Whole!TimerExpires
  BY <1>1, <1>2, <1>4, <1>5, <1>6, <1>10 DEF Layer!CloseByOthers, Whole!CloseByOthers,
         Layer!DropByOthers, Whole!DropByOthers, Layer!TimerExpires,
         Whole!TimerExpires
<1>12. ASSUME Layer!frame = Whole!frame, handled < FramesArrived
       PROVE  Layer!ReceivedFrame => Whole!ReceivedFrame
  <2>1. Layer!frame = Whole!frame /\ \A x : Layer!Received(x) => Whole!Received(x)
    BY <1>0, <1>12 DEF Layer!Received, Whole!Received
  <2>2. Layer!ReceivedFirst => Whole!ReceivedFirst
    BY <2>1, <1>9 DEF Layer!ReceivedFirst, Whole!ReceivedFirst
  <2>3. Layer!ReceivedFirstTooSoon => Whole!ReceivedFirstTooSoon
    BY <1>7, <2>1 DEF Layer!ReceivedFirstTooSoon, Whole!ReceivedFirstTooSoon
  <2>4. Layer!ReceivedContinuation => Whole!ReceivedContinuation
    BY <2>1, <1>9 DEF Layer!ReceivedContinuation, Whole!ReceivedContinuation
  <2>5. Layer!ReceivedContinuationOfNothing => Whole!ReceivedContinuationOfNothing
    BY <1>7, <2>1 DEF Layer!ReceivedContinuationOfNothing,
           Whole!ReceivedContinuationOfNothing
  <2>6. Layer!ReceivedPing => Whole!ReceivedPing
    BY <1>2, <1>4, <1>7, <2>1 DEF Layer!ReceivedPing, Whole!ReceivedPing
  <2>7. Layer!ReceivedPong => Whole!ReceivedPong
    BY <2>1 DEF Layer!ReceivedPong, Whole!ReceivedPong
  <2>8. Layer!ReceivedClose => Whole!ReceivedClose
    BY <1>1, <1>2, <1>5, <1>6, <2>1 DEF Layer!ReceivedClose, Whole!ReceivedClose
  <2>9. Layer!ReceivedFrame => Whole!ReceivedFrame
    BY <2>2, <2>3, <2>4, <2>5, <2>6, <2>7, <2>8 DEF Layer!ReceivedFrame,
           Whole!ReceivedFrame
  <2> QED
    BY <2>9
<1> QED
  BY <1>11, <1>12

-----------------------------------------------------------------------------
(* The parser's steps, in the module that has its proofs. *)

LEMMA ParserIsPP ==
  /\ Parser!Init => PP!Init
  /\ \A n : Parser!Read(n) => PP!Read(n)
  /\ Parser!CallParse => PP!CallParse
  /\ Parser!FinishBuffer => PP!FinishBuffer
  /\ Parser!ParseOpCode => PP!ParseOpCode
  /\ Parser!RejectOpCode => PP!RejectOpCode
  /\ Parser!ParseMaskAndLength => PP!ParseMaskAndLength
  /\ Parser!AwaitMaskAndLength => PP!AwaitMaskAndLength
  /\ Parser!RejectUnmasked => PP!RejectUnmasked
  /\ Parser!ParsePayload => PP!ParsePayload
  /\ Parser!ReturnIncomplete => PP!ReturnIncomplete
  /\ Parser!ReturnComplete => PP!ReturnComplete
<1>1. /\ Parser!length = PP!length /\ Parser!from = PP!from
      /\ Parser!parserVars = PP!parserVars /\ Parser!history = PP!history
  BY DEF Parser!length, PP!length, Parser!from, PP!from, Parser!parserVars, PP!parserVars,
         Parser!history, PP!history
<1>2. \A i : Parser!bytes(i) = PP!bytes(i)
  BY DEF Parser!bytes, PP!bytes
<1>3. Parser!InParseLoop <=> PP!InParseLoop
  BY <1>1 DEF Parser!InParseLoop, PP!InParseLoop
<1>4. \A b : Parser!ValidFirstByte(b) <=> PP!ValidFirstByte(b)
  BY DEF Parser!ValidFirstByte, PP!ValidFirstByte, Parser!FrameOpcode, PP!FrameOpcode
<1>5. Parser!LengthBytes = PP!LengthBytes
  BY <1>1, <1>2 DEF Parser!LengthBytes, PP!LengthBytes
<1>6. Parser!DecodedLength = PP!DecodedLength
  BY <1>1, <1>2, <1>5 DEF Parser!DecodedLength, PP!DecodedLength, Parser!ntohs, PP!ntohs,
         Parser!ntohl, PP!ntohl
<1>7. \A n : Parser!Unmasked(n) = PP!Unmasked(n)
  BY <1>1, <1>2 DEF Parser!Unmasked, PP!Unmasked
<1>8. Parser!BytesToUnmask = PP!BytesToUnmask
  BY <1>1 DEF Parser!BytesToUnmask, PP!BytesToUnmask
<1>9. \A n : Parser!ContinueAfter(n) <=> PP!ContinueAfter(n)
  BY <1>1 DEF Parser!ContinueAfter, PP!ContinueAfter, Parser!history, PP!history
<1>10. Parser!FailAfterError <=> PP!FailAfterError
  BY DEF Parser!FailAfterError, PP!FailAfterError
<1>11. \A f : Parser!HandOn(f) <=> PP!HandOn(f)
  BY DEF Parser!HandOn, PP!HandOn
<1>12. Parser!Reset <=> PP!Reset
  BY DEF Parser!Reset, PP!Reset
<1>13. UNCHANGED Parser!parserVars <=> UNCHANGED PP!parserVars
  BY DEF Parser!parserVars, PP!parserVars
<1>14. UNCHANGED Parser!history <=> UNCHANGED PP!history
  BY DEF Parser!history, PP!history
<1>15. Parser!Init => PP!Init
  BY DEF Parser!Init, PP!Init, Parser!unknown, PP!unknown
<1>16. \A n : Parser!Read(n) => PP!Read(n)
  BY <1>13, <1>14 DEF Parser!Read, PP!Read
<1>17. Parser!CallParse => PP!CallParse
  BY <1>1, <1>13, <1>14 DEF Parser!CallParse, PP!CallParse
<1>18. Parser!FinishBuffer => PP!FinishBuffer
  BY <1>1, <1>13, <1>14 DEF Parser!FinishBuffer, PP!FinishBuffer
<1>19. Parser!ParseOpCode => PP!ParseOpCode
  BY <1>1, <1>2, <1>3, <1>4, <1>14 DEF Parser!ParseOpCode, PP!ParseOpCode
<1>20. Parser!RejectOpCode => PP!RejectOpCode
  BY <1>1, <1>2, <1>3, <1>4, <1>10 DEF Parser!RejectOpCode, PP!RejectOpCode
<1>21. Parser!ParseMaskAndLength => PP!ParseMaskAndLength
  BY <1>1, <1>2, <1>3, <1>5, <1>6, <1>14 DEF Parser!ParseMaskAndLength, PP!ParseMaskAndLength
<1>22. Parser!AwaitMaskAndLength => PP!AwaitMaskAndLength
  BY <1>1, <1>2, <1>3, <1>5, <1>6, <1>9 DEF Parser!AwaitMaskAndLength, PP!AwaitMaskAndLength
<1>23. Parser!RejectUnmasked => PP!RejectUnmasked
  BY <1>1, <1>2, <1>3, <1>10, <1>13 DEF Parser!RejectUnmasked, PP!RejectUnmasked
<1>24. Parser!ParsePayload => PP!ParsePayload
  BY <1>3, <1>7, <1>8, <1>14 DEF Parser!ParsePayload, PP!ParsePayload
<1>25. Parser!ReturnIncomplete => PP!ReturnIncomplete
  BY <1>3, <1>9, <1>13 DEF Parser!ReturnIncomplete, PP!ReturnIncomplete
<1>26. Parser!ReturnComplete => PP!ReturnComplete
  BY <1>3, <1>9, <1>11, <1>12, <1>13 DEF Parser!ReturnComplete, PP!ReturnComplete
<1> QED
  BY <1>15, <1>16, <1>17, <1>18, <1>19, <1>20, <1>21, <1>22, <1>23, <1>24, <1>25, <1>26

\* Every step of the session is one of the parser or leaves it alone.
LEMMA StepParses == [Next]_vars => [PP!Next]_(PP!vars)
<1>1. ASSUME NEW n \in 1..Len(stream.bytes), Read(n) PROVE PP!Next
  BY <1>1, ParserIsPP DEF Read, PP!Next
<1>2. Process => PP!Next
  BY ParserIsPP DEF Process, PP!Next
<1>3. ParseError => PP!Next
  BY ParserIsPP DEF ParseError, PP!Next
<1>4. UNCHANGED parserVars => UNCHANGED PP!vars
  BY DEF parserVars, PP!vars, PP!parserVars, PP!history
<1>5. ReceivedFrame \/ Others \/ SocketClosed \/ ClientReads \/ UNCHANGED vars => UNCHANGED parserVars
  BY DEF ReceivedFrame, Others, SocketClosed, ClientReads, vars
<1> QED
  BY <1>1, <1>2, <1>3, <1>4, <1>5 DEF Next, ReaderQueue

\* The parser's types.
LEMMA ParserTypes == PP!TypeOK => Parser!TypeOK
BY DEF PP!TypeOK, Parser!TypeOK, PP!Frame, Parser!Frame, PP!FrameOpcode, Parser!FrameOpcode,
       PP!Byte, Parser!Byte, PP!unknown, Parser!unknown

\* Where a frame ends.
LEMMA SameEnd == \A f : Parser!FrameEnd(f) = PP!FrameEnd(f)
BY DEF Parser!FrameEnd, PP!FrameEnd, Parser!PayloadAt, PP!PayloadAt

-----------------------------------------------------------------------------
(* How many frames have arrived, and how many of them were handed on. *)

\* No frame waits for the mask of an empty one.
LEMMA NeverEmpty == PP!IInv /\ closes = 0 => ~PP!AwaitsEmptyMask
<1> SUFFICES ASSUME PP!IInv, closes = 0, parserState = "opCodeParsed", payloadLength = 0
             PROVE  FALSE
  BY DEF PP!AwaitsEmptyMask
<1> DEFINE n == Len(framesReceived)
<1>1. stream \in Streams /\ n \in Nat /\ PP!AtLength
  BY DEF PP!IInv, PP!TypeOK, PP!Located
<1>2. n < Len(stream.frames) /\ Len(PP!Current.payload) = 0
  BY <1>1 DEF PP!AtLength
<1>3. n + 1 \in 1..Len(stream.frames)
  BY <1>1, <1>2, StreamType
<1>4. PP!Current.payload \in Seq(Byte) /\ PP!Current.payload # << >>
  BY <1>1, <1>3, StreamFrame, PayloadAssumption DEF PP!Current
<1> QED
  BY <1>2, <1>4

LEMMA EndedBy ==
  ASSUME NEW s, NEW a
  PROVE  {k \in 1..Len(s.frames) : Parser!FrameEnd(s.frames[k]) <= a}
           = {k \in 1..Len(s.frames) : PP!FrameEnd(s.frames[k]) <= a}
<1>1. \A k : Parser!FrameEnd(s.frames[k]) = PP!FrameEnd(s.frames[k])
  BY SameEnd
<1> QED
  BY <1>1

\* What the parser handed on had arrived, and between two reads it has handed on
\* all of it.
LEMMA FramesCounted ==
  ASSUME PP!IInv
  PROVE  /\ FramesArrived \in Nat /\ FramesArrived <= Len(stream.frames)
         /\ closes = 0 => Len(framesReceived) <= FramesArrived
         /\ closes = 0 /\ pc = "idle" => FramesArrived = Len(framesReceived)
         /\ arrived = Len(stream.bytes) => FramesArrived = Len(stream.frames)
<1> DEFINE n == Len(framesReceived)  m == Len(stream.frames)
           S == {k \in 1..m : PP!FrameEnd(stream.frames[k]) <= arrived}
<1>0. FramesArrived = Cardinality(S)
  BY EndedBy, Zenon DEF FramesArrived
<1>1. /\ stream \in Streams /\ n \in Nat /\ m \in Nat
      /\ FramesArrived = Cardinality(S)
  BY <1>0, StreamType DEF PP!IInv, PP!TypeOK
<1>2. S \in SUBSET (1..m)
  OBVIOUS
<1>3. IsFiniteSet(S) /\ Cardinality(S) \in Nat /\ Cardinality(S) <= m
  BY <1>1, <1>2, FiniteUpTo
<1>4. \A i \in Nat : IsFiniteSet(1..i) /\ Cardinality(1..i) = i
  BY FS_Interval
<1>5. closes = 0 => 1..n \in SUBSET S
  BY PP!ReceivedHasArrived, ParserAssumptions
<1>6. closes = 0 => n <= Cardinality(S)
  <2>1. closes = 0 => Cardinality(1..n) <= Cardinality(S)
    BY <1>3, <1>5, FS_Subset
  <2> QED
    BY <1>1, <1>4, <2>1
<1>7. closes = 0 /\ pc = "idle" => S \in SUBSET (1..n)
  <2>1. closes = 0 /\ pc = "idle" => PP!NothingHeldBack
    BY NeverEmpty, PP!HeldBackFromPlace, ParserAssumptions DEF PP!HeldBackOnlyAtEmptyHeader
  <2> QED
    BY <1>1, <2>1 DEF PP!NothingHeldBack
<1>8. closes = 0 /\ pc = "idle" => Cardinality(S) <= n
  BY <1>1, <1>7, FiniteUpTo
<1>9. arrived = Len(stream.bytes) => Cardinality(S) = m
  <2>1. ASSUME arrived = Len(stream.bytes) PROVE S = 1..m
    <3>1. \A k \in 1..m : PP!FrameEnd(stream.frames[k]) <= arrived
      BY <1>1, <2>1, PP!FramePlace, ParserAssumptions
    <3> QED
      BY <3>1
  <2> QED
    BY <1>1, <1>4, <2>1
<1> QED
  BY <1>1, <1>3, <1>6, <1>8, <1>9

\* What has arrived stays.
LEMMA MoreArrives ==
  ASSUME PP!IInv, stream' = stream, arrived' \in Nat, arrived <= arrived'
  PROVE  FramesArrived \in Nat /\ FramesArrived' \in Nat /\ FramesArrived <= FramesArrived'
<1> DEFINE m == Len(stream.frames)
           S(a) == {k \in 1..m : PP!FrameEnd(stream.frames[k]) <= a}
<1>0. FramesArrived = Cardinality(S(arrived)) /\ FramesArrived' = Cardinality(S(arrived'))
  <2>1. FramesArrived = Cardinality(S(arrived))
    BY EndedBy, Zenon DEF FramesArrived
  <2>2. FramesArrived' = Cardinality({k \in 1..Len(stream.frames) :
                                        Parser!FrameEnd(stream.frames[k]) <= arrived'})
    BY DEF FramesArrived
  <2> QED
    BY <2>1, <2>2, EndedBy, Zenon
<1>1. /\ stream \in Streams /\ m \in Nat /\ arrived \in Nat
      /\ FramesArrived = Cardinality(S(arrived)) /\ FramesArrived' = Cardinality(S(arrived'))
  BY <1>0, StreamType DEF PP!IInv, PP!TypeOK
<1>2. S(arrived) \in SUBSET (1..m) /\ S(arrived') \in SUBSET (1..m)
  OBVIOUS
<1>3. /\ IsFiniteSet(S(arrived')) /\ Cardinality(S(arrived')) \in Nat
      /\ Cardinality(S(arrived)) \in Nat
  BY <1>1, <1>2, FiniteUpTo
<1>4. S(arrived) \in SUBSET S(arrived')
  <2>1. \A k \in 1..m : PP!FrameEnd(stream.frames[k]) \in Nat
    BY <1>1, PP!FrameSize, ParserAssumptions
  <2> QED
    BY <1>1, <2>1
<1>5. Cardinality(S(arrived)) <= Cardinality(S(arrived'))
  BY <1>3, <1>4, FS_Subset
<1> QED
  BY <1>1, <1>3, <1>5

-----------------------------------------------------------------------------
(* The rest of Messages: reads, and the handler that closes the socket. *)

LEMMA LayerTypes == LP!TypeOK => Layer!TypeOK
<1>1. LP!WebSocketCloseReasonCode = Layer!WebSocketCloseReasonCode
  BY DEF LP!WebSocketCloseReasonCode, Layer!WebSocketCloseReasonCode, LP!Reason, Layer!Reason,
         LP!userDefined, Layer!userDefined, LP!CodeOf, Layer!CodeOf, LP!UInt16, Layer!UInt16
<1>2. LP!Block = Layer!Block /\ LP!Message = Layer!Message
  BY <1>1, Bytes DEF LP!Block, Layer!Block, LP!Message, Layer!Message
<1> QED
  BY <1>2, Bytes DEF LP!TypeOK, Layer!TypeOK

\* The frames handed on are all there are for the connection that has these.
LEMMA SocketIsLP == SocketClosed => LP!HandlerCloses \/ LP!ConnectionReset
<1> SUFFICES ASSUME SocketClosed PROVE LP!HandlerCloses \/ LP!ConnectionReset
  OBVIOUS
<1>1. Layer!Reason("noReasonCodeSent") = LP!Reason("noReasonCodeSent")
  BY DEF Layer!Reason, LP!Reason
<1>2. Layer!SocketClosed => LP!SocketClosed
  BY <1>1 DEF Layer!SocketClosed, LP!SocketClosed
<1>3. Layer!ConnectionReset => LP!ConnectionReset
  BY <1>2 DEF Layer!ConnectionReset, LP!ConnectionReset, Layer!Interrupt, LP!Interrupt
<1>4. UNCHANGED <<stream, handed>>
  BY DEF SocketClosed, parserVars, handed
<1>5. UNCHANGED <<ClientOf(stream, handed), Len(handed)>>
  BY <1>4 DEF ClientOf, AsFrame, NameOf
<1>6. Len(handed) = Len(ClientOf(stream, handed).frames)
  BY DEF ClientOf
<1> QED
  BY <1>2, <1>3, <1>5, <1>6 DEF SocketClosed, LP!HandlerCloses

\* And so they are for Messages when there are no more to come.
LEMMA SocketIsWhole ==
  ASSUME SocketClosed, FramesArrived = Len(handed), stream \in Streams,
         arrived = Len(stream.bytes) => FramesArrived = Len(stream.frames)
  PROVE  Whole!HandlerCloses \/ Whole!ConnectionReset
<1>1. Layer!Reason("noReasonCodeSent") = Whole!Reason("noReasonCodeSent")
  BY DEF Layer!Reason, Whole!Reason
<1>2. Layer!SocketClosed => Whole!SocketClosed
  BY <1>1 DEF Layer!SocketClosed, Whole!SocketClosed
<1>3. UNCHANGED <<ClientOf(stream, stream.frames), FramesArrived>>
  BY SameArrived DEF SocketClosed, parserVars
<1>4. Layer!ConnectionReset => Whole!ConnectionReset
  BY <1>2, <1>3 DEF Layer!ConnectionReset, Whole!ConnectionReset, Layer!Interrupt, Whole!Interrupt
<1>5. Len(stream.frames) = Len(ClientOf(stream, stream.frames).frames)
  BY StreamType DEF ClientOf
<1> QED
  BY <1>2, <1>3, <1>4, <1>5 DEF SocketClosed, Whole!HandlerCloses

\* All of Messages' steps are those of the module with its proofs.
LEMMA WholeNextIsMP == (Whole!Next => MP!Next) /\ (UNCHANGED Whole!vars <=> UNCHANGED MP!vars)
<1>1. UNCHANGED Whole!vars <=> UNCHANGED MP!vars
  BY DEF Whole!vars, MP!vars
<1>2. \A n : Whole!Read(n) => MP!Read(n)
  BY DEF Whole!Read, MP!Read
<1>3. Whole!Reason("noReasonCodeSent") = MP!Reason("noReasonCodeSent")
  BY DEF Whole!Reason, MP!Reason
<1>4. Whole!SocketClosed => MP!SocketClosed
  BY <1>3 DEF Whole!SocketClosed, MP!SocketClosed
<1>5. Whole!HandlerCloses => MP!HandlerCloses
  BY <1>4 DEF Whole!HandlerCloses, MP!HandlerCloses
<1>6. Whole!ConnectionReset => MP!ConnectionReset
  BY <1>4 DEF Whole!ConnectionReset, MP!ConnectionReset, Whole!Interrupt, MP!Interrupt
<1> QED
  BY <1>1, <1>2, <1>5, <1>6, WholeIsMP DEF Whole!Next, MP!Next

-----------------------------------------------------------------------------
(* The way back: what is written is, frame by frame, what was sent, and what *)
(* the client has read is the beginning of it.                              *)

\* Where in what is written the frames that were sent are.
Framed(at) ==
  /\ at \in [1..(Len(wire) + 1) -> Nat]
  /\ at[1] = 0 /\ at[Len(wire) + 1] = Len(written)
  /\ \A i \in 1..Len(wire) : /\ HasAt(written, at[i], wire[i])
                             /\ at[i + 1] = at[i] + Len(FrameBytes(wire[i]))

FrameRead(f) == [finalFrame |-> TRUE, opCode |-> rawValue[f.opCode], payload |-> f.payload]

OnTheWire ==
  /\ wire \in Seq(Sent) /\ \A i \in 1..Len(wire) : Fits(wire[i])
  /\ written \in Seq(Byte)
  /\ framesRead \in Seq(ReadFrame) /\ Len(framesRead) <= Len(wire)
  /\ \A i \in 1..Len(framesRead) : framesRead[i] = FrameRead(wire[i])
  /\ \E at : Framed(at) /\ readUpTo = at[Len(framesRead) + 1]

LEMMA InitOnTheWire ==
  ASSUME wire = << >>, written = << >>, readUpTo = 0, framesRead = << >>
  PROVE  OnTheWire
<1> DEFINE at == [i \in 1..1 |-> 0]
<1>1. Len(<< >>) = 0 /\ \A S : << >> \in Seq(S)
  BY EmptySeq
<1>2. at \in [1..1 -> Nat] /\ at[1] = 0
  OBVIOUS
<1> HIDE DEF at
<1>3. Framed(at) /\ readUpTo = at[Len(framesRead) + 1]
  BY <1>1, <1>2 DEF Framed
<1> QED
  BY <1>1, <1>3 DEF OnTheWire

\* Nothing is sent.
LEMMA SilentOnTheWire ==
  ASSUME OnTheWire, UNCHANGED <<wire, written, clientVars>>
  PROVE  OnTheWire'
BY DEF OnTheWire, Framed, clientVars

\* A frame is sent: it is written behind the others, where those stay.
LEMMA WriteOnTheWire ==
  ASSUME OnTheWire, NEW f, Fits(f), wire' = Append(wire, f), Write, UNCHANGED clientVars
  PROVE  OnTheWire'
<1> DEFINE n == Len(wire)  b == FrameBytes(f)
<1>1. /\ n \in Nat /\ wire \in Seq(Sent) /\ f \in Sent /\ written \in Seq(Byte)
      /\ Len(written) \in Nat
  BY DEF OnTheWire, Fits
<1>2. /\ wire' \in Seq(Sent) /\ Len(wire') = n + 1 /\ wire'[n + 1] = f
      /\ \A i \in 1..n : wire'[i] = wire[i]
  BY <1>1, AppendProperties
<1>3. wire' # wire /\ wire'[Len(wire')] = f
  BY <1>1, <1>2
<1>4. written' = written \o b
  BY <1>3 DEF Write
<1>5. b \in Seq(Byte) /\ Len(b) \in Nat
  BY FrameBytesAre
<1>6. written' \in Seq(Byte) /\ Len(written') = Len(written) + Len(b)
  BY <1>1, <1>4, <1>5, ConcatProperties
<1>7. PICK at : Framed(at) /\ readUpTo = at[Len(framesRead) + 1]
  BY DEF OnTheWire
<1>8. PICK new : /\ new \in [1..(n + 2) -> Nat] /\ new[n + 2] = Len(written')
                 /\ \A i \in 1..(n + 1) : new[i] = at[i]
  <2> DEFINE new == [i \in 1..(n + 2) |-> IF i <= n + 1 THEN at[i] ELSE Len(written')]
  <2>1. /\ new \in [1..(n + 2) -> Nat] /\ new[n + 2] = Len(written')
        /\ \A i \in 1..(n + 1) : new[i] = at[i]
    BY <1>1, <1>5, <1>6, <1>7 DEF Framed
  <2> QED
    BY <2>1
<1> HIDE DEF b
<1>9. ASSUME NEW i \in 1..(n + 1)
      PROVE  HasAt(written', new[i], wire'[i]) /\ new[i + 1] = new[i] + Len(FrameBytes(wire'[i]))
  <2>1. CASE i \in 1..n
    <3>1. /\ HasAt(written, at[i], wire[i]) /\ at[i + 1] = at[i] + Len(FrameBytes(wire[i]))
          /\ Fits(wire[i])
      BY <1>7, <2>1 DEF Framed, OnTheWire
    <3>2. HasAt(written \o b, at[i], wire[i])
      BY <1>5, <3>1, StaysThere
    <3>3. new[i] = at[i] /\ new[i + 1] = at[i + 1] /\ wire'[i] = wire[i]
      BY <1>1, <1>2, <1>8, <2>1
    <3> HIDE DEF n
    <3> QED
      BY <1>4, <3>1, <3>2, <3>3, Zenon
  <2>2. CASE i = n + 1
    <3>1. new[i] = Len(written) /\ wire'[i] = f /\ new[i + 1] = Len(written')
      BY <1>1, <1>2, <1>7, <1>8, <2>2 DEF Framed
    <3>2. HasAt(written \o b, Len(written), f)
      BY <1>1, WrittenLast DEF b
    <3> HIDE DEF n
    <3> QED
      BY <1>4, <1>6, <3>1, <3>2, Zenon DEF b
  <2> QED
    BY <1>1, <2>1, <2>2
<1> HIDE DEF n
<1>10. Framed(new)'
  <2>1. n = Len(wire)
    BY DEF n
  <2>2. 1 \in 1..(n + 1) /\ Len(wire') + 1 = n + 2 /\ at[1] = 0
    BY <1>1, <1>2, <1>7 DEF Framed
  <2>3. new \in [1..(Len(wire') + 1) -> Nat]
    BY <1>8, <2>2
  <2>4. new[1] = 0 /\ new[Len(wire') + 1] = Len(written')
    BY <1>8, <2>2
  <2> QED
    BY <1>2, <1>9, <2>3, <2>4 DEF Framed
<1>11. /\ Len(framesRead) \in Nat /\ Len(framesRead) <= n
       /\ readUpTo' = readUpTo /\ framesRead' = framesRead
  BY DEF OnTheWire, clientVars, n
<1>12. readUpTo' = new[Len(framesRead') + 1]
  <2>1. Len(framesRead) + 1 \in 1..(n + 1)
    BY <1>1, <1>11
  <2> QED
    BY <1>7, <1>8, <1>11, <2>1
<1>13. Fits(wire'[n + 1]) /\ \A i \in 1..n : Fits(wire'[i])
  BY <1>2 DEF OnTheWire, n
<1>14. \A i \in 1..Len(wire') : Fits(wire'[i])
  BY <1>1, <1>2, <1>13
<1>15. \A i \in 1..Len(framesRead') : framesRead'[i] = FrameRead(wire'[i])
  <2>1. \A i \in 1..Len(framesRead) : i \in 1..n
    BY <1>1, <1>11
  <2> QED
    BY <1>2, <1>11, <2>1 DEF OnTheWire
<1>16. framesRead' \in Seq(ReadFrame) /\ Len(framesRead') <= Len(wire')
  BY <1>1, <1>2, <1>11 DEF OnTheWire
<1> QED
  BY <1>2, <1>6, <1>10, <1>12, <1>14, <1>15, <1>16 DEF OnTheWire

\* A client that has not read all that is written has not read all that was sent.
LEMMA MoreToRead ==
  ASSUME OnTheWire
  PROVE  /\ readUpTo \in 0..Len(written)
         /\ readUpTo = Len(written) => Len(framesRead) = Len(wire)
         /\ readUpTo < Len(written) =>
              /\ Len(framesRead) + 1 \in 1..Len(wire)
              /\ HasAt(written, readUpTo, wire[Len(framesRead) + 1])
<1> DEFINE r == Len(framesRead)  n == Len(wire)
<1>1. r \in Nat /\ n \in Nat /\ r <= n /\ Len(written) \in Nat
  BY DEF OnTheWire
<1>2. PICK at : Framed(at) /\ readUpTo = at[r + 1]
  BY DEF OnTheWire
<1>3. CASE r = n
  BY <1>1, <1>2, <1>3 DEF Framed
<1>4. CASE r # n
  <2>1. r + 1 \in 1..n
    BY <1>1, <1>4
  <2>2. HasAt(written, readUpTo, wire[r + 1]) /\ Fits(wire[r + 1])
    BY <1>2, <2>1 DEF Framed, OnTheWire
  <2>3. readUpTo \in Nat /\ readUpTo < Len(written)
    BY <2>2, ReadsBack
  <2> QED
    BY <1>1, <2>1, <2>2, <2>3
<1> QED
  BY <1>3, <1>4

\* The client reads: what it gets is the next frame that was sent.
LEMMA ClientReadsOnTheWire ==
  ASSUME OnTheWire, ClientReads
  PROVE  OnTheWire'
<1> DEFINE r == Len(framesRead)  f == wire[r + 1]  p == parseFrame(written, readUpTo)
           g == [finalFrame |-> p.finalFrame, opCode |-> p.opCode, payload |-> p.payload]
<1>1. /\ readUpTo < Len(written)
      /\ framesRead' = Append(framesRead, g) /\ readUpTo' = p.next
      /\ UNCHANGED <<wire, written>>
  BY DEF ClientReads, layerVars
<1>2. r + 1 \in 1..Len(wire) /\ HasAt(written, readUpTo, f) /\ Fits(f)
  BY <1>1, MoreToRead DEF OnTheWire
<1>3. p = [finalFrame |-> TRUE, opCode |-> rawValue[f.opCode], payload |-> f.payload,
           next |-> readUpTo + Len(FrameBytes(f))]
  BY <1>2, ReadsBack
<1> HIDE DEF p
<1>4. g = FrameRead(f) /\ p.next = readUpTo + Len(FrameBytes(f))
  BY <1>3 DEF FrameRead
<1>5. g \in ReadFrame
  <2>1. rawValue[f.opCode] \in 0..127 /\ f.payload \in Seq(Byte)
    <3>1. f.opCode \in {"pong", "close"} /\ f.payload \in Seq(Byte)
      BY <1>2 DEF Fits, Sent
    <3>2. rawValue["pong"] \in 0..127 /\ rawValue["close"] \in 0..127
      BY DEF rawValue
    <3> HIDE DEF f
    <3> QED
      BY <3>1, <3>2
  <2> QED
    BY <1>4, <2>1, Bytes DEF FrameRead, ReadFrame
<1> HIDE DEF g
<1>6. r \in Nat /\ framesRead \in Seq(ReadFrame)
  BY DEF OnTheWire
<1>7. /\ framesRead' \in Seq(ReadFrame) /\ Len(framesRead') = r + 1
      /\ framesRead'[r + 1] = g /\ \A i \in 1..r : framesRead'[i] = framesRead[i]
  BY <1>1, <1>5, <1>6, AppendProperties
<1>8. \A i \in 1..Len(framesRead') : framesRead'[i] = FrameRead(wire'[i])
  <2>1. \A i \in 1..r : framesRead[i] = FrameRead(wire[i])
    BY DEF OnTheWire
  <2> QED
    BY <1>1, <1>4, <1>6, <1>7, <2>1
<1>9. PICK at : Framed(at) /\ readUpTo = at[r + 1]
  BY DEF OnTheWire
<1>10. at[r + 2] = readUpTo + Len(FrameBytes(f))
  BY <1>2, <1>6, <1>9 DEF Framed
<1>11. Framed(at)' /\ readUpTo' = at[Len(framesRead') + 1]
  <2>1. Framed(at)'
    BY <1>1, <1>9 DEF Framed
  <2>2. readUpTo' = at[r + 2] /\ r + 2 = (r + 1) + 1
    BY <1>1, <1>4, <1>6, <1>10
  <2> QED
    BY <1>7, <2>1, <2>2
<1>12. Len(framesRead') <= Len(wire')
  BY <1>1, <1>2, <1>7
<1> QED
  BY <1>1, <1>7, <1>8, <1>11, <1>12 DEF OnTheWire

-----------------------------------------------------------------------------
(* Pings and pongs: the n-th pong that was sent answers the n-th ping. *)

WirePongs == {i \in 1..Len(wire) : wire[i].opCode = "pong"}

Answers ==
  /\ \A k \in Pings, i \in WirePongs :
       Nth(Pings, k) = Nth(WirePongs, i) => wire[i].payload = stream.frames[k].payload
  /\ Cardinality(Pings) <= Cardinality(WirePongs)
  /\ handled <= stream.good /\ closes = 0 =>
       /\ Cardinality(WirePongs) <= Cardinality(Pings)
       /\ interrupts = 0 => Len(wire) = Cardinality(WirePongs)

\* There are only so many of either.
LEMMA PingsAndPongs ==
  ASSUME handled \in Nat, wire \in Seq(Sent)
  PROVE  /\ IsFiniteSet(Pings) /\ Cardinality(Pings) \in Nat /\ Pings \in SUBSET Nat
         /\ IsFiniteSet(WirePongs) /\ Cardinality(WirePongs) \in Nat /\ WirePongs \in SUBSET Nat
         /\ \A k \in Pings : k <= handled
         /\ \A i \in WirePongs : i <= Len(wire)
<1>1. Pings \in SUBSET (1..handled)
  BY DEF Pings
<1>2. WirePongs \in SUBSET (1..Len(wire)) /\ Len(wire) \in Nat
  BY DEF WirePongs
<1>3. IsFiniteSet(Pings) /\ Cardinality(Pings) \in Nat /\ Pings \in SUBSET Nat
  BY <1>1, FiniteUpTo
<1>4. IsFiniteSet(WirePongs) /\ Cardinality(WirePongs) \in Nat /\ WirePongs \in SUBSET Nat
  BY <1>2, FiniteUpTo
<1>5. \A k \in Pings : k <= handled
  BY <1>1
<1>6. \A i \in WirePongs : i <= Len(wire)
  BY <1>2
<1> QED
  BY <1>3, <1>4, <1>5, <1>6

\* No ping is handled.
LEMMA SamePings ==
  ASSUME stream \in Streams, handled \in Nat, stream' = stream,
         \/ handled' = handled
         \/ /\ handled' = handled + 1
            /\ handled < stream.good => stream.frames[handled + 1].opCode # rawValue["ping"]
  PROVE  Pings' = Pings
<1>1. CASE handled' = handled
  BY <1>1 DEF Pings
<1>2. CASE handled' = handled + 1 /\ stream.good <= handled
  <2>1. stream.good \in Nat
    BY StreamType
  <2> QED
    BY <1>2, <2>1 DEF Pings
<1>3. CASE /\ handled' = handled + 1
           /\ stream.frames[handled + 1].opCode # rawValue["ping"]
  <2>1. Pings' = {k \in 1..(handled + 1) :
                    k <= stream.good /\ stream.frames[k].opCode = rawValue["ping"]}
    BY <1>3 DEF Pings
  <2>2. \A k \in Pings' : k # handled + 1
    BY <1>3, <2>1
  <2> QED
    BY <2>1, <2>2 DEF Pings
<1>4. stream.good \in Nat
  BY StreamType
<1> QED
  BY <1>1, <1>2, <1>3, <1>4

\* What is sent last is the last pong or none.
LEMMA NewPong ==
  ASSUME wire \in Seq(Sent), NEW f \in Sent, wire' = Append(wire, f)
  PROVE  /\ Len(wire') = Len(wire) + 1 /\ wire'[Len(wire) + 1] = f
         /\ \A i \in 1..Len(wire) : wire'[i] = wire[i]
         /\ WirePongs' = IF f.opCode = "pong" THEN WirePongs \union {Len(wire) + 1} ELSE WirePongs
<1> DEFINE n == Len(wire)
<1>1. /\ n \in Nat /\ Len(wire') = n + 1 /\ wire'[n + 1] = f
      /\ \A i \in 1..n : wire'[i] = wire[i]
  BY AppendProperties
<1>2. WirePongs' = {i \in 1..(n + 1) : wire'[i].opCode = "pong"}
  BY <1>1 DEF WirePongs
<1>3. \A i : i \in 1..(n + 1) <=> i \in 1..n \/ i = n + 1
  BY <1>1
<1>4. CASE f.opCode = "pong"
  <2>1. \A i : i \in WirePongs' <=> i \in WirePongs \/ i = n + 1
    <3> HIDE DEF n
    <3>1. WirePongs = {i \in 1..n : wire[i].opCode = "pong"}
      BY DEF WirePongs, n
    <3> QED
      BY <1>1, <1>2, <1>3, <1>4, <3>1
  <2> QED
    BY <1>1, <1>4, <2>1
<1>5. CASE f.opCode # "pong"
  <2>1. \A i : i \in WirePongs' <=> i \in WirePongs
    <3> HIDE DEF n
    <3>1. WirePongs = {i \in 1..n : wire[i].opCode = "pong"}
      BY DEF WirePongs, n
    <3> QED
      BY <1>1, <1>2, <1>3, <1>5, <3>1
  <2> QED
    BY <1>1, <1>5, <2>1
<1> QED
  BY <1>1, <1>4, <1>5

\* A step that sends nothing, or a close frame, and handles no ping.
LEMMA NoAnswer ==
  ASSUME Answers, wire \in Seq(Sent), stream' = stream, Pings' = Pings,
         handled' <= stream.good /\ closes' = 0 => handled <= stream.good /\ closes = 0,
         NEW f \in Sent, f.opCode = "close",
         \/ wire' = wire /\ (interrupts' = 0 => interrupts = 0)
         \/ /\ wire' = Append(wire, f)
            /\ handled' <= stream.good /\ closes' = 0 => interrupts' # 0
  PROVE  Answers'
<1>1. WirePongs' = WirePongs /\ \A i \in WirePongs : wire'[i] = wire[i]
  <2>1. CASE wire' = wire
    BY <2>1 DEF WirePongs
  <2>2. CASE wire' = Append(wire, f)
    BY <2>2, NewPong DEF WirePongs
  <2> QED
    BY <2>1, <2>2
<1>2. \A k \in Pings', i \in WirePongs' :
        Nth(Pings', k) = Nth(WirePongs', i) => wire'[i].payload = stream'.frames[k].payload
  <2> SUFFICES ASSUME NEW k \in Pings, NEW i \in WirePongs, Nth(Pings, k) = Nth(WirePongs, i)
               PROVE  wire'[i].payload = stream.frames[k].payload
    BY <1>1, Zenon
  <2> QED
    BY <1>1 DEF Answers
<1>3. Cardinality(Pings') <= Cardinality(WirePongs')
  BY <1>1, Zenon DEF Answers
<1>4. ASSUME handled' <= stream.good, closes' = 0
      PROVE  /\ Cardinality(WirePongs') <= Cardinality(Pings')
             /\ interrupts' = 0 => Len(wire') = Cardinality(WirePongs')
  <2>1. handled <= stream.good /\ closes = 0
    BY <1>4
  <2>2. Cardinality(WirePongs') <= Cardinality(Pings')
    BY <1>1, <2>1, Zenon DEF Answers
  <2>3. ASSUME interrupts' = 0 PROVE Len(wire') = Cardinality(WirePongs')
    <3>1. wire' = wire /\ interrupts = 0
      BY <1>4, <2>3
    <3> QED
      BY <1>1, <2>1, <3>1, Zenon DEF Answers
  <2> QED
    BY <2>2, <2>3
<1> QED
  BY <1>2, <1>3, <1>4, Zenon DEF Answers

\* A ping behind the good frames is answered as well: with a pong that is no
\* good frame's.
LEMMA LateAnswer ==
  ASSUME Answers, handled \in Nat, wire \in Seq(Sent), stream' = stream, Pings' = Pings,
         ~(handled' <= stream.good /\ closes' = 0),
         NEW f \in Sent, f.opCode = "pong", wire' = Append(wire, f)
  PROVE  Answers'
<1> DEFINE m == Len(wire) + 1
<1>1. /\ IsFiniteSet(Pings) /\ Cardinality(Pings) \in Nat
      /\ IsFiniteSet(WirePongs) /\ Cardinality(WirePongs) \in Nat /\ WirePongs \in SUBSET Nat
      /\ m \in Nat /\ \A i \in WirePongs : i < m
  BY PingsAndPongs
<1>2. /\ WirePongs' = WirePongs \union {m} /\ \A i \in WirePongs : wire'[i] = wire[i]
      /\ \A k \in Pings : k \in Pings'
  BY NewPong DEF WirePongs
<1> HIDE DEF m
<1>3. /\ Cardinality(WirePongs \union {m}) = Cardinality(WirePongs) + 1
      /\ Nth(WirePongs \union {m}, m) = Cardinality(WirePongs) + 1
      /\ \A i \in WirePongs : Nth(WirePongs \union {m}, i) = Nth(WirePongs, i)
  BY <1>1, NewLast
<1>4. Cardinality(Pings) <= Cardinality(WirePongs)
  BY DEF Answers
<1>5. \A k \in Pings : Nth(Pings, k) # Nth(WirePongs \union {m}, m)
  <2>1. \A k : Nth(Pings, k) \in Nat /\ Nth(Pings, k) <= Cardinality(Pings)
    BY <1>1, NthInSet
  <2> QED
    BY <1>1, <1>3, <1>4, <2>1
<1>6. \A k \in Pings', i \in WirePongs' :
        Nth(Pings', k) = Nth(WirePongs', i) => wire'[i].payload = stream'.frames[k].payload
  <2> SUFFICES ASSUME NEW k \in Pings, NEW i \in WirePongs \union {m},
                      Nth(Pings, k) = Nth(WirePongs \union {m}, i)
               PROVE  wire'[i].payload = stream.frames[k].payload
    BY <1>2, Zenon
  <2>1. i \in WirePongs
    BY <1>5
  <2> QED
    BY <1>2, <1>3, <2>1 DEF Answers
<1>7. Cardinality(Pings') <= Cardinality(WirePongs')
  <2>1. Cardinality(Pings) <= Cardinality(WirePongs \union {m})
    BY <1>1, <1>3, <1>4
  <2> QED
    BY <1>2, <2>1, Zenon
<1> QED
  BY <1>6, <1>7, Zenon DEF Answers

\* A good ping is answered: the next ping by the next pong.
LEMMA PingAnswered ==
  ASSUME Answers, stream \in Streams, handled \in Nat, wire \in Seq(Sent), stream' = stream,
         handled < stream.good, closes = 0, handled' = handled + 1, interrupts' = interrupts,
         stream.frames[handled + 1].opCode = rawValue["ping"],
         NEW f \in Sent, f.opCode = "pong", f.payload = stream.frames[handled + 1].payload,
         wire' = Append(wire, f)
  PROVE  Answers'
<1> DEFINE h == handled + 1  m == Len(wire) + 1  p == Cardinality(Pings)
           q == Cardinality(WirePongs)  P == Pings \union {h}  W == WirePongs \union {m}
<1>1. /\ IsFiniteSet(Pings) /\ p \in Nat /\ Pings \in SUBSET Nat
      /\ IsFiniteSet(WirePongs) /\ q \in Nat /\ WirePongs \in SUBSET Nat
      /\ m \in Nat /\ \A i \in WirePongs : i < m
      /\ h \in Nat /\ \A k \in Pings : k < h
  BY PingsAndPongs
<1>2. /\ WirePongs' = W /\ \A i \in WirePongs : wire'[i] = wire[i]
      /\ wire'[m] = f /\ Len(wire') = m
  BY NewPong DEF WirePongs
<1>3. Pings' = P
  <2>1. stream.good \in Nat /\ h <= stream.good
    BY StreamType
  <2>2. Pings' = {k \in 1..h : k <= stream.good /\ stream.frames[k].opCode = rawValue["ping"]}
    BY DEF Pings
  <2>3. \A k : k \in 1..h <=> k \in 1..handled \/ k = h
    OBVIOUS
  <2>4. \A k : k \in Pings' <=> k \in Pings \/ k = h
    <3>1. stream.frames[h].opCode = rawValue["ping"]
      OBVIOUS
    <3> HIDE DEF h
    <3> QED
      BY <2>1, <2>2, <2>3, <3>1 DEF Pings
  <2> QED
    BY <2>4
<1>4. handled <= stream.good /\ p <= q
  BY StreamType DEF Answers
<1>5. q <= p /\ (interrupts = 0 => Len(wire) = q)
  BY <1>4 DEF Answers
<1>6. stream.frames[h].payload = f.payload
  OBVIOUS
<1>0. Len(wire) \in Nat /\ m = Len(wire) + 1
  OBVIOUS
<1> HIDE DEF h, m
<1>7. /\ Cardinality(P) = p + 1 /\ Nth(P, h) = p + 1
      /\ \A k \in Pings : Nth(P, k) = Nth(Pings, k)
  BY <1>1, NewLast
<1>8. /\ Cardinality(W) = q + 1 /\ Nth(W, m) = q + 1
      /\ \A i \in WirePongs : Nth(W, i) = Nth(WirePongs, i)
  BY <1>1, NewLast
<1>9. \A k : Nth(Pings, k) \in Nat /\ Nth(Pings, k) <= p
  BY <1>1, NthInSet
<1>10. \A i : Nth(WirePongs, i) \in Nat /\ Nth(WirePongs, i) <= q
  BY <1>1, NthInSet
<1> DEFINE pings == Pings  pongs == WirePongs
<1>11. \A k \in P, i \in W : Nth(P, k) = Nth(W, i) => wire'[i].payload = stream.frames[k].payload
  <2> SUFFICES ASSUME NEW k \in P, NEW i \in W, Nth(P, k) = Nth(W, i)
               PROVE  wire'[i].payload = stream.frames[k].payload
    OBVIOUS
  <2>0. p = q
    <3> HIDE DEF p, q
    <3> QED
      BY <1>1, <1>4, <1>5
  <2>1. CASE k \in Pings /\ i \in WirePongs
    BY <1>2, <1>7, <1>8, <2>1, Zenon DEF Answers
  <2>2. CASE k = h /\ i = m
    BY <1>2, <1>6, <2>2, Zenon
  <2>3. CASE k \in Pings /\ i = m
    <3>1. Nth(Pings, k) = q + 1
      BY <1>7, <1>8, <2>3, Zenon
    <3> HIDE DEF p, q
    <3> QED
      BY <1>1, <1>9, <2>0, <3>1
  <2>4. CASE k = h /\ i \in WirePongs
    <3>1. Nth(WirePongs, i) = p + 1
      BY <1>7, <1>8, <2>4, Zenon
    <3> HIDE DEF p, q
    <3> QED
      BY <1>1, <1>10, <2>0, <3>1
  <2> QED
    BY <2>1, <2>2, <2>3, <2>4, Zenon
<1>12. /\ Cardinality(P) <= Cardinality(W) /\ Cardinality(W) <= Cardinality(P)
       /\ interrupts = 0 => m = Cardinality(W)
  <2> HIDE DEF p, q, P, W
  <2> QED
    BY <1>0, <1>1, <1>4, <1>5, <1>7, <1>8
<1> QED
  BY <1>2, <1>3, <1>11, <1>12, Zenon DEF Answers

-----------------------------------------------------------------------------
(* The inductive invariant: the parser keeps its place in the bytes, the    *)
(* connection its place in the frames until a parse error and its types     *)
(* after one, and the two take turns.                                       *)

Turn ==
  /\ Len(handed) - handled \in {0, 1}
  /\ pc # "process" => AllHandled
  /\ closes = 0 => strays = << >>
  /\ closes > 0 => stream.good <= handled

IInv ==
  /\ PP!IInv /\ PP!KnownOpCodes
  /\ LP!TypeOK
  /\ Turn
  /\ closes = 0 => MP!IInv
  /\ OnTheWire
  /\ Answers

\* The numbers of the invariant.
LEMMA Numbers ==
  ASSUME PP!IInv, LP!TypeOK
  PROVE  /\ stream \in Streams /\ stream.good \in Nat /\ stream.good <= Len(stream.frames)
         /\ Len(stream.frames) \in Nat /\ Len(stream.bytes) \in Nat
         /\ framesReceived \in Seq(PP!Frame) /\ strays \in Seq(PP!Frame)
         /\ handed \in Seq(PP!Frame) /\ Len(handed) \in Nat /\ Len(framesReceived) \in Nat
         /\ strays = << >> => handed = framesReceived
         /\ arrived \in Nat /\ closes \in Nat /\ handled \in Nat /\ handled <= Len(handed)
         /\ wire \in Seq(Sent) /\ interrupts \in Nat
<1>1. /\ stream \in Streams /\ arrived \in Nat /\ closes \in Nat
      /\ framesReceived \in Seq(PP!Frame) /\ strays \in Seq(PP!Frame)
  BY PP!EndOfFrames, ParserAssumptions, StreamType DEF PP!IInv, PP!TypeOK
<1>2. /\ stream.good \in Nat /\ stream.good <= Len(stream.frames)
      /\ Len(stream.frames) \in Nat /\ Len(stream.bytes) \in Nat
  BY <1>1, StreamType
<1>3. handed \in Seq(PP!Frame) /\ Len(handed) \in Nat /\ Len(framesReceived) \in Nat
  BY <1>1, ConcatProperties DEF handed
<1>4. strays = << >> => handed = framesReceived
  BY <1>1, ConcatEmptySeq DEF handed
<1>5. handled \in Nat /\ handled <= Len(handed)
  BY <1>3 DEF LP!TypeOK
<1>6. wire \in Seq(Sent) /\ interrupts \in Nat
  BY Bytes DEF LP!TypeOK, Sent
<1> QED
  BY <1>1, <1>2, <1>3, <1>4, <1>5, <1>6

\* What the connection is handed are frames of its own, with an operation code
\* it has a case for.
LEMMA HandedFrames ==
  ASSUME PP!IInv, PP!KnownOpCodes, LP!TypeOK
  PROVE  /\ ClientOf(stream, handed).frames \in Seq(LP!WSFrame)
         /\ Len(ClientOf(stream, handed).frames) = Len(handed)
         /\ ClientOf(stream, handed).good = stream.good
         /\ \A k \in 1..Len(handed) : ClientOf(stream, handed).frames[k] = AsFrame(handed[k])
<1> DEFINE n == Len(framesReceived)  m == Len(strays)
           c == [k \in 1..Len(handed) |-> AsFrame(handed[k])]
<1>1. n \in Nat /\ m \in Nat /\ Len(handed) = n + m
  BY Numbers, ConcatProperties DEF handed
<1>2. \A k \in 1..Len(handed) : handed[k].opCode \in PP!FrameOpcode
  <2>1. ASSUME NEW k \in 1..n PROVE framesReceived[k].opCode \in PP!FrameOpcode
    <3>1. k \in 1..Len(stream.frames) /\ framesReceived[k] = PP!FrameOf(stream.frames[k])
      BY <1>1, Numbers DEF PP!IInv, PP!FramesInOrder
    <3>2. stream.frames[k].opCode \in PP!FrameOpcode
      BY <3>1, StreamFrame, Numbers
    <3> QED
      BY <3>1, <3>2 DEF PP!FrameOf
  <2>2. \A k \in 1..m : strays[k].opCode \in PP!FrameOpcode
    BY DEF PP!KnownOpCodes
  <2>3. ASSUME NEW k \in 1..Len(handed)
        PROVE  \/ k \in 1..n /\ handed[k] = framesReceived[k]
               \/ (k - n) \in 1..m /\ handed[k] = strays[k - n]
    <3>1. handed[k] = IF k <= n THEN framesReceived[k] ELSE strays[k - n]
      BY <1>1, <2>3, Numbers, ConcatProperties DEF handed
    <3>2. k \in Nat /\ 1 <= k /\ k <= n + m
      BY <1>1, <2>3
    <3> HIDE DEF n, m
    <3> QED
      BY <1>1, <3>1, <3>2
  <2> QED
    BY <2>1, <2>2, <2>3
<1>3. \A k \in 1..Len(handed) : c[k] \in LP!WSFrame
  <2> SUFFICES ASSUME NEW k \in 1..Len(handed) PROVE AsFrame(handed[k]) \in LP!WSFrame
    OBVIOUS
  <2>1. handed[k] \in PP!Frame
    BY Numbers
  <2>2. handed[k].finalFrame \in BOOLEAN /\ handed[k].payload \in Seq(Byte)
    BY <2>1, Bytes DEF PP!Frame
  <2>3. NameOf(handed[k].opCode) \in LP!FrameOpcode
    BY <1>2, Names DEF OpCodeName, LP!FrameOpcode
  <2> QED
    BY <2>2, <2>3, Bytes DEF AsFrame, LP!WSFrame
<1>4. c \in Seq(LP!WSFrame) /\ Len(c) = Len(handed)
  <2> HIDE DEF c
  <2>1. c = [k \in 1..Len(handed) |-> AsFrame(handed[k])]
    BY DEF c
  <2>2. c \in [1..Len(handed) -> LP!WSFrame]
    BY <1>3, <2>1
  <2> QED
    BY <2>1, <2>2, Numbers, LenProperties
<1> QED
  BY <1>4 DEF ClientOf

\* Until a parse error the frame that is handled is the one Messages is at.
LEMMA SameFrame ==
  ASSUME PP!IInv, PP!KnownOpCodes, LP!TypeOK, closes = 0, strays = << >>, handled < Len(handed)
  PROVE  /\ Layer!frame = Whole!frame /\ handled < FramesArrived
         /\ handled + 1 \in 1..Len(stream.frames)
         /\ LP!frame = AsFrame(stream.frames[handled + 1])
         /\ MP!frame = AsFrame(stream.frames[handled + 1])
<1> DEFINE k == handled + 1
<1>1. /\ handled \in Nat /\ Len(handed) \in Nat /\ handed = framesReceived
      /\ stream \in Streams /\ Len(stream.frames) \in Nat
  BY Numbers
<1>2. /\ k \in 1..Len(handed) /\ k \in 1..Len(stream.frames)
      /\ handed[k] = PP!FrameOf(stream.frames[k])
  BY <1>1 DEF PP!IInv, PP!FramesInOrder
<1>3. AsFrame(handed[k]) = AsFrame(stream.frames[k])
  BY <1>1, <1>2, StreamFrame
<1>4. ClientOf(stream, handed).frames[k] = AsFrame(handed[k])
  BY <1>2, HandedFrames
<1>5. ClientOf(stream, stream.frames).frames[k] = AsFrame(stream.frames[k])
  BY <1>2 DEF ClientOf
<1>6. /\ Layer!frame = AsFrame(stream.frames[k]) /\ LP!frame = AsFrame(stream.frames[k])
      /\ Whole!frame = AsFrame(stream.frames[k]) /\ MP!frame = AsFrame(stream.frames[k])
  BY <1>3, <1>4, <1>5 DEF Layer!frame, LP!frame, Whole!frame, MP!frame
<1>7. handled < FramesArrived
  <2>1. Len(framesReceived) <= FramesArrived /\ FramesArrived \in Nat
    BY FramesCounted
  <2> QED
    BY <1>1, <2>1
<1> QED
  BY <1>2, <1>6, <1>7

-----------------------------------------------------------------------------
(* The steps, one by one: the types of the connection, and the turns. *)

\* The parser keeps its place.
LEMMA ParserKeeps ==
  ASSUME PP!IInv, PP!KnownOpCodes, [Next]_vars
  PROVE  (PP!IInv)' /\ (PP!KnownOpCodes)'
BY StepParses, PP!NextPlace, PP!NextKnown, ParserAssumptions

\* The number of frames there are for the connection.
LEMMA LayerLength ==
  ASSUME Len(handed) \in Nat
  PROVE  Len(ClientOf(stream, handed).frames) = Len(handed)
BY DEF ClientOf

\* More frames do not change its types.
LEMMA LayerWaits ==
  ASSUME LP!TypeOK, Len(handed) \in Nat, Len(handed') \in Nat, Len(handed) <= Len(handed'),
         UNCHANGED <<handled, messageState, message, socket, told, interrupts, messagesReceived>>,
         active' \in BOOLEAN, wire' \in Seq([opCode : {"pong", "close"}, payload : Seq(LP!Byte)])
  PROVE  LP!TypeOK'
<1>1. Len(ClientOf(stream, handed)'.frames) = Len(handed')
  BY DEF ClientOf
<1>2. handled \in Nat /\ handled <= Len(handed)
  BY LayerLength DEF LP!TypeOK
<1>3. Len(handed') \in 0..Len(ClientOf(stream, handed)'.frames) /\ handled' \in 0..Len(handed')
  BY <1>1, <1>2
<1> QED
  BY <1>3 DEF LP!TypeOK

\* A call of parse hands on one frame at most, and then process(_:) goes on.
LEMMA ProcessHands ==
  ASSUME PP!IInv, LP!TypeOK, Turn, Process
  PROVE  /\ UNCHANGED <<stream, arrived, closes, layerVars, written>>
         /\ handled = Len(handed)
         /\ \/ Len(handed') = Len(handed)
            \/ Len(handed') = Len(handed) + 1 /\ pc' = "process"
         /\ closes = 0 => strays' = << >>
<1>1. /\ framesReceived \in Seq(PP!Frame) /\ strays \in Seq(PP!Frame)
      /\ closes = 0 => strays = << >>
  BY Numbers DEF Turn
<1>2. UNCHANGED <<layerVars, written>> /\ handled = Len(handed)
  BY DEF Process, AllHandled
<1>3. CASE PP!ReturnComplete /\ bytesParsed # 0
  <2>1. /\ UNCHANGED <<stream, arrived, closes>> /\ pc' = "process"
        /\ \E f : PP!HandOn(f)
    BY <1>3 DEF PP!ReturnComplete
  <2>2. PICK f : PP!HandOn(f)
    BY <2>1
  <2>3. \A s : s \in Seq(PP!Frame) =>
          /\ Len(Append(s, f)) = Len(s) + 1
          /\ Append(s, f) \in Seq(PP!Frame \union {f}) /\ s \in Seq(PP!Frame \union {f})
    OBVIOUS
  <2>4. Len(handed) = Len(framesReceived) + Len(strays)
    BY <1>1, ConcatProperties DEF handed
  <2>5. /\ Len(framesReceived) \in Nat /\ Len(strays) \in Nat
        /\ \/ Len(framesReceived') = Len(framesReceived) + 1 /\ strays' = strays
           \/ Len(strays') = Len(strays) + 1 /\ framesReceived' = framesReceived
    BY <1>1, <2>2, <2>3 DEF PP!HandOn
  <2>6. /\ framesReceived' \in Seq(PP!Frame \union {f}) /\ strays' \in Seq(PP!Frame \union {f})
    BY <1>1, <2>2, <2>3 DEF PP!HandOn
  <2>7. Len(handed') = Len(framesReceived') + Len(strays')
    <3>1. handed' = framesReceived' \o strays'
      BY DEF handed
    <3> QED
      BY <2>6, <3>1, ConcatProperties
  <2>8. Len(handed') = Len(handed) + 1
    BY <2>4, <2>5, <2>7
  <2>9. closes = 0 => strays' = << >>
    BY <1>1, <2>2 DEF PP!HandOn
  <2> QED
    BY <1>2, <2>1, <2>8, <2>9
<1>4. CASE ~(PP!ReturnComplete /\ bytesParsed # 0)
  <2>1. \/ PP!CallParse \/ PP!FinishBuffer
        \/ PP!ParseOpCode \/ PP!ParseMaskAndLength \/ PP!AwaitMaskAndLength
        \/ PP!ParsePayload \/ PP!ReturnIncomplete \/ PP!ReturnComplete
    BY ParserIsPP DEF Process
  <2>2. UNCHANGED <<stream, arrived, closes, framesReceived, strays>>
    BY <1>4, <2>1 DEF PP!CallParse, PP!FinishBuffer, PP!ParseOpCode, PP!ParseMaskAndLength,
       PP!AwaitMaskAndLength, PP!ParsePayload, PP!ReturnIncomplete, PP!ReturnComplete,
       PP!ContinueAfter, PP!history
  <2> QED
    BY <1>1, <1>2, <2>2 DEF handed
<1> QED
  BY <1>3, <1>4

\* A read hands on nothing yet.
LEMMA ReadHands ==
  ASSUME NEW n, Read(n)
  PROVE  /\ UNCHANGED <<stream, framesReceived, strays, closes, layerVars, written, handed>>
         /\ pc = "idle" /\ pc' = "process" /\ socket = "open" /\ AllHandled
         /\ arrived' = arrived + n
<1>1. PP!Read(n) /\ UNCHANGED <<layerVars, written>> /\ AllHandled /\ socket = "open"
  BY ParserIsPP DEF Read
<1> QED
  BY <1>1 DEF PP!Read, PP!history, handed

\* A parse error is one behind the client's last frame, and hands on nothing.
LEMMA ParseErrorHands ==
  ASSUME PP!IInv, LP!TypeOK, Turn, ParseError
  PROVE  /\ UNCHANGED <<stream, arrived, framesReceived, strays, handed>>
         /\ closes' = closes + 1 /\ pc' = "idle" /\ AllHandled
         /\ stream.good <= handled
         /\ UNCHANGED <<handled, messageState, message, socket, told, interrupts, messagesReceived>>
         /\ active' = FALSE /\ Write
         /\ wire' = Append(wire, [opCode |-> "close",
                                  payload |-> LP!CodeBytes(LP!Reason("protocolError"))])
<1>0. Layer!SendMessage("close", Layer!CodeBytes(Layer!Reason("protocolError"))) =>
        wire' = Append(wire, [opCode |-> "close",
                              payload |-> LP!CodeBytes(LP!Reason("protocolError"))])
  BY DEF Layer!SendMessage, Layer!CodeBytes, LP!CodeBytes, Layer!Reason, LP!Reason,
         Layer!code, LP!code, Layer!CodeOf, LP!CodeOf
<1>1. PP!RejectOpCode \/ PP!RejectUnmasked
  BY ParserIsPP DEF ParseError
<1>2. /\ UNCHANGED <<stream, arrived, framesReceived, strays>>
      /\ closes' = closes + 1 /\ pc' = "idle"
  BY <1>1 DEF PP!RejectOpCode, PP!RejectUnmasked, PP!FailAfterError
<1>3. UNCHANGED handed
  BY <1>2 DEF handed
<1>4. handled = Len(handed) /\ AllHandled
  BY DEF ParseError, AllHandled
<1>5. CASE closes = 0
  <2>1. (PP!IInv)'
    <3>1. PP!Next
      BY <1>1 DEF PP!Next
    <3> QED
      BY <3>1, PP!NextPlace, ParserAssumptions
  <2>2. Len(framesReceived') = Len(stream'.frames)
    BY <1>2, <1>5, <2>1 DEF PP!IInv, PP!ErrorOnlyAtViolation
  <2>3. Len(framesReceived) = Len(stream.frames) /\ handed = framesReceived
    BY <1>2, <1>5, <2>2, Numbers DEF Turn
  <2> QED
    BY <1>2, <1>3, <1>4, <2>3, Numbers, <1>0 DEF ParseError
<1>6. CASE closes # 0
  <2>1. stream.good <= handled
    BY <1>6, Numbers DEF Turn
  <2> QED
    BY <1>2, <1>3, <1>4, <2>1, <1>0 DEF ParseError
<1> QED
  BY <1>5, <1>6

-----------------------------------------------------------------------------
(* A frame is handled. *)

\* Close frames are short.
LEMMA CloseFits ==
  ASSUME NEW r \in LP!WebSocketCloseReasonCode
  PROVE  Fits([opCode |-> "close", payload |-> LP!CodeBytes(r)])
<1> DEFINE f == [opCode |-> "close", payload |-> LP!CodeBytes(r)]
<1>1. /\ f \in [opCode : {"pong", "close"}, payload : Seq(LP!Byte)]
      /\ Len(f.payload) = 2
  BY LP!CloseIsShort, LayerAssumptions
<1> HIDE DEF f
<1>2. 2 <= UInt16Max
  BY SMT DEF UInt16Max
<1>3. Fits(f)
  BY <1>1, <1>2, Bytes DEF Fits, Sent
<1> QED
  BY <1>3 DEF f

\* What received(frame:) sends: a pong for a ping that keeps to the rules, for
\* any other frame a close frame or nothing.
LEMMA FrameIsAnswered ==
  ASSUME IInv, ReceivedFrame
  PROVE  /\ UNCHANGED parserVars /\ Write
         /\ handled < Len(handed) /\ handled' = handled + 1 /\ interrupts' = interrupts
         /\ LP!TypeOK'
         /\ handled >= stream.good => messagesReceived' = messagesReceived
         /\ \/ /\ LP!frame.opCode = "ping"
               /\ Fits([opCode |-> "pong", payload |-> LP!frame.payload])
               /\ wire' = Append(wire, [opCode |-> "pong", payload |-> LP!frame.payload])
            \/ wire' = wire \/ LP!SendsClose
<1> DEFINE c == ClientOf(stream, handed)
<1>1. UNCHANGED parserVars /\ Write /\ LP!ReceivedFrame
  BY LayerIsLP DEF ReceivedFrame
<1>2. PP!IInv /\ PP!KnownOpCodes /\ LP!TypeOK
  BY DEF IInv
<1>3. /\ c.frames \in Seq(LP!WSFrame) /\ Len(c.frames) = Len(handed) /\ c.good = stream.good
      /\ stream.good \in Nat /\ Len(handed) \in Nat /\ handled \in Nat
  BY <1>2, HandedFrames, Numbers
<1> HIDE DEF c
<1>4. /\ handled < Len(handed) /\ handled' = handled + 1
      /\ UNCHANGED <<c, Len(handed), interrupts>>
      /\ messageState' \in {"unknown", "text", "binary"}
      /\ message' \in Seq(LP!Byte)
      /\ LP!Shape
  <2>1. c.frames \in Seq(LP!WSFrame) /\ c.good \in Nat
    BY <1>3
  <2> QED
    BY <1>1, <1>2, <2>1, LP!AnyFrameShape, LayerAssumptions DEF c
<1>5. LP!TypeOK'
  <2>1. Len(handed)' \in 0..Len(c'.frames) /\ handled' \in 0..Len(handed)'
    BY <1>3, <1>4
  <2>2. interrupts' \in Nat
    BY <1>2, <1>4 DEF LP!TypeOK
  <2> QED
    BY <1>4, <2>1, <2>2 DEF LP!TypeOK, LP!Shape, c
<1>6. handled >= stream.good => messagesReceived' = messagesReceived
  BY <1>3, <1>4 DEF LP!Shape, c
<1>7. LP!frame \in LP!WSFrame
  <2>1. handled + 1 \in 1..Len(c.frames)
    BY <1>3, <1>4
  <2> QED
    BY <1>3, <2>1 DEF LP!frame, c
<1>8. IF LP!frame.opCode = "ping" /\ LP!IsControl(LP!frame)
        THEN wire' = Append(wire, [opCode |-> "pong", payload |-> LP!frame.payload])
        ELSE wire' = wire \/ LP!SendsClose
  BY <1>1, <1>7, LP!FrameSends, LayerAssumptions
<1>9. LP!frame.opCode = "ping" /\ LP!IsControl(LP!frame) =>
        Fits([opCode |-> "pong", payload |-> LP!frame.payload])
  <2> SUFFICES ASSUME LP!frame.opCode = "ping", LP!IsControl(LP!frame)
               PROVE  Fits([opCode |-> "pong", payload |-> LP!frame.payload])
    OBVIOUS
  <2> DEFINE p == LP!frame.payload
  <2>1. Len(p) <= ControlLimit /\ p \in Seq(Byte)
    BY <1>7, Bytes DEF LP!IsControl, LP!WSFrame
  <2>2. Len(p) <= UInt16Max
    <3> DEFINE l == Len(p)  u == UInt16Max
    <3>1. l \in Nat /\ l <= ControlLimit /\ ControlLimit \in 0..u
      BY <2>1, BoundsAssumption
    <3>2. u \in Nat
      BY SMT DEF UInt16Max
    <3> HIDE DEF l, u
    <3>3. l <= u
      BY <3>1, <3>2
    <3> QED
      BY <3>3 DEF l, u
  <2> HIDE DEF p
  <2>3. Fits([opCode |-> "pong", payload |-> p])
    BY <2>1, <2>2 DEF Fits, Sent
  <2> QED
    BY <2>3 DEF p
<1> QED
  BY <1>1, <1>4, <1>5, <1>6, <1>8, <1>9

\* The wire after a step that may have sent a close frame.
LEMMA CloseOnTheWire ==
  ASSUME OnTheWire, wire' = wire \/ LP!SendsClose, Write, UNCHANGED clientVars
  PROVE  /\ OnTheWire'
         /\ \E f \in Sent : f.opCode = "close" /\ (wire' = wire \/ wire' = Append(wire, f))
<1>1. CASE wire' = wire
  <2>1. OnTheWire'
    BY <1>1, SilentOnTheWire DEF Write
  <2>2. [opCode |-> "close", payload |-> << >>] \in Sent
    BY DEF Sent
  <2> QED
    BY <1>1, <2>1, <2>2
<1>2. CASE LP!SendsClose
  <2>1. PICK r \in LP!WebSocketCloseReasonCode :
          wire' = Append(wire, [opCode |-> "close", payload |-> LP!CodeBytes(r)])
    BY <1>2 DEF LP!SendsClose
  <2> DEFINE f == [opCode |-> "close", payload |-> LP!CodeBytes(r)]
  <2>2. Fits(f) /\ f.opCode = "close" /\ wire' = Append(wire, f)
    BY <2>1, CloseFits
  <2> HIDE DEF f
  <2>3. OnTheWire' /\ f \in Sent
    BY <2>2, WriteOnTheWire DEF Fits
  <2> QED
    BY <2>2, <2>3
<1> QED
  BY <1>1, <1>2

\* A frame of a client that keeps to the rules, to the module with the proofs.
LEMMA GoodIsWhole ==
  ASSUME IInv, ReceivedFrame, closes = 0
  PROVE  /\ Whole!ReceivedFrame /\ MP!ReceivedFrame /\ MP!IInv
         /\ handled + 1 \in 1..Len(stream.frames)
         /\ LP!frame = AsFrame(stream.frames[handled + 1])
         /\ MP!frame = AsFrame(stream.frames[handled + 1])
<1>1. UNCHANGED parserVars /\ Layer!ReceivedFrame /\ handled < Len(handed)
  BY FrameIsAnswered DEF ReceivedFrame
<1>2. /\ PP!IInv /\ PP!KnownOpCodes /\ LP!TypeOK /\ strays = << >>
      /\ MP!IInv
  BY DEF IInv, Turn
<1>3. /\ Layer!frame = Whole!frame /\ handled < FramesArrived
      /\ handled + 1 \in 1..Len(stream.frames)
      /\ LP!frame = AsFrame(stream.frames[handled + 1])
      /\ MP!frame = AsFrame(stream.frames[handled + 1])
  BY <1>1, <1>2, SameFrame
<1>4. Whole!ReceivedFrame
  BY <1>1, <1>3, LayerIsWhole
<1> QED
  BY <1>2, <1>3, <1>4, WholeIsMP

\* What a frame does to the invariant.
LEMMA FrameKeeps ==
  ASSUME IInv, ReceivedFrame, UNCHANGED clientVars
  PROVE  LP!TypeOK' /\ Turn' /\ OnTheWire' /\ Answers'
<1>1. /\ UNCHANGED parserVars /\ Write
      /\ handled < Len(handed) /\ handled' = handled + 1 /\ interrupts' = interrupts
      /\ LP!TypeOK'
  BY FrameIsAnswered
<1>2. /\ stream' = stream /\ closes' = closes /\ strays' = strays /\ pc' = pc
      /\ handed' = handed
  BY <1>1 DEF parserVars, handed
<1>3. /\ stream \in Streams /\ stream.good \in Nat /\ Len(handed) \in Nat
      /\ handled \in Nat /\ closes \in Nat /\ wire \in Seq(Sent)
  BY Numbers DEF IInv
<1>4. Turn'
  <2>1. Len(handed) - handled = 1 /\ handled' = Len(handed)
    BY <1>1, <1>3 DEF IInv, Turn
  <2>2. Len(handed') - handled' \in {0, 1} /\ AllHandled'
    BY <1>2, <1>3, <2>1 DEF AllHandled
  <2>3. closes' > 0 => stream'.good <= handled'
    BY <1>1, <1>2, <1>3 DEF IInv, Turn
  <2> QED
    BY <1>2, <2>2, <2>3 DEF IInv, Turn
<1> DEFINE f == [opCode |-> "pong", payload |-> LP!frame.payload]
<1>5. \/ LP!frame.opCode = "ping" /\ Fits(f) /\ wire' = Append(wire, f)
      \/ wire' = wire \/ LP!SendsClose
  BY FrameIsAnswered
<1>6. f.opCode = "pong" /\ f.payload = LP!frame.payload
  OBVIOUS
<1> HIDE DEF f
<1>7. OnTheWire /\ Answers
  BY DEF IInv
<1>8. OnTheWire'
  BY <1>1, <1>5, <1>7, WriteOnTheWire, CloseOnTheWire
<1>9. ASSUME closes = 0, handled < stream.good
      PROVE  Answers'
  <2> DEFINE k == handled + 1
  <2>1. /\ MP!ReceivedFrame /\ MP!IInv /\ k \in 1..Len(stream.frames)
        /\ LP!frame = AsFrame(stream.frames[k]) /\ MP!frame = AsFrame(stream.frames[k])
    BY <1>9, GoodIsWhole
  <2>2. ClientOf(stream, stream.frames).good = stream.good
    BY DEF ClientOf
  <2>3. wire' = IF MP!frame.opCode = "ping"
                  THEN Append(wire, [opCode |-> "pong", payload |-> MP!frame.payload])
                  ELSE wire
    BY <1>9, <2>1, <2>2, MP!GoodFrameSends, LayerAssumptions
  <2>4. /\ MP!frame.opCode = NameOf(stream.frames[k].opCode)
        /\ MP!frame.payload = stream.frames[k].payload
    BY <2>1 DEF AsFrame
  <2>5. MP!frame.opCode = "ping" <=> stream.frames[k].opCode = rawValue["ping"]
    <3>1. stream.frames[k].opCode \in PP!FrameOpcode /\ "ping" \in OpCodeName
      BY <1>3, <2>1, StreamFrame DEF OpCodeName
    <3> HIDE DEF k
    <3> QED
      BY <2>4, <3>1, Names, Zenon
  <2>6. CASE MP!frame.opCode = "ping"
    <3>1. wire' = Append(wire, f) /\ f.payload = stream.frames[k].payload
      BY <1>6, <2>1, <2>3, <2>4, <2>6 DEF f
    <3>2. f \in Sent
      <4>1. stream.frames[k].payload \in Seq(Byte)
        BY <1>3, <2>1, StreamFrame
      <4> QED
        BY <3>1, <4>1 DEF f, Sent
    <3> QED
      BY <1>1, <1>2, <1>3, <1>6, <1>7, <1>9, <2>5, <2>6, <3>1, <3>2, PingAnswered
  <2>7. CASE MP!frame.opCode # "ping"
    <3>1. Pings' = Pings
      BY <1>1, <1>2, <1>3, <2>5, <2>7, SamePings
    <3>2. wire' = wire
      BY <2>3, <2>7
    <3>3. [opCode |-> "close", payload |-> << >>] \in Sent
      BY DEF Sent
    <3>4. /\ handled' <= stream.good /\ closes' = 0 => handled <= stream.good /\ closes = 0
      BY <1>2, <1>9, <1>3
    <3> QED
      BY <1>1, <1>2, <1>3, <1>7, <3>1, <3>2, <3>3, <3>4, NoAnswer
  <2> QED
    BY <2>6, <2>7
<1>10. ASSUME ~(closes = 0 /\ handled < stream.good)
       PROVE  Answers'
  <2>1. stream.good <= handled
    BY <1>3, <1>10 DEF IInv, Turn
  <2>2. ~(handled' <= stream.good)
    BY <1>1, <1>3, <2>1
  <2>3. Pings' = Pings
    BY <1>1, <1>2, <1>3, <2>1, SamePings
  <2>4. CASE Fits(f) /\ wire' = Append(wire, f)
    BY <1>2, <1>3, <1>6, <1>7, <2>2, <2>3, <2>4, LateAnswer DEF Fits
  <2>5. CASE wire' = wire \/ LP!SendsClose
    <3>1. PICK g \in Sent : g.opCode = "close" /\ (wire' = wire \/ wire' = Append(wire, g))
      BY <1>1, <1>7, <2>5, CloseOnTheWire
    <3> QED
      BY <1>1, <1>2, <1>3, <1>7, <2>2, <2>3, <3>1, NoAnswer
  <2> QED
    BY <1>5, <2>4, <2>5
<1> QED
  BY <1>1, <1>4, <1>8, <1>9, <1>10

-----------------------------------------------------------------------------
(* A step that is no parse error is a step of Messages, or none. *)

\* A step that leaves the connection alone and brings no frame is none.
LEMMA NothingForMessages ==
  ASSUME stream' = stream, UNCHANGED layerVars, FramesArrived' = FramesArrived
  PROVE  UNCHANGED Whole!vars
<1>1. ClientOf(stream, stream.frames)' = ClientOf(stream, stream.frames)
  BY SameArrived
<1> QED
  BY <1>1 DEF Whole!vars, layerVars

\* A read brings as many frames as end in it.
LEMMA ReadIsWhole ==
  ASSUME IInv, [Next]_vars, closes = 0, NEW n \in 1..Len(stream.bytes), Read(n)
  PROVE  [Whole!Next]_(Whole!vars)
<1> DEFINE m == FramesArrived' - FramesArrived
<1>1. /\ UNCHANGED <<stream, framesReceived, strays, closes, layerVars, written, handed>>
      /\ pc = "idle" /\ socket = "open" /\ AllHandled /\ arrived' = arrived + n
  BY ReadHands
<1>2. PP!IInv /\ LP!TypeOK /\ strays = << >> /\ (PP!IInv)'
  BY ParserKeeps DEF IInv, Turn
<1>3. /\ stream \in Streams /\ Len(stream.frames) \in Nat /\ arrived \in Nat
      /\ handed = framesReceived /\ arrived' \in Nat /\ arrived <= arrived'
  <2>1. /\ stream \in Streams /\ Len(stream.frames) \in Nat /\ arrived \in Nat
        /\ handed = framesReceived /\ Len(stream.bytes) \in Nat
    BY <1>2, Numbers
  <2> QED
    BY <1>1, <2>1
<1>4. FramesArrived = Len(framesReceived) /\ handled = FramesArrived
  BY <1>1, <1>2, <1>3, FramesCounted DEF AllHandled
<1>5. FramesArrived \in Nat /\ FramesArrived' \in Nat /\ FramesArrived <= FramesArrived'
  BY <1>1, <1>2, <1>3, MoreArrives
<1>6. FramesArrived' <= Len(stream.frames)
  <2>1. (PP!IInv)' => (FramesArrived <= Len(stream.frames))'
    BY FramesCounted, PTL
  <2> QED
    BY <1>1, <1>2, <2>1
<1>7. CASE FramesArrived' = FramesArrived
  BY <1>1, <1>7, NothingForMessages
<1>8. CASE FramesArrived' # FramesArrived
  <2>1. /\ m \in 1..Len(stream.frames) /\ FramesArrived + m = FramesArrived'
        /\ FramesArrived + m <= Len(stream.frames)
    <3> DEFINE a == FramesArrived  b == FramesArrived'  l == Len(stream.frames)
    <3>1. a \in Nat /\ b \in Nat /\ l \in Nat /\ a <= b /\ b <= l /\ a # b
      BY <1>3, <1>5, <1>6, <1>8
    <3> HIDE DEF a, b, l
    <3>2. b - a \in 1..l /\ a + (b - a) = b /\ a + (b - a) <= l
      BY <3>1
    <3> QED
      BY <3>2 DEF a, b, l
  <2> HIDE DEF m
  <2>2. Len(ClientOf(stream, stream.frames).frames) = Len(stream.frames)
    BY <1>3 DEF ClientOf
  <2>3. ClientOf(stream, stream.frames)' = ClientOf(stream, stream.frames)
    BY <1>1, SameArrived
  <2>4. Whole!Read(m)
    BY <1>1, <1>4, <2>1, <2>2, <2>3 DEF Whole!Read, layerVars
  <2> QED
    BY <2>1, <2>2, <2>4 DEF Whole!Next
<1> QED
  BY <1>7, <1>8

LEMMA StepActs ==
  ASSUME IInv, [Next]_vars, closes' = 0
  PROVE  [Whole!Next]_(Whole!vars)
<1>1. PP!IInv /\ PP!KnownOpCodes /\ LP!TypeOK /\ Turn /\ closes \in Nat
  BY Numbers DEF IInv
<1>2. CASE \E n \in 1..Len(stream.bytes) : Read(n)
  <2>1. PICK n \in 1..Len(stream.bytes) : Read(n)
    BY <1>2
  <2>2. closes = 0
    BY <2>1, ReadHands
  <2> QED
    BY <2>1, <2>2, ReadIsWhole
<1>3. CASE Process
  BY <1>1, <1>3, ProcessHands, SameArrived, NothingForMessages
<1>4. CASE ParseError
  <2>1. closes' = closes + 1
    BY <1>1, <1>4, ParseErrorHands
  <2> QED
    BY <1>1, <2>1
<1>5. CASE ReceivedFrame
  <2>1. closes = 0
    BY <1>5 DEF ReceivedFrame, parserVars
  <2> QED
    BY <1>5, <2>1, GoodIsWhole DEF Whole!Next
<1>6. CASE Others
  BY <1>6, LayerIsWhole DEF Others, Whole!Next
<1>7. CASE SocketClosed
  <2>1. closes = 0 /\ pc = "idle" /\ strays = << >>
    BY <1>1, <1>7 DEF SocketClosed, parserVars, Turn
  <2>2. /\ FramesArrived = Len(handed)
        /\ arrived = Len(stream.bytes) => FramesArrived = Len(stream.frames)
        /\ stream \in Streams
    BY <1>1, <2>1, FramesCounted, Numbers
  <2> QED
    BY <1>7, <2>2, SocketIsWhole DEF Whole!Next
<1>8. CASE ClientReads \/ UNCHANGED vars
  <2>1. UNCHANGED <<parserVars, layerVars>>
    BY <1>8 DEF ClientReads, vars
  <2>2. UNCHANGED <<stream, arrived>>
    BY <2>1 DEF parserVars
  <2> QED
    BY <2>1, <2>2, SameArrived, NothingForMessages
<1> QED
  BY <1>2, <1>3, <1>4, <1>5, <1>6, <1>7, <1>8 DEF Next, ReaderQueue

-----------------------------------------------------------------------------
(* What the other steps do to the invariant. *)

\* A step that sends nothing and handles no ping answers none.
LEMMA SilentAnswers ==
  ASSUME IInv, UNCHANGED <<stream, handled, closes, wire>>, interrupts' \in {interrupts, interrupts + 1}
  PROVE  Answers'
<1>1. /\ stream \in Streams /\ handled \in Nat /\ wire \in Seq(Sent) /\ interrupts \in Nat
      /\ Answers
  BY Numbers DEF IInv
<1>2. Pings' = Pings
  BY <1>1, SamePings
<1>3. [opCode |-> "close", payload |-> << >>] \in Sent
  BY DEF Sent
<1>4. interrupts' = 0 => interrupts = 0
  BY <1>1
<1> QED
  BY <1>1, <1>2, <1>3, <1>4, NoAnswer

LEMMA ReadKeeps ==
  ASSUME IInv, NEW n, Read(n), UNCHANGED clientVars
  PROVE  LP!TypeOK' /\ Turn' /\ OnTheWire' /\ Answers'
<1>1. /\ UNCHANGED <<stream, framesReceived, strays, closes, layerVars, written, handed>>
      /\ pc' = "process" /\ AllHandled
  BY ReadHands
<1>2. /\ LP!TypeOK /\ OnTheWire /\ Len(handed) \in Nat /\ handled \in Nat /\ Len(handed') = Len(handed)
      /\ Turn
  BY <1>1, Numbers DEF IInv
<1>3. LP!TypeOK'
  BY <1>1, <1>2, LayerWaits DEF layerVars, LP!TypeOK
<1>4. Turn'
  BY <1>1, <1>2 DEF Turn, layerVars
<1>5. OnTheWire' /\ Answers'
  BY <1>1, <1>2, SilentOnTheWire, SilentAnswers DEF layerVars
<1> QED
  BY <1>3, <1>4, <1>5

LEMMA ProcessKeeps ==
  ASSUME IInv, Process, UNCHANGED clientVars
  PROVE  LP!TypeOK' /\ Turn' /\ OnTheWire' /\ Answers'
<1>1. /\ UNCHANGED <<stream, arrived, closes, layerVars, written>>
      /\ handled = Len(handed)
      /\ \/ Len(handed') = Len(handed)
         \/ Len(handed') = Len(handed) + 1 /\ pc' = "process"
      /\ closes = 0 => strays' = << >>
  BY ProcessHands DEF IInv
<1>2. LP!TypeOK /\ OnTheWire /\ Turn /\ Len(handed) \in Nat /\ closes \in Nat
  BY Numbers DEF IInv
<1>3. LP!TypeOK'
  <2>1. Len(handed') \in Nat /\ Len(handed) <= Len(handed')
    BY <1>1, <1>2
  <2> QED
    BY <1>1, <1>2, <2>1, LayerWaits DEF layerVars, LP!TypeOK
<1>4. Turn'
  <2>1. Len(handed') - handled' \in {0, 1}
    BY <1>1, <1>2 DEF layerVars
  <2>2. pc' # "process" => handled' = Len(handed')
    BY <1>1, <1>2 DEF layerVars
  <2>3. closes' > 0 => stream'.good <= handled'
    BY <1>1, <1>2 DEF layerVars, Turn
  <2> QED
    BY <1>1, <2>1, <2>2, <2>3 DEF Turn, AllHandled
<1>5. OnTheWire' /\ Answers'
  BY <1>1, <1>2, SilentOnTheWire, SilentAnswers DEF layerVars
<1> QED
  BY <1>3, <1>4, <1>5

LEMMA ParseErrorKeeps ==
  ASSUME IInv, ParseError, UNCHANGED clientVars
  PROVE  LP!TypeOK' /\ Turn' /\ OnTheWire' /\ Answers'
<1>1. /\ UNCHANGED <<stream, arrived, framesReceived, strays, handed>>
      /\ closes' = closes + 1 /\ pc' = "idle" /\ AllHandled
      /\ stream.good <= handled
      /\ UNCHANGED <<handled, messageState, message, socket, told, interrupts, messagesReceived>>
      /\ active' = FALSE /\ Write
      /\ wire' = Append(wire, [opCode |-> "close",
                               payload |-> LP!CodeBytes(LP!Reason("protocolError"))])
  BY ParseErrorHands DEF IInv
<1>2. /\ LP!TypeOK /\ OnTheWire /\ Turn /\ Answers /\ Len(handed) \in Nat /\ closes \in Nat
      /\ stream \in Streams /\ handled \in Nat /\ wire \in Seq(Sent)
  BY Numbers DEF IInv
<1>3. LP!SendsClose
  BY <1>1, LP!Reasons, LayerAssumptions DEF LP!SendsClose
<1>4. LP!TypeOK'
  <2>1. wire' \in Seq([opCode : {"pong", "close"}, payload : Seq(LP!Byte)])
    BY <1>2, <1>3, LP!SentType, LayerAssumptions
  <2>2. Len(handed') \in Nat /\ Len(handed) <= Len(handed') /\ active' \in BOOLEAN
    <3>1. Len(handed') = Len(handed)
      BY <1>1
    <3>2. Len(handed') \in Nat /\ Len(handed) <= Len(handed')
      <4> DEFINE x == Len(handed)  y == Len(handed')
      <4>1. x \in Nat /\ y = x
        BY <1>2, <3>1
      <4> HIDE DEF x, y
      <4>2. y \in Nat /\ x <= y
        BY <4>1
      <4> QED
        BY <4>2 DEF x, y
    <3>3. active' \in BOOLEAN
      BY <1>1, Zenon
    <3> QED
      BY <3>2, <3>3
  <2> QED
    BY <1>1, <1>2, <2>1, <2>2, LayerWaits
<1>5. Turn'
  <2>1. closes' # 0 /\ closes' > 0
    BY <1>1, <1>2
  <2> QED
    BY <1>1, <1>2, <2>1 DEF Turn, AllHandled
<1>6. OnTheWire' /\ \E f \in Sent : f.opCode = "close" /\ (wire' = wire \/ wire' = Append(wire, f))
  BY <1>1, <1>2, <1>3, CloseOnTheWire
<1>7. Answers'
  <2>1. Pings' = Pings
    BY <1>1, <1>2, SamePings
  <2>2. closes' # 0
    BY <1>1, <1>2
  <2> QED
    BY <1>1, <1>2, <1>6, <2>1, <2>2, NoAnswer
<1> QED
  BY <1>4, <1>5, <1>6, <1>7

LEMMA OthersKeep ==
  ASSUME IInv, Others, UNCHANGED clientVars
  PROVE  LP!TypeOK' /\ Turn' /\ OnTheWire' /\ Answers'
<1>1. /\ UNCHANGED parserVars /\ Write
      /\ LP!CloseByOthers \/ LP!DropByOthers \/ LP!TimerExpires
  BY LayerIsLP DEF Others
<1>2. /\ LP!TypeOK /\ OnTheWire /\ Turn /\ Answers
      /\ stream \in Streams /\ handled \in Nat /\ wire \in Seq(Sent) /\ interrupts \in Nat
  BY Numbers DEF IInv
<1>3. LP!TypeOK' /\ (wire' = wire \/ LP!SendsClose)
  BY <1>1, <1>2, LP!OthersType, LP!OthersSend, LayerAssumptions
<1>4. handled' = handled /\ interrupts' = interrupts + 1
  BY <1>1 DEF LP!CloseByOthers, LP!DropByOthers, LP!TimerExpires, LP!Interrupt
<1>5. /\ UNCHANGED <<stream, closes, strays, pc>> /\ handed' = handed
  BY <1>1 DEF parserVars, handed
<1>6. Turn'
  BY <1>2, <1>4, <1>5 DEF Turn, AllHandled
<1>7. OnTheWire' /\ \E f \in Sent : f.opCode = "close" /\ (wire' = wire \/ wire' = Append(wire, f))
  BY <1>1, <1>2, <1>3, CloseOnTheWire
<1>8. Answers'
  <2>1. Pings' = Pings
    BY <1>2, <1>4, <1>5, SamePings
  <2>2. interrupts' # 0
    BY <1>2, <1>4
  <2>3. handled' <= stream.good /\ closes' = 0 => handled <= stream.good /\ closes = 0
    BY <1>4, <1>5
  <2> QED
    BY <1>2, <1>5, <1>7, <2>1, <2>2, <2>3, NoAnswer
<1> QED
  BY <1>3, <1>6, <1>7, <1>8

LEMMA SocketClosedKeeps ==
  ASSUME IInv, SocketClosed, UNCHANGED clientVars
  PROVE  LP!TypeOK' /\ Turn' /\ OnTheWire' /\ Answers'
<1>1. /\ UNCHANGED <<parserVars, written>>
      /\ LP!HandlerCloses \/ LP!ConnectionReset
  BY SocketIsLP DEF SocketClosed
<1>2. LP!TypeOK /\ OnTheWire /\ Turn
  BY DEF IInv
<1>3. LP!TypeOK'
  BY <1>1, <1>2, LP!OthersType, LayerAssumptions
<1>4. handled' = handled /\ wire' = wire /\ interrupts' \in {interrupts, interrupts + 1}
  BY <1>1 DEF LP!HandlerCloses, LP!ConnectionReset, LP!SocketClosed, LP!Interrupt
<1>5. /\ UNCHANGED <<stream, closes, strays, pc>> /\ handed' = handed
  BY <1>1 DEF parserVars, handed
<1>6. Turn'
  BY <1>2, <1>4, <1>5 DEF Turn, AllHandled
<1>7. OnTheWire' /\ Answers'
  BY <1>1, <1>2, <1>4, <1>5, SilentOnTheWire, SilentAnswers
<1> QED
  BY <1>3, <1>6, <1>7

\* The client, or nobody.
LEMMA ClientKeeps ==
  ASSUME IInv, ClientReads \/ UNCHANGED vars
  PROVE  LP!TypeOK' /\ Turn' /\ OnTheWire' /\ Answers'
<1>1. UNCHANGED <<parserVars, layerVars>>
  BY DEF ClientReads, vars
<1>2. LP!TypeOK /\ OnTheWire /\ Turn /\ Len(handed) \in Nat
  BY Numbers DEF IInv
<1>3. /\ UNCHANGED <<stream, closes, strays, pc>> /\ handed' = handed
  BY <1>1 DEF parserVars, handed
<1>4. LP!TypeOK'
  BY <1>1, <1>2, <1>3, LayerWaits DEF layerVars, LP!TypeOK
<1>5. Turn'
  BY <1>1, <1>2, <1>3 DEF Turn, AllHandled, layerVars
<1>6. OnTheWire'
  <2>1. CASE ClientReads
    BY <1>2, <2>1, ClientReadsOnTheWire
  <2>2. CASE UNCHANGED vars
    BY <1>2, <2>2, SilentOnTheWire DEF vars, layerVars
  <2> QED
    BY <2>1, <2>2
<1>7. Answers'
  BY <1>1, <1>3, SilentAnswers DEF layerVars
<1> QED
  BY <1>4, <1>5, <1>6, <1>7

-----------------------------------------------------------------------------
(* The invariant *)

\* Nothing has arrived, and everybody is at the start.
LEMMA InitPlace == Init => IInv
<1> SUFFICES ASSUME Init PROVE IInv
  OBVIOUS
<1>1. PP!IInv /\ PP!KnownOpCodes
  BY ParserIsPP, PP!InitPlace, PP!InitKnown, ParserAssumptions DEF Init
<1>2. /\ framesReceived = << >> /\ strays = << >> /\ closes = 0 /\ pc = "idle"
      /\ stream \in Streams
  BY DEF Init, Parser!Init
<1>3. Len(<< >>) = 0 /\ \A S : << >> \in Seq(S)
  BY EmptySeq
<1>4. Len(handed) = 0 /\ Len(framesReceived) = 0
  BY <1>2, <1>3, ConcatProperties DEF handed
<1>5. /\ handled = 0 /\ messageState = "unknown" /\ message = << >> /\ active = TRUE
      /\ socket = "open" /\ told = << >> /\ wire = << >> /\ messagesReceived = << >>
      /\ interrupts = 0 /\ written = << >> /\ readUpTo = 0 /\ framesRead = << >>
  BY DEF Init
<1>6. FramesArrived = 0
  BY <1>1, <1>2, <1>4, FramesCounted
<1>7. MP!IInv
  <2>1. ClientOf(stream, stream.frames) \in Clients
    BY <1>2, StreamType
  <2>2. MP!Init
    BY <1>5, <1>6, <2>1 DEF MP!Init
  <2> QED
    BY <2>2, MP!InitPlace, LayerAssumptions
<1>8. LP!TypeOK
  <2>1. Len(ClientOf(stream, handed).frames) = 0
    BY <1>4, LayerLength
  <2> QED
    BY <1>3, <1>4, <1>5, <2>1 DEF LP!TypeOK
<1>9. Turn
  BY <1>2, <1>4, <1>5 DEF Turn, AllHandled
<1>10. OnTheWire
  BY <1>5, InitOnTheWire
<1>11. Answers
  <2>1. Pings = {} /\ WirePongs = {}
    BY <1>3, <1>5 DEF Pings, WirePongs
  <2>2. Cardinality({}) = 0
    BY FS_EmptySet
  <2> QED
    BY <1>3, <1>5, <2>1, <2>2 DEF Answers
<1> QED
  BY <1>1, <1>7, <1>8, <1>9, <1>10, <1>11 DEF IInv

\* Errors are not taken back.
LEMMA ClosesGrow ==
  ASSUME IInv, [Next]_vars, closes' = 0
  PROVE  closes = 0
<1>1. PP!IInv /\ LP!TypeOK /\ Turn /\ closes \in Nat
  BY Numbers DEF IInv
<1>2. CASE ParseError
  BY <1>1, <1>2, ParseErrorHands
<1>3. CASE Process \/ \E n \in 1..Len(stream.bytes) : Read(n)
  BY <1>1, <1>3, ProcessHands, ReadHands
<1>4. CASE ReceivedFrame \/ Others \/ SocketClosed \/ ClientReads \/ UNCHANGED vars
  BY <1>4 DEF ReceivedFrame, Others, SocketClosed, ClientReads, vars, parserVars
<1> QED
  BY <1>2, <1>3, <1>4 DEF Next, ReaderQueue

LEMMA StepKeepsPlace == IInv /\ [Next]_vars => IInv'
<1> SUFFICES ASSUME IInv, [Next]_vars PROVE IInv'
  OBVIOUS
<1>1. (PP!IInv)' /\ (PP!KnownOpCodes)'
  BY ParserKeeps DEF IInv
<1>2. LP!TypeOK' /\ Turn' /\ OnTheWire' /\ Answers'
  <2>1. CASE (\E n \in 1..Len(stream.bytes) : Read(n)) /\ UNCHANGED clientVars
    BY <2>1, ReadKeeps
  <2>2. CASE Process /\ UNCHANGED clientVars
    BY <2>2, ProcessKeeps
  <2>3. CASE ParseError /\ UNCHANGED clientVars
    BY <2>3, ParseErrorKeeps
  <2>4. CASE ReceivedFrame /\ UNCHANGED clientVars
    BY <2>4, FrameKeeps
  <2>5. CASE Others /\ UNCHANGED clientVars
    BY <2>5, OthersKeep
  <2>6. CASE SocketClosed /\ UNCHANGED clientVars
    BY <2>6, SocketClosedKeeps
  <2>7. CASE ClientReads \/ UNCHANGED vars
    BY <2>7, ClientKeeps
  <2> QED
    BY <2>1, <2>2, <2>3, <2>4, <2>5, <2>6, <2>7 DEF Next, ReaderQueue
<1>3. closes' = 0 => (MP!IInv)'
  <2> SUFFICES ASSUME closes' = 0 PROVE (MP!IInv)'
    OBVIOUS
  <2>1. closes = 0
    BY ClosesGrow
  <2>2. MP!IInv /\ [MP!Next]_(MP!vars)
    BY <2>1, StepActs, WholeNextIsMP DEF IInv
  <2> QED
    BY <2>2, MP!StepKeepsPlace, LayerAssumptions
<1> QED
  BY <1>1, <1>2, <1>3 DEF IInv

\* The parser and the connection always agree on where the client is, and the
\* client on what it was sent.
THEOREM PlaceKept == Spec => []IInv
BY InitPlace, StepKeepsPlace, PTL DEF Spec

-----------------------------------------------------------------------------
(* The properties *)

\* The variables of the composition keep their types, after a parse error too.
THEOREM TypeCorrect == Spec => []TypeOK
<1>1. IInv => TypeOK
  <2> SUFFICES ASSUME IInv PROVE TypeOK
    OBVIOUS
  <2>1. Parser!TypeOK
    BY ParserTypes DEF IInv, PP!IInv
  <2>2. Layer!TypeOK
    BY LayerTypes DEF IInv
  <2>3. readUpTo \in 0..Len(written)
    BY MoreToRead DEF IInv
  <2> QED
    BY <2>1, <2>2, <2>3, Bytes DEF TypeOK, IInv, Turn, OnTheWire
<1> QED
  BY <1>1, PlaceKept, PTL

\* The n-th pong a client reads carries the payload of its n-th ping, however the
\* pings arrive, whatever else is sent and whoever closes the connection; none is
\* missing, and a client that keeps to the rules reads nothing else.
THEOREM AnswersPings == Spec => []PingsAnswered
<1>1. IInv => PingsAnswered
  <2> SUFFICES ASSUME IInv PROVE PingsAnswered
    OBVIOUS
  <2>1. OnTheWire /\ Answers /\ stream.good \in Nat /\ handled \in Nat /\ wire \in Seq(Sent)
    BY Numbers DEF IInv
  <2> DEFINE r == Len(framesRead)  n == Len(wire)
  <2>2. r \in Nat /\ n \in Nat /\ r <= n
    BY <2>1 DEF OnTheWire
  <2>3. ASSUME NEW i \in 1..r
        PROVE  /\ i \in 1..n
               /\ framesRead[i].opCode = rawValue["pong"] <=> wire[i].opCode = "pong"
               /\ framesRead[i].payload = wire[i].payload
    <3>1. i \in 1..n
      BY <2>2
    <3>2. framesRead[i] = FrameRead(wire[i]) /\ wire[i].opCode \in {"pong", "close"}
      <4>1. framesRead[i] = FrameRead(wire[i])
        BY <2>1 DEF OnTheWire
      <4>2. wire[i] \in Sent
        BY <2>1, <3>1, ElementOfSeq
      <4> QED
        BY <4>1, <4>2 DEF Sent
    <3>3. rawValue["pong"] # rawValue["close"]
      BY DEF rawValue
    <3> QED
      BY <3>1, <3>2, <3>3 DEF FrameRead
  <2>4. Pongs = {i \in WirePongs : i <= r}
    <3>1. \A i : i \in Pongs <=> i \in 1..r /\ wire[i].opCode = "pong"
      BY <2>3 DEF Pongs
    <3>2. \A i : i \in WirePongs <=> i \in 1..n /\ wire[i].opCode = "pong"
      BY DEF WirePongs
    <3>3. \A i : i \in 1..r <=> i \in 1..n /\ i <= r
      BY <2>2
    <3> QED
      BY <3>1, <3>2, <3>3
  <2>5. /\ IsFiniteSet(WirePongs) /\ Cardinality(WirePongs) \in Nat /\ WirePongs \in SUBSET Nat
        /\ Cardinality(Pings) \in Nat
        /\ \A i \in WirePongs : i <= n
    BY <2>1, PingsAndPongs
  <2>6. \A i \in Pongs : i \in WirePongs /\ Nth(Pongs, i) = Nth(WirePongs, i)
    <3> SUFFICES ASSUME NEW i \in Pongs PROVE i \in WirePongs /\ Nth(Pongs, i) = Nth(WirePongs, i)
      OBVIOUS
    <3>1. i \in WirePongs /\ i \in Nat /\ i <= r
      BY <2>4, <2>5
    <3>2. {j \in Pongs : j <= i} = {j \in WirePongs : j <= i}
      <4> HIDE DEF r, n
      <4>1. \A j : j \in WirePongs => j \in Nat
        BY <2>5
      <4>2. \A j \in Nat : j <= i => j <= r
        BY <2>2, <3>1
      <4>3. \A j : j \in Pongs <=> j \in WirePongs /\ j <= r
        BY <2>4
      <4>4. \A j : j \in Pongs /\ j <= i <=> j \in WirePongs /\ j <= i
        BY <4>1, <4>2, <4>3
      <4> QED
        BY <4>4, Zenon
    <3> QED
      BY <3>1, <3>2, Zenon DEF Nth
  <2>7. IsFiniteSet(Pongs) /\ Cardinality(Pongs) <= Cardinality(WirePongs) /\ Cardinality(Pongs) \in Nat
    <3>1. Pongs \in SUBSET WirePongs
      BY <2>6
    <3>2. IsFiniteSet(Pongs) /\ Cardinality(Pongs) <= Cardinality(WirePongs)
      BY <2>5, <3>1, FS_Subset
    <3> QED
      BY <3>2, FS_CardinalityType
  <2>8. \A k \in Pings, i \in Pongs :
          Nth(Pings, k) = Nth(Pongs, i) => framesRead[i].payload = stream.frames[k].payload
    <3> SUFFICES ASSUME NEW k \in Pings, NEW i \in Pongs, Nth(Pings, k) = Nth(Pongs, i)
                 PROVE  framesRead[i].payload = stream.frames[k].payload
      OBVIOUS
    <3>1. i \in WirePongs /\ Nth(Pings, k) = Nth(WirePongs, i) /\ i \in 1..r
      BY <2>6 DEF Pongs
    <3> QED
      BY <2>1, <2>3, <3>1 DEF Answers
  <2>9. r = n => Pongs = WirePongs
    BY <2>4, <2>5
  <2>10. readUpTo = Len(written) => Cardinality(Pings) <= Cardinality(Pongs)
    BY <2>1, <2>9, MoreToRead DEF Answers
  <2>11. ASSUME handled <= stream.good, closes = 0
         PROVE  /\ Cardinality(Pongs) <= Cardinality(Pings)
                /\ interrupts = 0 => r = Cardinality(Pongs)
    <3>1. /\ Cardinality(WirePongs) <= Cardinality(Pings)
          /\ interrupts = 0 => n = Cardinality(WirePongs)
      BY <2>1, <2>11 DEF Answers
    <3>2. Cardinality(Pongs) <= Cardinality(Pings)
      BY <2>5, <2>7, <3>1
    <3>3. ASSUME interrupts = 0 PROVE r = Cardinality(Pongs)
      <4>1. \A m \in Nat : IsFiniteSet(1..m) /\ Cardinality(1..m) = m
        BY FS_Interval
      <4>2. WirePongs \in SUBSET (1..n)
        BY DEF WirePongs
      <4>3. IsFiniteSet(1..n) /\ Cardinality(1..n) = n
        BY <2>2, <4>1
      <4>4. WirePongs = 1..n
        BY <3>1, <3>3, <4>2, <4>3, FS_Subset
      <4> HIDE DEF r, n
      <4>5. \A i : i \in Pongs <=> i \in 1..r
        BY <2>2, <2>4, <4>4
      <4>6. Pongs = 1..r
        BY <4>5, Zenon
      <4> QED
        BY <2>2, <4>1, <4>6
    <3> QED
      BY <3>2, <3>3
  <2> QED
    BY <2>8, <2>10, <2>11 DEF PingsAnswered
<1> QED
  BY <1>1, PlaceKept, PTL

\* Until a parse error, the bytes that arrive, the parser and the connection
\* together are a behaviour of Messages in which whole frames arrive.
THEOREM ActsAsMessages == Spec => ImplementsMessages
<1>1. Init => Whole!Init
  <2> SUFFICES ASSUME Init PROVE Whole!Init
    OBVIOUS
  <2>1. stream \in Streams
    BY DEF Init, Parser!Init
  <2>2. ClientOf(stream, stream.frames) \in Clients
    BY <2>1 DEF Clients
  <2>3. IInv /\ framesReceived = << >> /\ strays = << >> /\ closes = 0 /\ pc = "idle"
    BY InitPlace DEF Init, Parser!Init
  <2>4. Len(handed) = 0
    BY <2>3, EmptySeq, ConcatProperties DEF handed
  <2>5. FramesArrived = 0
    BY <2>3, <2>4, FramesCounted, Numbers DEF IInv
  <2> QED
    BY <2>2, <2>5 DEF Init, Whole!Init
<1>2. IInv /\ [Next]_vars => [closes' = 0 => Whole!Next]_(Whole!vars)
  BY StepActs
<1> QED
  BY <1>1, <1>2, PlaceKept, PTL DEF Spec, ImplementsMessages

\* A parse error, and what is handed to the connection behind one, hand on no
\* message.
LEMMA ErrorsHandOnNothing ==
  ASSUME IInv, [Next]_vars, closes' # 0
  PROVE  messagesReceived' = messagesReceived
<1>1. PP!IInv /\ LP!TypeOK /\ Turn /\ closes \in Nat
  BY Numbers DEF IInv
<1>2. CASE ParseError
  BY <1>1, <1>2, ParseErrorHands
<1>3. CASE ReceivedFrame
  <2>1. closes > 0
    BY <1>1, <1>3 DEF ReceivedFrame, parserVars
  <2>2. handled >= stream.good
    BY <1>1, <2>1, Numbers DEF Turn
  <2> QED
    BY <1>3, <2>2, FrameIsAnswered
<1>4. CASE Process \/ \E n \in 1..Len(stream.bytes) : Read(n)
  BY <1>4 DEF Process, Read, layerVars
<1>5. CASE Others \/ SocketClosed \/ ClientReads \/ UNCHANGED vars
  <2>1. CASE Others
    BY <2>1, LayerIsLP DEF Others, LP!CloseByOthers, LP!DropByOthers, LP!TimerExpires, LP!Interrupt
  <2>2. CASE SocketClosed
    BY <2>2, SocketIsLP DEF LP!HandlerCloses, LP!ConnectionReset, LP!SocketClosed, LP!Interrupt
  <2>3. CASE ClientReads \/ UNCHANGED vars
    BY <2>3 DEF ClientReads, vars, layerVars
  <2> QED
    BY <1>5, <2>1, <2>2, <2>3
<1> QED
  BY <1>2, <1>3, <1>4, <1>5 DEF Next, ReaderQueue

\* No more messages are handed on than the stream has.
LEMMA NeverTooMany ==
  MP!IInv => Len(messagesReceived) <= Len(Layer!Complete(ClientOf(stream, stream.frames)))
<1>1. Layer!Complete(ClientOf(stream, stream.frames)) = MP!Complete(ClientOf(stream, stream.frames))
  BY DEF Layer!Complete, MP!Complete
<1> QED
  BY <1>1, MP!CompleteMessages, LayerAssumptions

\* A step hands on the next message of the stream, or none.
LEMMA StepDelivers ==
  ASSUME IInv, IInv', [Next]_vars
  PROVE  [Service!Deliver]_(Service!vars)
<1> DEFINE c == ClientOf(stream, stream.frames)  all == Layer!Complete(c)
           k == Len(messagesReceived) + 1
<1>1. UNCHANGED stream
  <2>1. [PP!Next]_(PP!vars)
    BY StepParses
  <2> QED
    BY <2>1 DEF PP!Next, PP!vars, PP!parserVars, PP!history, PP!Read, PP!CallParse, PP!FinishBuffer,
           PP!ParseOpCode, PP!ParseMaskAndLength, PP!AwaitMaskAndLength, PP!ParsePayload,
           PP!ReturnIncomplete, PP!ReturnComplete, PP!RejectOpCode, PP!RejectUnmasked,
           PP!FailAfterError, PP!ContinueAfter
<1>2. UNCHANGED all
  BY <1>1
<1>3. CASE messagesReceived' = messagesReceived
  BY <1>2, <1>3 DEF Service!vars
<1>4. CASE messagesReceived' # messagesReceived
  <2>1. closes' = 0 /\ closes = 0
    BY <1>4, ErrorsHandOnNothing, ClosesGrow
  <2>2. MP!IInv /\ (MP!IInv)' /\ [MP!Next]_(MP!vars)
    BY <2>1, StepActs, WholeNextIsMP DEF IInv
  <2>3. PICK m \in MP!Message : messagesReceived' = Append(messagesReceived, m)
    BY <1>4, <2>2, MP!OneAtATime, LayerAssumptions
  <2>4. messagesReceived \in Seq(MP!Message) /\ Len(messagesReceived) \in Nat
    BY <2>2 DEF MP!IInv, MP!TypeOK
  <2>5. Len(messagesReceived') = k /\ messagesReceived'[k] = m /\ k \in 1..Len(messagesReceived')
    BY <2>3, <2>4
  <2>6. m = c.messages[k]
    BY <1>1, <2>2, <2>5 DEF MP!IInv, MP!HandedOn
  <2>7. all = MP!Complete(c)
    BY DEF Layer!Complete, MP!Complete
  <2>8. /\ Len(all) \in Nat
        /\ \A i \in 1..Len(all) : all[i] = c.messages[i]
    BY <2>2, <2>7, MP!CompleteMessages, LayerAssumptions
  <2>9. Len(messagesReceived') <= Len(all)
    <3>1. (Len(messagesReceived) <= Len(Layer!Complete(ClientOf(stream, stream.frames))))'
      BY <2>2, NeverTooMany, PTL
    <3> QED
      BY <1>2, <3>1
  <2>10. k \in 1..Len(all) /\ Len(messagesReceived) < Len(all)
    <3> DEFINE x == Len(messagesReceived)  y == Len(all)
    <3>1. x \in Nat /\ y \in Nat /\ x + 1 <= y
      BY <2>4, <2>5, <2>8, <2>9
    <3> HIDE DEF x, y
    <3>2. x + 1 \in 1..y /\ x < y
      BY <3>1
    <3> QED
      BY <3>2 DEF x, y
  <2>11. m = all[k]
    BY <2>6, <2>8, <2>10
  <2> QED
    BY <1>2, <2>3, <2>10, <2>11 DEF Service!Deliver
<1> QED
  BY <1>3, <1>4

\* Whatever way the bytes arrive, and whoever breaks the rules or closes the
\* connection, the service gets the messages of the stream one by one, in order,
\* each once (the safety part of DeliversEveryMessage).
THEOREM ImplementsDelivery == Spec => Service!SafeSpec
<1>1. Init => Service!Init
  BY DEF Init, Service!Init
<1>2. IInv /\ IInv' /\ [Next]_vars => [Service!Deliver]_(Service!vars)
  BY StepDelivers
<1> QED
  BY <1>1, <1>2, PlaceKept, PTL DEF Spec, Service!SafeSpec
=============================================================================
