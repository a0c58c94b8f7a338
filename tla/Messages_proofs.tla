-------------------------- MODULE Messages_proofs --------------------------
(***************************************************************************)
(* Proofs about Messages for every set of clients: while a client keeps to *)
(* the rules, messageState and message always say which of its messages it *)
(* is in and how much of it has come.                                      *)
(***************************************************************************)
EXTENDS Messages, SequenceTheorems, TLAPS

\* Where in its messages the client is, once the frames up to now are handled.
Reached == IF handled <= client.good THEN handled + 1 ELSE client.good + 1
Here == client.place[Reached]

\* messageState and message are those of the client's message in progress.
InProgress ==
  handled <= client.good =>
    IF Here.begun
      THEN LET m == client.messages[Here.message] IN
             /\ messageState = m.type
             /\ Len(message) = Here.at /\ Here.at <= Len(m.data)
             /\ \A i \in 1..Len(message) : message[i] = m.data[i]
      ELSE messageState = "unknown" /\ Here.at = 0

\* All the messages before that, and no others, have been handed on.
HandedOn ==
  /\ Len(received) = Here.message - 1
  /\ \A k \in 1..Len(received) : received[k] = client.messages[k]

\* Only close() by others leaves the socket of an inactive connection open.
InactiveIsClosing == ~active /\ interrupts = 0 => socket # "open"

IInv ==
  /\ client \in Clients
  /\ TypeOK
  /\ InProgress
  /\ HandedOn
  /\ BlamesOnlyViolations
  /\ handled > client.good => ~active
  /\ InactiveIsClosing

-----------------------------------------------------------------------------
(* CloseReason *)

\* The enumeration, name by name.
LEMMA Codes ==
  /\ CodeOf["normal"] = 1000 /\ CodeOf["goingAway"] = 1001
  /\ CodeOf["protocolError"] = 1002 /\ CodeOf["invalidDataType"] = 1003
  /\ CodeOf["noReasonCodeSent"] = 1005 /\ CodeOf["closedAbnormally"] = 1006
  /\ CodeOf["invalidDataContents"] = 1007 /\ CodeOf["policyViolation"] = 1008
  /\ CodeOf["messageTooLarge"] = 1009 /\ CodeOf["extensionMissing"] = 1010
  /\ CodeOf["serverError"] = 1011
BY SMT DEF CodeOf

\* The named reasons are reasons.
LEMMA ReasonType ==
  ASSUME NEW name \in DOMAIN CodeOf
  PROVE  Reason(name) \in WebSocketCloseReasonCode
BY SMT DEF Reason, WebSocketCloseReasonCode, UInt16

\* Sixteen bits.
LEMMA SixteenBits == \A c \in Nat : c <= 65535 <=> c \in UInt16
BY SMTT(30) DEF UInt16

\* Every reason has a sixteen bit code.
LEMMA CodeType ==
  ASSUME NEW r \in WebSocketCloseReasonCode
  PROVE  code(r) \in UInt16
<1>1. CASE r.name = "userDefined"
  BY <1>1 DEF code, WebSocketCloseReasonCode
<1>2. CASE r.name # "userDefined"
  <2>1. r.name \in {"normal", "goingAway", "protocolError", "invalidDataType",
                    "noReasonCodeSent", "closedAbnormally", "invalidDataContents",
                    "policyViolation", "messageTooLarge", "extensionMissing", "serverError"}
    BY <1>2, SMT DEF WebSocketCloseReasonCode, CodeOf
  <2>2. CodeOf[r.name] \in 1000..1011
    BY <2>1, Codes, SMT
  <2> DEFINE k == CodeOf[r.name]
  <2>3. code(r) = k
    BY <1>2, SMT DEF code
  <2>4. k \in 1000..1011
    BY <2>2
  <2> HIDE DEF k
  <2>5. k \in Nat /\ k <= 65535
    BY <2>4, SMT
  <2> QED
    BY <2>3, <2>5, SixteenBits, SMT
<1> QED
  BY <1>1, <1>2

\* Every code, also one that must not be sent, stands for a reason.
LEMMA FromType ==
  ASSUME NEW c \in UInt16
  PROVE  from(c) \in WebSocketCloseReasonCode
<1>1. CASE \E name \in OnWire : CodeOf[name] = c
  <2> DEFINE name == CHOOSE name \in OnWire : CodeOf[name] = c
  <2>1. name \in DOMAIN CodeOf
    BY <1>1 DEF OnWire
  <2>2. from(c) = Reason(name)
    BY <1>1 DEF from
  <2> QED
    BY <2>1, <2>2, ReasonType
<1>2. CASE ~ \E name \in OnWire : CodeOf[name] = c
  <2>1. from(c) = IF c < 3000 THEN Reason("protocolError") ELSE userDefined(c)
    BY <1>2 DEF from
  <2>2. "protocolError" \in DOMAIN CodeOf
    BY DEF CodeOf
  <2>3. userDefined(c) \in WebSocketCloseReasonCode
    BY DEF userDefined, WebSocketCloseReasonCode
  <2> QED
    BY <2>1, <2>2, <2>3, ReasonType
<1> QED
  BY <1>1, <1>2

\* A reason that comes out of a close frame goes back into one as the code it
\* was, if it is a code that may be sent, and as a protocol error otherwise
\* (from(code:) and code()).
THEOREM CloseCodeRoundTrip ==
  ASSUME NEW c \in UInt16
  PROVE  code(from(c)) = IF MayBeSent(c) THEN c ELSE 1002
<1>1. CASE \E name \in OnWire : CodeOf[name] = c
  <2> DEFINE name == CHOOSE name \in OnWire : CodeOf[name] = c
  <2>1. name \in OnWire /\ CodeOf[name] = c
    BY <1>1
  <2>2. from(c) = Reason(name)
    BY <1>1 DEF from
  <2> HIDE DEF name
  <2>3. name # "userDefined"
    BY <2>1 DEF OnWire, CodeOf
  <2>4. code(Reason(name)) = CodeOf[name]
    BY <2>3 DEF code, Reason
  <2>5. MayBeSent(c)
    BY <2>1 DEF MayBeSent
  <2> QED
    BY <2>1, <2>2, <2>4, <2>5
<1>2. CASE ~ \E name \in OnWire : CodeOf[name] = c
  <2>1. from(c) = IF c < 3000 THEN Reason("protocolError") ELSE userDefined(c)
    BY <1>2 DEF from
  <2>2. code(Reason("protocolError")) = 1002
    BY DEF code, Reason, CodeOf
  <2>3. code(userDefined(c)) = c
    BY DEF code, userDefined
  <2>4. c \notin {CodeOf[name] : name \in OnWire}
    BY <1>2
  <2>5. c \in Int
    BY SMTT(30) DEF UInt16
  <2>6. c >= 3000 <=> ~(c < 3000)
    BY <2>5, SMT
  <2>7. MayBeSent(c) <=> ~(c < 3000)
    BY <2>4, <2>6 DEF MayBeSent
  <2> QED
    BY <2>1, <2>2, <2>3, <2>7
<1> QED
  BY <1>1, <1>2

\* A code on the wire is two bytes.
LEMMA CodeBytesType ==
  ASSUME NEW r \in WebSocketCloseReasonCode
  PROVE  CodeBytes(r) \in Seq(Byte)
<1> DEFINE c == code(r)
<1>0. c \in UInt16
  BY CodeType
<1> HIDE DEF c
<1>1. c \in Nat /\ c < 65536
  BY <1>0, SMTT(30) DEF UInt16
<1>2. c \div 256 \in Nat /\ c \div 256 <= 255
  BY <1>1, SMT
<1>3. c % 256 \in Nat /\ c % 256 <= 255
  BY <1>1, SMT
<1>4. c \div 256 \in Byte /\ c % 256 \in Byte
  BY <1>2, <1>3, SMT DEF Byte
<1> QED
  BY <1>4 DEF CodeBytes, c

\* The reasons that blame a client have other codes than the rest.
LEMMA Blame ==
  /\ CodeBytes(Reason("protocolError")) = <<3, 234>>
  /\ CodeBytes(Reason("invalidDataContents")) = <<3, 239>>
  /\ CodeBytes(Reason("normal")) = <<3, 232>>
  /\ CodeBytes(Reason("closedAbnormally")) = <<3, 238>>
<1>1. /\ code(Reason("protocolError")) = 1002
      /\ code(Reason("invalidDataContents")) = 1007
      /\ code(Reason("normal")) = 1000
      /\ code(Reason("closedAbnormally")) = 1006
  BY Codes, SMT DEF code, Reason
<1>2. /\ 1002 \div 256 = 3 /\ 1002 % 256 = 234
      /\ 1007 \div 256 = 3 /\ 1007 % 256 = 239
      /\ 1000 \div 256 = 3 /\ 1000 % 256 = 232
      /\ 1006 \div 256 = 3 /\ 1006 % 256 = 238
  BY SMT
<1> QED
  BY <1>1, <1>2, SMT DEF CodeBytes

-----------------------------------------------------------------------------
(* What a well formed client says of one of its frames. *)

\* A client and its parts.
LEMMA ClientType ==
  ASSUME NEW c \in Clients
  PROVE  /\ c.frames \in Seq(WSFrame) /\ c.messages \in Seq(Message)
         /\ c.good \in Nat /\ c.good <= Len(c.frames)
<1>1. WellFormed(c)
  BY ClientsAssumption
<1>2. c.frames \in Seq(WSFrame) /\ c.messages \in Seq(Message)
  BY <1>1 DEF WellFormed
<1>3. Len(c.frames) \in Nat /\ c.good \in 0..Len(c.frames)
  BY <1>1, <1>2 DEF WellFormed
<1> QED
  BY <1>2, <1>3

\* A place and its parts.
LEMMA PlaceType ==
  ASSUME NEW c \in Clients, NEW i \in 1..(c.good + 1)
  PROVE  /\ c.place[i] \in Place
         /\ c.place[i].message \in Nat \ {0}
         /\ c.place[i].at \in Nat
         /\ c.place[i].begun \in BOOLEAN
         /\ c.place[i].message <= Len(c.messages) + (IF c.place[i].begun THEN 0 ELSE 1)
         /\ c.place[i].message <= c.place[c.good + 1].message
<1>1. WellFormed(c)
  BY ClientsAssumption
<1>2. c.place[i] \in Place
  BY <1>1 DEF WellFormed
<1>3. /\ c.place[i].message \in Nat \ {0} /\ c.place[i].at \in Nat
      /\ c.place[i].begun \in BOOLEAN
  BY <1>2 DEF Place
<1>4. c.place[i].message <= Len(c.messages) + (IF c.place[i].begun THEN 0 ELSE 1)
  BY <1>1 DEF WellFormed
<1>5. c.place[i].message <= c.place[c.good + 1].message
  BY <1>1 DEF WellFormed
<1> QED
  BY <1>2, <1>3, <1>4, <1>5, Zenon

\* A client's messages, of which the texts are UTF-8.
LEMMA MessageType ==
  ASSUME NEW c \in Clients, NEW k \in 1..Len(c.messages)
  PROVE  /\ c.messages[k] \in Message
         /\ c.messages[k].type = "text" => IsText(c.messages[k].data)
<1>1. c.messages[k] \in Message
  BY ClientType
<1>2. c.messages[k].type = "text" => IsText(c.messages[k].data)
  BY ClientsAssumption, Zenon DEF WellFormed
<1> QED
  BY <1>1, <1>2

\* A good frame is a control frame or the next fragment of a message.
LEMMA GoodFrame ==
  ASSUME NEW c \in Clients, NEW i \in 1..c.good
  PROVE  LET p == c.place[i]  q == c.place[i + 1]  f == c.frames[i] IN
           IF IsControl(f)
             THEN q = p
             ELSE p.message <= Len(c.messages) /\ IsFragment(f, c.messages[p.message], p, q)
<1>1. WellFormed(c)
  BY ClientsAssumption
<1> QED
  BY <1>1 DEF WellFormed

\* The frame being handled is a frame.
LEMMA FrameType ==
  ASSUME IInv, handled < available
  PROVE  /\ frame \in WSFrame /\ frame.opCode \in FrameOpcode
         /\ frame.finalFrame \in BOOLEAN /\ frame.payload \in Seq(Byte)
<1>1. client.frames \in Seq(WSFrame)
  BY ClientsAssumption DEF IInv, WellFormed
<1>2. handled + 1 \in 1..Len(client.frames)
  BY <1>1 DEF IInv, TypeOK
<1>3. frame \in WSFrame
  BY <1>1, <1>2 DEF frame
<1> QED
  BY <1>3 DEF WSFrame

-----------------------------------------------------------------------------
(* What received(frame:) does to the variables, whatever the frame. *)

\* A hard close: the close frame is sent and the socket on its way.
LEMMA CloseHardShape ==
  ASSUME TypeOK, NEW r \in WebSocketCloseReasonCode, CloseHard(r)
  PROVE  /\ active' = FALSE
         /\ socket' \in {"closing", "closed"}
         /\ wire' \in Seq([opCode : {"pong", "close"}, payload : Seq(Byte)])
         /\ wire' = Append(wire, [opCode |-> "close", payload |-> CodeBytes(r)])
<1>1. CodeBytes(r) \in Seq(Byte)
  BY CodeBytesType
<1>2. wire' = Append(wire, [opCode |-> "close", payload |-> CodeBytes(r)])
  BY DEF CloseHard, SendMessage
<1>3. wire' \in Seq([opCode : {"pong", "close"}, payload : Seq(Byte)])
  BY <1>1, <1>2 DEF TypeOK
<1>4. active' = FALSE /\ socket' \in {"closing", "closed"}
  BY DEF CloseHard, PrepareToClose, TypeOK
<1> QED
  BY <1>2, <1>3, <1>4

\* connectionClosed leaves an inactive connection with a closing socket.
LEMMA ConnectionClosedShape ==
  ASSUME TypeOK, NEW r \in WebSocketCloseReasonCode, ConnectionClosed(r)
  PROVE  /\ active' = FALSE
         /\ socket' \in {"closing", "closed"}
         /\ wire' \in Seq([opCode : {"pong", "close"}, payload : Seq(Byte)])
         /\ \/ wire' = wire
            \/ wire' = Append(wire, [opCode |-> "close", payload |-> CodeBytes(r)])
         /\ told' \in Seq(Block)
<1>1. CASE active
  <2>1. CloseHard(r) /\ told' = Append(told, [method |-> "disconnected", reason |-> r])
    BY <1>1 DEF ConnectionClosed
  <2>2. [method |-> "disconnected", reason |-> r] \in Block
    BY DEF Block
  <2>3. told' \in Seq(Block)
    BY <2>1, <2>2 DEF TypeOK
  <2> QED
    BY <2>1, <2>3, CloseHardShape
<1>2. CASE ~active
  BY <1>2 DEF ConnectionClosed, PrepareToClose, TypeOK
<1> QED
  BY <1>1, <1>2

\* The reasons received(frame:) gives are reasons.
LEMMA Reasons ==
  /\ Reason("protocolError") \in WebSocketCloseReasonCode
  /\ Reason("invalidDataContents") \in WebSocketCloseReasonCode
  /\ Reason("normal") \in WebSocketCloseReasonCode
  /\ Reason("closedAbnormally") \in WebSocketCloseReasonCode
  /\ Reason("noReasonCodeSent") \in WebSocketCloseReasonCode
<1>1. {"protocolError", "invalidDataContents", "normal", "closedAbnormally",
       "noReasonCodeSent"} \subseteq DOMAIN CodeOf
  BY DEF CodeOf
<1> QED
  BY <1>1, ReasonType

\* The effect of a step on the variables a frame's handling may change.
Shape ==
  /\ active' \in BOOLEAN
  /\ socket' \in {"open", "closing", "closed"}
  /\ \/ active' = active /\ socket' = socket
     \/ active' = FALSE /\ socket' # "open"
  /\ wire' \in Seq([opCode : {"pong", "close"}, payload : Seq(Byte)])
  /\ told' \in Seq(Block)
  /\ received' \in Seq(Message)
  /\ received' = received \/ \E m \in Message : received' = Append(received, m)
  /\ handled >= client.good => received' = received

\* A complete message is handed on or, if it is no text, closes the connection.
LEMMA FireShape ==
  ASSUME TypeOK, NEW type \in {"text", "binary"}, NEW data \in Seq(Byte),
         client.good \in Nat, FireReceived(type, data)
  PROVE  /\ Shape
         /\ type = "text" /\ ~IsText(data) => active' = FALSE
<1>1. CASE type = "text" /\ ~IsText(data)
  <2>1. CloseHard(Reason("invalidDataContents")) /\ UNCHANGED <<told, received>>
    BY <1>1 DEF FireReceived, FireReceivedString
  <2> QED
    BY <2>1, CloseHardShape, Reasons DEF Shape, TypeOK
<1>2. CASE ~(type = "text" /\ ~IsText(data))
  <2>1. Fire(type, data)
    BY <1>2 DEF FireReceived, FireReceivedString
  <2> DEFINE m == [type |-> type, data |-> data]
  <2>2. m \in Message
    BY DEF Message
  <2>3. [method |-> "received", message |-> m] \in Block
    BY <2>2 DEF Block
  <2>4. /\ told' = Append(told, [method |-> "received", message |-> m])
        /\ received' = IF handled < client.good THEN Append(received, m) ELSE received
        /\ UNCHANGED <<active, socket, wire>>
    BY <2>1 DEF Fire
  <2> HIDE DEF m
  <2>5. told' \in Seq(Block)
    BY <2>3, <2>4 DEF TypeOK
  <2>6. /\ received' \in Seq(Message)
        /\ received' = received \/ \E x \in Message : received' = Append(received, x)
    BY <2>2, <2>4 DEF TypeOK
  <2>7. handled >= client.good => received' = received
    BY <2>4 DEF TypeOK
  <2> QED
    BY <1>2, <2>4, <2>5, <2>6, <2>7 DEF Shape, TypeOK
<1> QED
  BY <1>1, <1>2

\* A protocol error ends the connection.
LEMMA ProtocolErrorShape ==
  ASSUME TypeOK, ProtocolError
  PROVE  Shape /\ active' = FALSE /\ UNCHANGED <<messageState, message>>
BY ConnectionClosedShape, Reasons DEF ProtocolError, Shape, TypeOK

\* The reason in a close frame is one, whatever its bytes.
LEMMA ReasonInType ==
  ASSUME NEW payload \in Seq(Byte), Len(payload) # 1
  PROVE  ReasonIn(payload) \in WebSocketCloseReasonCode
<1>1. CASE payload = << >>
  BY <1>1, Reasons DEF ReasonIn
<1>2. CASE payload # << >>
  <2>1. payload[1] \in Byte /\ payload[2] \in Byte
    <3>1. Len(payload) \in Nat \ {0}
      BY <1>2, EmptySeq, Zenon
    <3> DEFINE n == Len(payload)
    <3>2. n \in Nat \ {0} /\ n # 1
      BY <3>1
    <3> HIDE DEF n
    <3>3. 1 \in 1..n /\ 2 \in 1..n
      BY <3>2
    <3> QED
      BY <3>3 DEF n
  <2> DEFINE a == payload[1]  b == payload[2]
  <2>2. a \in 0..255 /\ b \in 0..255
    BY <2>1, Zenon DEF Byte
  <2> HIDE DEF a, b
  <2> DEFINE c == 256 * a + b
  <2>3. c \in UInt16
    <3>1. a \in Nat /\ a <= 255 /\ b \in Nat /\ b <= 255
      BY <2>2, SMT
    <3>2. c \in Nat /\ c <= 65535
      BY <3>1, SMT
    <3> HIDE DEF c
    <3> QED
      BY <3>2, SixteenBits, SMT
  <2>4. ReasonIn(payload) = from(c)
    BY <1>2 DEF ReasonIn, a, b
  <2> HIDE DEF c
  <2> QED
    BY <2>3, <2>4, FromType
<1> QED
  BY <1>1, <1>2

\* A close frame leaves an inactive connection behind.
LEMMA ReceivedCloseShape ==
  ASSUME TypeOK, frame.payload \in Seq(Byte), ReceivedClose
  PROVE  Shape /\ active' = FALSE /\ UNCHANGED <<messageState, message>>
<1> DEFINE payload == frame.payload
<1>1. UNCHANGED <<messageState, message, received>>
  BY DEF ReceivedClose
<1>2. CASE ~active /\ UNCHANGED <<active, socket, told, wire>>
  BY <1>1, <1>2 DEF Shape, TypeOK
<1>3. CASE ConnectionClosed(Reason("protocolError"))
  BY <1>1, <1>3, ConnectionClosedShape, Reasons DEF Shape, TypeOK
<1>4. CASE CloseHard(Reason("invalidDataContents")) /\ UNCHANGED told
  BY <1>1, <1>4, CloseHardShape, Reasons DEF Shape, TypeOK
<1>5. CASE Len(payload) # 1 /\ ConnectionClosed(ReasonIn(payload))
  BY <1>1, <1>5, ConnectionClosedShape, ReasonInType DEF Shape, TypeOK
<1>6. Len(payload) = 1 => payload # << >> /\ Len(payload) \notin 2..ControlLimit
  <2>1. 1 \notin 2..ControlLimit /\ Len(<< >>) # 1
    BY BoundsAssumption
  <2> QED
    BY <2>1, Zenon
<1> QED
  BY <1>2, <1>3, <1>4, <1>5, <1>6 DEF ReceivedClose

\* What every frame leaves as it is, and the values it gives to the rest: no
\* matter who sent it, and in what state of the connection it comes.
LEMMA AnyFrameShape ==
  ASSUME TypeOK, client.frames \in Seq(WSFrame), client.good \in Nat, ReceivedFrame
  PROVE  /\ handled < available /\ handled' = handled + 1
         /\ UNCHANGED <<client, available, interrupts>>
         /\ messageState' \in {"unknown", "text", "binary"}
         /\ message' \in Seq(Byte)
         /\ Shape
<1>1. /\ handled < available /\ handled' = handled + 1
      /\ UNCHANGED <<client, available, interrupts>>
  BY DEF ReceivedFrame, ReceivedFirst, ReceivedFirstTooSoon, ReceivedContinuation,
         ReceivedContinuationOfNothing, ReceivedPing, ReceivedPong, ReceivedClose, Received
<1>2. /\ frame.opCode \in FrameOpcode
      /\ frame.finalFrame \in BOOLEAN /\ frame.payload \in Seq(Byte)
  <2>1. handled + 1 \in 1..Len(client.frames)
    BY <1>1 DEF TypeOK
  <2>2. frame \in WSFrame
    BY <2>1 DEF frame
  <2> QED
    BY <2>2 DEF WSFrame
<1>3. TypeOK /\ client.good \in Nat
  OBVIOUS
<1>4. UNCHANGED <<active, socket, told, wire, received>> => Shape
  BY <1>3 DEF Shape, TypeOK
<1>5. CASE ReceivedFirst
  <2>1. frame.opCode \in {"text", "binary"}
    BY <1>5 DEF ReceivedFirst, Received
  <2>2. CASE frame.finalFrame
    <3>1. FireReceived(frame.opCode, frame.payload) /\ UNCHANGED <<messageState, message>>
      BY <1>5, <2>2 DEF ReceivedFirst
    <3>2. Shape
      BY <1>2, <1>3, <2>1, <3>1, FireShape
    <3> QED
      BY <1>1, <1>3, <3>1, <3>2 DEF TypeOK
  <2>3. CASE ~frame.finalFrame
    <3>1. /\ messageState' = frame.opCode /\ message' = frame.payload
          /\ UNCHANGED <<active, socket, told, wire, received>>
      BY <1>5, <2>3 DEF ReceivedFirst
    <3> QED
      BY <1>1, <1>2, <1>4, <2>1, <3>1
  <2> QED
    BY <2>2, <2>3
<1>6. CASE ReceivedContinuation
  <2>1. messageState \in {"text", "binary"} /\ message' = message \o frame.payload
    BY <1>3, <1>6 DEF ReceivedContinuation, TypeOK
  <2>2. message' \in Seq(Byte)
    BY <1>2, <1>3, <2>1 DEF TypeOK
  <2>3. CASE frame.finalFrame
    <3>1. FireReceived(messageState, message') /\ messageState' = "unknown"
      BY <1>6, <2>3 DEF ReceivedContinuation
    <3>2. Shape
      BY <1>3, <2>1, <2>2, <3>1, FireShape
    <3> QED
      BY <1>1, <2>2, <3>1, <3>2
  <2>4. CASE ~frame.finalFrame
    <3>1. UNCHANGED <<messageState, active, socket, told, wire, received>>
      BY <1>6, <2>4 DEF ReceivedContinuation
    <3> QED
      BY <1>1, <1>4, <2>1, <2>2, <3>1
  <2> QED
    BY <2>3, <2>4
<1>7. CASE ProtocolError
  BY <1>1, <1>3, <1>7, ProtocolErrorShape DEF TypeOK
<1>8. CASE ReceivedPing /\ ~ProtocolError
  <2>1. SendMessage("pong", frame.payload)
        /\ UNCHANGED <<messageState, message, active, socket, told, received>>
    BY <1>8 DEF ReceivedPing
  <2>2. wire' = Append(wire, [opCode |-> "pong", payload |-> frame.payload])
    BY <2>1 DEF SendMessage
  <2>3. wire' \in Seq([opCode : {"pong", "close"}, payload : Seq(Byte)])
    BY <1>2, <1>3, <2>2 DEF TypeOK
  <2> QED
    BY <1>1, <1>3, <2>1, <2>3 DEF Shape, TypeOK
<1>9. CASE ReceivedPong
  BY <1>1, <1>3, <1>4, <1>9 DEF ReceivedPong, TypeOK
<1>10. CASE ReceivedClose
  BY <1>1, <1>2, <1>3, <1>10, ReceivedCloseShape DEF TypeOK
<1> QED
  BY <1>5, <1>6, <1>7, <1>8, <1>9, <1>10
     DEF ReceivedFrame, ReceivedFirstTooSoon, ReceivedContinuationOfNothing

\* The same of a frame of one of the clients.
LEMMA ReceivedShape ==
  ASSUME IInv, ReceivedFrame
  PROVE  /\ handled < available /\ handled' = handled + 1
         /\ UNCHANGED <<client, available, interrupts>>
         /\ messageState' \in {"unknown", "text", "binary"}
         /\ message' \in Seq(Byte)
         /\ Shape
BY AnyFrameShape, ClientType DEF IInv

-----------------------------------------------------------------------------
(* Frames that end what the client sends, and what comes after them. *)

\* The message in progress is what has been sent of the client's message.
LEMMA MessageSoFar ==
  ASSUME IInv, handled <= client.good, Here.begun
  PROVE  /\ Here.message \in 1..Len(client.messages)
         /\ client.messages[Here.message] \in Message
         /\ messageState = client.messages[Here.message].type
         /\ message = SubSeq(client.messages[Here.message].data, 1, Here.at)
<1> DEFINE m == client.messages[Here.message]
<1>1. Reached \in 1..(client.good + 1) /\ Reached = handled + 1
  BY ClientType DEF IInv, TypeOK, Reached
<1>2. Here.message \in Nat \ {0} /\ Here.at \in Nat /\ Here.message <= Len(client.messages)
  <2>1. /\ Here.message \in Nat \ {0} /\ Here.at \in Nat
        /\ Here.message <= Len(client.messages) + (IF Here.begun THEN 0 ELSE 1)
    BY <1>1, PlaceType, Zenon DEF IInv, Here
  <2>2. Len(client.messages) \in Nat
    BY ClientType DEF IInv
  <2> DEFINE k == Here.message  n == Len(client.messages)
  <2>3. k \in Nat \ {0} /\ n \in Nat /\ k <= n + 0
    BY <2>1, <2>2, Zenon
  <2> HIDE DEF k, n
  <2>4. k <= n
    BY <2>3
  <2> QED
    BY <2>1, <2>4 DEF k, n
<1>3. Here.message \in 1..Len(client.messages) /\ m \in Message
  BY <1>2, ClientType DEF IInv
<1>4. /\ messageState = m.type
      /\ Len(message) = Here.at /\ Here.at <= Len(m.data)
      /\ \A i \in 1..Len(message) : message[i] = m.data[i]
  BY DEF IInv, InProgress
<1>5. m.data \in Seq(Byte) /\ message \in Seq(Byte)
  BY <1>3 DEF Message, IInv, TypeOK
<1> HIDE DEF m
<1>6. /\ SubSeq(m.data, 1, Here.at) \in Seq(Byte)
      /\ Len(SubSeq(m.data, 1, Here.at)) = Here.at
      /\ \A i \in 1..Here.at : SubSeq(m.data, 1, Here.at)[i] = m.data[i]
  BY <1>2, <1>4, <1>5
<1>7. message = SubSeq(m.data, 1, Here.at)
  BY <1>4, <1>5, <1>6, SeqEqual
<1> QED
  BY <1>3, <1>4, <1>7 DEF m

\* What ends the good frames makes the connection inactive, and so it stays.
LEMMA EndsConnection ==
  ASSUME IInv, ReceivedFrame, handled >= client.good
  PROVE  active' = FALSE
<1>1. CASE handled > client.good
  <2>1. ~active /\ active \in BOOLEAN
    BY <1>1 DEF IInv, TypeOK
  <2> QED
    BY <2>1, ReceivedShape DEF Shape
<1>2. CASE handled = client.good
  <2> DEFINE p == client.place[client.good + 1]
  <2>1. /\ handled < available /\ available <= Len(client.frames)
        /\ handled \in Nat /\ available \in Nat /\ Len(client.frames) \in Nat
    BY ReceivedShape, ClientType DEF IInv, TypeOK
  <2>2. IsEnd(frame, client.messages, p)
    <3>1. client.good < Len(client.frames)
      BY <1>2, <2>1
    <3> QED
      BY <1>2, <3>1, ClientsAssumption DEF IInv, WellFormed, frame
  <2>3. Here = p /\ p.begun \in BOOLEAN
    <3>1. client.good + 1 \in 1..(client.good + 1)
      BY ClientType DEF IInv
    <3>2. p.begun \in BOOLEAN
      BY <3>1, PlaceType DEF IInv
    <3>3. Reached = client.good + 1
      BY <1>2, ClientType DEF Reached, IInv
    <3> QED
      BY <3>2, <3>3 DEF Here
  <2>4. /\ frame.opCode \in FrameOpcode /\ frame.finalFrame \in BOOLEAN
        /\ frame.payload \in Seq(Byte)
    BY <2>1, FrameType
  <2>5. ~p.begun => messageState = "unknown"
    BY <1>2, <2>1, <2>3 DEF IInv, InProgress
  <2>6. p.begun => /\ client.messages[p.message] \in Message
                   /\ messageState = client.messages[p.message].type
                   /\ messageState \in {"text", "binary"}
                   /\ message = SubSeq(client.messages[p.message].data, 1, p.at)
    <3>1. handled <= client.good
      BY <1>2, <2>1
    <3>2. Here.begun => /\ client.messages[Here.message] \in Message
                        /\ messageState = client.messages[Here.message].type
                        /\ message = SubSeq(client.messages[Here.message].data, 1, Here.at)
      BY <3>1, MessageSoFar, Zenon
    <3>3. \A m \in Message : m.type \in {"text", "binary"}
      BY DEF Message
    <3> QED
      BY <2>3, <3>2, <3>3, Zenon
  <2> HIDE DEF p
  <2>7. TypeOK /\ client.good \in Nat
    BY ClientType DEF IInv
  <2>8. ProtocolError => active' = FALSE
    BY <2>7, ProtocolErrorShape
  <2>9. CASE frame.opCode = "close"
    <3>1. ReceivedClose
      BY <2>9 DEF ReceivedFrame, ReceivedFirst, ReceivedFirstTooSoon, ReceivedContinuation,
                  ReceivedContinuationOfNothing, ReceivedPing, ReceivedPong, Received
    <3> QED
      BY <2>4, <2>7, <3>1, ReceivedCloseShape
  <2>10. CASE frame.opCode = "ping" /\ ~IsControl(frame)
    <3>1. ReceivedPing
      BY <2>10 DEF ReceivedFrame, ReceivedFirst, ReceivedFirstTooSoon, ReceivedContinuation,
                  ReceivedContinuationOfNothing, ReceivedClose, ReceivedPong, Received
    <3> QED
      BY <2>8, <2>10, <3>1 DEF ReceivedPing
  <2>11. CASE frame.opCode = "continuation" /\ ~p.begun
    <3>1. ReceivedContinuationOfNothing
      BY <2>5, <2>11 DEF ReceivedFrame, ReceivedFirst, ReceivedFirstTooSoon,
           ReceivedContinuation, ReceivedPing, ReceivedClose, ReceivedPong, Received
    <3> QED
      BY <2>8, <3>1 DEF ReceivedContinuationOfNothing
  <2>12. CASE frame.opCode \in {"text", "binary"} /\ p.begun
    <3>1. ReceivedFirstTooSoon
      BY <2>6, <2>12 DEF ReceivedFrame, ReceivedFirst, ReceivedContinuationOfNothing,
           ReceivedContinuation, ReceivedPing, ReceivedClose, ReceivedPong, Received
    <3> QED
      BY <2>8, <3>1 DEF ReceivedFirstTooSoon
  <2>13. CASE frame.opCode = "text" /\ ~p.begun /\ frame.finalFrame /\ ~IsText(frame.payload)
    <3>1. ReceivedFirst
      BY <2>5, <2>13 DEF ReceivedFrame, ReceivedFirstTooSoon, ReceivedContinuationOfNothing,
           ReceivedContinuation, ReceivedPing, ReceivedClose, ReceivedPong, Received
    <3>2. FireReceived("text", frame.payload)
      BY <2>13, <3>1 DEF ReceivedFirst
    <3> QED
      BY <2>4, <2>7, <2>13, <3>2, FireShape
  <2>14. CASE /\ frame.opCode = "continuation" /\ p.begun /\ frame.finalFrame
              /\ client.messages[p.message].type = "text"
              /\ ~IsText(SubSeq(client.messages[p.message].data, 1, p.at) \o frame.payload)
    <3>1. ReceivedContinuation
      BY <2>6, <2>14 DEF ReceivedFrame, ReceivedFirstTooSoon, ReceivedContinuationOfNothing,
           ReceivedFirst, ReceivedPing, ReceivedClose, ReceivedPong, Received
    <3>2. FireReceived("text", message') /\ ~IsText(message')
      BY <2>6, <2>14, <3>1 DEF ReceivedContinuation
    <3>3. message' \in Seq(Byte)
      BY ReceivedShape
    <3> QED
      BY <2>7, <3>2, <3>3, FireShape
  <2> QED
    BY <2>2, <2>9, <2>10, <2>11, <2>12, <2>13, <2>14 DEF IsEnd
<1>3. handled \in Int /\ client.good \in Int
  <2>1. Len(client.frames) \in Nat /\ client.good \in Nat
    BY ClientType DEF IInv
  <2>2. available \in Nat
    BY <2>1 DEF IInv, TypeOK
  <2> QED
    BY <2>1, <2>2 DEF IInv, TypeOK
<1>4. handled > client.good \/ handled = client.good
  BY <1>3
<1> QED
  BY <1>1, <1>2, <1>4

\* handled and the length of the good frames are numbers.
LEMMA Numbers ==
  ASSUME IInv
  PROVE  /\ client.good \in Nat /\ Len(client.frames) \in Nat
         /\ available \in Nat /\ handled \in Nat
         /\ available <= Len(client.frames) /\ handled <= available
<1>1. Len(client.frames) \in Nat /\ client.good \in Nat
  BY ClientType DEF IInv
<1>2. available \in Nat /\ available <= Len(client.frames)
  BY <1>1 DEF IInv, TypeOK
<1> QED
  BY <1>1, <1>2 DEF IInv, TypeOK

\* The type invariant after a frame.
LEMMA TypeAfterFrame ==
  ASSUME IInv, ReceivedFrame
  PROVE  TypeOK'
<1>1. handled' \in 0..available'
  BY ReceivedShape, Numbers
<1> QED
  BY <1>1, ReceivedShape DEF Shape, IInv, TypeOK

\* The frame that ends the good ones, and those behind it.
LEMMA BadFrame ==
  ASSUME IInv, ReceivedFrame, handled >= client.good
  PROVE  IInv'
<1>1. client' = client /\ handled' = handled + 1 /\ interrupts' = interrupts
  BY ReceivedShape
<1>2. handled' > client'.good /\ ~(handled' <= client'.good)
  BY <1>1, Numbers
<1>3. Here' = Here
  <2>1. Reached = client.good + 1
    BY Numbers DEF Reached
  <2>2. Reached' = client.good + 1
    BY <1>1, <1>2 DEF Reached
  <2> QED
    BY <1>1, <2>1, <2>2 DEF Here
<1>4. InProgress' /\ BlamesOnlyViolations'
  BY <1>2 DEF InProgress, BlamesOnlyViolations
<1>5. HandedOn'
  BY <1>1, <1>3, ReceivedShape DEF Shape, IInv, HandedOn
<1>6. ~active'
  BY EndsConnection
<1>7. InactiveIsClosing'
  <2>1. CASE socket' # "open"
    BY <2>1 DEF InactiveIsClosing
  <2>2. CASE active' = active /\ socket' = socket
    BY <1>1, <2>2 DEF InactiveIsClosing, IInv
  <2> QED
    BY <2>1, <2>2, ReceivedShape DEF Shape
<1> QED
  BY <1>1, <1>4, <1>5, <1>6, <1>7, TypeAfterFrame DEF IInv

-----------------------------------------------------------------------------
(* Frames of a client that keeps to the rules *)

\* The place of the frame being handled, and of the next.
LEMMA NextPlace ==
  ASSUME IInv, ReceivedFrame, handled < client.good
  PROVE  /\ Here = client.place[handled + 1] /\ Here' = client.place[handled + 2]
         /\ Here.message \in Nat \ {0} /\ Here.at \in Nat /\ Here.begun \in BOOLEAN
         /\ IF IsControl(frame)
              THEN Here' = Here
              ELSE /\ Here.message <= Len(client.messages)
                   /\ IsFragment(frame, client.messages[Here.message], Here, Here')
<1>1. client' = client /\ handled' = handled + 1
  BY ReceivedShape
<1>2. handled + 1 \in 1..client.good /\ handled + 1 \in 1..(client.good + 1)
  BY Numbers
<1>3. Reached = handled + 1 /\ Reached' = handled + 2
  BY <1>1, Numbers DEF Reached
<1>4. Here = client.place[handled + 1] /\ Here' = client.place[handled + 2]
  BY <1>1, <1>3 DEF Here
<1>5. Here.message \in Nat \ {0} /\ Here.at \in Nat /\ Here.begun \in BOOLEAN
  BY <1>2, <1>4, PlaceType DEF IInv
<1>6. (handled + 1) + 1 = handled + 2
  BY Numbers
<1> DEFINE i == handled + 1
<1>7. i \in 1..client.good /\ i + 1 = handled + 2 /\ frame = client.frames[i]
      /\ Here = client.place[i] /\ Here' = client.place[i + 1]
  BY <1>2, <1>4, <1>6 DEF frame
<1> HIDE DEF i
<1>8. client \in Clients
  BY DEF IInv
<1>9. IF IsControl(client.frames[i])
        THEN client.place[i + 1] = client.place[i]
        ELSE /\ client.place[i].message <= Len(client.messages)
             /\ IsFragment(client.frames[i], client.messages[client.place[i].message],
                           client.place[i], client.place[i + 1])
  BY <1>7, <1>8, GoodFrame
<1>10. IF IsControl(frame)
         THEN Here' = Here
         ELSE /\ Here.message <= Len(client.messages)
              /\ IsFragment(frame, client.messages[Here.message], Here, Here')
  BY <1>7, <1>9
<1> QED
  BY <1>4, <1>5, <1>10

\* A frame that blames the client.
Blames(f) ==
  /\ f.opCode = "close"
  /\ f.payload \in {CodeBytes(Reason("protocolError")), CodeBytes(Reason("invalidDataContents"))}

\* A frame that does not blame the client may always be sent.
LEMMA StaysBlameless ==
  ASSUME IInv, NEW f \in [opCode : {"pong", "close"}, payload : Seq(Byte)], ~Blames(f),
         wire' = wire \/ wire' = Append(wire, f),
         handled > client.good => (handled > client.good)'
  PROVE  BlamesOnlyViolations'
<1>1. CASE handled > client.good
  BY <1>1 DEF BlamesOnlyViolations
<1>2. CASE ~(handled > client.good)
  <2>1. \A i \in 1..Len(wire) : ~Blames(wire[i])
    BY <1>2 DEF IInv, BlamesOnlyViolations, Blames
  <2>2. wire \in Seq([opCode : {"pong", "close"}, payload : Seq(Byte)])
    BY DEF IInv, TypeOK
  <2>3. \A i \in 1..Len(wire') : ~Blames(wire'[i])
    <3>1. CASE wire' = wire
      BY <2>1, <3>1
    <3>2. CASE wire' = Append(wire, f)
      <4>1. \A i \in 1..Len(wire') :
              wire'[i] = f \/ (i \in 1..Len(wire) /\ wire'[i] = wire[i])
        BY <2>2, <3>2
      <4> QED
        BY <2>1, <4>1, Zenon
    <3> QED
      BY <3>1, <3>2
  <2> QED
    BY <2>3 DEF Blames, BlamesOnlyViolations
<1> QED
  BY <1>1, <1>2

\* What is left to show of a good frame's handling.
LEMMA GoodIsEnough ==
  ASSUME IInv, ReceivedFrame, handled < client.good,
         InProgress', HandedOn', UNCHANGED <<active, socket>>,
         wire' = wire \/ wire' = Append(wire, [opCode |-> "pong", payload |-> frame.payload])
  PROVE  IInv'
<1>1. client' = client /\ handled' = handled + 1 /\ interrupts' = interrupts
  BY ReceivedShape
<1>2. ~(handled' > client'.good) /\ ~(handled > client.good)
  BY <1>1, Numbers
<1>3. BlamesOnlyViolations'
  <2> DEFINE pong == [opCode |-> "pong", payload |-> frame.payload]
  <2>1. pong \in [opCode : {"pong", "close"}, payload : Seq(Byte)]
    BY FrameType, ReceivedShape
  <2>2. ~Blames(pong)
    BY DEF Blames
  <2> QED
    BY <1>2, <2>1, <2>2, StaysBlameless
<1>4. InactiveIsClosing'
  BY <1>1 DEF IInv, InactiveIsClosing
<1> QED
  BY <1>1, <1>2, <1>3, <1>4, TypeAfterFrame DEF IInv

\* A control frame in the midst of a message.
LEMMA GoodControl ==
  ASSUME IInv, ReceivedFrame, handled < client.good, IsControl(frame)
  PROVE  IInv' /\ UNCHANGED <<active, socket>>
<1>1. client' = client /\ handled' = handled + 1 /\ Here' = Here
  BY ReceivedShape, NextPlace
<1>2. ReceivedPing \/ ReceivedPong
  BY DEF IsControl, ReceivedFrame, ReceivedFirst, ReceivedFirstTooSoon, ReceivedContinuation,
         ReceivedContinuationOfNothing, ReceivedClose, Received
<1>3. /\ UNCHANGED <<messageState, message, active, socket, told, received>>
      /\ wire' = wire \/ wire' = Append(wire, [opCode |-> "pong", payload |-> frame.payload])
  BY <1>2 DEF ReceivedPing, ReceivedPong, SendMessage
<1>4. handled <= client.good
  BY Numbers
<1>5. InProgress' /\ HandedOn'
  BY <1>1, <1>3, <1>4 DEF IInv, InProgress, HandedOn
<1> QED
  BY <1>3, <1>5, GoodIsEnough

\* A complete message that is text, or need not be, is handed on.
LEMMA HandsOn ==
  ASSUME IInv, handled < client.good, NEW m \in Message, m.type = "text" => IsText(m.data),
         FireReceived(m.type, m.data)
  PROVE  received' = Append(received, m) /\ UNCHANGED <<active, socket, wire>>
<1>1. Fire(m.type, m.data)
  BY DEF FireReceived, FireReceivedString
<1>2. [type |-> m.type, data |-> m.data] = m
  BY DEF Message
<1> QED
  BY <1>1, <1>2 DEF Fire

\* When the client's next message has been handed on, all up to it have been.
LEMMA OneMoreHandedOn ==
  ASSUME IInv, client' = client, Here.message \in Nat \ {0},
         Here.message <= Len(client.messages),
         received' = Append(received, client.messages[Here.message]),
         (Here.message)' = Here.message + 1
  PROVE  HandedOn'
<1> DEFINE k == Here.message  m == client.messages[k]
<1>1. Len(received) = k - 1 /\ k \in Nat \ {0}
  BY DEF IInv, HandedOn
<1>2. received \in Seq(Message) /\ m \in Message
  BY ClientType DEF IInv, TypeOK
<1>3. received' = Append(received, m)
  OBVIOUS
<1>4. (Here.message)' = k + 1
  OBVIOUS
<1>5. \A j \in 1..Len(received) : received[j] = client.messages[j]
  BY DEF IInv, HandedOn
<1>6. m = client.messages[k]
  OBVIOUS
<1> HIDE DEF k, m
<1>7. Len(received') = (k + 1) - 1
  BY <1>1, <1>2, <1>3
<1>8. \A j \in 1..Len(received') : received'[j] = client.messages[j]
  <2> SUFFICES ASSUME NEW j \in 1..Len(received') PROVE received'[j] = client.messages[j]
    OBVIOUS
  <2>1. CASE j = k
    BY <1>1, <1>2, <1>3, <1>6, <2>1
  <2>2. CASE j # k
    <3>1. j \in 1..Len(received)
      BY <1>1, <1>7, <2>2
    <3> QED
      BY <1>2, <1>3, <1>5, <3>1
  <2> QED
    BY <2>1, <2>2
<1> QED
  BY <1>4, <1>7, <1>8 DEF HandedOn

\* The first fragment of a message, or all of it.
LEMMA GoodFirst ==
  ASSUME IInv, ReceivedFrame, handled < client.good, ~IsControl(frame), ~Here.begun
  PROVE  IInv' /\ UNCHANGED <<active, socket, wire>>
<1> DEFINE m == client.messages[Here.message]
<1>1. client' = client /\ handled' = handled + 1
  BY ReceivedShape
<1>2. /\ Here.message \in Nat \ {0} /\ Here.message <= Len(client.messages)
      /\ IsFragment(frame, m, Here, Here')
  BY NextPlace
<1>3. m \in Message /\ (m.type = "text" => IsText(m.data))
  <2>1. Len(client.messages) \in Nat
    BY ClientType DEF IInv
  <2>2. Here.message \in 1..Len(client.messages)
    BY <1>2, <2>1
  <2> QED
    BY <2>2, MessageType DEF IInv
<1>4. frame.payload \in Seq(Byte)
  BY FrameType, ReceivedShape
<1>5. messageState = "unknown" /\ Here.at = 0
  BY Numbers DEF IInv, InProgress
<1>6. frame.opCode = m.type /\ m.type \in {"text", "binary"} /\ m.data \in Seq(Byte)
  BY <1>2, <1>3 DEF IsFragment, Message
<1>7. ReceivedFirst
  BY <1>5, <1>6 DEF ReceivedFrame, ReceivedFirstTooSoon, ReceivedContinuation,
     ReceivedContinuationOfNothing, ReceivedClose, ReceivedPing, ReceivedPong, Received
<1>8. /\ Len(frame.payload) <= Len(m.data)
      /\ \A j \in 1..Len(frame.payload) : frame.payload[j] = m.data[j]
      /\ frame.finalFrame => Len(frame.payload) = Len(m.data)
  BY <1>2, <1>4, <1>5, <1>6 DEF IsFragment
<1>9. CASE frame.finalFrame
  <2>1. FireReceived(m.type, frame.payload) /\ UNCHANGED <<messageState, message>>
    BY <1>6, <1>7, <1>9 DEF ReceivedFirst
  <2>2. frame.payload = m.data
    BY <1>4, <1>6, <1>8, <1>9, SeqEqual
  <2>3. received' = Append(received, m) /\ UNCHANGED <<active, socket, wire>>
    BY <1>3, <2>1, <2>2, HandsOn
  <2>4. Here' = StartOf(Here.message + 1)
    BY <1>2, <1>9 DEF IsFragment
  <2>5. HandedOn'
    BY <1>1, <1>2, <2>3, <2>4, OneMoreHandedOn DEF StartOf
  <2>6. InProgress'
    BY <1>5, <2>1, <2>4 DEF InProgress, StartOf
  <2> QED
    BY <2>3, <2>5, <2>6, GoodIsEnough
<1>10. CASE ~frame.finalFrame
  <2>1. /\ messageState' = m.type /\ message' = frame.payload
        /\ UNCHANGED <<active, socket, told, wire, received>>
    BY <1>6, <1>7, <1>10 DEF ReceivedFirst
  <2>2. Here' = [message |-> Here.message, at |-> Len(frame.payload), begun |-> TRUE]
    BY <1>2, <1>4, <1>5, <1>10 DEF IsFragment
  <2>3. HandedOn'
    BY <1>1, <2>1, <2>2 DEF IInv, HandedOn
  <2>4. InProgress'
    BY <1>1, <1>8, <2>1, <2>2 DEF InProgress
  <2> QED
    BY <2>1, <2>3, <2>4, GoodIsEnough
<1> QED
  BY <1>9, <1>10

\* A further fragment of the message in progress.
LEMMA GoodContinuation ==
  ASSUME IInv, ReceivedFrame, handled < client.good, ~IsControl(frame), Here.begun
  PROVE  IInv' /\ UNCHANGED <<active, socket, wire>>
<1> DEFINE m == client.messages[Here.message]
<1>1. client' = client /\ handled' = handled + 1
  BY ReceivedShape
<1>2. /\ Here.message \in Nat \ {0} /\ Here.message <= Len(client.messages)
      /\ Here.at \in Nat
      /\ IsFragment(frame, m, Here, Here')
  BY NextPlace
<1>3. m \in Message /\ (m.type = "text" => IsText(m.data))
  <2>1. Len(client.messages) \in Nat
    BY ClientType DEF IInv
  <2>2. Here.message \in 1..Len(client.messages)
    BY <1>2, <2>1
  <2> QED
    BY <2>2, MessageType DEF IInv
<1>4. frame.payload \in Seq(Byte) /\ message \in Seq(Byte) /\ message' \in Seq(Byte)
  BY FrameType, ReceivedShape DEF IInv, TypeOK
<1>5. /\ messageState = m.type /\ Len(message) = Here.at
      /\ \A j \in 1..Len(message) : message[j] = m.data[j]
  BY Numbers DEF IInv, InProgress
<1>6. frame.opCode = "continuation" /\ m.type \in {"text", "binary"} /\ m.data \in Seq(Byte)
  BY <1>2, <1>3 DEF IsFragment, Message
<1>7. ReceivedContinuation
  BY <1>5, <1>6 DEF ReceivedFrame, ReceivedFirstTooSoon, ReceivedFirst,
     ReceivedContinuationOfNothing, ReceivedClose, ReceivedPing, ReceivedPong, Received
<1>8. message' = message \o frame.payload
  BY <1>7 DEF ReceivedContinuation
<1>9. /\ Len(message') = Here.at + Len(frame.payload)
      /\ Here.at + Len(frame.payload) <= Len(m.data)
      /\ frame.finalFrame => Len(message') = Len(m.data)
  <2>1. Len(message') = Len(message) + Len(frame.payload)
    BY <1>4, <1>8
  <2>2. /\ Here.at + Len(frame.payload) <= Len(m.data)
        /\ frame.finalFrame => Here.at + Len(frame.payload) = Len(m.data)
    BY <1>2, Zenon DEF IsFragment
  <2> QED
    BY <1>5, <2>1, <2>2, Zenon
<1>10. \A j \in 1..Len(message') : message'[j] = m.data[j]
  <2>1. \A j \in 1..Len(frame.payload) : frame.payload[j] = m.data[Here.at + j]
    BY <1>2 DEF IsFragment
  <2> SUFFICES ASSUME NEW j \in 1..Len(message') PROVE message'[j] = m.data[j]
    OBVIOUS
  <2>2. CASE j <= Len(message)
    BY <1>4, <1>5, <1>8, <2>2
  <2>3. CASE ~(j <= Len(message))
    <3> DEFINE i == j - Len(message)
    <3>1. i \in 1..Len(frame.payload) /\ j = Len(message) + i
      BY <1>4, <1>8, <2>3
    <3>2. message'[j] = frame.payload[i]
      BY <1>4, <1>8, <2>3
    <3> HIDE DEF i
    <3> QED
      BY <1>5, <2>1, <3>1, <3>2
  <2> QED
    BY <2>2, <2>3
<1>11. CASE frame.finalFrame
  <2>1. FireReceived(m.type, message') /\ messageState' = "unknown"
    BY <1>5, <1>7, <1>11 DEF ReceivedContinuation
  <2>2. message' = m.data
    BY <1>4, <1>6, <1>9, <1>10, <1>11, SeqEqual
  <2>3. received' = Append(received, m) /\ UNCHANGED <<active, socket, wire>>
    BY <1>3, <2>1, <2>2, HandsOn
  <2>4. Here' = StartOf(Here.message + 1)
    BY <1>2, <1>11 DEF IsFragment
  <2>5. HandedOn'
    BY <1>1, <1>2, <2>3, <2>4, OneMoreHandedOn DEF StartOf
  <2>6. InProgress'
    BY <2>1, <2>4 DEF InProgress, StartOf
  <2> QED
    BY <2>3, <2>5, <2>6, GoodIsEnough
<1>12. CASE ~frame.finalFrame
  <2>1. UNCHANGED <<messageState, active, socket, told, wire, received>>
    BY <1>7, <1>12 DEF ReceivedContinuation
  <2>2. Here' = [message |-> Here.message, at |-> Here.at + Len(frame.payload), begun |-> TRUE]
    BY <1>2, <1>12 DEF IsFragment
  <2>3. HandedOn'
    BY <1>1, <2>1, <2>2 DEF IInv, HandedOn
  <2>4. InProgress'
    BY <1>1, <1>5, <1>9, <1>10, <2>1, <2>2 DEF InProgress
  <2> QED
    BY <2>1, <2>3, <2>4, GoodIsEnough
<1> QED
  BY <1>11, <1>12

-----------------------------------------------------------------------------
(* The invariant is kept. *)

\* A step of somebody else: it may make the connection inactive, and send a
\* frame that does not blame the client.
LEMMA OthersKeep ==
  ASSUME IInv, UNCHANGED <<client, handled, messageState, message, received>>,
         available' \in Nat, available <= available', available' <= Len(client.frames),
         active' \in BOOLEAN, active' => active,
         socket' \in {"open", "closing", "closed"}, told' \in Seq(Block),
         interrupts' \in Nat,
         NEW f \in [opCode : {"pong", "close"}, payload : Seq(Byte)], ~Blames(f),
         wire' = wire \/ wire' = Append(wire, f),
         InactiveIsClosing'
  PROVE  IInv'
<1>1. available' \in 0..Len(client'.frames) /\ handled' \in 0..available'
  BY Numbers
<1>2. wire' \in Seq([opCode : {"pong", "close"}, payload : Seq(Byte)])
  <2> DEFINE S == [opCode : {"pong", "close"}, payload : Seq(Byte)]
  <2>1. wire \in Seq(S) /\ f \in S
    BY DEF IInv, TypeOK
  <2> HIDE DEF S
  <2>2. Append(wire, f) \in Seq(S)
    BY <2>1, AppendProperties, Zenon
  <2> QED
    BY <2>1, <2>2, Zenon DEF S
<1>3. TypeOK'
  BY <1>1, <1>2 DEF IInv, TypeOK
<1>4. BlamesOnlyViolations'
  BY StaysBlameless
<1>5. Here' = Here
  BY DEF Here, Reached
<1>6. InProgress' /\ HandedOn'
  BY <1>5 DEF IInv, InProgress, HandedOn
<1> QED
  BY <1>3, <1>4, <1>6 DEF IInv

\* The close frame that others send for one of these reasons.
CloseFrame(name) == [opCode |-> "close", payload |-> CodeBytes(Reason(name))]

\* It does not blame the client.
LEMMA OthersDoNotBlame ==
  ASSUME NEW name \in {"normal", "closedAbnormally"}
  PROVE  /\ CloseFrame(name) \in [opCode : {"pong", "close"}, payload : Seq(Byte)]
         /\ ~Blames(CloseFrame(name))
<1>1. CodeBytes(Reason(name)) \in Seq(Byte)
  BY Reasons, CodeBytesType
<1>2. CodeBytes(Reason(name)) \notin {CodeBytes(Reason("protocolError")),
                                     CodeBytes(Reason("invalidDataContents"))}
  <2>1. /\ <<3, 232>> \notin {<<3, 234>>, <<3, 239>>}
        /\ <<3, 238>> \notin {<<3, 234>>, <<3, 239>>}
    BY SMT
  <2> QED
    BY <2>1, Blame
<1> QED
  BY <1>1, <1>2 DEF Blames, CloseFrame

\* A read changes nothing but what is available.
LEMMA ReadKeeps ==
  ASSUME IInv, NEW n \in 1..Len(client.frames), Read(n)
  PROVE  IInv'
<1>1. /\ UNCHANGED <<client, handled, messageState, message, active, socket, told, wire,
                     interrupts, received>>
      /\ available' = available + n /\ available' <= Len(client.frames)
  BY DEF Read
<1>2. available' \in Nat /\ available <= available'
  BY <1>1, Numbers
<1>3. InactiveIsClosing'
  BY <1>1 DEF IInv, InactiveIsClosing
<1> QED
  BY <1>1, <1>2, <1>3, OthersDoNotBlame, OthersKeep DEF IInv, TypeOK

\* close(), drop() and the timer.
LEMMA InterruptKeeps ==
  ASSUME IInv, CloseByOthers \/ DropByOthers \/ TimerExpires
  PROVE  IInv'
<1>1. /\ UNCHANGED <<client, available, handled, messageState, message, received>>
      /\ interrupts' \in Nat /\ interrupts' # 0
  <2>1. interrupts' = interrupts + 1
        /\ UNCHANGED <<client, available, handled, messageState, message, received>>
    BY DEF CloseByOthers, DropByOthers, TimerExpires, Interrupt
  <2> QED
    BY <2>1 DEF IInv, TypeOK
<1>2. InactiveIsClosing'
  BY <1>1 DEF InactiveIsClosing
<1>3. available' \in Nat /\ available <= available' /\ available' <= Len(client.frames)
  BY <1>1, Numbers
<1>4. TypeOK
  BY DEF IInv
<1>5. CASE CloseByOthers
  <2>1. /\ wire' = Append(wire, CloseFrame("normal")) /\ active' = FALSE
        /\ UNCHANGED <<socket, told>>
    BY <1>5 DEF CloseByOthers, SendMessage, CloseFrame
  <2> QED
    BY <1>1, <1>2, <1>3, <1>4, <2>1, OthersDoNotBlame, OthersKeep DEF TypeOK
<1>6. CASE DropByOthers
  <2>1. CloseHard(Reason("normal")) /\ UNCHANGED told
    BY <1>6 DEF DropByOthers
  <2>2. /\ wire' = Append(wire, CloseFrame("normal")) /\ active' = FALSE
        /\ socket' \in {"open", "closing", "closed"}
    BY <1>4, <2>1, CloseHardShape, Reasons DEF CloseFrame
  <2> QED
    BY <1>1, <1>2, <1>3, <1>4, <2>1, <2>2, OthersDoNotBlame, OthersKeep DEF TypeOK
<1>7. CASE TimerExpires
  <2>1. ConnectionClosed(Reason("closedAbnormally"))
    BY <1>7 DEF TimerExpires
  <2>2. /\ wire' = wire \/ wire' = Append(wire, CloseFrame("closedAbnormally"))
        /\ active' = FALSE
        /\ socket' \in {"open", "closing", "closed"} /\ told' \in Seq(Block)
    BY <1>4, <2>1, ConnectionClosedShape, Reasons DEF CloseFrame
  <2> QED
    BY <1>1, <1>2, <1>3, <1>4, <2>2, OthersDoNotBlame, OthersKeep
<1> QED
  BY <1>5, <1>6, <1>7

\* socketClosed(), after the handler's own close or a reset.
LEMMA SocketClosedKeeps ==
  ASSUME IInv, HandlerCloses \/ ConnectionReset
  PROVE  IInv'
<1>1. /\ UNCHANGED <<client, available, handled, messageState, message, received>>
      /\ interrupts' \in Nat
  <2>1. UNCHANGED <<client, available, handled, messageState, message, received>>
    BY DEF HandlerCloses, ConnectionReset, Interrupt
  <2>2. interrupts' \in {interrupts, interrupts + 1}
    BY DEF HandlerCloses, ConnectionReset, Interrupt
  <2> QED
    BY <2>1, <2>2 DEF IInv, TypeOK
<1>2. /\ socket' = "closed" /\ active' = FALSE /\ wire' = wire
      /\ \/ told' = told
         \/ told' = Append(told, [method |-> "disconnected",
                                  reason |-> Reason("noReasonCodeSent")])
  BY DEF HandlerCloses, ConnectionReset, SocketClosed
<1>3. told' \in Seq(Block)
  <2> DEFINE block == [method |-> "disconnected", reason |-> Reason("noReasonCodeSent")]
  <2>1. told \in Seq(Block) /\ block \in Block
    BY Reasons DEF IInv, TypeOK, Block
  <2>2. told' = told \/ told' = Append(told, block)
    BY <1>2
  <2> HIDE DEF block
  <2> QED
    BY <2>1, <2>2
<1>4. InactiveIsClosing'
  BY <1>2 DEF InactiveIsClosing
<1>5. available' \in Nat /\ available <= available' /\ available' <= Len(client.frames)
  BY <1>1, Numbers
<1> QED
  BY <1>1, <1>2, <1>3, <1>4, <1>5, OthersDoNotBlame, OthersKeep

\* At the start the client is at the first message.
LEMMA InitPlace == Init => IInv
<1> SUFFICES ASSUME Init PROVE IInv
  OBVIOUS
<1>1. client \in Clients /\ handled = 0 /\ available = 0
  BY DEF Init
<1>2. client.good \in Nat /\ Len(client.frames) \in Nat
  BY <1>1, ClientType
<1>3. TypeOK
  BY <1>2 DEF Init, TypeOK
<1>4. Here = StartOf(1)
  <2>1. Reached = 1
    BY <1>1, <1>2 DEF Reached
  <2>2. client.place[1] = StartOf(1)
    BY <1>1, ClientsAssumption DEF WellFormed
  <2> QED
    BY <2>1, <2>2 DEF Here
<1>5. InProgress /\ HandedOn
  BY <1>4 DEF Init, InProgress, HandedOn, StartOf
<1>6. BlamesOnlyViolations
  BY DEF Init, BlamesOnlyViolations
<1>7. ~(handled > client.good)
  BY <1>1, <1>2
<1>8. InactiveIsClosing
  BY DEF Init, InactiveIsClosing
<1> QED
  BY <1>1, <1>3, <1>5, <1>6, <1>7, <1>8 DEF IInv

\* Every step keeps the invariant.
LEMMA StepKeepsPlace == IInv /\ [Next]_vars => IInv'
<1> SUFFICES ASSUME IInv, [Next]_vars PROVE IInv'
  OBVIOUS
<1>1. CASE ReceivedFrame
  <2>1. handled < client.good \/ handled >= client.good
    BY Numbers
  <2>2. handled < client.good => Here.begun \in BOOLEAN
    BY <1>1, NextPlace
  <2> QED
    BY <1>1, <2>1, <2>2, BadFrame, GoodControl, GoodFirst, GoodContinuation
<1>2. CASE \E n \in 1..Len(client.frames) : Read(n)
  BY <1>2, ReadKeeps
<1>3. CASE CloseByOthers \/ DropByOthers \/ TimerExpires
  BY <1>3, InterruptKeeps
<1>4. CASE HandlerCloses \/ ConnectionReset
  BY <1>4, SocketClosedKeeps
<1>5. CASE UNCHANGED vars
  <2>1. UNCHANGED <<client, available, handled, messageState, message, active, socket, told,
                    wire, interrupts, received>>
    BY <1>5 DEF vars
  <2>2. Here' = Here
    BY <2>1 DEF Here, Reached
  <2> QED
    BY <2>1, <2>2 DEF IInv, TypeOK, InProgress, HandedOn, BlamesOnlyViolations,
                      InactiveIsClosing
<1> QED
  BY <1>1, <1>2, <1>3, <1>4, <1>5 DEF Next

\* messageState and message are always those of the client's message in
\* progress, and all its messages before that have been handed on
\* (received(frame:)).
THEOREM NeverLosesPlace == Spec => []IInv
BY InitPlace, StepKeepsPlace, PTL DEF Spec

-----------------------------------------------------------------------------
(* The properties *)

\* The variables of the connection keep their types.
THEOREM TypeCorrect == Spec => []TypeOK
<1>1. IInv => TypeOK
  BY DEF IInv
<1> QED
  BY NeverLosesPlace, <1>1, PTL

\* No client that keeps to the rules gets a close frame with an error's code.
THEOREM NeverBlamesTheInnocent == Spec => []BlamesOnlyViolations
<1>1. IInv => BlamesOnlyViolations
  BY DEF IInv
<1> QED
  BY NeverLosesPlace, <1>1, PTL

\* A close frame or a broken rule ends the connection.
THEOREM ViolationsEndIt == Spec => []EndsAtViolation
<1>1. IInv => EndsAtViolation
  <2> SUFFICES ASSUME IInv, handled > client.good
               PROVE  ~active /\ (interrupts = 0 => socket # "open")
    BY DEF EndsAtViolation
  <2> QED
    BY DEF IInv, InactiveIsClosing
<1> QED
  BY NeverLosesPlace, <1>1, PTL

\* What the good frames hold of a client's messages.
LEMMA CompleteMessages ==
  ASSUME IInv
  PROVE  /\ Len(received) <= Len(Complete(client))
         /\ Len(Complete(client)) \in Nat
         /\ \A k \in 1..Len(Complete(client)) : Complete(client)[k] = client.messages[k]
<1>1. client.good + 1 \in 1..(client.good + 1) /\ Reached \in 1..(client.good + 1)
  BY Numbers DEF Reached
<1> DEFINE n == client.place[client.good + 1].message
<1>2. /\ n \in Nat \ {0}
      /\ n <= Len(client.messages) + (IF client.place[client.good + 1].begun THEN 0 ELSE 1)
      /\ Here.message <= n /\ Here.message \in Nat
  BY <1>1, PlaceType, Zenon DEF IInv, Here
<1>3. client.messages \in Seq(Message) /\ Len(client.messages) \in Nat
  BY ClientType DEF IInv
<1>4. Len(received) = Here.message - 1
  BY DEF IInv, HandedOn
<1> DEFINE h == Here.message
<1>5. Complete(client) = SubSeq(client.messages, 1, n - 1)
  BY DEF Complete
<1>6. h \in Nat /\ h <= n /\ Len(received) = h - 1
  BY <1>2, <1>4, Zenon
<1> HIDE DEF n, h
<1>7. n - 1 \in Nat /\ n - 1 <= Len(client.messages)
  <2> DEFINE l == Len(client.messages)  b == client.place[client.good + 1].begun
  <2>1. n \in Nat \ {0} /\ l \in Nat /\ n <= l + (IF b THEN 0 ELSE 1)
    BY <1>2, <1>3
  <2> HIDE DEF l, b
  <2>2. n <= l \/ n <= l + 1
    BY <2>1
  <2>3. n - 1 \in Nat /\ n - 1 <= l
    BY <2>1, <2>2
  <2> QED
    BY <2>3, Zenon DEF l
<1>8. /\ Len(SubSeq(client.messages, 1, n - 1)) = n - 1
      /\ \A k \in 1..(n - 1) : SubSeq(client.messages, 1, n - 1)[k] = client.messages[k]
  BY <1>3, <1>7
<1> QED
  BY <1>2, <1>5, <1>6, <1>7, <1>8

\* Messages reach the service in order, with their own type and bytes.
THEOREM DeliversInOrder == Spec => []MessagesInOrder
<1>1. IInv => MessagesInOrder
  <2> SUFFICES ASSUME IInv PROVE MessagesInOrder
    OBVIOUS
  <2>1. \A k \in 1..Len(received) : received[k] = client.messages[k]
    BY DEF IInv, HandedOn
  <2> QED
    BY <2>1, CompleteMessages DEF MessagesInOrder
<1> QED
  BY NeverLosesPlace, <1>1, PTL

-----------------------------------------------------------------------------
(* The message layer implements Delivery: every step hands on the client's *)
(* next message or nothing.                                                *)

\* A step changes received at most by one message.
LEMMA OneAtATime ==
  ASSUME IInv, [Next]_vars
  PROVE  /\ client' = client
         /\ received' = received \/ \E m \in Message : received' = Append(received, m)
<1>1. CASE ReceivedFrame
  BY <1>1, ReceivedShape DEF Shape
<1>2. CASE ~ReceivedFrame
  BY <1>2 DEF Next, vars, Read, CloseByOthers, DropByOthers, TimerExpires, HandlerCloses,
              ConnectionReset, Interrupt
<1> QED
  BY <1>1, <1>2

\* A step hands on the client's next message, or none.
LEMMA StepIsDelivery ==
  IInv /\ IInv' /\ MessagesInOrder' /\ [Next]_vars => [Service!Deliver]_Service!vars
<1> SUFFICES ASSUME IInv, IInv', MessagesInOrder', [Next]_vars, received' # received
             PROVE  Service!Deliver
  BY OneAtATime DEF Service!vars, Complete
<1>1. client' = client
  BY OneAtATime
<1>2. PICK m \in Message : received' = Append(received, m)
  BY OneAtATime
<1>3. received \in Seq(Message) /\ Len(received) \in Nat
  BY DEF IInv, TypeOK
<1> DEFINE k == Len(received) + 1
<1>4. Len(received') = k /\ received'[k] = m /\ k \in 1..Len(received')
  BY <1>2, <1>3
<1>5. m = client.messages[k]
  BY <1>1, <1>4 DEF IInv, HandedOn
<1>6. Len(received') <= Len(Complete(client)')
  BY DEF MessagesInOrder
<1>7. Complete(client)' = Complete(client)
  BY <1>1
<1>8. Len(Complete(client)) \in Nat
  BY CompleteMessages
<1>9. k <= Len(Complete(client))
  BY <1>4, <1>6, <1>7
<1>10. k \in 1..Len(Complete(client)) /\ Len(received) < Len(Complete(client))
  BY <1>3, <1>8, <1>9
<1>11. m = Complete(client)[k]
  BY <1>5, <1>10, CompleteMessages
<1> QED
  BY <1>2, <1>7, <1>10, <1>11 DEF Service!Deliver

\* Whatever a client fragments, interleaves or breaks off, and whoever closes
\* the connection, the service gets the client's messages one by one, in
\* order, each once (the safety part of DeliversEveryMessage).
THEOREM ImplementsDelivery == Spec => Service!SafeSpec
<1>1. Init => Service!Init
  BY DEF Init, Service!Init
<1> QED
  BY <1>1, NeverLosesPlace, DeliversInOrder, StepIsDelivery, PTL DEF Spec, Service!SafeSpec

-----------------------------------------------------------------------------
(* A client that closes hears its own code. *)

\* What has been sent stays sent, and the same for what the service is told.
LEMMA Grows ==
  ASSUME Next
  PROVE  /\ wire' = wire \/ \E f : wire' = Append(wire, f)
         /\ told' = told \/ \E block : told' = Append(told, block)
<1> DEFINE W == wire' = wire \/ \E f : wire' = Append(wire, f)
           T == told' = told \/ \E block : told' = Append(told, block)
<1>1. \A r : CloseHard(r) => W
  BY DEF CloseHard, SendMessage
<1>2. \A r : ConnectionClosed(r) => W /\ T
  BY <1>1 DEF ConnectionClosed
<1>3. ASSUME NEW type, NEW data, FireReceived(type, data)
      PROVE  W /\ T
  <2>1. \A t : Fire(t, data) => W /\ T
    BY DEF Fire
  <2> QED
    BY <1>1, <1>3, <2>1 DEF FireReceived, FireReceivedString
<1>4. CASE ReceivedFirst
  BY <1>3, <1>4 DEF ReceivedFirst
<1>5. CASE ReceivedContinuation
  BY <1>3, <1>5 DEF ReceivedContinuation
<1>6. ProtocolError => W /\ T
  BY <1>2 DEF ProtocolError
<1>7. CASE ReceivedFirstTooSoon \/ ReceivedContinuationOfNothing
  BY <1>6, <1>7 DEF ReceivedFirstTooSoon, ReceivedContinuationOfNothing
<1>8. CASE ReceivedPing \/ ReceivedPong
  BY <1>6, <1>8 DEF ReceivedPing, ReceivedPong, SendMessage
<1>9. CASE ReceivedClose
  BY <1>1, <1>2, <1>9 DEF ReceivedClose
<1>10. CASE \E n \in 1..Len(client.frames) : Read(n)
  BY <1>10 DEF Read
<1>11. CASE CloseByOthers
  BY <1>11 DEF CloseByOthers, SendMessage
<1>12. CASE DropByOthers \/ TimerExpires
  BY <1>1, <1>2, <1>12 DEF DropByOthers, TimerExpires
<1>13. CASE HandlerCloses \/ ConnectionReset
  BY <1>13 DEF HandlerCloses, ConnectionReset, SocketClosed
<1> QED
  BY <1>4, <1>5, <1>7, <1>8, <1>9, <1>10, <1>11, <1>12, <1>13 DEF Next, ReceivedFrame

\* What is in a sequence is in one that it grows to.
LEMMA StaysIn ==
  ASSUME NEW S, NEW s \in Seq(S), NEW t, t = s \/ \E e : t = Append(s, e), NEW i \in 1..Len(s)
  PROVE  i \in 1..Len(t) /\ t[i] = s[i]
<1>1. CASE t = s
  BY <1>1
<1>2. ASSUME NEW e, t = Append(s, e)
      PROVE  i \in 1..Len(t) /\ t[i] = s[i]
  <2> DEFINE U == S \union {e}
  <2>1. s \in Seq(U) /\ e \in U
    OBVIOUS
  <2> HIDE DEF U
  <2>2. Len(t) = Len(s) + 1 /\ \A j \in 1..Len(s) : t[j] = s[j]
    BY <1>2, <2>1, AppendProperties
  <2>3. Len(s) \in Nat
    OBVIOUS
  <2> QED
    BY <2>2, <2>3
<1> QED
  BY <1>1, <1>2

\* What is appended to a sequence is in it.
LEMMA AppendedIn ==
  ASSUME NEW S, NEW s \in Seq(S), NEW e, NEW t, t = Append(s, e)
  PROVE  \E i \in 1..Len(t) : t[i] = e
<1> DEFINE U == S \union {e}
<1>1. s \in Seq(U) /\ e \in U
  OBVIOUS
<1> HIDE DEF U
<1>2. Len(t) = Len(s) + 1 /\ t[Len(s) + 1] = e
  BY <1>1, AppendProperties
<1>3. Len(s) + 1 \in 1..Len(t)
  BY <1>2
<1> QED
  BY <1>2, <1>3

\* Two bytes are those of the number they are.
LEMMA TwoBytes ==
  ASSUME NEW a \in Byte, NEW b \in Byte
  PROVE  /\ 256 * a + b \in UInt16
         /\ (256 * a + b) \div 256 = a /\ (256 * a + b) % 256 = b
<1>1. a \in Nat /\ a <= 255 /\ b \in Nat /\ b <= 255
  BY SMT DEF Byte
<1>2. 256 * a + b \in Nat /\ 256 * a + b <= 65535
  BY <1>1, SMT
<1>3. (256 * a + b) \div 256 = a /\ (256 * a + b) % 256 = b
  BY <1>1, SMT
<1> DEFINE c == 256 * a + b
<1>4. c \in Nat /\ c <= 65535
  BY <1>2, SMT
<1> HIDE DEF c
<1>5. c \in UInt16
  BY <1>4, SixteenBits, SMT
<1> QED
  BY <1>3, <1>5, Zenon DEF c

\* Up to the frame that ends the good ones a connection that nobody else closes
\* is active.
OpenUntilEnd ==
  interrupts = 0 /\ handled <= client.good /\ client.good < Len(client.frames)
    => active /\ socket = "open"

LEMMA StepStaysOpen == IInv /\ OpenUntilEnd /\ [Next]_vars => OpenUntilEnd'
<1> SUFFICES ASSUME IInv, OpenUntilEnd, [Next]_vars,
                    (interrupts = 0 /\ handled <= client.good
                      /\ client.good < Len(client.frames))'
             PROVE  (active /\ socket = "open")'
  BY DEF OpenUntilEnd
<1>1. CASE ReceivedFrame
  <2>1. /\ client' = client /\ handled' = handled + 1 /\ interrupts' = interrupts
        /\ handled < client.good /\ handled <= client.good
    BY <1>1, ReceivedShape, Numbers
  <2>2. Here.begun \in BOOLEAN
    BY <1>1, <2>1, NextPlace
  <2>3. UNCHANGED <<active, socket>>
    BY <1>1, <2>1, <2>2, GoodControl, GoodFirst, GoodContinuation
  <2>4. active /\ socket = "open"
    BY <2>1 DEF OpenUntilEnd
  <2> QED
    BY <2>3, <2>4
<1>2. CASE \/ \E n \in 1..Len(client.frames) : Read(n)
           \/ UNCHANGED vars
  <2>1. UNCHANGED <<client, handled, active, socket, interrupts>>
    BY <1>2 DEF Read, vars
  <2>2. active /\ socket = "open"
    BY <2>1 DEF OpenUntilEnd
  <2> QED
    BY <2>1, <2>2
<1>3. CASE CloseByOthers \/ DropByOthers \/ TimerExpires \/ ConnectionReset
  <2>1. interrupts' = interrupts + 1 /\ interrupts \in Nat
    BY <1>3 DEF CloseByOthers, DropByOthers, TimerExpires, ConnectionReset, Interrupt,
                IInv, TypeOK
  <2> QED
    BY <2>1
<1>4. CASE HandlerCloses
  <2>1. /\ UNCHANGED <<client, handled, interrupts>> /\ handled = available
        /\ socket = "closing" \/ available = Len(client.frames)
    BY <1>4 DEF HandlerCloses, SocketClosed
  <2>2. active /\ socket = "open"
    BY <2>1 DEF OpenUntilEnd
  <2>3. ~(available = Len(client.frames))
    BY <2>1, Numbers
  <2> QED
    BY <2>1, <2>2, <2>3
<1> QED
  BY <1>1, <1>2, <1>3, <1>4 DEF Next

\* A close frame that comes to an active connection is answered with its code.
LEMMA AnswersClose ==
  ASSUME TypeOK, ReceivedClose, active, frame.payload \in Seq(Byte), IsCloseWithReason(frame)
  PROVE  LET c == 256 * frame.payload[1] + frame.payload[2] IN
           MayBeSent(c) =>
             /\ \E i \in 1..Len(wire') :
                  wire'[i] = [opCode |-> "close", payload |-> SubSeq(frame.payload, 1, 2)]
             /\ \E i \in 1..Len(told') :
                  told'[i].method = "disconnected" /\ code(told'[i].reason) = c
<1> DEFINE p == frame.payload  a == p[1]  b == p[2]  c == 256 * a + b  r == ReasonIn(p)
<1> SUFFICES ASSUME MayBeSent(c)
             PROVE  /\ \E i \in 1..Len(wire') :
                         wire'[i] = [opCode |-> "close", payload |-> SubSeq(p, 1, 2)]
                    /\ \E i \in 1..Len(told') :
                         told'[i].method = "disconnected" /\ code(told'[i].reason) = c
  OBVIOUS
<1>1. p \in Seq(Byte) /\ Len(p) \in 2..ControlLimit /\ IsText(SubSeq(p, 3, Len(p)))
  BY DEF IsCloseWithReason
<1>2. Len(p) \in Nat /\ Len(p) >= 2 /\ p # << >>
  BY <1>1, BoundsAssumption
<1>3. a \in Byte /\ b \in Byte
  BY <1>1, <1>2
<1>4. ConnectionClosed(r)
  BY <1>1, <1>2 DEF ReceivedClose
<1>5. /\ wire' = Append(wire, [opCode |-> "close", payload |-> CodeBytes(r)])
      /\ told' = Append(told, [method |-> "disconnected", reason |-> r])
  BY <1>4 DEF ConnectionClosed, CloseHard, SendMessage
<1>6. r = from(c)
  BY <1>2 DEF ReasonIn
<1>7. SubSeq(p, 1, 2) = <<a, b>>
  <2>1. /\ SubSeq(p, 1, 2) \in Seq(Byte) /\ Len(SubSeq(p, 1, 2)) = 2
        /\ \A i \in 1..2 : SubSeq(p, 1, 2)[i] = p[i]
    BY <1>1, <1>2
  <2>2. <<a, b>> \in Seq(Byte) /\ Len(<<a, b>>) = 2 /\ \A i \in 1..2 : <<a, b>>[i] = p[i]
    BY <1>3
  <2> QED
    BY <2>1, <2>2, SeqEqual
<1> HIDE DEF p, a, b, r
<1>8. c \in UInt16 /\ c \div 256 = a /\ c % 256 = b
  BY <1>3, TwoBytes
<1> HIDE DEF c
<1>9. code(r) = c
  BY <1>6, <1>8, CloseCodeRoundTrip
<1>10. CodeBytes(r) = SubSeq(p, 1, 2)
  BY <1>7, <1>8, <1>9, Zenon DEF CodeBytes
<1>11. \E i \in 1..Len(wire') :
         wire'[i] = [opCode |-> "close", payload |-> SubSeq(p, 1, 2)]
  <2> DEFINE S == [opCode : {"pong", "close"}, payload : Seq(Byte)]
             e == [opCode |-> "close", payload |-> SubSeq(p, 1, 2)]
  <2>1. wire \in Seq(S)
    BY DEF TypeOK
  <2>2. wire' = Append(wire, e)
    BY <1>5, <1>10
  <2> HIDE DEF S, e
  <2>3. \E i \in 1..Len(wire') : wire'[i] = e
    BY <2>1, <2>2, AppendedIn
  <2> QED
    BY <2>3 DEF e
<1>12. \E i \in 1..Len(told') : told'[i] = [method |-> "disconnected", reason |-> r]
  <2> DEFINE e == [method |-> "disconnected", reason |-> r]
  <2>1. told \in Seq(Block) /\ told' = Append(told, e)
    BY <1>5 DEF TypeOK
  <2> HIDE DEF e
  <2>2. \E i \in 1..Len(told') : told'[i] = e
    BY <2>1, AppendedIn
  <2> QED
    BY <2>2 DEF e
<1> QED
  BY <1>9, <1>11, <1>12

LEMMA StepEchoes ==
  IInv /\ OpenUntilEnd /\ CloseCodeEchoed /\ [Next]_vars => CloseCodeEchoed'
<1> SUFFICES ASSUME IInv, OpenUntilEnd, CloseCodeEchoed, [Next]_vars PROVE CloseCodeEchoed'
  OBVIOUS
<1>1. client' = client
  BY OneAtATime
<1>2. CASE UNCHANGED vars
  BY <1>2 DEF vars, CloseCodeEchoed, LastFrame
<1>3. CASE Next /\ handled > client.good
  <2>1. interrupts' = 0 => interrupts = 0
    <3>1. interrupts' = interrupts \/ interrupts' = interrupts + 1
      BY <1>3, ReceivedShape DEF Next, Read, CloseByOthers, DropByOthers, TimerExpires,
                                 HandlerCloses, ConnectionReset, Interrupt
    <3>2. interrupts \in Nat
      BY DEF IInv, TypeOK
    <3> QED
      BY <3>1, <3>2
  <2>2. \A i \in 1..Len(wire) : i \in 1..Len(wire') /\ wire'[i] = wire[i]
    BY <1>3, Grows, StaysIn DEF IInv, TypeOK
  <2>3. \A i \in 1..Len(told) : i \in 1..Len(told') /\ told'[i] = told[i]
    BY <1>3, Grows, StaysIn DEF IInv, TypeOK
  <2>4. LastFrame' = LastFrame
    BY <1>1 DEF LastFrame
  <2> SUFFICES ASSUME interrupts' = 0, IsCloseWithReason(LastFrame),
                      NEW c, c = 256 * LastFrame.payload[1] + LastFrame.payload[2],
                      MayBeSent(c)
               PROVE  /\ \E i \in 1..Len(wire') :
                           wire'[i] = [opCode |-> "close",
                                       payload |-> SubSeq(LastFrame.payload, 1, 2)]
                      /\ \E i \in 1..Len(told') :
                           told'[i].method = "disconnected" /\ code(told'[i].reason) = c
    BY <2>4, Zenon DEF CloseCodeEchoed
  <2>5. /\ \E i \in 1..Len(wire) :
             wire[i] = [opCode |-> "close", payload |-> SubSeq(LastFrame.payload, 1, 2)]
        /\ \E i \in 1..Len(told) :
             told[i].method = "disconnected" /\ code(told[i].reason) = c
    BY <1>3, <2>1, Zenon DEF CloseCodeEchoed
  <2> QED
    BY <2>2, <2>3, <2>5, Zenon
<1>4. CASE Next /\ ~(handled > client.good) /\ handled' > client.good
  <2>1. ReceivedFrame
    BY <1>4 DEF Next, Read, CloseByOthers, DropByOthers, TimerExpires, HandlerCloses,
                ConnectionReset, Interrupt
  <2>2. /\ handled = client.good /\ client.good < Len(client.frames)
        /\ handled <= client.good /\ handled < available
    BY <1>4, <2>1, ReceivedShape, Numbers
  <2>3. frame = LastFrame /\ LastFrame' = LastFrame /\ interrupts' = interrupts
    BY <1>1, <2>1, <2>2, ReceivedShape DEF frame, LastFrame
  <2>4. frame.payload \in Seq(Byte) /\ TypeOK
    BY <2>2, FrameType DEF IInv
  <2>5. ASSUME interrupts = 0, IsCloseWithReason(frame)
        PROVE  active /\ ReceivedClose
    <3>1. active
      BY <2>2, <2>5 DEF OpenUntilEnd
    <3>2. ReceivedClose
      BY <2>1, <2>5 DEF IsCloseWithReason, ReceivedFrame, ReceivedFirst,
         ReceivedFirstTooSoon, ReceivedContinuation, ReceivedContinuationOfNothing,
         ReceivedPing, ReceivedPong, Received
    <3> QED
      BY <3>1, <3>2
  <2> QED
    BY <2>3, <2>4, <2>5, AnswersClose, Zenon DEF CloseCodeEchoed
<1>5. CASE Next /\ ~(handled' > client.good)
  BY <1>1, <1>5 DEF CloseCodeEchoed
<1> QED
  BY <1>2, <1>3, <1>4, <1>5

\* A client that closes the connection itself is answered with its own code, if
\* that is one a close frame may carry, and so is the service (received(frame:),
\* from(code:) and code()).
THEOREM EchoesCloseCode == Spec => []CloseCodeEchoed
<1>1. Init => OpenUntilEnd /\ CloseCodeEchoed
  <2> SUFFICES ASSUME Init PROVE OpenUntilEnd /\ CloseCodeEchoed
    OBVIOUS
  <2>1. OpenUntilEnd
    BY DEF Init, OpenUntilEnd
  <2>2. ~(handled > client.good)
    BY ClientType DEF Init
  <2> QED
    BY <2>1, <2>2 DEF CloseCodeEchoed
<1> QED
  BY <1>1, NeverLosesPlace, StepStaysOpen, StepEchoes, PTL DEF Spec

-----------------------------------------------------------------------------
(* What the service hears of a client after it was told it is gone *)

\* A step may tell the service that the client is gone only if it leaves the
\* socket closing.
LEMMA TellsGoneOnlyClosing ==
  ASSUME TypeOK, Next
  PROVE  \/ socket' # "open"
         \/ socket' = socket /\ told' = told
         \/ /\ socket' = socket
            /\ \E m : told' = Append(told, [method |-> "received", message |-> m])
<1> DEFINE Goal ==
      \/ socket' # "open"
      \/ socket' = socket /\ told' = told
      \/ /\ socket' = socket
         /\ \E m : told' = Append(told, [method |-> "received", message |-> m])
<1>1. ASSUME NEW r \in WebSocketCloseReasonCode, CloseHard(r) \/ ConnectionClosed(r)
      PROVE  socket' # "open"
  BY <1>1 DEF CloseHard, ConnectionClosed, PrepareToClose
<1>2. ASSUME NEW type, NEW data, FireReceived(type, data)
      PROVE  Goal
  <2>1. Fire(type, data) => Goal
    BY DEF Fire
  <2>2. Fire("text", data) => Goal
    BY DEF Fire
  <2> QED
    BY <1>1, <1>2, <2>1, <2>2, Reasons DEF FireReceived, FireReceivedString
<1>3. CASE ReceivedFirst
  BY <1>2, <1>3 DEF ReceivedFirst
<1>4. CASE ReceivedContinuation
  BY <1>2, <1>4 DEF ReceivedContinuation
<1>5. ProtocolError => Goal
  BY <1>1, Reasons DEF ProtocolError
<1>6. CASE ReceivedFirstTooSoon \/ ReceivedContinuationOfNothing
  BY <1>5, <1>6 DEF ReceivedFirstTooSoon, ReceivedContinuationOfNothing
<1>7. CASE ReceivedPing \/ ReceivedPong
  BY <1>5, <1>7 DEF ReceivedPing, ReceivedPong
<1>8. CASE ReceivedClose
  BY <1>8 DEF ReceivedClose, ConnectionClosed, CloseHard, PrepareToClose
<1>9. CASE \E n \in 1..Len(client.frames) : Read(n)
  BY <1>9 DEF Read
<1>10. CASE CloseByOthers
  BY <1>10 DEF CloseByOthers
<1>11. CASE DropByOthers \/ TimerExpires
  BY <1>1, <1>11, Reasons DEF DropByOthers, TimerExpires
<1>12. CASE HandlerCloses \/ ConnectionReset
  BY <1>12 DEF HandlerCloses, ConnectionReset, SocketClosed
<1> QED
  BY <1>3, <1>4, <1>6, <1>7, <1>8, <1>9, <1>10, <1>11, <1>12 DEF Next, ReceivedFrame

\* A handler that is closing its socket stays at that.
LEMMA NeverReopens ==
  ASSUME TypeOK, Next, socket # "open"
  PROVE  socket' # "open"
<1>1. socket' = socket \/ socket' # "open"
  BY TellsGoneOnlyClosing
<1> QED
  BY <1>1

\* The service has been told that the client is gone.
TellsGone == \E i \in 1..Len(told) : told[i].method = "disconnected"
GoneIsClosing == TellsGone => socket # "open"

\* No step tells it while the socket stays open.
LEMMA StepGone == TypeOK /\ GoneIsClosing /\ [Next]_vars => GoneIsClosing'
<1> SUFFICES ASSUME TypeOK, GoneIsClosing, [Next]_vars PROVE GoneIsClosing'
  OBVIOUS
<1>1. CASE UNCHANGED vars
  BY <1>1 DEF vars, GoneIsClosing, TellsGone
<1>2. CASE Next /\ told' = told
  BY <1>2, NeverReopens DEF GoneIsClosing, TellsGone
<1>3. ASSUME Next, NEW m, told' = Append(told, [method |-> "received", message |-> m])
      PROVE  GoneIsClosing'
  <2> DEFINE block == [method |-> "received", message |-> m]
  <2>1. block.method # "disconnected"
    OBVIOUS
  <2>2. /\ Len(told') = Len(told) + 1 /\ Len(told) \in Nat
        /\ \A i \in 1..Len(told) : told'[i] = told[i]
        /\ told'[Len(told) + 1] = block
    <3> HIDE DEF block
    <3>1. told \in Seq(Block \union {block}) /\ block \in Block \union {block}
      BY DEF TypeOK
    <3>2. told' = Append(told, block)
      BY <1>3 DEF block
    <3> QED
      BY <3>1, <3>2, AppendProperties
  <2> HIDE DEF block
  <2>3. TellsGone' => TellsGone
    BY <2>1, <2>2 DEF TellsGone
  <2> QED
    BY <1>3, <2>3, NeverReopens DEF GoneIsClosing
<1>4. CASE Next /\ socket' # "open"
  BY <1>4 DEF GoneIsClosing
<1> QED
  BY <1>1, <1>2, <1>3, <1>4, TellsGoneOnlyClosing

\* Nothing more is read from a client the service was told is gone: what the
\* service still hears of it was in the buffer then (connectionClosed and
\* socketClosed close the socket, process(_:) handles the rest of its buffer).
THEOREM NothingReadAfterGone == Spec => LateOnlyFromLastBuffer
<1>1. Init => GoneIsClosing
  BY DEF Init, GoneIsClosing, TellsGone
<1>2. GoneIsClosing /\ [Next]_vars => [TellsGone => UNCHANGED available]_vars
  <2> SUFFICES ASSUME GoneIsClosing, TellsGone, Next PROVE UNCHANGED available
    BY DEF vars
  <2>1. socket # "open"
    BY DEF GoneIsClosing
  <2> QED
    BY <2>1 DEF Next, ReceivedFrame, ReceivedFirst, ReceivedFirstTooSoon,
                ReceivedContinuation, ReceivedContinuationOfNothing, ReceivedPing,
                ReceivedPong, ReceivedClose, Received, Read, CloseByOthers, DropByOthers,
                TimerExpires, Interrupt, HandlerCloses, ConnectionReset
<1> QED
  BY <1>1, <1>2, TypeCorrect, StepGone, PTL DEF Spec, LateOnlyFromLastBuffer, TellsGone
-----------------------------------------------------------------------------
(* What a step sends, and the types it leaves, whoever the client is. *)

SendsClose ==
  \E r \in WebSocketCloseReasonCode :
    wire' = Append(wire, [opCode |-> "close", payload |-> CodeBytes(r)])

\* A close frame carries nothing but the two bytes of a code.
LEMMA CloseIsShort ==
  ASSUME NEW r \in WebSocketCloseReasonCode
  PROVE  /\ [opCode |-> "close", payload |-> CodeBytes(r)]
              \in [opCode : {"pong", "close"}, payload : Seq(Byte)]
         /\ Len(CodeBytes(r)) = 2
<1>1. CodeBytes(r) \in Seq(Byte)
  BY CodeBytesType
<1>2. Len(CodeBytes(r)) = 2
  BY DEF CodeBytes
<1> QED
  BY <1>1, <1>2

\* A frame is answered with one frame at most: a ping that keeps to the rules
\* with a pong that has its payload, any other, if at all, with a close frame.
LEMMA FrameSends ==
  ASSUME frame \in WSFrame, ReceivedFrame
  PROVE  IF frame.opCode = "ping" /\ IsControl(frame)
           THEN wire' = Append(wire, [opCode |-> "pong", payload |-> frame.payload])
           ELSE wire' = wire \/ SendsClose
<1> DEFINE W == wire' = wire \/ SendsClose
<1>1. \A r \in WebSocketCloseReasonCode : CloseHard(r) => W
  BY DEF CloseHard, SendMessage, SendsClose
<1>2. \A r \in WebSocketCloseReasonCode : ConnectionClosed(r) => W
  BY <1>1 DEF ConnectionClosed
<1>3. ASSUME NEW type, NEW data, FireReceived(type, data)
      PROVE  W
  <2>1. \A t : Fire(t, data) => W
    BY DEF Fire
  <2> QED
    BY <1>1, <1>3, <2>1, Reasons DEF FireReceived, FireReceivedString
<1>4. ProtocolError => W
  BY <1>2, Reasons DEF ProtocolError
<1>5. frame.payload \in Seq(Byte)
  BY DEF WSFrame
<1>6. CASE ReceivedPing
  <2>1. frame.opCode = "ping"
    BY <1>6 DEF ReceivedPing, Received
  <2> QED
    BY <1>4, <1>6, <2>1 DEF ReceivedPing, SendMessage
<1>7. CASE ReceivedFirst
  <2>1. frame.opCode # "ping"
    BY <1>7 DEF ReceivedFirst, Received
  <2> QED
    BY <1>3, <1>7, <2>1 DEF ReceivedFirst
<1>8. CASE ReceivedContinuation
  <2>1. frame.opCode # "ping"
    BY <1>8 DEF ReceivedContinuation, Received
  <2> QED
    BY <1>3, <1>8, <2>1 DEF ReceivedContinuation
<1>9. CASE ReceivedFirstTooSoon \/ ReceivedContinuationOfNothing
  <2>1. frame.opCode # "ping"
    BY <1>9 DEF ReceivedFirstTooSoon, ReceivedContinuationOfNothing, Received
  <2> QED
    BY <1>4, <1>9, <2>1 DEF ReceivedFirstTooSoon, ReceivedContinuationOfNothing
<1>10. CASE ReceivedPong
  <2>1. frame.opCode # "ping" /\ wire' = wire
    BY <1>10 DEF ReceivedPong, Received
  <2> QED
    BY <2>1
<1>11. CASE ReceivedClose
  <2> DEFINE payload == frame.payload
  <2>1. frame.opCode # "ping"
    BY <1>11 DEF ReceivedClose, Received
  <2>2. CASE Len(payload) # 1
    <3>1. ReasonIn(payload) \in WebSocketCloseReasonCode
      BY <1>5, <2>2, ReasonInType
    <3> QED
      BY <1>1, <1>2, <1>11, <2>1, <3>1, Reasons DEF ReceivedClose
  <2>3. CASE Len(payload) = 1
    <3>1. 1 \notin 2..ControlLimit /\ Len(<< >>) # 1
      BY BoundsAssumption
    <3>2. payload # << >> /\ Len(payload) \notin 2..ControlLimit
      BY <2>3, <3>1, Zenon
    <3> QED
      BY <1>2, <1>11, <2>1, <3>2, Reasons DEF ReceivedClose
  <2> QED
    BY <2>2, <2>3
<1> QED
  BY <1>6, <1>7, <1>8, <1>9, <1>10, <1>11 DEF ReceivedFrame

\* The others send a close frame or nothing, and the handler nothing.
LEMMA OthersSend ==
  ASSUME CloseByOthers \/ DropByOthers \/ TimerExpires
  PROVE  wire' = wire \/ SendsClose
BY Reasons DEF CloseByOthers, DropByOthers, TimerExpires, CloseHard, ConnectionClosed,
               SendMessage, SendsClose

\* What is sent keeps its type.
LEMMA SentType ==
  ASSUME TypeOK, wire' = wire \/ SendsClose
  PROVE  wire' \in Seq([opCode : {"pong", "close"}, payload : Seq(Byte)])
<1>1. CASE wire' = wire
  BY <1>1 DEF TypeOK
<1>2. CASE SendsClose
  <2>1. PICK r \in WebSocketCloseReasonCode :
          wire' = Append(wire, [opCode |-> "close", payload |-> CodeBytes(r)])
    BY <1>2 DEF SendsClose
  <2> DEFINE f == [opCode |-> "close", payload |-> CodeBytes(r)]
             S == [opCode : {"pong", "close"}, payload : Seq(Byte)]
  <2>2. f \in S /\ wire \in Seq(S)
    BY CloseIsShort DEF TypeOK
  <2> HIDE DEF f, S
  <2>3. Append(wire, f) \in Seq(S)
    BY <2>2, AppendProperties, Zenon
  <2> QED
    BY <2>1, <2>3, Zenon DEF f, S
<1> QED
  BY <1>1, <1>2

\* The steps of the others and of the handler keep the types.
LEMMA OthersType ==
  ASSUME TypeOK, \/ CloseByOthers \/ DropByOthers \/ TimerExpires
                 \/ HandlerCloses \/ ConnectionReset
  PROVE  TypeOK'
<1> DEFINE told_(name) == told' = Append(told, [method |-> "disconnected", reason |-> Reason(name)])
<1>1. /\ UNCHANGED <<client, available, handled, messageState, message, received>>
      /\ interrupts' \in {interrupts, interrupts + 1}
  BY DEF CloseByOthers, DropByOthers, TimerExpires, HandlerCloses, ConnectionReset, Interrupt
<1>2. wire' = wire \/ SendsClose
  <2>1. CASE HandlerCloses \/ ConnectionReset
    BY <2>1 DEF HandlerCloses, ConnectionReset, SocketClosed
  <2> QED
    BY <2>1, OthersSend
<1>3. wire' \in Seq([opCode : {"pong", "close"}, payload : Seq(Byte)])
  BY <1>2, SentType
<1>4. told' = told \/ told_("closedAbnormally") \/ told_("noReasonCodeSent")
  BY DEF CloseByOthers, DropByOthers, TimerExpires, HandlerCloses, ConnectionReset,
         SocketClosed, ConnectionClosed
<1>5. told' \in Seq(Block)
  <2> DEFINE block(name) == [method |-> "disconnected", reason |-> Reason(name)]
  <2>1. block("closedAbnormally") \in Block /\ block("noReasonCodeSent") \in Block
    BY Reasons DEF Block
  <2>2. told \in Seq(Block)
    BY DEF TypeOK
  <2>3. \/ told' = told
        \/ told' = Append(told, block("closedAbnormally"))
        \/ told' = Append(told, block("noReasonCodeSent"))
    BY <1>4
  <2> HIDE DEF block
  <2> QED
    BY <2>1, <2>2, <2>3
<1>6. active' \in BOOLEAN
  <2>1. active' = FALSE
    BY DEF CloseByOthers, DropByOthers, TimerExpires, HandlerCloses, ConnectionReset,
           SocketClosed, ConnectionClosed, CloseHard, TypeOK
  <2> QED
    BY <2>1
<1>7. socket' \in {"open", "closing", "closed"}
  BY DEF CloseByOthers, DropByOthers, TimerExpires, HandlerCloses, ConnectionReset,
         SocketClosed, ConnectionClosed, CloseHard, PrepareToClose, TypeOK
<1> QED
  BY <1>1, <1>3, <1>5, <1>6, <1>7 DEF TypeOK

\* While a client keeps to the rules, what it hears for a frame is a pong or
\* nothing.
LEMMA GoodFrameSends ==
  ASSUME IInv, ReceivedFrame, handled < client.good
  PROVE  /\ frame.opCode = "ping" => IsControl(frame)
         /\ wire' = IF frame.opCode = "ping"
                      THEN Append(wire, [opCode |-> "pong", payload |-> frame.payload])
                      ELSE wire
<1>1. frame \in WSFrame /\ Here.begun \in BOOLEAN
  BY FrameType, ReceivedShape, NextPlace
<1>2. CASE IsControl(frame)
  <2>1. CASE frame.opCode = "ping"
    BY <1>1, <1>2, <2>1, FrameSends
  <2>2. CASE frame.opCode # "ping"
    <3>1. frame.opCode = "pong"
      BY <1>2, <2>2 DEF IsControl
    <3>2. ReceivedPong
      BY <3>1 DEF ReceivedFrame, ReceivedFirst, ReceivedFirstTooSoon, ReceivedContinuation,
                  ReceivedContinuationOfNothing, ReceivedPing, ReceivedClose, Received
    <3> QED
      BY <2>2, <3>2 DEF ReceivedPong
  <2> QED
    BY <1>2, <2>1, <2>2
<1>3. CASE ~IsControl(frame)
  <2>1. wire' = wire
    BY <1>1, <1>3, GoodFirst, GoodContinuation
  <2>2. frame.opCode # "ping"
    <3>1. /\ Here.message \in Nat \ {0} /\ Here.message <= Len(client.messages)
          /\ IsFragment(frame, client.messages[Here.message], Here, Here')
      BY <1>3, NextPlace
    <3>2. Len(client.messages) \in Nat
      BY ClientType DEF IInv
    <3>3. client.messages[Here.message] \in Message
      BY <3>1, <3>2, MessageType DEF IInv
    <3> QED
      BY <3>1, <3>3 DEF IsFragment, Message
  <2> QED
    BY <2>1, <2>2
<1> QED
  BY <1>2, <1>3
=============================================================================
