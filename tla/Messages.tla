------------------------------ MODULE Messages ------------------------------
(***************************************************************************)
(* WebSocketConnection.received(frame:): how the frames the parser hands   *)
(* on become messages, answers and the end of a connection.  It runs on    *)
(* the reader queue, one frame at a time, for all frames of a buffer       *)
(* before the next is read, whatever they did to the connection.  In       *)
(* between the service (with its default reason) or the timer may close    *)
(* the connection.  Parse errors are in FrameParser, and what happens      *)
(* within a call while another thread is in one is in Connection.          *)
(*                                                                         *)
(* What a client sends is fixed at the start: the messages, the frames it  *)
(* cuts them into with control frames in between, and for each frame the   *)
(* place in the messages it starts at.  After the first `good` frames it   *)
(* stops, closes the connection or breaks a rule, and after that its       *)
(* frames are arbitrary.                                                   *)
(*                                                                         *)
(* The service's methods are called by blocks on the serial callbackQueue: *)
(* told is the order of these blocks.  Left out: the texts that describe   *)
(* why a connection is closed.                                             *)
(***************************************************************************)
EXTENDS Integers, Sequences, CloseReason

CONSTANTS
  Clients,         \* what clients may send: records described by WellFormed
  IsText(_),       \* are these bytes UTF-8?
  ControlLimit,    \* the payload a control frame may have: 125 in the code
  Interrupts,      \* what may happen besides the client's frames
  MaxInterrupts    \* bound: how often

Byte == 0..255

FrameOpcode == {"continuation", "text", "binary", "close", "ping", "pong"}
WSFrame == [opCode : FrameOpcode, finalFrame : BOOLEAN, payload : Seq(Byte)]

\* The two kinds of message, and of message in progress (MessageStates).
Message == [type : {"text", "binary"}, data : Seq(Byte)]

\* Where a client is in its messages: which one, how much of it is sent, and
\* whether its first frame is.
Place == [message : Nat \ {0}, at : Nat, begun : BOOLEAN]
StartOf(k) == [message |-> k, at |-> 0, begun |-> FALSE]

-----------------------------------------------------------------------------
(* What a client sends while it keeps to the rules. *)

\* Frame f is a fragment of message m from place p on, and after is the place
\* behind it.
IsFragment(f, m, p, after) ==
  /\ f.opCode = IF p.begun THEN "continuation" ELSE m.type
  /\ p.at + Len(f.payload) <= Len(m.data)
  /\ \A i \in 1..Len(f.payload) : f.payload[i] = m.data[p.at + i]
  /\ f.finalFrame => p.at + Len(f.payload) = Len(m.data)
  /\ after = IF f.finalFrame
               THEN StartOf(p.message + 1)
               ELSE [message |-> p.message, at |-> p.at + Len(f.payload), begun |-> TRUE]

IsControl(f) ==
  \/ f.opCode = "pong"
  \/ f.opCode = "ping" /\ f.finalFrame /\ Len(f.payload) <= ControlLimit

\* Frame f, at place p of messages ms, is what a client's good frames end at: a
\* close frame, or one that breaks a rule.
IsEnd(f, ms, p) ==
  \/ f.opCode = "close"
  \/ f.opCode = "ping" /\ ~IsControl(f)
  \/ f.opCode = "continuation" /\ ~p.begun
  \/ f.opCode \in {"text", "binary"} /\ p.begun
  \/ f.opCode = "text" /\ ~p.begun /\ f.finalFrame /\ ~IsText(f.payload)
  \/ /\ f.opCode = "continuation" /\ p.begun /\ f.finalFrame
     /\ ms[p.message].type = "text"
     /\ ~IsText(SubSeq(ms[p.message].data, 1, p.at) \o f.payload)

WellFormed(c) ==
  /\ c.frames \in Seq(WSFrame) /\ c.messages \in Seq(Message)
  /\ \A k \in 1..Len(c.messages) : c.messages[k].type = "text" => IsText(c.messages[k].data)
  /\ c.good \in 0..Len(c.frames)
  /\ c.place \in [1..(c.good + 1) -> Place]
  /\ c.place[1] = StartOf(1)
  /\ \A i \in 1..(c.good + 1) :
       /\ c.place[i].message <= Len(c.messages) + (IF c.place[i].begun THEN 0 ELSE 1)
       /\ c.place[i].message <= c.place[c.good + 1].message
  /\ \A i \in 1..c.good :
       IF IsControl(c.frames[i])
         THEN c.place[i + 1] = c.place[i]
         ELSE /\ c.place[i].message <= Len(c.messages)
              /\ IsFragment(c.frames[i], c.messages[c.place[i].message],
                            c.place[i], c.place[i + 1])
  /\ c.good < Len(c.frames) => IsEnd(c.frames[c.good + 1], c.messages, c.place[c.good + 1])

ASSUME ClientsAssumption == \A c \in Clients : WellFormed(c)

ASSUME BoundsAssumption ==
  /\ ControlLimit \in Nat
  /\ Interrupts \subseteq {"close", "drop", "expire", "reset"}
  /\ MaxInterrupts \in Nat

-----------------------------------------------------------------------------
VARIABLES
  client,         \* the client of this connection
  available,      \* frames read from its socket
  handled,        \* frames of these that received(frame:) has been called with
  messageState,   \* WebSocketConnection.messageState
  message,        \* WebSocketConnection.message
  active,         \* WebSocketConnection.active
  socket,         \* the socket handler: open, closing or closed
  told,           \* the blocks put into callbackQueue
  wire,           \* the frames the reader and the others sent
  interrupts,     \* interrupts so far (MaxInterrupts)
  received        \* history: messages of the client's good frames in told

vars == <<client, available, handled, messageState, message, active, socket, told,
          wire, interrupts, received>>

Init ==
  /\ client \in Clients
  /\ available = 0 /\ handled = 0
  /\ messageState = "unknown" /\ message = << >>
  /\ active = TRUE
  /\ socket = "open"
  /\ told = << >> /\ wire = << >> /\ received = << >>
  /\ interrupts = 0

-----------------------------------------------------------------------------
(* The calls received(frame:) makes. *)

SendMessage(opCode, payload) ==
  wire' = Append(wire, [opCode |-> opCode, payload |-> payload])

\* A reason in network byte order.
CodeBytes(reason) == <<code(reason) \div 256, code(reason) % 256>>

PrepareToClose == socket' = IF socket = "open" THEN "closing" ELSE socket

\* closeConnection with hard: true.
CloseHard(reason) ==
  /\ SendMessage("close", CodeBytes(reason))
  /\ active' = FALSE
  /\ PrepareToClose

\* Mutant: the closeConnection in connectionClosed is not a hard one.
ConnectionClosedSoftly(reason) ==
  IF active
    THEN /\ SendMessage("close", CodeBytes(reason))
         /\ active' = FALSE
         /\ UNCHANGED socket
         /\ told' = Append(told, [method |-> "disconnected", reason |-> reason])
    ELSE PrepareToClose /\ UNCHANGED <<wire, active, told>>

ConnectionClosed(reason) ==
  IF active
    THEN /\ CloseHard(reason)
         /\ told' = Append(told, [method |-> "disconnected", reason |-> reason])
    ELSE PrepareToClose /\ UNCHANGED <<wire, active, told>>

\* A complete message goes to the service.
Fire(type, data) ==
  LET m == [type |-> type, data |-> data] IN
  /\ told' = Append(told, [method |-> "received", message |-> m])
  /\ received' = IF handled < client.good THEN Append(received, m) ELSE received
  /\ UNCHANGED <<active, socket, wire>>

\* fireReceivedString: text that is not UTF-8 is not handed on.
FireReceivedString(data) ==
  IF IsText(data) THEN Fire("text", data)
                  ELSE CloseHard(Reason("invalidDataContents")) /\ UNCHANGED <<told, received>>

FireReceived(type, data) ==
  IF type = "text" THEN FireReceivedString(data) ELSE Fire(type, data)

ProtocolError ==
  /\ ConnectionClosed(Reason("protocolError"))
  /\ UNCHANGED <<messageState, message, received>>

-----------------------------------------------------------------------------
(* received(frame:), by opcode *)

frame == client.frames[handled + 1]

Received(opCodes) ==
  /\ handled < available
  /\ frame.opCode \in opCodes
  /\ handled' = handled + 1
  /\ UNCHANGED <<client, available, interrupts>>

\* Mutant: message keeps what was in it.
StartAppending ==
  /\ Received({"text", "binary"})
  /\ messageState = "unknown"
  /\ IF frame.finalFrame
       THEN FireReceived(frame.opCode, frame.payload) /\ UNCHANGED <<messageState, message>>
       ELSE /\ messageState' = frame.opCode
            /\ message' = message \o frame.payload
            /\ UNCHANGED <<active, socket, told, wire, received>>

\* Mutant: every fragment of a text must be UTF-8.
FirstMustBeText ==
  /\ Received({"text", "binary"})
  /\ messageState = "unknown"
  /\ IF frame.finalFrame \/ (frame.opCode = "text" /\ ~IsText(frame.payload))
       THEN FireReceived(frame.opCode, frame.payload) /\ UNCHANGED <<messageState, message>>
       ELSE /\ messageState' = frame.opCode
            /\ message' = frame.payload
            /\ UNCHANGED <<active, socket, told, wire, received>>

\* The first frame of a message.
ReceivedFirst ==
  /\ Received({"text", "binary"})
  /\ messageState = "unknown"
  /\ IF frame.finalFrame
       THEN FireReceived(frame.opCode, frame.payload) /\ UNCHANGED <<messageState, message>>
       ELSE /\ messageState' = frame.opCode
            /\ message' = frame.payload
            /\ UNCHANGED <<active, socket, told, wire, received>>

ReceivedFirstTooSoon ==
  Received({"text", "binary"}) /\ messageState # "unknown" /\ ProtocolError

\* Mutant: the message stays in progress.
ContinueAfterFinal ==
  /\ Received({"continuation"})
  /\ messageState # "unknown"
  /\ message' = message \o frame.payload
  /\ UNCHANGED messageState
  /\ IF frame.finalFrame THEN FireReceived(messageState, message')
                         ELSE UNCHANGED <<active, socket, told, wire, received>>

\* Mutant: there need not be a message in progress.
ContinueAnything ==
  /\ Received({"continuation"})
  /\ message' = message \o frame.payload
  /\ IF frame.finalFrame
       THEN FireReceived(messageState, message') /\ messageState' = "unknown"
       ELSE UNCHANGED <<messageState, active, socket, told, wire, received>>

ReceivedContinuation ==
  /\ Received({"continuation"})
  /\ messageState # "unknown"
  /\ message' = message \o frame.payload
  /\ IF frame.finalFrame
       THEN FireReceived(messageState, message') /\ messageState' = "unknown"
       ELSE UNCHANGED <<messageState, active, socket, told, wire, received>>

ReceivedContinuationOfNothing ==
  Received({"continuation"}) /\ messageState = "unknown" /\ ProtocolError

\* Mutant: a fragmented ping is answered.
PongToFragment ==
  /\ Received({"ping"})
  /\ IF Len(frame.payload) <= ControlLimit
       THEN /\ SendMessage("pong", frame.payload)
            /\ UNCHANGED <<messageState, message, active, socket, told, received>>
       ELSE ProtocolError

\* Mutant: a connection that is closing answers no more.
PongWhileActive ==
  /\ Received({"ping"})
  /\ IF IsControl(frame)
       THEN /\ IF active THEN SendMessage("pong", frame.payload) ELSE UNCHANGED wire
            /\ UNCHANGED <<messageState, message, active, socket, told, received>>
       ELSE ProtocolError

ReceivedPing ==
  /\ Received({"ping"})
  /\ IF IsControl(frame)
       THEN /\ SendMessage("pong", frame.payload)
            /\ UNCHANGED <<messageState, message, active, socket, told, received>>
       ELSE ProtocolError

ReceivedPong ==
  /\ Received({"pong"})
  /\ UNCHANGED <<messageState, message, active, socket, told, wire, received>>

\* Mutant: the reason is taken in the byte order of the host.
ReasonUnswapped(payload) ==
  IF payload = << >> THEN Reason("noReasonCodeSent")
                     ELSE from(256 * payload[2] + payload[1])

\* The reason in a close frame, from its first two bytes.
ReasonIn(payload) ==
  IF payload = << >> THEN Reason("noReasonCodeSent")
                     ELSE from(256 * payload[1] + payload[2])

\* A close frame for an inactive connection is ignored.
ReceivedClose ==
  /\ Received({"close"})
  /\ UNCHANGED <<messageState, message, received>>
  /\ LET payload == frame.payload IN
       \/ ~active /\ UNCHANGED <<active, socket, told, wire>>
       \/ /\ active
          /\ IF payload # << >> /\ Len(payload) \notin 2..ControlLimit
               THEN ConnectionClosed(Reason("protocolError"))
               ELSE IF Len(payload) > 2 /\ ~IsText(SubSeq(payload, 3, Len(payload)))
                 THEN CloseHard(Reason("invalidDataContents")) /\ UNCHANGED told
                 ELSE ConnectionClosed(ReasonIn(payload))

-----------------------------------------------------------------------------
(* The socket, and the others that use the connection *)

\* A read brings n more frames; a handler that is closing reads no more.
Read(n) ==
  /\ socket = "open"
  /\ handled = available
  /\ available + n <= Len(client.frames)
  /\ available' = available + n
  /\ UNCHANGED <<client, handled, messageState, message, active, socket, told, wire,
                 interrupts, received>>

Interrupt(what) ==
  /\ what \in Interrupts
  /\ interrupts < MaxInterrupts
  /\ interrupts' = interrupts + 1
  /\ UNCHANGED <<client, available, handled, messageState, message, received>>

\* close() by the service: the socket stays open.
CloseByOthers ==
  /\ Interrupt("close") /\ socket # "closed"
  /\ SendMessage("close", CodeBytes(Reason("normal")))
  /\ active' = FALSE
  /\ UNCHANGED <<socket, told>>

DropByOthers ==
  /\ Interrupt("drop") /\ socket # "closed"
  /\ CloseHard(Reason("normal"))
  /\ UNCHANGED told

\* The timer gives the client up; WSSocketProcessor.close() from outside does the same.
TimerExpires ==
  /\ Interrupt("expire") /\ socket # "closed"
  /\ ConnectionClosed(Reason("closedAbnormally"))

\* socketClosed(): nothing can be written any more.
SocketClosed ==
  /\ handled = available /\ socket # "closed"
  /\ socket' = "closed"
  /\ active' = FALSE
  /\ told' = IF active
               THEN Append(told, [method |-> "disconnected",
                                  reason |-> Reason("noReasonCodeSent")])
               ELSE told
  /\ UNCHANGED wire

\* The handler closes the socket it was told to close, or whose client is gone
\* after its last frame.
HandlerCloses ==
  /\ socket = "closing" \/ available = Len(client.frames)
  /\ SocketClosed
  /\ UNCHANGED <<client, available, handled, messageState, message, interrupts, received>>

\* The socket breaks before the client's last frame is read.
ConnectionReset == Interrupt("reset") /\ SocketClosed

-----------------------------------------------------------------------------
ReceivedFrame ==
  \/ ReceivedFirst \/ ReceivedFirstTooSoon
  \/ ReceivedContinuation \/ ReceivedContinuationOfNothing
  \/ ReceivedPing \/ ReceivedPong \/ ReceivedClose

Next ==
  \/ ReceivedFrame
  \/ \E n \in 1..Len(client.frames) : Read(n)
  \/ CloseByOthers \/ DropByOthers \/ TimerExpires
  \/ HandlerCloses \/ ConnectionReset

\* The reader queue handles what has been read, and the network delivers what
\* the client sends.
Spec ==
  /\ Init /\ [][Next]_vars
  /\ WF_vars(ReceivedFrame)
  /\ WF_vars(\E n \in 1..Len(client.frames) : Read(n))

-----------------------------------------------------------------------------
Block ==
  [method : {"received"}, message : Message]
    \union [method : {"disconnected"}, reason : WebSocketCloseReasonCode]

TypeOK ==
  /\ available \in 0..Len(client.frames)
  /\ handled \in 0..available
  /\ messageState \in {"unknown", "text", "binary"}
  /\ message \in Seq(Byte)
  /\ active \in BOOLEAN
  /\ socket \in {"open", "closing", "closed"}
  /\ told \in Seq(Block)
  /\ wire \in Seq([opCode : {"pong", "close"}, payload : Seq(Byte)])
  /\ interrupts \in Nat
  /\ received \in Seq(Message)

\* The messages a client has sent in full by its good frames.
Complete(c) == SubSeq(c.messages, 1, c.place[c.good + 1].message - 1)

\* The messages handed on are the client's, in order, with their own type and
\* bytes, however it fragments them, whatever control frames it puts in
\* between, and whoever closes the connection meanwhile.
MessagesInOrder ==
  /\ Len(received) <= Len(Complete(client))
  /\ \A k \in 1..Len(received) : received[k] = client.messages[k]

\* A close frame with the code of an error is only sent to a client that has
\* broken a rule.
BlamesOnlyViolations ==
  \A i \in 1..Len(wire) :
    wire[i].opCode = "close"
      /\ wire[i].payload \in {CodeBytes(Reason("protocolError")),
                              CodeBytes(Reason("invalidDataContents"))}
      => handled > client.good

\* The close frame that ends what the client sends.
LastFrame == client.frames[client.good + 1]
IsCloseWithReason(f) ==
  /\ f.opCode = "close" /\ Len(f.payload) \in 2..ControlLimit
  /\ IsText(SubSeq(f.payload, 3, Len(f.payload)))

\* A connection that only its client closes is answered with the client's own
\* code, if that is one a close frame may carry, and the service is told the
\* same (received(frame:), from(code:) and code()).
CloseCodeEchoed ==
  handled > client.good /\ interrupts = 0 /\ IsCloseWithReason(LastFrame) =>
    LET c == 256 * LastFrame.payload[1] + LastFrame.payload[2] IN
      MayBeSent(c) =>
        /\ \E i \in 1..Len(wire) :
             wire[i] = [opCode |-> "close", payload |-> SubSeq(LastFrame.payload, 1, 2)]
        /\ \E i \in 1..Len(told) :
             told[i].method = "disconnected" /\ code(told[i].reason) = c

\* What ends a client's good frames ends the connection: it is inactive from
\* then on and, unless somebody had closed it before, its socket is on its way
\* to be closed.
EndsAtViolation ==
  handled > client.good => ~active /\ (interrupts = 0 => socket # "open")

\* A socket whose client the service was told is gone is read no more: what it
\* hears of that client afterwards comes from the frames of the same buffer, of
\* which process(_:) handles the rest (disconnected is queued by connectionClosed,
\* which closes the socket whoever calls it).
LateOnlyFromLastBuffer ==
  [][(\E i \in 1..Len(told) : told[i].method = "disconnected") => UNCHANGED available]_vars

\* The message layer as the service sees it.
Service == INSTANCE Delivery WITH sent <- Complete(client)

\* received(frame:) implements Delivery: every message is handed on in its turn,
\* and in the end they all are, unless somebody else ends the connection.
DeliversEveryMessage ==
  /\ Service!SafeSpec
  /\ [](interrupts = 0) => <>Service!AllDelivered
=============================================================================
