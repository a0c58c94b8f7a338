-------------------------- MODULE Connection_proofs --------------------------
(***************************************************************************)
(* Proofs about Connection for any application threads making any number   *)
(* of calls: the lock covers one frame's way to the socket, so frames are  *)
(* written whole; a close command comes before the closing of a socket;    *)
(* the calls that close a connection do not turn a second round; and       *)
(* the service is told of the end once by each thread that may tell it.    *)
(***************************************************************************)
EXTENDS Connection, SequenceTheorems, FiniteSetTheorems, TLAPS

\* The points at which a thread holds the lock.
Inside == {"filling", "writing", "writingPayload", "unlocking"}

\* One thread at a time has it, and the semaphore says whether one does.
LockHeld ==
  /\ writeLock \in {0, 1}
  /\ \A t \in Threads : pc[t] \in Inside => writeLock = 0
  /\ \A t, u \in Threads : pc[t] \in Inside /\ pc[u] \in Inside => t = u

\* A thread that is about to write the buffer has filled it itself.
BufferFilled ==
  \A t \in Threads : pc[t] = "writing" =>
    buffer = <<[frame |-> job[t].frame,
                part |-> IF job[t].frame.large THEN "header" ELSE "whole"]>>

Header(f) == [frame |-> f, part |-> "header"]
Payload(f) == [frame |-> f, part |-> "payload"]

\* Headers that are written on their own and their payloads are neighbours.
ChunksPaired ==
  \A i \in 1..Len(wire) :
    /\ wire[i].part = "header" /\ i < Len(wire) => wire[i + 1] = Payload(wire[i].frame)
    /\ wire[i].part = "payload" => i > 1 /\ wire[i - 1] = Header(wire[i].frame)

\* While the socket is not closed, a header is the last chunk if and only if its
\* sender is about to write the payload.
HeaderPending ==
  socket # "closed" =>
    /\ \A t \in Threads : pc[t] = "writingPayload" =>
         wire # << >> /\ wire[Len(wire)] = Header(job[t].frame)
    /\ wire # << >> /\ wire[Len(wire)].part = "header" =>
         \E t \in Threads : pc[t] = "writingPayload"

WriteInv == LockHeld /\ BufferFilled /\ ChunksPaired /\ HeaderPending

\* What is followed by more than the end of its call is a close command.
Sending == {"entering", "waiting"} \union Inside

JobShape ==
  \A t \in Threads :
    pc[t] \in Sending /\ job[t].after # "nothing" => job[t].frame.opCode = "close"

CloseWritten == \E i \in 1..Len(wire) : wire[i].frame.opCode = "close"

\* What the circle of closing calls leaves on a thread's stack, and that those who
\* are about to close the socket inside another call, or to tell the service,
\* find the connection inactive.
NestedAt(t) ==
  /\ stack[t] \in Nestings
  /\ pc[t] \in {"closing", "preparing"} /\ stack[t] # << >> => ~active
  /\ pc[t] = "notifying" => ~active
  /\ pc[t] \in {"deciding", "notifying"} => stack[t] \in {<< >>, <<"preparing">>}
  /\ pc[t] = "idle" => stack[t] = << >>
  /\ pc[t] \in Sending /\ job[t].after = "nothing" => stack[t] = << >>

NestShape == \A t \in Threads : NestedAt(t)

\* Nobody has come so far as to need a close command on the wire.
NobodyCloses ==
  /\ active /\ socket # "closing"
  /\ \A t \in Threads :
       /\ pc[t] \notin {"sent", "preparing", "notifying"}
       /\ pc[t] \in {"writingPayload", "unlocking"} => job[t].after = "nothing"

Commanded == socket # "closed" => CloseWritten \/ NobodyCloses

IInv == TypeOK /\ WriteInv /\ JobShape /\ NestShape /\ Commanded

-----------------------------------------------------------------------------
(* Types *)

LEMMA Roles ==
  /\ Reader \in Threads /\ Timer \in Threads /\ CallbackQueue \in Threads
  /\ Callers \subseteq Threads
BY DEF Threads, Callers

\* The types of pc, job and stack.
ThreadsType ==
  /\ pc \in [Threads -> Point]
  /\ job \in [Threads -> Job]
  /\ stack \in [Threads -> Seq({"preparing", "notifying"})]

LEMMA GotoType ==
  ASSUME TypeOK, NEW t \in Threads, NEW p \in Point, Goto(t, p), UNCHANGED job
  PROVE  ThreadsType'
BY DEF TypeOK, Goto, ThreadsType

LEMMA NestType ==
  ASSUME TypeOK, NEW t \in Threads, NEW p \in Point, NEW back \in {"preparing", "notifying"},
         Nest(t, p, back)
  PROVE  /\ pc' \in [Threads -> Point]
         /\ stack' \in [Threads -> Seq({"preparing", "notifying"})]
<1>1. <<back>> \o stack[t] \in Seq({"preparing", "notifying"})
  BY ConcatProperties DEF TypeOK
<1> QED
  BY <1>1 DEF TypeOK, Nest

LEMMA ReturnType ==
  ASSUME TypeOK, NEW t \in Threads, Return(t), UNCHANGED job
  PROVE  ThreadsType'
<1>1. CASE stack[t] = << >>
  BY <1>1, GotoType DEF Return, Point
<1>2. CASE stack[t] # << >>
  <2>1. Head(stack[t]) \in Point /\ Tail(stack[t]) \in Seq({"preparing", "notifying"})
    BY <1>2, HeadTailProperties DEF TypeOK, Point
  <2> QED
    BY <1>2, <2>1 DEF TypeOK, Return, ThreadsType
<1> QED
  BY <1>1, <1>2

LEMMA PrepareType ==
  ASSUME TypeOK, NEW t \in Threads, NEW op \in {"data", "ping", "pong", "close"},
         NEW large \in BOOLEAN, NEW after \in Afterwards, Prepare(t, op, large, after)
  PROVE  job' \in [Threads -> Job]
<1>1. [frame |-> [opCode |-> op, by |-> t, large |-> large], after |-> after] \in Job
  BY DEF Job, OutFrame
<1> QED
  BY <1>1 DEF TypeOK, Prepare

LEMMA SendType ==
  ASSUME TypeOK, NEW t \in Threads, NEW op \in {"data", "ping", "pong", "close"},
         NEW large \in BOOLEAN, NEW after \in Afterwards, Send(t, op, large, after)
  PROVE  ThreadsType'
<1>1. job' \in [Threads -> Job]
  BY PrepareType DEF Send
<1> QED
  BY <1>1 DEF TypeOK, Send, Goto, Point, ThreadsType

LEMMA InitType == Init => TypeOK
<1> SUFFICES ASSUME Init PROVE TypeOK
  OBVIOUS
<1>1. \A t \in Threads :
        [frame |-> [opCode |-> "data", by |-> t, large |-> FALSE], after |-> "nothing"] \in Job
  BY DEF Job, OutFrame, Afterwards
<1>2. job \in [Threads -> Job]
  BY <1>1 DEF Init
<1>3. inbox \in Seq(FrameKind)
  BY InstanceAssumption DEF Init
<1>4. pc \in [Threads -> Point]
  BY DEF Init, Point
<1>5. stack \in [Threads -> Seq({"preparing", "notifying"})]
  BY DEF Init
<1> QED
  BY <1>2, <1>3, <1>4, <1>5 DEF Init, TypeOK

LEMMA AfterSendingType ==
  ASSUME TypeOK, NEW t \in Threads, AfterSending(t), UNCHANGED job
  PROVE  ThreadsType'
BY GotoType, ReturnType DEF AfterSending, Point

LEMMA SendMessageType ==
  ASSUME TypeOK, NEW t \in Threads,
         \/ EnterSendMessage(t) \/ LockWriteLock(t) \/ FillBuffer(t) \/ WriteBuffer(t)
         \/ WritePayload(t) \/ UnlockWriteLock(t)
  PROVE  TypeOK'
<1> USE DEF TypeOK
<1>2. job[t] \in Job /\ job[t].frame \in OutFrame
  BY DEF Job
<1>3. CASE EnterSendMessage(t)
  <2>1. ThreadsType'
    BY <1>3, GotoType, AfterSendingType DEF EnterSendMessage, Point
  <2> QED
    BY <1>3, <2>1 DEF EnterSendMessage, ThreadsType
<1>4. CASE LockWriteLock(t)
  <2>1. ThreadsType'
    BY <1>4, GotoType DEF LockWriteLock, Point
  <2> QED
    BY <1>4, <2>1 DEF LockWriteLock, ThreadsType
<1>5. CASE FillBuffer(t)
  <2>1. ThreadsType'
    BY <1>5, GotoType DEF FillBuffer, Point
  <2>2. buffer' \in Seq(Chunk)
    BY <1>2, <1>5 DEF FillBuffer, Chunk
  <2> QED
    BY <1>5, <2>1, <2>2 DEF FillBuffer, ThreadsType
<1>6. CASE WriteBuffer(t)
  <2>1. ThreadsType'
    BY <1>6, GotoType DEF WriteBuffer, Point
  <2>2. wire' \in Seq(Chunk)
    BY <1>6, ConcatProperties DEF WriteBuffer, Write
  <2> QED
    BY <1>6, <2>1, <2>2 DEF WriteBuffer, ThreadsType
<1>7. CASE WritePayload(t)
  <2>1. ThreadsType'
    BY <1>7, GotoType DEF WritePayload, Point
  <2>2. <<[frame |-> job[t].frame, part |-> "payload"]>> \in Seq(Chunk)
    BY <1>2 DEF Chunk
  <2>3. wire' \in Seq(Chunk)
    BY <1>7, <2>2, ConcatProperties DEF WritePayload, Write
  <2> QED
    BY <1>7, <2>1, <2>3 DEF WritePayload, ThreadsType
<1>8. CASE UnlockWriteLock(t)
  <2>1. ThreadsType'
    BY <1>8, AfterSendingType DEF UnlockWriteLock
  <2> QED
    BY <1>8, <2>1 DEF UnlockWriteLock, ThreadsType
<1> QED
  BY <1>3, <1>4, <1>5, <1>6, <1>7, <1>8

LEMMA CloseIfAliveType ==
  ASSUME TypeOK, NEW t \in Threads, CloseIfAlive(t), UNCHANGED job
  PROVE  ThreadsType'
BY GotoType, ReturnType DEF CloseIfAlive, Point

LEMMA ClosingType ==
  ASSUME TypeOK, NEW t \in Threads,
         \/ DecideClosed(t) \/ Deactivate(t) \/ CloseProcessor(t) \/ PrepareToClose(t)
         \/ NotifyDisconnected(t)
  PROVE  TypeOK'
<1> USE DEF TypeOK
<1>1. CASE DecideClosed(t)
  <2>1. CASE active
    <3>1. Nest(t, "entering", "notifying") /\ Prepare(t, "close", FALSE, "drop")
      BY <1>1, <2>1 DEF DecideClosed
    <3>2. job' \in [Threads -> Job]
      BY <3>1, PrepareType DEF Afterwards
    <3>3. /\ pc' \in [Threads -> Point]
          /\ stack' \in [Threads -> Seq({"preparing", "notifying"})]
      BY <3>1, NestType DEF Point
    <3> QED
      BY <1>1, <3>2, <3>3 DEF DecideClosed
  <2>2. CASE ~active
    <3>1. ThreadsType'
      BY <1>1, <2>2, CloseIfAliveType DEF DecideClosed
    <3> QED
      BY <1>1, <3>1 DEF DecideClosed, ThreadsType
  <2> QED
    BY <2>1, <2>2
<1>2. CASE Deactivate(t)
  <2>1. ThreadsType'
    BY <1>2, CloseIfAliveType, ReturnType DEF Deactivate
  <2> QED
    BY <1>2, <2>1 DEF Deactivate, ThreadsType
<1>3. CASE CloseProcessor(t)
  <2>1. CASE active
    <3>1. Nest(t, "deciding", "preparing")
      BY <1>3, <2>1 DEF CloseProcessor
    <3>2. /\ pc' \in [Threads -> Point]
          /\ stack' \in [Threads -> Seq({"preparing", "notifying"})]
      BY <3>1, NestType DEF Point
    <3> QED
      BY <1>3, <3>2 DEF CloseProcessor
  <2>2. CASE ~active
    <3>1. ThreadsType'
      BY <1>3, <2>2, GotoType DEF CloseProcessor, Point
    <3> QED
      BY <1>3, <3>1 DEF CloseProcessor, ThreadsType
  <2> QED
    BY <2>1, <2>2
<1>4. CASE PrepareToClose(t)
  <2>1. ThreadsType'
    BY <1>4, ReturnType DEF PrepareToClose
  <2> QED
    BY <1>4, <2>1 DEF PrepareToClose, ThreadsType
<1>5. CASE NotifyDisconnected(t)
  <2>1. ThreadsType'
    BY <1>5, ReturnType DEF NotifyDisconnected
  <2> QED
    BY <1>5, <2>1 DEF NotifyDisconnected, ThreadsType
<1> QED
  BY <1>1, <1>2, <1>3, <1>4, <1>5

\* What a call of the application's does to its thread.
LEMMA CallCases ==
  ASSUME NEW t \in Threads, Call(t)
  PROVE  \/ Send(t, "data", FALSE, "nothing") \/ Send(t, "data", TRUE, "nothing")
         \/ Send(t, "ping", FALSE, "nothing")
         \/ Send(t, "close", FALSE, "close") \/ Send(t, "close", FALSE, "drop")
         \/ CallCloseProcessor(t)
BY Zenon DEF Call, CallSend, CallPing, CallClose, CallDrop

LEMMA CallType ==
  ASSUME TypeOK, NEW t \in Threads, Call(t)
  PROVE  TypeOK'
<1>1. PICK call : Calls(t, call)
  BY Zenon DEF Call, CallSend, CallPing, CallClose, CallDrop, CallCloseProcessor
<1>2. ThreadsType'
  BY CallCases, SendType, GotoType DEF Afterwards, CallCloseProcessor, Point
<1>3. calls' \in [Threads -> Nat]
  BY <1>1 DEF Calls, TypeOK
<1> QED
  BY <1>1, <1>2, <1>3 DEF Calls, TypeOK, ThreadsType

LEMMA TimerType ==
  ASSUME TypeOK, TimerPings \/ TimerExpires
  PROVE  TypeOK'
<1>1. TimerFires
  BY DEF TimerPings, TimerExpires
<1>2. ThreadsType'
  <2>1. CASE TimerPings
    BY <2>1, Roles, SendType DEF TimerPings, Afterwards
  <2>2. CASE TimerExpires
    BY <2>2, Roles, GotoType DEF TimerExpires, Point
  <2> QED
    BY <2>1, <2>2
<1>3. calls' \in [Threads -> Nat]
  BY <1>1, Roles DEF TimerFires, TypeOK
<1> QED
  BY <1>1, <1>2, <1>3 DEF TimerFires, TypeOK, ThreadsType

LEMMA HandleType ==
  ASSUME TypeOK, Handle
  PROVE  TypeOK'
<1>1. PICK kind : Received(kind)
  BY DEF Handle, ReceivedMessage, ReceivedPing, ReceivedPong, ReceivedMisplaced, ReceivedClose,
         ReceivedInvalidText, ReceivedInvalidClose, ReceivedGarbage
<1>2. batch' \in Seq(FrameKind)
  BY <1>1 DEF Received, TypeOK
<1>3. callbacks' = callbacks \/ callbacks' = Append(callbacks, "received")
  BY DEF Handle, ReceivedMessage, ReceivedPing, ReceivedPong, ReceivedMisplaced, ReceivedClose,
         ReceivedInvalidText, ReceivedInvalidClose, ReceivedGarbage
<1>4. \/ UNCHANGED threadVars
      \/ Goto(Reader, "deciding") /\ UNCHANGED job
      \/ \E op \in {"pong", "close"}, after \in Afterwards : Send(Reader, op, FALSE, after)
  BY DEF Handle, ReceivedMessage, ReceivedPing, ReceivedPong, ReceivedMisplaced, ReceivedClose,
         ReceivedInvalidText, ReceivedInvalidClose, ReceivedGarbage, threadVars, Afterwards
<1>5. ThreadsType'
  <2>1. CASE UNCHANGED threadVars
    BY <2>1 DEF threadVars, TypeOK, ThreadsType
  <2>2. CASE Goto(Reader, "deciding") /\ UNCHANGED job
    BY <2>2, Roles, GotoType DEF Point
  <2>3. CASE \E op \in {"pong", "close"}, after \in Afterwards : Send(Reader, op, FALSE, after)
    BY <2>3, Roles, SendType
  <2> QED
    BY <1>4, <2>1, <2>2, <2>3
<1>6. callbacks' \in Seq({"connected", "received", "disconnected"})
  <2>1. callbacks \in Seq({"connected", "received", "disconnected"})
    BY DEF TypeOK
  <2>2. Append(callbacks, "received") \in Seq({"connected", "received", "disconnected"})
    BY <2>1, AppendProperties
  <2> QED
    BY <1>3, <2>1, <2>2, Zenon
<1> QED
  BY <1>1, <1>2, <1>5, <1>6 DEF Received, TypeOK, ThreadsType

LEMMA OthersType ==
  ASSUME TypeOK,
         \/ RunCallback \/ FireConnected \/ SocketClosed
         \/ \E n \in 1..Len(inbox) : Read(n)
  PROVE  TypeOK'
<1> USE DEF TypeOK
<1>1. CASE RunCallback
  BY <1>1 DEF RunCallback, threadVars
<1>2. CASE FireConnected
  BY <1>2 DEF FireConnected, threadVars
<1>3. CASE SocketClosed
  <2>1. ThreadsType'
    BY <1>3, Roles, GotoType DEF SocketClosed, Point
  <2> QED
    BY <1>3, <2>1 DEF SocketClosed, ThreadsType
<1>4. CASE \E n \in 1..Len(inbox) : Read(n)
  <2>1. PICK n \in 1..Len(inbox) : Read(n)
    BY <1>4
  <2>2. batch' \in Seq(FrameKind) /\ inbox' \in Seq(FrameKind)
    BY <2>1, SubSeqProperties DEF Read
  <2> QED
    BY <2>1, <2>2 DEF Read, threadVars
<1> QED
  BY <1>1, <1>2, <1>3, <1>4

LEMMA StepType ==
  ASSUME TypeOK, [Next]_vars
  PROVE  TypeOK'
<1>1. CASE \E t \in Threads : Continue(t)
  BY <1>1, SendMessageType, ClosingType DEF Continue
<1>2. CASE \E t \in Callers : Call(t)
  BY <1>2, Roles, CallType
<1>3. CASE TimerPings \/ TimerExpires
  BY <1>3, TimerType
<1>4. CASE Handle
  BY <1>4, HandleType
<1>5. CASE RunCallback \/ FireConnected \/ SocketClosed \/ \E n \in 1..Len(inbox) : Read(n)
  BY <1>5, OthersType
<1>6. CASE UNCHANGED vars
  BY <1>6 DEF vars, threadVars, TypeOK
<1> QED
  BY <1>1, <1>2, <1>3, <1>4, <1>5, <1>6 DEF Next

-----------------------------------------------------------------------------
(* How threads move *)

\* A step of thread t leaves the others where they are.
OthersStay(t) ==
  \A u \in Threads \ {t} : pc'[u] = pc[u] /\ job'[u] = job[u] /\ stack'[u] = stack[u]

\* Thread t goes on at p, and returns from a call.
GoesTo(t, p) == OthersStay(t) /\ pc'[t] = p /\ job'[t] = job[t] /\ stack'[t] = stack[t]

Returns(t) ==
  /\ OthersStay(t) /\ job'[t] = job[t]
  /\ stack[t] = << >> => pc'[t] = "idle" /\ stack'[t] = << >>
  /\ stack[t] # << >> => pc'[t] = Head(stack[t]) /\ stack'[t] = Tail(stack[t])

LEMMA GotoMoves ==
  ASSUME TypeOK, NEW t \in Threads, NEW p, Goto(t, p), UNCHANGED job
  PROVE  GoesTo(t, p)
BY DEF TypeOK, Goto, OthersStay, GoesTo

LEMMA ReturnMoves ==
  ASSUME TypeOK, NEW t \in Threads, Return(t), UNCHANGED job
  PROVE  Returns(t)
<1>1. CASE stack[t] = << >>
  BY <1>1 DEF TypeOK, Return, Goto, OthersStay, Returns
<1>2. CASE stack[t] # << >>
  BY <1>2 DEF TypeOK, Return, OthersStay, Returns
<1> QED
  BY <1>1, <1>2

LEMMA ReturnPoints ==
  ASSUME TypeOK, NEW t \in Threads, Returns(t)
  PROVE  pc'[t] \in {"idle", "preparing", "notifying"}
<1>1. stack[t] # << >> => Head(stack[t]) \in {"preparing", "notifying"}
  BY HeadTailProperties DEF TypeOK
<1> QED
  BY <1>1 DEF Returns

LEMMA NestMoves ==
  ASSUME TypeOK, NEW t \in Threads, NEW p, NEW back, Nest(t, p, back)
  PROVE  /\ \A u \in Threads \ {t} : pc'[u] = pc[u] /\ stack'[u] = stack[u]
         /\ pc'[t] = p /\ stack'[t] = <<back>> \o stack[t]
BY DEF TypeOK, Nest

LEMMA PrepareMoves ==
  ASSUME TypeOK, NEW t \in Threads, NEW op, NEW large, NEW after, Prepare(t, op, large, after)
  PROVE  /\ \A u \in Threads \ {t} : job'[u] = job[u]
         /\ job'[t].after = after /\ job'[t].frame.opCode = op
BY DEF TypeOK, Prepare

LEMMA SendMoves ==
  ASSUME TypeOK, NEW t \in Threads, NEW op, NEW large, NEW after, Send(t, op, large, after)
  PROVE  /\ OthersStay(t) /\ pc'[t] = "entering" /\ stack'[t] = stack[t]
         /\ job'[t].after = after /\ job'[t].frame.opCode = op
<1>1. /\ \A u \in Threads \ {t} : job'[u] = job[u]
      /\ job'[t].after = after /\ job'[t].frame.opCode = op
  BY PrepareMoves DEF Send
<1> QED
  BY <1>1 DEF TypeOK, Send, Goto, OthersStay

\* The end of sendMessage, and of closeConnection and connectionClosed.
LEMMA AfterSendingMoves ==
  ASSUME TypeOK, NEW t \in Threads, AfterSending(t), UNCHANGED job
  PROVE  \/ job[t].after = "nothing" /\ Returns(t)
         \/ job[t].after # "nothing" /\ GoesTo(t, "sent")
BY GotoMoves, ReturnMoves DEF AfterSending

LEMMA CloseIfAliveMoves ==
  ASSUME TypeOK, NEW t \in Threads, CloseIfAlive(t), UNCHANGED job
  PROVE  GoesTo(t, "closing") \/ Returns(t)
BY GotoMoves, ReturnMoves DEF CloseIfAlive

\* A step of a call, by the kinds of action.
Leaves(t) ==
  /\ pc[t] \in {"entering", "unlocking"}
  /\ \/ job[t].after = "nothing" /\ Returns(t)
     \/ job[t].after # "nothing" /\ GoesTo(t, "sent")

Writes(t) ==
  /\ pc[t] \in Sending
  /\ \E p \in Sending : GoesTo(t, p)

Decision(t) ==
  /\ pc[t] = "deciding"
  /\ \/ /\ active /\ OthersStay(t) /\ pc'[t] = "entering"
        /\ stack'[t] = <<"notifying">> \o stack[t]
        /\ job'[t].after = "drop" /\ job'[t].frame.opCode = "close"
     \/ ~active /\ (GoesTo(t, "closing") \/ Returns(t))

Closing(t) ==
  /\ pc[t] = "closing"
  /\ \/ /\ active /\ OthersStay(t) /\ pc'[t] = "deciding"
        /\ stack'[t] = <<"preparing">> \o stack[t] /\ job'[t] = job[t]
     \/ ~active /\ GoesTo(t, "preparing")

LEMMA DecideMoves ==
  ASSUME TypeOK, NEW t \in Threads, DecideClosed(t)
  PROVE  Decision(t)
<1>1. CASE active
  <2>1. pc[t] = "deciding" /\ Nest(t, "entering", "notifying") /\ Prepare(t, "close", FALSE, "drop")
    BY <1>1 DEF DecideClosed
  <2>2. /\ \A u \in Threads \ {t} : pc'[u] = pc[u] /\ stack'[u] = stack[u]
        /\ pc'[t] = "entering" /\ stack'[t] = <<"notifying">> \o stack[t]
    BY <2>1, NestMoves
  <2>3. /\ \A u \in Threads \ {t} : job'[u] = job[u]
        /\ job'[t].after = "drop" /\ job'[t].frame.opCode = "close"
    BY <2>1, PrepareMoves
  <2> QED
    BY <1>1, <2>1, <2>2, <2>3 DEF Decision, OthersStay
<1>2. CASE ~active
  BY <1>2, CloseIfAliveMoves DEF DecideClosed, Decision
<1> QED
  BY <1>1, <1>2

LEMMA CloseProcessorMoves ==
  ASSUME TypeOK, NEW t \in Threads, CloseProcessor(t)
  PROVE  Closing(t)
<1>1. CASE active
  <2>1. pc[t] = "closing" /\ Nest(t, "deciding", "preparing") /\ UNCHANGED job
    BY <1>1 DEF CloseProcessor
  <2>2. /\ \A u \in Threads \ {t} : pc'[u] = pc[u] /\ stack'[u] = stack[u]
        /\ pc'[t] = "deciding" /\ stack'[t] = <<"preparing">> \o stack[t]
    BY <2>1, NestMoves
  <2> QED
    BY <1>1, <2>1, <2>2 DEF Closing, OthersStay
<1>2. CASE ~active
  BY <1>2, GotoMoves DEF CloseProcessor, Closing
<1> QED
  BY <1>1, <1>2

LEMMA WriteMoves ==
  ASSUME TypeOK, NEW t \in Threads,
         \/ EnterSendMessage(t) \/ LockWriteLock(t) \/ FillBuffer(t) \/ WriteBuffer(t)
         \/ WritePayload(t) \/ UnlockWriteLock(t)
  PROVE  (Leaves(t) \/ Writes(t)) /\ active' = active
<1>1. CASE EnterSendMessage(t) \/ UnlockWriteLock(t)
  <2>1. pc[t] \in {"entering", "unlocking"} /\ UNCHANGED job
        /\ (Goto(t, "waiting") \/ AfterSending(t))
    BY <1>1 DEF EnterSendMessage, UnlockWriteLock
  <2>2. active' = active
    BY <1>1, Zenon DEF EnterSendMessage, UnlockWriteLock
  <2> QED
    BY <2>1, <2>2, GotoMoves, AfterSendingMoves DEF Leaves, Writes, Sending, Inside
<1>2. CASE LockWriteLock(t) \/ FillBuffer(t) \/ WriteBuffer(t) \/ WritePayload(t)
  <2>1. pc[t] \in Sending /\ UNCHANGED job /\ \E p \in Sending : Goto(t, p)
    BY <1>2 DEF LockWriteLock, FillBuffer, WriteBuffer, WritePayload, Sending, Inside
  <2>2. active' = active
    BY <1>2, Zenon DEF LockWriteLock, FillBuffer, WriteBuffer, WritePayload
  <2> QED
    BY <2>1, <2>2, GotoMoves DEF Writes
<1> QED
  BY <1>1, <1>2

\* What a step of a call may do to its thread.
Moves(t) ==
  \/ (Leaves(t) \/ Writes(t)) /\ active' = active
  \/ Decision(t) /\ active' = active
  \/ pc[t] = "sent" /\ ~active' /\ (GoesTo(t, "closing") \/ Returns(t))
  \/ Closing(t) /\ active' = active
  \/ pc[t] \in {"preparing", "notifying"} /\ Returns(t) /\ active' = active

LEMMA ContinueMoves ==
  ASSUME TypeOK, NEW t \in Threads, Continue(t)
  PROVE  Moves(t)
<1>1. CASE \/ EnterSendMessage(t) \/ LockWriteLock(t) \/ FillBuffer(t) \/ WriteBuffer(t)
           \/ WritePayload(t) \/ UnlockWriteLock(t)
  BY <1>1, WriteMoves, Zenon DEF Moves
<1>2. CASE DecideClosed(t)
  <2>1. active' = active
    BY <1>2, Zenon DEF DecideClosed
  <2> QED
    BY <1>2, <2>1, DecideMoves, Zenon DEF Moves
<1>3. CASE Deactivate(t)
  <2>1. pc[t] = "sent" /\ (GoesTo(t, "closing") \/ Returns(t))
    BY <1>3, CloseIfAliveMoves, ReturnMoves DEF Deactivate
  <2>2. ~active'
    BY <1>3, Zenon DEF Deactivate
  <2> QED
    BY <2>1, <2>2, Zenon DEF Moves
<1>4. CASE CloseProcessor(t)
  <2>1. active' = active
    BY <1>4, Zenon DEF CloseProcessor
  <2> QED
    BY <1>4, <2>1, CloseProcessorMoves, Zenon DEF Moves
<1>5. CASE PrepareToClose(t) \/ NotifyDisconnected(t)
  <2>1. pc[t] \in {"preparing", "notifying"} /\ Returns(t)
    BY <1>5, ReturnMoves DEF PrepareToClose, NotifyDisconnected
  <2>2. active' = active
    BY <1>5, Zenon DEF PrepareToClose, NotifyDisconnected
  <2> QED
    BY <2>1, <2>2, Zenon DEF Moves
<1> QED
  BY <1>1, <1>2, <1>3, <1>4, <1>5, Zenon DEF Continue

LEMMA MovesAlone ==
  ASSUME NEW t \in Threads, Moves(t)
  PROVE  OthersStay(t)
BY Zenon DEF Moves, Leaves, Writes, Decision, Closing, GoesTo, Returns

-----------------------------------------------------------------------------
(* The lock and what is written under it *)

\* A step that no thread takes inside the lock, and none enters or leaves it.
OutsideStep ==
  /\ UNCHANGED <<writeLock, buffer, wire>>
  /\ socket = "closed" => socket' = "closed"
  /\ \A u \in Threads :
       pc[u] \in Inside \/ pc'[u] \in Inside => pc'[u] = pc[u] /\ job'[u] = job[u]

LEMMA OutsideKeepsWriteInv ==
  ASSUME TypeOK, WriteInv, OutsideStep
  PROVE  WriteInv'
<1> USE DEF WriteInv, OutsideStep
<1>1. LockHeld'
  BY DEF LockHeld
<1>2. BufferFilled'
  BY DEF BufferFilled, Inside
<1>3. ChunksPaired'
  BY DEF ChunksPaired
<1>4. HeaderPending'
  <2> SUFFICES ASSUME socket' # "closed" PROVE HeaderPending'
    BY DEF HeaderPending
  <2>1. \A u \in Threads : pc'[u] = "writingPayload" <=> pc[u] = "writingPayload"
    BY DEF Inside
  <2>2. \A u \in Threads : pc[u] = "writingPayload" => job'[u] = job[u]
    BY DEF Inside
  <2> QED
    BY <2>1, <2>2 DEF HeaderPending
<1> QED
  BY <1>1, <1>2, <1>3, <1>4

LEMMA LockKeepsWriteInv ==
  ASSUME TypeOK, WriteInv, NEW t \in Threads, LockWriteLock(t)
  PROVE  WriteInv'
<1> USE DEF WriteInv, LockWriteLock, Goto
<1>1. pc' = [pc EXCEPT ![t] = "filling"] /\ pc \in [Threads -> Point] /\ pc[t] = "waiting"
  BY DEF TypeOK
<1>2. LockHeld'
  BY <1>1 DEF LockHeld, Inside
<1>3. BufferFilled'
  BY <1>1 DEF BufferFilled
<1>4. ChunksPaired'
  BY DEF ChunksPaired
<1>5. HeaderPending'
  BY <1>1 DEF HeaderPending
<1> QED
  BY <1>2, <1>3, <1>4, <1>5

LEMMA FillKeepsWriteInv ==
  ASSUME TypeOK, WriteInv, NEW t \in Threads, FillBuffer(t)
  PROVE  WriteInv'
<1> USE DEF WriteInv, FillBuffer, Goto
<1>1. pc' = [pc EXCEPT ![t] = "writing"] /\ pc \in [Threads -> Point] /\ pc[t] = "filling"
  BY DEF TypeOK
<1>2. LockHeld'
  BY <1>1 DEF LockHeld, Inside
<1>3. BufferFilled'
  <2> SUFFICES ASSUME NEW u \in Threads, pc'[u] = "writing"
               PROVE  u = t
    BY DEF BufferFilled
  <2> QED
    BY <1>1 DEF LockHeld, Inside
<1>4. ChunksPaired'
  BY DEF ChunksPaired
<1>5. HeaderPending'
  BY <1>1 DEF HeaderPending
<1> QED
  BY <1>2, <1>3, <1>4, <1>5

LEMMA UnlockKeepsWriteInv ==
  ASSUME TypeOK, WriteInv, NEW t \in Threads, UnlockWriteLock(t)
  PROVE  WriteInv'
<1> USE DEF WriteInv
<1>1. /\ pc[t] = "unlocking" /\ OthersStay(t) /\ pc'[t] \notin Inside
      /\ writeLock' = writeLock + 1 /\ UNCHANGED <<buffer, job, wire, socket>>
  BY AfterSendingMoves, ReturnPoints DEF UnlockWriteLock, GoesTo, Returns, Inside
<1>2. LockHeld'
  BY <1>1 DEF LockHeld, Inside, OthersStay
<1>3. BufferFilled'
  BY <1>1 DEF BufferFilled, OthersStay, Inside
<1>4. ChunksPaired'
  BY <1>1 DEF ChunksPaired
<1>5. HeaderPending'
  <2>1. \A u \in Threads : pc'[u] = "writingPayload" <=> pc[u] = "writingPayload"
    BY <1>1 DEF OthersStay, Inside
  <2> QED
    BY <1>1, <2>1 DEF HeaderPending
<1> QED
  BY <1>2, <1>3, <1>4, <1>5

\* A chunk may follow if it is not a payload and the last is not a header, or if
\* it is the payload of the last.
LEMMA AppendChunk ==
  ASSUME NEW chunk \in Chunk, wire \in Seq(Chunk), ChunksPaired, wire' = Append(wire, chunk),
         \/ chunk.part # "payload" /\ (wire # << >> => wire[Len(wire)].part # "header")
         \/ /\ chunk = Payload(chunk.frame)
            /\ wire # << >> /\ wire[Len(wire)] = Header(chunk.frame)
  PROVE  ChunksPaired'
<1> DEFINE n == Len(wire)
<1>1. /\ n \in Nat /\ Len(wire') = n + 1 /\ wire'[n + 1] = chunk
      /\ \A i \in 1..n : wire'[i] = wire[i]
  BY AppendProperties
<1> SUFFICES ASSUME NEW i \in 1..(n + 1)
             PROVE  /\ wire'[i].part = "header" /\ i < n + 1 =>
                         wire'[i + 1] = Payload(wire'[i].frame)
                    /\ wire'[i].part = "payload" =>
                         i > 1 /\ wire'[i - 1] = Header(wire'[i].frame)
  BY <1>1 DEF ChunksPaired
<1>2. CASE i = n + 1
  BY <1>1, <1>2, EmptySeq DEF Payload
<1>3. CASE i = n
  <2>1. wire'[i] = wire[i] /\ wire'[i + 1] = chunk /\ wire # << >>
    BY <1>1, <1>3
  <2>2. wire[i].part = "header" => chunk = Payload(wire[i].frame)
    BY <1>3, <2>1 DEF Header
  <2>3. wire[i].part = "payload" => i > 1 /\ wire'[i - 1] = Header(wire[i].frame)
    BY <1>1, <1>3 DEF ChunksPaired
  <2> QED
    BY <2>1, <2>2, <2>3
<1>4. CASE i < n
  <2>1. wire'[i] = wire[i] /\ wire'[i + 1] = wire[i + 1] /\ (i > 1 => wire'[i - 1] = wire[i - 1])
    BY <1>1, <1>4
  <2> QED
    BY <1>4, <2>1 DEF ChunksPaired
<1> QED
  BY <1>2, <1>3, <1>4

LEMMA WriteBufferKeepsWriteInv ==
  ASSUME TypeOK, WriteInv, NEW t \in Threads, WriteBuffer(t)
  PROVE  WriteInv'
<1> DEFINE f == job[t].frame
           chunk == [frame |-> f, part |-> IF f.large THEN "header" ELSE "whole"]
           next == IF f.large THEN "writingPayload" ELSE "unlocking"
<1>1. /\ pc' = [pc EXCEPT ![t] = next] /\ pc \in [Threads -> Point] /\ pc[t] = "writing"
      /\ UNCHANGED <<writeLock, buffer, job, socket>>
  BY DEF WriteBuffer, Goto, TypeOK
<1>2. LockHeld'
  BY <1>1 DEF WriteInv, LockHeld, Inside
<1>3. BufferFilled'
  BY <1>1 DEF WriteInv, BufferFilled
<1>4. CASE socket = "closed"
  BY <1>1, <1>2, <1>3, <1>4 DEF WriteInv, WriteBuffer, Write, ChunksPaired, HeaderPending
<1>5. CASE socket # "closed"
  <2>1. job[t] \in Job /\ f \in OutFrame /\ chunk \in Chunk /\ wire \in Seq(Chunk)
    BY DEF TypeOK, Job, Chunk
  <2>2. wire' = wire \o <<chunk>>
    BY <1>1, <1>5 DEF WriteInv, BufferFilled, WriteBuffer, Write
  <2>3. wire' = Append(wire, chunk)
    BY <2>1, <2>2, AppendIsConcat
  <2>4. \A u \in Threads : pc[u] # "writingPayload"
    BY <1>1 DEF WriteInv, LockHeld, Inside
  <2>5. wire # << >> => wire[Len(wire)].part # "header"
    BY <1>5, <2>4 DEF WriteInv, HeaderPending
  <2>6. ChunksPaired'
    BY <2>1, <2>3, <2>5, AppendChunk DEF WriteInv
  <2>7. Len(wire') = Len(wire) + 1 /\ wire'[Len(wire')] = chunk /\ wire' # << >>
    BY <2>1, <2>3, AppendProperties
  <2>8. \A u \in Threads : pc'[u] = "writingPayload" => u = t /\ f.large
    BY <1>1, <2>4
  <2>9. f.large => pc'[t] = "writingPayload" /\ chunk = Header(f)
    BY <1>1 DEF Header
  <2>10. ~f.large => chunk.part = "whole"
    OBVIOUS
  <2>11. HeaderPending'
    BY <1>1, <2>7, <2>8, <2>9, <2>10 DEF HeaderPending
  <2> QED
    BY <1>2, <1>3, <2>6, <2>11 DEF WriteInv
<1> QED
  BY <1>4, <1>5

LEMMA WritePayloadKeepsWriteInv ==
  ASSUME TypeOK, WriteInv, NEW t \in Threads, WritePayload(t)
  PROVE  WriteInv'
<1> DEFINE f == job[t].frame
           chunk == [frame |-> f, part |-> "payload"]
<1>1. /\ pc' = [pc EXCEPT ![t] = "unlocking"] /\ pc \in [Threads -> Point]
      /\ pc[t] = "writingPayload"
      /\ UNCHANGED <<writeLock, buffer, job, socket>>
  BY DEF WritePayload, Goto, TypeOK
<1>2. LockHeld'
  BY <1>1 DEF WriteInv, LockHeld, Inside
<1>3. BufferFilled'
  BY <1>1 DEF WriteInv, BufferFilled
<1>4. CASE socket = "closed"
  BY <1>1, <1>2, <1>3, <1>4 DEF WriteInv, WritePayload, Write, ChunksPaired, HeaderPending
<1>5. CASE socket # "closed"
  <2>1. job[t] \in Job /\ f \in OutFrame /\ chunk \in Chunk /\ wire \in Seq(Chunk)
    BY DEF TypeOK, Job, Chunk
  <2>2. wire' = wire \o <<chunk>>
    BY <1>5 DEF WritePayload, Write
  <2>3. wire' = Append(wire, chunk)
    BY <2>1, <2>2, AppendIsConcat
  <2>4. chunk = Payload(f) /\ chunk.frame = f /\ chunk.part = "payload"
    BY DEF Payload
  <2>5. wire # << >> /\ wire[Len(wire)] = Header(f)
    BY <1>1, <1>5 DEF WriteInv, HeaderPending
  <2>6. ChunksPaired'
    BY <2>1, <2>3, <2>4, <2>5, AppendChunk DEF WriteInv
  <2>7. Len(wire') = Len(wire) + 1 /\ wire'[Len(wire')] = chunk
    BY <2>1, <2>3, AppendProperties
  <2>8. \A u \in Threads : pc'[u] # "writingPayload"
    BY <1>1 DEF WriteInv, LockHeld, Inside
  <2>9. HeaderPending'
    BY <2>4, <2>7, <2>8 DEF HeaderPending
  <2> QED
    BY <1>2, <1>3, <2>6, <2>9 DEF WriteInv
<1> QED
  BY <1>4, <1>5

\* A thread that neither is inside the lock nor gets there.
LEMMA StaysOutside ==
  ASSUME NEW t \in Threads, OthersStay(t), pc[t] \notin Inside, pc'[t] \notin Inside,
         UNCHANGED <<writeLock, buffer, wire>>, socket = "closed" => socket' = "closed"
  PROVE  OutsideStep
BY DEF OutsideStep, OthersStay

\* The steps with which a thread begins a call: sending, connectionClosed and, from
\* outside, close().
Starts(t) ==
  /\ OthersStay(t) /\ pc[t] = "idle" /\ stack'[t] = stack[t]
  /\ pc'[t] = "entering"
  /\ job'[t].after # "nothing" => job'[t].frame.opCode = "close"
  /\ active' = active
  /\ UNCHANGED <<writeLock, buffer, wire, socket>>

Decides(t) ==
  /\ GoesTo(t, "deciding") /\ pc[t] = "idle"
  /\ t \in Enders
  /\ active' = active
  /\ UNCHANGED <<writeLock, buffer, wire>>
  /\ socket' = socket \/ socket' = "closed"

Closes(t) ==
  /\ GoesTo(t, "closing") /\ pc[t] = "idle"
  /\ t \in Enders
  /\ active' = active
  /\ UNCHANGED <<writeLock, buffer, wire, socket>>

NobodyMoves ==
  /\ UNCHANGED threadVars
  /\ active' = active
  /\ UNCHANGED <<writeLock, buffer, wire>>
  /\ socket' = socket \/ (socket = "new" /\ socket' = "open")

LEMMA CallStarts ==
  ASSUME TypeOK, NEW t \in Callers, Call(t)
  PROVE  Starts(t) \/ Closes(t)
<1> t \in Threads
  BY Roles
<1>1. PICK call : Calls(t, call)
  BY Zenon DEF Call, CallSend, CallPing, CallClose, CallDrop, CallCloseProcessor
<1>2. active' = active
  BY <1>1, Zenon DEF Calls
<1>3. CASE CallCloseProcessor(t)
  <2>1. GoesTo(t, "closing") /\ "closeProcessor" \in AppCalls
    BY <1>3, GotoMoves DEF CallCloseProcessor, Calls
  <2> QED
    BY <1>1, <1>2, <2>1 DEF Calls, Closes, Enders
<1>4. CASE ~CallCloseProcessor(t)
  <2>1. /\ OthersStay(t) /\ pc'[t] = "entering" /\ stack'[t] = stack[t]
        /\ job'[t].after # "nothing" => job'[t].frame.opCode = "close"
    BY <1>4, CallCases, SendMoves
  <2> QED
    BY <1>1, <1>2, <2>1 DEF Calls, Starts
<1> QED
  BY <1>3, <1>4

LEMMA TimerStarts ==
  ASSUME TypeOK, TimerPings \/ TimerExpires
  PROVE  Starts(Timer) \/ Decides(Timer)
<1>1. TimerFires
  BY DEF TimerPings, TimerExpires
<1>2. active' = active
  BY <1>1, Zenon DEF TimerFires
<1>3. CASE TimerPings
  <2>1. Send(Timer, "ping", FALSE, "nothing")
    BY <1>3 DEF TimerPings
  <2> QED
    BY <1>1, <1>2, <2>1, Roles, SendMoves DEF TimerFires, Starts
<1>4. CASE TimerExpires
  <2>1. GoesTo(Timer, "deciding")
    BY <1>4, Roles, GotoMoves DEF TimerExpires
  <2> QED
    BY <1>1, <1>2, <2>1 DEF TimerFires, Decides, Enders
<1> QED
  BY <1>3, <1>4

LEMMA ReaderStarts ==
  ASSUME TypeOK, Handle
  PROVE  Starts(Reader) \/ Decides(Reader) \/ NobodyMoves
<1> USE DEF Handle, ReceivedMessage, ReceivedPing, ReceivedPong, ReceivedMisplaced, ReceivedClose,
            ReceivedInvalidText, ReceivedInvalidClose, ReceivedGarbage
<1>1. PICK kind : Received(kind)
  OBVIOUS
<1>2. \/ UNCHANGED threadVars
      \/ Goto(Reader, "deciding") /\ UNCHANGED job
      \/ Send(Reader, "pong", FALSE, "nothing")
      \/ Send(Reader, "close", FALSE, "close") \/ Send(Reader, "close", FALSE, "drop")
  BY DEF threadVars
<1>3. CASE UNCHANGED threadVars
  BY <1>1, <1>3 DEF Received, NobodyMoves
<1>4. CASE Goto(Reader, "deciding") /\ UNCHANGED job
  BY <1>1, <1>4, Roles, GotoMoves DEF Received, Decides, Enders
<1>5. CASE \/ Send(Reader, "pong", FALSE, "nothing")
           \/ Send(Reader, "close", FALSE, "close") \/ Send(Reader, "close", FALSE, "drop")
  <2>1. /\ OthersStay(Reader) /\ pc'[Reader] = "entering" /\ stack'[Reader] = stack[Reader]
        /\ job'[Reader].after # "nothing" => job'[Reader].frame.opCode = "close"
    BY <1>5, Roles, SendMoves
  <2> QED
    BY <1>1, <2>1 DEF Received, Starts
<1> QED
  BY <1>2, <1>3, <1>4, <1>5

LEMMA OthersStart ==
  ASSUME TypeOK,
         \/ RunCallback \/ FireConnected \/ SocketClosed
         \/ \E n \in 1..Len(inbox) : Read(n)
  PROVE  Decides(Reader) \/ NobodyMoves
<1>1. CASE SocketClosed
  BY <1>1, Roles, GotoMoves DEF SocketClosed, Decides, Enders
<1>2. CASE RunCallback \/ FireConnected \/ \E n \in 1..Len(inbox) : Read(n)
  BY <1>2 DEF RunCallback, FireConnected, Read, NobodyMoves
<1> QED
  BY <1>1, <1>2

\* Every step is one of these, or the rest of a thread's call, or no step at all.
Start == (\E t \in Threads : Starts(t) \/ Decides(t) \/ Closes(t)) \/ NobodyMoves

LEMMA StepCases ==
  ASSUME TypeOK, [Next]_vars
  PROVE  Start \/ \E t \in Threads : Continue(t)
<1>1. CASE \E t \in Callers : Call(t)
  BY <1>1, Roles, CallStarts DEF Start
<1>2. CASE TimerPings \/ TimerExpires
  BY <1>2, Roles, TimerStarts DEF Start
<1>3. CASE Handle
  BY <1>3, Roles, ReaderStarts DEF Start
<1>4. CASE RunCallback \/ FireConnected \/ SocketClosed \/ \E n \in 1..Len(inbox) : Read(n)
  BY <1>4, Roles, OthersStart DEF Start
<1>5. CASE UNCHANGED vars
  BY <1>5 DEF vars, threadVars, NobodyMoves, Start
<1> QED
  BY <1>1, <1>2, <1>3, <1>4, <1>5 DEF Next

LEMMA StepWriteInv ==
  ASSUME TypeOK, WriteInv, [Next]_vars
  PROVE  WriteInv'
<1>1. CASE Start
  <2>1. ASSUME NEW t \in Threads, Starts(t) \/ Decides(t) \/ Closes(t) PROVE OutsideStep
    BY <2>1, StaysOutside DEF Starts, Decides, Closes, GoesTo, Inside
  <2>2. CASE NobodyMoves
    <3>1. OutsideStep
      BY <2>2 DEF NobodyMoves, OutsideStep, threadVars
    <3> QED
      BY <3>1, OutsideKeepsWriteInv
  <2> QED
    BY <1>1, <2>1, <2>2, OutsideKeepsWriteInv DEF Start
<1>2. ASSUME NEW t \in Threads, Continue(t)
      PROVE  WriteInv'
  <2>1. CASE \/ EnterSendMessage(t) \/ DecideClosed(t) \/ Deactivate(t)
             \/ CloseProcessor(t) \/ PrepareToClose(t) \/ NotifyDisconnected(t)
    <3>1. /\ pc[t] \in {"entering", "deciding", "sent", "closing", "preparing", "notifying"}
          /\ UNCHANGED <<writeLock, buffer, wire>>
          /\ socket = "closed" => socket' = "closed"
      BY <2>1 DEF EnterSendMessage, DecideClosed, Deactivate, CloseProcessor, PrepareToClose,
                  NotifyDisconnected
    <3>2. OthersStay(t) /\ pc'[t] \notin Inside
      <4>1. OthersStay(t)
        BY <1>2, ContinueMoves, MovesAlone
      <4>2. ASSUME EnterSendMessage(t) PROVE pc'[t] \notin Inside
        <5>1. GoesTo(t, "waiting") \/ GoesTo(t, "sent") \/ Returns(t)
          BY <4>2, GotoMoves, AfterSendingMoves DEF EnterSendMessage
        <5> QED
          BY <5>1, ReturnPoints DEF GoesTo, Inside
      <4>3. ASSUME pc[t] \notin Sending PROVE pc'[t] \notin Inside
        <5>1. \/ Returns(t) \/ pc'[t] \in {"entering", "deciding"}
              \/ \E p \in {"closing", "preparing"} : GoesTo(t, p)
          BY <1>2, <4>3, ContinueMoves
            DEF Moves, Leaves, Writes, Decision, Closing, Sending, Inside
        <5> QED
          BY <5>1, ReturnPoints DEF GoesTo, Inside
      <4>4. EnterSendMessage(t) \/ pc[t] \notin Sending
        BY <2>1 DEF DecideClosed, Deactivate, CloseProcessor, PrepareToClose,
                    NotifyDisconnected, Sending, Inside
      <4> QED
        BY <4>1, <4>2, <4>3, <4>4
    <3> QED
      BY <3>1, <3>2, StaysOutside, OutsideKeepsWriteInv DEF Inside
  <2>2. CASE LockWriteLock(t)
    BY <2>2, LockKeepsWriteInv
  <2>3. CASE FillBuffer(t)
    BY <2>3, FillKeepsWriteInv
  <2>4. CASE WriteBuffer(t)
    BY <2>4, WriteBufferKeepsWriteInv
  <2>5. CASE WritePayload(t)
    BY <2>5, WritePayloadKeepsWriteInv
  <2>6. CASE UnlockWriteLock(t)
    BY <2>6, UnlockKeepsWriteInv
  <2> QED
    BY <1>2, <2>1, <2>2, <2>3, <2>4, <2>5, <2>6 DEF Continue
<1> QED
  BY <1>1, <1>2, StepCases

-----------------------------------------------------------------------------
(* Closing *)

LEMMA StepJobShape ==
  ASSUME TypeOK, JobShape, [Next]_vars
  PROVE  JobShape'
<1>1. ASSUME NEW t \in Threads, OthersStay(t),
             pc'[t] \in Sending /\ job'[t].after # "nothing" => job'[t].frame.opCode = "close"
      PROVE  JobShape'
  BY <1>1 DEF JobShape, OthersStay
<1>2. CASE Start
  <2>1. ASSUME NEW t \in Threads, Starts(t) \/ Decides(t) \/ Closes(t) PROVE JobShape'
    BY <1>1, <2>1 DEF Starts, Decides, Closes, GoesTo, Sending, Inside
  <2>2. CASE NobodyMoves
    BY <2>2 DEF NobodyMoves, JobShape, threadVars
  <2> QED
    BY <1>2, <2>1, <2>2 DEF Start
<1>3. ASSUME NEW t \in Threads, Continue(t) PROVE JobShape'
  <2>1. Moves(t) /\ OthersStay(t)
    BY <1>3, ContinueMoves, MovesAlone
  <2>2. CASE Writes(t)
    BY <1>1, <2>1, <2>2 DEF Writes, GoesTo, JobShape
  <2>3. CASE ~Writes(t)
    <3>1. \/ pc'[t] \notin Sending
          \/ job'[t].frame.opCode = "close"
      BY <2>1, <2>3, ReturnPoints DEF Moves, Leaves, Decision, Closing, GoesTo, Sending, Inside
    <3> QED
      BY <1>1, <2>1, <3>1
  <2> QED
    BY <2>2, <2>3
<1> QED
  BY <1>2, <1>3, StepCases

\* Pushing and popping within Nestings.
LEMMA NestingSteps ==
  /\ \A q \in Nestings : q # << >> =>
       /\ Head(q) \in {"preparing", "notifying"}
       /\ Tail(q) \in {<< >>, <<"preparing">>}
  /\ <<"preparing">> \o << >> = <<"preparing">>
  /\ <<"notifying">> \o << >> = <<"notifying">>
  /\ <<"notifying">> \o <<"preparing">> = <<"notifying", "preparing">>
  /\ \A q \in {<< >>, <<"preparing">>} : q \notin {<<"notifying">>, <<"notifying", "preparing">>}
<1> DEFINE p == <<"preparing">>
           n == <<"notifying">>
           np == <<"notifying", "preparing">>
<1>1. /\ p # << >> /\ n # << >> /\ np # << >>
      /\ Len(p) = 1 /\ Len(n) = 1 /\ Len(np) = 2
      /\ p[1] = "preparing" /\ n[1] = "notifying" /\ np[1] = "notifying" /\ np[2] = "preparing"
  OBVIOUS
<1>2. Head(p) = "preparing" /\ Head(n) = "notifying" /\ Head(np) = "notifying"
  OBVIOUS
<1>3. Tail(p) = << >> /\ Tail(n) = << >> /\ Tail(np) = p
  OBVIOUS
<1>4. p \o << >> = p /\ n \o << >> = n
  OBVIOUS
<1>5. n \o p = np
  <2>1. /\ n \in Seq({"preparing", "notifying"})
        /\ p \in Seq({"preparing", "notifying"})
        /\ np \in Seq({"preparing", "notifying"})
    OBVIOUS
  <2>2. /\ n \o p \in Seq({"preparing", "notifying"})
        /\ Len(n \o p) = 2
        /\ (n \o p)[1] = "notifying"
        /\ (n \o p)[2] = "preparing"
    BY <1>1, <2>1, ConcatProperties
  <2>3. \A i \in 1..2 : (n \o p)[i] = np[i]
    BY <1>1, <2>2
  <2> HIDE DEF n, p, np
  <2> QED
    BY <1>1, <2>1, <2>2, <2>3, SeqEqual
<1>6. p # n /\ p # np
  BY <1>1
<1> QED
  BY <1>1, <1>2, <1>3, <1>4, <1>5, <1>6, Zenon DEF Nestings

\* A thread that returns finds the point at which its caller goes on allowed.
LEMMA ReturnNested ==
  ASSUME TypeOK, NEW t \in Threads, NestedAt(t), Returns(t), ~active' \/ stack[t] = << >>
  PROVE  NestedAt(t)'
<1>1. CASE stack[t] = << >>
  BY <1>1 DEF Returns, NestedAt, Nestings, Sending, Inside
<1>2. CASE stack[t] # << >>
  <2>1. ~active'
    BY <1>2, Zenon
  <2>2. stack[t] \in Nestings
    BY DEF NestedAt
  <2>3. pc'[t] \in {"preparing", "notifying"} /\ stack'[t] \in {<< >>, <<"preparing">>}
    BY <1>2, <2>2, NestingSteps DEF Returns
  <2> QED
    BY <2>1, <2>3 DEF NestedAt, Nestings, Sending, Inside
<1> QED
  BY <1>1, <1>2

\* No call of closing nests deeper than that: what was found active is inactive
\* when the circle comes round.
LEMMA StepNested ==
  ASSUME TypeOK, NestShape, [Next]_vars
  PROVE  NestShape'
<1>1. ASSUME NEW t \in Threads, OthersStay(t), active' => active, NestedAt(t)'
      PROVE  NestShape'
  <2> SUFFICES ASSUME NEW u \in Threads, u # t PROVE NestedAt(u)'
    BY <1>1 DEF NestShape
  <2>1. pc'[u] = pc[u] /\ job'[u] = job[u] /\ stack'[u] = stack[u]
    BY <1>1 DEF OthersStay
  <2>2. NestedAt(u)
    BY DEF NestShape
  <2> QED
    BY <1>1, <2>1, <2>2, Zenon DEF NestedAt
<1>2. CASE Start
  <2>1. ASSUME NEW t \in Threads, Starts(t) \/ Decides(t) \/ Closes(t) PROVE NestShape'
    <3>1. /\ OthersStay(t) /\ pc[t] = "idle" /\ stack'[t] = stack[t]
          /\ pc'[t] \in {"entering", "deciding", "closing"}
      BY <2>1 DEF Starts, Decides, Closes, GoesTo
    <3>2. active' = active
      BY <2>1, Zenon DEF Starts, Decides, Closes
    <3>3. stack'[t] = << >>
      BY <3>1 DEF NestShape, NestedAt
    <3>4. NestedAt(t)'
      BY <3>1, <3>3 DEF NestedAt, Nestings
    <3> QED
      BY <1>1, <3>1, <3>2, <3>4, Zenon
  <2>2. CASE NobodyMoves
    BY <2>2, Zenon DEF NobodyMoves, NestShape, NestedAt, threadVars
  <2> QED
    BY <1>2, <2>1, <2>2 DEF Start
<1>3. ASSUME NEW t \in Threads, Continue(t) PROVE NestShape'
  <2>1. Moves(t) /\ OthersStay(t) /\ NestedAt(t)
    BY <1>3, ContinueMoves, MovesAlone DEF NestShape
  <2>2. CASE (Leaves(t) \/ Writes(t)) /\ active' = active
    <3>1. CASE Writes(t)
      <4>1. pc[t] \in Sending /\ pc'[t] \in Sending /\ job'[t] = job[t] /\ stack'[t] = stack[t]
        BY <3>1 DEF Writes, GoesTo
      <4>2. NestedAt(t)'
        BY <2>1, <4>1 DEF NestedAt, Sending, Inside
      <4> QED
        BY <1>1, <2>1, <2>2, <4>2, Zenon
    <3>2. CASE Leaves(t)
      <4>1. CASE job[t].after = "nothing"
        <5>1. stack[t] = << >> /\ Returns(t)
          BY <2>1, <3>2, <4>1 DEF Leaves, NestedAt, Sending, Inside
        <5> QED
          BY <1>1, <2>1, <2>2, <5>1, ReturnNested, Zenon
      <4>2. CASE job[t].after # "nothing"
        <5>1. GoesTo(t, "sent")
          BY <3>2, <4>2 DEF Leaves
        <5>2. NestedAt(t)'
          BY <2>1, <5>1 DEF GoesTo, NestedAt, Sending, Inside
        <5> QED
          BY <1>1, <2>1, <2>2, <5>2, Zenon
      <4> QED
        BY <4>1, <4>2
    <3> QED
      BY <2>2, <3>1, <3>2, Zenon
  <2>3. CASE Decision(t) /\ active' = active
    <3>1. CASE active
      <4>1. /\ pc[t] = "deciding" /\ pc'[t] = "entering" /\ job'[t].after = "drop"
            /\ stack'[t] = <<"notifying">> \o stack[t]
        BY <2>3, <3>1 DEF Decision
      <4>2. stack[t] \in {<< >>, <<"preparing">>}
        BY <2>1, <4>1 DEF NestedAt
      <4>3. stack'[t] \in Nestings
        BY <4>1, <4>2, NestingSteps DEF Nestings
      <4>4. NestedAt(t)'
        BY <4>1, <4>3 DEF NestedAt
      <4> QED
        BY <1>1, <2>1, <2>3, <4>4, Zenon
    <3>2. CASE ~active
      <4>1. ~active'
        BY <2>3, <3>2, Zenon
      <4>2. CASE GoesTo(t, "closing")
        <5>1. NestedAt(t)'
          BY <2>1, <4>1, <4>2 DEF GoesTo, NestedAt, Sending, Inside
        <5> QED
          BY <1>1, <2>1, <4>1, <5>1, Zenon
      <4>3. CASE Returns(t)
        BY <1>1, <2>1, <4>1, <4>3, ReturnNested, Zenon
      <4> QED
        BY <2>3, <3>2, <4>2, <4>3 DEF Decision
    <3> QED
      BY <3>1, <3>2
  <2>4. CASE pc[t] = "sent" /\ ~active' /\ (GoesTo(t, "closing") \/ Returns(t))
    <3>1. CASE GoesTo(t, "closing")
      <4>1. ~active'
        BY <2>4, Zenon
      <4>2. NestedAt(t)'
        BY <2>1, <3>1, <4>1 DEF GoesTo, NestedAt, Sending, Inside
      <4> QED
        BY <1>1, <2>1, <4>1, <4>2, Zenon
    <3>2. CASE Returns(t)
      BY <1>1, <2>1, <2>4, <3>2, ReturnNested, Zenon
    <3> QED
      BY <2>4, <3>1, <3>2
  <2>5. CASE Closing(t) /\ active' = active
    <3>1. CASE active
      <4>1. /\ pc[t] = "closing" /\ pc'[t] = "deciding"
            /\ stack'[t] = <<"preparing">> \o stack[t]
        BY <2>5, <3>1 DEF Closing
      <4>2. stack[t] = << >>
        BY <2>1, <3>1, <4>1 DEF NestedAt
      <4>3. stack'[t] = <<"preparing">>
        BY <4>1, <4>2, NestingSteps
      <4>4. NestedAt(t)'
        BY <4>1, <4>3 DEF NestedAt, Nestings, Sending, Inside
      <4> QED
        BY <1>1, <2>1, <2>5, <4>4, Zenon
    <3>2. CASE ~active
      <4>1. ~active'
        BY <2>5, <3>2, Zenon
      <4>2. GoesTo(t, "preparing")
        BY <2>5, <3>2 DEF Closing
      <4>3. NestedAt(t)'
        BY <2>1, <4>1, <4>2 DEF GoesTo, NestedAt, Sending, Inside
      <4> QED
        BY <1>1, <2>1, <4>1, <4>3, Zenon
    <3> QED
      BY <3>1, <3>2
  <2>6. CASE pc[t] \in {"preparing", "notifying"} /\ Returns(t) /\ active' = active
    <3>1. ~active \/ stack[t] = << >>
      BY <2>1, <2>6 DEF NestedAt
    <3>2. ~active' \/ stack[t] = << >>
      BY <2>6, <3>1, Zenon
    <3>3. NestedAt(t)'
      BY <2>1, <2>6, <3>2, ReturnNested
    <3> QED
      BY <1>1, <2>1, <2>6, <3>3, Zenon
  <2> QED
    BY <2>1, <2>2, <2>3, <2>4, <2>5, <2>6 DEF Moves
<1> QED
  BY <1>2, <1>3, StepCases

\* What is on the wire stays there.
LEMMA WireGrows ==
  ASSUME TypeOK, [Next]_vars, CloseWritten
  PROVE  CloseWritten'
<1>1. wire' = wire \/ \E chunks \in Seq(Chunk) : wire' = wire \o chunks
  <2>1. CASE Start
    BY <2>1 DEF Start, Starts, Decides, Closes, NobodyMoves
  <2>2. ASSUME NEW t \in Threads, Continue(t)
        PROVE  wire' = wire \/ \E chunks \in Seq(Chunk) : wire' = wire \o chunks
    <3>1. CASE WriteBuffer(t)
      BY <3>1 DEF WriteBuffer, Write, TypeOK
    <3>2. CASE WritePayload(t)
      <4>1. <<[frame |-> job[t].frame, part |-> "payload"]>> \in Seq(Chunk)
        BY DEF TypeOK, Job, Chunk
      <4> QED
        BY <3>2, <4>1 DEF WritePayload, Write
    <3>3. CASE ~WriteBuffer(t) /\ ~WritePayload(t)
      BY <2>2, <3>3 DEF Continue, EnterSendMessage, LockWriteLock, FillBuffer, UnlockWriteLock,
                        DecideClosed, Deactivate, CloseProcessor, PrepareToClose, NotifyDisconnected
    <3> QED
      BY <3>1, <3>2, <3>3
  <2> QED
    BY <2>1, <2>2, StepCases
<1>2. PICK i \in 1..Len(wire) : wire[i].frame.opCode = "close"
  BY DEF CloseWritten
<1>3. wire \in Seq(Chunk)
  BY DEF TypeOK
<1>4. i \in 1..Len(wire') /\ wire'[i] = wire[i]
  BY <1>1, <1>2, <1>3, ConcatProperties
<1> QED
  BY <1>2, <1>4 DEF CloseWritten

\* Before a close command is on the wire, no thread is behind one, and the step
\* that writes the first one is that of the frame's sender.
LEMMA StepCommanded ==
  ASSUME TypeOK, WriteInv, JobShape, NestShape, Commanded, [Next]_vars
  PROVE  Commanded'
<1> SUFFICES ASSUME socket' # "closed", ~CloseWritten'
             PROVE  NobodyCloses'
  BY DEF Commanded
<1>1. ~CloseWritten
  BY WireGrows
<1>2. ASSUME NEW t \in Threads, OthersStay(t), NobodyCloses, active' = active,
             socket' # "closing",
             pc'[t] \notin {"sent", "preparing", "notifying"},
             pc'[t] \in {"writingPayload", "unlocking"} => job'[t].after = "nothing"
      PROVE  NobodyCloses'
  <2>1. active'
    BY <1>2, Zenon DEF NobodyCloses
  <2> QED
    BY <1>2, <2>1 DEF NobodyCloses, OthersStay
<1>3. CASE Start
  <2>1. ASSUME NEW t \in Threads, Starts(t) \/ Decides(t) \/ Closes(t) PROVE NobodyCloses'
    <3>1. socket # "closed" /\ OthersStay(t) /\ pc'[t] \in {"entering", "deciding", "closing"}
          /\ socket' = socket
      BY <2>1 DEF Starts, Decides, Closes, GoesTo
    <3>2. active' = active
      BY <2>1, Zenon DEF Starts, Decides, Closes
    <3>3. NobodyCloses
      BY <1>1, <3>1 DEF Commanded
    <3>4. socket' # "closing"
      BY <3>1, <3>3 DEF NobodyCloses
    <3> QED
      BY <1>2, <3>1, <3>2, <3>3, <3>4
  <2>2. CASE NobodyMoves
    <3>1. socket # "closed" /\ socket' \in {socket, "open"} /\ UNCHANGED <<pc, job>>
      BY <2>2 DEF NobodyMoves, threadVars
    <3>2. active' = active
      BY <2>2, Zenon DEF NobodyMoves
    <3>3. NobodyCloses
      BY <1>1, <3>1 DEF Commanded
    <3>4. active'
      BY <3>2, <3>3, Zenon DEF NobodyCloses
    <3> QED
      BY <3>1, <3>3, <3>4 DEF NobodyCloses
  <2> QED
    BY <1>3, <2>1, <2>2 DEF Start
<1>4. ASSUME NEW t \in Threads, Continue(t) PROVE NobodyCloses'
  <2>1. OthersStay(t)
    BY <1>4, ContinueMoves, MovesAlone
  <2>2. socket # "closed"
    BY <1>4 DEF Continue, EnterSendMessage, LockWriteLock, FillBuffer, WriteBuffer, WritePayload,
                UnlockWriteLock, DecideClosed, Deactivate, CloseProcessor, PrepareToClose,
                NotifyDisconnected
  <2>3. NobodyCloses
    BY <1>1, <2>2 DEF Commanded
  <2>4. ~Deactivate(t) /\ ~PrepareToClose(t) /\ ~NotifyDisconnected(t)
    BY <2>3 DEF NobodyCloses, Deactivate, PrepareToClose, NotifyDisconnected
  <2>5. socket' # "closing"
    BY <1>4, <2>3, <2>4 DEF NobodyCloses, Continue, EnterSendMessage, LockWriteLock, FillBuffer,
                            WriteBuffer, WritePayload, UnlockWriteLock, DecideClosed, CloseProcessor
  <2>6. active' = active
    BY <1>4, <2>4, Zenon DEF Continue, EnterSendMessage, LockWriteLock, FillBuffer,
                            WriteBuffer, WritePayload, UnlockWriteLock, DecideClosed, CloseProcessor
  <2>7. CASE EnterSendMessage(t)
    <3>1. pc'[t] = "waiting"
      BY <2>2, <2>7 DEF EnterSendMessage, ProcessorAlive, Goto, TypeOK
    <3> QED
      BY <1>2, <2>1, <2>3, <2>5, <2>6, <3>1
  <2>8. CASE LockWriteLock(t) \/ FillBuffer(t)
    <3>1. pc'[t] \in {"filling", "writing"}
      BY <2>8 DEF LockWriteLock, FillBuffer, Goto, TypeOK
    <3> QED
      BY <1>2, <2>1, <2>3, <2>5, <2>6, <3>1
  <2>9. CASE DecideClosed(t) \/ CloseProcessor(t)
    <3>1. active
      BY <2>3, Zenon DEF NobodyCloses
    <3>2. pc'[t] \in {"entering", "deciding"}
      BY <2>9, <3>1, DecideMoves, CloseProcessorMoves DEF Decision, Closing
    <3> QED
      BY <1>2, <2>1, <2>3, <2>5, <2>6, <3>2
  <2>10. CASE WriteBuffer(t)
    <3>1. pc[t] = "writing" /\ pc'[t] \in {"writingPayload", "unlocking"} /\ job'[t] = job[t]
      BY <2>10 DEF WriteBuffer, Goto, TypeOK
    <3>2. job[t].after = "nothing"
      <4> SUFFICES ASSUME job[t].after # "nothing" PROVE CloseWritten'
        OBVIOUS
      <4>1. job[t].frame.opCode = "close"
        BY <3>1 DEF JobShape, Sending, Inside
      <4> DEFINE chunk == [frame |-> job[t].frame,
                           part |-> IF job[t].frame.large THEN "header" ELSE "whole"]
      <4>2. wire' = wire \o <<chunk>> /\ wire \in Seq(Chunk)
        BY <2>2, <2>10, <3>1 DEF WriteBuffer, Write, WriteInv, BufferFilled, TypeOK
      <4>3. chunk \in Chunk /\ chunk.frame = job[t].frame
        BY DEF TypeOK, Job, Chunk
      <4>4. wire' = Append(wire, chunk)
        BY <4>2, <4>3, AppendIsConcat
      <4>5. Len(wire') \in 1..Len(wire') /\ wire'[Len(wire')] = chunk
        BY <4>2, <4>3, <4>4, AppendProperties
      <4> QED
        BY <4>1, <4>3, <4>5 DEF CloseWritten
    <3> QED
      BY <1>2, <2>1, <2>3, <2>5, <2>6, <3>1, <3>2
  <2>11. CASE WritePayload(t)
    <3>1. pc[t] = "writingPayload" /\ pc'[t] = "unlocking" /\ job'[t] = job[t]
      BY <2>11 DEF WritePayload, Goto, TypeOK
    <3>2. job[t].after = "nothing"
      BY <2>3, <3>1 DEF NobodyCloses
    <3> QED
      BY <1>2, <2>1, <2>3, <2>5, <2>6, <3>1, <3>2
  <2>12. CASE UnlockWriteLock(t)
    <3>1. pc[t] = "unlocking" /\ job[t].after = "nothing"
      BY <2>3, <2>12 DEF NobodyCloses, UnlockWriteLock
    <3>2. stack[t] = << >>
      BY <3>1 DEF NestShape, NestedAt, Sending, Inside
    <3>3. pc'[t] = "idle"
      BY <2>12, <3>1, <3>2, AfterSendingMoves DEF UnlockWriteLock, Returns, GoesTo
    <3> QED
      BY <1>2, <2>1, <2>3, <2>5, <2>6, <3>3
  <2> QED
    BY <1>4, <2>4, <2>7, <2>8, <2>9, <2>10, <2>11, <2>12 DEF Continue
<1> QED
  BY <1>3, <1>4, StepCases

-----------------------------------------------------------------------------
LEMMA InitInv == Init => IInv
<1> SUFFICES ASSUME Init PROVE IInv
  OBVIOUS
<1>1. TypeOK
  BY InitType
<1>2. WriteInv
  BY DEF Init, WriteInv, LockHeld, BufferFilled, ChunksPaired, HeaderPending, Inside
<1>3. JobShape
  BY DEF Init, JobShape
<1>4. Commanded
  BY DEF Init, Commanded, NobodyCloses
<1>5. NestShape
  BY DEF Init, NestShape, NestedAt, Nestings, Sending, Inside
<1> QED
  BY <1>1, <1>2, <1>3, <1>4, <1>5 DEF IInv

\* The inductive invariant: the lock is held by the one thread that is between
\* lockWriteLock and unlockWriteLock, the buffer is its own, the wire ends where
\* it has got to, nobody is behind a close command that is not on the wire, and the
\* calls a thread is in the middle of are those Nestings has.
THEOREM OneWriter == Spec => []IInv
<1>1. IInv /\ [Next]_vars => IInv'
  BY StepType, StepWriteInv, StepJobShape, StepNested, StepCommanded DEF IInv
<1> QED
  BY <1>1, InitInv, PTL DEF Spec

\* The connection's variables keep their types, for any application threads.
THEOREM TypeCorrect == Spec => []TypeOK
<1>1. IInv => TypeOK
  BY DEF IInv
<1> QED
  BY <1>1, OneWriter, PTL

\* However many threads send at once, and wherever one of them is held up, what
\* sendMessage writes is a sequence of whole frames.
THEOREM WritesWhole == Spec => []WireFramesWhole
<1>1. IInv => WireFramesWhole
  <2> SUFFICES ASSUME IInv PROVE WireFramesWhole
    OBVIOUS
  <2>1. \A i \in 1..Len(wire) :
          /\ wire[i].part = "header" /\ i < Len(wire) =>
               wire[i + 1] = [frame |-> wire[i].frame, part |-> "payload"]
          /\ wire[i].part = "payload" =>
               i > 1 /\ wire[i - 1] = [frame |-> wire[i].frame, part |-> "header"]
    BY DEF IInv, WriteInv, ChunksPaired, Header, Payload
  <2>2. writeLock > 0 /\ socket # "closed" /\ wire # << >> => wire[Len(wire)].part # "header"
    BY DEF IInv, WriteInv, LockHeld, HeaderPending, Inside
  <2> QED
    BY <2>1, <2>2 DEF WireFramesWhole
<1> QED
  BY <1>1, OneWriter, PTL

\* The socket is not told to close before a close command is written
\* (closeConnection, and connectionClosed for a connection another thread closes).
THEOREM CommandsBeforeClosing == Spec => []CloseCommandFirst
<1>1. IInv => CloseCommandFirst
  BY DEF IInv, Commanded, NobodyCloses, CloseCommandFirst, CloseWritten
<1> QED
  BY <1>1, OneWriter, PTL

\* connectionClosed, closeConnection and WSSocketProcessor.close() call one another:
\* from wherever a thread enters the circle and whatever other threads do to active
\* meanwhile, there are never more than two calls for it to go on with.
THEOREM NeverReenters == Spec => []ClosingNeverReenters
<1>1. IInv => ClosingNeverReenters
  BY DEF IInv, NestShape, NestedAt, ClosingNeverReenters
<1> QED
  BY <1>1, OneWriter, PTL

-----------------------------------------------------------------------------
(* Telling the service.  While the connection is active nobody has told it;   *)
(* whoever then finds it active owes it one call of disconnected, and nobody  *)
(* comes to owe a second.                                                     *)

Gone(queue) == {i \in 1..Len(queue) : queue[i] = "disconnected"}

\* Thread t is in the active branch of connectionClosed.
Owes(t) == pc[t] = "notifying" \/ stack[t] \in {<<"notifying">>, <<"notifying", "preparing">>}
Owing == {t \in Threads : Owes(t)}

\* The other threads come to close() only when the connection is inactive.
OnlyEnders ==
  \A t \in Threads \ Enders :
    /\ stack[t] = << >> /\ pc[t] \notin {"deciding", "notifying"}
    /\ pc[t] = "closing" => ~active

Told == Cardinality(Gone(called)) + Cardinality(Gone(callbacks))

ToldOnce ==
  /\ active => Gone(called) = {} /\ Gone(callbacks) = {}
  /\ Told + Cardinality(Owing) <= Cardinality(Enders)

LEMMA ThreadsFinite ==
  /\ IsFiniteSet(Threads) /\ Enders \subseteq Threads
  /\ IsFiniteSet(Enders) /\ Cardinality(Enders) \in Nat
<1>1. IsFiniteSet({Reader, Timer, CallbackQueue})
  <2>1. IsFiniteSet({Reader}) /\ IsFiniteSet({Timer}) /\ IsFiniteSet({CallbackQueue})
    BY FS_Singleton
  <2>2. IsFiniteSet({Reader} \union {Timer})
    BY <2>1, FS_Union
  <2>3. IsFiniteSet(({Reader} \union {Timer}) \union {CallbackQueue})
    BY <2>1, <2>2, FS_Union
  <2>4. ({Reader} \union {Timer}) \union {CallbackQueue} = {Reader, Timer, CallbackQueue}
    OBVIOUS
  <2> QED
    BY <2>3, <2>4
<1>2. IsFiniteSet(Threads)
  BY <1>1, ThreadsAssumption, FS_Union DEF Threads
<1>3. Enders \subseteq Threads
  BY Roles DEF Enders
<1> QED
  BY <1>2, <1>3, FS_Subset, FS_CardinalityType

\* What is owed and told as queues change.
LEMMA GoneFinite ==
  ASSUME NEW S, NEW q \in Seq(S)
  PROVE  IsFiniteSet(Gone(q)) /\ Cardinality(Gone(q)) \in Nat
<1>1. Len(q) \in Nat /\ IsFiniteSet(1..Len(q))
  BY LenProperties, FS_Interval
<1>2. Gone(q) \in SUBSET (1..Len(q))
  BY DEF Gone
<1> QED
  BY <1>1, <1>2, FS_Subset, FS_CardinalityType

LEMMA AppendGone ==
  ASSUME NEW S, NEW q \in Seq(S), NEW m \in S
  PROVE  /\ m # "disconnected" => Gone(Append(q, m)) = Gone(q)
         /\ m = "disconnected" => Cardinality(Gone(Append(q, m))) = Cardinality(Gone(q)) + 1
<1>1. /\ Len(q) \in Nat /\ Len(Append(q, m)) = Len(q) + 1
      /\ \A i \in 1..Len(q) : Append(q, m)[i] = q[i]
      /\ Append(q, m)[Len(q) + 1] = m
  BY AppendProperties
<1>2. CASE m # "disconnected"
  <2>1. \A i : i \in Gone(Append(q, m)) <=> i \in Gone(q)
    BY <1>1, <1>2 DEF Gone
  <2> QED
    BY <1>2, <2>1
<1>3. CASE m = "disconnected"
  <2>1. \A i : i \in Gone(Append(q, m)) <=> i \in Gone(q) \/ i = Len(q) + 1
    BY <1>1, <1>3 DEF Gone
  <2>2. Gone(Append(q, m)) = Gone(q) \cup {Len(q) + 1}
    BY <2>1
  <2>3. Len(q) + 1 \notin Gone(q)
    BY <1>1 DEF Gone
  <2>4. IsFiniteSet(Gone(q))
    BY GoneFinite
  <2>5. Cardinality(Gone(q) \cup {Len(q) + 1}) = Cardinality(Gone(q)) + 1
    BY <2>3, <2>4, FS_AddElement
  <2> QED
    BY <1>3, <2>2, <2>5
<1> QED
  BY <1>2, <1>3

LEMMA TailGone ==
  ASSUME NEW S, NEW q \in Seq(S), q # << >>
  PROVE  /\ Gone(q) = {} => Gone(Tail(q)) = {} /\ Head(q) # "disconnected"
         /\ Cardinality(Gone(Tail(q))) <= Cardinality(Gone(q))
         /\ Head(q) = "disconnected" => Cardinality(Gone(Tail(q))) + 1 <= Cardinality(Gone(q))
<1>1. /\ Len(q) \in Nat /\ Len(q) > 0 /\ Len(Tail(q)) = Len(q) - 1 /\ Head(q) = q[1]
      /\ \A i \in 1..Len(Tail(q)) : Tail(q)[i] = q[i + 1]
      /\ Tail(q) \in Seq(S)
  BY HeadTailProperties, EmptySeq
<1>2. \A i \in Gone(Tail(q)) : i \in Nat /\ i + 1 \in Gone(q) \ {1}
  BY <1>1 DEF Gone
<1>3. IsFiniteSet(Gone(q)) /\ Cardinality(Gone(q)) \in Nat
      /\ Cardinality(Gone(Tail(q))) \in Nat
  BY <1>1, GoneFinite
<1> DEFINE f == [i \in Gone(Tail(q)) |-> i + 1]
           rest == Gone(q) \ {1}
<1>4. IsFiniteSet(rest)
      /\ Cardinality(rest) = IF 1 \in Gone(q) THEN Cardinality(Gone(q)) - 1 ELSE Cardinality(Gone(q))
  BY <1>3, FS_RemoveElement
<1>5. f \in Injection(Gone(Tail(q)), rest)
  <2>1. f \in [Gone(Tail(q)) -> rest]
    BY <1>2
  <2>2. \A i, j \in Gone(Tail(q)) : f[i] = f[j] => i = j
    BY <1>2
  <2> QED
    BY <2>1, <2>2 DEF Injection, IsInjective
<1>6. Cardinality(Gone(Tail(q))) <= Cardinality(rest)
  BY <1>4, <1>5, FS_Injection
<1>7. Head(q) = "disconnected" <=> 1 \in Gone(q)
  BY <1>1 DEF Gone
<1> QED
  BY <1>2, <1>3, <1>4, <1>6, <1>7

\* The four ways a step changes what the service is told.
LEMMA QueueStep ==
  ASSUME TypeOK, [Next]_vars
  PROVE  \/ UNCHANGED <<called, callbacks>>
         \/ \E m \in {"connected", "received"} :
              callbacks' = Append(callbacks, m) /\ called' = called
         \/ \E t \in Threads : NotifyDisconnected(t)
         \/ /\ callbacks # << >> /\ callbacks' = Tail(callbacks)
            /\ called' = called \/ called' = Append(called, Head(callbacks))
<1>1. CASE \E t \in Threads : Continue(t)
  BY <1>1 DEF Continue, EnterSendMessage, LockWriteLock, FillBuffer, WriteBuffer, WritePayload,
              UnlockWriteLock, DecideClosed, Deactivate, CloseProcessor, PrepareToClose
<1>2. CASE \E t \in Callers : Call(t)
  BY <1>2, Zenon DEF Call, CallSend, CallPing, CallClose, CallDrop, CallCloseProcessor, Calls
<1>3. CASE TimerPings \/ TimerExpires
  BY <1>3 DEF TimerPings, TimerExpires, TimerFires
<1>4. CASE Handle
  BY <1>4 DEF Handle, ReceivedMessage, ReceivedPing, ReceivedPong, ReceivedMisplaced, ReceivedClose,
              ReceivedInvalidText, ReceivedInvalidClose, ReceivedGarbage, Received
<1>5. CASE FireConnected \/ SocketClosed \/ \E n \in 1..Len(inbox) : Read(n)
  BY <1>5 DEF FireConnected, SocketClosed, Read
<1>6. CASE RunCallback
  BY <1>6 DEF RunCallback
<1>7. CASE UNCHANGED vars
  BY <1>7 DEF vars
<1> QED
  BY <1>1, <1>2, <1>3, <1>4, <1>5, <1>6, <1>7 DEF Next

LEMMA StepOnlyEnders ==
  ASSUME TypeOK, OnlyEnders, [Next]_vars
  PROVE  OnlyEnders' /\ (active' => active)
<1>1. ASSUME NEW t \in Threads, OthersStay(t), active' => active,
             t \notin Enders =>
               /\ stack'[t] = << >> /\ pc'[t] \notin {"deciding", "notifying"}
               /\ pc'[t] = "closing" => ~active'
      PROVE  OnlyEnders' /\ (active' => active)
  BY <1>1, Zenon DEF OnlyEnders, OthersStay, Enders
<1>2. CASE Start
  <2>1. ASSUME NEW t \in Threads, Starts(t) \/ Decides(t) \/ Closes(t)
        PROVE  OnlyEnders' /\ (active' => active)
    <3>1. active' = active
      BY <2>1, Zenon DEF Starts, Decides, Closes
    <3>2. OthersStay(t) /\ (t \notin Enders => pc'[t] = "entering" /\ stack'[t] = stack[t])
      BY <2>1 DEF Starts, Decides, Closes, GoesTo
    <3>3. t \notin Enders => pc'[t] = "entering" /\ stack'[t] = << >>
      BY <3>2 DEF OnlyEnders
    <3> QED
      BY <1>1, <3>1, <3>2, <3>3
  <2>2. CASE NobodyMoves
    BY <2>2, Zenon DEF NobodyMoves, OnlyEnders, Enders, threadVars
  <2> QED
    BY <1>2, <2>1, <2>2 DEF Start
<1>3. ASSUME NEW t \in Threads, Continue(t)
      PROVE  OnlyEnders' /\ (active' => active)
  <2>1. Moves(t) /\ OthersStay(t)
    BY <1>3, ContinueMoves, MovesAlone
  <2>2. active' => active
    BY <2>1, Zenon DEF Moves
  <2>3. ASSUME t \notin Enders
        PROVE  /\ stack'[t] = << >> /\ pc'[t] \notin {"deciding", "notifying"}
               /\ pc'[t] = "closing" => ~active'
    <3>1. /\ stack[t] = << >> /\ pc[t] \notin {"deciding", "notifying"}
          /\ pc[t] = "closing" => ~active
      BY <2>3 DEF OnlyEnders
    <3>2. CASE Leaves(t) \/ Writes(t)
      BY <3>1, <3>2 DEF Leaves, Writes, Returns, GoesTo, Sending, Inside
    <3>3. CASE pc[t] = "sent" /\ ~active' /\ (GoesTo(t, "closing") \/ Returns(t))
      <4>1. stack'[t] = << >> /\ pc'[t] \notin {"deciding", "notifying"}
        BY <3>1, <3>3 DEF Returns, GoesTo
      <4> QED
        BY <3>3, <4>1, Zenon
    <3>4. CASE Closing(t)
      BY <3>1, <3>4 DEF Closing, GoesTo
    <3>5. CASE pc[t] \in {"preparing", "notifying"} /\ Returns(t)
      BY <3>1, <3>5 DEF Returns
    <3> QED
      BY <2>1, <3>1, <3>2, <3>3, <3>4, <3>5, Zenon DEF Moves, Decision
  <2> QED
    BY <1>1, <2>1, <2>2, <2>3
<1> QED
  BY <1>2, <1>3, StepCases

\* A thread that returns owes no more than before, and nothing if it has just told.
LEMMA ReturnOwes ==
  ASSUME TypeOK, NEW t \in Threads, NestedAt(t), Returns(t)
  PROVE  /\ Owes(t)' => Owes(t)
         /\ pc[t] = "notifying" => ~Owes(t)'
<1>1. CASE stack[t] = << >>
  BY <1>1 DEF Returns, Owes
<1>2. CASE stack[t] # << >>
  <2>1. stack[t] \in Nestings
    BY DEF NestedAt
  <2>2. stack'[t] \in {<< >>, <<"preparing">>} /\ pc'[t] = Head(stack[t])
    BY <1>2, <2>1, NestingSteps DEF Returns
  <2>3. Owes(t)' => Head(stack[t]) = "notifying"
    BY <2>2, NestingSteps DEF Owes
  <2>4. stack[t] = <<"preparing">> => Head(stack[t]) = "preparing"
    OBVIOUS
  <2>5. stack[t] \in {<<"preparing">>, <<"notifying">>, <<"notifying", "preparing">>}
    BY <1>2, <2>1 DEF Nestings
  <2> QED
    BY <2>3, <2>4, <2>5 DEF Owes, NestedAt
<1> QED
  BY <1>1, <1>2

\* Once the connection is inactive, nobody comes to owe a call of disconnected.
LEMMA NobodyElseOwes ==
  ASSUME TypeOK, NestShape, ~active, [Next]_vars, NEW u \in Threads, Owes(u)'
  PROVE  Owes(u)
<1>1. ASSUME NEW t \in Threads, OthersStay(t), Owes(t)' => Owes(t)
      PROVE  Owes(u)
  BY <1>1 DEF OthersStay, Owes
<1>2. CASE Start
  <2>1. ASSUME NEW t \in Threads, Starts(t) \/ Decides(t) \/ Closes(t) PROVE Owes(u)
    BY <1>1, <2>1 DEF Starts, Decides, Closes, GoesTo, Owes
  <2>2. CASE NobodyMoves
    BY <2>2, Zenon DEF NobodyMoves, Owes, threadVars
  <2> QED
    BY <1>2, <2>1, <2>2 DEF Start
<1>3. ASSUME NEW t \in Threads, Continue(t) PROVE Owes(u)
  <2>1. Moves(t) /\ OthersStay(t) /\ NestedAt(t)
    BY <1>3, ContinueMoves, MovesAlone DEF NestShape
  <2>2. Returns(t) \/ \E p \in Point \ {"notifying"} : GoesTo(t, p)
    BY <2>1 DEF Moves, Leaves, Writes, Decision, Closing, Sending, Inside, Point
  <2>3. Owes(t)' => Owes(t)
    BY <2>1, <2>2, ReturnOwes DEF GoesTo, Owes
  <2> QED
    BY <1>1, <2>1, <2>3
<1> QED
  BY <1>2, <1>3, StepCases

LEMMA StepToldOnce ==
  ASSUME TypeOK, NestShape, OnlyEnders, ToldOnce, [Next]_vars
  PROVE  ToldOnce'
<1> DEFINE S == {"connected", "received", "disconnected"}
<1>1. called \in Seq(S) /\ callbacks \in Seq(S) /\ called' \in Seq(S) /\ callbacks' \in Seq(S)
  BY StepType DEF TypeOK
<1> DEFINE a == Cardinality(Gone(called))
           b == Cardinality(Gone(callbacks))
           a1 == Cardinality(Gone(called'))
           b1 == Cardinality(Gone(callbacks'))
           o == Cardinality(Owing)
           o1 == Cardinality(Owing')
           e == Cardinality(Enders)
<1>2. a \in Nat /\ b \in Nat /\ a1 \in Nat /\ b1 \in Nat /\ e \in Nat
  BY <1>1, GoneFinite, ThreadsFinite
<1>3. IsFiniteSet(Owing) /\ o \in Nat /\ IsFiniteSet(Owing') /\ o1 \in Nat
  <2>1. Owing \in SUBSET Threads /\ Owing' \in SUBSET Threads
    BY DEF Owing
  <2> QED
    BY <2>1, ThreadsFinite, FS_Subset, FS_CardinalityType
<1>4. OnlyEnders' /\ (active' => active)
  BY StepOnlyEnders
\* While the connection is active nothing has been told.
<1>5. CASE active
  <2>1. Gone(called) = {} /\ Gone(callbacks) = {}
    BY <1>5 DEF ToldOnce
  <2>2. ~\E t \in Threads : NotifyDisconnected(t)
    BY <1>5 DEF NestShape, NestedAt, NotifyDisconnected
  <2>3. Gone(called') = {} /\ Gone(callbacks') = {}
    <3>1. CASE UNCHANGED <<called, callbacks>>
      BY <2>1, <3>1
    <3>2. ASSUME NEW m \in {"connected", "received"},
                 callbacks' = Append(callbacks, m), called' = called
          PROVE  Gone(called') = {} /\ Gone(callbacks') = {}
      BY <1>1, <2>1, <3>2, AppendGone
    <3>3. CASE /\ callbacks # << >> /\ callbacks' = Tail(callbacks)
               /\ called' = called \/ called' = Append(called, Head(callbacks))
      <4>1. Head(callbacks) \in S
        BY <1>1, <3>3, HeadTailProperties
      <4>2. Gone(Tail(callbacks)) = {} /\ Head(callbacks) # "disconnected"
        BY <1>1, <2>1, <3>3, TailGone
      <4> QED
        BY <1>1, <2>1, <3>3, <4>1, <4>2, AppendGone
    <3> QED
      BY <2>2, <3>1, <3>2, <3>3, QueueStep
  <2>4. Owing' \in SUBSET Enders
    BY <1>4 DEF Owing, Owes, OnlyEnders, Enders
  <2>5. o1 <= e
    BY <2>4, ThreadsFinite, FS_Subset
  <2>6. a1 = 0 /\ b1 = 0
    BY <2>3, FS_EmptySet
  <2>7. (Told + Cardinality(Owing) <= Cardinality(Enders))'
    BY <1>2, <1>3, <2>5, <2>6 DEF Told, Enders
  <2> QED
    BY <2>3, <2>7 DEF ToldOnce
\* After that every call of disconnected was owed.
<1>6. CASE ~active
  <2>1. ~active'
    BY <1>4, <1>6, Zenon
  <2>2. Owing' \subseteq Owing
    BY <1>6, NobodyElseOwes DEF Owing
  <2>3. o1 <= o
    BY <1>3, <2>2, FS_Subset
  <2>4. a + b + o <= e
    BY DEF ToldOnce, Told
  <2>5. a1 + b1 + o1 <= e
    <3>1. CASE UNCHANGED <<called, callbacks>>
      <4>1. a1 = a /\ b1 = b
        BY <3>1
      <4> QED
        BY <1>2, <1>3, <2>3, <2>4, <4>1
    <3>2. ASSUME NEW m \in {"connected", "received"},
                 callbacks' = Append(callbacks, m), called' = called
          PROVE  a1 + b1 + o1 <= e
      <4>1. a1 = a /\ b1 = b
        BY <1>1, <3>2, AppendGone
      <4> QED
        BY <1>2, <1>3, <2>3, <2>4, <4>1
    <3>3. ASSUME NEW t \in Threads, NotifyDisconnected(t)
          PROVE  a1 + b1 + o1 <= e
      <4>1. callbacks' = Append(callbacks, "disconnected") /\ called' = called
        BY <3>3 DEF NotifyDisconnected
      <4>2. a1 = a /\ b1 = b + 1
        BY <1>1, <4>1, AppendGone
      <4>3. t \in Owing /\ t \notin Owing'
        <5>1. Returns(t) /\ pc[t] = "notifying" /\ NestedAt(t)
          BY <3>3, ReturnMoves DEF NotifyDisconnected, NestShape
        <5> QED
          BY <5>1, ReturnOwes DEF Owing, Owes
      <4>4. Owing' \in SUBSET (Owing \ {t})
        BY <2>2, <4>3
      <4>5. IsFiniteSet(Owing \ {t}) /\ Cardinality(Owing \ {t}) = o - 1
        BY <1>3, <4>3, FS_RemoveElement
      <4>6. o1 <= o - 1
        BY <4>4, <4>5, FS_Subset
      <4> QED
        BY <1>2, <1>3, <2>4, <4>2, <4>6
    <3>4. CASE /\ callbacks # << >> /\ callbacks' = Tail(callbacks)
               /\ called' = called \/ called' = Append(called, Head(callbacks))
      <4>1. Head(callbacks) \in S
        BY <1>1, <3>4, HeadTailProperties
      <4>2. b1 <= b /\ (Head(callbacks) = "disconnected" => b1 + 1 <= b)
        BY <1>1, <3>4, TailGone
      <4>3. a1 = a \/ (Head(callbacks) = "disconnected" /\ a1 = a + 1)
        <5>1. CASE called' = called
          BY <5>1
        <5>2. CASE called' = Append(called, Head(callbacks))
          BY <1>1, <4>1, <5>2, AppendGone
        <5> QED
          BY <3>4, <5>1, <5>2
      <4> QED
        BY <1>2, <1>3, <2>3, <2>4, <4>2, <4>3
    <3> QED
      BY <3>1, <3>2, <3>3, <3>4, QueueStep
  <2>6. (Told + Cardinality(Owing) <= Cardinality(Enders))'
    BY <2>5 DEF Told, Enders
  <2> QED
    BY <2>1, <2>6, Zenon DEF ToldOnce
<1> QED
  BY <1>5, <1>6

\* disconnected is called no more often than there are threads that may run
\* connectionClosed, however many threads send, close and drop and in whatever order
\* they come to test active (connectionClosed, socketClosed, the timer, close()).
THEOREM ToldOncePerEnder == Spec => []DisconnectedOncePerEnder
<1> DEFINE I == TypeOK /\ NestShape /\ OnlyEnders /\ ToldOnce
<1>1. Init => I
  <2> SUFFICES ASSUME Init PROVE I
    OBVIOUS
  <2>1. TypeOK /\ NestShape
    BY InitInv DEF IInv
  <2>2. OnlyEnders
    BY DEF Init, OnlyEnders
  <2>3. Gone(called) = {} /\ Gone(callbacks) = {} /\ Owing = {}
    BY DEF Init, Gone, Owing, Owes
  <2>4. Cardinality({}) = 0
    BY FS_EmptySet
  <2>5. ToldOnce
    BY <2>3, <2>4, ThreadsFinite DEF ToldOnce, Told
  <2> QED
    BY <2>1, <2>2, <2>5
<1>2. I /\ [Next]_vars => I'
  BY StepType, StepNested, StepOnlyEnders, StepToldOnce, Zenon
<1>3. I => DisconnectedOncePerEnder
  <2> SUFFICES ASSUME I PROVE DisconnectedOncePerEnder
    OBVIOUS
  <2>1. Owing \in SUBSET Threads
    BY DEF Owing
  <2>2. Cardinality(Owing) \in Nat
    BY <2>1, ThreadsFinite, FS_Subset, FS_CardinalityType
  <2>3. Cardinality(Gone(called)) \in Nat /\ Cardinality(Gone(callbacks)) \in Nat
    BY GoneFinite DEF TypeOK
  <2>4. Cardinality(Gone(called)) <= Cardinality(Enders)
    BY <2>2, <2>3, ThreadsFinite DEF ToldOnce, Told
  <2> QED
    BY <2>4 DEF DisconnectedOncePerEnder, Gone
<1> QED
  BY <1>1, <1>2, <1>3, PTL DEF Spec

\* disconnected is called at most once if nobody but the reader queue finds out
\* that the client is gone: a service without a connectionTimeout whose connections
\* are not closed through the processor (connectionClosed, socketClosed).
THEOREM ToldOnceWithoutTimer ==
  ASSUME ~HasTimer, "closeProcessor" \notin AppCalls
  PROVE  Spec => []DisconnectedAtMostOnce
<1>1. TypeOK /\ DisconnectedOncePerEnder => DisconnectedAtMostOnce
  <2> SUFFICES ASSUME TypeOK, DisconnectedOncePerEnder,
                      NEW i \in Gone(called), NEW j \in Gone(called), i # j
               PROVE  FALSE
    BY DEF DisconnectedAtMostOnce, Gone
  <2>1. Enders = {Reader}
    BY DEF Enders
  <2>2. Cardinality(Gone(called)) <= 1
    BY <2>1, FS_Singleton DEF DisconnectedOncePerEnder, Gone
  <2>3. IsFiniteSet({i}) /\ Cardinality({i}) = 1
    BY FS_Singleton
  <2>4. Cardinality({i} \cup {j}) = 2
    BY <2>3, FS_AddElement
  <2>5. {i} \cup {j} \in SUBSET Gone(called)
    OBVIOUS
  <2>6. IsFiniteSet(Gone(called)) /\ Cardinality(Gone(called)) \in Nat
    BY GoneFinite DEF TypeOK
  <2>7. Cardinality({i} \cup {j}) <= Cardinality(Gone(called))
    BY <2>5, <2>6, FS_Subset
  <2> QED
    BY <2>2, <2>4, <2>6, <2>7
<1> QED
  BY <1>1, TypeCorrect, ToldOncePerEnder, PTL
=============================================================================
