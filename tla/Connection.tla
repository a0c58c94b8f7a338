----------------------------- MODULE Connection -----------------------------
(***************************************************************************)
(* One WebSocketConnection and the threads that share it: the reader queue *)
(* of its socket, which hands it the client's frames; the keep-alive       *)
(* timer; the serial callbackQueue, on which the service's methods run;    *)
(* and any application threads that call send, ping, close or drop.  The   *)
(* connection has one lock, around one frame's way to the socket; the flag *)
(* active is read and written without it.                                  *)
(*                                                                         *)
(* pc says where in its call a thread is, job what it sends and what it    *)
(* does after that, and stack where the calls around that one go on; a     *)
(* step is what runs between two points where another thread can see or    *)
(* change something.  Payloads are left out, except that some do not fit   *)
(* into `buffer` beside their header and are written on their own.         *)
(***************************************************************************)
EXTENDS Naturals, Sequences, FiniteSets

CONSTANTS
  Reader, Timer, CallbackQueue,   \* the connection's own threads
  Apps,            \* other threads the application calls from
  AppCalls,        \* the calls the application makes
  Inbound,         \* what clients may send: sequences of FrameKind
  HasTimer,        \* does the service set a connectionTimeout?
  ServiceKeeps,    \* does the service keep a reference to the connection?
  MaxCalls         \* bound: calls of an application thread, firings of the timer

\* What received(frame:) and process(_:) tell apart: a complete message, a
\* message that is not UTF-8, a ping, a pong, a frame that breaks the rules
\* for its opcode, a close frame, one whose text is not UTF-8, and bytes the
\* parser rejects.
FrameKind == {"message", "invalidText", "ping", "pong", "misplaced",
              "close", "invalidClose", "garbage"}

\* send(message:) with a payload that does and does not fit into the buffer,
\* ping(withMessage:), close(reason:description:) and drop(reason:description:);
\* and processor?.close(), with which the tests end a connection from outside.
ApiCall == {"send", "sendLarge", "ping", "close", "drop", "closeProcessor"}

ASSUME ThreadsAssumption ==
  /\ Reader # Timer /\ Reader # CallbackQueue /\ Timer # CallbackQueue
  /\ {Reader, Timer, CallbackQueue} \cap Apps = {}
  /\ IsFiniteSet(Apps)

ASSUME InstanceAssumption ==
  /\ AppCalls \subseteq ApiCall
  /\ Inbound \subseteq Seq(FrameKind)
  /\ HasTimer \in BOOLEAN /\ ServiceKeeps \in BOOLEAN
  /\ MaxCalls \in Nat

Threads == {Reader, Timer, CallbackQueue} \union Apps

\* The threads on which the application's code runs.
Callers == {CallbackQueue} \union Apps

\* A frame the server sends, and the pieces in which it is written.
OutFrame == [opCode : {"data", "ping", "pong", "close"}, by : Threads, large : BOOLEAN]
Chunk == [frame : OutFrame, part : {"whole", "header", "payload"}]

VARIABLES
  active,       \* WebSocketConnection.active
  writeLock,    \* the value of the semaphore
  buffer,       \* WebSocketConnection.buffer
  pc,           \* per thread: where in its call it is
  job,          \* per thread: the frame it sends, and what it does after it
  stack,        \* per thread: where the calls around its call go on, innermost first
  callbacks,    \* the blocks in callbackQueue, by the service method they call
  socket,       \* the socket handler: new, open, closing or closed
  inbox,        \* frames the client has sent and the socket not yet read
  batch,        \* frames of the current process(_:) not yet handled
  calls,        \* per thread: calls made, or times the timer acted (MaxCalls)
  wire,         \* history: what the handler was given to write
  called        \* history: the service methods called

threadVars == <<pc, job, stack>>
vars == <<active, writeLock, buffer, threadVars, callbacks, socket, inbox, batch,
          calls, wire, called>>

\* What follows sendMessage in its caller: nothing (send, ping, pong);
\* closeConnection marks the connection inactive; a hard one also closes the socket.
Afterwards == {"nothing", "close", "drop"}
Job == [frame : OutFrame, after : Afterwards]

Init ==
  /\ active = TRUE
  /\ writeLock = 1
  /\ buffer = << >>
  /\ pc = [t \in Threads |-> "idle"]
  /\ job = [t \in Threads |->
              [frame |-> [opCode |-> "data", by |-> t, large |-> FALSE], after |-> "nothing"]]
  /\ stack = [t \in Threads |-> << >>]
  /\ callbacks = << >>
  /\ socket = "new"
  /\ inbox \in Inbound /\ batch = << >>
  /\ calls = [t \in Threads |-> 0]
  /\ wire = << >> /\ called = << >>

\* Thread t goes on at point p of its call.
Goto(t, p) == pc' = [pc EXCEPT ![t] = p] /\ UNCHANGED stack

\* Thread t makes a call at point p, after which it goes on at point back.
Nest(t, p, back) ==
  /\ pc' = [pc EXCEPT ![t] = p]
  /\ stack' = [stack EXCEPT ![t] = <<back>> \o @]

\* The call thread t is in returns.
Return(t) ==
  IF stack[t] = << >> THEN Goto(t, "idle")
  ELSE /\ pc' = [pc EXCEPT ![t] = Head(stack[t])]
       /\ stack' = [stack EXCEPT ![t] = Tail(@)]

\* What thread t is going to send.
Prepare(t, opCode, large, after) ==
  job' = [job EXCEPT ![t] =
            [frame |-> [opCode |-> opCode, by |-> t, large |-> large], after |-> after]]

\* Thread t enters sendMessage.
Send(t, opCode, large, after) == Goto(t, "entering") /\ Prepare(t, opCode, large, after)

-----------------------------------------------------------------------------
(* sendMessage, on any thread *)

\* Thread t holds the WSSocketProcessor: it is in one of its methods, or in
\* sendMessage.
HoldsProcessor(t) ==
  \/ pc[t] \in {"waiting", "filling", "writing", "writingPayload", "closing", "preparing"}
  \/ \E i \in 1..Len(stack[t]) : stack[t][i] = "preparing"

\* Otherwise only the socket handler does.
ProcessorAlive == socket # "closed" \/ pc[Reader] # "idle" \/ \E t \in Threads : HoldsProcessor(t)

\* sendMessage returns.
AfterSending(t) == IF job[t].after = "nothing" THEN Return(t) ELSE Goto(t, "sent")

EnterSendMessage(t) ==
  /\ pc[t] = "entering"
  /\ IF ProcessorAlive THEN Goto(t, "waiting") ELSE AfterSending(t)
  /\ UNCHANGED <<active, writeLock, buffer, job, callbacks, socket, inbox, batch,
                 calls, wire, called>>

\* Mutant: the lock is not waited for.
PassWriteLock(t) ==
  /\ pc[t] = "waiting"
  /\ writeLock' = writeLock - 1
  /\ Goto(t, "filling")
  /\ UNCHANGED <<active, buffer, job, callbacks, socket, inbox, batch, calls, wire, called>>

LockWriteLock(t) ==
  /\ pc[t] = "waiting"
  /\ writeLock > 0
  /\ writeLock' = writeLock - 1
  /\ Goto(t, "filling")
  /\ UNCHANGED <<active, buffer, job, callbacks, socket, inbox, batch, calls, wire, called>>

\* Mutant: the length of the buffer is not set back to 0.
FillAppending(t) ==
  /\ pc[t] = "filling"
  /\ buffer' = Append(buffer, [frame |-> job[t].frame,
                               part |-> IF job[t].frame.large THEN "header" ELSE "whole"])
  /\ Goto(t, "writing")
  /\ UNCHANGED <<active, writeLock, job, callbacks, socket, inbox, batch, calls, wire, called>>

FillBuffer(t) ==
  /\ pc[t] = "filling"
  /\ buffer' = <<[frame |-> job[t].frame,
                  part |-> IF job[t].frame.large THEN "header" ELSE "whole"]>>
  /\ Goto(t, "writing")
  /\ UNCHANGED <<active, writeLock, job, callbacks, socket, inbox, batch, calls, wire, called>>

\* A closed handler writes nothing.
Write(chunks) == wire' = IF socket = "closed" THEN wire ELSE wire \o chunks

WriteBuffer(t) ==
  /\ pc[t] = "writing"
  /\ Write(buffer)
  /\ Goto(t, IF job[t].frame.large THEN "writingPayload" ELSE "unlocking")
  /\ UNCHANGED <<active, writeLock, buffer, job, callbacks, socket, inbox, batch, calls, called>>

WritePayload(t) ==
  /\ pc[t] = "writingPayload"
  /\ Write(<<[frame |-> job[t].frame, part |-> "payload"]>>)
  /\ Goto(t, "unlocking")
  /\ UNCHANGED <<active, writeLock, buffer, job, callbacks, socket, inbox, batch, calls, called>>

\* Mutant: the lock is only given back while the connection is active.
UnlockUnlessClosing(t) ==
  /\ pc[t] = "unlocking"
  /\ writeLock' = IF active THEN writeLock + 1 ELSE writeLock
  /\ AfterSending(t)
  /\ UNCHANGED <<active, buffer, job, callbacks, socket, inbox, batch, calls, wire, called>>

UnlockWriteLock(t) ==
  /\ pc[t] = "unlocking"
  /\ writeLock' = writeLock + 1
  /\ AfterSending(t)
  /\ UNCHANGED <<active, buffer, job, callbacks, socket, inbox, batch, calls, wire, called>>

-----------------------------------------------------------------------------
(* closeConnection and connectionClosed, on any thread *)

\* Mutant: connectionClosed does not look at active.
AlwaysClose(t) ==
  /\ pc[t] = "deciding"
  /\ Nest(t, "entering", "notifying") /\ Prepare(t, "close", FALSE, "drop")
  /\ UNCHANGED <<active, writeLock, buffer, callbacks, socket, inbox, batch,
                 calls, wire, called>>

\* processor?.close(), with which connectionClosed and closeConnection end.
CloseIfAlive(t) == IF ProcessorAlive THEN Goto(t, "closing") ELSE Return(t)

\* connectionClosed looks at active.  If it is set, a hard closeConnection is
\* called, after which the service is told.
DecideClosed(t) ==
  /\ pc[t] = "deciding"
  /\ IF active THEN Nest(t, "entering", "notifying") /\ Prepare(t, "close", FALSE, "drop")
               ELSE CloseIfAlive(t) /\ UNCHANGED job
  /\ UNCHANGED <<active, writeLock, buffer, callbacks, socket, inbox, batch,
                 calls, wire, called>>

\* Mutant: a hard close leaves active to the handler's callback.
DeactivateSoftOnly(t) ==
  /\ pc[t] = "sent"
  /\ active' = (active /\ job[t].after # "close")
  /\ IF job[t].after = "drop" THEN CloseIfAlive(t) ELSE Return(t)
  /\ UNCHANGED <<writeLock, buffer, job, callbacks, socket, inbox, batch, calls, wire, called>>

\* closeConnection, once the close frame is sent.
Deactivate(t) ==
  /\ pc[t] = "sent"
  /\ active' = FALSE
  /\ IF job[t].after = "drop" THEN CloseIfAlive(t) ELSE Return(t)
  /\ UNCHANGED <<writeLock, buffer, job, callbacks, socket, inbox, batch, calls, wire, called>>

\* Mutant: the processor does not ask whether the connection is active.
CloseProcessorOnly(t) ==
  /\ pc[t] = "closing"
  /\ Goto(t, "preparing")
  /\ UNCHANGED <<active, writeLock, buffer, job, callbacks, socket, inbox, batch,
                 calls, wire, called>>

\* WSSocketProcessor.close() looks at active, too, and calls connectionClosed
\* before it tells the handler.
CloseProcessor(t) ==
  /\ pc[t] = "closing"
  /\ IF active THEN Nest(t, "deciding", "preparing") ELSE Goto(t, "preparing")
  /\ UNCHANGED <<active, writeLock, buffer, job, callbacks, socket, inbox, batch,
                 calls, wire, called>>

PrepareToClose(t) ==
  /\ pc[t] = "preparing"
  /\ socket' = IF socket = "open" THEN "closing" ELSE socket
  /\ Return(t)
  /\ UNCHANGED <<active, writeLock, buffer, job, callbacks, inbox, batch, calls, wire, called>>

\* Mutant: the service is told only if the connection is still active.
NotifyIfActive(t) ==
  /\ pc[t] = "notifying"
  /\ callbacks' = IF active THEN Append(callbacks, "disconnected") ELSE callbacks
  /\ Return(t)
  /\ UNCHANGED <<active, writeLock, buffer, job, socket, inbox, batch, calls, wire, called>>

NotifyDisconnected(t) ==
  /\ pc[t] = "notifying"
  /\ callbacks' = Append(callbacks, "disconnected")
  /\ Return(t)
  /\ UNCHANGED <<active, writeLock, buffer, job, socket, inbox, batch, calls, wire, called>>

-----------------------------------------------------------------------------
(* The application: any of its threads, and the service's own methods, which *)
(* run on callbackQueue.                                                     *)

\* The blocks in callbackQueue hold the connection weakly: when nothing else holds it any more
\* they do nothing.
ConnectionAlive == ServiceKeeps \/ ProcessorAlive \/ \E t \in Threads : pc[t] # "idle"

Calls(t, call) ==
  /\ call \in AppCalls
  /\ pc[t] = "idle"
  /\ called # << >> /\ ConnectionAlive
  /\ calls[t] < MaxCalls
  /\ calls' = [calls EXCEPT ![t] = @ + 1]
  /\ UNCHANGED <<active, writeLock, buffer, callbacks, socket, inbox, batch, wire, called>>

\* The three send methods return at once when the connection is not active.
CallSend(t) ==
  /\ active
  /\ \/ Calls(t, "send") /\ Send(t, "data", FALSE, "nothing")
     \/ Calls(t, "sendLarge") /\ Send(t, "data", TRUE, "nothing")

CallPing(t) ==
  /\ active
  /\ Calls(t, "ping")
  /\ Send(t, "ping", FALSE, "nothing")

\* Neither close nor drop looks at active.
CallClose(t) == Calls(t, "close") /\ Send(t, "close", FALSE, "close")
CallDrop(t) == Calls(t, "drop") /\ Send(t, "close", FALSE, "drop")

\* Nothing happens if the processor is gone.
CallCloseProcessor(t) ==
  ProcessorAlive /\ Calls(t, "closeProcessor") /\ Goto(t, "closing") /\ UNCHANGED job

RunCallback ==
  /\ pc[CallbackQueue] = "idle"
  /\ callbacks # << >>
  /\ callbacks' = Tail(callbacks)
  /\ called' = IF ConnectionAlive THEN Append(called, Head(callbacks)) ELSE called
  /\ UNCHANGED <<active, writeLock, buffer, threadVars, socket, inbox, batch, calls, wire>>

-----------------------------------------------------------------------------
(* The timer.  How long the client has been silent is nondeterministic here: *)
(* long enough for a ping, or long enough to give the connection up.  Neither *)
(* comes about before the handler is attached, right after the timer starts.  *)

TimerFires ==
  /\ HasTimer /\ ConnectionAlive /\ socket # "new"
  /\ pc[Timer] = "idle"
  /\ calls[Timer] < MaxCalls
  /\ calls' = [calls EXCEPT ![Timer] = @ + 1]
  /\ UNCHANGED <<active, writeLock, buffer, callbacks, socket, inbox, batch, wire, called>>

TimerPings == TimerFires /\ active /\ Send(Timer, "ping", FALSE, "nothing")

TimerExpires == TimerFires /\ Goto(Timer, "deciding") /\ UNCHANGED job

-----------------------------------------------------------------------------
(* The reader queue *)

\* The handler is attached to the processor, which fires connected.
FireConnected ==
  /\ socket = "new"
  /\ socket' = "open"
  /\ callbacks' = Append(callbacks, "connected")
  /\ UNCHANGED <<active, writeLock, buffer, threadVars, inbox, batch, calls, wire, called>>

\* A read brings n whole frames.  A handler that is closing reads no more.
Read(n) ==
  /\ socket = "open"
  /\ pc[Reader] = "idle" /\ batch = << >>
  /\ batch' = SubSeq(inbox, 1, n)
  /\ inbox' = SubSeq(inbox, n + 1, Len(inbox))
  /\ UNCHANGED <<active, writeLock, buffer, threadVars, callbacks, socket, calls, wire, called>>

\* The loop of process(_:) goes on to the next frame of the buffer whatever the
\* last one did to the connection.
Received(kind) ==
  /\ pc[Reader] = "idle"
  /\ batch # << >> /\ Head(batch) = kind
  /\ batch' = IF kind = "garbage" THEN << >> ELSE Tail(batch)
  /\ UNCHANGED <<active, writeLock, buffer, socket, inbox, calls, wire, called>>

ReceivedMessage ==
  /\ Received("message")
  /\ callbacks' = Append(callbacks, "received")
  /\ UNCHANGED threadVars

ReceivedPing ==
  Received("ping") /\ Send(Reader, "pong", FALSE, "nothing") /\ UNCHANGED callbacks

ReceivedPong == Received("pong") /\ UNCHANGED <<threadVars, callbacks>>

ReceivedMisplaced ==
  Received("misplaced") /\ Goto(Reader, "deciding") /\ UNCHANGED <<job, callbacks>>

ReceivedClose ==
  /\ Received("close")
  /\ IF active THEN Goto(Reader, "deciding") /\ UNCHANGED job ELSE UNCHANGED threadVars
  /\ UNCHANGED callbacks

\* Text that is not UTF-8 closes the connection hard, past connectionClosed.
ReceivedInvalidText ==
  Received("invalidText") /\ Send(Reader, "close", FALSE, "drop") /\ UNCHANGED callbacks

ReceivedInvalidClose ==
  /\ Received("invalidClose")
  /\ IF active THEN Send(Reader, "close", FALSE, "drop") ELSE UNCHANGED threadVars
  /\ UNCHANGED callbacks

\* A parse error closes the connection softly; the rest of the buffer is lost.
ReceivedGarbage ==
  Received("garbage") /\ Send(Reader, "close", FALSE, "close") /\ UNCHANGED callbacks

\* The handler has closed the socket, because the client is gone or because it
\* was told to, and calls socketClosed().
SocketClosed ==
  /\ socket \in {"open", "closing"}
  /\ pc[Reader] = "idle" /\ batch = << >>
  /\ socket' = "closed"
  /\ Goto(Reader, "deciding")
  /\ UNCHANGED <<active, writeLock, buffer, job, callbacks, inbox, batch, calls, wire, called>>

-----------------------------------------------------------------------------
Handle ==
  \/ ReceivedMessage \/ ReceivedPing \/ ReceivedPong \/ ReceivedMisplaced
  \/ ReceivedClose \/ ReceivedInvalidText \/ ReceivedInvalidClose \/ ReceivedGarbage

\* The rest of a call that thread t is in.
Continue(t) ==
  \/ EnterSendMessage(t) \/ LockWriteLock(t) \/ FillBuffer(t) \/ WriteBuffer(t)
  \/ WritePayload(t) \/ UnlockWriteLock(t)
  \/ DecideClosed(t) \/ Deactivate(t) \/ CloseProcessor(t) \/ PrepareToClose(t)
  \/ NotifyDisconnected(t)

Call(t) == CallSend(t) \/ CallPing(t) \/ CallClose(t) \/ CallDrop(t) \/ CallCloseProcessor(t)

Next ==
  \/ \E t \in Threads : Continue(t)
  \/ \E t \in Callers : Call(t)
  \/ RunCallback
  \/ TimerPings
  \/ TimerExpires
  \/ FireConnected
  \/ \E n \in 1..Len(inbox) : Read(n)
  \/ Handle
  \/ SocketClosed

\* A thread goes on with its call, the lock is handed to waiters in turn, the
\* queues run, and the handler closes the socket it was told to close.  Nothing
\* makes the application call, the timer fire, the client send or go away.
Fairness ==
  /\ \A t \in Threads : WF_vars(Continue(t)) /\ SF_vars(LockWriteLock(t))
  /\ WF_vars(RunCallback)
  /\ WF_vars(Handle)
  /\ WF_vars(socket = "closing" /\ SocketClosed)

Spec == Init /\ [][Next]_vars /\ Fairness

-----------------------------------------------------------------------------
Point == {"idle", "entering", "waiting", "filling", "writing", "writingPayload",
          "unlocking", "sent", "deciding", "closing", "preparing", "notifying"}

TypeOK ==
  /\ active \in BOOLEAN
  /\ writeLock \in Nat
  /\ buffer \in Seq(Chunk)
  /\ pc \in [Threads -> Point]
  /\ job \in [Threads -> Job]
  /\ stack \in [Threads -> Seq({"preparing", "notifying"})]
  /\ callbacks \in Seq({"connected", "received", "disconnected"})
  /\ socket \in {"new", "open", "closing", "closed"}
  /\ inbox \in Seq(FrameKind) /\ batch \in Seq(FrameKind)
  /\ calls \in [Threads -> Nat]
  /\ wire \in Seq(Chunk)
  /\ called \in Seq({"connected", "received", "disconnected"})

\* What the client reads is a sequence of whole frames: a header that is written
\* on its own is followed by its own payload and by nothing else, and is last
\* only while its sender holds the lock or if the socket closed in between
\* (sendMessage writes large frames in two pieces, from any thread).
WireFramesWhole ==
  /\ \A i \in 1..Len(wire) :
       /\ wire[i].part = "header" /\ i < Len(wire) =>
            wire[i + 1] = [frame |-> wire[i].frame, part |-> "payload"]
       /\ wire[i].part = "payload" =>
            i > 1 /\ wire[i - 1] = [frame |-> wire[i].frame, part |-> "header"]
  /\ writeLock > 0 /\ socket # "closed" /\ wire # << >> => wire[Len(wire)].part # "header"

\* Before the server closes a socket it has sent a close command, whichever
\* thread's it was (drop: "sending a close control command to the client ...
\* followed by closing the socket").
CloseCommandFirst ==
  socket = "closing" => \E i \in 1..Len(wire) : wire[i].frame.opCode = "close"

\* The calls a thread may be in the middle of: none, close(), connectionClosed, and
\* connectionClosed in a close().
Nestings == {<< >>, <<"preparing">>, <<"notifying">>, <<"notifying", "preparing">>}

\* connectionClosed, closeConnection and WSSocketProcessor.close() call one another
\* in a circle (WebSocketConnection.swift:180-195, WSSocketProcessor.swift:109-112).
\* Wherever it is entered, also by a close() from outside, and whatever other threads
\* do meanwhile, a thread turns at most once: inside close() it may be in
\* connectionClosed, and inside that in one more close(), which goes no further.
ClosingNeverReenters == \A t \in Threads : stack[t] \in Nestings

\* The threads on which connectionClosed may run: that of the socket, the timer's,
\* and those from which close() is called from outside.
Enders == {Reader} \union (IF HasTimer THEN {Timer} ELSE {})
                   \union (IF "closeProcessor" \in AppCalls THEN Callers ELSE {})

\* Each of them tells the service at most once that the connection is gone,
\* however often it comes to connectionClosed: the connection it found active then
\* is not active when it comes there again.
DisconnectedOncePerEnder ==
  Cardinality({i \in 1..Len(called) : called[i] = "disconnected"}) <= Cardinality(Enders)

\* A service is told at most once that a connection is gone.
DisconnectedAtMostOnce ==
  \A i, j \in 1..Len(called) :
    called[i] = "disconnected" /\ called[j] = "disconnected" => i = j

\* Every call returns: nobody is left waiting for the write lock.
CallsReturn == \A t \in Threads : pc[t] # "idle" ~> pc[t] = "idle"

\* A service is told when a connection's socket is closed
\* (WebSocketService.disconnected, connectionClosed).
DisconnectReported ==
  socket = "closed" ~> \E i \in 1..Len(called) : called[i] = "disconnected"
=============================================================================
