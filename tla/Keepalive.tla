----------------------------- MODULE Keepalive ------------------------------
(***************************************************************************)
(* The connectionTimeout of a service: the timer that pings a silent       *)
(* client and gives it up.  Time is explicit here and the write path is    *)
(* not (Connection has that the other way round).  The unit of time is     *)
(* such that connectionTimeout is 20 * Tick: the timer then fires every    *)
(* 10 * Tick, up to one Tick late.                                         *)
(*                                                                         *)
(* Times are kept as the time that has passed since something happened,    *)
(* up to Horizon, beyond which the code makes no difference any more.  The *)
(* handler of the timer copies lastFrameReceivedAt before it looks at the  *)
(* clock, and the reader queue may set it in between.                      *)
(***************************************************************************)
EXTENDS Naturals

CONSTANTS
  Tick,         \* a twentieth of connectionTimeout
  AnswerTime    \* the longest that a client that answers takes to do so, with
                \* what is left of the frame it is sending

ASSUME TickAssumption == Tick \in Nat \ {0}

\* connectionTimeout, the timer's interval and its leeway, and the silence that
\* makes it ping.
Timeout == 20 * Tick
Interval == 10 * Tick
Leeway == Tick

\* Mutant: half of the timeout.
QuietHalf == 10 * Tick

Quiet == 8 * Tick

\* What a client has for its answer.
ASSUME AnswerTimeAssumption == AnswerTime \in Nat /\ AnswerTime < Interval - Leeway

\* bound: longer than any silence of a connection that is looked after
Horizon == 32 * Tick

VARIABLES
  client,      \* does the client answer pings, or do as it likes?
  silence,     \* time since lastFrameReceivedAt
  phase,       \* time since the timer should have fired last
  due,         \* has it yet to fire for that?
  seen,        \* time since the lastFrameReceivedAt the handler has copied, or Idle
  held,        \* is there a service?  It is held weakly.
  active,      \* WebSocketConnection.active
  socket,      \* open, or closing
  pinged,      \* history: has the timer pinged since the last frame?
  sincePing,   \* history: time since then, if it has
  asked,       \* history: at its last look, had the handler pinged an Interval ago?
  gaveUp       \* history: has the timer closed the connection?

vars == <<client, silence, phase, due, seen, held, active, socket,
          pinged, sincePing, asked, gaveUp>>

\* No handler is running.
Idle == Horizon + 1

\* The timer is scheduled to fire at once.
Init ==
  /\ client \in {"answers", "any"}
  /\ silence = 0
  /\ phase = 0 /\ due = TRUE
  /\ seen = Idle
  /\ held = TRUE /\ active = TRUE /\ socket = "open"
  /\ pinged = FALSE /\ sincePing = 0
  /\ asked = FALSE /\ gaveUp = FALSE

-----------------------------------------------------------------------------
(* The timer.  When the socket is closing its handler changes nothing more. *)

\* Mutant: timeIntervalSinceNow without abs is never more than 0.
LookWithoutAbs ==
  /\ due /\ socket = "open" /\ seen = Idle
  /\ due' = FALSE
  /\ seen' = IF held THEN 0 - silence ELSE Idle
  /\ asked' = (pinged /\ sincePing >= Interval - Leeway)
  /\ UNCHANGED <<client, silence, phase, held, active, socket, pinged, sincePing, gaveUp>>

\* The handler starts: it returns when the service is gone.
Look ==
  /\ due /\ socket = "open" /\ seen = Idle
  /\ due' = FALSE
  /\ seen' = IF held THEN silence ELSE Idle
  /\ asked' = (pinged /\ sincePing >= Interval - Leeway)
  /\ UNCHANGED <<client, silence, phase, held, active, socket, pinged, sincePing, gaveUp>>

\* What it copied is s old when it makes up its mind.
Decide(s) ==
  /\ seen # Idle /\ socket = "open"
  /\ s = seen
  /\ seen' = Idle
  /\ UNCHANGED <<client, silence, phase, due, held, asked>>

LeaveAlone ==
  /\ Decide(seen) /\ seen <= Quiet
  /\ UNCHANGED <<active, socket, pinged, sincePing, gaveUp>>

\* ping(), which does nothing on an inactive connection.
Ping ==
  /\ Decide(seen) /\ seen > Quiet /\ seen <= Timeout
  /\ pinged' = (pinged \/ active)
  /\ sincePing' = IF active THEN 0 ELSE sincePing
  /\ UNCHANGED <<active, socket, gaveUp>>

\* Mutant: a connection that is being closed is left alone.
GiveUpActive ==
  /\ Decide(seen) /\ seen > Timeout
  /\ gaveUp' = active
  /\ active' = FALSE
  /\ socket' = IF active THEN "closing" ELSE socket
  /\ UNCHANGED <<pinged, sincePing>>

\* connectionClosed: an inactive connection only has its socket closed.
GiveUp ==
  /\ Decide(seen) /\ seen > Timeout
  /\ gaveUp' = active
  /\ active' = FALSE
  /\ socket' = "closing"
  /\ UNCHANGED <<pinged, sincePing>>

-----------------------------------------------------------------------------
(* The others *)

\* Mutant: pongs are not counted.
ReceivedAllButPong ==
  /\ socket = "open"
  /\ silence' = IF pinged THEN silence ELSE 0
  /\ pinged' = FALSE
  /\ UNCHANGED <<client, phase, due, seen, held, active, socket, sincePing, asked, gaveUp>>

\* A frame has come in completely, of any kind: a pong or something else.
ReceivedFrame ==
  /\ socket = "open"
  /\ silence' = 0
  /\ pinged' = FALSE
  /\ UNCHANGED <<client, phase, due, seen, held, active, socket, sincePing, asked, gaveUp>>

\* The service closes the connection; its client may never close the socket.
Close ==
  /\ active
  /\ active' = FALSE
  /\ UNCHANGED <<client, silence, phase, due, seen, held, socket, pinged, sincePing,
                 asked, gaveUp>>

\* drop, a close frame, an error of the client or the end of the socket.
EndOtherwise ==
  /\ socket = "open"
  /\ active' = FALSE
  /\ socket' = "closing"
  /\ UNCHANGED <<client, silence, phase, due, seen, held, pinged, sincePing, asked, gaveUp>>

\* The service is unregistered and nobody else keeps it.
ReleaseService ==
  /\ held
  /\ held' = FALSE
  /\ UNCHANGED <<client, silence, phase, due, seen, active, socket, pinged, sincePing,
                 asked, gaveUp>>

Later(t) == IF t < Horizon THEN t + 1 ELSE t

\* Time passes, but the timer has fired and its handler is through by the end
\* of the leeway, and a client that answers does so in time.
Advance ==
  /\ socket = "open"
  /\ due \/ seen # Idle => phase < Leeway
  /\ client = "answers" /\ pinged => sincePing < AnswerTime
  /\ silence' = Later(silence)
  /\ phase' = IF phase + 1 = Interval THEN 0 ELSE phase + 1
  /\ due' = (due \/ phase + 1 = Interval)
  /\ seen' = IF seen = Idle THEN Idle ELSE Later(seen)
  /\ sincePing' = IF pinged THEN Later(sincePing) ELSE 0
  /\ UNCHANGED <<client, held, active, socket, pinged, asked, gaveUp>>

Timer == Look \/ LeaveAlone \/ Ping \/ GiveUp

Next ==
  \/ Timer
  \/ ReceivedFrame \/ Close \/ EndOtherwise \/ ReleaseService
  \/ Advance

\* Time does not stop while the socket is open, the timer's queue runs, and a
\* client that answers does.
Spec ==
  /\ Init /\ [][Next]_vars
  /\ WF_vars(Advance) /\ WF_vars(Timer)
  /\ WF_vars(client = "answers" /\ pinged /\ ReceivedFrame)

-----------------------------------------------------------------------------
TypeOK ==
  /\ client \in {"answers", "any"}
  /\ silence \in 0..Horizon
  /\ phase \in 0..(Interval - 1)
  /\ seen \in 0..Idle
  /\ sincePing \in 0..Horizon
  /\ socket \in {"open", "closing"}
  /\ due \in BOOLEAN /\ held \in BOOLEAN /\ active \in BOOLEAN
  /\ pinged \in BOOLEAN /\ asked \in BOOLEAN /\ gaveUp \in BOOLEAN

\* Nobody is given up who has not been pinged since his last frame, and had
\* nearly half of the timeout to answer (connectionTimeout: "If the WebSocket
\* server has not received any messages in the first half of the timeout time
\* it will ping the connection", timerStart).
AskedBeforeGivenUp == gaveUp => asked

\* A client that answers pings is not given up, whatever else it does not send,
\* however late the timer is and although its handler may look at an old
\* lastFrameReceivedAt (connectionTimeout: "If a pong is not received in the
\* remaining half of the timeout, the connection will be closed").
AnsweringClientKept == client = "answers" => ~gaveUp

\* While there is a service, no socket stays open for more than one and a half
\* timeouts and one leeway after its client's last frame, also when the
\* connection was closed before and the client never answered that.
ClosedInTime == held /\ socket = "open" => silence <= Timeout + Interval + Leeway

\* A silent client's socket is closed (that ClosedInTime holds because time
\* stands still is thereby excluded).
SilentClientClosed ==
  socket = "open" ~> silence = 0 \/ socket = "closing" \/ ~held
=============================================================================
