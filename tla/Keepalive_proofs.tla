-------------------------- MODULE Keepalive_proofs --------------------------
(***************************************************************************)
(* Proofs about Keepalive, for every Tick, however fine.                   *)
(***************************************************************************)
EXTENDS Keepalive, TLAPS

\* Is the handler of the current firing not through yet?
Pending == due \/ seen # Idle

\* No more time than this has passed since the handler was through last, and no
\* less than a Leeway less.
Elapsed == phase + (IF Pending THEN Interval ELSE 0)

\* What the last look and the frames since then leave behind: a silence is not
\* longer than the handler puts up with and the time since, and one that it does
\* not leave alone is a client that it has pinged.
Kept == held /\ socket = "open" => silence <= Timeout + Elapsed
Pinged ==
  held /\ active /\ socket = "open" /\ silence > Quiet + Elapsed => pinged

\* A ping is as old as the last look, or older.
PingAge == pinged => sincePing + Leeway >= Elapsed

\* The handler's copy is never younger than the truth.  What it has not asked
\* has not been silent for long enough to be given up when it makes up its mind.
Running ==
  seen # Idle /\ socket = "open" =>
    /\ silence <= seen
    /\ seen <= Timeout + Elapsed
    /\ active /\ ~asked => seen <= Quiet + Elapsed

\* A client that answers has answered by the next look.
Answered ==
  client = "answers" =>
    /\ pinged /\ socket = "open" => sincePing <= AnswerTime
    /\ ~asked

IInv ==
  /\ TypeOK
  /\ Pending => phase <= Leeway
  /\ due => seen = Idle
  /\ Kept /\ Pinged /\ PingAge /\ Running /\ Answered
  /\ gaveUp => asked /\ socket = "closing"

USE TickAssumption, AnswerTimeAssumption
    DEF Timeout, Interval, Leeway, Quiet, Horizon, Idle

\* Initially the first firing is due and no time has passed.
LEMMA InitIInv == Init => IInv
<1> SUFFICES ASSUME Init PROVE IInv
  OBVIOUS
<1>1. 0 \in 0..Horizon /\ 0 \in 0..(Interval - 1) /\ Idle \in 0..Idle
  OBVIOUS
<1>2. TypeOK
  BY <1>1, Zenon DEF Init, TypeOK
<1>3. QED
  BY <1>2 DEF Init, IInv, Pending, Elapsed, Kept, Pinged, PingAge, Running, Answered

\* No step of the timer, the others or time breaks the invariant.
LEMMA NextIInv == IInv /\ [Next]_vars => IInv'
<1> SUFFICES ASSUME IInv, [Next]_vars PROVE IInv'
  OBVIOUS
<1>1. CASE Look
  <2>1. TypeOK'
    <3>1. /\ silence' \in 0..Horizon /\ phase' \in 0..(Interval - 1)
          /\ seen' \in 0..Idle /\ sincePing' \in 0..Horizon
      BY <1>1 DEF IInv, Look, TypeOK
    <3>2. QED
      BY <3>1, <1>1, Zenon DEF IInv, Look, TypeOK
  <2>2. (Pending => phase <= Leeway)' /\ (due => seen = Idle)'
    BY <1>1 DEF IInv, Look, TypeOK, Pending
  <2>3. Kept'
    BY <1>1 DEF IInv, Look, TypeOK, Kept, Running, Elapsed, Pending
  <2>4. Pinged'
    BY <1>1 DEF IInv, Look, TypeOK, Kept, Pinged, Running, Elapsed, Pending
  <2>5. PingAge'
    BY <1>1 DEF IInv, Look, TypeOK, PingAge, Elapsed, Pending
  <2>6. Running'
    BY <1>1 DEF IInv, Look, TypeOK, Kept, Pinged, PingAge, Running, Elapsed, Pending
  <2>7. Answered'
    BY <1>1 DEF IInv, Look, TypeOK, PingAge, Answered, Elapsed, Pending
  <2>8. (gaveUp => asked /\ socket = "closing")'
    BY <1>1 DEF IInv, Look, TypeOK, Running, Elapsed, Pending
  <2>9. QED
    BY <2>1, <2>2, <2>3, <2>4, <2>5, <2>6, <2>7, <2>8 DEF IInv
<1>2. CASE LeaveAlone
  <2>1. TypeOK'
    BY <1>2 DEF IInv, LeaveAlone, Decide, TypeOK
  <2>2. (Pending => phase <= Leeway)' /\ (due => seen = Idle)'
    BY <1>2 DEF IInv, LeaveAlone, Decide, TypeOK, Pending
  <2>3. Kept'
    BY <1>2 DEF IInv, LeaveAlone, Decide, TypeOK, Kept, Running, Elapsed, Pending
  <2>4. Pinged'
    BY <1>2 DEF IInv, LeaveAlone, Decide, TypeOK, Kept, Pinged, Running, Elapsed, Pending
  <2>5. PingAge'
    BY <1>2 DEF IInv, LeaveAlone, Decide, TypeOK, PingAge, Elapsed, Pending
  <2>6. Running'
    BY <1>2 DEF IInv, LeaveAlone, Decide, TypeOK, Kept, Pinged, PingAge, Running, Elapsed, Pending
  <2>7. Answered'
    BY <1>2 DEF IInv, LeaveAlone, Decide, TypeOK, PingAge, Answered, Elapsed, Pending
  <2>8. (gaveUp => asked /\ socket = "closing")'
    BY <1>2 DEF IInv, LeaveAlone, Decide, TypeOK, Running, Elapsed, Pending
  <2>9. QED
    BY <2>1, <2>2, <2>3, <2>4, <2>5, <2>6, <2>7, <2>8 DEF IInv
<1>3. CASE Ping
  <2>1. TypeOK'
    BY <1>3 DEF IInv, Ping, Decide, TypeOK
  <2>2. (Pending => phase <= Leeway)' /\ (due => seen = Idle)'
    BY <1>3 DEF IInv, Ping, Decide, TypeOK, Pending
  <2>3. Kept'
    BY <1>3 DEF IInv, Ping, Decide, TypeOK, Kept, Running, Elapsed, Pending
  <2>4. Pinged'
    BY <1>3 DEF IInv, Ping, Decide, TypeOK, Kept, Pinged, Running, Elapsed, Pending
  <2>5. PingAge'
    BY <1>3 DEF IInv, Ping, Decide, TypeOK, PingAge, Elapsed, Pending
  <2>6. Running'
    BY <1>3 DEF IInv, Ping, Decide, TypeOK, Kept, Pinged, PingAge, Running, Elapsed, Pending
  <2>7. Answered'
    BY <1>3 DEF IInv, Ping, Decide, TypeOK, PingAge, Answered, Elapsed, Pending
  <2>8. (gaveUp => asked /\ socket = "closing")'
    BY <1>3 DEF IInv, Ping, Decide, TypeOK, Running, Elapsed, Pending
  <2>9. QED
    BY <2>1, <2>2, <2>3, <2>4, <2>5, <2>6, <2>7, <2>8 DEF IInv
<1>4. CASE GiveUp
  <2>1. TypeOK'
    <3>1. /\ silence' \in 0..Horizon /\ phase' \in 0..(Interval - 1)
          /\ seen' \in 0..Idle /\ sincePing' \in 0..Horizon
      BY <1>4 DEF IInv, GiveUp, Decide, TypeOK
    <3>2. QED
      BY <3>1, <1>4, Zenon DEF IInv, GiveUp, Decide, TypeOK
  <2>2. (Pending => phase <= Leeway)' /\ (due => seen = Idle)'
    BY <1>4 DEF IInv, GiveUp, Decide, TypeOK, Pending
  <2>3. Kept'
    BY <1>4 DEF IInv, GiveUp, Decide, TypeOK, Kept, Running, Elapsed, Pending
  <2>4. Pinged'
    BY <1>4 DEF IInv, GiveUp, Decide, TypeOK, Kept, Pinged, Running, Elapsed, Pending
  <2>5. PingAge'
    BY <1>4 DEF IInv, GiveUp, Decide, TypeOK, PingAge, Elapsed, Pending
  <2>6. Running'
    BY <1>4 DEF IInv, GiveUp, Decide, TypeOK, Kept, Pinged, PingAge, Running, Elapsed, Pending
  <2>7. Answered'
    BY <1>4 DEF IInv, GiveUp, Decide, TypeOK, PingAge, Answered, Elapsed, Pending
  <2>8. (gaveUp => asked /\ socket = "closing")'
    BY <1>4 DEF IInv, GiveUp, Decide, TypeOK, Running, Elapsed, Pending
  <2>9. QED
    BY <2>1, <2>2, <2>3, <2>4, <2>5, <2>6, <2>7, <2>8 DEF IInv
<1>5. CASE ReceivedFrame
  <2>1. TypeOK'
    <3>1. /\ silence' \in 0..Horizon /\ phase' \in 0..(Interval - 1)
          /\ seen' \in 0..Idle /\ sincePing' \in 0..Horizon
      BY <1>5 DEF IInv, ReceivedFrame, TypeOK
    <3>2. QED
      BY <3>1, <1>5, Zenon DEF IInv, ReceivedFrame, TypeOK
  <2>2. (Pending => phase <= Leeway)' /\ (due => seen = Idle)'
    BY <1>5 DEF IInv, ReceivedFrame, TypeOK, Pending
  <2>3. Kept'
    BY <1>5 DEF IInv, ReceivedFrame, TypeOK, Kept, Running, Elapsed, Pending
  <2>4. Pinged'
    BY <1>5 DEF IInv, ReceivedFrame, TypeOK, Kept, Pinged, Running, Elapsed, Pending
  <2>5. PingAge'
    BY <1>5 DEF IInv, ReceivedFrame, TypeOK, PingAge, Elapsed, Pending
  <2>6. Running'
    BY <1>5 DEF IInv, ReceivedFrame, TypeOK, Kept, Pinged, PingAge, Running, Elapsed, Pending
  <2>7. Answered'
    BY <1>5 DEF IInv, ReceivedFrame, TypeOK, PingAge, Answered, Elapsed, Pending
  <2>8. (gaveUp => asked /\ socket = "closing")'
    BY <1>5 DEF IInv, ReceivedFrame, TypeOK, Running, Elapsed, Pending
  <2>9. QED
    BY <2>1, <2>2, <2>3, <2>4, <2>5, <2>6, <2>7, <2>8 DEF IInv
<1>6. CASE Close
  <2>1. TypeOK'
    BY <1>6 DEF IInv, Close, TypeOK
  <2>2. (Pending => phase <= Leeway)' /\ (due => seen = Idle)'
    BY <1>6 DEF IInv, Close, TypeOK, Pending
  <2>3. Kept'
    BY <1>6 DEF IInv, Close, TypeOK, Kept, Running, Elapsed, Pending
  <2>4. Pinged'
    BY <1>6 DEF IInv, Close, TypeOK, Kept, Pinged, Running, Elapsed, Pending
  <2>5. PingAge'
    BY <1>6 DEF IInv, Close, TypeOK, PingAge, Elapsed, Pending
  <2>6. Running'
    BY <1>6 DEF IInv, Close, TypeOK, Kept, Pinged, PingAge, Running, Elapsed, Pending
  <2>7. Answered'
    BY <1>6 DEF IInv, Close, TypeOK, PingAge, Answered, Elapsed, Pending
  <2>8. (gaveUp => asked /\ socket = "closing")'
    BY <1>6 DEF IInv, Close, TypeOK, Running, Elapsed, Pending
  <2>9. QED
    BY <2>1, <2>2, <2>3, <2>4, <2>5, <2>6, <2>7, <2>8 DEF IInv
<1>7. CASE EndOtherwise
  <2>1. TypeOK'
    BY <1>7 DEF IInv, EndOtherwise, TypeOK
  <2>2. (Pending => phase <= Leeway)' /\ (due => seen = Idle)'
    BY <1>7 DEF IInv, EndOtherwise, TypeOK, Pending
  <2>3. Kept'
    BY <1>7 DEF IInv, EndOtherwise, TypeOK, Kept, Running, Elapsed, Pending
  <2>4. Pinged'
    BY <1>7 DEF IInv, EndOtherwise, TypeOK, Kept, Pinged, Running, Elapsed, Pending
  <2>5. PingAge'
    BY <1>7 DEF IInv, EndOtherwise, TypeOK, PingAge, Elapsed, Pending
  <2>6. Running'
    BY <1>7 DEF IInv, EndOtherwise, TypeOK, Kept, Pinged, PingAge, Running, Elapsed, Pending
  <2>7. Answered'
    BY <1>7 DEF IInv, EndOtherwise, TypeOK, PingAge, Answered, Elapsed, Pending
  <2>8. (gaveUp => asked /\ socket = "closing")'
    BY <1>7 DEF IInv, EndOtherwise, TypeOK, Running, Elapsed, Pending
  <2>9. QED
    BY <2>1, <2>2, <2>3, <2>4, <2>5, <2>6, <2>7, <2>8 DEF IInv
<1>8. CASE ReleaseService
  <2>1. TypeOK'
    BY <1>8 DEF IInv, ReleaseService, TypeOK
  <2>2. (Pending => phase <= Leeway)' /\ (due => seen = Idle)'
    BY <1>8 DEF IInv, ReleaseService, TypeOK, Pending
  <2>3. Kept'
    BY <1>8 DEF IInv, ReleaseService, TypeOK, Kept, Running, Elapsed, Pending
  <2>4. Pinged'
    BY <1>8 DEF IInv, ReleaseService, TypeOK, Kept, Pinged, Running, Elapsed, Pending
  <2>5. PingAge'
    BY <1>8 DEF IInv, ReleaseService, TypeOK, PingAge, Elapsed, Pending
  <2>6. Running'
    BY <1>8 DEF IInv, ReleaseService, TypeOK, Kept, Pinged, PingAge, Running, Elapsed, Pending
  <2>7. Answered'
    BY <1>8 DEF IInv, ReleaseService, TypeOK, PingAge, Answered, Elapsed, Pending
  <2>8. (gaveUp => asked /\ socket = "closing")'
    BY <1>8 DEF IInv, ReleaseService, TypeOK, Running, Elapsed, Pending
  <2>9. QED
    BY <2>1, <2>2, <2>3, <2>4, <2>5, <2>6, <2>7, <2>8 DEF IInv
<1>9. CASE Advance
  <2>1. TypeOK'
    BY <1>9 DEF IInv, Advance, Later, TypeOK
  <2>2. (Pending => phase <= Leeway)' /\ (due => seen = Idle)'
    BY <1>9 DEF IInv, Advance, Later, TypeOK, Pending
  <2>3. Kept'
    <3>1. CASE phase + 1 = Interval
      <4>1. ~Pending /\ phase \in Nat
        BY <3>1, <1>9 DEF IInv, Advance, TypeOK, Pending
      <4>2. Elapsed = phase
        BY <4>1 DEF Elapsed
      <4>3. Pending' /\ phase' = 0
        BY <3>1, <1>9 DEF Advance, Pending
      <4>4. Elapsed' = phase + 1
        BY <3>1, <4>3 DEF Elapsed
      <4>5. QED
        BY <4>1, <4>2, <4>4, <1>9 DEF IInv, Advance, Later, TypeOK, Kept, Running
    <3>2. CASE phase + 1 # Interval
      BY <3>2, <1>9 DEF IInv, Advance, Later, TypeOK, Kept, Running, Elapsed, Pending
    <3>3. QED
      BY <3>1, <3>2
  <2>4. Pinged'
    <3>1. CASE phase + 1 = Interval
      <4>1. ~Pending /\ phase \in Nat
        BY <3>1, <1>9 DEF IInv, Advance, TypeOK, Pending
      <4>2. Elapsed = phase
        BY <4>1 DEF Elapsed
      <4>3. Pending' /\ phase' = 0
        BY <3>1, <1>9 DEF Advance, Pending
      <4>4. Elapsed' = phase + 1
        BY <3>1, <4>3 DEF Elapsed
      <4>5. QED
        BY <4>1, <4>2, <4>4, <1>9 DEF IInv, Advance, Later, TypeOK, Kept, Pinged, Running
    <3>2. CASE phase + 1 # Interval
      BY <3>2, <1>9 DEF IInv, Advance, Later, TypeOK, Kept, Pinged, Running, Elapsed, Pending
    <3>3. QED
      BY <3>1, <3>2
  <2>5. PingAge'
    BY <1>9 DEF IInv, Advance, Later, TypeOK, PingAge, Elapsed, Pending
  <2>6. Running'
    BY <1>9 DEF IInv, Advance, Later, TypeOK, Kept, Pinged, PingAge, Running, Elapsed, Pending
  <2>7. Answered'
    BY <1>9 DEF IInv, Advance, Later, TypeOK, PingAge, Answered, Elapsed, Pending
  <2>8. (gaveUp => asked /\ socket = "closing")'
    BY <1>9 DEF IInv, Advance, Later, TypeOK, Running, Elapsed, Pending
  <2>9. QED
    BY <2>1, <2>2, <2>3, <2>4, <2>5, <2>6, <2>7, <2>8 DEF IInv
<1>10. CASE UNCHANGED vars
  BY <1>10 DEF vars, IInv, TypeOK, Pending, Elapsed, Kept, Pinged, PingAge, Running, Answered
<1>11. QED
  BY <1>1, <1>2, <1>3, <1>4, <1>5, <1>6, <1>7, <1>8, <1>9, <1>10 DEF Next, Timer

\* The inductive invariant (timerStart): from one look of the timer's handler to
\* the next, silence, ping and copy keep to what the last look left behind.
THEOREM LooksAfter == Spec => []IInv
<1>1. Init => IInv
  BY InitIInv
<1>2. IInv /\ [Next]_vars => IInv'
  BY NextIInv
<1>3. QED
  BY <1>1, <1>2, PTL DEF Spec

\* The variables keep their types, for every Tick.
THEOREM TypeCorrect == Spec => []TypeOK
<1>1. IInv => TypeOK
  BY DEF IInv
<1>2. QED
  BY <1>1, LooksAfter, PTL

\* Who is given up was pinged since his last frame, nine twentieths of the
\* timeout before (timerStart).
THEOREM NotWithoutAsking == Spec => []AskedBeforeGivenUp
<1>1. IInv => AskedBeforeGivenUp
  BY DEF IInv, AskedBeforeGivenUp
<1>2. QED
  BY <1>1, LooksAfter, PTL

\* Who answers within less than that is not given up (timerStart).
THEOREM KeepsAnswering == Spec => []AnsweringClientKept
<1>1. IInv => AnsweringClientKept
  BY DEF IInv, Answered, AnsweringClientKept
<1>2. QED
  BY <1>1, LooksAfter, PTL

\* A silent client's socket is closed after 1.55 timeouts (timerStart,
\* connectionClosed).
THEOREM ClosesInTime == Spec => []ClosedInTime
<1>1. IInv => ClosedInTime
  BY DEF IInv, TypeOK, Kept, Elapsed, Pending, ClosedInTime
<1>2. QED
  BY <1>1, LooksAfter, PTL
=============================================================================
