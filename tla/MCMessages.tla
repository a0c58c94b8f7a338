----------------------------- MODULE MCMessages -----------------------------
(***************************************************************************)
(* Small instances of Messages: every client of up to a number of frames,  *)
(* made frame by frame, and every way to end there.                        *)
(***************************************************************************)
EXTENDS Messages, SequencesExt

\* UTF-8 of one and two bytes.
Utf8(bytes) ==
  \A i \in 1..Len(bytes) :
    \/ bytes[i] < 128
    \/ bytes[i] \in 194..223 /\ i < Len(bytes) /\ bytes[i + 1] \in 128..191
    \/ bytes[i] \in 128..191 /\ i > 1 /\ bytes[i - 1] \in 194..223

\* A character of two bytes, which a client may cut in two; and a message of
\* bytes that are not text.
Eacute == [type |-> "text", data |-> <<195, 169>>]
Empty == [type |-> "text", data |-> << >>]
Octets == [type |-> "binary", data |-> <<169, 1>>]

\* A longer payload than a control frame may have, here 4 bytes.
Long == <<1, 2, 3, 4, 5>>

Frame(opCode, final, bytes) == [opCode |-> opCode, finalFrame |-> final, payload |-> bytes]

Nobody == [frames |-> << >>, messages |-> << >>, good |-> 0, place |-> <<StartOf(1)>>]

\* Client c sends one more good frame, after which it is in place p.
More(c, ms, f, p) ==
  [frames |-> Append(c.frames, f), messages |-> ms,
   good |-> c.good + 1, place |-> Append(c.place, p)]

WithControl(c) ==
  {More(c, c.messages, f, c.place[c.good + 1]) :
     f \in {Frame("ping", TRUE, <<7>>), Frame("pong", FALSE, << >>)}}

\* The fragments of message m from place p on: n bytes of it, the last or not.
WithFragment(c, ms, m, p) ==
  LET opCode == IF p.begun THEN "continuation" ELSE m.type
      bytes(n) == SubSeq(m.data, p.at + 1, p.at + n)
      left == Len(m.data) - p.at
  IN  {More(c, ms, Frame(opCode, FALSE, bytes(n)), [p EXCEPT !.at = @ + n, !.begun = TRUE]) :
         n \in 0..left}
      \union {More(c, ms, Frame(opCode, TRUE, bytes(left)), StartOf(p.message + 1))}

WithOneMore(c) ==
  LET p == c.place[c.good + 1] IN
    WithControl(c) \union
      IF p.begun THEN WithFragment(c, c.messages, c.messages[p.message], p)
                 ELSE UNION {WithFragment(c, Append(c.messages, m), m, p) :
                               m \in {Eacute, Empty, Octets}}

\* The clients that send n frames, all of them good.
GoodClients[n \in Nat] ==
  IF n = 0 THEN {Nobody} ELSE UNION {WithOneMore(c) : c \in GoodClients[n - 1]}

\* Client c goes on with the frames of tail.
Then(c, tail) == [c EXCEPT !.frames = @ \o tail]

Closing ==
  {Frame("close", TRUE, bytes) :
     bytes \in {<< >>, <<3>>, <<3, 232>>, <<11, 183>>, <<15, 160, 195, 169>>,
                <<3, 232, 195>>, Long}}

\* Frames that break a rule where client c is.
Violations(c) ==
  LET p == c.place[c.good + 1] IN
    {Frame("ping", FALSE, << >>), Frame("ping", TRUE, Long)} \union
      (IF ~p.begun
         THEN {Frame("continuation", TRUE, <<1>>), Frame("text", TRUE, <<169>>)}
         ELSE {Frame("binary", TRUE, <<1>>), Frame("text", FALSE, <<65>>)} \union
              IF c.messages[p.message].type = "text"
                THEN {Frame("continuation", TRUE, <<1, 169>>)} ELSE {})

Bad(n) == UNION {{Then(c, <<f>>) : f \in Closing \union Violations(c)} : c \in GoodClients[n]}

\* Clients that go on after a frame that ends the connection: with a message,
\* or with the rest of the one they had begun.
GoOn ==
  {Then(c, <<end, next>>) :
     c \in GoodClients[1],
     end \in {Frame("close", TRUE, <<3, 232>>), Frame("close", TRUE, <<3>>),
             Frame("ping", FALSE, << >>)},
     next \in {Frame("text", TRUE, <<65>>), Frame("continuation", TRUE, <<169>>)}}

\* Up to four good frames, and every way to end after none, one or two.
EveryEnding == GoodClients[4] \union Bad(0) \union Bad(1) \union Bad(2) \union GoOn

Anything == {"close", "drop", "expire", "reset"}
=============================================================================
