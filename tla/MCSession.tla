----------------------------- MODULE MCSession -----------------------------
(***************************************************************************)
(* Small instances of Session: every sequence of a few frames, with what   *)
(* they mean, and the same followed by bytes that are no frame.            *)
(***************************************************************************)
EXTENDS Session, StreamEncoding

Utf8(bytes) == \A i \in 1..Len(bytes) : bytes[i] < 128

\* A message in one frame and one in two, a ping, and the end.
Text == Shape(TRUE, 1, 0, <<72>>)
BinaryStart == Shape(FALSE, 2, 0, <<9, 200>>)
BinaryEnd == Shape(TRUE, 0, 0, <<130>>)
Ping == Shape(TRUE, 9, 0, <<7>>)
Goodbye == Shape(TRUE, 8, 0, <<3, 232>>)

\* The place a message starts at.
Start(k) == [message |-> k, at |-> 0, begun |-> FALSE]

\* A client that has sent nothing, and what frame f adds to the meaning of those
\* before it (see WellFormed in Messages).
Unmeant == [messages |-> << >>, good |-> 0, place |-> <<Start(1)>>, ended |-> FALSE]

Mean(m, f) ==
  LET p == m.place[m.good + 1]
      last == Len(m.messages)
      good(messages, next) ==
        [messages |-> messages, good |-> m.good + 1, place |-> Append(m.place, next), ended |-> FALSE]
      new == Append(m.messages, [type |-> NameOf(f.opCode), data |-> f.payload])
  IN  CASE m.ended -> m
        [] ~m.ended /\ f = Ping -> good(m.messages, p)
        [] ~m.ended /\ f = Text /\ ~p.begun -> good(new, Start(last + 2))
        [] ~m.ended /\ f = BinaryStart /\ ~p.begun ->
             good(new, [message |-> last + 1, at |-> Len(f.payload), begun |-> TRUE])
        [] ~m.ended /\ f = BinaryEnd /\ p.begun ->
             good([m.messages EXCEPT ![last].data = @ \o f.payload], Start(last + 1))
        [] OTHER -> [m EXCEPT !.ended = TRUE]

Meaning(fs) == FoldLeft(Mean, Unmeant, fs)

Meant(fs, tail, violation) ==
  LET m == Meaning(fs) IN
    StreamOf(fs, tail, violation)
      @@ [messages |-> m.messages, good |-> m.good, place |-> m.place]

Frames == {Text, BinaryStart, BinaryEnd, Ping, Goodbye}

\* Up to two frames of any kind; a message with a ping inside it, and messages
\* one after another; and operation code 15 or an unmasked frame.
MeantStreams ==
  {Meant(fs, << >>, "none") : fs \in UpTo(2, Frames)}
    \union {Meant(fs, << >>, "none") :
              fs \in {<<BinaryStart, Ping, BinaryEnd>>, <<Ping, BinaryStart, Goodbye>>,
                      <<BinaryStart, BinaryEnd, Text>>}}
    \union {Meant(fs, tail, "opCode") :
              fs \in UpTo(1, {Text, BinaryStart, Ping}), tail \in {<<143, 130, 1, 2, 3, 4, 5, 6>>}}
    \union {Meant(<<Ping>>, <<130, 2, 0, 1, 0, 0, 0, 0>>, "unmasked")}

Anything == {"close", "drop", "expire", "reset"}

\* createFrameHeader at the edges of its three forms, up to what TLC can count.
ASSUME HeadersAtEdges ==
  \A n \in {0, 1, 125, 126, 127, 65535, 65536, 16777216, 2147483647} :
    parseFrameLength(createFrameHeader(TRUE, 2, n), 0) =
      [length |-> n, payload |-> IF n < 126 THEN 2 ELSE IF n < 65536 THEN 4 ELSE 10]
=============================================================================
