--------------------------- MODULE StreamEncoding ---------------------------
(***************************************************************************)
(* Streams for the instances of FrameParser and Session, made from frames  *)
(* as the client of the tests encodes them.                                *)
(***************************************************************************)
EXTENDS Integers, Bitwise, SequencesExt

BitXor(a, b) == a ^^ b

Key == [i \in 1..4 |-> <<165, 15, 240, 1>>[i]]

Shape(fin, op, ext, carried) ==
  [finalFrame |-> fin, opCode |-> op, ext |-> ext, mask |-> Key, payload |-> carried]

LengthField(f) ==
  CASE f.ext = 0 -> <<128 + Len(f.payload)>>
    [] f.ext = 2 -> <<254, 0, Len(f.payload)>>
    [] f.ext = 8 -> <<255, 0, 0, 0, 0, 0, 0, 0, Len(f.payload)>>

Encoded(f) ==
  <<(IF f.finalFrame THEN 128 ELSE 0) + f.opCode>> \o LengthField(f)
    \o [i \in 1..4 |-> f.mask[i]]
    \o [i \in 1..Len(f.payload) |-> BitXor(f.payload[i], f.mask[((i - 1) % 4) + 1])]

Offset(fs, k) == FoldLeft(LAMBDA n, f : n + Len(Encoded(f)), 0, SubSeq(fs, 1, k - 1))

\* The stream of the frames fs followed by the bytes of tail.
StreamOf(fs, tail, violation) ==
  [bytes |-> FlattenSeq([k \in 1..Len(fs) |-> Encoded(fs[k])]) \o tail,
   frames |-> [k \in 1..Len(fs) |-> fs[k] @@ [at |-> Offset(fs, k)]],
   violation |-> violation]

UpTo(n, S) == UNION {[1..k -> S] : k \in 0..n}
=============================================================================
