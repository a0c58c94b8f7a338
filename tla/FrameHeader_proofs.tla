-------------------------- MODULE FrameHeader_proofs --------------------------
(***************************************************************************)
(* The client of the tests reads back every frame createFrameHeader is     *)
(* able to write, whatever was written before and after it.                *)
(***************************************************************************)
EXTENDS FrameHeader, SequenceTheorems, TLAPS

Byte == 0..255

LEMMA UInt32MaxIs == UInt32Max = 4294967295
  BY SMT DEF UInt32Max, UInt16Max

\* The bytes of a number are bytes.
LEMMA BytesOf ==
  ASSUME NEW n \in Nat
  PROVE  /\ ByteOf(n, 1) \in Byte /\ ByteOf(n, 256) \in Byte
         /\ ByteOf(n, 65536) \in Byte /\ ByteOf(n, 16777216) \in Byte
<1>1. ByteOf(n, 1) \in Byte /\ ByteOf(n, 256) \in Byte
  BY SMT DEF Byte, ByteOf
<1>2. ByteOf(n, 65536) \in Byte /\ ByteOf(n, 16777216) \in Byte
  BY SMT DEF Byte, ByteOf
<1> QED
  BY <1>1, <1>2, SMT

\* Sixteen bits survive both conversions.
LEMMA Sixteen ==
  ASSUME NEW n \in Nat, n <= UInt16Max
  PROVE  ntohs(ByteOf(n, 256), ByteOf(n, 1)) = n
<1> DEFINE a == n % 256
           b == (n \div 256) % 256
<1>1. n <= 65535
  BY SMT DEF UInt16Max
<1>2. 256 * b + a = n
  BY <1>1, SMT
<1>3. ByteOf(n, 1) = a /\ ByteOf(n, 256) = b
  BY SMT DEF ByteOf
<1> HIDE DEF a, b
<1> QED
  BY <1>2, <1>3, SMT DEF ntohs

\* So do thirty-two.
LEMMA ThirtyTwo ==
  ASSUME NEW n \in Nat, n <= UInt32Max
  PROVE  ntohl(ByteOf(n, 16777216), ByteOf(n, 65536), ByteOf(n, 256), ByteOf(n, 1)) = n
<1> DEFINE a == n % 256
           b == (n \div 256) % 256
           c == (n \div 65536) % 256
           d == (n \div 16777216) % 256
           low == n % 65536
           high == n \div 65536
<1>1. n <= 4294967295
  BY UInt32MaxIs, SMT
<1>2. 256 * b + a = low
  BY SMT
<1>3. 256 * d + c = high
  BY <1>1, SMT
<1>4. n = 65536 * high + low
  BY SMT
<1>5. ByteOf(n, 1) = a /\ ByteOf(n, 256) = b /\ ByteOf(n, 65536) = c /\ ByteOf(n, 16777216) = d
  BY SMT DEF ByteOf
<1> HIDE DEF a, b, c, d, low, high
<1>6. ntohs(ByteOf(n, 256), ByteOf(n, 1)) = low
  BY <1>2, <1>5, SMT DEF ntohs
<1>7. ntohs(ByteOf(n, 16777216), ByteOf(n, 65536)) = high
  BY <1>3, <1>5, SMT DEF ntohs
<1> QED
  BY <1>4, <1>6, <1>7, SMT DEF ntohl

\* A header consists of bytes, and is 2, 4 or 10 of them long
\* (createFrameHeader appends `length` bytes of an array of ten).
THEOREM HeaderIsBytes ==
  ASSUME NEW fin \in BOOLEAN, NEW op \in SentOpCode, NEW n, Encodable(n)
  PROVE  /\ createFrameHeader(fin, op, n) \in Seq(Byte)
         /\ Len(createFrameHeader(fin, op, n)) =
              IF n < 126 THEN 2 ELSE IF n <= UInt16Max THEN 4 ELSE 10
<1> DEFINE first == (IF fin THEN 128 ELSE 0) + op
           b0 == ByteOf(n, 1)
           b1 == ByteOf(n, 256)
           b2 == ByteOf(n, 65536)
           b3 == ByteOf(n, 16777216)
<1>1. n \in Nat /\ first \in Byte
  BY SMT DEF Encodable, SentOpCode, Byte
<1>2. b0 \in Byte /\ b1 \in Byte /\ b2 \in Byte /\ b3 \in Byte
  BY <1>1, BytesOf, SMT
<1>3. 0 \in Byte /\ 126 \in Byte /\ 127 \in Byte /\ (n < 126 => n \in Byte)
  BY <1>1, SMT DEF Byte
<1>4. createFrameHeader(fin, op, n) =
        IF n < 126
          THEN <<first, n>>
          ELSE IF n <= UInt16Max
            THEN <<first, 126, b1, b0>>
            ELSE <<first, 127, 0, 0, 0, 0, b3, b2, b1, b0>>
  BY SMT DEF createFrameHeader
<1> HIDE DEF first, b0, b1, b2, b3
<1> QED
  BY <1>1, <1>2, <1>3, <1>4, SMT

-----------------------------------------------------------------------------
(* Where the parts of a frame are in the bytes written. *)

LEMMA HeaderAt ==
  ASSUME NEW before \in Seq(Byte), NEW header \in Seq(Byte),
         NEW payload \in Seq(Byte), NEW after \in Seq(Byte),
         NEW i \in 1..Len(header)
  PROVE  (before \o header \o payload \o after)[Len(before) + i] = header[i]
<1>1. (before \o header) \in Seq(Byte) /\ (before \o header \o payload) \in Seq(Byte)
  BY SMT
<1>2. (before \o header)[Len(before) + i] = header[i]
  BY SMT
<1>3. (before \o header \o payload)[Len(before) + i] = (before \o header)[Len(before) + i]
  BY <1>1, SMT
<1> QED
  BY <1>1, <1>2, <1>3, SMT

LEMMA PayloadAt ==
  ASSUME NEW before \in Seq(Byte), NEW header \in Seq(Byte),
         NEW payload \in Seq(Byte), NEW after \in Seq(Byte)
  PROVE  LET start == Len(before) + Len(header) IN
         SubSeq(before \o header \o payload \o after, start + 1, start + Len(payload))
           = payload
<1> DEFINE front == before \o header
           start == Len(before) + Len(header)
           upTo == front \o payload
           all == upTo \o after
           end == start + Len(payload)
<1>1. front \in Seq(Byte) /\ Len(front) = start /\ start \in Nat
  BY SMT
<1> HIDE DEF front, start
<1>2. upTo \in Seq(Byte) /\ Len(upTo) = end
  BY <1>1, ConcatProperties, Zenon
<1>3. \A i \in 1..Len(payload) : upTo[start + i] = payload[i]
  BY <1>1, SMT
<1>4. Len(payload) \in Nat /\ end \in Nat
  BY <1>1, SMT
<1> HIDE DEF upTo
<1>5. all \in Seq(Byte) /\ Len(all) = end + Len(after) /\ Len(after) \in Nat
  BY <1>2, ConcatProperties, LenProperties, Zenon
<1>6. \A i \in 1..Len(payload) : all[start + i] = payload[i]
  BY <1>1, <1>2, <1>3, SMT
<1> DEFINE part == SubSeq(all, start + 1, end)
<1> HIDE DEF all
<1>7. /\ part \in Seq(Byte) /\ Len(part) = Len(payload)
      /\ \A i \in 1..Len(payload) : part[i] = all[start + i]
  BY <1>1, <1>4, <1>5, SMT
<1> HIDE DEF part
<1>8. part = payload
  BY <1>6, <1>7, SeqEqual, Zenon
<1> QED
  BY <1>8 DEF part, end, all, upTo, front, start

\* The client of the tests gets from the server's bytes the frame the server
\* meant to send, and goes on behind it: for every payload that has a header, at
\* every place in what has been written (createFrameHeader and parseFrame).
THEOREM ClientReadsFrame ==
  ASSUME NEW fin \in BOOLEAN, NEW op \in SentOpCode, NEW n, Encodable(n),
         NEW payload \in Seq(Byte), Len(payload) = n,
         NEW before \in Seq(Byte), NEW after \in Seq(Byte)
  PROVE  LET header == createFrameHeader(fin, op, n) IN
         parseFrame(before \o header \o payload \o after, Len(before))
           = [finalFrame |-> fin, opCode |-> op, payload |-> payload,
              next |-> Len(before) + Len(header) + n]
<1> DEFINE header == createFrameHeader(fin, op, n)
           s == before \o header \o payload \o after
           at == Len(before)
           first == (IF fin THEN 128 ELSE 0) + op
<1>1. header \in Seq(Byte) /\ Len(header) = (IF n < 126 THEN 2 ELSE IF n <= UInt16Max THEN 4 ELSE 10)
  BY HeaderIsBytes
<1>2. n \in Nat /\ n <= UInt32Max
  BY DEF Encodable
<1>3. /\ n < 126 => header = <<first, n>>
      /\ ~(n < 126) /\ n <= UInt16Max => header = <<first, 126, ByteOf(n, 256), ByteOf(n, 1)>>
      /\ ~(n < 126) /\ ~(n <= UInt16Max) =>
           header = <<first, 127, 0, 0, 0, 0, ByteOf(n, 16777216), ByteOf(n, 65536),
                      ByteOf(n, 256), ByteOf(n, 1)>>
  BY SMT DEF createFrameHeader
<1>4. first \in Nat /\ (first >= 128 <=> fin) /\ first % 128 = op
  BY SMT DEF SentOpCode
<1> HIDE DEF header, first, s, at
<1>5. at \in Nat
  BY LenProperties, Zenon DEF at
<1>6. \A i \in 1..Len(header) : s[at + i] = header[i]
  <2> SUFFICES ASSUME NEW i \in 1..Len(header)
               PROVE  s[at + i] = header[i]
    OBVIOUS
  <2>1. header \in Seq(Byte)
    BY <1>1
  <2>2. (before \o header \o payload \o after)[Len(before) + i] = header[i]
    BY <2>1, HeaderAt
  <2> QED
    BY <2>2, Zenon DEF s, at
<1>7. SubSeq(s, at + Len(header) + 1, at + Len(header) + n) = payload
  <2>1. header \in Seq(Byte)
    BY <1>1
  <2>2. SubSeq(before \o header \o payload \o after, Len(before) + Len(header) + 1,
               Len(before) + Len(header) + Len(payload)) = payload
    BY <2>1, PayloadAt
  <2> QED
    BY <2>2, Zenon DEF s, at
<1>8. s[at + 1] = first
  <2>1. 1 \in 1..Len(header) /\ header[1] = first
    BY <1>1, <1>2, <1>3, SMT
  <2> QED
    BY <2>1, <1>6, SMT
<1>9. parseFrameOpcode(s, at) = [finalFrame |-> fin, opCode |-> op]
  BY <1>4, <1>8, SMT DEF parseFrameOpcode
<1>10. parseFrameLength(s, at) = [length |-> n, payload |-> at + Len(header)]
  <2>1. CASE n < 126
    <3>1. s[at + 2] = n /\ Len(header) = 2
      BY <2>1, <1>1, <1>3, <1>5, <1>6, SMT
    <3> QED
      BY <2>1, <3>1, <1>2, SMT DEF parseFrameLength
  <2>2. CASE ~(n < 126) /\ n <= UInt16Max
    <3>1. Len(header) = 4
      BY <2>2, <1>1, SMT
    <3>2. s[at + 2] = 126 /\ s[at + 3] = ByteOf(n, 256) /\ s[at + 4] = ByteOf(n, 1)
      BY <2>2, <3>1, <1>3, <1>5, <1>6, SMT
    <3>3. ntohs(s[at + 3], s[at + 4]) = n
      BY <3>2, <2>2, <1>2, Sixteen, SMT
    <3> QED
      BY <3>1, <3>2, <3>3, SMT DEF parseFrameLength
  <2>3. CASE ~(n < 126) /\ ~(n <= UInt16Max)
    <3>1. Len(header) = 10
      BY <2>3, <1>1, SMT
    <3>2. /\ s[at + 2] = 127
          /\ s[at + 7] = ByteOf(n, 16777216) /\ s[at + 8] = ByteOf(n, 65536)
          /\ s[at + 9] = ByteOf(n, 256) /\ s[at + 10] = ByteOf(n, 1)
      <4>1. header = <<first, 127, 0, 0, 0, 0, ByteOf(n, 16777216), ByteOf(n, 65536),
                       ByteOf(n, 256), ByteOf(n, 1)>>
        BY <2>3, <1>3, SMT
      <4>2. \A i \in 1..10 : s[at + i] = header[i]
        BY <3>1, <1>6, SMT
      <4>3. /\ s[at + 2] = header[2] /\ s[at + 7] = header[7] /\ s[at + 8] = header[8]
            /\ s[at + 9] = header[9] /\ s[at + 10] = header[10]
        BY <4>2, SMT
      <4> QED
        BY <4>1, <4>3, SMT
    <3>3. ntohl(s[at + 7], s[at + 8], s[at + 9], s[at + 10]) = n
      BY <3>2, <1>2, ThirtyTwo, SMT
    <3> QED
      BY <3>1, <3>2, <3>3, SMT DEF parseFrameLength
  <2> QED
    BY <2>1, <2>2, <2>3
<1>11. parseFrame(s, at) = [finalFrame |-> fin, opCode |-> op,
                            payload |-> SubSeq(s, at + Len(header) + 1, at + Len(header) + n),
                            next |-> at + Len(header) + n]
  BY <1>5, <1>9, <1>10, SMT DEF parseFrame
<1> QED
  BY <1>7, <1>11, Zenon DEF s, at, header

=============================================================================
