---------------------------- MODULE FrameHeader ----------------------------
(***************************************************************************)
(* What the server writes: WSFrame.createFrameHeader, how sendMessage puts *)
(* header and payload into one write or two, and the tests' client, which  *)
(* reads the frames back.  Pure operators; bytes are numbers, a sequence   *)
(* of bytes s has the byte at offset n in s[n + 1].  The server does not   *)
(* mask its frames and never fragments a message, but the header is        *)
(* written for either value of the fin bit.                                *)
(***************************************************************************)
EXTENDS Integers, Sequences

\* The operation codes of WSFrame.FrameOpcode that are ever sent.
SentOpCode == {1, 2, 8, 9, 10}

\* The lengths UInt16 and UInt32 have room for.  UInt32(payloadLength) traps on
\* longer payloads: createFrameHeader has no result for them.
UInt16Max == 65535
UInt32Max == 65536 * UInt16Max + UInt16Max
Encodable(payloadLength) == payloadLength \in Nat /\ payloadLength <= UInt32Max

\* The byte of n that counts its 1s, 256s, ...: htons and htonl put the byte of
\* the greatest weight first.
ByteOf(n, weight) == (n \div weight) % 256

\* The fin bit and operation code; then a length below 126, or a marker and 16 or
\* 64 bits of length, of which the code fills in the lower 32.  Of its array of
\* ten bytes it appends as many as it has used.
createFrameHeader(finalFrame, opCode, payloadLength) ==
  LET first == (IF finalFrame THEN 128 ELSE 0) + opCode
      byte(weight) == ByteOf(payloadLength, weight)
  IN  IF payloadLength < 126
        THEN <<first, payloadLength>>
        ELSE IF payloadLength <= UInt16Max
          THEN <<first, 126, byte(256), byte(1)>>
          ELSE <<first, 127, 0, 0, 0, 0,
                 byte(16777216), byte(65536), byte(256), byte(1)>>

\* sendMessage: header and payload go out together if they fit into the buffer,
\* and as two writes if they do not; a frame without payload is its header.
bufferSize == 2000

Writes(header, payload) ==
  IF bufferSize >= Len(header) + Len(payload)
    THEN <<header \o payload>>
    ELSE <<header, payload>>

-----------------------------------------------------------------------------
(* The client of the tests. *)

ntohs(a, b) == 256 * a + b
ntohl(a, b, c, d) == 65536 * ntohs(a, b) + ntohs(c, d)

\* The length in the header at offset `position` of s, and where the payload
\* behind it starts.
parseFrameLength(s, position) ==
  LET byte == s[position + 2] IN
    IF byte = 126
      THEN [length |-> ntohs(s[position + 3], s[position + 4]), payload |-> position + 4]
      ELSE IF byte = 127
        THEN [length |-> ntohl(s[position + 7], s[position + 8],
                               s[position + 9], s[position + 10]),
              payload |-> position + 10]
        ELSE [length |-> byte, payload |-> position + 2]

parseFrameOpcode(s, position) ==
  [finalFrame |-> s[position + 1] >= 128, opCode |-> s[position + 1] % 128]

\* The frame at offset `position` of s.
parseFrame(s, position) ==
  LET first == parseFrameOpcode(s, position)
      field == parseFrameLength(s, position)
  IN  [finalFrame |-> first.finalFrame, opCode |-> first.opCode,
       payload |-> SubSeq(s, field.payload + 1, field.payload + field.length),
       next |-> field.payload + field.length]
=============================================================================
