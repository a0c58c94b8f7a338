--------------------------- MODULE MCFrameParser ---------------------------
(***************************************************************************)
(* Small instances of FrameParser: streams of up to three masked frames    *)
(* with every size of length field, whole and broken.                      *)
(***************************************************************************)
EXTENDS FrameParser, StreamEncoding

\* Payloads longer than the key, equal to one byte, and in between; length
\* fields that are longer than they need to be are legal to this parser.
Text == Shape(TRUE, 1, 0, <<72, 0, 255, 128, 33>>)
BinaryStart == Shape(FALSE, 2, 2, <<9>>)
BinaryEnd == Shape(TRUE, 0, 8, <<130, 131>>)
Ping == Shape(TRUE, 9, 0, <<7>>)
EmptyPing == Shape(TRUE, 9, 0, << >>)
EmptyClose == Shape(TRUE, 8, 2, << >>)

\* Payload in every frame.
FullStreams ==
  {StreamOf(fs, << >>, "none") : fs \in UpTo(3, {Text, BinaryStart, BinaryEnd, Ping})}

\* Empty control frames among the others.
MixedStreams ==
  {StreamOf(fs, << >>, "none") : fs \in UpTo(3, {Text, BinaryEnd, EmptyPing, EmptyClose})}

\* The violations of the tests: operation code 15, a reserved bit on a ping,
\* a binary frame without masking; after the frame, its own payload.
FaultyStreams ==
  {StreamOf(fs, tail[1], tail[2]) :
     fs \in UpTo(2, {Text, BinaryStart, Ping}),
     tail \in {<<<<143, 130, 1, 2, 3, 4, 5, 6>>, "opCode">>,
               <<<<153, 129, 1, 2, 3, 4, 5>>, "opCode">>,
               <<<<130, 2, 0, 1, 0, 0, 0, 0>>, "unmasked">>}}

AllStreams == FullStreams \union MixedStreams \union FaultyStreams

\* A client that does not mask: the binary frame 129 1 2 3 4 5 in the clear.
UnmaskedStreams == {StreamOf(<<Ping>>, <<130, 6, 129, 1, 2, 3, 4, 5>>, "unmasked")}
=============================================================================
