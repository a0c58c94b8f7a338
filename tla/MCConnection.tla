---------------------------- MODULE MCConnection ----------------------------
(***************************************************************************)
(* Small instances of Connection.                                          *)
(***************************************************************************)
EXTENDS Connection

\* Frames none of which is answered by closing the connection behind the service's
\* back: nothing, one answered while others close, and one that closes with one more
\* behind it, in the same buffer or the next.
Orderly == {<< >>, <<"ping">>, <<"close", "misplaced">>}

\* Every kind of frame, alone and before one that is answered, one that closes and
\* one that closes past connectionClosed.
AllFrames == UNION {[1..n -> FrameKind] : n \in 0..1}
               \union {<<first, second>> : first \in FrameKind,
                                          second \in {"ping", "close", "invalidText"}}

Garbage == {<<"garbage">>}
Silence == {<< >>}

\* The call with which the application ends a connection and is told of it.
ReportedCalls == {"closeProcessor"}
AllCalls == ApiCall
NoCalls == {}
=============================================================================
