------------------------------ MODULE Delivery ------------------------------
(***************************************************************************)
(* What a layer of the inbound path promises to the one above it: what the *)
(* client sent is handed on one by one, in the order it was sent, each     *)
(* exactly once, and all of it.  For the parser the items are the frames   *)
(* handed to received(frame:), for the connection the messages handed to   *)
(* the service.  How they are cut into reads or fragments does not appear. *)
(***************************************************************************)
EXTENDS Naturals, Sequences

VARIABLES
  sent,               \* what the client sends, in order
  received            \* what has been handed on so far

vars == <<sent, received>>

\* Whatever the client sends, nothing of it has been handed on.
Init == received = << >>

Deliver ==
  /\ Len(received) < Len(sent)
  /\ received' = Append(received, sent[Len(received) + 1])
  /\ UNCHANGED sent

SafeSpec == Init /\ [][Deliver]_vars

Spec == SafeSpec /\ WF_vars(Deliver)

\* What Spec leads to; a layer with an exception to it states this instead.
AllDelivered == received = sent
=============================================================================
