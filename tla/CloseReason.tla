---------------------------- MODULE CloseReason ----------------------------
(***************************************************************************)
(* WebSocketCloseReasonCode: the reasons for closing a connection and      *)
(* their sixteen bit codes.                                                *)
(***************************************************************************)
EXTENDS Naturals

UInt16 == 0..65535

\* The cases of the enumeration that have a code of their own.
CodeOf ==
  [normal |-> 1000, goingAway |-> 1001, protocolError |-> 1002, invalidDataType |-> 1003,
   noReasonCodeSent |-> 1005, closedAbnormally |-> 1006, invalidDataContents |-> 1007,
   policyViolation |-> 1008, messageTooLarge |-> 1009, extensionMissing |-> 1010,
   serverError |-> 1011]

WebSocketCloseReasonCode ==
  [name : DOMAIN CodeOf \union {"userDefined"}, userCode : UInt16]

Reason(name) == [name |-> name, userCode |-> 0]
userDefined(c) == [name |-> "userDefined", userCode |-> c]

code(r) == IF r.name = "userDefined" THEN r.userCode ELSE CodeOf[r.name]

\* The cases that stand for the lack of a close frame never come out of one.
OnWire == DOMAIN CodeOf \ {"noReasonCodeSent", "closedAbnormally"}

from(c) ==
  IF \E name \in OnWire : CodeOf[name] = c
    THEN Reason(CHOOSE name \in OnWire : CodeOf[name] = c)
    ELSE IF c < 3000 THEN Reason("protocolError") ELSE userDefined(c)

\* The codes a close frame may carry to this server.
MayBeSent(c) == c \in {CodeOf[name] : name \in OnWire} \/ c >= 3000
=============================================================================
