----------------------------- MODULE Directory ------------------------------
(***************************************************************************)
(* What registering services promises their clients: a path names the      *)
(* service registered on it last, or none, and that is whom a request for  *)
(* it reaches.  In which of its spellings a path is given does not appear. *)
(***************************************************************************)
CONSTANTS
  Names,       \* the paths, whatever their spelling
  Services,
  NoService    \* not a service

VARIABLES
  current,     \* per name: the service registered on it, or NoService
  last         \* the last call, on which name, and with which service

vars == <<current, last>>

\* The last call is c on name n, to register or to reach service s.
Called(c, n, s) == last' = [call |-> c, name |-> n, service |-> s]

Init ==
  /\ current = [n \in Names |-> NoService]
  /\ last = [call |-> "clear", name |-> NoService, service |-> NoService]

Register(n, s) == current' = [current EXCEPT ![n] = s] /\ Called("register", n, s)

Unregister(n) ==
  current' = [current EXCEPT ![n] = NoService] /\ Called("unregister", n, NoService)

Clear == current' = [n \in Names |-> NoService] /\ Called("clear", NoService, NoService)

Request(n) == Called("upgrade", n, current[n]) /\ UNCHANGED current

Next ==
  \/ \E n \in Names : Request(n) \/ Unregister(n) \/ \E s \in Services : Register(n, s)
  \/ Clear

Spec == Init /\ [][Next]_vars
=============================================================================
