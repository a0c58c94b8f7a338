--------------------------- MODULE UpgradeFactory ---------------------------
(***************************************************************************)
(* WebSocket and WSConnectionUpgradeFactory: services are registered on    *)
(* paths, and an upgrade request becomes a connection to the service on    *)
(* its path.  The application registers and unregisters at any time while  *)
(* KituraNet calls upgrade on its HTTP threads; every call is a step (two  *)
(* that use the dictionary at once are undefined, as it has no lock).      *)
(*                                                                         *)
(* A path is its name, spelled with or without capitals and with or        *)
(* without a slash in front.  Left out: the digest and the headers of a    *)
(* successful response, and the messages of the others.                    *)
(***************************************************************************)
CONSTANTS
  Names,        \* paths, whatever their spelling
  Services,
  NoService,    \* nil
  Requests      \* the upgrade requests clients make

Path == [slash : BOOLEAN, capitals : BOOLEAN, name : Names]

ASSUME NoServiceAssumption == NoService \notin Services \union Names \union Path

\* A request's Sec-WebSocket-Version, whether it has a Sec-WebSocket-Key, and
\* its path, which starts with a slash.
Request ==
  [version : {"missing", "13", "other"}, key : BOOLEAN, path : {p \in Path : p.slash}]

ASSUME RequestsAssumption == Requests \subseteq Request

VARIABLES
  registry,     \* per path: the service in the dictionary, or NoService
  refusal,      \* what was wrong with the headers of the last request
  last          \* history: the last call, its path, and the service it had to do with

vars == <<registry, refusal, last>>

Called(call, path, service) == last' = [call |-> call, path |-> path, service |-> service]

Init ==
  /\ registry = [p \in Path |-> NoService]
  /\ refusal = "none"
  /\ last = [call |-> "clear", path |-> NoService, service |-> NoService]

-----------------------------------------------------------------------------
Lowercased(path) == [slash |-> path.slash, capitals |-> FALSE, name |-> path.name]

\* The path under which register and unregister of the factory use the dictionary.
WithSlash(path) == [slash |-> TRUE, capitals |-> path.capitals, name |-> path.name]

\* Mutant: paths are kept as they are spelled.
RegisterAsSpelled(service, path) ==
  /\ registry' = [registry EXCEPT ![WithSlash(path)] = service]
  /\ Called("register", path, service)
  /\ UNCHANGED refusal

\* WebSocket.register, and the factory's.
Register(service, path) ==
  /\ registry' = [registry EXCEPT ![WithSlash(Lowercased(path))] = service]
  /\ Called("register", path, service)
  /\ UNCHANGED refusal

\* Mutant: the slash is forgotten.
UnregisterWithoutSlash(path) ==
  /\ registry' = [registry EXCEPT ![Lowercased(path)] = NoService]
  /\ Called("unregister", path, NoService)
  /\ UNCHANGED refusal

Unregister(path) ==
  /\ registry' = [registry EXCEPT ![WithSlash(Lowercased(path))] = NoService]
  /\ Called("unregister", path, NoService)
  /\ UNCHANGED refusal

\* clear, which tests use.
Clear ==
  /\ registry' = [p \in Path |-> NoService]
  /\ Called("clear", NoService, NoService)
  /\ UNCHANGED refusal

\* What is wrong with a request's headers, in the order upgrade looks at them.
Objection(request) ==
  CASE request.version = "missing" -> "noVersion"
    [] request.version = "other" -> "badVersion"
    [] request.version = "13" /\ ~request.key -> "noKey"
    [] OTHER -> "none"

Refuse(request) ==
  /\ Objection(request) # "none"
  /\ refusal' = Objection(request)
  /\ UNCHANGED <<registry, last>>

\* The path is looked up as the client spells it.  Without a service there the
\* request is refused; with one, its connection belongs to that service.
Upgrade(request) ==
  /\ Objection(request) = "none"
  /\ refusal' = "none"
  /\ Called("upgrade", request.path, registry[request.path])
  /\ UNCHANGED registry

Next ==
  \/ \E p \in Path : Unregister(p) \/ \E s \in Services : Register(s, p)
  \/ Clear
  \/ \E r \in Requests : Refuse(r) \/ Upgrade(r)

Spec == Init /\ [][Next]_vars

-----------------------------------------------------------------------------
\* The key under which what is registered on name n is kept.
KeyOf(n) == [slash |-> TRUE, capitals |-> FALSE, name |-> n]

TypeOK ==
  /\ registry \in [Path -> Services \union {NoService}]
  /\ \A p \in Path : registry[p] # NoService => p = KeyOf(p.name)
  /\ refusal \in {"none", "noVersion", "badVersion", "noKey"}
  /\ last \in [call : {"register", "unregister", "clear", "upgrade"},
               path : Path \union {NoService}, service : Services \union {NoService}]

\* A client reaches the service registered last on the path it asks for, however
\* the application spells it when it registers and unregisters (register,
\* unregister and upgrade).  Not if its request has capitals: see below.
ByName ==
  INSTANCE Directory WITH
    current <- [n \in Names |-> registry[KeyOf(n)]],
    last <- [call |-> last.call,
             name |-> IF last.path = NoService THEN NoService ELSE last.path.name,
             service |-> last.service]

ReachesTheRegistered == ByName!Spec

\* A request is refused only if no service is registered on its path,
\* "Caps-insensitive." as WebSocket.register says of the path "that will be in
\* the HTTP "Upgrade" request".
CapsInsensitive ==
  last.call = "upgrade" /\ last.service = NoService =>
    \A p \in Path : registry[p] # NoService => Lowercased(p) # Lowercased(last.path)
=============================================================================
