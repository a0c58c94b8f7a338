------------------------ MODULE UpgradeFactory_proofs -----------------------
(***************************************************************************)
(* UpgradeFactory implements Directory, for all names and services and for *)
(* every set of requests without capitals in their paths.                  *)
(***************************************************************************)
EXTENDS UpgradeFactory, TLAPS

USE NoServiceAssumption, RequestsAssumption

\* No request has capitals in its path.
Asked == \A r \in Requests : ~r.path.capitals

LEMMA KeyIsPath ==
  /\ \A n \in Names : KeyOf(n) \in Path /\ KeyOf(n).name = n
  /\ \A p \in Path : p.name \in Names /\ WithSlash(Lowercased(p)) = KeyOf(p.name)
BY DEF KeyOf, Path, WithSlash, Lowercased

\* nil is not a path.
LEMMA NoPath == \A p \in Path : p # NoService
OBVIOUS

\* A request without fault in lower case asks for the key of its name.
LEMMA AsksForKey ==
  ASSUME Asked, NEW r \in Requests
  PROVE  r.path \in Path /\ r.path.name \in Names /\ r.path = KeyOf(r.path.name)
BY DEF Asked, Request, Path, KeyOf

LEMMA TypeOKInductive == TypeOK /\ [Next]_vars => TypeOK'
<1> SUFFICES ASSUME TypeOK, [Next]_vars PROVE TypeOK'
  OBVIOUS
<1>1. ASSUME NEW p \in Path, NEW s \in Services \union {NoService},
             registry' = [registry EXCEPT ![KeyOf(p.name)] = s]
      PROVE  /\ registry' \in [Path -> Services \union {NoService}]
             /\ \A q \in Path : registry'[q] # NoService => q = KeyOf(q.name)
  BY <1>1, KeyIsPath DEF TypeOK
<1>2. CASE \E p \in Path : Unregister(p)
  BY <1>1, <1>2, KeyIsPath DEF Unregister, Called, TypeOK
<1>3. CASE \E p \in Path, s \in Services : Register(s, p)
  BY <1>1, <1>3, KeyIsPath DEF Register, Called, TypeOK
<1>4. CASE Clear
  BY <1>4 DEF Clear, Called, TypeOK
<1>5. CASE \E r \in Requests : Refuse(r)
  BY <1>5 DEF Refuse, Objection, TypeOK, Request
<1>6. CASE \E r \in Requests : Upgrade(r)
  <2>1. PICK r \in Requests : Upgrade(r)
    BY <1>6
  <2>2. r.path \in Path
    BY DEF Request, Path
  <2>3. QED
    BY <2>1, <2>2 DEF Upgrade, Called, TypeOK
<1>7. CASE UNCHANGED vars
  BY <1>7 DEF vars, TypeOK
<1>8. QED
  BY <1>2, <1>3, <1>4, <1>5, <1>6, <1>7 DEF Next

\* The registry only ever has keys with a slash and without capitals (register,
\* unregister).
THEOREM TypeCorrect == Spec => []TypeOK
<1>1. Init => TypeOK
  BY DEF Init, TypeOK
<1>2. TypeOK /\ [Next]_vars => TypeOK'
  BY TypeOKInductive
<1>3. QED
  BY <1>1, <1>2, PTL DEF Spec

\* What a change of one key, or a lookup, is to the directory.
LEMMA StepImplements ==
  ASSUME Asked, TypeOK, [Next]_vars
  PROVE  [ByName!Next]_(ByName!vars)
<1> DEFINE Current == [n \in Names |-> registry[KeyOf(n)]]
<1>1. ASSUME NEW p \in Path, NEW s \in Services \union {NoService},
             registry' = [registry EXCEPT ![KeyOf(p.name)] = s]
      PROVE  Current' = [Current EXCEPT ![p.name] = s]
  <2>1. \A n \in Names : KeyOf(n) = KeyOf(p.name) <=> n = p.name
    BY DEF KeyOf
  <2>2. \A n \in Names : registry'[KeyOf(n)] = IF n = p.name THEN s ELSE registry[KeyOf(n)]
    BY <1>1, <2>1, KeyIsPath DEF TypeOK
  <2>3. QED
    BY <2>2, KeyIsPath
<1>2. CASE \E p \in Path : Unregister(p)
  <2>1. PICK p \in Path : Unregister(p)
    BY <1>2
  <2>2. registry' = [registry EXCEPT ![KeyOf(p.name)] = NoService]
    BY <2>1, KeyIsPath DEF Unregister
  <2>3. ByName!Called("unregister", p.name, NoService)
    BY <2>1, NoPath DEF Unregister, Called, ByName!Called
  <2>4. ByName!Unregister(p.name)
    BY <2>2, <2>3, <1>1 DEF ByName!Unregister
  <2>5. QED
    BY <2>4, KeyIsPath DEF ByName!Next
<1>3. CASE \E p \in Path, s \in Services : Register(s, p)
  <2>1. PICK p \in Path, s \in Services : Register(s, p)
    BY <1>3
  <2>2. registry' = [registry EXCEPT ![KeyOf(p.name)] = s]
    BY <2>1, KeyIsPath DEF Register
  <2>3. ByName!Called("register", p.name, s)
    BY <2>1, NoPath DEF Register, Called, ByName!Called
  <2>4. ByName!Register(p.name, s)
    BY <2>2, <2>3, <1>1 DEF ByName!Register
  <2>5. QED
    BY <2>4, KeyIsPath DEF ByName!Next
<1>4. CASE Clear
  <2>1. Current' = [n \in Names |-> NoService]
    BY <1>4, KeyIsPath DEF Clear
  <2>2. ByName!Called("clear", NoService, NoService)
    BY <1>4 DEF Clear, Called, ByName!Called
  <2>3. QED
    BY <2>1, <2>2 DEF ByName!Next, ByName!Clear
<1>5. CASE \E r \in Requests : Refuse(r)
  BY <1>5 DEF Refuse, ByName!vars
<1>6. CASE \E r \in Requests : Upgrade(r)
  <2>1. PICK r \in Requests : Upgrade(r)
    BY <1>6
  <2>2. /\ r.path \in Path /\ r.path.name \in Names
        /\ registry[r.path] = Current[r.path.name]
    BY AsksForKey
  <2>3. ByName!Called("upgrade", r.path.name, Current[r.path.name])
    BY <2>1, <2>2, NoPath DEF Upgrade, Called, ByName!Called
  <2>4. Current' = Current
    BY <2>1 DEF Upgrade
  <2>5. QED
    BY <2>2, <2>3, <2>4 DEF ByName!Next, ByName!Request
<1>7. CASE UNCHANGED vars
  BY <1>7 DEF vars, ByName!vars
<1>8. QED
  BY <1>2, <1>3, <1>4, <1>5, <1>6, <1>7 DEF Next

\* Every request in lower case reaches the service registered last on its path,
\* however the application spells that path (register, unregister, upgrade).
THEOREM ReachesByName == ASSUME Asked PROVE Spec => ReachesTheRegistered
<1>1. Init => ByName!Init
  BY KeyIsPath DEF Init, ByName!Init
<1>2. TypeOK /\ [Next]_vars => [ByName!Next]_(ByName!vars)
  BY StepImplements
<1>3. QED
  BY <1>1, <1>2, TypeCorrect, PTL DEF Spec, ReachesTheRegistered, ByName!Spec
=============================================================================
