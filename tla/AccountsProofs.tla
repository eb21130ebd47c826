--------------------------- MODULE AccountsProofs ---------------------------
(* Proofs about Accounts, for any addresses, users, identity ids and         *)
(* requests.  The inductive invariant IInv follows an identity's id, its     *)
(* owner and its address through the rows and through the requests that have *)
(* a copy of it.                                                             *)
EXTENDS Accounts, FiniteSetTheorems, TLAPS

Request == [op : {"none", "register", "pool", "link", "unlink"} \cup Resaves,
            pc : {"idle", "user", "identity", "session", "member", "email", "other",
                  "count", "remove", "select", "update", "insert"},
            for : SUBSET Uids, address : Addresses \cup {NoAddress}, id : SUBSET Ids]

Single(S) == \A x, y \in S : x = y

(* The identity n of u is stored or held by a request. *)
Known(n, u) ==
  \/ \E i \in identity : i.id = n /\ i.owner = u
  \/ \E r \in Reqs : n \in req[r].id /\ u \in req[r].for

(* The primary e-mail identity n of u, likewise, and its address. *)
Primary(n, u, a) ==
  \/ \E i \in identity : i.id = n /\ i.owner = u /\ i.address = a /\ i.primary
  \/ \E r \in Reqs : /\ req[r].op = "password" /\ n \in req[r].id
                     /\ u \in req[r].for /\ req[r].address = a

Creating(r) == req[r].pc = "identity"

Removing(r) == req[r].op = "unlink" /\ req[r].pc = "remove"

(* Where a request can be, and the ids it can hold. *)
RequestsOK ==
  /\ req \in [Reqs -> Request]
  /\ \A r \in Reqs :
       /\ Single(req[r].for) /\ Single(req[r].id)
       /\ req[r].id # {} => req[r].for # {}
       /\ req[r].pc \in {"user", "identity"} => Creates(req[r].op) /\ req[r].address # NoAddress
       /\ Creating(r) => req[r].for # {} /\ req[r].id = {}
       /\ req[r].op = "unlink" => req[r].id # {}
       /\ req[r].op = "link" => req[r].pc \in Kinds

(* An identity has one owner for ever, and no id is given out twice. *)
IdsOK ==
  /\ \A n \in Ids, u, v \in Uids : Known(n, u) /\ Known(n, v) => u = v
  /\ \A n \in Ids, u \in Uids : Known(n, u) => n \in used

(* One user per address: the unique index of users.email. *)
AddressesOK == \A u, v \in Uids : user[u] = user[v] /\ Exists(u) => u = v

(* A user who is being created is created by one request, and has no primary *)
(* identity yet.                                                             *)
CreationsOK ==
  \A r \in Reqs : \A u \in req[r].for : Creating(r) =>
    /\ user[u] = req[r].address
    /\ \A q \in Reqs : Creating(q) /\ u \in req[q].for => q = r
    /\ \A n \in Ids, a \in Addresses \cup {NoAddress} : ~Primary(n, u, a)

(* A user has one primary identity, with the address of the user. *)
PrimariesOK ==
  \A n, m \in Ids, u \in Uids, a, b \in Addresses \cup {NoAddress} :
    Primary(n, u, a) /\ Primary(m, u, b) => n = m /\ a = user[u] /\ Exists(u)

(* A removal leaves its user another identity, unless removals overlapped. *)
RemovalsOK ==
  \A r \in Reqs : \A u \in req[r].for : Removing(r) /\ u \notin overlapped =>
    /\ \A q \in Reqs : Removing(q) /\ u \in req[q].for => q = r
    /\ \E i \in identity : i.owner = u /\ i.id \notin req[r].id

(* Who has no identity is being created, was abandoned so, or lost two at one *)
(* time.                                                                     *)
OwnersOK ==
  \A u \in Uids :
    Exists(u) /\ OwnedBy(u) = {}
      => \/ u \in abandoned \cup overlapped
         \/ \E r \in Reqs : req[r].pc = "identity" /\ u \in req[r].for

IInv ==
  /\ TypeOK /\ RequestsOK /\ IdsOK
  /\ AddressesOK /\ CreationsOK /\ PrimariesOK
  /\ RemovalsOK /\ OwnersOK

----------------------------------------------------------------------------
(* Lemmas about sets and requests *)

LEMMA SingleCardinality ==
  ASSUME NEW S, Single(S)
  PROVE  Cardinality(S) <= 1
<1>1. CASE S = {}
  BY <1>1, FS_EmptySet
<1>2. CASE S # {}
  <2>1. PICK x : S = {x}
    BY <1>2 DEF Single
  <2> QED
    BY <2>1, FS_Singleton
<1> QED
  BY <1>1, <1>2

LEMMA TwoMembers ==
  ASSUME NEW S, Cardinality(S) > 1
  PROVE  \E x, y \in S : x # y
<1> SUFFICES ASSUME Single(S) PROVE FALSE
  BY DEF Single
<1>1. CASE S = {}
  BY <1>1, FS_EmptySet
<1>2. CASE S # {}
  <2>1. PICK x : S = {x}
    BY <1>2 DEF Single
  <2> QED
    BY <2>1, FS_Singleton
<1> QED
  BY <1>1, <1>2

LEMMA RequestTyped ==
  ASSUME NEW q \in Request, Single(q.for)
  PROVE  /\ q.op \in {"none", "register", "pool", "link", "unlink"} \cup Resaves
         /\ q.for \subseteq Uids /\ Cardinality(q.for) <= 1
         /\ q.address \in Addresses \cup {NoAddress} /\ q.id \subseteq Ids
BY SingleCardinality DEF Request

LEMMA IdleFacts ==
  /\ Idle \in Request /\ Idle.op = "none" /\ Idle.pc = "idle"
  /\ Idle.for = {} /\ Idle.id = {} /\ Idle.address = NoAddress
BY DEF Idle, Request

LEMMA DoneEffect ==
  ASSUME RequestsOK, NEW r \in Reqs, Done(r)
  PROVE  /\ req' \in [Reqs -> Request] /\ req'[r] = Idle
         /\ \A q \in Reqs \ {r} : req'[q] = req[q]
BY IdleFacts DEF Done, RequestsOK

LEMMA BecomeEffect ==
  ASSUME RequestsOK, NEW r \in Reqs, NEW op, NEW pc, NEW for, NEW address, NEW id,
         [op |-> op, pc |-> pc, for |-> for, address |-> address, id |-> id] \in Request,
         Become(r, op, pc, for, address, id)
  PROVE  /\ req' \in [Reqs -> Request]
         /\ req'[r].op = op /\ req'[r].pc = pc /\ req'[r].for = for
         /\ req'[r].address = address /\ req'[r].id = id
         /\ \A q \in Reqs \ {r} : req'[q] = req[q]
<1> DEFINE e == [op |-> op, pc |-> pc, for |-> for, address |-> address, id |-> id]
<1>1. req' = [req EXCEPT ![r] = e] /\ e \in Request
  BY DEF Become
<1>2. e.op = op /\ e.pc = pc /\ e.for = for /\ e.address = address /\ e.id = id
  OBVIOUS
<1> HIDE DEF e
<1> QED
  BY <1>1, <1>2 DEF RequestsOK

(* What a request in its new state may be, whatever the step. *)
Sound(q) ==
  /\ Single(q.for) /\ Single(q.id)
  /\ q.id # {} => q.for # {}
  /\ q.pc \in {"user", "identity"} => Creates(q.op) /\ q.address # NoAddress
  /\ q.pc = "identity" => q.for # {} /\ q.id = {}
  /\ q.op = "unlink" => q.id # {}
  /\ q.op = "link" => q.pc \in Kinds

LEMMA RequestsStep ==
  ASSUME RequestsOK, NEW r \in Reqs, req' \in [Reqs -> Request],
         \A q \in Reqs \ {r} : req'[q] = req[q], Sound(req'[r])
  PROVE  RequestsOK'
BY DEF RequestsOK, Sound, Creating, Removing

(* Rows and histories in their types make TypeOK. *)
LEMMA TypeStep ==
  ASSUME TypeOK, RequestsOK', user' \in [Uids -> Addresses \cup {NoAddress}], identity' \subseteq Row,
         \A i, j \in identity' : i.id = j.id => i = j,
         {i.id : i \in identity'} \subseteq used', used' \subseteq Ids,
         members' \subseteq Uids, signedUp' \subseteq Uids, abandoned' \cup overlapped' \subseteq Uids
  PROVE  TypeOK'
<1>1. \A r \in Reqs : req'[r] \in Request /\ Single(req'[r].for)
  BY DEF RequestsOK
<1>2. \A r \in Reqs :
        /\ req'[r].op \in {"none", "register", "pool", "link", "unlink"} \cup Resaves
        /\ req'[r].for \subseteq Uids /\ Cardinality(req'[r].for) <= 1
        /\ req'[r].address \in Addresses \cup {NoAddress} /\ req'[r].id \subseteq Ids
  BY <1>1, RequestTyped
<1> QED
  BY <1>2 DEF TypeOK

----------------------------------------------------------------------------
(* Steps that leave the tables users and identities alone *)

(* A request's new copy is one that is known already. *)
LEMMA QuietStep ==
  ASSUME IInv, NEW r \in Reqs, req' \in [Reqs -> Request],
         \A q \in Reqs \ {r} : req'[q] = req[q],
         UNCHANGED <<user, identity, used>>, Sound(req'[r]), req'[r].pc # "identity",
         ~(req'[r].op = "unlink" /\ req'[r].pc = "remove"),
         \A n \in req'[r].id, u \in req'[r].for :
           /\ Known(n, u)
           /\ req'[r].op = "password" => Primary(n, u, req'[r].address),
         Creating(r) => req[r].for \subseteq abandoned',
         abandoned \subseteq abandoned', overlapped \subseteq overlapped',
         abandoned' \cup overlapped' \subseteq Uids, members' \subseteq Uids, signedUp' \subseteq Uids
  PROVE  IInv'
<1>1. RequestsOK'
  BY RequestsStep DEF IInv
<1>2. TypeOK'
  BY <1>1, TypeStep DEF IInv, TypeOK
<1>3. \A n, u : Known(n, u)' => Known(n, u)
  BY DEF Known
<1>4. \A n, u, a : Primary(n, u, a)' => Primary(n, u, a)
  BY DEF Primary
<1>5. IdsOK'
  BY <1>3 DEF IInv, IdsOK
<1>6. AddressesOK'
  BY DEF IInv, AddressesOK, Exists
<1>7. CreationsOK'
  <2> SUFFICES ASSUME NEW q \in Reqs, NEW u \in req'[q].for, Creating(q)'
               PROVE  /\ user'[u] = req'[q].address
                      /\ \A p \in Reqs : Creating(p)' /\ u \in req'[p].for => p = q
                      /\ \A n \in Ids, a \in Addresses \cup {NoAddress} : ~Primary(n, u, a)'
    BY DEF CreationsOK
  <2>1. Creating(q) /\ req'[q] = req[q]
    BY DEF Creating
  <2>2. /\ user[u] = req[q].address
        /\ \A p \in Reqs : Creating(p) /\ u \in req[p].for => p = q
        /\ \A n \in Ids, a \in Addresses \cup {NoAddress} : ~Primary(n, u, a)
    BY <2>1 DEF IInv, CreationsOK
  <2>3. \A p \in Reqs : Creating(p)' /\ u \in req'[p].for => p = q
    BY <2>2 DEF Creating
  <2> QED
    BY <1>4, <2>1, <2>2, <2>3
<1>8. PrimariesOK'
  BY <1>4 DEF IInv, PrimariesOK, Exists
<1>9. RemovalsOK'
  <2> SUFFICES ASSUME NEW q \in Reqs, NEW u \in req'[q].for, Removing(q)', u \notin overlapped'
               PROVE  /\ \A p \in Reqs : Removing(p)' /\ u \in req'[p].for => p = q
                      /\ \E i \in identity' : i.owner = u /\ i.id \notin req'[q].id
    BY DEF RemovalsOK
  <2>1. Removing(q) /\ req'[q] = req[q] /\ u \notin overlapped
    BY DEF Removing
  <2>2. /\ \A p \in Reqs : Removing(p) /\ u \in req[p].for => p = q
        /\ \E i \in identity : i.owner = u /\ i.id \notin req[q].id
    BY <2>1 DEF IInv, RemovalsOK
  <2>3. \A p \in Reqs : Removing(p)' /\ u \in req'[p].for => p = q
    BY <2>2 DEF Removing
  <2> QED
    BY <2>1, <2>2, <2>3
<1>10. OwnersOK'
  BY DEF IInv, OwnersOK, Creating, Exists, OwnedBy
<1> QED
  BY <1>1, <1>2, <1>5, <1>6, <1>7, <1>8, <1>9, <1>10 DEF IInv

LEMMA DoneStep ==
  ASSUME IInv, NEW r \in Reqs, Done(r), UNCHANGED <<user, identity, used>>,
         Creating(r) => req[r].for \subseteq abandoned',
         abandoned \subseteq abandoned', overlapped \subseteq overlapped',
         abandoned' \cup overlapped' \subseteq Uids, members' \subseteq Uids, signedUp' \subseteq Uids
  PROVE  IInv'
<1>1. /\ req' \in [Reqs -> Request] /\ req'[r] = Idle
      /\ \A q \in Reqs \ {r} : req'[q] = req[q]
  BY DoneEffect DEF IInv
<1>2. Sound(Idle)
  BY IdleFacts DEF Sound, Single
<1> QED
  BY <1>1, <1>2, IdleFacts, QuietStep

LEMMA BecomeStep ==
  ASSUME IInv, NEW r \in Reqs, ~Creating(r),
         NEW op, NEW pc, NEW for, NEW address, NEW id,
         [op |-> op, pc |-> pc, for |-> for, address |-> address, id |-> id] \in Request,
         Become(r, op, pc, for, address, id),
         UNCHANGED <<user, rows, members, signedUp, history>>,
         Single(for), Single(id), id # {} => for # {},
         pc = "user" => Creates(op) /\ address # NoAddress,
         pc # "identity", op = "unlink" => id # {} /\ pc # "remove", op = "link" => pc \in Kinds,
         \A n \in id, u \in for :
           /\ Known(n, u)
           /\ op = "password" => Primary(n, u, address)
  PROVE  IInv'
<1>1. /\ req' \in [Reqs -> Request]
      /\ req'[r].op = op /\ req'[r].pc = pc /\ req'[r].for = for
      /\ req'[r].address = address /\ req'[r].id = id
      /\ \A q \in Reqs \ {r} : req'[q] = req[q]
  BY BecomeEffect DEF IInv
<1>2. Sound(req'[r])
  BY <1>1 DEF Sound
<1>3. /\ UNCHANGED <<user, identity, used>>
      /\ abandoned \subseteq abandoned' /\ overlapped \subseteq overlapped'
      /\ abandoned' \cup overlapped' \subseteq Uids /\ members' \subseteq Uids /\ signedUp' \subseteq Uids
  BY DEF rows, history, IInv, TypeOK
<1>4. ASSUME NEW n \in req'[r].id, NEW u \in req'[r].for
      PROVE  Known(n, u) /\ (req'[r].op = "password" => Primary(n, u, req'[r].address))
  <2>1. n \in id /\ u \in for /\ req'[r].op = op /\ req'[r].address = address
    BY <1>1, <1>4
  <2>2. Known(n, u) /\ (op = "password" => Primary(n, u, address))
    BY <2>1, Zenon
  <2> QED
    BY <2>1, <2>2 DEF Primary
<1> HIDE DEF Sound
<1> QED
  BY <1>1, <1>2, <1>3, <1>4, QuietStep

(* Begin, AddToPool and Link hold no identity. *)
LEMMA StartSteps ==
  ASSUME IInv, NEW r \in Reqs,
         \/ \E a \in Addresses : Begin(r, "register", a) \/ Begin(r, "pool", a)
         \/ \E i \in identity : AddToPool(r, i)
         \/ \E u \in Uids, kind \in Kinds, a \in Addresses : Link(r, u, kind, a)
  PROVE  IInv'
<1>1. ASSUME req[r] = Idle PROVE ~Creating(r)
  BY <1>1, IdleFacts DEF Creating
<1>2. ASSUME NEW a \in Addresses, NEW op \in {"register", "pool"}, Begin(r, op, a) PROVE IInv'
  <2>1. [op |-> op, pc |-> "user", for |-> {}, address |-> a, id |-> {}] \in Request
    BY DEF Request
  <2>2. /\ Become(r, op, "user", {}, a, {}) /\ UNCHANGED <<user, rows, members, signedUp, history>>
        /\ ~Creating(r)
    BY <1>1, <1>2 DEF Begin
  <2>3. Single({}) /\ Creates(op) /\ a # NoAddress
    BY AccountsAssumption DEF Single, Creates
  <2> QED
    BY <2>1, <2>2, <2>3, BecomeStep
<1>3. ASSUME NEW i \in identity, AddToPool(r, i) PROVE IInv'
  <2> PICK u \in Uids : u = i.owner
    BY DEF IInv, TypeOK, Row
  <2>1. [op |-> "pool", pc |-> "member", for |-> {u}, address |-> NoAddress, id |-> {}] \in Request
    BY DEF Request
  <2>2. /\ Become(r, "pool", "member", {u}, NoAddress, {})
        /\ UNCHANGED <<user, rows, members, signedUp, history>> /\ ~Creating(r)
    BY <1>1, <1>3 DEF AddToPool
  <2>3. Single({}) /\ Single({u})
    BY DEF Single
  <2>4. PICK op, pc : op = "pool" /\ pc = "member"
    OBVIOUS
  <2>5. /\ [op |-> op, pc |-> pc, for |-> {u}, address |-> NoAddress, id |-> {}] \in Request
        /\ Become(r, op, pc, {u}, NoAddress, {})
        /\ op # "link" /\ op # "unlink" /\ op # "password" /\ pc # "user" /\ pc # "identity"
    BY <2>1, <2>2, <2>4
  <2>6. \A m \in {}, v \in {u} : Known(m, v) /\ (op = "password" => Primary(m, v, NoAddress))
    OBVIOUS
  <2> QED
    BY <2>2, <2>3, <2>5, <2>6, BecomeStep
<1>4. ASSUME NEW u \in Uids, NEW kind \in Kinds, NEW a \in Addresses, Link(r, u, kind, a) PROVE IInv'
  <2> PICK b \in Addresses \cup {NoAddress} : b = IF kind = "email" THEN a ELSE NoAddress
    OBVIOUS
  <2>1. [op |-> "link", pc |-> kind, for |-> {u}, address |-> b, id |-> {}] \in Request
    BY DEF Request, Kinds
  <2>2. /\ Become(r, "link", kind, {u}, b, {})
        /\ UNCHANGED <<user, rows, members, signedUp, history>> /\ ~Creating(r)
    BY <1>1, <1>4 DEF Link
  <2>3. Single({}) /\ Single({u}) /\ kind # "user" /\ kind # "identity"
    BY DEF Single, Kinds
  <2>4. PICK op : op = "link"
    OBVIOUS
  <2>5. /\ [op |-> op, pc |-> kind, for |-> {u}, address |-> b, id |-> {}] \in Request
        /\ Become(r, op, kind, {u}, b, {}) /\ op # "unlink" /\ op # "password"
    BY <2>1, <2>2, <2>4
  <2>6. \A m \in {}, v \in {u} : Known(m, v) /\ (op = "password" => Primary(m, v, b))
    OBVIOUS
  <2> QED
    BY <2>2, <2>3, <2>5, <2>6, BecomeStep
<1> QED
  BY <1>2, <1>3, <1>4

(* The finds of an unlink, a password change and an SMS sign-in copy a row. *)
LEMMA FindSteps ==
  ASSUME IInv, NEW r \in Reqs, NEW u \in Uids, NEW i \in identity,
         UnlinkFind(r, u, i) \/ PasswordFind(r, u, i) \/ PhoneFind(r, u, i)
  PROVE  IInv'
<1>1. /\ req[r] = Idle /\ i.owner = u /\ i \in Row
      /\ UNCHANGED <<user, rows, members, signedUp, history>>
  BY DEF UnlinkFind, PasswordFind, PhoneFind, OwnedBy, IInv, TypeOK
<1>2. ~Creating(r)
  BY <1>1, IdleFacts DEF Creating
<1>3. \/ Become(r, "unlink", "count", {u}, NoAddress, {i.id})
      \/ i.primary /\ Become(r, "password", "select", {u}, i.address, {i.id})
      \/ Become(r, "phone", "select", {u}, NoAddress, {i.id})
  BY DEF UnlinkFind, PasswordFind, PhoneFind
<1>4. PICK op \in {"unlink", "password", "phone"}, pc \in {"count", "select"},
           a \in Addresses \cup {NoAddress} :
        /\ Become(r, op, pc, {u}, a, {i.id})
        /\ op = "password" => i.primary /\ a = i.address
  BY <1>1, <1>3 DEF Row
<1>5. PICK n \in Ids : n = i.id
  BY <1>1 DEF Row
<1>6. [op |-> op, pc |-> pc, for |-> {u}, address |-> a, id |-> {n}] \in Request
  BY DEF Request, Resaves
<1>7. Become(r, op, pc, {u}, a, {n})
  BY <1>4, <1>5
<1>8. Known(n, u) /\ (op = "password" => Primary(n, u, a))
  BY <1>1, <1>4, <1>5 DEF Known, Primary
<1>9. \A m \in {n}, v \in {u} : Known(m, v) /\ (op = "password" => Primary(m, v, a))
  BY <1>8
<1>10. /\ Single({u}) /\ Single({n}) /\ {u} # {}
       /\ pc # "user" /\ pc # "identity" /\ ~(op = "unlink" /\ pc = "remove")
  BY DEF Single
<1>11. UNCHANGED <<user, rows, members, signedUp, history>>
  BY <1>1
<1> QED
  BY <1>2, <1>6, <1>7, <1>9, <1>10, <1>11, BecomeStep

LEMMA IdentitySelectStep ==
  ASSUME IInv, NEW r \in Reqs, IdentitySelect(r)
  PROVE  IInv'
<1> DEFINE pc == IF \A n \in req[r].id : Stored(n) THEN "update" ELSE "insert"
           e == [req[r] EXCEPT !.pc = pc]
<1>1. /\ req[r].op \in Resaves /\ req[r].pc = "select" /\ req[r] \in Request
      /\ req' = [req EXCEPT ![r].pc = pc] /\ UNCHANGED <<user, rows, members, signedUp, history>>
  BY DEF IdentitySelect, IInv, RequestsOK
<1>2. pc \in {"update", "insert"}
  OBVIOUS
<1> HIDE DEF pc
<1>3. /\ e \in Request /\ e.op = req[r].op /\ e.pc = pc /\ e.for = req[r].for
      /\ e.address = req[r].address /\ e.id = req[r].id
  BY <1>1, <1>2 DEF Request
<1>4. req' = [req EXCEPT ![r] = e]
  BY <1>1 DEF IInv, RequestsOK
<1> HIDE DEF e
<1>5. /\ req' \in [Reqs -> Request] /\ req'[r] = e
      /\ \A q \in Reqs \ {r} : req'[q] = req[q]
  BY <1>3, <1>4 DEF IInv, RequestsOK
<1>6. Sound(e) /\ e.pc # "identity" /\ ~(e.op = "unlink" /\ e.pc = "remove")
  BY <1>1, <1>2, <1>3 DEF Sound, IInv, RequestsOK, Resaves
<1>7. \A n \in e.id, u \in e.for :
        Known(n, u) /\ (e.op = "password" => Primary(n, u, e.address))
  BY <1>1, <1>3 DEF Known, Primary
<1>8. /\ UNCHANGED <<user, identity, used>> /\ ~Creating(r)
      /\ abandoned \subseteq abandoned' /\ overlapped \subseteq overlapped'
      /\ abandoned' \cup overlapped' \subseteq Uids /\ members' \subseteq Uids /\ signedUp' \subseteq Uids
  BY <1>1 DEF rows, history, IInv, TypeOK, Creating
<1> QED
  BY <1>5, <1>6, <1>7, <1>8, QuietStep

(* Requests that end. *)
LEMMA EndSteps ==
  ASSUME IInv, NEW r \in Reqs,
         \/ InsertRefused(r) \/ InsertMember(r) \/ IdentityUpdate(r) \/ Fail(r)
         \/ \E u \in Uids : HandToken(r, u)
  PROVE  IInv'
<1>1. Done(r) /\ UNCHANGED <<user, identity, used>> /\ overlapped' = overlapped
  BY DEF InsertRefused, InsertMember, IdentityUpdate, Fail, HandToken, rows, history
<1>2. req[r].for \subseteq Uids /\ members \subseteq Uids /\ signedUp \subseteq Uids
      /\ abandoned \cup overlapped \subseteq Uids
  BY DEF IInv, TypeOK
<1>3. /\ members' \subseteq Uids /\ signedUp' \subseteq Uids
      /\ abandoned \subseteq abandoned' /\ abandoned' \cup overlapped' \subseteq Uids
  BY <1>2 DEF InsertRefused, InsertMember, IdentityUpdate, Fail, HandToken, history
<1>4. Creating(r) => req[r].for \subseteq abandoned'
  BY DEF InsertRefused, InsertMember, IdentityUpdate, Fail, HandToken, Creating, At
<1> QED
  BY <1>1, <1>3, <1>4, DoneStep

(* Logins, and steps that change nothing. *)
LEMMA StillSteps ==
  ASSUME IInv, UNCHANGED vars \/ \E u \in Uids : Login(u)
  PROVE  IInv'
<1>1. UNCHANGED <<user, identity, used, req, abandoned, overlapped, members>> /\ signedUp' \subseteq Uids
  BY DEF Login, vars, rows, history, IInv, TypeOK
<1>2. TypeOK'
  BY <1>1 DEF IInv, TypeOK
<1>3. RequestsOK'
  BY <1>1 DEF IInv, RequestsOK, Creating, Removing
<1>4. (\A n, u : Known(n, u)' <=> Known(n, u)) /\ (\A n, u, a : Primary(n, u, a)' <=> Primary(n, u, a))
  BY <1>1 DEF Known, Primary
<1>5. IdsOK' /\ AddressesOK' /\ PrimariesOK'
  BY <1>1, <1>4 DEF IInv, IdsOK, AddressesOK, PrimariesOK, Exists
<1>6. CreationsOK'
  BY <1>1, <1>4 DEF IInv, CreationsOK, Creating
<1>7. RemovalsOK' /\ OwnersOK'
  BY <1>1 DEF IInv, RemovalsOK, Removing, OwnersOK, Exists, OwnedBy
<1> QED
  BY <1>2, <1>3, <1>5, <1>6, <1>7 DEF IInv

----------------------------------------------------------------------------
(* Steps that write *)

(* A new user has an address of its own, and no identity yet: not even one   *)
(* that some request knows, since the owners of those exist.                 *)
LEMMA InsertUserStep ==
  ASSUME IInv, NEW r \in Reqs, NEW u \in Uids, InsertUser(r, u)
  PROVE  IInv'
<1> DEFINE a == req[r].address
<1>1. /\ req[r].pc = "user" /\ ~Exists(u) /\ \A v \in Uids : user[v] # a
      /\ user' = [user EXCEPT ![u] = a] /\ Become(r, req[r].op, "identity", {u}, a, {})
      /\ UNCHANGED <<identity, used, members, signedUp, abandoned, overlapped>>
  BY DEF InsertUser, AddressFree, rows, history
<1>2. /\ req[r] \in Request /\ Creates(req[r].op) /\ a # NoAddress
      /\ user \in [Uids -> Addresses \cup {NoAddress}]
  BY <1>1 DEF IInv, RequestsOK, TypeOK
<1>3. /\ user' \in [Uids -> Addresses \cup {NoAddress}] /\ user'[u] = a
      /\ \A v \in Uids \ {u} : user'[v] = user[v]
  BY <1>1, <1>2 DEF Request
<1>4. /\ req' \in [Reqs -> Request]
      /\ req'[r].op = req[r].op /\ req'[r].pc = "identity" /\ req'[r].for = {u}
      /\ req'[r].address = a /\ req'[r].id = {}
      /\ \A q \in Reqs \ {r} : req'[q] = req[q]
  <2>1. [op |-> req[r].op, pc |-> "identity", for |-> {u}, address |-> a, id |-> {}] \in Request
    BY <1>2 DEF Request
  <2> QED
    BY <1>1, <2>1, BecomeEffect DEF IInv
<1> HIDE DEF a
<1>5. RequestsOK'
  <2>1. Sound(req'[r])
    BY <1>2, <1>4 DEF Sound, Single, Creates
  <2> QED
    BY <1>4, <2>1, RequestsStep DEF IInv
<1>6. TypeOK'
  BY <1>1, <1>3, <1>5, TypeStep DEF IInv, TypeOK
<1>7. /\ \A n, v : Known(n, v)' => Known(n, v)
      /\ \A n, v, b : Primary(n, v, b)' => Primary(n, v, b)
  BY <1>1, <1>2, <1>4 DEF Known, Primary, Creates
<1>8. \A n \in Ids, b \in Addresses \cup {NoAddress} : ~Primary(n, u, b)
  BY <1>1 DEF IInv, PrimariesOK
<1>9. \A q \in Reqs : Creating(q) => u \notin req[q].for
  BY <1>1 DEF IInv, CreationsOK, RequestsOK, Exists, Creating
<1>10. IdsOK'
  BY <1>1, <1>7 DEF IInv, IdsOK
<1>11. AddressesOK'
  BY <1>1, <1>3 DEF IInv, AddressesOK, Exists
<1>12. CreationsOK'
  <2> SUFFICES ASSUME NEW q \in Reqs, NEW v \in req'[q].for, Creating(q)'
               PROVE  /\ user'[v] = req'[q].address
                      /\ \A p \in Reqs : Creating(p)' /\ v \in req'[p].for => p = q
                      /\ \A n \in Ids, b \in Addresses \cup {NoAddress} : ~Primary(n, v, b)'
    BY DEF CreationsOK
  <2>1. CASE q = r
    <3>1. v = u
      BY <1>4, <2>1
    <3>2. \A p \in Reqs : Creating(p)' /\ v \in req'[p].for => p = q
      BY <1>4, <1>9, <2>1, <3>1 DEF Creating
    <3> QED
      BY <1>3, <1>4, <1>7, <1>8, <2>1, <3>1, <3>2
  <2>2. CASE q # r
    <3>1. Creating(q) /\ req'[q] = req[q] /\ v # u
      BY <1>4, <1>9, <2>2 DEF Creating
    <3>2. /\ user[v] = req[q].address /\ v \in Uids
          /\ \A p \in Reqs : Creating(p) /\ v \in req[p].for => p = q
          /\ \A n \in Ids, b \in Addresses \cup {NoAddress} : ~Primary(n, v, b)
      BY <3>1 DEF IInv, CreationsOK, RequestsOK, Request
    <3>3. \A p \in Reqs : Creating(p)' /\ v \in req'[p].for => p = q
      BY <1>4, <3>1, <3>2 DEF Creating
    <3> QED
      BY <1>3, <1>7, <3>1, <3>2, <3>3
  <2> QED
    BY <2>1, <2>2
<1>13. PrimariesOK'
  BY <1>3, <1>7, <1>8 DEF IInv, PrimariesOK, Exists
<1>14. RemovalsOK'
  BY <1>1, <1>2, <1>4 DEF IInv, RemovalsOK, Removing, Creates
<1>15. OwnersOK'
  BY <1>1, <1>3, <1>4 DEF IInv, OwnersOK, Exists, OwnedBy
<1> QED
  BY <1>5, <1>6, <1>10, <1>11, <1>12, <1>13, <1>14, <1>15 DEF IInv

(* A row with a fresh id is added for u, and the request's own copies and    *)
(* its creation, if it is one, are over.                                     *)
LEMMA AddStep ==
  ASSUME IInv, NEW r \in Reqs, NEW u \in req[r].for, NEW n \in Ids \ used, NEW row \in Row,
         row.id = n, row.owner = u,
         row.primary => Creating(r) /\ row.address = req[r].address,
         req' \in [Reqs -> Request], \A q \in Reqs \ {r} : req'[q] = req[q],
         Sound(req'[r]), req'[r].id = {}, req'[r].pc # "identity",
         identity' = identity \cup {row}, used' = used \cup {n},
         UNCHANGED <<user, members, signedUp, abandoned, overlapped>>
  PROVE  IInv'
<1>1. RequestsOK'
  BY RequestsStep DEF IInv
<1>2. \A v \in Uids : ~Known(n, v)
  BY DEF IInv, IdsOK
<1>3. u \in Uids /\ Single(req[r].for)
  BY DEF IInv, RequestsOK, Request
<1>4. TypeOK'
  <2>1. \A i \in identity : i.id # n
    BY DEF IInv, TypeOK
  <2>2. \A i, j \in identity' : i.id = j.id => i = j
    BY <2>1 DEF IInv, TypeOK
  <2>3. {i.id : i \in identity'} \subseteq used'
    BY DEF IInv, TypeOK
  <2> QED
    BY <1>1, <2>2, <2>3, TypeStep DEF IInv, TypeOK
<1>5. \A m, v : Known(m, v)' => Known(m, v) \/ (m = n /\ v = u)
  BY DEF Known
<1>6. \A m, v, b :
        Primary(m, v, b)' =>
          Primary(m, v, b) \/ (m = n /\ v = u /\ b = row.address /\ row.primary)
  BY DEF Primary
<1>7. row.primary => /\ user[u] = row.address /\ user[u] # NoAddress
                     /\ \A m \in Ids, b \in Addresses \cup {NoAddress} : ~Primary(m, u, b)
                     /\ \A q \in Reqs \ {r} : Creating(q) => u \notin req[q].for
  BY DEF IInv, CreationsOK, RequestsOK, Creating
<1>8. IdsOK'
  BY <1>2, <1>5 DEF IInv, IdsOK
<1>9. AddressesOK'
  BY DEF IInv, AddressesOK, Exists
<1>10. CreationsOK'
  <2> SUFFICES ASSUME NEW q \in Reqs, NEW v \in req'[q].for, Creating(q)'
               PROVE  /\ user'[v] = req'[q].address
                      /\ \A p \in Reqs : Creating(p)' /\ v \in req'[p].for => p = q
                      /\ \A m \in Ids, b \in Addresses \cup {NoAddress} : ~Primary(m, v, b)'
    BY DEF CreationsOK
  <2>1. q # r /\ Creating(q) /\ req'[q] = req[q]
    BY DEF Creating
  <2>2. /\ user[v] = req[q].address
        /\ \A p \in Reqs : Creating(p) /\ v \in req[p].for => p = q
        /\ \A m \in Ids, b \in Addresses \cup {NoAddress} : ~Primary(m, v, b)
    BY <2>1 DEF IInv, CreationsOK
  <2>3. \A p \in Reqs : Creating(p)' /\ v \in req'[p].for => p = q
    BY <2>2 DEF Creating
  <2>4. row.primary => v # u
    BY <1>7, <2>1
  <2> QED
    BY <1>6, <2>1, <2>2, <2>3, <2>4
<1>11. PrimariesOK'
  BY <1>6, <1>7 DEF IInv, PrimariesOK, Exists
<1>12. RemovalsOK'
  <2> SUFFICES ASSUME NEW q \in Reqs, NEW v \in req'[q].for, Removing(q)', v \notin overlapped'
               PROVE  /\ \A p \in Reqs : Removing(p)' /\ v \in req'[p].for => p = q
                      /\ \E i \in identity' : i.owner = v /\ i.id \notin req'[q].id
    BY DEF RemovalsOK
  <2>1. q # r /\ Removing(q) /\ req'[q] = req[q] /\ v \notin overlapped
    BY <1>1 DEF Removing, RequestsOK
  <2>2. /\ \A p \in Reqs : Removing(p) /\ v \in req[p].for => p = q
        /\ \E i \in identity : i.owner = v /\ i.id \notin req[q].id
    BY <2>1 DEF IInv, RemovalsOK
  <2>3. req'[r].id = {} => ~Removing(r)'
    BY <1>1 DEF RequestsOK, Removing
  <2>4. \A p \in Reqs : Removing(p)' /\ v \in req'[p].for => p = q
    BY <2>2, <2>3 DEF Removing
  <2> QED
    BY <2>1, <2>2, <2>4
<1>13. OwnersOK'
  <2> SUFFICES ASSUME NEW v \in Uids, user'[v] # NoAddress, ~\E i \in identity' : i.owner = v,
                      v \notin abandoned' \cup overlapped'
               PROVE  \E q \in Reqs : req'[q].pc = "identity" /\ v \in req'[q].for
    BY DEF OwnersOK, Exists, OwnedBy
  <2>1. v # u
    OBVIOUS
  <2>2. PICK q \in Reqs : req[q].pc = "identity" /\ v \in req[q].for
    BY DEF IInv, OwnersOK, Exists, OwnedBy
  <2>3. q # r
    BY <1>3, <2>1, <2>2 DEF Single
  <2> QED
    BY <2>2, <2>3
<1> QED
  BY <1>1, <1>4, <1>8, <1>9, <1>10, <1>11, <1>12, <1>13 DEF IInv

LEMMA InsertSteps ==
  ASSUME IInv, NEW r \in Reqs, NEW u \in Uids, NEW n \in Ids,
         InsertIdentity(r, u, n) \/ InsertLink(r, u, n)
  PROVE  IInv'
<1>1. u \in req[r].for /\ n \in Ids \ used /\ req[r] \in Request
  BY DEF InsertIdentity, InsertLink, Unused, IInv, RequestsOK
<1>2. /\ used' = used \cup {n}
      /\ UNCHANGED <<user, members, signedUp, abandoned, overlapped>>
  BY DEF InsertIdentity, InsertLink, history
<1>3. CASE InsertIdentity(r, u, n)
  <2> DEFINE pc == IF req[r].op = "pool" THEN "member" ELSE "session"
  <2>1. PICK row : row = [id |-> n, owner |-> u, kind |-> "email", address |-> req[r].address, primary |-> TRUE]
    OBVIOUS
  <2>2. row \in Row /\ row.id = n /\ row.owner = u /\ row.address = req[r].address
    BY <1>1, <2>1 DEF Row, Kinds, Request
  <2>3. /\ identity' = identity \cup {row} /\ Creating(r)
        /\ Become(r, req[r].op, pc, {u}, NoAddress, {})
    BY <1>3, <2>1 DEF InsertIdentity, Creating
  <2>4. pc \in {"member", "session"}
    OBVIOUS
  <2> HIDE DEF pc
  <2>5. [op |-> req[r].op, pc |-> pc, for |-> {u}, address |-> NoAddress, id |-> {}] \in Request
    BY <1>1, <2>4 DEF Request
  <2>6. /\ req' \in [Reqs -> Request] /\ \A q \in Reqs \ {r} : req'[q] = req[q]
        /\ req'[r].op = req[r].op /\ req'[r].pc = pc /\ req'[r].for = {u} /\ req'[r].id = {}
    BY <2>3, <2>5, BecomeEffect DEF IInv
  <2>7. req[r].op # "link" /\ req[r].op # "unlink"
    BY <2>3 DEF IInv, RequestsOK, Creating, Creates
  <2>8. Sound(req'[r]) /\ req'[r].pc # "identity"
    BY <2>4, <2>6, <2>7 DEF Sound, Single
  <2> QED
    BY <1>1, <1>2, <2>2, <2>3, <2>6, <2>8, AddStep
<1>4. CASE InsertLink(r, u, n)
  <2>1. PICK row : row = [id |-> n, owner |-> u, kind |-> req[r].pc, address |-> req[r].address,
                          primary |-> FALSE]
    OBVIOUS
  <2>2. row.id = n /\ row.owner = u /\ ~row.primary
    BY <2>1
  <2>3. identity' = identity \cup {row} /\ Done(r) /\ req[r].op = "link"
    BY <1>4, <2>1 DEF InsertLink
  <2>4. row \in Row
    BY <1>1, <2>1, <2>3 DEF Row, Kinds, Request, IInv, RequestsOK
  <2>5. /\ req' \in [Reqs -> Request] /\ \A q \in Reqs \ {r} : req'[q] = req[q]
        /\ req'[r] = Idle
    BY <2>3, DoneEffect DEF IInv
  <2>6. Sound(req'[r]) /\ req'[r].pc # "identity" /\ req'[r].id = {}
    BY <2>5, IdleFacts DEF Sound, Single
  <2> QED
    BY <1>1, <1>2, <2>2, <2>3, <2>4, <2>5, <2>6, AddStep
<1> QED
  BY <1>3, <1>4

(* The count finds a second identity, which the removal will leave. *)
LEMMA UnlinkCountStep ==
  ASSUME IInv, NEW r \in Reqs, NEW u \in Uids, UnlinkCount(r, u)
  PROVE  IInv'
<1>1. /\ req[r].op = "unlink" /\ req[r].pc = "count" /\ u \in req[r].for /\ req[r] \in Request
      /\ UNCHANGED <<user, identity, used, members, signedUp, abandoned>>
      /\ req[r].id # {} /\ Single(req[r].id)
  BY DEF UnlinkCount, At, rows, IInv, RequestsOK
<1>2. CASE ~HasAnother(u)
  BY <1>1, <1>2, DoneStep DEF UnlinkCount, Creating, IInv, TypeOK
<1>3. CASE HasAnother(u)
  <2>1. /\ Become(r, "unlink", "remove", {u}, NoAddress, req[r].id)
        /\ overlapped' = IF \E q \in Reqs : At(q, "unlink", "remove") /\ req[q].for = {u}
                         THEN overlapped \cup {u} ELSE overlapped
    BY <1>3 DEF UnlinkCount
  <2>2. [op |-> "unlink", pc |-> "remove", for |-> {u}, address |-> NoAddress, id |-> req[r].id] \in Request
    BY <1>1 DEF Request
  <2>3. /\ req' \in [Reqs -> Request]
        /\ req'[r].op = "unlink" /\ req'[r].pc = "remove" /\ req'[r].for = {u}
        /\ req'[r].address = NoAddress /\ req'[r].id = req[r].id
        /\ \A q \in Reqs \ {r} : req'[q] = req[q]
    BY <2>1, <2>2, BecomeEffect DEF IInv
  <2>4. /\ overlapped \subseteq overlapped' /\ overlapped' \subseteq Uids
        /\ \A q \in Reqs : Removing(q) /\ u \in req[q].for => u \in overlapped'
    <3>1. \A q \in Reqs : u \in req[q].for => req[q].for = {u}
      BY DEF IInv, RequestsOK, Single
    <3> QED
      BY <2>1, <3>1 DEF Removing, At, IInv, TypeOK
  <2>5. \E i \in identity : i.owner = u /\ i.id \notin req[r].id
    <3>1. PICK i, j \in OwnedBy(u) : i # j
      BY <1>3, TwoMembers DEF HasAnother
    <3>2. i.id # j.id
      BY <3>1 DEF OwnedBy, IInv, TypeOK
    <3> QED
      BY <1>1, <3>1, <3>2 DEF OwnedBy, Single
  <2>6. RequestsOK'
    <3>1. Sound(req'[r])
      BY <1>1, <2>3 DEF Sound, Single
    <3> QED
      BY <2>3, <3>1, RequestsStep DEF IInv
  <2>7. TypeOK'
    BY <1>1, <2>4, <2>6, TypeStep DEF IInv, TypeOK
  <2>8. /\ \A n, v : Known(n, v)' => Known(n, v)
        /\ \A n, v, b : Primary(n, v, b)' => Primary(n, v, b)
    BY <1>1, <2>3 DEF Known, Primary
  <2>9. IdsOK' /\ AddressesOK' /\ PrimariesOK'
    BY <1>1, <2>8 DEF IInv, IdsOK, AddressesOK, PrimariesOK, Exists
  <2>10. CreationsOK'
    <3> SUFFICES ASSUME NEW q \in Reqs, NEW v \in req'[q].for, Creating(q)'
                 PROVE  /\ user'[v] = req'[q].address
                        /\ \A p \in Reqs : Creating(p)' /\ v \in req'[p].for => p = q
                        /\ \A n \in Ids, b \in Addresses \cup {NoAddress} : ~Primary(n, v, b)'
      BY DEF CreationsOK
    <3>1. Creating(q) /\ req'[q] = req[q]
      BY <2>3 DEF Creating
    <3>2. /\ user[v] = req[q].address
          /\ \A p \in Reqs : Creating(p) /\ v \in req[p].for => p = q
          /\ \A n \in Ids, b \in Addresses \cup {NoAddress} : ~Primary(n, v, b)
      BY <3>1 DEF IInv, CreationsOK
    <3>3. \A p \in Reqs : Creating(p)' /\ v \in req'[p].for => p = q
      BY <2>3, <3>2 DEF Creating
    <3> QED
      BY <1>1, <2>8, <3>1, <3>2, <3>3
  <2>11. RemovalsOK'
    <3> SUFFICES ASSUME NEW q \in Reqs, NEW v \in req'[q].for, Removing(q)', v \notin overlapped'
                 PROVE  /\ \A p \in Reqs : Removing(p)' /\ v \in req'[p].for => p = q
                        /\ \E i \in identity' : i.owner = v /\ i.id \notin req'[q].id
      BY DEF RemovalsOK
    <3>1. CASE q = r
      BY <1>1, <2>3, <2>4, <2>5, <3>1 DEF Removing
    <3>2. CASE q # r
      <4>1. Removing(q) /\ req'[q] = req[q] /\ v \notin overlapped /\ v # u
        BY <2>3, <2>4, <3>2 DEF Removing
      <4>2. /\ \A p \in Reqs : Removing(p) /\ v \in req[p].for => p = q
            /\ \E i \in identity : i.owner = v /\ i.id \notin req[q].id
        BY <4>1 DEF IInv, RemovalsOK
      <4>3. \A p \in Reqs : Removing(p)' /\ v \in req'[p].for => p = q
        BY <2>3, <4>1, <4>2 DEF Removing
      <4> QED
        BY <1>1, <4>1, <4>2, <4>3
    <3> QED
      BY <3>1, <3>2
  <2>12. OwnersOK'
    BY <1>1, <2>3, <2>4 DEF IInv, OwnersOK, Exists, OwnedBy
  <2> QED
    BY <2>6, <2>7, <2>9, <2>10, <2>11, <2>12 DEF IInv
<1> QED
  BY <1>2, <1>3

(* The row that is removed is one of the user who asked, and another stays. *)
LEMMA RemoveStep ==
  ASSUME IInv, NEW r \in Reqs, Remove(r)
  PROVE  IInv'
<1>1. /\ Removing(r) /\ identity' = {i \in identity : i.id \notin req[r].id} /\ Done(r)
      /\ UNCHANGED <<used, user, members, signedUp, abandoned, overlapped>>
  BY DEF Remove, At, Removing, history
<1>2. /\ req' \in [Reqs -> Request] /\ req'[r] = Idle
      /\ \A q \in Reqs \ {r} : req'[q] = req[q]
  BY <1>1, DoneEffect DEF IInv
<1>3. RequestsOK'
  <2>1. Sound(req'[r])
    BY <1>2, IdleFacts DEF Sound, Single
  <2> QED
    BY <1>2, <2>1, RequestsStep DEF IInv
<1>4. TypeOK'
  BY <1>1, <1>3, TypeStep DEF IInv, TypeOK
<1>5. /\ \A n, v : Known(n, v)' => Known(n, v)
      /\ \A n, v, b : Primary(n, v, b)' => Primary(n, v, b)
  BY <1>1, <1>2, IdleFacts DEF Known, Primary
<1>6. IdsOK' /\ AddressesOK' /\ PrimariesOK'
  BY <1>1, <1>5 DEF IInv, IdsOK, AddressesOK, PrimariesOK, Exists
<1>7. \A q \in Reqs : Creating(q)' => q # r
  BY <1>2, IdleFacts DEF Creating
<1>8. CreationsOK'
  <2> SUFFICES ASSUME NEW q \in Reqs, NEW v \in req'[q].for, Creating(q)'
               PROVE  /\ user'[v] = req'[q].address
                      /\ \A p \in Reqs : Creating(p)' /\ v \in req'[p].for => p = q
                      /\ \A n \in Ids, b \in Addresses \cup {NoAddress} : ~Primary(n, v, b)'
    BY DEF CreationsOK
  <2>1. Creating(q) /\ req'[q] = req[q]
    BY <1>2, IdleFacts DEF Creating
  <2>2. /\ user[v] = req[q].address
        /\ \A p \in Reqs : Creating(p) /\ v \in req[p].for => p = q
        /\ \A n \in Ids, b \in Addresses \cup {NoAddress} : ~Primary(n, v, b)
    BY <2>1 DEF IInv, CreationsOK
  <2>3. \A p \in Reqs : Creating(p)' /\ v \in req'[p].for => p = q
    BY <1>2, <2>2, IdleFacts DEF Creating
  <2> QED
    BY <1>1, <1>5, <2>1, <2>2, <2>3
<1>9. \A i \in identity \ identity' : i.owner \in req[r].for /\ i.owner \in Uids
  <2> SUFFICES ASSUME NEW i \in identity, i.id \in req[r].id
               PROVE  i.owner \in req[r].for /\ i.owner \in Uids
    BY <1>1
  <2>1. i.owner \in Uids /\ i.id \in Ids
    BY DEF IInv, TypeOK, Row
  <2>2. PICK v \in req[r].for : v \in Uids
    BY DEF IInv, RequestsOK, Request
  <2>3. Known(i.id, v) /\ Known(i.id, i.owner)
    BY <2>2 DEF Known
  <2> QED
    BY <2>1, <2>2, <2>3 DEF IInv, IdsOK
<1>10. RemovalsOK'
  <2> SUFFICES ASSUME NEW q \in Reqs, NEW v \in req'[q].for, Removing(q)', v \notin overlapped'
               PROVE  /\ \A p \in Reqs : Removing(p)' /\ v \in req'[p].for => p = q
                      /\ \E i \in identity' : i.owner = v /\ i.id \notin req'[q].id
    BY DEF RemovalsOK
  <2>1. Removing(q) /\ req'[q] = req[q] /\ v \notin overlapped /\ q # r
    BY <1>1, <1>2, IdleFacts DEF Removing
  <2>2. /\ \A p \in Reqs : Removing(p) /\ v \in req[p].for => p = q
        /\ \E i \in identity : i.owner = v /\ i.id \notin req[q].id
    BY <2>1 DEF IInv, RemovalsOK
  <2>3. \A p \in Reqs : Removing(p)' /\ v \in req'[p].for => p = q
    BY <1>2, <2>2, IdleFacts DEF Removing
  <2>4. v \notin req[r].for
    BY <1>1, <2>1, <2>2
  <2> QED
    BY <1>9, <2>1, <2>2, <2>3, <2>4
<1>11. OwnersOK'
  <2> SUFFICES ASSUME NEW v \in Uids, user'[v] # NoAddress, ~\E i \in identity' : i.owner = v,
                      v \notin abandoned' \cup overlapped'
               PROVE  \E q \in Reqs : req'[q].pc = "identity" /\ v \in req'[q].for
    BY DEF OwnersOK, Exists, OwnedBy
  <2>1. CASE \E i \in identity : i.owner = v
    <3>1. v \in req[r].for
      BY <1>9, <2>1
    <3>2. PICK i \in identity : i.owner = v /\ i.id \notin req[r].id
      BY <1>1, <3>1 DEF IInv, RemovalsOK
    <3> QED
      BY <1>1, <3>2
  <2>2. CASE ~\E i \in identity : i.owner = v
    <3>1. PICK q \in Reqs : req[q].pc = "identity" /\ v \in req[q].for
      BY <1>1, <2>2 DEF IInv, OwnersOK, Exists, OwnedBy
    <3> QED
      BY <1>1, <1>2, <3>1 DEF Removing
  <2> QED
    BY <2>1, <2>2
<1> QED
  BY <1>3, <1>4, <1>6, <1>8, <1>10, <1>11 DEF IInv

(* The row that comes back is the one the request knows. *)
LEMMA IdentityInsertStep ==
  ASSUME IInv, NEW r \in Reqs, NEW u \in Uids, IdentityInsert(r, u)
  PROVE  IInv'
<1> DEFINE row(n) == [id |-> n, owner |-> u,
                      kind |-> IF req[r].op = "password" THEN "email" ELSE "other",
                      address |-> req[r].address, primary |-> req[r].op = "password"]
<1>1. /\ req[r].op \in Resaves /\ req[r].pc = "insert" /\ u \in req[r].for
      /\ \A n \in req[r].id : ~Stored(n)
      /\ identity' = identity \cup {row(n) : n \in req[r].id}
      /\ Done(r) /\ req[r] \in Request
      /\ UNCHANGED <<used, user, members, signedUp, abandoned, overlapped>>
  BY DEF IdentityInsert, history, IInv, RequestsOK
<1>2. /\ req' \in [Reqs -> Request] /\ req'[r] = Idle
      /\ \A q \in Reqs \ {r} : req'[q] = req[q]
  BY <1>1, DoneEffect DEF IInv
<1>3. RequestsOK'
  <2>1. Sound(req'[r])
    BY <1>2, IdleFacts DEF Sound, Single
  <2> QED
    BY <1>2, <2>1, RequestsStep DEF IInv
<1>4. \A n \in req[r].id :
        /\ row(n) \in Row /\ row(n).id = n /\ row(n).owner = u
        /\ row(n).address = req[r].address /\ (row(n).primary => req[r].op = "password")
  BY <1>1 DEF Row, Kinds, Request
<1> HIDE DEF row
<1>5. /\ identity \subseteq identity'
      /\ \A i \in identity' \ identity :
           /\ i \in Row /\ i.id \in req[r].id /\ i.owner = u /\ ~Stored(i.id)
           /\ i.address = req[r].address /\ (i.primary => req[r].op = "password")
  BY <1>1, <1>4
<1>6. /\ \A n, v : Known(n, v)' => Known(n, v)
      /\ \A n, v, b : Primary(n, v, b)' => Primary(n, v, b)
  BY <1>1, <1>2, <1>5, IdleFacts DEF Known, Primary
<1>7. TypeOK'
  <2>1. identity' \subseteq Row
    BY <1>5 DEF IInv, TypeOK
  <2>2. \A i, j \in identity' : i.id = j.id => i = j
    <3> SUFFICES ASSUME NEW i \in identity', NEW j \in identity', i.id = j.id PROVE i = j
      OBVIOUS
    <3>1. CASE i \in identity /\ j \in identity
      BY <3>1 DEF IInv, TypeOK
    <3>2. CASE i \in identity /\ j \notin identity
      BY <1>5, <3>2 DEF Stored
    <3>3. CASE i \notin identity /\ j \in identity
      BY <1>5, <3>3 DEF Stored
    <3>4. CASE i \notin identity /\ j \notin identity
      <4>1. PICK n, m \in req[r].id : i = row(n) /\ j = row(m)
        BY <1>1, <3>4
      <4> QED
        BY <1>4, <4>1
    <3> QED
      BY <3>1, <3>2, <3>3, <3>4
  <2>3. {i.id : i \in identity'} \subseteq used'
    <3>1. \A n \in req[r].id : Known(n, u) /\ n \in Ids
      BY <1>1 DEF Known, Request
    <3>2. \A n \in req[r].id : n \in used
      BY <3>1 DEF IInv, IdsOK
    <3> QED
      BY <1>1, <1>5, <3>2 DEF IInv, TypeOK
  <2> QED
    BY <1>1, <1>3, <2>1, <2>2, <2>3, TypeStep DEF IInv, TypeOK
<1>8. IdsOK' /\ AddressesOK' /\ PrimariesOK'
  BY <1>1, <1>6 DEF IInv, IdsOK, AddressesOK, PrimariesOK, Exists
<1>9. CreationsOK'
  <2> SUFFICES ASSUME NEW q \in Reqs, NEW v \in req'[q].for, Creating(q)'
               PROVE  /\ user'[v] = req'[q].address
                      /\ \A p \in Reqs : Creating(p)' /\ v \in req'[p].for => p = q
                      /\ \A n \in Ids, b \in Addresses \cup {NoAddress} : ~Primary(n, v, b)'
    BY DEF CreationsOK
  <2>1. Creating(q) /\ req'[q] = req[q]
    BY <1>2, IdleFacts DEF Creating
  <2>2. /\ user[v] = req[q].address
        /\ \A p \in Reqs : Creating(p) /\ v \in req[p].for => p = q
        /\ \A n \in Ids, b \in Addresses \cup {NoAddress} : ~Primary(n, v, b)
    BY <2>1 DEF IInv, CreationsOK
  <2>3. \A p \in Reqs : Creating(p)' /\ v \in req'[p].for => p = q
    BY <1>2, <2>2, IdleFacts DEF Creating
  <2> QED
    BY <1>1, <1>6, <2>1, <2>2, <2>3
<1>10. RemovalsOK'
  <2> SUFFICES ASSUME NEW q \in Reqs, NEW v \in req'[q].for, Removing(q)', v \notin overlapped'
               PROVE  /\ \A p \in Reqs : Removing(p)' /\ v \in req'[p].for => p = q
                      /\ \E i \in identity' : i.owner = v /\ i.id \notin req'[q].id
    BY DEF RemovalsOK
  <2>1. Removing(q) /\ req'[q] = req[q] /\ v \notin overlapped
    BY <1>1, <1>2, IdleFacts DEF Removing
  <2>2. /\ \A p \in Reqs : Removing(p) /\ v \in req[p].for => p = q
        /\ \E i \in identity : i.owner = v /\ i.id \notin req[q].id
    BY <2>1 DEF IInv, RemovalsOK
  <2>3. \A p \in Reqs : Removing(p)' /\ v \in req'[p].for => p = q
    BY <1>2, <2>2, IdleFacts DEF Removing
  <2> QED
    BY <1>5, <2>1, <2>2, <2>3
<1>11. OwnersOK'
  <2> SUFFICES ASSUME NEW v \in Uids, user'[v] # NoAddress, ~\E i \in identity' : i.owner = v,
                      v \notin abandoned' \cup overlapped'
               PROVE  \E q \in Reqs : req'[q].pc = "identity" /\ v \in req'[q].for
    BY DEF OwnersOK, Exists, OwnedBy
  <2>1. PICK q \in Reqs : req[q].pc = "identity" /\ v \in req[q].for
    BY <1>1, <1>5 DEF IInv, OwnersOK, Exists, OwnedBy
  <2> QED
    BY <1>1, <1>2, <2>1
<1> QED
  BY <1>3, <1>7, <1>8, <1>9, <1>10, <1>11 DEF IInv

----------------------------------------------------------------------------
(* The invariant *)

LEMMA InitIInv == Init => IInv
<1> SUFFICES ASSUME Init PROVE IInv
  OBVIOUS
<1>1. RequestsOK
  BY IdleFacts DEF Init, RequestsOK, Creating, Single
<1>2. TypeOK
  BY <1>1, IdleFacts, FS_EmptySet DEF Init, TypeOK
<1>3. (\A n, u : ~Known(n, u)) /\ (\A n, u, a : ~Primary(n, u, a))
  BY IdleFacts DEF Init, Known, Primary
<1>4. IdsOK /\ AddressesOK /\ PrimariesOK
  BY <1>3 DEF Init, IdsOK, AddressesOK, PrimariesOK, Exists
<1>5. CreationsOK /\ RemovalsOK
  BY IdleFacts DEF Init, CreationsOK, RemovalsOK
<1>6. OwnersOK
  BY DEF Init, OwnersOK, Exists
<1> QED
  BY <1>1, <1>2, <1>4, <1>5, <1>6 DEF IInv

LEMMA NextIInv == IInv /\ [Next]_vars => IInv'
<1> SUFFICES ASSUME IInv, [Next]_vars PROVE IInv'
  OBVIOUS
<1> QED
  BY StartSteps, FindSteps, IdentitySelectStep, EndSteps, StillSteps, InsertUserStep, InsertSteps,
     UnlinkCountStep, RemoveStep, IdentityInsertStep DEF Next

(* IInv holds in every reachable state, whatever handlers overlap and        *)
(* whichever statements fail.                                                *)
THEOREM Invariance == Spec => []IInv
BY InitIInv, NextIInv, PTL DEF Spec

(* Rows, histories and requests stay in their types; ids are unique.         *)
THEOREM TypeCorrect == Spec => []TypeOK
<1>1. IInv => TypeOK
  BY DEF IInv
<1> QED
  BY <1>1, Invariance, PTL

(* register, createPoolUser, linkIdentity and changePassword leave an        *)
(* address with one primary identity, and so one password, though no index   *)
(* of identities says so.                                                    *)
THEOREM OnePassword == Spec => []OnePrimaryPerAddress
<1>1. IInv => OnePrimaryPerAddress
  <2> SUFFICES ASSUME IInv, NEW i \in identity, NEW j \in identity,
                      i.primary, j.primary, i.address = j.address
               PROVE  i = j
    BY DEF OnePrimaryPerAddress
  <2>1. i \in Row /\ j \in Row /\ (i.id = j.id => i = j)
    BY DEF IInv, TypeOK
  <2>2. Primary(i.id, i.owner, i.address) /\ Primary(j.id, j.owner, j.address)
    BY DEF Primary
  <2>3. i.address = user[i.owner] /\ j.address = user[j.owner] /\ Exists(i.owner)
    BY <2>1, <2>2 DEF IInv, PrimariesOK, Row
  <2>4. i.owner = j.owner
    BY <2>1, <2>3 DEF IInv, AddressesOK, Row
  <2> QED
    BY <2>1, <2>2, <2>4 DEF IInv, PrimariesOK, Row
<1> QED
  BY <1>1, Invariance, PTL

----------------------------------------------------------------------------
(* Complete and abandoned creations *)

(* What only a user has whose creation is past both INSERTs. *)
Made(u) ==
  \/ u \in signedUp \cup members
  \/ \E n \in Ids : Known(n, u)
  \/ \E r \in Reqs : u \in req[r].for /\ ~Creating(r)

(* A user is being created, abandoned or made, and of those only one.        *)
CompletionsOK ==
  /\ \A u \in abandoned : Exists(u)
  /\ \A u \in Uids : Made(u) => Exists(u) /\ u \notin abandoned
  /\ \A r \in Reqs : Creating(r) =>
       \A u \in req[r].for : Exists(u) /\ ~Made(u) /\ u \notin abandoned

LEMMA MadeFacts ==
  ASSUME IInv
  PROVE  /\ \A u \in signedUp \cup members : Made(u)
         /\ \A i \in identity : Made(i.owner)
         /\ \A r \in Reqs : ~Creating(r) => \A u \in req[r].for : Made(u)
<1>1. ASSUME NEW i \in identity PROVE Made(i.owner)
  <2>1. i.id \in Ids /\ Known(i.id, i.owner)
    BY DEF IInv, TypeOK, Row, Known
  <2> QED
    BY <2>1 DEF Made
<1> QED
  BY <1>1 DEF Made

(* Nobody else becomes made by a step in which a request, the rows and the   *)
(* histories go on with users who are.                                       *)
LEMMA MadeKept ==
  ASSUME IInv, NEW r \in Reqs, \A q \in Reqs \ {r} : req'[q] = req[q],
         NEW M, \A u \in signedUp' \cup members' : u \in M,
         \A u \in req'[r].for : (Creating(r)' /\ req'[r].id = {}) \/ u \in M,
         \A i \in identity' : i \in identity \/ i.owner \in M,
         NEW u, Made(u)'
  PROVE  Made(u) \/ u \in M
<1>1. CASE u \in signedUp' \cup members'
  BY <1>1
<1>2. ASSUME NEW n \in Ids, NEW i \in identity', i.id = n, i.owner = u PROVE Made(u) \/ u \in M
  BY <1>2, MadeFacts
<1>3. ASSUME NEW n \in Ids, NEW q \in Reqs, n \in req'[q].id, u \in req'[q].for
      PROVE  Made(u) \/ u \in M
  <2>1. CASE q = r
    BY <1>3, <2>1
  <2>2. CASE q # r
    <3>1. Known(n, u)
      BY <1>3, <2>2 DEF Known
    <3> QED
      BY <3>1 DEF Made
  <2> QED
    BY <2>1, <2>2
<1>4. ASSUME NEW q \in Reqs, u \in req'[q].for, ~Creating(q)' PROVE Made(u) \/ u \in M
  BY <1>4 DEF Made, Creating
<1> QED
  BY <1>1, <1>2, <1>3, <1>4 DEF Made, Known

LEMMA CompletionsKept ==
  ASSUME IInv, CompletionsOK, NEW r \in Reqs, \A q \in Reqs \ {r} : req'[q] = req[q],
         req'[r].pc # "identity", UNCHANGED <<user, abandoned>>,
         \A u \in signedUp' \cup members' \cup req'[r].for : Made(u),
         \A i \in identity' : i \in identity \/ Made(i.owner)
  PROVE  CompletionsOK'
<1> DEFINE M == {u \in Uids \cup req'[r].for \cup {i.owner : i \in identity'} \cup signedUp' \cup members' : Made(u)}
<1>1. /\ \A u \in signedUp' \cup members' : u \in M
      /\ \A u \in req'[r].for : u \in M
      /\ \A i \in identity' : i \in identity \/ i.owner \in M
      /\ \A u \in M : Made(u)
  OBVIOUS
<1> HIDE DEF M
<1>2. \A u : Made(u)' => Made(u)
  BY <1>1, MadeKept
<1>3. \A q \in Reqs : Creating(q)' => Creating(q) /\ req'[q] = req[q]
  BY DEF Creating
<1> QED
  BY <1>2, <1>3 DEF CompletionsOK, Exists

(* A user who is inserted was nobody's before. *)
LEMMA UserCompletion ==
  ASSUME IInv, CompletionsOK, NEW r \in Reqs, NEW u \in Uids, InsertUser(r, u)
  PROVE  CompletionsOK'
<1>1. /\ req[r].pc = "user" /\ ~Exists(u) /\ user' = [user EXCEPT ![u] = req[r].address]
      /\ Become(r, req[r].op, "identity", {u}, req[r].address, {})
      /\ UNCHANGED <<identity, members, signedUp, abandoned>>
  BY DEF InsertUser, rows, history
<1>2. /\ req[r].op \in {"register", "pool"} /\ req[r].address \in Addresses
      /\ req[r].address # NoAddress
  BY <1>1 DEF IInv, RequestsOK, Request, Creates
<1>3. [op |-> req[r].op, pc |-> "identity", for |-> {u}, address |-> req[r].address, id |-> {}] \in Request
  BY <1>2 DEF Request
<1>4. /\ req'[r].pc = "identity" /\ req'[r].for = {u} /\ req'[r].id = {}
      /\ \A q \in Reqs \ {r} : req'[q] = req[q]
  BY <1>1, <1>3, BecomeEffect DEF IInv
<1>5. /\ user'[u] # NoAddress /\ \A v \in Uids \ {u} : user'[v] = user[v]
  BY <1>1, <1>2 DEF IInv, TypeOK
<1>6. \A v : Made(v)' => Made(v)
  <2> DEFINE M == signedUp \cup members
  <2>1. \A v \in M : Made(v)
    BY MadeFacts
  <2>2. \A v : Made(v)' => Made(v) \/ v \in M
    BY <1>1, <1>4, MadeKept DEF Creating
  <2> QED
    BY <2>1, <2>2
<1>7. ~Made(u) /\ u \notin abandoned /\ \A q \in Reqs : Creating(q) => u \notin req[q].for
  BY <1>1 DEF CompletionsOK
<1>8. \A q \in Reqs \ {r} : Creating(q)' => Creating(q) /\ req'[q].for \subseteq Uids
  BY <1>4 DEF Creating, IInv, TypeOK
<1>9. \A v \in abandoned : Exists(v)'
  BY <1>5 DEF CompletionsOK, Exists, IInv, TypeOK
<1>10. \A v \in Uids : Made(v)' => Exists(v)' /\ v \notin abandoned
  BY <1>5, <1>6 DEF CompletionsOK, Exists
<1>11. ASSUME NEW q \in Reqs, Creating(q)', NEW v \in req'[q].for
       PROVE  Exists(v)' /\ ~Made(v)' /\ v \notin abandoned
  <2>1. CASE q = r
    BY <1>4, <1>5, <1>6, <1>7, <1>11, <2>1 DEF Exists
  <2>2. CASE q # r
    <3>1. v \in Uids /\ Creating(q) /\ v \in req[q].for
      BY <1>4, <1>8, <1>11, <2>2
    <3>2. Exists(v) /\ ~Made(v) /\ v \notin abandoned
      BY <3>1 DEF CompletionsOK
    <3> QED
      BY <1>5, <1>6, <3>1, <3>2 DEF Exists
  <2> QED
    BY <2>1, <2>2
<1> QED
  BY <1>1, <1>9, <1>10, <1>11 DEF CompletionsOK

(* The first identity ends the creation of its user. *)
LEMMA IdentityCompletion ==
  ASSUME IInv, CompletionsOK, NEW r \in Reqs, NEW u \in Uids, NEW n \in Ids, InsertIdentity(r, u, n)
  PROVE  CompletionsOK'
<1> DEFINE pc == IF req[r].op = "pool" THEN "member" ELSE "session"
           row == [id |-> n, owner |-> u, kind |-> "email", address |-> req[r].address, primary |-> TRUE]
<1>1. /\ req[r].pc = "identity" /\ u \in req[r].for /\ identity' = identity \cup {row}
      /\ Become(r, req[r].op, pc, {u}, NoAddress, {})
      /\ UNCHANGED <<user, members, signedUp, abandoned>>
  BY DEF InsertIdentity, history
<1>2. row.owner = u
  OBVIOUS
<1> HIDE DEF row
<1>3. pc \in {"member", "session"}
  OBVIOUS
<1> HIDE DEF pc
<1>4. [op |-> req[r].op, pc |-> pc, for |-> {u}, address |-> NoAddress, id |-> {}] \in Request
  BY <1>1, <1>3 DEF Request, IInv, RequestsOK
<1>5. /\ req'[r].pc = pc /\ req'[r].for = {u}
      /\ \A q \in Reqs \ {r} : req'[q] = req[q]
  <2> PICK op : op = req[r].op
    OBVIOUS
  <2>1. RequestsOK /\ [op |-> op, pc |-> pc, for |-> {u}, address |-> NoAddress, id |-> {}] \in Request
    BY <1>4 DEF IInv
  <2>2. Become(r, op, pc, {u}, NoAddress, {})
    BY <1>1
  <2> QED
    BY <2>1, <2>2, BecomeEffect
<1>6. \A v : Made(v)' => Made(v) \/ v = u
  <2> DEFINE M == signedUp \cup members \cup {u}
  <2>1. \A v \in M : Made(v) \/ v = u
    BY MadeFacts
  <2>2. \A v : Made(v)' => Made(v) \/ v \in M
    BY <1>1, <1>2, <1>5, MadeKept
  <2> QED
    BY <2>1, <2>2
<1>7. Exists(u) /\ u \notin abandoned
  BY <1>1 DEF CompletionsOK, Creating
<1>8. ASSUME NEW q \in Reqs, Creating(q)', NEW v \in req'[q].for
      PROVE  Exists(v)' /\ ~Made(v)' /\ v \notin abandoned
  <2>1. q # r /\ Creating(q) /\ v \in req[q].for
    BY <1>3, <1>5, <1>8 DEF Creating
  <2>2. v # u
    BY <1>1, <2>1 DEF IInv, CreationsOK, Creating
  <2>3. Exists(v) /\ ~Made(v) /\ v \notin abandoned
    BY <2>1 DEF CompletionsOK
  <2> QED
    BY <1>1, <1>6, <2>2, <2>3 DEF Exists
<1> QED
  BY <1>1, <1>6, <1>7, <1>8 DEF CompletionsOK, Exists

(* A user whose creation fails is left with nothing but the row. *)
LEMMA FailCompletion ==
  ASSUME IInv, CompletionsOK, NEW r \in Reqs, Fail(r)
  PROVE  CompletionsOK'
<1>1. /\ req'[r] = Idle /\ \A q \in Reqs \ {r} : req'[q] = req[q]
      /\ UNCHANGED <<user, identity, members, signedUp>>
      /\ abandoned' = IF req[r].pc = "identity" THEN abandoned \cup req[r].for ELSE abandoned
  BY DoneEffect DEF Fail, IInv, rows
<1>2. CASE req[r].pc # "identity"
  BY <1>1, <1>2, IdleFacts, MadeFacts, CompletionsKept
<1>3. CASE req[r].pc = "identity"
  <2>1. \A v \in req[r].for : Exists(v) /\ ~Made(v)
    BY <1>3 DEF CompletionsOK, Creating
  <2>2. \A v : Made(v)' => Made(v)
    <3> DEFINE M == signedUp \cup members
    <3>1. \A v \in M : Made(v)
      BY MadeFacts
    <3>2. \A v : Made(v)' => Made(v) \/ v \in M
      BY <1>1, IdleFacts, MadeKept
    <3> QED
      BY <3>1, <3>2
  <2>3. ASSUME NEW q \in Reqs, Creating(q)', NEW v \in req'[q].for
        PROVE  Exists(v) /\ ~Made(v) /\ v \notin abandoned /\ v \notin req[r].for
    <3>1. q # r /\ Creating(q) /\ v \in req[q].for
      BY <1>1, <2>3, IdleFacts DEF Creating
    <3>2. v \notin req[r].for
      BY <1>3, <3>1 DEF IInv, CreationsOK, Creating
    <3> QED
      BY <3>1, <3>2 DEF CompletionsOK
  <2> QED
    BY <1>1, <1>3, <2>1, <2>2, <2>3 DEF CompletionsOK, Exists
<1> QED
  BY <1>2, <1>3

(* Whatever else a request does, it does for a user who is made. *)
LEMMA OtherCompletions ==
  ASSUME IInv, CompletionsOK, NEW r \in Reqs, ~Creating(r), UNCHANGED <<user, abandoned>>,
         signedUp' \cup members' \subseteq signedUp \cup members \cup req[r].for,
         \A i \in identity' : i \in identity \/ i.owner \in req[r].for,
         NEW pc, pc # "identity", NEW for,
         \A u \in for : u \in signedUp \cup req[r].for \cup {i.owner : i \in identity},
         \A q \in Reqs \ {r} : req'[q] = req[q], req'[r].pc = pc, req'[r].for = for
  PROVE  CompletionsOK'
<1>1. \A u \in signedUp \cup members \cup req[r].for \cup {i.owner : i \in identity} : Made(u)
  BY MadeFacts
<1> QED
  BY <1>1, CompletionsKept

LEMMA NextCompletions ==
  ASSUME IInv, CompletionsOK, [Next]_vars
  PROVE  CompletionsOK'
<1> DEFINE Own(r) == signedUp \cup req[r].for \cup {i.owner : i \in identity}
<1>1. ASSUME NEW r \in Reqs, ~Creating(r), Done(r), UNCHANGED <<user, abandoned>>,
             signedUp' \cup members' \subseteq signedUp \cup members \cup req[r].for,
             \A i \in identity' : i \in identity \/ i.owner \in req[r].for
      PROVE  CompletionsOK'
  <2>1. /\ req'[r] = Idle /\ Idle.pc = "idle" /\ Idle.for = {}
        /\ \A q \in Reqs \ {r} : req'[q] = req[q]
    BY <1>1, DoneEffect, IdleFacts DEF IInv
  <2> QED
    BY <1>1, <2>1, OtherCompletions
<1>2. ASSUME NEW r \in Reqs, ~Creating(r), NEW op, NEW pc, NEW for, NEW address, NEW id,
             Become(r, op, pc, for, address, id), pc # "identity", for \subseteq Own(r),
             UNCHANGED <<user, rows, members, signedUp, abandoned>>
      PROVE  CompletionsOK'
  <2> DEFINE e == [op |-> op, pc |-> pc, for |-> for, address |-> address, id |-> id]
  <2>1. e.pc = pc /\ e.for = for
    OBVIOUS
  <2>2. req' = [req EXCEPT ![r] = e]
    BY <1>2 DEF Become
  <2> HIDE DEF e
  <2>3. req'[r].pc = pc /\ req'[r].for = for /\ \A q \in Reqs \ {r} : req'[q] = req[q]
    BY <2>1, <2>2 DEF IInv, RequestsOK
  <2> QED
    BY <1>2, <2>3, OtherCompletions DEF rows
<1>3. ASSUME NEW r \in Reqs, req[r] = Idle \/ req[r].op \notin {"register", "pool"}
      PROVE  ~Creating(r)
  BY <1>3, IdleFacts DEF Creating, Creates, IInv, RequestsOK
<1>4. ASSUME NEW r \in Reqs, NEW a \in Addresses, Begin(r, "register", a) \/ Begin(r, "pool", a)
      PROVE  CompletionsOK'
  BY <1>2, <1>3, <1>4 DEF Begin, history
<1>5. ASSUME NEW r \in Reqs, NEW i \in identity, AddToPool(r, i)
      PROVE  CompletionsOK'
  BY <1>2, <1>3, <1>5 DEF AddToPool, history
<1>6. ASSUME NEW r \in Reqs, NEW u \in Uids, NEW kind \in Kinds, NEW a \in Addresses, Link(r, u, kind, a)
      PROVE  CompletionsOK'
  <2>1. kind # "identity"
    BY DEF Kinds
  <2> QED
    BY <1>2, <1>3, <1>6, <2>1 DEF Link, history
<1>7. ASSUME NEW r \in Reqs, NEW u \in Uids, NEW i \in identity,
             UnlinkFind(r, u, i) \/ PasswordFind(r, u, i) \/ PhoneFind(r, u, i)
      PROVE  CompletionsOK'
  <2>1. {u} \subseteq Own(r) /\ req[r] = Idle
    BY <1>7 DEF UnlinkFind, PasswordFind, PhoneFind, OwnedBy
  <2> QED
    BY <1>2, <1>3, <1>7, <2>1 DEF UnlinkFind, PasswordFind, PhoneFind, history
<1>8. ASSUME NEW r \in Reqs, NEW u \in Uids, UnlinkCount(r, u)
      PROVE  CompletionsOK'
  <2>1. ~Creating(r) /\ {u} \subseteq Own(r) /\ UNCHANGED <<user, rows, members, signedUp, abandoned>>
    BY <1>8 DEF UnlinkCount, At, Creating
  <2> QED
    BY <1>1, <1>2, <1>8, <2>1 DEF UnlinkCount, rows
<1>9. ASSUME NEW r \in Reqs, NEW u \in Uids, HandToken(r, u)
      PROVE  CompletionsOK'
  BY <1>1, <1>9 DEF HandToken, At, Creating, rows, history
<1>10. ASSUME NEW r \in Reqs, NEW u \in Uids, NEW n \in Ids, InsertLink(r, u, n)
       PROVE  CompletionsOK'
  <2>1. ~Creating(r)
    BY <1>3, <1>10 DEF InsertLink
  <2>2. \A i \in identity' : i \in identity \/ i.owner = u
    BY <1>10 DEF InsertLink
  <2> QED
    BY <1>1, <1>10, <2>1, <2>2 DEF InsertLink, history
<1>11. ASSUME NEW r \in Reqs, NEW u \in Uids, IdentityInsert(r, u)
       PROVE  CompletionsOK'
  <2>1. ~Creating(r)
    BY <1>11 DEF IdentityInsert, Creating
  <2>2. \A i \in identity' : i \in identity \/ i.owner = u
    BY <1>11 DEF IdentityInsert
  <2> QED
    BY <1>1, <1>11, <2>1, <2>2 DEF IdentityInsert, history
<1>12. ASSUME NEW r \in Reqs, IdentitySelect(r)
       PROVE  CompletionsOK'
  <2>1. /\ req'[r].pc \in {"update", "insert"} /\ req'[r].for = req[r].for /\ req[r].pc = "select"
        /\ \A q \in Reqs \ {r} : req'[q] = req[q]
    BY <1>12 DEF IdentitySelect, IInv, RequestsOK, Request
  <2>2. ~Creating(r)
    BY <2>1 DEF Creating
  <2> QED
    BY <1>12, <2>1, <2>2, OtherCompletions DEF IdentitySelect, rows, history
<1>13. ASSUME NEW r \in Reqs, IdentityUpdate(r) \/ InsertRefused(r) \/ InsertMember(r) \/ Remove(r)
       PROVE  CompletionsOK'
  <2>1. ~Creating(r)
    BY <1>13 DEF IdentityUpdate, InsertRefused, InsertMember, Remove, Creating, At
  <2>2. /\ Done(r) /\ UNCHANGED <<user, abandoned, signedUp>> /\ identity' \subseteq identity
        /\ members' \subseteq members \cup req[r].for
    BY <1>13 DEF IdentityUpdate, InsertRefused, InsertMember, Remove, rows, history
  <2> QED
    BY <1>1, <2>1, <2>2
<1>14. CASE UNCHANGED vars \/ \E u \in Uids : Login(u)
  <2>1. UNCHANGED <<user, identity, members, req, abandoned>>
    BY <1>14 DEF vars, Login, rows, history
  <2>2. \A u \in signedUp' : Made(u)
    BY <1>14, MadeFacts DEF vars, Login, OwnedBy
  <2>3. \A u : Made(u)' => Made(u)
    BY <2>1, <2>2 DEF Made, Known, Creating
  <2> QED
    BY <2>1, <2>3 DEF CompletionsOK, Exists, Creating
<1> QED
  BY UserCompletion, IdentityCompletion, FailCompletion, <1>4, <1>5, <1>6, <1>7, <1>8, <1>9,
     <1>10, <1>11, <1>12, <1>13, <1>14 DEF Next

(* Creations are complete or abandoned for good.                             *)
THEOREM Completions == Spec => []CompletionsOK
<1>1. Init => CompletionsOK
  BY IdleFacts DEF Init, CompletionsOK, Made, Known, Creating
<1>2. IInv /\ CompletionsOK /\ [Next]_vars => CompletionsOK'
  BY NextCompletions
<1> QED
  BY <1>1, <1>2, Invariance, PTL DEF Spec

(* Nobody loses the last identity but through a failed creation, which hands *)
(* out no token, or two unlinkIdentity calls that both counted before either *)
(* removed.                                                                  *)
THEOREM IdentityStays == Spec => []UserHasIdentity
<1>1. IInv /\ CompletionsOK => UserHasIdentity
  <2> SUFFICES ASSUME IInv, CompletionsOK, NEW u \in Uids \ overlapped, Exists(u), OwnedBy(u) = {}
               PROVE  /\ u \notin signedUp
                      /\ \/ u \in abandoned
                         \/ \E r \in Reqs : req[r].pc = "identity" /\ u \in req[r].for
    BY DEF UserHasIdentity
  <2>1. u \in abandoned \/ \E r \in Reqs : req[r].pc = "identity" /\ u \in req[r].for
    BY DEF IInv, OwnersOK
  <2>2. ~Made(u)
    BY <2>1 DEF CompletionsOK, Creating
  <2> QED
    BY <2>1, <2>2 DEF Made
<1> QED
  BY <1>1, Invariance, Completions, PTL

(* Whoever has held a token can log in again, unless two unlinks overlapped. *)
LEMMA SignedUpKeep ==
  ASSUME CompletionsOK, UserHasIdentity, TypeOK, NEW u \in signedUp \ overlapped
  PROVE  OwnedBy(u) # {}
<1>1. u \in Uids \ overlapped /\ Made(u)
  BY DEF TypeOK, Made
<1>2. Exists(u)
  BY <1>1 DEF CompletionsOK
<1> QED
  BY <1>1, <1>2 DEF UserHasIdentity

(* No two requests are unlinking an identity of the same user: what a lock   *)
(* on the user's row, held by unlinkIdentity from find to remove, would make *)
(* true.                                                                     *)
UnlinksLocked ==
  \A r, q \in Reqs :
    req[r].op = "unlink" /\ req[q].op = "unlink" /\ req[r].for = req[q].for => r = q

(* unlinkIdentity keeps what its comment says where such a lock is held,     *)
(* whatever registrations, links and saves of identities go on beside it.    *)
THEOREM LockedUnlinksSuffice == Spec /\ []UnlinksLocked => []LastIdentityKept
<1>1. Init => overlapped = {}
  BY DEF Init
<1>2. overlapped = {} /\ IInv /\ UnlinksLocked /\ [Next]_vars => (overlapped = {})'
  <2> SUFFICES ASSUME overlapped = {}, IInv, UnlinksLocked, [Next]_vars, overlapped' # overlapped
               PROVE  FALSE
    OBVIOUS
  <2>1. PICK r \in Reqs, u \in Uids : UnlinkCount(r, u)
    BY DEF Next, vars, rows, history, Begin, InsertUser, HandToken, InsertIdentity, InsertLink,
           AddToPool, Login, Link, UnlinkFind, PasswordFind, PhoneFind, IdentityInsert,
           IdentitySelect, IdentityUpdate, InsertRefused, InsertMember, Remove, Fail
  <2>2. PICK q \in Reqs : At(q, "unlink", "remove") /\ req[q].for = {u}
    BY <2>1 DEF UnlinkCount
  <2>3. At(r, "unlink", "count") /\ req[r].for = {u}
    BY <2>1 DEF UnlinkCount, IInv, RequestsOK, Single
  <2>4. r = q
    BY <2>2, <2>3 DEF At, UnlinksLocked
  <2> QED
    BY <2>2, <2>3, <2>4 DEF At
<1>3. overlapped = {} /\ TypeOK /\ CompletionsOK /\ UserHasIdentity => LastIdentityKept
  BY SignedUpKeep DEF LastIdentityKept
<1> QED
  BY <1>1, <1>2, <1>3, Invariance, TypeCorrect, Completions, IdentityStays, PTL DEF Spec

(* An unlinked identity that no changePassword or SMS sign-in has found      *)
(* before stays unlinked.                                                    *)
THEOREM UnlinkedStays == Spec => UnlinkedForGood
<1>1. IInv /\ [Next]_vars => \A n \in Ids : Unlinked(n) => Unlinked(n)'
  <2> SUFFICES ASSUME IInv, [Next]_vars, NEW n \in Ids, Unlinked(n)
               PROVE  Unlinked(n)'
    OBVIOUS
  <2>1. /\ n \in used /\ \A i \in identity : i.id # n
        /\ \A r \in Reqs : req[r].op \in Resaves => n \notin req[r].id
    BY DEF Unlinked, Stored
  <2>2. ASSUME identity' \subseteq identity, UNCHANGED used,
               \A r \in Reqs : req'[r].op \in Resaves => n \notin req'[r].id
        PROVE  Unlinked(n)'
    BY <2>1, <2>2 DEF Unlinked, Stored
  <2>3. \A r \in Reqs : Done(r) => \A q \in Reqs : req'[q].op \in Resaves => n \notin req'[q].id
    BY <2>1, DoneEffect, IdleFacts DEF IInv
  <2>4. ASSUME NEW r \in Reqs, NEW op, NEW pc, NEW for, NEW address, NEW id,
               Become(r, op, pc, for, address, id), op \in Resaves => n \notin id
        PROVE  \A q \in Reqs : req'[q].op \in Resaves => n \notin req'[q].id
    <3> DEFINE e == [op |-> op, pc |-> pc, for |-> for, address |-> address, id |-> id]
    <3>1. req' = [req EXCEPT ![r] = e]
      BY <2>4 DEF Become
    <3>2. e.op = op /\ e.id = id
      OBVIOUS
    <3> HIDE DEF e
    <3> QED
      BY <2>1, <2>4, <3>1, <3>2 DEF IInv, RequestsOK
  <2>5. "register" \notin Resaves /\ "pool" \notin Resaves /\ "link" \notin Resaves /\ "unlink" \notin Resaves
    BY DEF Resaves
  <2>6. ASSUME NEW r \in Reqs, NEW a \in Addresses, Begin(r, "register", a) \/ Begin(r, "pool", a)
        PROVE  Unlinked(n)'
    BY <2>2, <2>4, <2>5, <2>6 DEF Begin, rows
  <2>7. ASSUME NEW r \in Reqs, NEW u \in Uids, InsertUser(r, u)
        PROVE  Unlinked(n)'
    <3>1. req[r].op \notin Resaves
      BY <2>7 DEF InsertUser, IInv, RequestsOK, Creates, Resaves
    <3> QED
      BY <2>2, <2>4, <2>7, <3>1 DEF InsertUser, rows
  <2>8. ASSUME NEW r \in Reqs, NEW u \in Uids, HandToken(r, u)
        PROVE  Unlinked(n)'
    BY <2>2, <2>3, <2>8 DEF HandToken, rows
  <2>9. ASSUME NEW r \in Reqs, NEW u \in Uids, UnlinkCount(r, u)
        PROVE  Unlinked(n)'
    BY <2>2, <2>3, <2>4, <2>5, <2>9 DEF UnlinkCount, rows
  <2>10. ASSUME NEW r \in Reqs, NEW u \in Uids, NEW m \in Ids, InsertIdentity(r, u, m) \/ InsertLink(r, u, m)
         PROVE  Unlinked(n)'
    <3>1. m # n /\ used \subseteq used'
      BY <2>1, <2>10 DEF InsertIdentity, InsertLink, Unused
    <3>2. \A i \in identity' : i \in identity \/ i.id = m
      BY <2>10 DEF InsertIdentity, InsertLink
    <3>3. \A q \in Reqs : req'[q].op \in Resaves => n \notin req'[q].id
      <4>1. CASE InsertIdentity(r, u, m)
        <5>1. req[r].op \notin Resaves
          BY <4>1 DEF InsertIdentity, IInv, RequestsOK, Creates, Resaves
        <5> QED
          BY <2>4, <4>1, <5>1 DEF InsertIdentity
      <4>2. CASE InsertLink(r, u, m)
        BY <2>3, <4>2 DEF InsertLink
      <4> QED
        BY <2>10, <4>1, <4>2
    <3> QED
      BY <2>1, <3>1, <3>2, <3>3 DEF Unlinked, Stored
  <2>11. ASSUME NEW r \in Reqs, NEW i \in identity, AddToPool(r, i)
         PROVE  Unlinked(n)'
    BY <2>2, <2>4, <2>5, <2>11 DEF AddToPool, rows
  <2>12. ASSUME NEW r \in Reqs, NEW u \in Uids, NEW kind \in Kinds, NEW a \in Addresses, Link(r, u, kind, a)
         PROVE  Unlinked(n)'
    BY <2>2, <2>4, <2>5, <2>12 DEF Link, rows
  <2>13. ASSUME NEW r \in Reqs, NEW u \in Uids, NEW i \in identity,
                UnlinkFind(r, u, i) \/ PasswordFind(r, u, i) \/ PhoneFind(r, u, i)
         PROVE  Unlinked(n)'
    <3>1. n \notin {i.id} /\ UNCHANGED <<identity, used>>
      BY <2>1, <2>13 DEF UnlinkFind, PasswordFind, PhoneFind, rows
    <3>2. \A q \in Reqs : req'[q].op \in Resaves => n \notin req'[q].id
      BY <2>4, <2>13, <3>1 DEF UnlinkFind, PasswordFind, PhoneFind
    <3> QED
      BY <2>2, <3>1, <3>2
  <2>14. ASSUME NEW r \in Reqs, NEW u \in Uids, IdentityInsert(r, u)
         PROVE  Unlinked(n)'
    <3>1. /\ n \notin req[r].id /\ UNCHANGED used /\ Done(r)
          /\ \A i \in identity' : i \in identity \/ i.id \in req[r].id
      BY <2>1, <2>14 DEF IdentityInsert
    <3> QED
      BY <2>1, <2>3, <3>1 DEF Unlinked, Stored
  <2>15. ASSUME NEW r \in Reqs, IdentitySelect(r)
         PROVE  Unlinked(n)'
    <3>1. \A q \in Reqs : req'[q].op = req[q].op /\ req'[q].id = req[q].id
      BY <2>15 DEF IdentitySelect, IInv, RequestsOK, Request
    <3> QED
      BY <2>1, <2>2, <2>15, <3>1 DEF IdentitySelect, rows
  <2>16. ASSUME NEW r \in Reqs,
                IdentityUpdate(r) \/ InsertRefused(r) \/ InsertMember(r) \/ Remove(r) \/ Fail(r)
         PROVE  Unlinked(n)'
    BY <2>2, <2>3, <2>16 DEF IdentityUpdate, InsertRefused, InsertMember, Remove, Fail, rows
  <2>17. CASE UNCHANGED vars \/ \E u \in Uids : Login(u)
    BY <2>1, <2>2, <2>17 DEF Login, vars, rows
  <2> QED
    BY <2>6, <2>7, <2>8, <2>9, <2>10, <2>11, <2>12, <2>13, <2>14, <2>15, <2>16, <2>17 DEF Next
<1> QED
  BY <1>1, Invariance, PTL DEF Spec, UnlinkedForGood
=============================================================================
