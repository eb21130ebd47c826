------------------------------ MODULE Accounts ------------------------------
(* Users and their login identities: AuthService.register, linkIdentity and  *)
(* unlinkIdentity, AdminService.createPoolUser, EmailPasswordProvider's      *)
(* changePassword and the saves of SmsOtpProvider.authenticate, over the     *)
(* tables users, identities and (for one pool) user_apps.                    *)
(*                                                                           *)
(* No handler uses a transaction: every statement is a step of its own, and  *)
(* a handler that fails leaves behind what its statements have written.      *)
EXTENDS Naturals, FiniteSets

CONSTANTS
  Addresses,  \* normalized e-mail addresses
  Uids,       \* users.id
  Ids,        \* identities.id
  Reqs        \* slots for requests under way at one time

NoAddress == "none"

ASSUME AccountsAssumption == NoAddress \notin Addresses /\ IsFiniteSet(Ids)

VARIABLES
  user,       \* user[u]: users.email of u, NoAddress while there is no such row
  identity,   \* the rows of identities
  used,       \* the ids that rows of identities have or have had (uuids do not repeat)
  members,    \* the users with a row in user_apps
  signedUp,   \* the users who have been handed a token
  req,        \* req[r]: what the request in slot r is doing, for whom
  abandoned,  \* history: users whose creation failed after their INSERT
  overlapped  \* history: users with two unlinks past their check at one time

vars == <<user, identity, used, members, signedUp, req, abandoned, overlapped>>

Kinds == {"email", "other"}
Row == [id : Ids, owner : Uids, kind : Kinds, address : Addresses \cup {NoAddress},
        primary : BOOLEAN]

Exists(u) == user[u] # NoAddress
OwnedBy(u) == {i \in identity : i.owner = u}
EmailOf(a) == {i \in identity : i.kind = "email" /\ i.address = a}
(* Mutant: an id may be given twice. *)
AnyId == Ids

(* Mutant: an id is given again when its row is gone. *)
FreedId == Ids \ {i.id : i \in identity}

Unused == Ids \ used

(* op: what the client asked for, pc: the statement it is at, for: the user  *)
(* once there is one, address, id: what it is about.                         *)
Idle == [op |-> "none", pc |-> "idle", for |-> {}, address |-> NoAddress, id |-> {}]

At(r, op, pc) == req[r].op = op /\ req[r].pc = pc

Become(r, op, pc, for, address, id) ==
  req' = [req EXCEPT ![r] = [op |-> op, pc |-> pc, for |-> for, address |-> address, id |-> id]]

Done(r) == req' = [req EXCEPT ![r] = Idle]

rows == <<identity, used>>
history == <<abandoned, overlapped>>

----------------------------------------------------------------------------
(* Creating a user: register, and createPoolUser for an unknown address *)

Creates(op) == op \in {"register", "pool"}

(* The address has no e-mail identity; the password is hashed. *)
Begin(r, op, a) ==
  /\ req[r] = Idle
  /\ EmailOf(a) = {}
  /\ Become(r, op, "user", {}, a, {})
  /\ UNCHANGED <<user, rows, members, signedUp, history>>

(* Mutant: users.email has no unique index. *)
AddressFreeAlways(a) == TRUE

(* The unique index of users.email. *)
AddressFree(a) == \A v \in Uids : user[v] # a

InsertUser(r, u) ==
  /\ req[r].pc = "user"
  /\ ~Exists(u)
  /\ AddressFree(req[r].address)
  /\ user' = [user EXCEPT ![u] = req[r].address]
  /\ Become(r, req[r].op, "identity", {u}, req[r].address, {})
  /\ UNCHANGED <<rows, members, signedUp, history>>

InsertRefused(r) ==
  /\ req[r].pc = "user"
  /\ ~AddressFree(req[r].address)
  /\ Done(r)
  /\ UNCHANGED <<user, rows, members, signedUp, history>>

InsertIdentity(r, u, n) ==
  /\ req[r].pc = "identity"
  /\ u \in req[r].for
  /\ n \in Unused
  /\ used' = used \cup {n}
  /\ identity' = identity \cup
       {[id |-> n, owner |-> u, kind |-> "email", address |-> req[r].address, primary |-> TRUE]}
  /\ Become(r, req[r].op, IF req[r].op = "pool" THEN "member" ELSE "session", {u}, NoAddress, {})
  /\ UNCHANGED <<user, members, signedUp, history>>

(* createSession: it fails for an app id that is no uuid, the default one.   *)
(* A user who has an identity can also get a session later, by logging in.   *)
HandToken(r, u) ==
  /\ At(r, "register", "session")
  /\ u \in req[r].for
  /\ signedUp' = signedUp \cup {u}
  /\ Done(r)
  /\ UNCHANGED <<user, rows, members, history>>

Login(u) ==
  /\ \E i \in OwnedBy(u) : i.primary
  /\ u \notin signedUp
  /\ signedUp' = signedUp \cup {u}
  /\ UNCHANGED <<user, rows, members, req, history>>

(* createPoolUser for a known address: any user whose identity has it. *)
AddToPool(r, i) ==
  /\ req[r] = Idle
  /\ i \in identity
  /\ i.kind = "email"
  /\ i.owner \notin members
  /\ Become(r, "pool", "member", {i.owner}, NoAddress, {})
  /\ UNCHANGED <<user, rows, members, signedUp, history>>

(* The unique index of user_apps refuses a second row. *)
InsertMember(r) ==
  /\ At(r, "pool", "member")
  /\ members' = members \cup req[r].for
  /\ Done(r)
  /\ UNCHANGED <<user, rows, signedUp, history>>

----------------------------------------------------------------------------
(* Linking and unlinking, for a user who holds a token *)

Link(r, u, kind, a) ==
  /\ req[r] = Idle
  /\ u \in signedUp
  /\ \A i \in OwnedBy(u) : i.kind # kind
  /\ Become(r, "link", kind, {u}, IF kind = "email" THEN a ELSE NoAddress, {})
  /\ UNCHANGED <<user, rows, members, signedUp, history>>

(* No index makes the address of an e-mail identity unique.  The audit log   *)
(* that follows has no ip_address, so the client is told the link failed.    *)
InsertLink(r, u, n) ==
  /\ req[r].op = "link"
  /\ u \in req[r].for
  /\ n \in Unused
  /\ used' = used \cup {n}
  /\ identity' = identity \cup
       {[id |-> n, owner |-> u, kind |-> req[r].pc, address |-> req[r].address, primary |-> FALSE]}
  /\ Done(r)
  /\ UNCHANGED <<user, members, signedUp, history>>

(* The find of the identity; the count is awaited. *)
UnlinkFind(r, u, i) ==
  /\ req[r] = Idle
  /\ u \in signedUp
  /\ i \in OwnedBy(u)
  /\ Become(r, "unlink", "count", {u}, NoAddress, {i.id})
  /\ UNCHANGED <<user, rows, members, signedUp, history>>

(* Mutant: the identity to be removed is not taken off the count. *)
NonEmpty(u) == Cardinality(OwnedBy(u)) >= 1

HasAnother(u) == Cardinality(OwnedBy(u)) > 1

UnlinkCount(r, u) ==
  /\ At(r, "unlink", "count")
  /\ u \in req[r].for
  /\ IF HasAnother(u) THEN Become(r, "unlink", "remove", {u}, NoAddress, req[r].id) ELSE Done(r)
  /\ overlapped' = IF HasAnother(u) /\ \E q \in Reqs : At(q, "unlink", "remove") /\ req[q].for = {u}
                   THEN overlapped \cup {u} ELSE overlapped
  /\ UNCHANGED <<user, rows, members, signedUp, abandoned>>

Remove(r) ==
  /\ At(r, "unlink", "remove")
  /\ identity' = {i \in identity : i.id \notin req[r].id}
  /\ Done(r)
  /\ UNCHANGED <<used, user, members, signedUp, history>>

----------------------------------------------------------------------------
(* Saving an identity that was found: changePassword, and a sign-in by SMS,  *)
(* which marks it verified.  Neither column is kept here, and a wrong old    *)
(* password is a Fail.                                                       *)

Resaves == {"password", "phone"}

PasswordFind(r, u, i) ==
  /\ req[r] = Idle
  /\ u \in signedUp
  /\ i \in OwnedBy(u)
  /\ i.kind = "email" /\ i.primary
  /\ Become(r, "password", "select", {u}, i.address, {i.id})
  /\ UNCHANGED <<user, rows, members, signedUp, history>>

(* SmsOtpProvider.authenticate; the user's row it saves first is never gone. *)
PhoneFind(r, u, i) ==
  /\ req[r] = Idle
  /\ i \in OwnedBy(u)
  /\ i.kind = "other"
  /\ Become(r, "phone", "select", {u}, NoAddress, {i.id})
  /\ UNCHANGED <<user, rows, members, signedUp, history>>

Stored(n) == \E i \in identity : i.id = n

(* save()'s SELECT: if the row is gone, the entity will be inserted. *)
IdentitySelect(r) ==
  /\ req[r].op \in Resaves /\ req[r].pc = "select"
  /\ req' = [req EXCEPT ![r].pc = IF \A n \in req[r].id : Stored(n) THEN "update" ELSE "insert"]
  /\ UNCHANGED <<user, rows, members, signedUp, history>>

(* The UPDATE changes the row, or nothing if the row has gone since. *)
IdentityUpdate(r) ==
  /\ req[r].op \in Resaves /\ req[r].pc = "update"
  /\ Done(r)
  /\ UNCHANGED <<user, rows, members, signedUp, history>>

(* The INSERT brings back the row that was found, unless another one has. *)
IdentityInsert(r, u) ==
  /\ req[r].op \in Resaves /\ req[r].pc = "insert"
  /\ u \in req[r].for
  /\ \A n \in req[r].id : ~Stored(n)
  /\ identity' = identity \cup
       {[id |-> n, owner |-> u, kind |-> IF req[r].op = "password" THEN "email" ELSE "other",
         address |-> req[r].address, primary |-> req[r].op = "password"] : n \in req[r].id}
  /\ Done(r)
  /\ UNCHANGED <<used, user, members, signedUp, history>>

----------------------------------------------------------------------------
(* A statement fails, or the process stops, with what it has written left. *)
Fail(r) ==
  /\ req[r] # Idle
  /\ Done(r)
  /\ abandoned' = IF req[r].pc = "identity" THEN abandoned \cup req[r].for ELSE abandoned
  /\ UNCHANGED <<user, rows, members, signedUp, overlapped>>

Init ==
  /\ user = [u \in Uids |-> NoAddress]
  /\ identity = {}
  /\ used = {}
  /\ members = {}
  /\ signedUp = {}
  /\ req = [r \in Reqs |-> Idle]
  /\ abandoned = {}
  /\ overlapped = {}

Next ==
  \/ \E r \in Reqs, a \in Addresses : Begin(r, "register", a) \/ Begin(r, "pool", a)
  \/ \E r \in Reqs, u \in Uids : InsertUser(r, u) \/ HandToken(r, u) \/ UnlinkCount(r, u)
  \/ \E r \in Reqs, u \in Uids, n \in Ids : InsertIdentity(r, u, n) \/ InsertLink(r, u, n)
  \/ \E r \in Reqs, i \in identity : AddToPool(r, i)
  \/ \E u \in Uids : Login(u)
  \/ \E r \in Reqs, u \in Uids, kind \in Kinds, a \in Addresses : Link(r, u, kind, a)
  \/ \E r \in Reqs, u \in Uids, i \in identity :
       UnlinkFind(r, u, i) \/ PasswordFind(r, u, i) \/ PhoneFind(r, u, i)
  \/ \E r \in Reqs, u \in Uids : IdentityInsert(r, u)
  \/ \E r \in Reqs : IdentitySelect(r) \/ IdentityUpdate(r)
  \/ \E r \in Reqs : InsertRefused(r) \/ InsertMember(r) \/ Remove(r) \/ Fail(r)

Spec == Init /\ [][Next]_vars

----------------------------------------------------------------------------
(* Properties *)

TypeOK ==
  /\ user \in [Uids -> Addresses \cup {NoAddress}]
  /\ identity \subseteq Row
  /\ \A i, j \in identity : i.id = j.id => i = j
  /\ {i.id : i \in identity} \subseteq used /\ used \subseteq Ids
  /\ members \subseteq Uids
  /\ signedUp \subseteq Uids
  /\ \A r \in Reqs : /\ req[r].op \in {"none", "register", "pool", "link", "unlink"} \cup Resaves
                     /\ req[r].for \subseteq Uids /\ Cardinality(req[r].for) <= 1
                     /\ req[r].address \in Addresses \cup {NoAddress}
                     /\ req[r].id \subseteq Ids
  /\ abandoned \cup overlapped \subseteq Uids

(* However registrations, pool creations and failures of one address race,   *)
(* it ends up with one password: their checks of identities all pass, and    *)
(* the unique index of another table, users, decides.                        *)
OnePrimaryPerAddress ==
  \A i, j \in identity : i.primary /\ j.primary /\ i.address = j.address => i = j

(* A user without any identity, who cannot log in, has never been handed a   *)
(* token: the creation is under way or failed between its two INSERTs.  Who  *)
(* has had one is only left so by two unlinks whose counts were both taken   *)
(* before either removed.                                                    *)
UserHasIdentity ==
  \A u \in Uids \ overlapped :
    Exists(u) /\ OwnedBy(u) = {}
      => /\ u \notin signedUp
         /\ u \in abandoned \/ \E r \in Reqs : req[r].pc = "identity" /\ u \in req[r].for

(* An identity that has been unlinked and that no password change or SMS     *)
(* sign-in has found before stays unlinked: those save the identity they     *)
(* found, and insert it again if it is gone; nothing else brings it back.    *)
Unlinked(n) ==
  /\ n \in used /\ ~Stored(n)
  /\ \A r \in Reqs : req[r].op \in Resaves => n \notin req[r].id

UnlinkedForGood == [][\A n \in Ids : Unlinked(n) => Unlinked(n)']_vars

(* unlinkIdentity's comment: "Must have at least 1 identity remaining".  A   *)
(* user whose creation is complete has one; the count and the removal of two *)
(* requests may interleave.                                                  *)
LastIdentityKept == \A u \in signedUp : OwnedBy(u) # {}
=============================================================================
