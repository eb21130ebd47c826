------------------------------ MODULE Sessions ------------------------------
(* The rows of table "sessions" and the handlers that write them:            *)
(* AuthService.createSession, refreshAccessToken, logoutSession and          *)
(* logoutAllSessions, AdminService.revokeSession and the session part of     *)
(* AdminService.deleteUser.                                                  *)
(*                                                                           *)
(* Every await of a handler is a point where other handlers run.  TypeORM's  *)
(* Repository.save of a loaded entity is two statements: a SELECT of the row *)
(* as it now is, then an UPDATE of the columns in which the entity differs   *)
(* from it.  An entity loaded earlier is written back as it was then.        *)
EXTENDS Naturals, FiniteSets

CONSTANTS
  Users, Apps,  \* users.id and apps.id
  Sids,         \* sessions.id; a login makes up a fresh device_id, so device = session
  Reqs,         \* slots for requests under way at one time
  OwnerOf,      \* sessions.user_id, set at INSERT and never changed
  AppOf,        \* sessions.app_id, set at INSERT and never changed
  MaxTokens     \* bound: refresh tokens minted in a behaviour

ASSUME SessionsAssumption ==
  /\ OwnerOf \in [Sids -> Users]
  /\ AppOf \in [Sids -> Apps]
  /\ MaxTokens \in Nat

VARIABLES
  session,  \* session[s]: the row of s, its refresh_token_hash and is_active
  expired,  \* the sessions whose expires_at has passed
  minted,   \* refresh tokens minted so far, numbered from 1
  req,      \* req[r]: what the request in slot r has read and still has to save
  spent,    \* history: tokens a refresh has replaced by a new one
  revived,  \* history: sessions a refresh has switched from inactive to active
  overtaken \* history: overtaken[r], those it so revived while request r was under way

vars == <<session, expired, minted, req, spent, revived, overtaken>>
history == <<spent, revived, overtaken>>

------------------------------------------------------------------------------
(* Rows, entities and requests *)

NoToken == 0
Tokens == 1..minted            \* random 32 bytes, so all different (token.service.ts)
Row == [hash : Nat, active : BOOLEAN]
NoRow == [hash |-> NoToken, active |-> FALSE]
Columns == {"hash", "active"}
Ops == {"none", "refresh", "logout", "logoutAll"}

(* found[s] is the hash column as the handler's find read it (NoToken when   *)
(* the find did not return s), todo the found sessions not saved yet, saving *)
(* the one whose UPDATE is on its way, cols the columns that UPDATE sets.    *)
Request == [op : Ops, found : [Sids -> Nat], todo : SUBSET Sids, new : Nat,
            saving : SUBSET Sids, cols : SUBSET Columns]

Idle == [op |-> "none", found |-> [s \in Sids |-> NoToken], todo |-> {},
         new |-> NoToken, saving |-> {}, cols |-> {}]

Created(s) == session[s].hash # NoToken
Hit(r, s) == req[r].found[s] # NoToken
Revokes(r) == req[r].op \in {"logout", "logoutAll"}

(* Mutant: the entity is built by create(), whose is_active defaults to true. *)
EntityByCreate(q, s) ==
  [hash |-> IF q.op = "refresh" THEN q.new ELSE q.found[s], active |-> TRUE]

(* What the handler of request q saves for session s: refresh assigns the new *)
(* hash to an entity it found active, logout clears is_active of what it read.*)
Entity(q, s) ==
  [hash   |-> IF q.op = "refresh" THEN q.new ELSE q.found[s],
   active |-> q.op = "refresh"]

(* save()'s diff: the columns of entity e that differ from the row. *)
Changed(e, row) == {c \in Columns : IF c = "hash" THEN e.hash # row.hash
                                                  ELSE e.active # row.active}

(* save()'s UPDATE: the columns cols of row are set from entity e. *)
Write(row, e, cols) ==
  [hash   |-> IF "hash" \in cols THEN e.hash ELSE row.hash,
   active |-> IF "active" \in cols THEN e.active ELSE row.active]

(* Mutants: a token numbered past the last one; a generator that repeats itself. *)
SkippingToken == minted + 2
RepeatedToken == IF minted = 0 THEN 1 ELSE minted

NextToken == minted + 1

------------------------------------------------------------------------------
(* createSession's INSERT.  Neither users.status nor the membership is asked. *)
Login(s) ==
  /\ ~Created(s)
  /\ minted < MaxTokens
  /\ session' = [session EXCEPT ![s] = [hash |-> NextToken, active |-> TRUE]]
  /\ minted' = minted + 1
  /\ UNCHANGED <<expired, req, history>>

(* Seven days after the login.  expires_at is never moved, and no job looks at it. *)
Expire(s) ==
  /\ Created(s)
  /\ s \notin expired
  /\ expired' = expired \cup {s}
  /\ UNCHANGED <<session, minted, req, history>>

------------------------------------------------------------------------------
(* Requests: the find, one save per found session, the answer *)

(* The request after a find that returned the rows of S. *)
Opened(op, S, new) ==
  [op |-> op, todo |-> S, new |-> new, saving |-> {}, cols |-> {},
   found |-> [s \in Sids |-> IF s \in S THEN session[s].hash ELSE NoToken]]

Begin(r, op, S, new) ==
  /\ req[r] = Idle
  /\ req' = [req EXCEPT ![r] = Opened(op, S, new)]

(* Mutant: the find forgets is_active. *)
RedeemableRevoked(s) == Created(s) /\ s \notin expired

(* The session a presented token finds: active, and not past expires_at. *)
Redeemable(s) == Created(s) /\ session[s].active /\ s \notin expired

(* A refresh presents the token whose hash the row of s holds.  The new pair *)
(* is minted before the save.  A token that redeems nothing is answered 401  *)
(* and changes no session.                                                   *)
RefreshFind(r, s) ==
  /\ Redeemable(s)
  /\ minted < MaxTokens
  /\ Begin(r, "refresh", {s}, NextToken)
  /\ minted' = minted + 1
  /\ UNCHANGED <<session, expired, history>>

(* The find of logoutSession has no is_active filter. *)
LogoutFind(r, s) ==
  /\ Created(s)
  /\ Begin(r, "logout", {s}, NoToken)
  /\ UNCHANGED <<session, expired, minted, history>>

(* The find of logoutAllSessions: one user, and only the app of the caller's JWT. *)
LogoutAllHits(u, a) ==
  {s \in Sids : Created(s) /\ session[s].active /\ OwnerOf[s] = u /\ AppOf[s] = a}

LogoutAllFind(r, u, a) ==
  /\ Begin(r, "logoutAll", LogoutAllHits(u, a), NoToken)
  /\ UNCHANGED <<session, expired, minted, history>>

(* save()'s SELECT: the diff is against the row as it is now. *)
Selected(q, s) ==
  [q EXCEPT !.saving = {s}, !.cols = Changed(Entity(q, s), session[s])]

SaveSelect(r, s) ==
  /\ s \in req[r].todo
  /\ req[r].saving = {}
  /\ req' = [req EXCEPT ![r] = Selected(req[r], s)]
  /\ UNCHANGED <<session, expired, minted, history>>

Saved(q) == [q EXCEPT !.todo = @ \ q.saving, !.saving = {}, !.cols = {}]

(* save()'s UPDATE, and the histories of what a refresh did to the row. *)
SaveUpdate(r, s) ==
  LET new == Write(session[s], Entity(req[r], s), req[r].cols)
      refreshing == req[r].op = "refresh"
      reviving == refreshing /\ new.active /\ ~session[s].active
  IN /\ s \in req[r].saving
     /\ session' = [session EXCEPT ![s] = new]
     /\ req' = [req EXCEPT ![r] = Saved(req[r])]
     /\ spent' = IF refreshing THEN spent \cup {session[s].hash} ELSE spent
     /\ revived' = IF reviving THEN revived \cup {s} ELSE revived
     /\ overtaken' = [q \in Reqs |-> IF reviving /\ Revokes(q) /\ Hit(q, s)
                                     THEN overtaken[q] \cup {s} ELSE overtaken[q]]
     /\ UNCHANGED <<expired, minted>>

End(r) ==
  /\ req' = [req EXCEPT ![r] = Idle]
  /\ overtaken' = [overtaken EXCEPT ![r] = {}]
  /\ UNCHANGED <<session, expired, minted, spent, revived>>

(* All saves are done: the client gets its answer. *)
Respond(r) ==
  /\ req[r].op # "none"
  /\ req[r].todo = {}
  /\ End(r)

(* An await of the handler rejects, or the process stops: what was saved stays. *)
Fail(r) ==
  /\ req[r].op # "none"
  /\ req[r].todo # {}
  /\ End(r)

------------------------------------------------------------------------------
(* The admin endpoints write with one UPDATE statement *)

Deactivate(S) ==
  /\ session' = [s \in Sids |-> IF s \in S THEN [session[s] EXCEPT !.active = FALSE]
                                           ELSE session[s]]
  /\ UNCHANGED <<expired, minted, req, history>>

AdminRevokeSession(s) == Deactivate({s})

AdminRevokeUser(u) == Deactivate({s \in Sids : OwnerOf[s] = u})

------------------------------------------------------------------------------
Init ==
  /\ session = [s \in Sids |-> NoRow]
  /\ expired = {}
  /\ minted = 0
  /\ req = [r \in Reqs |-> Idle]
  /\ spent = {}
  /\ revived = {}
  /\ overtaken = [r \in Reqs |-> {}]

Next ==
  \/ \E s \in Sids : Login(s) \/ Expire(s) \/ AdminRevokeSession(s)
  \/ \E u \in Users : AdminRevokeUser(u)
  \/ \E r \in Reqs, s \in Sids : RefreshFind(r, s) \/ LogoutFind(r, s)
  \/ \E r \in Reqs, u \in Users, a \in Apps : LogoutAllFind(r, u, a)
  \/ \E r \in Reqs, s \in Sids : SaveSelect(r, s) \/ SaveUpdate(r, s)
  \/ \E r \in Reqs : Respond(r) \/ Fail(r)

Spec == Init /\ [][Next]_vars

------------------------------------------------------------------------------
(* Properties *)

TypeOK ==
  /\ session \in [Sids -> Row]
  /\ \A s \in Sids : session[s].hash \in Tokens \cup {NoToken}
  /\ expired \subseteq Sids
  /\ minted \in 0..MaxTokens
  /\ req \in [Reqs -> Request]
  /\ \A r \in Reqs : req[r].new \in Tokens \cup {NoToken}
  /\ spent \subseteq Tokens
  /\ revived \subseteq Sids
  /\ overtaken \in [Reqs -> SUBSET Sids]

(* The tokens that the row of s holds or that a request under way may still  *)
(* write into it.                                                            *)
TokensOf(s) ==
  {session[s].hash}
  \cup {req[r].found[s] : r \in {x \in Reqs : Hit(x, s)}}
  \cup {req[r].new : r \in {x \in Reqs : Hit(x, s) /\ req[x].op = "refresh"}}

(* A refresh token belongs to one session: findOne by refresh_token_hash in  *)
(* refreshAccessToken, which has no unique index to rely on, never has a     *)
(* choice, and no interleaving of saves moves a token to another row.        *)
TokenOfOneSession ==
  \A s, t \in Sids : s # t => TokensOf(s) \cap TokensOf(t) \subseteq {NoToken}

(* A logout that has saved a session has made it inactive, unless a refresh  *)
(* brought it back while that logout was under way: logoutSession and        *)
(* logoutAllSessions answer only then.                                       *)
RevocationTakesEffect ==
  \A r \in Reqs, s \in Sids :
    Revokes(r) /\ Hit(r, s) /\ s \notin req[r].todo /\ session[s].active
      => s \in overtaken[r]

(* A token that refreshAccessToken has rotated out redeems nothing, however  *)
(* refreshes and logouts overlap, as long as no refresh has brought the      *)
(* session back from a logout; the stale hash that logout writes back can    *)
(* only land in a row that is inactive.                                      *)
SpentTokenIsDead ==
  \A s \in Sids : session[s].active /\ session[s].hash \in spent => s \in revived

(* A revoked session comes back only through a refresh that found it before  *)
(* the revocation; once none is left it stays revoked, whatever stale        *)
(* entities the logouts still hold.                                          *)
Claims(s) == {r \in Reqs : req[r].op = "refresh" /\ s \in req[r].todo}
Dead(s) == Created(s) /\ ~session[s].active /\ Claims(s) = {}

DeadStaysDead == [][\A s \in Sids : Dead(s) => Dead(s)']_vars

(* 05_SECURITY_DEEP_DIVE.md: "Old token is IMMEDIATELY revoked".  Two        *)
(* refreshes have both saved their result for one token and will both answer *)
(* 200; find and save of refreshAccessToken are not one step.                *)
RedeemedOnce ==
  \A r1, r2 \in Reqs : \A s \in Sids :
    (/\ r1 # r2
     /\ req[r1].op = "refresh" /\ req[r1].todo = {} /\ Hit(r1, s)
     /\ req[r2].op = "refresh" /\ req[r2].todo = {})
      => req[r1].found[s] # req[r2].found[s]

(* 01_ARCHITECTURE.md, revoke a device: "Mark session as inactive", "Revoke  *)
(* refresh token".  A logoutSession about to answer 200 has left its session *)
(* revoked; the stale entity of a refresh under way may be saved over it.    *)
LogoutInvalidates ==
  \A r \in Reqs, s \in Sids :
    req[r].op = "logout" /\ req[r].todo = {} /\ Hit(r, s) => ~session[s].active

------------------------------------------------------------------------------
(* The refinement: a row is live or revoked, a refresh that has not written  *)
(* its row yet is a claim.                                                   *)
Phase(s) == IF ~Created(s) THEN "none"
            ELSE IF session[s].active THEN "live" ELSE "revoked"

Contract == INSTANCE SessionContract
  WITH phase <- [s \in Sids |-> Phase(s)], claims <- [s \in Sids |-> Claims(s)]

(* Whatever the rows, tokens and stale entities do, the handlers keep the    *)
(* promise of SessionContract.                                               *)
KeepsContract == Contract!ContractSpec
==============================================================================
