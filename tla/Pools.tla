------------------------------- MODULE Pools -------------------------------
(* One pool (a row of apps), one user's membership with its roles, and the   *)
(* access tokens that carry them: AdminService.updatePoolConfig,             *)
(* regeneratePoolApiKey, assignUserRole, removeUserRole and deleteApp, the   *)
(* minting in AuthService.createSession and refreshAccessToken, RoleGuard    *)
(* and PermissionGuard.                                                      *)
(*                                                                           *)
(* The handlers save the row, or the list of roles, that they found.  A save *)
(* SELECTs what is stored, then writes where the entity differs: an UPDATE   *)
(* of columns, INSERTs and DELETEs of junction rows.  If nothing is stored   *)
(* any more under the entity's id, the save is an INSERT of the entity.      *)
EXTENDS Naturals

CONSTANTS
  Settings, \* settings in apps.config
  Roles,    \* ids of the pool's roles; each carries a permission of its own
  JwtLife,  \* ACCESS_TOKEN_EXPIRY_SECONDS, in ticks
  Reqs,     \* slots for requests under way at one time
  MaxKeys   \* bound: API keys made in a behaviour

ASSUME PoolsAssumption ==
  /\ JwtLife \in Nat \ {0}
  /\ MaxKeys \in Nat
  /\ Settings \cap Roles = {}
  /\ "key" \notin Settings \cup Roles

VARIABLES
  pool,    \* the row of apps: whether it is there, the settings that are on, api_key
  issued,  \* API keys made so far, numbered from 1
  member,  \* whether the row of user_apps is there
  held,    \* its junction rows in user_app_roles
  defined, \* whether the roles still are rows of table roles
  left,    \* left[o]: ticks for which some token with role o is still accepted
  since,   \* history: since[o], ticks since o was last held, up to JwtLife, and
           \* JwtLife at once if no token has o
  req,     \* req[r]: what the request in slot r is doing, and what it has read
  touched  \* history: touched[r], what of its copy others have changed since r's find

vars == <<pool, issued, member, held, defined, left, since, req, touched>>
rows == <<pool, issued, member, held, defined>>
tokens == <<left, since>>

Things == Settings \cup Roles \cup {"key"}
Row == [exists : BOOLEAN, config : SUBSET Settings, key : 0..MaxKeys]
NoRow == [exists |-> FALSE, config |-> {}, key |-> 0]
PoolOps == {"config", "key"}
RoleOps == {"assign", "remove"}
Steps == {"idle", "lookup", "select", "update", "insert", "done"}

(* what: the setting to switch on, or the role; list, key: the settings or   *)
(* roles, and api_key, of the entity (of "key", the new one); cols, adds,    *)
(* drops: the columns, or junction rows, the statement on its way writes.    *)
Request == [op : PoolOps \cup RoleOps \cup {"none"}, step : Steps, what : SUBSET Things,
            list : SUBSET Things, key : 0..MaxKeys, cols : SUBSET {"config", "key"},
            adds : SUBSET Roles, drops : SUBSET Roles]

Idle == [op |-> "none", step |-> "idle", what |-> {}, list |-> {}, key |-> 0,
         cols |-> {}, adds |-> {}, drops |-> {}]

At(r, ops, step) == req[r].op \in ops /\ req[r].step = step

Begin(r, op, step, what, list, key) ==
  /\ req[r] = Idle
  /\ req' = [req EXCEPT ![r] = [Idle EXCEPT !.op = op, !.step = step, !.what = what,
                                            !.list = list, !.key = key]]

Go(r, step) == req' = [req EXCEPT ![r].step = step, ![r].cols = {}, ![r].adds = {}, ![r].drops = {}]

(* What a request of this operation has a copy of. *)
CopiedBy(op) ==
  IF op \in PoolOps THEN Settings \cup {"key"} ELSE IF op \in RoleOps THEN Roles ELSE {}

(* The things of T are changed while the requests of S are under way. *)
Touch(S, T) ==
  touched' = [r \in Reqs |-> IF r \in S THEN touched[r] \cup (T \cap CopiedBy(req[r].op))
                                        ELSE touched[r]]

Differing(A, B) == (A \ B) \cup (B \ A)

PoolDiff(p, q) ==
  Differing(p.config, q.config) \cup (IF p.key # q.key THEN {"key"} ELSE {})

(* The roles of H are held now, or were until this step. *)
Held(H) ==
  since' = [o \in Roles |-> IF o \in H /\ left[o] > 0 THEN 0 ELSE since[o]]

----------------------------------------------------------------------------
(* updatePoolConfig and regeneratePoolApiKey *)

(* Mutant: the row is not looked up but made up and saved. *)
MadeUpConfig(r, s) ==
  /\ Begin(r, "config", "select", {s}, pool.config, pool.key)
  /\ UNCHANGED <<rows, tokens, touched>>

UpdateConfig(r, s) ==
  /\ pool.exists
  /\ Begin(r, "config", "select", {s}, pool.config, pool.key)
  /\ UNCHANGED <<rows, tokens, touched>>

(* The new key (and secret) goes into the row as it was found. *)
RegenerateKey(r) ==
  /\ pool.exists
  /\ issued < MaxKeys
  /\ Begin(r, "key", "select", {}, pool.config, issued + 1)
  /\ issued' = issued + 1
  /\ UNCHANGED <<pool, member, held, defined, tokens, touched>>

(* Mutant: the settings given are not merged into those found. *)
ConfigAsGiven(q) == IF q.op = "config" THEN q.what ELSE q.list

Config(q) == q.list \cup q.what

PoolEntity(q) == [exists |-> TRUE, config |-> Config(q), key |-> q.key]

(* save()'s SELECT. *)
SelectPool(r) ==
  LET e == PoolEntity(req[r])
  IN /\ At(r, PoolOps, "select")
     /\ req' = [req EXCEPT
          ![r].step = IF pool.exists THEN "update" ELSE "insert",
          ![r].cols = {c \in {"config", "key"} : pool.exists /\ e[c] # pool[c]}]
     /\ UNCHANGED <<rows, tokens, touched>>

WritePool(r, row) ==
  /\ pool' = row
  /\ Go(r, "done")
  /\ Touch(Reqs \ {r}, PoolDiff(pool, row))
  /\ UNCHANGED <<issued, member, held, defined, tokens>>

(* save()'s UPDATE: of no row, if the pool has been deleted since. *)
UpdatePool(r) ==
  LET e == PoolEntity(req[r])
  IN /\ At(r, PoolOps, "update")
     /\ WritePool(r, IF ~pool.exists THEN pool
                     ELSE [pool EXCEPT !.config = IF "config" \in req[r].cols THEN e.config ELSE @,
                                       !.key = IF "key" \in req[r].cols THEN e.key ELSE @])

(* save()'s INSERT: the primary key refuses a second one. *)
InsertPool(r) ==
  /\ At(r, PoolOps, "insert")
  /\ ~pool.exists
  /\ WritePool(r, PoolEntity(req[r]))

----------------------------------------------------------------------------
(* assignUserRole and removeUserRole *)

AssignFind(r, o) ==
  /\ member
  /\ Begin(r, "assign", "lookup", {o}, held, 0)
  /\ UNCHANGED <<rows, tokens, touched>>

(* The role is found, and nothing is saved if the list has it. *)
AssignLookup(r) ==
  /\ At(r, {"assign"}, "lookup")
  /\ defined
  /\ Go(r, IF req[r].what \subseteq req[r].list THEN "done" ELSE "select")
  /\ UNCHANGED <<rows, tokens, touched>>

(* A role the list does not have is removed from it all the same. *)
RemoveFind(r, o) ==
  /\ member
  /\ Begin(r, "remove", "select", {o}, held, 0)
  /\ UNCHANGED <<rows, tokens, touched>>

(* Mutant: the role assigned is not added to those found. *)
RoleListAsGiven(q) == IF q.op = "assign" THEN q.what ELSE q.list \ q.what

RoleList(q) == IF q.op = "assign" THEN q.list \cup q.what ELSE q.list \ q.what

SelectRoles(r) ==
  /\ At(r, RoleOps, "select")
  /\ req' = [req EXCEPT ![r].step = IF member THEN "update" ELSE "insert",
                        ![r].adds = RoleList(req[r]) \ held,
                        ![r].drops = held \ RoleList(req[r])]
  /\ UNCHANGED <<rows, tokens, touched>>

(* The junction rows refer to rows that must be there, and none is there twice. *)
Insertable(S) == S # {} => member /\ defined /\ S \cap held = {}

UpdateRoles(r) ==
  LET new == (held \cup req[r].adds) \ req[r].drops
  IN /\ At(r, RoleOps, "update")
     /\ Insertable(req[r].adds)
     /\ held' = new
     /\ Go(r, "done")
     /\ Touch(Reqs \ {r}, Differing(held, new))
     /\ Held(held \cup new)
     /\ UNCHANGED <<pool, issued, member, defined, left>>

(* The membership is inserted again, if its pool is there.  It has no roles: *)
(* they went with the first pool.                                            *)
InsertMember(r) ==
  /\ At(r, RoleOps, "insert")
  /\ pool.exists /\ ~member
  /\ req[r].adds = {}
  /\ member' = TRUE
  /\ Go(r, "done")
  /\ UNCHANGED <<pool, issued, held, defined, tokens, touched>>

----------------------------------------------------------------------------
(* Mutant: the pool's memberships go, and their junction rows stay. *)
DeleteLoosely ==
  /\ pool.exists
  /\ pool' = NoRow
  /\ member' = FALSE
  /\ Touch(Reqs, Things)
  /\ UNCHANGED <<issued, held, defined, tokens, req>>

(* One DELETE, which cascades to the memberships, roles and junction rows. *)
DeleteApp ==
  /\ pool.exists
  /\ pool' = NoRow
  /\ member' = FALSE
  /\ held' = {}
  /\ defined' = FALSE
  /\ Held(held)
  /\ Touch(Reqs, Things)
  /\ UNCHANGED <<issued, left, req>>

Finish(r) ==
  /\ req' = [req EXCEPT ![r] = Idle]
  /\ touched' = [touched EXCEPT ![r] = {}]
  /\ UNCHANGED <<rows, tokens>>

Answer(r) == req[r].step = "done" /\ Finish(r)

(* A statement fails: by chance, by a constraint, or with the process. *)
Fail(r) == req[r].step \notin {"idle", "done"} /\ Finish(r)

----------------------------------------------------------------------------
(* Access tokens.  Of the tokens with a role only the last to run out counts. *)

(* Mutant: a refresh copies the roles of the token it replaces. *)
RolesAsBefore == held \cup {o \in Roles : left[o] > 0}

(* createSession and refreshAccessToken both read the roles from the database. *)
RolesToMint == held

Mint ==
  /\ left' = [o \in Roles |-> IF o \in RolesToMint THEN JwtLife ELSE left[o]]
  /\ since' = [o \in Roles |-> IF o \in held THEN 0 ELSE since[o]]
  /\ UNCHANGED <<rows, req, touched>>

Tick ==
  /\ left' = [o \in Roles |-> IF left[o] > 0 THEN left[o] - 1 ELSE 0]
  /\ since' = [o \in Roles |-> IF left[o] <= 1 THEN JwtLife
                               ELSE IF o \in held THEN 0
                               ELSE IF since[o] < JwtLife THEN since[o] + 1 ELSE JwtLife]
  /\ UNCHANGED <<rows, req, touched>>

(* JwtAuthGuard and RoleGuard: some token that has not run out has the role. *)
RoleGuardPasses(required) == \E o \in required : left[o] > 0

(* PermissionGuard asks the database. *)
PermissionGuardPasses(required) == \E o \in required : o \in held

----------------------------------------------------------------------------
Init ==
  /\ pool = [exists |-> TRUE, config |-> {}, key |-> 0]
  /\ issued = 0
  /\ member = TRUE
  /\ held = {}
  /\ defined = TRUE
  /\ left = [o \in Roles |-> 0]
  /\ since = [o \in Roles |-> JwtLife]
  /\ req = [r \in Reqs |-> Idle]
  /\ touched = [r \in Reqs |-> {}]

Next ==
  \/ \E r \in Reqs, s \in Settings : UpdateConfig(r, s)
  \/ \E r \in Reqs : RegenerateKey(r) \/ SelectPool(r) \/ UpdatePool(r) \/ InsertPool(r)
  \/ \E r \in Reqs, o \in Roles : AssignFind(r, o) \/ RemoveFind(r, o)
  \/ \E r \in Reqs : AssignLookup(r) \/ SelectRoles(r) \/ UpdateRoles(r) \/ InsertMember(r)
  \/ \E r \in Reqs : Answer(r) \/ Fail(r)
  \/ DeleteApp
  \/ Mint
  \/ Tick

Spec == Init /\ [][Next]_vars

----------------------------------------------------------------------------
(* Properties *)

TypeOK ==
  /\ pool \in Row
  /\ issued \in 0..MaxKeys
  /\ {member, defined} \subseteq BOOLEAN
  /\ held \subseteq Roles /\ (held # {} => member /\ defined)
  /\ left \in [Roles -> 0..JwtLife]
  /\ since \in [Roles -> 0..JwtLife]
  /\ req \in [Reqs -> Request]
  /\ touched \in [Reqs -> SUBSET Things]

(* A request on the pool's row that is about to answer has switched on the   *)
(* setting it was given, or put in its key, and everything else is as it     *)
(* found it, except for what others have changed meanwhile: no setting and   *)
(* no key is lost or comes back without an overlap.                          *)
PoolAsAsked ==
  \A r \in Reqs :
    At(r, PoolOps, "done") =>
      /\ \A s \in Settings \ touched[r] : s \in pool.config <=> s \in req[r].list \cup req[r].what
      /\ "key" \notin touched[r] => pool.key = req[r].key

(* The same for roles: an assignment or a removal that is about to answer    *)
(* has given or taken just that role, except for roles that others have      *)
(* given or taken meanwhile (a removal may give one back).                   *)
RolesAsAsked ==
  \A r \in Reqs :
    At(r, RoleOps, "done") =>
      \A o \in Roles \ touched[r] :
        o \in held <=> IF o \in req[r].what THEN req[r].op = "assign" ELSE o \in req[r].list

(* A deleted pool that no request has found before its deletion stays        *)
(* deleted: updatePoolConfig and regeneratePoolApiKey insert the row they    *)
(* hold if it is gone.                                                       *)
Gone == ~pool.exists /\ \A r \in Reqs : req[r].op \notin PoolOps

DeletedForGood == [][Gone => Gone']_vars

(* RoleGuard lets pass on a role, where PermissionGuard would not, only if   *)
(* the user held the role within the life of a token, however assignments,   *)
(* removals, the deletion of the pool, logins and refreshes interleave.      *)
GuardsAgreeInTime ==
  \A o \in Roles :
    RoleGuardPasses({o}) /\ ~PermissionGuardPasses({o}) => since[o] < JwtLife
=============================================================================
