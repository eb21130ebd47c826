---------------------------- MODULE PoolsProofs ----------------------------
(* Proofs about Pools, for any settings, roles, requests, keys and life of a *)
(* token.  The inductive invariant IInv says what a request between its find *)
(* and its answer still knows of the rows.                                   *)
EXTENDS Pools, TLAPS

PoolThings == Settings \cup {"key"}

(* A request on the pool's row: if the pool is gone, or was at its SELECT,   *)
(* the request has missed everything.  What it does not write is as in its   *)
(* entity, save for what others have changed.                                *)
PoolOK(r) ==
  req[r].op \in PoolOps =>
    /\ req[r].list \cup req[r].what \subseteq Settings
    /\ ~pool.exists \/ req[r].step = "insert" => PoolThings \subseteq touched[r]
    /\ req[r].step = "update" =>
         /\ "config" \notin req[r].cols =>
              \A s \in Settings \ touched[r] : s \in pool.config <=> s \in Config(req[r])
         /\ "key" \notin req[r].cols /\ "key" \notin touched[r] => pool.key = req[r].key
    /\ req[r].step = "done" =>
         /\ \A s \in Settings \ touched[r] : s \in pool.config <=> s \in req[r].list \cup req[r].what
         /\ "key" \notin touched[r] => pool.key = req[r].key

(* A request on the list of roles: until its SELECT the list is as it found  *)
(* it, then its statement makes it what was asked.                           *)
RolesOK(r) ==
  req[r].op \in RoleOps =>
    /\ req[r].list \cup req[r].what \subseteq Roles
    /\ ~member \/ req[r].step = "insert" => Roles \subseteq touched[r]
    /\ req[r].step \in {"lookup", "select"} =>
         \A o \in Roles \ touched[r] : o \in held <=> o \in req[r].list
    /\ req[r].step = "lookup" => req[r].op = "assign"
    /\ req[r].step = "update" =>
         \A o \in Roles \ touched[r] :
           o \in (held \cup req[r].adds) \ req[r].drops <=> o \in RoleList(req[r])
    /\ req[r].step = "done" =>
         \A o \in Roles \ touched[r] :
           o \in held <=> IF o \in req[r].what THEN req[r].op = "assign" ELSE o \in req[r].list

(* A role and the tokens that have it: they run out no later than one that   *)
(* was minted when the role was last held.                                   *)
TokenOK(o) == left[o] > 0 /\ o \notin held => since[o] + left[o] <= JwtLife

RequestsOK == \A r \in Reqs : PoolOK(r) /\ RolesOK(r)

TokensOK == \A o \in Roles : TokenOK(o)

IInv == TypeOK /\ RequestsOK /\ TokensOK

----------------------------------------------------------------------------
(* Lemmas about the operators *)

LEMMA IdleTyped ==
  /\ Idle \in Request
  /\ Idle.op = "none"
  /\ Idle.step = "idle"
BY PoolsAssumption DEF Idle, Request, Steps

LEMMA BeginEffect ==
  ASSUME TypeOK, NEW r \in Reqs, NEW op \in PoolOps \cup RoleOps, NEW step \in Steps,
         NEW what \in SUBSET Things, NEW list \in SUBSET Things, NEW key \in 0..MaxKeys,
         Begin(r, op, step, what, list, key)
  PROVE  /\ req[r] = Idle
         /\ req' \in [Reqs -> Request]
         /\ \A q \in Reqs \ {r} : req'[q] = req[q]
         /\ req'[r].op = op /\ req'[r].step = step
         /\ req'[r].what = what /\ req'[r].list = list /\ req'[r].key = key
<1> DEFINE q == [Idle EXCEPT !.op = op, !.step = step, !.what = what, !.list = list, !.key = key]
<1>1. q \in Request
  BY DEF Idle, Request, PoolOps, RoleOps
<1>2. q.op = op /\ q.step = step /\ q.what = what /\ q.list = list /\ q.key = key
  BY DEF Idle
<1>3. req[r] = Idle /\ req' = [req EXCEPT ![r] = q]
  BY DEF Begin
<1> HIDE DEF q
<1> QED
  BY <1>1, <1>2, <1>3 DEF TypeOK

LEMMA GoEffect ==
  ASSUME TypeOK, NEW r \in Reqs, NEW step \in Steps, Go(r, step)
  PROVE  /\ req' \in [Reqs -> Request]
         /\ \A q \in Reqs \ {r} : req'[q] = req[q]
         /\ req'[r].op = req[r].op /\ req'[r].step = step
         /\ req'[r].what = req[r].what /\ req'[r].list = req[r].list
         /\ req'[r].key = req[r].key
<1>1. req[r] \in Request
  BY DEF TypeOK
<1> DEFINE q == [req[r] EXCEPT !.step = step, !.cols = {}, !.adds = {}, !.drops = {}]
<1>2. /\ q \in Request /\ q.op = req[r].op /\ q.step = step
      /\ q.what = req[r].what /\ q.list = req[r].list /\ q.key = req[r].key
  BY <1>1 DEF Request
<1>3. req' = [req EXCEPT ![r] = q]
  BY DEF Go, TypeOK
<1> HIDE DEF q
<1> QED
  BY <1>2, <1>3 DEF TypeOK

LEMMA TouchEffect ==
  ASSUME TypeOK, NEW S, NEW T \in SUBSET Things, Touch(S, T)
  PROVE  /\ touched' \in [Reqs -> SUBSET Things]
         /\ \A q \in Reqs : touched[q] \subseteq touched'[q]
         /\ \A q \in Reqs \cap S : T \cap CopiedBy(req[q].op) \subseteq touched'[q]
BY DEF Touch, TypeOK

LEMMA FinishEffect ==
  ASSUME TypeOK, NEW r \in Reqs, Finish(r)
  PROVE  /\ req' \in [Reqs -> Request]
         /\ touched' \in [Reqs -> SUBSET Things]
         /\ \A q \in Reqs \ {r} : req'[q] = req[q] /\ touched'[q] = touched[q]
         /\ req'[r] = Idle
         /\ touched'[r] = {}
         /\ UNCHANGED <<rows, tokens>>
BY IdleTyped DEF Finish, TypeOK

(* A request that does not act keeps what it knows, if everything that       *)
(* changes of its copy is noted as touched.                                  *)
PoolNoted(q) ==
  req[q].op \in PoolOps =>
    /\ \A s \in Settings \ touched'[q] : s \in pool'.config <=> s \in pool.config
    /\ "key" \notin touched'[q] => pool'.key = pool.key
    /\ ~pool'.exists => ~pool.exists \/ PoolThings \subseteq touched'[q]

RolesNoted(q) ==
  req[q].op \in RoleOps =>
    /\ \A o \in Roles \ touched'[q] : o \in held' <=> o \in held
    /\ ~member' => ~member \/ Roles \subseteq touched'[q]

LEMMA PoolOther ==
  ASSUME NEW q \in Reqs, PoolOK(q), PoolNoted(q),
         req'[q] = req[q], touched[q] \subseteq touched'[q]
  PROVE  PoolOK(q)'
<1> SUFFICES ASSUME req[q].op \in PoolOps PROVE PoolOK(q)'
  BY DEF PoolOK
<1>1. Config(req[q])' = Config(req[q])
  BY DEF Config
<1>2. PoolThings' = PoolThings
  BY DEF PoolThings
<1> QED
  BY <1>1, <1>2 DEF PoolOK, PoolNoted

LEMMA RolesOther ==
  ASSUME NEW q \in Reqs, RolesOK(q), RolesNoted(q),
         req'[q] = req[q], touched[q] \subseteq touched'[q]
  PROVE  RolesOK(q)'
<1> SUFFICES ASSUME req[q].op \in RoleOps PROVE RolesOK(q)'
  BY DEF RolesOK
<1>1. RoleList(req[q])' = RoleList(req[q])
  BY DEF RoleList
<1> QED
  BY <1>1 DEF RolesOK, RolesNoted

(* What WritePool, UpdateRoles and DeleteApp change, they note. *)
LEMMA DiffNoted ==
  ASSUME PoolsAssumption, TypeOK, NEW q \in Reqs, req[q].op \in PoolOps,
         pool' \in Row, pool.exists => pool'.exists,
         PoolDiff(pool, pool') \cap CopiedBy(req[q].op) \subseteq touched'[q]
  PROVE  PoolNoted(q)
BY DEF PoolNoted, PoolDiff, Differing, CopiedBy, PoolsAssumption, TypeOK, Row

LEMMA OpsApart ==
  /\ \A op \in PoolOps : op \notin RoleOps /\ op # "none" /\ CopiedBy(op) = PoolThings
  /\ \A op \in RoleOps : op \notin PoolOps /\ op # "none" /\ CopiedBy(op) = Roles
BY DEF PoolOps, RoleOps, CopiedBy, PoolThings

LEMMA NothingNoted ==
  ASSUME UNCHANGED <<pool, member, held>>, NEW q
  PROVE  PoolNoted(q) /\ RolesNoted(q)
BY DEF PoolNoted, RolesNoted

LEMMA OneActs ==
  ASSUME RequestsOK, NEW r \in Reqs, PoolOK(r)', RolesOK(r)',
         \A q \in Reqs \ {r} : /\ req'[q] = req[q] /\ touched[q] \subseteq touched'[q]
                               /\ PoolNoted(q) /\ RolesNoted(q)
  PROVE  RequestsOK'
<1> SUFFICES ASSUME NEW q \in Reqs \ {r} PROVE PoolOK(q)' /\ RolesOK(q)'
  BY DEF RequestsOK
<1>1. PoolOK(q) /\ RolesOK(q)
  BY DEF RequestsOK
<1> QED
  BY <1>1, PoolOther, RolesOther

LEMMA NoneActs ==
  ASSUME RequestsOK,
         \A q \in Reqs : /\ req'[q] = req[q] /\ touched[q] \subseteq touched'[q]
                         /\ PoolNoted(q) /\ RolesNoted(q)
  PROVE  RequestsOK'
<1> SUFFICES ASSUME NEW q \in Reqs PROVE PoolOK(q)' /\ RolesOK(q)'
  BY DEF RequestsOK
<1>1. PoolOK(q) /\ RolesOK(q)
  BY DEF RequestsOK
<1> QED
  BY <1>1, PoolOther, RolesOther

LEMMA TokensKept ==
  ASSUME TokensOK, UNCHANGED <<held, tokens>>
  PROVE  TokensOK'
BY DEF TokensOK, TokenOK, tokens

LEMMA OtherOp ==
  ASSUME NEW r, req'[r].op \notin PoolOps \cup RoleOps
  PROVE  PoolOK(r)' /\ RolesOK(r)'
BY DEF PoolOK, RolesOK, PoolOps, RoleOps

----------------------------------------------------------------------------
(* Requests on the pool's row *)

(* updatePoolConfig and regeneratePoolApiKey find a pool that is there. *)
LEMMA PoolBeginStep ==
  ASSUME IInv, NEW r \in Reqs, NEW op \in PoolOps, NEW what \in SUBSET Settings,
         NEW key \in 0..MaxKeys, pool.exists, issued' \in 0..MaxKeys,
         Begin(r, op, "select", what, pool.config, key),
         UNCHANGED <<pool, member, held, defined, tokens, touched>>
  PROVE  IInv'
<1>1. /\ req' \in [Reqs -> Request]
      /\ \A q \in Reqs \ {r} : req'[q] = req[q]
      /\ req'[r].op = op /\ req'[r].step = "select"
      /\ req'[r].what = what /\ req'[r].list = pool.config
  <2>1. /\ "select" \in Steps /\ op \in PoolOps \cup RoleOps
        /\ what \in SUBSET Things /\ pool.config \in SUBSET Things
    BY DEF Steps, IInv, TypeOK, Row, Things
  <2> QED
    BY <2>1, BeginEffect DEF IInv
<1>2. TypeOK'
  BY <1>1 DEF IInv, TypeOK, tokens
<1>3. RequestsOK'
  <2>1. PoolOK(r)'
    BY <1>1 DEF PoolOK, IInv, TypeOK, Row
  <2>2. RolesOK(r)'
    BY <1>1, OpsApart DEF RolesOK
  <2> QED
    BY <1>1, <2>1, <2>2, NothingNoted, OneActs DEF IInv
<1> QED
  BY <1>2, <1>3, TokensKept DEF IInv

LEMMA SelectPoolStep ==
  ASSUME IInv, NEW r \in Reqs, SelectPool(r)
  PROVE  IInv'
<1> DEFINE e == PoolEntity(req[r])
           st == IF pool.exists THEN "update" ELSE "insert"
           cs == {c \in {"config", "key"} : pool.exists /\ e[c] # pool[c]}
           q0 == [req[r] EXCEPT !.step = st, !.cols = cs]
<1>1. req[r] \in Request /\ req[r].op \in PoolOps /\ req[r].step = "select"
  BY DEF IInv, TypeOK, SelectPool, At
<1>2. UNCHANGED <<rows, tokens, touched>>
  BY DEF SelectPool
<1>3. st \in Steps /\ cs \subseteq {"config", "key"}
  BY DEF Steps
<1>4. /\ q0 \in Request /\ q0.op = req[r].op /\ q0.step = st /\ q0.cols = cs
      /\ q0.what = req[r].what /\ q0.list = req[r].list /\ q0.key = req[r].key
  <2> HIDE DEF st, cs
  <2> QED
    BY <1>1, <1>3 DEF Request
<1>5. req' = [req EXCEPT ![r] = q0]
  BY DEF SelectPool, IInv, TypeOK
<1>6. /\ "config" \notin cs /\ pool.exists => pool.config = req[r].list \cup req[r].what
      /\ "key" \notin cs /\ pool.exists => pool.key = req[r].key
  BY DEF PoolEntity, Config
<1>7. st = "update" => pool.exists
  OBVIOUS
<1>8. st = "insert" => ~pool.exists
  OBVIOUS
<1>9. st \in {"update", "insert"}
  OBVIOUS
<1> HIDE DEF q0, e, st, cs
<1>10. TypeOK'
  BY <1>2, <1>4, <1>5 DEF IInv, TypeOK, rows, tokens
<1>11. RequestsOK'
  <2>1. req'[r] = q0 /\ \A q \in Reqs \ {r} : req'[q] = req[q]
    BY <1>5 DEF IInv, TypeOK
  <2>2. PoolOK(r)
    BY DEF IInv, RequestsOK
  <2>3. PoolOK(r)'
    BY <1>1, <1>2, <1>4, <1>6, <1>7, <1>8, <1>9, <2>1, <2>2 DEF PoolOK, PoolThings, Config, rows
  <2>4. RolesOK(r)'
    BY <1>1, <1>4, <2>1, OpsApart DEF RolesOK
  <2> QED
    BY <1>2, <2>1, <2>3, <2>4, NothingNoted, OneActs DEF IInv, rows
<1> QED
  BY <1>2, <1>10, <1>11, TokensKept DEF IInv, rows

(* The write of a row in which everything is as asked that is not touched. *)
LEMMA WritePoolStep ==
  ASSUME IInv, NEW r \in Reqs, req[r].op \in PoolOps, NEW row \in Row, WritePool(r, row),
         pool.exists => row.exists,
         ~row.exists => PoolThings \subseteq touched[r],
         \A s \in Settings \ touched[r] : s \in row.config <=> s \in req[r].list \cup req[r].what,
         "key" \notin touched[r] => row.key = req[r].key
  PROVE  IInv'
<1>1. /\ pool' = row /\ Go(r, "done") /\ Touch(Reqs \ {r}, PoolDiff(pool, row))
      /\ UNCHANGED <<issued, member, held, defined, tokens>>
  BY DEF WritePool
<1>2. PoolDiff(pool, row) \in SUBSET Things
  BY DEF PoolDiff, Differing, IInv, TypeOK, Row, Things
<1>3. /\ req' \in [Reqs -> Request]
      /\ \A q \in Reqs \ {r} : req'[q] = req[q]
      /\ req'[r].op = req[r].op /\ req'[r].step = "done"
      /\ req'[r].what = req[r].what /\ req'[r].list = req[r].list
      /\ req'[r].key = req[r].key
  <2>1. "done" \in Steps
    BY DEF Steps
  <2> QED
    BY <1>1, <2>1, GoEffect DEF IInv
<1>4. /\ touched' \in [Reqs -> SUBSET Things]
      /\ \A q \in Reqs : touched[q] \subseteq touched'[q]
      /\ \A q \in Reqs \ {r} : PoolDiff(pool, row) \cap CopiedBy(req[q].op) \subseteq touched'[q]
  BY <1>1, <1>2, TouchEffect DEF IInv
<1>5. TypeOK'
  BY <1>1, <1>3, <1>4 DEF IInv, TypeOK, tokens
<1>6. RequestsOK'
  <2>1. PoolOK(r)'
    <3>1. req[r].list \cup req[r].what \subseteq Settings
      BY DEF IInv, RequestsOK, PoolOK
    <3> QED
      BY <1>1, <1>3, <1>4, <3>1 DEF PoolOK, PoolThings
  <2>2. RolesOK(r)'
    BY <1>3, OpsApart DEF RolesOK
  <2>3. ASSUME NEW q \in Reqs \ {r} PROVE PoolNoted(q) /\ RolesNoted(q)
    <3>1. RolesNoted(q)
      BY <1>1 DEF RolesNoted
    <3>2. PoolNoted(q)
      <4>1. CASE req[q].op \in PoolOps
        BY <1>1, <1>4, <4>1, DiffNoted, PoolsAssumption DEF IInv
      <4>2. CASE req[q].op \notin PoolOps
        BY <4>2 DEF PoolNoted
      <4> QED
        BY <4>1, <4>2
    <3> QED
      BY <3>1, <3>2
  <2> QED
    BY <1>3, <1>4, <2>1, <2>2, <2>3, OneActs DEF IInv
<1> QED
  BY <1>1, <1>5, <1>6, TokensKept DEF IInv

LEMMA UpdatePoolStep ==
  ASSUME IInv, NEW r \in Reqs, UpdatePool(r)
  PROVE  IInv'
<1> DEFINE e == PoolEntity(req[r])
           cs == req[r].cols
           row == IF ~pool.exists THEN pool
                  ELSE [pool EXCEPT !.config = IF "config" \in cs THEN e.config ELSE @,
                                    !.key = IF "key" \in cs THEN e.key ELSE @]
<1>1. /\ req[r] \in Request /\ req[r].op \in PoolOps /\ req[r].step = "update"
      /\ WritePool(r, row) /\ pool \in Row /\ PoolOK(r)
  BY DEF UpdatePool, At, IInv, TypeOK, RequestsOK
<1>2. e.config = Config(req[r]) /\ e.key = req[r].key
  BY DEF PoolEntity
<1>3. e.config \subseteq Settings /\ e.key \in 0..MaxKeys
  BY <1>1, <1>2 DEF PoolOK, Config, Request
<1>4. row \in Row /\ row.exists = pool.exists
  <2> HIDE DEF e, cs
  <2> QED
    BY <1>1, <1>3 DEF Row
<1>5. pool.exists => /\ row.config = IF "config" \in cs THEN e.config ELSE pool.config
                     /\ row.key = IF "key" \in cs THEN e.key ELSE pool.key
  <2> HIDE DEF e, cs
  <2> QED
    BY <1>1 DEF Row
<1> HIDE DEF row
<1>6. CASE ~pool.exists
  <2>1. PoolThings \subseteq touched[r]
    BY <1>1, <1>6 DEF PoolOK
  <2> QED
    BY <1>1, <1>4, <2>1, WritePoolStep, <1>6 DEF PoolThings
<1>7. CASE pool.exists
  <2>1. \A s \in Settings \ touched[r] : s \in row.config <=> s \in req[r].list \cup req[r].what
    BY <1>1, <1>2, <1>5, <1>7 DEF PoolOK, Config
  <2>2. "key" \notin touched[r] => row.key = req[r].key
    BY <1>1, <1>2, <1>5, <1>7 DEF PoolOK
  <2> QED
    BY <1>1, <1>4, <1>7, <2>1, <2>2, WritePoolStep
<1> QED
  BY <1>6, <1>7

LEMMA InsertPoolStep ==
  ASSUME IInv, NEW r \in Reqs, InsertPool(r)
  PROVE  IInv'
<1> DEFINE e == PoolEntity(req[r])
<1>1. /\ req[r] \in Request /\ req[r].op \in PoolOps /\ ~pool.exists
      /\ WritePool(r, e) /\ PoolOK(r)
  BY DEF InsertPool, At, IInv, TypeOK, RequestsOK
<1>2. e.exists /\ e.config = req[r].list \cup req[r].what /\ e.key = req[r].key
  BY DEF PoolEntity, Config
<1>3. e \in Row
  BY <1>1 DEF PoolEntity, Row, Config, PoolOK, Request
<1> HIDE DEF e
<1> QED
  BY <1>1, <1>2, <1>3, WritePoolStep

LEMMA PoolSteps ==
  ASSUME IInv, NEW r \in Reqs,
         \/ \E s \in Settings : UpdateConfig(r, s)
         \/ RegenerateKey(r) \/ SelectPool(r) \/ UpdatePool(r) \/ InsertPool(r)
  PROVE  IInv'
<1>1. pool.key \in 0..MaxKeys /\ issued \in 0..MaxKeys /\ "config" \in PoolOps /\ "key" \in PoolOps
  BY DEF IInv, TypeOK, Row, PoolOps
<1>2. ASSUME NEW s \in Settings, UpdateConfig(r, s) PROVE IInv'
  BY <1>1, <1>2, PoolBeginStep DEF UpdateConfig, rows
<1>3. CASE RegenerateKey(r)
  <2>1. issued + 1 \in 0..MaxKeys
    BY <1>1, <1>3, PoolsAssumption DEF RegenerateKey
  <2> QED
    BY <1>1, <1>3, <2>1, PoolBeginStep DEF RegenerateKey
<1> QED
  BY <1>2, <1>3, SelectPoolStep, UpdatePoolStep, InsertPoolStep

----------------------------------------------------------------------------
(* Requests on the list of roles *)

LEMMA RolesBeginStep ==
  ASSUME IInv, NEW r \in Reqs, NEW op \in RoleOps, NEW step \in {"lookup", "select"},
         NEW o \in Roles, member, step = "lookup" => op = "assign",
         Begin(r, op, step, {o}, held, 0), UNCHANGED <<rows, tokens, touched>>
  PROVE  IInv'
<1>1. /\ req' \in [Reqs -> Request]
      /\ \A q \in Reqs \ {r} : req'[q] = req[q]
      /\ req'[r].op = op /\ req'[r].step = step
      /\ req'[r].what = {o} /\ req'[r].list = held
  <2>1. /\ step \in Steps /\ op \in PoolOps \cup RoleOps
        /\ {o} \in SUBSET Things /\ held \in SUBSET Things
    BY DEF Steps, IInv, TypeOK, Things
  <2>2. 0 \in 0..MaxKeys
    BY PoolsAssumption
  <2> QED
    BY <2>1, <2>2, BeginEffect DEF IInv
<1>2. TypeOK'
  BY <1>1 DEF IInv, TypeOK, tokens, rows
<1>3. RequestsOK'
  <2>1. RolesOK(r)'
    BY <1>1 DEF RolesOK, IInv, TypeOK, rows
  <2>2. PoolOK(r)'
    BY <1>1, OpsApart DEF PoolOK
  <2> QED
    BY <1>1, <2>1, <2>2, NothingNoted, OneActs DEF IInv, rows
<1> QED
  BY <1>2, <1>3, TokensKept DEF IInv, rows

LEMMA AssignLookupStep ==
  ASSUME IInv, NEW r \in Reqs, AssignLookup(r)
  PROVE  IInv'
<1> DEFINE st == IF req[r].what \subseteq req[r].list THEN "done" ELSE "select"
<1>1. /\ req[r].op = "assign" /\ req[r].step = "lookup" /\ Go(r, st) /\ RolesOK(r)
      /\ UNCHANGED <<rows, tokens, touched>> /\ st \in {"done", "select"}
  BY DEF AssignLookup, At, IInv, RequestsOK
<1>2. st = "done" => req[r].what \subseteq req[r].list
  OBVIOUS
<1> HIDE DEF st
<1>3. /\ req' \in [Reqs -> Request]
      /\ \A q \in Reqs \ {r} : req'[q] = req[q]
      /\ req'[r].op = "assign" /\ req'[r].step = st
      /\ req'[r].what = req[r].what /\ req'[r].list = req[r].list
  <2>1. st \in Steps
    BY <1>1 DEF Steps
  <2> QED
    BY <1>1, <2>1, GoEffect DEF IInv
<1>4. TypeOK'
  BY <1>1, <1>3 DEF IInv, TypeOK, rows, tokens
<1>5. RequestsOK'
  <2>1. RolesOK(r)'
    BY <1>1, <1>2, <1>3 DEF RolesOK, RoleOps, rows
  <2>2. PoolOK(r)'
    BY <1>3 DEF PoolOK, PoolOps
  <2> QED
    BY <1>1, <1>3, <2>1, <2>2, NothingNoted, OneActs DEF IInv, rows
<1> QED
  BY <1>1, <1>4, <1>5, TokensKept DEF IInv, rows

LEMMA SelectRolesStep ==
  ASSUME IInv, NEW r \in Reqs, SelectRoles(r)
  PROVE  IInv'
<1> DEFINE new == RoleList(req[r])
           st == IF member THEN "update" ELSE "insert"
           q0 == [req[r] EXCEPT !.step = st, !.adds = new \ held, !.drops = held \ new]
<1>1. /\ req[r] \in Request /\ req[r].op \in RoleOps /\ RolesOK(r)
      /\ UNCHANGED <<rows, tokens, touched>> /\ held \subseteq Roles
  BY DEF SelectRoles, At, IInv, TypeOK, RequestsOK
<1>2. new \subseteq Roles
  BY <1>1 DEF RolesOK, RoleList
<1>3. st \in {"update", "insert"} /\ (st = "insert" => ~member)
  OBVIOUS
<1>4. req' = [req EXCEPT ![r] = q0]
  BY DEF SelectRoles, IInv, TypeOK
<1>5. RoleList(q0) = new
  BY <1>1 DEF RoleList, Request
<1> HIDE DEF new, st
<1>6. /\ q0 \in Request /\ q0.op = req[r].op /\ q0.step = st
      /\ q0.what = req[r].what /\ q0.list = req[r].list
      /\ q0.adds = new \ held /\ q0.drops = held \ new
  BY <1>1, <1>2, <1>3 DEF Request, Steps
<1> HIDE DEF q0
<1>7. req'[r] = q0 /\ req' \in [Reqs -> Request] /\ \A q \in Reqs \ {r} : req'[q] = req[q]
  BY <1>4, <1>6 DEF IInv, TypeOK
<1>8. TypeOK'
  BY <1>1, <1>7 DEF IInv, TypeOK, rows, tokens
<1>9. RequestsOK'
  <2>1. (held \cup q0.adds) \ q0.drops = new
    BY <1>6
  <2>2. RoleList(req[r])' = new
    BY <1>5, <1>7 DEF RoleList
  <2>3. RolesOK(r)'
    BY <1>1, <1>3, <1>6, <1>7, <2>1, <2>2 DEF RolesOK, rows
  <2>4. PoolOK(r)'
    BY <1>1, <1>6, <1>7, OpsApart DEF PoolOK
  <2> QED
    BY <1>1, <1>7, <2>3, <2>4, NothingNoted, OneActs DEF IInv, rows
<1> QED
  BY <1>1, <1>8, <1>9, TokensKept DEF IInv, rows

LEMMA UpdateRolesStep ==
  ASSUME IInv, NEW r \in Reqs, UpdateRoles(r)
  PROVE  IInv'
<1> DEFINE new == (held \cup req[r].adds) \ req[r].drops
<1>1. /\ req[r] \in Request /\ req[r].op \in RoleOps /\ req[r].step = "update" /\ RolesOK(r)
      /\ Insertable(req[r].adds) /\ held' = new /\ Go(r, "done")
      /\ Touch(Reqs \ {r}, Differing(held, new)) /\ Held(held \cup new)
      /\ UNCHANGED <<pool, issued, member, defined, left>>
  BY DEF UpdateRoles, At, IInv, TypeOK, RequestsOK
<1>2. new \subseteq Roles /\ (new # {} => member /\ defined)
  BY <1>1 DEF Insertable, Request, IInv, TypeOK
<1>3. \A o \in Roles \ touched[r] :
        o \in new <=> IF o \in req[r].what THEN req[r].op = "assign" ELSE o \in req[r].list
  BY <1>1 DEF RolesOK, RoleList, RoleOps
<1> HIDE DEF new
<1>4. Differing(held, new) \in SUBSET Things
  BY <1>2 DEF Differing, Things, IInv, TypeOK
<1>5. /\ req' \in [Reqs -> Request]
      /\ \A q \in Reqs \ {r} : req'[q] = req[q]
      /\ req'[r].op = req[r].op /\ req'[r].step = "done"
      /\ req'[r].what = req[r].what /\ req'[r].list = req[r].list
  <2>1. "done" \in Steps
    BY DEF Steps
  <2> QED
    BY <1>1, <2>1, GoEffect DEF IInv
<1>6. /\ touched' \in [Reqs -> SUBSET Things]
      /\ \A q \in Reqs : touched[q] \subseteq touched'[q]
      /\ \A q \in Reqs \ {r} : Differing(held, new) \cap CopiedBy(req[q].op) \subseteq touched'[q]
  BY <1>1, <1>4, TouchEffect DEF IInv
<1>7. /\ since' \in [Roles -> 0..JwtLife]
      /\ \A o \in Roles : since'[o] = IF o \in held \cup new /\ left[o] > 0 THEN 0 ELSE since[o]
  BY <1>1, PoolsAssumption DEF Held, IInv, TypeOK
<1>8. TypeOK'
  BY <1>1, <1>2, <1>5, <1>6, <1>7 DEF IInv, TypeOK
<1>9. RequestsOK'
  <2>1. RolesOK(r)'
    BY <1>1, <1>3, <1>5, <1>6 DEF RolesOK
  <2>2. PoolOK(r)'
    BY <1>1, <1>5, OpsApart DEF PoolOK
  <2>3. ASSUME NEW q \in Reqs \ {r} PROVE PoolNoted(q) /\ RolesNoted(q)
    <3>1. PoolNoted(q)
      BY <1>1 DEF PoolNoted
    <3>2. RolesNoted(q)
      BY <1>1, <1>6, OpsApart DEF RolesNoted, Differing
    <3> QED
      BY <3>1, <3>2
  <2> QED
    BY <1>5, <1>6, <2>1, <2>2, <2>3, OneActs DEF IInv
<1>10. TokensOK'
  BY <1>1, <1>7, PoolsAssumption DEF IInv, TypeOK, TokensOK, TokenOK
<1> QED
  BY <1>8, <1>9, <1>10 DEF IInv

(* The membership comes back without roles. *)
LEMMA InsertMemberStep ==
  ASSUME IInv, NEW r \in Reqs, InsertMember(r)
  PROVE  IInv'
<1>1. /\ req[r].op \in RoleOps /\ req[r].step = "insert" /\ RolesOK(r)
      /\ member' = TRUE /\ ~member /\ Go(r, "done")
      /\ UNCHANGED <<pool, issued, held, defined, tokens, touched>>
  BY DEF InsertMember, At, IInv, RequestsOK
<1>2. /\ req' \in [Reqs -> Request]
      /\ \A q \in Reqs \ {r} : req'[q] = req[q]
      /\ req'[r].op = req[r].op /\ req'[r].step = "done"
      /\ req'[r].what = req[r].what /\ req'[r].list = req[r].list
  <2>1. "done" \in Steps
    BY DEF Steps
  <2> QED
    BY <1>1, <2>1, GoEffect DEF IInv
<1>3. TypeOK'
  BY <1>1, <1>2 DEF IInv, TypeOK, tokens
<1>4. RequestsOK'
  <2>1. RolesOK(r)'
    BY <1>1, <1>2 DEF RolesOK
  <2>2. PoolOK(r)'
    BY <1>1, <1>2, OpsApart DEF PoolOK
  <2>3. ASSUME NEW q \in Reqs PROVE PoolNoted(q) /\ RolesNoted(q)
    BY <1>1 DEF PoolNoted, RolesNoted
  <2> QED
    BY <1>1, <1>2, <2>1, <2>2, <2>3, OneActs DEF IInv
<1> QED
  BY <1>1, <1>3, <1>4, TokensKept DEF IInv

LEMMA RoleSteps ==
  ASSUME IInv, NEW r \in Reqs,
         \/ \E o \in Roles : AssignFind(r, o) \/ RemoveFind(r, o)
         \/ AssignLookup(r) \/ SelectRoles(r) \/ UpdateRoles(r) \/ InsertMember(r)
  PROVE  IInv'
<1>1. "assign" \in RoleOps /\ "remove" \in RoleOps
  BY DEF RoleOps
<1>2. ASSUME NEW o \in Roles, AssignFind(r, o) PROVE IInv'
  BY <1>1, <1>2, RolesBeginStep DEF AssignFind
<1>3. ASSUME NEW o \in Roles, RemoveFind(r, o) PROVE IInv'
  BY <1>1, <1>3, RolesBeginStep DEF RemoveFind
<1> QED
  BY <1>2, <1>3, AssignLookupStep, SelectRolesStep, UpdateRolesStep, InsertMemberStep

----------------------------------------------------------------------------
(* The deletion of the pool, answers and tokens *)

LEMMA DeleteAppStep ==
  ASSUME IInv, DeleteApp
  PROVE  IInv'
<1>1. /\ pool' = NoRow /\ member' = FALSE /\ held' = {} /\ defined' = FALSE
      /\ Held(held) /\ Touch(Reqs, Things) /\ UNCHANGED <<issued, left, req>>
  BY DEF DeleteApp
<1>2. /\ touched' \in [Reqs -> SUBSET Things]
      /\ \A q \in Reqs : touched[q] \subseteq touched'[q]
      /\ \A q \in Reqs : Things \cap CopiedBy(req[q].op) \subseteq touched'[q]
  <2>1. Things \in SUBSET Things
    OBVIOUS
  <2> QED
    BY <1>1, <2>1, TouchEffect DEF IInv
<1>3. /\ since' \in [Roles -> 0..JwtLife]
      /\ \A o \in Roles : since'[o] = IF o \in held /\ left[o] > 0 THEN 0 ELSE since[o]
  BY <1>1, PoolsAssumption DEF Held, IInv, TypeOK
<1>4. TypeOK'
  <2>1. NoRow \in Row
    BY PoolsAssumption DEF NoRow, Row
  <2> QED
    BY <1>1, <1>2, <1>3, <2>1 DEF IInv, TypeOK
<1>5. RequestsOK'
  <2>1. ASSUME NEW q \in Reqs PROVE PoolNoted(q) /\ RolesNoted(q)
    <3>1. req[q].op \in PoolOps => PoolThings \subseteq touched'[q]
      BY <1>2, OpsApart DEF Things, PoolThings
    <3>2. req[q].op \in RoleOps => Roles \subseteq touched'[q]
      BY <1>2, OpsApart DEF Things
    <3> QED
      BY <3>1, <3>2 DEF PoolNoted, RolesNoted, PoolThings
  <2> QED
    BY <1>1, <1>2, <2>1, NoneActs DEF IInv
<1>6. TokensOK'
  BY <1>1, <1>3, PoolsAssumption DEF IInv, TypeOK, TokensOK, TokenOK
<1> QED
  BY <1>4, <1>5, <1>6 DEF IInv

LEMMA FinishStep ==
  ASSUME IInv, NEW r \in Reqs, Finish(r)
  PROVE  IInv'
<1>1. /\ req' \in [Reqs -> Request] /\ touched' \in [Reqs -> SUBSET Things]
      /\ \A q \in Reqs \ {r} : req'[q] = req[q] /\ touched'[q] = touched[q]
      /\ req'[r] = Idle /\ UNCHANGED <<rows, tokens>>
  BY FinishEffect DEF IInv
<1>2. TypeOK'
  BY <1>1 DEF IInv, TypeOK, rows, tokens
<1>3. RequestsOK'
  <2>1. PoolOK(r)' /\ RolesOK(r)'
    BY <1>1, IdleTyped, OpsApart, OtherOp
  <2> QED
    BY <1>1, <2>1, NothingNoted, OneActs DEF IInv, rows
<1> QED
  BY <1>1, <1>2, <1>3, TokensKept DEF IInv, rows

(* Time and the minting of tokens touch no row and no request. *)
LEMMA TokenStep ==
  ASSUME IInv, Mint \/ Tick
  PROVE  IInv'
<1>1. UNCHANGED <<rows, req, touched>>
  BY DEF Mint, Tick
<1>2. RequestsOK'
  BY <1>1, NothingNoted, NoneActs DEF IInv, rows
<1>3. CASE Mint
  <2>1. TypeOK'
    BY <1>1, <1>3, PoolsAssumption DEF Mint, RolesToMint, IInv, TypeOK, rows
  <2>2. TokensOK'
    BY <1>1, <1>3 DEF Mint, RolesToMint, IInv, TypeOK, TokensOK, TokenOK, rows
  <2> QED
    BY <1>2, <2>1, <2>2 DEF IInv
<1>4. CASE Tick
  <2>1. TypeOK'
    BY <1>1, <1>4, PoolsAssumption DEF Tick, IInv, TypeOK, rows
  <2>2. TokensOK'
    BY <1>1, <1>4, PoolsAssumption DEF Tick, IInv, TypeOK, TokensOK, TokenOK, rows
  <2> QED
    BY <1>2, <2>1, <2>2 DEF IInv
<1> QED
  BY <1>3, <1>4

----------------------------------------------------------------------------
(* The invariant *)

LEMMA InitIInv == Init => IInv
<1> SUFFICES ASSUME Init PROVE IInv
  OBVIOUS
<1>1. TypeOK
  BY IdleTyped, PoolsAssumption DEF Init, TypeOK, Row
<1>2. RequestsOK
  BY IdleTyped, OpsApart DEF Init, RequestsOK, PoolOK, RolesOK
<1>3. TokensOK
  BY DEF Init, TokensOK, TokenOK
<1> QED
  BY <1>1, <1>2, <1>3 DEF IInv

LEMMA NextIInv == IInv /\ [Next]_vars => IInv'
<1> SUFFICES ASSUME IInv, [Next]_vars PROVE IInv'
  OBVIOUS
<1>1. ASSUME NEW r \in Reqs, Answer(r) \/ Fail(r) PROVE IInv'
  BY <1>1, FinishStep DEF Answer, Fail
<1>2. CASE UNCHANGED vars
  <2>1. UNCHANGED <<pool, issued, member, held, defined, left, since, req, touched>>
    BY <1>2 DEF vars
  <2>2. TypeOK'
    BY <2>1 DEF IInv, TypeOK
  <2>3. RequestsOK'
    BY <2>1, NothingNoted, NoneActs DEF IInv
  <2> QED
    BY <2>1, <2>2, <2>3, TokensKept DEF IInv, tokens
<1> QED
  BY <1>1, <1>2, PoolSteps, RoleSteps, DeleteAppStep, TokenStep DEF Next

(* IInv holds in every state the pool, its memberships and their tokens can  *)
(* be in, whatever requests AdminService has under way.                      *)
THEOREM Invariance == Spec => []IInv
BY InitIInv, NextIInv, PTL DEF Spec

(* The variables stay in their types; junction rows refer to rows that are   *)
(* there (the cascades of user_app_roles).                                   *)
THEOREM TypeCorrect == Spec => []TypeOK
<1>1. IInv => TypeOK
  BY DEF IInv
<1> QED
  BY <1>1, Invariance, PTL

(* updatePoolConfig and regeneratePoolApiKey change what they were asked to, *)
(* and nothing of the rest is lost without an overlap.                       *)
THEOREM PoolSavesAsAsked == Spec => []PoolAsAsked
<1>1. IInv => PoolAsAsked
  BY DEF IInv, RequestsOK, PoolOK, PoolAsAsked, At
<1> QED
  BY <1>1, Invariance, PTL

(* assignUserRole and removeUserRole give or take the role they were asked   *)
(* to, and no other role changes without an overlap.                         *)
THEOREM RoleSavesAsAsked == Spec => []RolesAsAsked
<1>1. IInv => RolesAsAsked
  BY DEF IInv, RequestsOK, RolesOK, RolesAsAsked, At
<1> QED
  BY <1>1, Invariance, PTL

(* A token lets RoleGuard pass on a role for no longer than its life after   *)
(* the role was last held.                                                   *)
THEOREM GuardsAgree == Spec => []GuardsAgreeInTime
<1>1. IInv => GuardsAgreeInTime
  BY PoolsAssumption DEF IInv, TypeOK, TokensOK, TokenOK, GuardsAgreeInTime,
     RoleGuardPasses, PermissionGuardPasses
<1> QED
  BY <1>1, Invariance, PTL

(* Only a request that has found the pool before its deletion can insert it  *)
(* again.                                                                    *)
THEOREM DeletedStaysDeleted == Spec => DeletedForGood
<1>1. IInv /\ [Next]_vars => (Gone => Gone')
  <2> SUFFICES ASSUME IInv, [Next]_vars, Gone PROVE Gone'
    OBVIOUS
  <2>1. ~pool.exists /\ \A q \in Reqs : req[q].op \notin PoolOps
    BY DEF Gone
  <2>2. ASSUME NEW r \in Reqs,
               \/ \E s \in Settings : UpdateConfig(r, s)
               \/ RegenerateKey(r) \/ SelectPool(r) \/ UpdatePool(r) \/ InsertPool(r)
        PROVE  FALSE
    BY <2>1, <2>2 DEF UpdateConfig, RegenerateKey, SelectPool, UpdatePool, InsertPool, At
  <2>3. ASSUME NEW r \in Reqs, NEW o \in Roles, AssignFind(r, o) \/ RemoveFind(r, o)
        PROVE  Gone'
    <3>1. PICK op \in RoleOps, step \in {"lookup", "select"} : Begin(r, op, step, {o}, held, 0)
      BY <2>3 DEF AssignFind, RemoveFind, RoleOps
    <3>2. req'[r].op = op /\ \A q \in Reqs \ {r} : req'[q] = req[q]
      <4>1. /\ step \in Steps /\ op \in PoolOps \cup RoleOps /\ {o} \in SUBSET Things
            /\ held \in SUBSET Things /\ 0 \in 0..MaxKeys
        BY PoolsAssumption DEF Steps, IInv, TypeOK, Things
      <4> QED
        BY <3>1, <4>1, BeginEffect DEF IInv
    <3>3. UNCHANGED pool
      BY <2>3 DEF AssignFind, RemoveFind, rows
    <3> QED
      BY <2>1, <3>2, <3>3, OpsApart DEF Gone
  <2>4. ASSUME NEW r \in Reqs, NEW step \in Steps, Go(r, step), UNCHANGED pool
        PROVE  Gone'
    <3>1. req'[r].op = req[r].op /\ \A q \in Reqs \ {r} : req'[q] = req[q]
      BY <2>4, GoEffect DEF IInv
    <3> QED
      BY <2>1, <2>4, <3>1 DEF Gone
  <2>5. ASSUME NEW r \in Reqs, AssignLookup(r) \/ UpdateRoles(r) \/ InsertMember(r)
        PROVE  Gone'
    BY <2>4, <2>5 DEF AssignLookup, UpdateRoles, InsertMember, Steps, rows
  <2>6. ASSUME NEW r \in Reqs, SelectRoles(r) PROVE Gone'
    <3>1. \A q \in Reqs : req'[q].op = req[q].op
      BY <2>6 DEF SelectRoles, IInv, TypeOK, Request
    <3> QED
      BY <2>1, <2>6, <3>1 DEF Gone, SelectRoles, rows
  <2>7. ASSUME NEW r \in Reqs, Answer(r) \/ Fail(r) PROVE Gone'
    <3>1. UNCHANGED pool /\ \A q \in Reqs : req'[q] = req[q] \/ req'[q] = Idle
      BY <2>7, FinishEffect DEF Answer, Fail, IInv, rows
    <3> QED
      BY <2>1, <3>1, IdleTyped, OpsApart DEF Gone
  <2>8. CASE DeleteApp
    BY <2>1, <2>8 DEF DeleteApp
  <2>9. CASE Mint \/ Tick \/ UNCHANGED vars
    BY <2>1, <2>9 DEF Mint, Tick, vars, rows, Gone
  <2> QED
    BY <2>2, <2>3, <2>5, <2>6, <2>7, <2>8, <2>9 DEF Next
<1> QED
  BY <1>1, Invariance, PTL DEF Spec, DeletedForGood
=============================================================================
