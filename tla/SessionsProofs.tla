--------------------------- MODULE SessionsProofs ---------------------------
(* Proofs about Sessions, for any number of users, apps, sessions, requests  *)
(* and tokens.  The inductive invariant IInv says how a request under way is *)
(* related to the rows it will write back.                                   *)
EXTENDS Sessions, TLAPS

(* What the fields of a request say of each other. *)
RequestOK(q) ==
  /\ q.op = "none" => q = Idle
  /\ q.new \in 0..minted
  /\ \A s \in Sids : q.found[s] \in 0..minted
  /\ \A s \in q.todo : q.found[s] # NoToken
  /\ q.saving \subseteq q.todo
  /\ \A s, t \in q.saving : s = t
  /\ q.op = "refresh" =>
       /\ q.new # NoToken
       /\ \A s, t \in Sids : q.found[s] # NoToken /\ q.found[t] # NoToken => s = t
       /\ q.saving # {} => "hash" \in q.cols

RequestsOK == \A r \in Reqs : RequestOK(req[r])

HitsExist == \A r \in Reqs, s \in Sids : Hit(r, s) => Created(s)

(* k is a token of s: the row holds it or a request may write it there. *)
TokenOf(k, s) ==
  \/ k = session[s].hash
  \/ \E r \in Reqs : /\ Hit(r, s)
                     /\ \/ k = req[r].found[s]
                        \/ k = req[r].new /\ req[r].op = "refresh"

TokensApart ==
  \A k \in Nat \ {NoToken} : \A s, t \in Sids : TokenOf(k, s) /\ TokenOf(k, t) => s = t

(* The UPDATE of a logout leaves is_active alone only if the row is inactive *)
(* already, or a refresh has switched it on since the SELECT.                *)
RevokingUpdate ==
  \A r \in Reqs : \A s \in req[r].saving :
    Revokes(r) /\ "active" \notin req[r].cols /\ session[s].active => s \in overtaken[r]

OvertakenRevived == \A r \in Reqs : overtaken[r] \subseteq revived

(* The token a refresh has minted is nowhere until its UPDATE. *)
Pending(r) == req[r].op = "refresh" /\ req[r].todo # {}

NewIsUnseen ==
  \A r \in Reqs : Pending(r) =>
    /\ req[r].new \notin spent
    /\ \A s \in Sids : session[s].hash # req[r].new
    /\ \A q \in Reqs : Pending(q) /\ q # r => req[q].new # req[r].new
    /\ \A q \in Reqs, s \in Sids : req[q].found[s] # req[r].new

IInv ==
  /\ TypeOK
  /\ RequestsOK
  /\ HitsExist
  /\ TokensApart
  /\ RevokingUpdate
  /\ RevocationTakesEffect
  /\ OvertakenRevived
  /\ NewIsUnseen
  /\ SpentTokenIsDead

------------------------------------------------------------------------------
(* Lemmas about the statements of save() *)

LEMMA WriteTyped ==
  ASSUME NEW q \in Request, NEW s \in Sids, NEW row \in Row, NEW cols
  PROVE  Write(row, Entity(q, s), cols) \in Row
BY DEF Write, Entity, Request, Row

LEMMA IdleTyped ==
  /\ Idle \in Request
  /\ Idle.new = NoToken
BY DEF Idle, Request, Ops, NoToken

LEMMA OpenedTyped ==
  ASSUME TypeOK, NEW op \in Ops, NEW S \in SUBSET Sids, NEW new \in Nat
  PROVE  Opened(op, S, new) \in Request
BY DEF TypeOK, Opened, Request, Row, NoToken

LEMMA OpenedFields ==
  ASSUME NEW op, NEW S, NEW new
  PROVE  /\ Opened(op, S, new).op = op
         /\ Opened(op, S, new).todo = S
         /\ Opened(op, S, new).new = new
         /\ Opened(op, S, new).saving = {}
         /\ Opened(op, S, new).cols = {}
         /\ \A s \in Sids : Opened(op, S, new).found[s]
                              = IF s \in S THEN session[s].hash ELSE NoToken
BY DEF Opened

LEMMA SelectedTyped ==
  ASSUME NEW q \in Request, NEW s \in Sids
  PROVE  /\ Selected(q, s) \in Request
         /\ Selected(q, s).op = q.op
         /\ Selected(q, s).todo = q.todo
         /\ Selected(q, s).new = q.new
         /\ Selected(q, s).saving = {s}
         /\ Selected(q, s).cols = Changed(Entity(q, s), session[s])
         /\ Selected(q, s).found = q.found
<1>1. Changed(Entity(q, s), session[s]) \in SUBSET Columns
  BY DEF Changed
<1> DEFINE C == Changed(Entity(q, s), session[s])
<1> HIDE DEF C
<1> QED
  BY <1>1 DEF Selected, Request, C

LEMMA SavedTyped ==
  ASSUME NEW q \in Request
  PROVE  /\ Saved(q) \in Request
         /\ Saved(q).op = q.op
         /\ Saved(q).todo = q.todo \ q.saving
         /\ Saved(q).new = q.new
         /\ Saved(q).saving = {}
         /\ Saved(q).cols = {}
         /\ Saved(q).found = q.found
BY DEF Saved, Request

LEMMA EntityTokens ==
  ASSUME TypeOK, RequestsOK, NEW r \in Reqs, NEW s \in req[r].saving
  PROVE  /\ s \in Sids
         /\ s \in req[r].todo
         /\ Hit(r, s)
         /\ req[r] \in Request
         /\ req[r].saving = {s}
         /\ Entity(req[r], s).hash \in Tokens
         /\ Entity(req[r], s).active = (req[r].op = "refresh")
         /\ req[r].op \in {"refresh", "logout", "logoutAll"}
BY DEF TypeOK, RequestsOK, RequestOK, Request, Ops, Entity, Hit, Idle, NoToken, Tokens

(* The find of either logout handler. *)
RevokeFind(r, op, S) ==
  /\ \A s \in S : Created(s)
  /\ Begin(r, op, S, NoToken)
  /\ UNCHANGED <<session, expired, minted, history>>

(* The kinds of step there are, for the case analyses below. *)
LEMMA StepKinds ==
  ASSUME [Next]_vars
  PROVE  \/ \E s \in Sids : Login(s) \/ Expire(s)
         \/ \E S \in SUBSET Sids : Deactivate(S)
         \/ \E r \in Reqs, s \in Sids : RefreshFind(r, s)
         \/ \E r \in Reqs, op \in {"logout", "logoutAll"}, S \in SUBSET Sids :
               RevokeFind(r, op, S)
         \/ \E r \in Reqs, s \in Sids : SaveSelect(r, s) \/ SaveUpdate(r, s)
         \/ \E r \in Reqs : req[r].op # "none" /\ End(r)
         \/ UNCHANGED vars
<1>1. ASSUME NEW s \in Sids, AdminRevokeSession(s)
      PROVE  \E S \in SUBSET Sids : Deactivate(S)
  BY <1>1 DEF AdminRevokeSession
<1>2. ASSUME NEW u \in Users, AdminRevokeUser(u)
      PROVE  \E S \in SUBSET Sids : Deactivate(S)
  BY <1>2 DEF AdminRevokeUser
<1>3. ASSUME NEW r \in Reqs, NEW s \in Sids, LogoutFind(r, s)
      PROVE  \E S \in SUBSET Sids : RevokeFind(r, "logout", S)
  <2>1. RevokeFind(r, "logout", {s})
    BY <1>3 DEF LogoutFind, RevokeFind
  <2> QED BY <2>1
<1>4. ASSUME NEW r \in Reqs, NEW u \in Users, NEW a \in Apps, LogoutAllFind(r, u, a)
      PROVE  \E S \in SUBSET Sids : RevokeFind(r, "logoutAll", S)
  <2>1. RevokeFind(r, "logoutAll", LogoutAllHits(u, a)) /\ LogoutAllHits(u, a) \in SUBSET Sids
    BY <1>4 DEF LogoutAllFind, RevokeFind, LogoutAllHits
  <2> QED BY <2>1
<1>5. ASSUME NEW r \in Reqs, Respond(r) \/ Fail(r)
      PROVE  req[r].op # "none" /\ End(r)
  BY <1>5 DEF Respond, Fail
<1> QED
  BY <1>1, <1>2, <1>3, <1>4, <1>5 DEF Next

------------------------------------------------------------------------------
(* What each kind of step does, field by field *)

LEMMA RefreshFindEffect ==
  ASSUME SessionsAssumption, TypeOK,
         NEW r \in Reqs, NEW s \in Sids, RefreshFind(r, s)
  PROVE  /\ Redeemable(s) /\ minted < MaxTokens /\ minted' = minted + 1
         /\ UNCHANGED <<session, expired, spent, revived, overtaken>>
         /\ req' \in [Reqs -> Request]
         /\ \A q \in Reqs : q # r => req'[q] = req[q]
         /\ req[r] = Idle
         /\ req'[r].op = "refresh" /\ req'[r].todo = {s} /\ req'[r].new = minted + 1
         /\ req'[r].saving = {} /\ req'[r].cols = {}
         /\ \A t \in Sids : req'[r].found[t] = IF t = s THEN session[s].hash ELSE NoToken
<1> DEFINE q == Opened("refresh", {s}, minted + 1)
<1>1. /\ q.op = "refresh" /\ q.todo = {s} /\ q.new = minted + 1
      /\ q.saving = {} /\ q.cols = {}
      /\ \A t \in Sids : q.found[t] = IF t = s THEN session[s].hash ELSE NoToken
  BY OpenedFields
<1>2. minted + 1 \in Nat /\ "refresh" \in Ops
  BY DEF SessionsAssumption, TypeOK, Ops
<1>3. q \in Request
  BY <1>2, OpenedTyped, Zenon
<1>4. /\ req' = [req EXCEPT ![r] = q] /\ req[r] = Idle
      /\ Redeemable(s) /\ minted < MaxTokens /\ minted' = minted + 1
      /\ UNCHANGED <<session, expired, spent, revived, overtaken>>
  BY DEF RefreshFind, Begin, NextToken, history
<1> HIDE DEF q
<1> QED
  BY <1>1, <1>3, <1>4 DEF TypeOK

LEMMA RevokeFindEffect ==
  ASSUME TypeOK, NEW r \in Reqs, NEW op \in {"logout", "logoutAll"},
         NEW S \in SUBSET Sids, RevokeFind(r, op, S)
  PROVE  /\ \A t \in S : Created(t)
         /\ UNCHANGED <<session, expired, minted, spent, revived, overtaken>>
         /\ req' \in [Reqs -> Request]
         /\ \A q \in Reqs : q # r => req'[q] = req[q]
         /\ req[r] = Idle
         /\ req'[r].op = op /\ req'[r].todo = S /\ req'[r].new = NoToken
         /\ req'[r].saving = {} /\ req'[r].cols = {}
         /\ \A t \in Sids : req'[r].found[t] = IF t \in S THEN session[t].hash ELSE NoToken
<1> DEFINE q == Opened(op, S, NoToken)
<1>1. /\ q.op = op /\ q.todo = S /\ q.new = NoToken
      /\ q.saving = {} /\ q.cols = {}
      /\ \A t \in Sids : q.found[t] = IF t \in S THEN session[t].hash ELSE NoToken
  BY OpenedFields
<1>2. NoToken \in Nat /\ op \in Ops
  BY DEF NoToken, Ops
<1>3. q \in Request
  BY <1>2, OpenedTyped, Zenon
<1>4. /\ req' = [req EXCEPT ![r] = q] /\ req[r] = Idle
      /\ \A t \in S : Created(t)
      /\ UNCHANGED <<session, expired, minted, spent, revived, overtaken>>
  BY DEF RevokeFind, Begin, history
<1> HIDE DEF q
<1> QED
  BY <1>1, <1>3, <1>4 DEF TypeOK

LEMMA SaveSelectEffect ==
  ASSUME TypeOK, NEW r \in Reqs, NEW s \in Sids, SaveSelect(r, s)
  PROVE  /\ s \in req[r].todo
         /\ UNCHANGED <<session, expired, minted, spent, revived, overtaken>>
         /\ req' \in [Reqs -> Request]
         /\ \A q \in Reqs : q # r => req'[q] = req[q]
         /\ req'[r].op = req[r].op /\ req'[r].todo = req[r].todo
         /\ req'[r].new = req[r].new /\ req'[r].found = req[r].found
         /\ req'[r].saving = {s}
         /\ req'[r].cols = Changed(Entity(req[r], s), session[s])
<1> DEFINE q == Selected(req[r], s)
<1>1. /\ q \in Request
      /\ q.op = req[r].op /\ q.todo = req[r].todo /\ q.new = req[r].new
      /\ q.found = req[r].found /\ q.saving = {s}
      /\ q.cols = Changed(Entity(req[r], s), session[s])
  BY SelectedTyped DEF TypeOK
<1>2. /\ req' = [req EXCEPT ![r] = q] /\ s \in req[r].todo
      /\ UNCHANGED <<session, expired, minted, spent, revived, overtaken>>
  BY DEF SaveSelect, history
<1> HIDE DEF q
<1> QED
  BY <1>1, <1>2 DEF TypeOK

LEMMA SaveUpdateEffect ==
  ASSUME TypeOK, RequestsOK, NEW r \in Reqs, NEW s \in Sids, SaveUpdate(r, s)
  PROVE  /\ s \in req[r].todo /\ req[r].saving = {s} /\ Hit(r, s)
         /\ req[r].op \in {"refresh", "logout", "logoutAll"}
         /\ UNCHANGED <<expired, minted>>
         /\ session' \in [Sids -> Row]
         /\ \A t \in Sids : t # s => session'[t] = session[t]
         /\ session'[s].hash = IF "hash" \in req[r].cols
                               THEN Entity(req[r], s).hash ELSE session[s].hash
         /\ session'[s].active = IF "active" \in req[r].cols
                                 THEN req[r].op = "refresh" ELSE session[s].active
         /\ Entity(req[r], s).hash \in Tokens
         /\ req' \in [Reqs -> Request]
         /\ \A q \in Reqs : q # r => req'[q] = req[q]
         /\ req'[r].op = req[r].op /\ req'[r].todo = req[r].todo \ {s}
         /\ req'[r].new = req[r].new /\ req'[r].found = req[r].found
         /\ req'[r].saving = {} /\ req'[r].cols = {}
<1> DEFINE q == Saved(req[r])
           row == Write(session[s], Entity(req[r], s), req[r].cols)
<1>1. /\ s \in req[r].saving
      /\ session' = [session EXCEPT ![s] = row]
      /\ req' = [req EXCEPT ![r] = q]
      /\ UNCHANGED <<expired, minted>>
  BY DEF SaveUpdate
<1>2. /\ s \in req[r].todo /\ Hit(r, s) /\ req[r].saving = {s}
      /\ Entity(req[r], s).hash \in Tokens
      /\ Entity(req[r], s).active = (req[r].op = "refresh")
      /\ req[r].op \in {"refresh", "logout", "logoutAll"}
  BY <1>1, EntityTokens
<1>3. /\ q \in Request
      /\ q.op = req[r].op /\ q.todo = req[r].todo \ {s} /\ q.new = req[r].new
      /\ q.found = req[r].found /\ q.saving = {} /\ q.cols = {}
  BY <1>2, SavedTyped DEF TypeOK
<1>4. row \in Row
  BY WriteTyped DEF TypeOK
<1>5. /\ row.hash = IF "hash" \in req[r].cols
                    THEN Entity(req[r], s).hash ELSE session[s].hash
      /\ row.active = IF "active" \in req[r].cols
                      THEN Entity(req[r], s).active ELSE session[s].active
  BY DEF Write
<1> HIDE DEF q, row
<1> QED
  BY <1>1, <1>2, <1>3, <1>4, <1>5 DEF TypeOK

LEMMA EndEffect ==
  ASSUME TypeOK, NEW r \in Reqs, End(r)
  PROVE  /\ UNCHANGED <<session, expired, minted, spent, revived>>
         /\ req' \in [Reqs -> Request]
         /\ \A q \in Reqs : q # r => req'[q] = req[q] /\ overtaken'[q] = overtaken[q]
         /\ req'[r] = Idle /\ overtaken'[r] = {}
         /\ overtaken' \in [Reqs -> SUBSET Sids]
BY IdleTyped DEF End, TypeOK

(* Only the UPDATE of a refresh switches a row on, and then every logout     *)
(* under way that hit the row is overtaken.                                  *)
LEMMA UpdateTurnsOn ==
  ASSUME TypeOK, RequestsOK, NEW r \in Reqs, NEW s \in Sids, SaveUpdate(r, s),
         NEW t \in Sids, ~session[t].active, session'[t].active
  PROVE  /\ t = s /\ req[r].op = "refresh"
         /\ t \in revived'
         /\ \A q \in Reqs : Revokes(q) /\ Hit(q, t) => t \in overtaken'[q]
<1>0. t = s
  BY SaveUpdateEffect
<1>1. t = s /\ req[r].op = "refresh"
  BY <1>0, SaveUpdateEffect, Zenon
<1>2. Write(session[s], Entity(req[r], s), req[r].cols).active
  BY <1>1 DEF SaveUpdate, TypeOK
<1> QED
  BY <1>1, <1>2 DEF SaveUpdate

------------------------------------------------------------------------------
(* Init => IInv, and IInv /\ [Next]_vars => IInv', one lemma per conjunct *)

LEMMA InitIInv ==
  ASSUME SessionsAssumption, Init
  PROVE  IInv
<1>1. TypeOK
  BY IdleTyped, SessionsAssumption
     DEF Init, TypeOK, Row, NoRow, NoToken, Tokens, Idle, SessionsAssumption
<1>2. RequestsOK
  BY DEF Init, RequestsOK, RequestOK, Idle, NoToken
<1>3. HitsExist /\ RevokingUpdate /\ RevocationTakesEffect
  BY DEF Init, HitsExist, RevokingUpdate, RevocationTakesEffect, Hit, Revokes, Idle
<1>4. TokensApart
  BY DEF Init, TokensApart, TokenOf, Hit, NoRow, Idle, NoToken
<1>5. OvertakenRevived /\ NewIsUnseen /\ SpentTokenIsDead
  BY DEF Init, OvertakenRevived, NewIsUnseen, Pending, SpentTokenIsDead, Idle
<1> QED
  BY <1>1, <1>2, <1>3, <1>4, <1>5 DEF IInv

LEMMA NextTypeOK ==
  ASSUME SessionsAssumption, IInv, [Next]_vars
  PROVE  TypeOK'
<1> USE DEF IInv
<1>1. ASSUME NEW s \in Sids, Login(s)
      PROVE  TypeOK'
  BY <1>1, SessionsAssumption
     DEF Login, TypeOK, Row, NextToken, Tokens, NoToken, history, SessionsAssumption
<1>2. ASSUME NEW s \in Sids, Expire(s)
      PROVE  TypeOK'
  BY <1>2 DEF Expire, TypeOK, Tokens, history
<1>3. ASSUME NEW S \in SUBSET Sids, Deactivate(S)
      PROVE  TypeOK'
  BY <1>3 DEF Deactivate, TypeOK, Row, Tokens, history
<1>4. ASSUME NEW r \in Reqs, NEW s \in Sids, RefreshFind(r, s)
      PROVE  TypeOK'
  <2>0. minted' = minted + 1 /\ minted < MaxTokens
    BY <1>4, RefreshFindEffect
  <2>1. minted \in Nat /\ minted' \in 0..MaxTokens /\ Tokens' = Tokens \cup {minted + 1}
    BY <2>0 DEF TypeOK, Tokens, SessionsAssumption
  <2>2. \A q \in Reqs : req'[q].new \in Tokens' \cup {NoToken}
    BY <1>4, <2>1, RefreshFindEffect DEF TypeOK
  <2> QED
    BY <1>4, <2>1, <2>2, RefreshFindEffect DEF TypeOK
<1>5. ASSUME NEW r \in Reqs, NEW op \in {"logout", "logoutAll"}, NEW S \in SUBSET Sids,
             RevokeFind(r, op, S)
      PROVE  TypeOK'
  BY <1>5, RevokeFindEffect DEF TypeOK, Tokens
<1>6. ASSUME NEW r \in Reqs, NEW s \in Sids, SaveSelect(r, s)
      PROVE  TypeOK'
  BY <1>6, SaveSelectEffect DEF TypeOK, Tokens
<1>7. ASSUME NEW r \in Reqs, NEW s \in Sids, SaveUpdate(r, s)
      PROVE  TypeOK'
  <2>1. session[s].hash \in Tokens
    BY <1>7, SaveUpdateEffect DEF HitsExist, Created, TypeOK
  <2>2. /\ spent' \subseteq Tokens
        /\ revived' \subseteq Sids
        /\ overtaken' \in [Reqs -> SUBSET Sids]
    BY <1>7, <2>1 DEF SaveUpdate, TypeOK
  <2> QED
    BY <1>7, SaveUpdateEffect, <2>2 DEF TypeOK, Tokens
<1>8. ASSUME NEW r \in Reqs, End(r)
      PROVE  TypeOK'
  <2>1. req'[r].new = NoToken
    BY <1>8, EndEffect, IdleTyped
  <2> QED
    BY <1>8, <2>1, EndEffect DEF TypeOK, Tokens
<1>9. CASE UNCHANGED vars
  BY <1>9 DEF vars, TypeOK, Tokens
<1> QED
  BY <1>1, <1>2, <1>3, <1>4, <1>5, <1>6, <1>7, <1>8, <1>9, StepKinds

LEMMA NextRequestsOK ==
  ASSUME SessionsAssumption, IInv, [Next]_vars
  PROVE  RequestsOK'
<1> USE DEF IInv
<1>1. ASSUME NEW s \in Sids, Login(s)
      PROVE  RequestsOK'
  BY <1>1 DEF Login, TypeOK, history, RequestsOK, RequestOK
<1>2. ASSUME NEW s \in Sids, Expire(s)
      PROVE  RequestsOK'
  BY <1>2 DEF Expire, history, RequestsOK, RequestOK
<1>3. ASSUME NEW S \in SUBSET Sids, Deactivate(S)
      PROVE  RequestsOK'
  BY <1>3 DEF Deactivate, history, RequestsOK, RequestOK
<1>4. ASSUME NEW r \in Reqs, NEW s \in Sids, RefreshFind(r, s)
      PROVE  RequestsOK'
  <2>1. minted \in Nat /\ minted' = minted + 1 /\ session[s].hash \in 1..minted
    BY <1>4, RefreshFindEffect DEF TypeOK, SessionsAssumption, Tokens, Redeemable, Created
  <2>2. RequestOK(req[r])'
    BY <1>4, <2>1, RefreshFindEffect DEF RequestOK, NoToken
  <2>3. ASSUME NEW q \in Reqs, q # r
        PROVE  RequestOK(req[q])'
    BY <1>4, <2>1, <2>3, RefreshFindEffect DEF RequestsOK, RequestOK
  <2> QED
    BY <2>2, <2>3 DEF RequestsOK
<1>5. ASSUME NEW r \in Reqs, NEW op \in {"logout", "logoutAll"}, NEW S \in SUBSET Sids,
             RevokeFind(r, op, S)
      PROVE  RequestsOK'
  <2>1. \A t \in Sids : session[t].hash \in 0..minted
    BY DEF TypeOK, Tokens, NoToken, SessionsAssumption
  <2>2. RequestOK(req[r])'
    BY <1>5, <2>1, RevokeFindEffect DEF RequestOK, NoToken, TypeOK, Created, SessionsAssumption
  <2>3. ASSUME NEW q \in Reqs, q # r
        PROVE  RequestOK(req[q])'
    BY <1>5, <2>3, RevokeFindEffect DEF RequestsOK, RequestOK
  <2> QED
    BY <2>2, <2>3 DEF RequestsOK
<1>6. ASSUME NEW r \in Reqs, NEW s \in Sids, SaveSelect(r, s)
      PROVE  RequestsOK'
  <2>1. ASSUME req[r].op = "refresh"
        PROVE  "hash" \in Changed(Entity(req[r], s), session[s])
    <3>1. session[s].hash # req[r].new
      BY <1>6, <2>1, SaveSelectEffect DEF NewIsUnseen, Pending
    <3> QED
      BY <2>1, <3>1 DEF Changed, Entity, Columns
  <2>2. RequestOK(req[r])'
    BY <1>6, <2>1, SaveSelectEffect DEF RequestsOK, RequestOK, Idle
  <2>3. ASSUME NEW q \in Reqs, q # r
        PROVE  RequestOK(req[q])'
    BY <1>6, <2>3, SaveSelectEffect DEF RequestsOK, RequestOK
  <2> QED
    BY <2>2, <2>3 DEF RequestsOK
<1>7. ASSUME NEW r \in Reqs, NEW s \in Sids, SaveUpdate(r, s)
      PROVE  RequestsOK'
  <2>1. RequestOK(req[r])'
    BY <1>7, SaveUpdateEffect DEF RequestsOK, RequestOK
  <2>2. ASSUME NEW q \in Reqs, q # r
        PROVE  RequestOK(req[q])'
    BY <1>7, <2>2, SaveUpdateEffect DEF RequestsOK, RequestOK
  <2> QED
    BY <2>1, <2>2 DEF RequestsOK
<1>8. ASSUME NEW r \in Reqs, End(r)
      PROVE  RequestsOK'
  <2>0. req'[r] = Idle /\ minted' = minted /\ minted \in Nat
    BY <1>8, EndEffect DEF TypeOK, SessionsAssumption
  <2>1. RequestOK(req[r])'
    BY <2>0 DEF RequestOK, Idle, NoToken
  <2>2. ASSUME NEW q \in Reqs, q # r
        PROVE  RequestOK(req[q])'
    BY <1>8, <2>2, EndEffect DEF RequestsOK, RequestOK
  <2> QED
    BY <2>1, <2>2 DEF RequestsOK
<1>9. CASE UNCHANGED vars
  BY <1>9 DEF vars, RequestsOK, RequestOK
<1> QED
  BY <1>1, <1>2, <1>3, <1>4, <1>5, <1>6, <1>7, <1>8, <1>9, StepKinds

LEMMA NextHitsExist ==
  ASSUME SessionsAssumption, IInv, [Next]_vars
  PROVE  HitsExist'
<1> USE DEF IInv
<1>1. ASSUME NEW s \in Sids, Login(s)
      PROVE  HitsExist'
  BY <1>1 DEF Login, history, HitsExist, Hit, Created, TypeOK, NoToken, NextToken, SessionsAssumption
<1>2. ASSUME NEW s \in Sids, Expire(s)
      PROVE  HitsExist'
  BY <1>2 DEF Expire, history, HitsExist, Hit, Created
<1>3. ASSUME NEW S \in SUBSET Sids, Deactivate(S)
      PROVE  HitsExist'
  BY <1>3 DEF Deactivate, history, HitsExist, Hit, Created, TypeOK, Row
<1>4. ASSUME NEW r \in Reqs, NEW s \in Sids, RefreshFind(r, s)
      PROVE  HitsExist'
  BY <1>4, RefreshFindEffect DEF HitsExist, Hit, Created
<1>5. ASSUME NEW r \in Reqs, NEW op \in {"logout", "logoutAll"}, NEW S \in SUBSET Sids,
             RevokeFind(r, op, S)
      PROVE  HitsExist'
  BY <1>5, RevokeFindEffect DEF HitsExist, Hit, Created
<1>6. ASSUME NEW r \in Reqs, NEW s \in Sids, SaveSelect(r, s)
      PROVE  HitsExist'
  BY <1>6, SaveSelectEffect DEF HitsExist, Hit, Created
<1>7. ASSUME NEW r \in Reqs, NEW s \in Sids, SaveUpdate(r, s)
      PROVE  HitsExist'
  <2>1. session'[s].hash # NoToken
    BY <1>7, SaveUpdateEffect DEF HitsExist, Created, Tokens, NoToken
  <2> QED
    BY <1>7, <2>1, SaveUpdateEffect DEF HitsExist, Hit, Created
<1>8. ASSUME NEW r \in Reqs, End(r)
      PROVE  HitsExist'
  BY <1>8, EndEffect DEF HitsExist, Hit, Created, Idle
<1>9. CASE UNCHANGED vars
  BY <1>9 DEF vars, HitsExist, Hit, Created
<1> QED
  BY <1>1, <1>2, <1>3, <1>4, <1>5, <1>6, <1>7, <1>8, <1>9, StepKinds

LEMMA NextRevokingUpdate ==
  ASSUME SessionsAssumption, IInv, [Next]_vars
  PROVE  RevokingUpdate'
<1> USE DEF IInv
<1>1. ASSUME NEW s \in Sids, Login(s)
      PROVE  RevokingUpdate'
  <2>1. \A r \in Reqs : s \notin req[r].saving
    BY <1>1 DEF Login, HitsExist, Hit, RequestsOK, RequestOK
  <2> QED
    BY <1>1, <2>1 DEF Login, history, RevokingUpdate, Revokes, TypeOK
<1>2. ASSUME NEW s \in Sids, Expire(s)
      PROVE  RevokingUpdate'
  BY <1>2 DEF Expire, history, RevokingUpdate, Revokes
<1>3. ASSUME NEW S \in SUBSET Sids, Deactivate(S)
      PROVE  RevokingUpdate'
  BY <1>3 DEF Deactivate, history, RevokingUpdate, Revokes, TypeOK, Request, Row
<1>4. ASSUME NEW r \in Reqs, NEW s \in Sids, RefreshFind(r, s)
      PROVE  RevokingUpdate'
  BY <1>4, RefreshFindEffect DEF RevokingUpdate, Revokes
<1>5. ASSUME NEW r \in Reqs, NEW op \in {"logout", "logoutAll"}, NEW S \in SUBSET Sids,
             RevokeFind(r, op, S)
      PROVE  RevokingUpdate'
  BY <1>5, RevokeFindEffect DEF RevokingUpdate, Revokes
<1>6. ASSUME NEW r \in Reqs, NEW s \in Sids, SaveSelect(r, s)
      PROVE  RevokingUpdate'
  <2>1. ASSUME Revokes(r), "active" \notin Changed(Entity(req[r], s), session[s])
        PROVE  ~session[s].active
    BY <2>1 DEF Revokes, Changed, Entity, Columns
  <2> QED
    BY <1>6, <2>1, SaveSelectEffect DEF RevokingUpdate, Revokes
<1>7. ASSUME NEW r \in Reqs, NEW s \in Sids, SaveUpdate(r, s)
      PROVE  RevokingUpdate'
  <2> SUFFICES ASSUME NEW q \in Reqs, NEW t \in req'[q].saving, Revokes(q)',
                      "active" \notin req'[q].cols, session'[t].active
               PROVE  t \in overtaken'[q]
    BY DEF RevokingUpdate
  <2>1. q # r /\ req'[q] = req[q] /\ Revokes(q) /\ t \in Sids
    BY <1>7, SaveUpdateEffect DEF Revokes, TypeOK, Request
  <2>2. Hit(q, t)
    BY <2>1 DEF RequestsOK, RequestOK, Hit
  <2>3. CASE session[t].active
    BY <1>7, <2>1, <2>3 DEF RevokingUpdate, SaveUpdate, TypeOK
  <2>4. CASE ~session[t].active
    BY <1>7, <2>1, <2>2, <2>4, UpdateTurnsOn
  <2> QED
    BY <2>3, <2>4
<1>8. ASSUME NEW r \in Reqs, End(r)
      PROVE  RevokingUpdate'
  BY <1>8, EndEffect DEF RevokingUpdate, Revokes, Idle
<1>9. CASE UNCHANGED vars
  BY <1>9 DEF vars, RevokingUpdate, Revokes
<1> QED
  BY <1>1, <1>2, <1>3, <1>4, <1>5, <1>6, <1>7, <1>8, <1>9, StepKinds

LEMMA NextRevocationTakesEffect ==
  ASSUME SessionsAssumption, IInv, [Next]_vars
  PROVE  RevocationTakesEffect'
<1> USE DEF IInv
<1>1. ASSUME NEW s \in Sids, Login(s)
      PROVE  RevocationTakesEffect'
  <2>1. \A r \in Reqs : ~Hit(r, s)
    BY <1>1 DEF Login, HitsExist
  <2> QED
    BY <1>1, <2>1 DEF Login, history, RevocationTakesEffect, Revokes, Hit, TypeOK
<1>2. ASSUME NEW s \in Sids, Expire(s)
      PROVE  RevocationTakesEffect'
  BY <1>2 DEF Expire, history, RevocationTakesEffect, Revokes, Hit
<1>3. ASSUME NEW S \in SUBSET Sids, Deactivate(S)
      PROVE  RevocationTakesEffect'
  BY <1>3 DEF Deactivate, history, RevocationTakesEffect, Revokes, Hit, TypeOK, Row
<1>4. ASSUME NEW r \in Reqs, NEW s \in Sids, RefreshFind(r, s)
      PROVE  RevocationTakesEffect'
  BY <1>4, RefreshFindEffect DEF RevocationTakesEffect, Revokes, Hit
<1>5. ASSUME NEW r \in Reqs, NEW op \in {"logout", "logoutAll"}, NEW S \in SUBSET Sids,
             RevokeFind(r, op, S)
      PROVE  RevocationTakesEffect'
  BY <1>5, RevokeFindEffect DEF RevocationTakesEffect, Revokes, Hit, NoToken
<1>6. ASSUME NEW r \in Reqs, NEW s \in Sids, SaveSelect(r, s)
      PROVE  RevocationTakesEffect'
  BY <1>6, SaveSelectEffect DEF RevocationTakesEffect, Revokes, Hit
<1>7. ASSUME NEW r \in Reqs, NEW s \in Sids, SaveUpdate(r, s)
      PROVE  RevocationTakesEffect'
  <2> SUFFICES ASSUME NEW q \in Reqs, NEW t \in Sids, Revokes(q)', Hit(q, t)',
                      t \notin req'[q].todo, session'[t].active
               PROVE  t \in overtaken'[q]
    BY DEF RevocationTakesEffect
  <2>1. Revokes(q) /\ Hit(q, t)
    BY <1>7, SaveUpdateEffect DEF Revokes, Hit
  <2>2. CASE ~session[t].active
    BY <1>7, <2>1, <2>2, UpdateTurnsOn
  <2>3. CASE session[t].active /\ t \notin req[q].todo
    BY <1>7, <2>1, <2>3 DEF RevocationTakesEffect, SaveUpdate, TypeOK
  <2>4. CASE session[t].active /\ t \in req[q].todo
    <3>1. q = r /\ t = s
      BY <1>7, <2>4, SaveUpdateEffect
    <3>2. t \in overtaken[q]
      BY <1>7, <2>1, <2>4, <3>1, SaveUpdateEffect DEF RevokingUpdate, Revokes
    <3> QED
      BY <1>7, <3>2 DEF SaveUpdate, TypeOK
  <2> QED
    BY <2>2, <2>3, <2>4
<1>8. ASSUME NEW r \in Reqs, End(r)
      PROVE  RevocationTakesEffect'
  BY <1>8, EndEffect DEF RevocationTakesEffect, Revokes, Hit, Idle
<1>9. CASE UNCHANGED vars
  BY <1>9 DEF vars, RevocationTakesEffect, Revokes, Hit
<1> QED
  BY <1>1, <1>2, <1>3, <1>4, <1>5, <1>6, <1>7, <1>8, <1>9, StepKinds

(* No row and no request holds a token that is not minted yet. *)
LEMMA TokensMinted ==
  ASSUME SessionsAssumption, TypeOK, RequestsOK,
         NEW k \in Nat, NEW s \in Sids, TokenOf(k, s)
  PROVE  k \in 0..minted
<1>1. CASE k = session[s].hash
  BY <1>1 DEF TypeOK, Tokens, NoToken, SessionsAssumption
<1>2. ASSUME NEW r \in Reqs, k = req[r].found[s] \/ k = req[r].new
      PROVE  k \in 0..minted
  BY <1>2 DEF RequestsOK, RequestOK
<1> QED
  BY <1>1, <1>2 DEF TokenOf

(* Tokens stay apart in a step that gives at most one session at most the    *)
(* next token.                                                               *)
LEMMA TokensStayApart ==
  ASSUME SessionsAssumption, IInv, NEW s,
         \A k \in Nat \ {NoToken} : \A t \in Sids :
            TokenOf(k, t)' => TokenOf(k, t) \/ (k = minted + 1 /\ t = s)
  PROVE  TokensApart'
<1> SUFFICES ASSUME NEW k \in Nat \ {NoToken}, NEW t \in Sids, NEW u \in Sids,
                    TokenOf(k, t)', TokenOf(k, u)'
             PROVE  t = u
  BY DEF TokensApart
<1>1. minted \in Nat /\ (TokenOf(k, t) \/ TokenOf(k, u) => k \in 0..minted)
  BY TokensMinted DEF IInv, TypeOK, SessionsAssumption
<1>2. k \in 0..minted => k # minted + 1
  BY <1>1
<1>3. CASE TokenOf(k, t) /\ TokenOf(k, u)
  BY <1>3 DEF IInv, TokensApart
<1> QED
  BY <1>1, <1>2, <1>3, Zenon

LEMMA NextTokensApart ==
  ASSUME SessionsAssumption, IInv, [Next]_vars
  PROVE  TokensApart'
<1> USE DEF IInv
<1>1. ASSUME NEW s \in Sids, Login(s)
      PROVE  TokensApart'
  <2>1. ASSUME NEW k \in Nat \ {NoToken}, NEW t \in Sids, TokenOf(k, t)'
        PROVE  TokenOf(k, t) \/ (k = minted + 1 /\ t = s)
    BY <1>1, <2>1 DEF Login, history, NextToken, TokenOf, Hit, TypeOK
  <2> QED
    BY <2>1, TokensStayApart
<1>2. ASSUME NEW s \in Sids, Expire(s)
      PROVE  TokensApart'
  <2>1. ASSUME NEW k \in Nat \ {NoToken}, NEW t \in Sids, TokenOf(k, t)'
        PROVE  TokenOf(k, t)
    BY <1>2, <2>1 DEF Expire, history, TokenOf, Hit
  <2> QED
    BY <2>1, TokensStayApart
<1>3. ASSUME NEW S \in SUBSET Sids, Deactivate(S)
      PROVE  TokensApart'
  <2>1. ASSUME NEW k \in Nat \ {NoToken}, NEW t \in Sids, TokenOf(k, t)'
        PROVE  TokenOf(k, t)
    BY <1>3, <2>1 DEF Deactivate, history, TokenOf, Hit, TypeOK, Row
  <2> QED
    BY <2>1, TokensStayApart
<1>4. ASSUME NEW r \in Reqs, NEW s \in Sids, RefreshFind(r, s)
      PROVE  TokensApart'
  <2>1. ASSUME NEW k \in Nat \ {NoToken}, NEW t \in Sids, TokenOf(k, t)'
        PROVE  TokenOf(k, t) \/ (k = minted + 1 /\ t = s)
    <3>1. CASE k = session'[t].hash
      BY <1>4, <3>1, RefreshFindEffect DEF TokenOf
    <3>2. ASSUME NEW q \in Reqs, Hit(q, t)',
                 k = req'[q].found[t] \/ (k = req'[q].new /\ req'[q].op = "refresh")
          PROVE  TokenOf(k, t) \/ (k = minted + 1 /\ t = s)
      <4>1. CASE q = r
        BY <1>4, <3>2, <4>1, RefreshFindEffect DEF TokenOf, Hit
      <4>2. CASE q # r
        BY <1>4, <3>2, <4>2, RefreshFindEffect DEF TokenOf, Hit
      <4> QED
        BY <4>1, <4>2
    <3> QED
      BY <2>1, <3>1, <3>2 DEF TokenOf
  <2> QED
    BY <2>1, TokensStayApart
<1>5. ASSUME NEW r \in Reqs, NEW op \in {"logout", "logoutAll"}, NEW S \in SUBSET Sids,
             RevokeFind(r, op, S)
      PROVE  TokensApart'
  <2>1. ASSUME NEW k \in Nat \ {NoToken}, NEW t \in Sids, TokenOf(k, t)'
        PROVE  TokenOf(k, t)
    <3>1. CASE k = session'[t].hash
      BY <1>5, <3>1, RevokeFindEffect DEF TokenOf
    <3>2. ASSUME NEW q \in Reqs, Hit(q, t)',
                 k = req'[q].found[t] \/ (k = req'[q].new /\ req'[q].op = "refresh")
          PROVE  TokenOf(k, t)
      <4>1. CASE q = r
        BY <1>5, <3>2, <4>1, RevokeFindEffect DEF TokenOf, Hit
      <4>2. CASE q # r
        BY <1>5, <3>2, <4>2, RevokeFindEffect DEF TokenOf, Hit
      <4> QED
        BY <4>1, <4>2
    <3> QED
      BY <2>1, <3>1, <3>2 DEF TokenOf
  <2> QED
    BY <2>1, TokensStayApart
<1>6. ASSUME NEW r \in Reqs, NEW s \in Sids, SaveSelect(r, s)
      PROVE  TokensApart'
  <2>1. ASSUME NEW k \in Nat \ {NoToken}, NEW t \in Sids, TokenOf(k, t)'
        PROVE  TokenOf(k, t)
    BY <1>6, <2>1, SaveSelectEffect DEF TokenOf, Hit
  <2> QED
    BY <2>1, TokensStayApart
<1>7. ASSUME NEW r \in Reqs, NEW s \in Sids, SaveUpdate(r, s)
      PROVE  TokensApart'
  <2>1. ASSUME NEW k \in Nat \ {NoToken}, NEW t \in Sids, TokenOf(k, t)'
        PROVE  TokenOf(k, t)
    <3>1. CASE k = session'[t].hash
      <4>1. CASE session'[t].hash = session[t].hash
        BY <3>1, <4>1 DEF TokenOf
      <4>2. CASE session'[t].hash # session[t].hash
        <5>1. t = s /\ k = Entity(req[r], s).hash
          BY <1>7, <3>1, <4>2, SaveUpdateEffect
        <5>2. k = req[r].found[s] \/ (k = req[r].new /\ req[r].op = "refresh")
          BY <5>1 DEF Entity
        <5> QED
          BY <1>7, <5>1, <5>2, SaveUpdateEffect DEF TokenOf
      <4> QED
        BY <4>1, <4>2
    <3>2. ASSUME NEW q \in Reqs, Hit(q, t)',
                 k = req'[q].found[t] \/ (k = req'[q].new /\ req'[q].op = "refresh")
          PROVE  TokenOf(k, t)
      BY <1>7, <3>2, SaveUpdateEffect DEF TokenOf, Hit
    <3> QED
      BY <2>1, <3>1, <3>2 DEF TokenOf
  <2> QED
    BY <2>1, TokensStayApart
<1>8. ASSUME NEW r \in Reqs, End(r)
      PROVE  TokensApart'
  <2>1. ASSUME NEW k \in Nat \ {NoToken}, NEW t \in Sids, TokenOf(k, t)'
        PROVE  TokenOf(k, t)
    BY <1>8, <2>1, EndEffect DEF TokenOf, Hit, Idle
  <2> QED
    BY <2>1, TokensStayApart
<1>9. CASE UNCHANGED vars
  <2>1. \A k \in Nat \ {NoToken}, t \in Sids : TokenOf(k, t)' <=> TokenOf(k, t)
    BY <1>9 DEF vars, TokenOf, Hit
  <2> QED
    BY <2>1 DEF TokensApart
<1> QED
  BY <1>1, <1>2, <1>3, <1>4, <1>5, <1>6, <1>7, <1>8, <1>9, StepKinds

LEMMA NextOvertakenRevived ==
  ASSUME SessionsAssumption, IInv, [Next]_vars
  PROVE  OvertakenRevived'
<1> USE DEF IInv
<1>1. ASSUME NEW s \in Sids, Login(s)
      PROVE  OvertakenRevived'
  BY <1>1 DEF Login, history, OvertakenRevived
<1>2. ASSUME NEW s \in Sids, Expire(s)
      PROVE  OvertakenRevived'
  BY <1>2 DEF Expire, history, OvertakenRevived
<1>3. ASSUME NEW S \in SUBSET Sids, Deactivate(S)
      PROVE  OvertakenRevived'
  BY <1>3 DEF Deactivate, history, OvertakenRevived
<1>4. ASSUME NEW r \in Reqs, NEW s \in Sids, RefreshFind(r, s)
      PROVE  OvertakenRevived'
  BY <1>4, RefreshFindEffect DEF OvertakenRevived
<1>5. ASSUME NEW r \in Reqs, NEW op \in {"logout", "logoutAll"}, NEW S \in SUBSET Sids,
             RevokeFind(r, op, S)
      PROVE  OvertakenRevived'
  BY <1>5, RevokeFindEffect DEF OvertakenRevived
<1>6. ASSUME NEW r \in Reqs, NEW s \in Sids, SaveSelect(r, s)
      PROVE  OvertakenRevived'
  BY <1>6, SaveSelectEffect DEF OvertakenRevived
<1>7. ASSUME NEW r \in Reqs, NEW s \in Sids, SaveUpdate(r, s)
      PROVE  OvertakenRevived'
  BY <1>7 DEF SaveUpdate, OvertakenRevived, TypeOK
<1>8. ASSUME NEW r \in Reqs, End(r)
      PROVE  OvertakenRevived'
  BY <1>8, EndEffect DEF OvertakenRevived
<1>9. CASE UNCHANGED vars
  BY <1>9 DEF vars, OvertakenRevived
<1> QED
  BY <1>1, <1>2, <1>3, <1>4, <1>5, <1>6, <1>7, <1>8, <1>9, StepKinds

LEMMA NextNewIsUnseen ==
  ASSUME SessionsAssumption, IInv, [Next]_vars
  PROVE  NewIsUnseen'
<1> USE DEF IInv
<1>1. ASSUME NEW s \in Sids, Login(s)
      PROVE  NewIsUnseen'
  <2>1. \A r \in Reqs : req[r].new # minted + 1
    BY DEF RequestsOK, RequestOK, TypeOK, SessionsAssumption
  <2> QED
    BY <1>1, <2>1 DEF Login, NextToken, history, NewIsUnseen, Pending, TypeOK
<1>2. ASSUME NEW s \in Sids, Expire(s)
      PROVE  NewIsUnseen'
  BY <1>2 DEF Expire, history, NewIsUnseen, Pending
<1>3. ASSUME NEW S \in SUBSET Sids, Deactivate(S)
      PROVE  NewIsUnseen'
  BY <1>3 DEF Deactivate, history, NewIsUnseen, Pending, TypeOK, Row
<1>4. ASSUME NEW r \in Reqs, NEW s \in Sids, RefreshFind(r, s)
      PROVE  NewIsUnseen'
  <2>1. minted \in Nat /\ minted + 1 \notin 0..minted
    BY DEF TypeOK, SessionsAssumption
  <2>2. /\ minted + 1 \notin spent
        /\ \A t \in Sids : session[t].hash # minted + 1
        /\ \A q \in Reqs : req[q].new # minted + 1
        /\ \A q \in Reqs, t \in Sids : req[q].found[t] # minted + 1
    BY <2>1 DEF TypeOK, RequestsOK, RequestOK, Tokens, NoToken
  <2>3. ~Pending(r) /\ \A t \in Sids : req[r].found[t] = NoToken
    BY <1>4, RefreshFindEffect DEF Pending, Idle
  <2>4. \A t \in Sids : req'[r].found[t] \in {session[s].hash, NoToken}
    BY <1>4, RefreshFindEffect
  <2> SUFFICES ASSUME NEW q \in Reqs, Pending(q)'
               PROVE  /\ req'[q].new \notin spent
                      /\ \A t \in Sids : session[t].hash # req'[q].new
                      /\ \A p \in Reqs : Pending(p)' /\ p # q => req'[p].new # req'[q].new
                      /\ \A p \in Reqs, t \in Sids : req'[p].found[t] # req'[q].new
    BY <1>4, RefreshFindEffect DEF NewIsUnseen
  <2>5. CASE q = r
    <3>1. req'[q].new = minted + 1
      BY <1>4, <2>5, RefreshFindEffect
    <3>2. \A t \in Sids : req'[r].found[t] # minted + 1
      BY <2>1, <2>2, <2>4 DEF NoToken
    <3> QED
      BY <1>4, <2>2, <2>5, <3>1, <3>2, RefreshFindEffect
  <2>6. CASE q # r
    <3>1. Pending(q) /\ req'[q] = req[q]
      BY <1>4, <2>6, RefreshFindEffect DEF Pending
    <3>2. req[q].new # NoToken /\ req[q].new # minted + 1
      BY <2>2, <3>1 DEF Pending, RequestsOK, RequestOK
    <3>3. \A t \in Sids : req'[r].found[t] # req[q].new
      BY <2>4, <3>1, <3>2 DEF NewIsUnseen
    <3>4. \A p \in Reqs : Pending(p)' /\ p # q => req'[p].new # req[q].new
      BY <1>4, <3>1, <3>2, RefreshFindEffect DEF NewIsUnseen, Pending
    <3> QED
      BY <1>4, <3>1, <3>3, <3>4, RefreshFindEffect DEF NewIsUnseen
  <2> QED
    BY <2>5, <2>6
<1>5. ASSUME NEW r \in Reqs, NEW op \in {"logout", "logoutAll"}, NEW S \in SUBSET Sids,
             RevokeFind(r, op, S)
      PROVE  NewIsUnseen'
  <2> SUFFICES ASSUME NEW q \in Reqs, Pending(q)'
               PROVE  /\ req'[q].new \notin spent
                      /\ \A t \in Sids : session[t].hash # req'[q].new
                      /\ \A p \in Reqs : Pending(p)' /\ p # q => req'[p].new # req'[q].new
                      /\ \A p \in Reqs, t \in Sids : req'[p].found[t] # req'[q].new
    BY <1>5, RevokeFindEffect DEF NewIsUnseen
  <2>1. q # r /\ Pending(q) /\ req'[q] = req[q]
    BY <1>5, RevokeFindEffect DEF Pending
  <2>2. req[q].new # NoToken
    BY <2>1 DEF Pending, RequestsOK, RequestOK
  <2>3. \A t \in Sids : req'[r].found[t] # req[q].new
    BY <1>5, <2>1, <2>2, RevokeFindEffect DEF NewIsUnseen
  <2> QED
    BY <1>5, <2>1, <2>3, RevokeFindEffect DEF NewIsUnseen, Pending
<1>6. ASSUME NEW r \in Reqs, NEW s \in Sids, SaveSelect(r, s)
      PROVE  NewIsUnseen'
  <2>1. \A q \in Reqs : /\ Pending(q)' <=> Pending(q)
                        /\ req'[q].new = req[q].new /\ req'[q].found = req[q].found
    BY <1>6, SaveSelectEffect DEF Pending
  <2> QED
    BY <1>6, <2>1, SaveSelectEffect DEF NewIsUnseen
<1>7. ASSUME NEW r \in Reqs, NEW s \in Sids, SaveUpdate(r, s)
      PROVE  NewIsUnseen'
  <2>1. \A q \in Reqs : /\ Pending(q)' => Pending(q) /\ q # r
                        /\ req'[q].new = req[q].new /\ req'[q].found = req[q].found
    <3>1. req[r].op = "refresh" => req'[r].todo = {}
      BY <1>7, SaveUpdateEffect DEF RequestsOK, RequestOK, TypeOK, Request
    <3> QED
      BY <1>7, <3>1, SaveUpdateEffect DEF Pending
  <2>2. ASSUME NEW q \in Reqs, Pending(q), q # r
        PROVE  req[q].new # session'[s].hash /\ req[q].new \notin spent'
    <3>1. req[q].new # session[s].hash /\ req[q].new \notin spent
      BY <2>2 DEF NewIsUnseen
    <3>2. req[q].new # Entity(req[r], s).hash
      BY <1>7, <2>2, SaveUpdateEffect DEF Entity, NewIsUnseen, Pending
    <3>3. session'[s].hash \in {Entity(req[r], s).hash, session[s].hash}
      BY <1>7, SaveUpdateEffect
    <3>4. spent' \subseteq spent \cup {session[s].hash}
      BY <1>7 DEF SaveUpdate
    <3> QED
      BY <3>1, <3>2, <3>3, <3>4
  <2> QED
    BY <1>7, <2>1, <2>2, SaveUpdateEffect DEF NewIsUnseen
<1>8. ASSUME NEW r \in Reqs, End(r)
      PROVE  NewIsUnseen'
  <2>1. ~Pending(r)' /\ \A t \in Sids : req'[r].found[t] = NoToken
    BY <1>8, EndEffect DEF Pending, Idle
  <2>2. ASSUME NEW q \in Reqs, Pending(q)'
        PROVE  q # r /\ Pending(q) /\ req[q].new # NoToken
    BY <1>8, <2>1, <2>2, EndEffect DEF Pending, RequestsOK, RequestOK
  <2> QED
    BY <1>8, <2>1, <2>2, EndEffect DEF NewIsUnseen
<1>9. CASE UNCHANGED vars
  BY <1>9 DEF vars, NewIsUnseen, Pending
<1> QED
  BY <1>1, <1>2, <1>3, <1>4, <1>5, <1>6, <1>7, <1>8, <1>9, StepKinds

LEMMA NextSpentTokenIsDead ==
  ASSUME SessionsAssumption, IInv, [Next]_vars
  PROVE  SpentTokenIsDead'
<1> USE DEF IInv
<1>1. ASSUME NEW s \in Sids, Login(s)
      PROVE  SpentTokenIsDead'
  <2>1. minted + 1 \notin spent
    BY DEF TypeOK, Tokens, SessionsAssumption
  <2> QED
    BY <1>1, <2>1 DEF Login, NextToken, history, SpentTokenIsDead, TypeOK
<1>2. ASSUME NEW s \in Sids, Expire(s)
      PROVE  SpentTokenIsDead'
  BY <1>2 DEF Expire, history, SpentTokenIsDead
<1>3. ASSUME NEW S \in SUBSET Sids, Deactivate(S)
      PROVE  SpentTokenIsDead'
  BY <1>3 DEF Deactivate, history, SpentTokenIsDead, TypeOK, Row
<1>4. ASSUME NEW r \in Reqs, NEW s \in Sids, RefreshFind(r, s)
      PROVE  SpentTokenIsDead'
  BY <1>4, RefreshFindEffect DEF SpentTokenIsDead
<1>5. ASSUME NEW r \in Reqs, NEW op \in {"logout", "logoutAll"}, NEW S \in SUBSET Sids,
             RevokeFind(r, op, S)
      PROVE  SpentTokenIsDead'
  BY <1>5, RevokeFindEffect DEF SpentTokenIsDead
<1>6. ASSUME NEW r \in Reqs, NEW s \in Sids, SaveSelect(r, s)
      PROVE  SpentTokenIsDead'
  BY <1>6, SaveSelectEffect DEF SpentTokenIsDead
<1>7. ASSUME NEW r \in Reqs, NEW s \in Sids, SaveUpdate(r, s)
      PROVE  SpentTokenIsDead'
  <2> SUFFICES ASSUME NEW t \in Sids, session'[t].active, session'[t].hash \in spent'
               PROVE  t \in revived'
    BY DEF SpentTokenIsDead
  <2>1. revived \subseteq revived'
    BY <1>7 DEF SaveUpdate
  <2>2. CASE t # s
    <3>1. session'[t] = session[t]
      BY <1>7, <2>2, SaveUpdateEffect
    <3>2. session[s].hash # NoToken
      BY <1>7, SaveUpdateEffect DEF HitsExist, Created
    <3>3. TokenOf(session[s].hash, s) /\ TokenOf(session[t].hash, t)
      BY DEF TokenOf
    <3>4. session[t].hash # session[s].hash
      BY <2>2, <3>2, <3>3 DEF TokensApart, TypeOK, Row
    <3>5. session[t].hash \in spent
      BY <1>7, <3>1, <3>4 DEF SaveUpdate
    <3> QED
      BY <2>1, <3>1, <3>5 DEF SpentTokenIsDead
  <2>3. CASE t = s /\ req[r].op = "refresh"
    <3>0. s \in req[r].todo /\ req[r].saving # {}
      BY <1>7, SaveUpdateEffect
    <3>1. Pending(r) /\ "hash" \in req[r].cols
      BY <2>3, <3>0 DEF Pending, RequestsOK, RequestOK
    <3>2. session'[s].hash = req[r].new
      BY <1>7, <2>3, <3>1, SaveUpdateEffect DEF Entity
    <3>3. req[r].new \notin spent /\ req[r].new # session[s].hash
      BY <3>1 DEF NewIsUnseen
    <3> QED
      BY <1>7, <2>3, <3>2, <3>3 DEF SaveUpdate
  <2>4. CASE t = s /\ req[r].op # "refresh"
    <3>1. "active" \notin req[r].cols /\ session[s].active /\ Revokes(r)
      BY <1>7, <2>4, SaveUpdateEffect DEF Revokes
    <3>2. s \in overtaken[r]
      BY <1>7, <3>1, SaveUpdateEffect DEF RevokingUpdate
    <3> QED
      BY <2>1, <2>4, <3>2 DEF OvertakenRevived
  <2> QED
    BY <2>2, <2>3, <2>4
<1>8. ASSUME NEW r \in Reqs, End(r)
      PROVE  SpentTokenIsDead'
  BY <1>8, EndEffect DEF SpentTokenIsDead
<1>9. CASE UNCHANGED vars
  BY <1>9 DEF vars, SpentTokenIsDead
<1> QED
  BY <1>1, <1>2, <1>3, <1>4, <1>5, <1>6, <1>7, <1>8, <1>9, StepKinds

LEMMA NextIInv ==
  ASSUME SessionsAssumption, IInv, [Next]_vars
  PROVE  IInv'
BY NextTypeOK, NextRequestsOK, NextHitsExist, NextTokensApart, NextRevokingUpdate,
   NextRevocationTakesEffect, NextOvertakenRevived, NextNewIsUnseen, NextSpentTokenIsDead
   DEF IInv

------------------------------------------------------------------------------
(* The theorems *)

(* IInv is inductive: whatever the interleaving of logins, refreshes,        *)
(* logouts and admin revocations, requests and rows fit together.            *)
THEOREM Invariance == Spec => []IInv
<1>1. Init => IInv
  BY InitIInv, SessionsAssumption
<1>2. IInv /\ [Next]_vars => IInv'
  BY NextIInv, SessionsAssumption
<1> QED
  BY <1>1, <1>2, PTL DEF Spec

(* Rows, requests and histories keep their types (token.service.ts numbers). *)
THEOREM TypeCorrect == Spec => []TypeOK
<1>1. IInv => TypeOK
  BY DEF IInv
<1> QED
  BY <1>1, Invariance, PTL

(* A logout that has saved a session has taken it down, unless a refresh     *)
(* revived it under the logout's feet (logoutSession, logoutAllSessions).    *)
THEOREM RevocationSafe == Spec => []RevocationTakesEffect
<1>1. IInv => RevocationTakesEffect
  BY DEF IInv
<1> QED
  BY <1>1, Invariance, PTL

(* A token rotated out by refreshAccessToken is dead in every session that   *)
(* was not revived after a revocation.                                       *)
THEOREM RotationSafe == Spec => []SpentTokenIsDead
<1>1. IInv => SpentTokenIsDead
  BY DEF IInv
<1> QED
  BY <1>1, Invariance, PTL

(* No interleaving of saves moves a refresh token to another session's row.  *)
THEOREM TokensOfOneSession == Spec => []TokenOfOneSession
<1>1. ASSUME IInv
      PROVE  TokenOfOneSession
  <2> SUFFICES ASSUME NEW s \in Sids, NEW t \in Sids, s # t,
                      NEW k \in TokensOf(s), k \in TokensOf(t)
               PROVE  k = NoToken
    BY DEF TokenOfOneSession
  <2>1. TokenOf(k, s) /\ TokenOf(k, t)
    BY DEF TokensOf, TokenOf
  <2>2. k \in Nat
    BY <1>1 DEF IInv, TokensOf, TypeOK, Row, Request
  <2> QED
    BY <1>1, <2>1, <2>2 DEF IInv, TokensApart
<1> QED
  BY <1>1, Invariance, PTL

------------------------------------------------------------------------------
(* The refinement of SessionContract *)

PhaseBar == [s \in Sids |-> Phase(s)]
ClaimsBar == [s \in Sids |-> Claims(s)]

LEMMA ContractInitHolds ==
  ASSUME Init
  PROVE  Contract!ContractInit
<1>1. \A s \in Sids : Phase(s) = "none" /\ Claims(s) = {}
  BY DEF Init, Phase, Created, NoRow, NoToken, Claims, Idle
<1> QED
  BY <1>1 DEF Contract!ContractInit

(* Steps that change no row and no claim are stuttering steps of the contract. *)
LEMMA ContractStutter ==
  ASSUME \A s \in Sids : Phase(s)' = Phase(s) /\ Claims(s)' = Claims(s)
  PROVE  UNCHANGED Contract!cvars
BY DEF Contract!cvars

(* A refresh is a claim on the one session it found. *)
LEMMA OneClaim ==
  ASSUME RequestsOK, TypeOK, NEW r \in Reqs, req[r].op = "refresh",
         NEW s \in req[r].todo, NEW t \in req[r].todo
  PROVE  s = t
BY DEF RequestsOK, RequestOK, TypeOK, Request

LEMMA ContractStep ==
  ASSUME SessionsAssumption, IInv, [Next]_vars
  PROVE  [Contract!ContractNext]_(Contract!cvars)
<1> USE DEF IInv
<1>1. ASSUME NEW s \in Sids, Login(s)
      PROVE  Contract!ContractNext
  <2>1. \A t \in Sids : Claims(t)' = Claims(t)
    BY <1>1 DEF Login, history, Claims
  <2>2. \A t \in Sids : Phase(t)' = IF t = s THEN "live" ELSE Phase(t)
    BY <1>1 DEF Login, NextToken, NoToken, Phase, Created, TypeOK, SessionsAssumption
  <2>3. Phase(s) = "none"
    BY <1>1 DEF Login, Phase
  <2>4. Contract!Open(s)
    BY <2>1, <2>2, <2>3 DEF Contract!Open
  <2> QED
    BY <2>4 DEF Contract!ContractNext
<1>2. ASSUME NEW s \in Sids, Expire(s)
      PROVE  UNCHANGED Contract!cvars
  BY <1>2, ContractStutter DEF Expire, history, Phase, Created, Claims
<1>3. ASSUME NEW S \in SUBSET Sids, Deactivate(S)
      PROVE  Contract!ContractNext
  <2> DEFINE T == {s \in S : Created(s)}
  <2>1. \A t \in Sids : Claims(t)' = Claims(t)
    BY <1>3 DEF Deactivate, history, Claims
  <2>2. \A t \in Sids : Phase(t)' = IF t \in T THEN "revoked" ELSE Phase(t)
    BY <1>3 DEF Deactivate, Phase, Created, TypeOK, Row
  <2>3. \A t \in T : Phase(t) # "none"
    BY DEF Phase
  <2>4. Contract!Revoke(T)
    BY <2>1, <2>2, <2>3 DEF Contract!Revoke
  <2> QED
    BY <2>4 DEF Contract!ContractNext
<1>4. ASSUME NEW r \in Reqs, NEW s \in Sids, RefreshFind(r, s)
      PROVE  Contract!ContractNext
  <2>1. \A t \in Sids : Phase(t)' = Phase(t)
    BY <1>4, RefreshFindEffect DEF Phase, Created
  <2>2. \A t \in Sids : Claims(t)' = IF t = s THEN Claims(t) \cup {r} ELSE Claims(t)
    BY <1>4, RefreshFindEffect DEF Claims, Idle
  <2>3. Phase(s) = "live" /\ \A u \in Sids : r \notin Claims(u)
    BY <1>4, RefreshFindEffect DEF Redeemable, Phase, Claims, Idle
  <2>4. Contract!Claim(r, s)
    BY <2>1, <2>2, <2>3 DEF Contract!Claim
  <2> QED
    BY <2>4 DEF Contract!ContractNext
<1>5. ASSUME NEW r \in Reqs, NEW op \in {"logout", "logoutAll"}, NEW S \in SUBSET Sids,
             RevokeFind(r, op, S)
      PROVE  UNCHANGED Contract!cvars
  <2>1. \A t \in Sids : Phase(t)' = Phase(t)
    BY <1>5, RevokeFindEffect DEF Phase, Created
  <2>2. \A t \in Sids : Claims(t)' = Claims(t)
    BY <1>5, RevokeFindEffect DEF Claims, Idle
  <2> QED
    BY <2>1, <2>2, ContractStutter
<1>6. ASSUME NEW r \in Reqs, NEW s \in Sids, SaveSelect(r, s)
      PROVE  UNCHANGED Contract!cvars
  <2>1. \A t \in Sids : Phase(t)' = Phase(t)
    BY <1>6, SaveSelectEffect DEF Phase, Created
  <2>2. \A t \in Sids : Claims(t)' = Claims(t)
    BY <1>6, SaveSelectEffect DEF Claims
  <2> QED
    BY <2>1, <2>2, ContractStutter
<1>7. ASSUME NEW r \in Reqs, NEW s \in Sids, SaveUpdate(r, s)
      PROVE  [Contract!ContractNext]_(Contract!cvars)
  <2>1. Created(s) /\ Created(s)'
    BY <1>7, SaveUpdateEffect DEF HitsExist, Created, Tokens, NoToken
  <2>2. \A t \in Sids : t # s => Phase(t)' = Phase(t)
    BY <1>7, SaveUpdateEffect DEF Phase, Created
  <2>3. \A t \in Sids : Claims(t)' = IF t = s THEN Claims(t) \ {r} ELSE Claims(t)
    BY <1>7, SaveUpdateEffect DEF Claims
  <2>4. CASE req[r].op = "refresh"
    <3>1. Phase(s)' \in {Phase(s), "live"}
      BY <1>7, <2>1, <2>4, SaveUpdateEffect DEF Phase
    <3>2. r \in Claims(s)
      BY <1>7, <2>4, SaveUpdateEffect DEF Claims
    <3>3. Contract!Settle(r, s)
      BY <2>2, <2>3, <3>1, <3>2 DEF Contract!Settle
    <3> QED
      BY <3>3 DEF Contract!ContractNext
  <2>5. CASE req[r].op # "refresh"
    <3>1. \A t \in Sids : Claims(t)' = Claims(t)
      BY <2>3, <2>5 DEF Claims
    <3>2. Phase(s)' = Phase(s) \/ Phase(s)' = "revoked"
      BY <1>7, <2>1, <2>5, SaveUpdateEffect DEF Phase
    <3>3. CASE Phase(s)' = Phase(s)
      BY <2>2, <3>1, <3>3, ContractStutter
    <3>4. CASE Phase(s)' = "revoked"
      <4>1. \A t \in Sids : Phase(t)' = IF t \in {s} THEN "revoked" ELSE Phase(t)
        BY <2>2, <3>4
      <4>2. Phase(s) # "none"
        BY <2>1 DEF Phase
      <4>3. Contract!Revoke({s})
        BY <3>1, <4>1, <4>2 DEF Contract!Revoke
      <4> QED
        BY <4>3 DEF Contract!ContractNext
    <3> QED
      BY <3>2, <3>3, <3>4
  <2> QED
    BY <2>4, <2>5
<1>8. ASSUME NEW r \in Reqs, End(r)
      PROVE  [Contract!ContractNext]_(Contract!cvars)
  <2>1. \A t \in Sids : Phase(t)' = Phase(t)
    BY <1>8, EndEffect DEF Phase, Created
  <2>2. \A t \in Sids : Claims(t)' = Claims(t) \ {r}
    BY <1>8, EndEffect DEF Claims, Idle
  <2>3. CASE \A t \in Sids : r \notin Claims(t)
    BY <2>1, <2>2, <2>3, ContractStutter
  <2>4. ASSUME NEW s \in Sids, r \in Claims(s)
        PROVE  Contract!ContractNext
    <3>1. \A t \in Sids : r \in Claims(t) => t = s
      BY <2>4, OneClaim DEF Claims
    <3>2. \A t \in Sids : Claims(t)' = IF t = s THEN Claims(t) \ {r} ELSE Claims(t)
      BY <2>2, <3>1
    <3>3. Contract!Settle(r, s)
      BY <2>1, <2>4, <3>2 DEF Contract!Settle
    <3> QED
      BY <3>3 DEF Contract!ContractNext
  <2> QED
    BY <2>3, <2>4
<1>9. CASE UNCHANGED vars
  BY <1>9, ContractStutter DEF vars, Phase, Created, Claims
<1> QED
  BY <1>1, <1>2, <1>3, <1>4, <1>5, <1>6, <1>7, <1>8, <1>9, StepKinds

(* The handlers implement the contract: sessions are opened once, a revoked  *)
(* session is brought back by an earlier claim or by nothing.                *)
THEOREM Refinement == Spec => KeepsContract
<1>1. Init => Contract!ContractInit
  BY ContractInitHolds
<1>2. IInv /\ [Next]_vars => [Contract!ContractNext]_(Contract!cvars)
  BY ContractStep, SessionsAssumption
<1> QED
  BY <1>1, <1>2, Invariance, PTL DEF Spec, KeepsContract, Contract!ContractSpec

(* Once a session is revoked and no refresh has a claim on it, no handler    *)
(* and no stale entity makes it active again.                                *)
THEOREM RevokedForGood == Spec => DeadStaysDead
<1>1. ASSUME IInv, [Next]_vars, NEW s \in Sids, Dead(s)
      PROVE  Dead(s)'
  <2>1. [Contract!ContractNext]_(Contract!cvars)
    BY <1>1, ContractStep, SessionsAssumption
  <2>2. PhaseBar[s] = "revoked" /\ ClaimsBar[s] = {}
    BY <1>1 DEF Dead, PhaseBar, ClaimsBar, Phase
  <2>3. PhaseBar'[s] = "revoked" /\ ClaimsBar'[s] = {}
    BY <2>1, <2>2
       DEF PhaseBar, ClaimsBar, Contract!ContractNext, Contract!cvars, Contract!Open,
           Contract!Claim, Contract!Settle, Contract!Revoke
  <2> QED
    BY <2>3 DEF Dead, PhaseBar, ClaimsBar, Phase
<1>2. IInv /\ [Next]_vars => [\A s \in Sids : Dead(s) => Dead(s)']_vars
  BY <1>1
<1> QED
  BY <1>2, Invariance, PTL DEF Spec, DeadStaysDead

------------------------------------------------------------------------------
(* What the docs say of rotation and logout, where rows are locked *)

(* No two requests have found a session that both still have to save: what a *)
(* lock on the rows found, held until they are saved, would make true.       *)
RowsLocked == \A r, q \in Reqs, s \in Sids : s \in req[r].todo /\ s \in req[q].todo => r = q

(* What a handler has read is then what it will overwrite, a token rotated   *)
(* out is in no row and was found by one refresh, and no refresh is left     *)
(* when a logout has saved.                                                  *)
LockedOK ==
  /\ \A r \in Reqs : \A s \in req[r].todo : session[s].hash = req[r].found[s]
  /\ \A r \in Reqs, s \in Sids :
       req[r].op = "refresh" /\ Hit(r, s) /\ s \notin req[r].todo =>
         /\ req[r].found[s] \in spent
         /\ \A q \in Reqs : q # r /\ req[q].op = "refresh" => req[q].found[s] # req[r].found[s]
  /\ \A s \in Sids : Created(s) => session[s].hash \notin spent
  /\ \A r \in Reqs, s \in Sids :
       Revokes(r) /\ Hit(r, s) /\ s \notin req[r].todo => Claims(s) = {}
  /\ \A r \in Reqs : overtaken[r] = {}

(* An UPDATE of a row that only its request has found. *)
LEMMA LockedUpdate ==
  ASSUME SessionsAssumption, IInv, LockedOK, RowsLocked,
         NEW r \in Reqs, NEW s \in Sids, SaveUpdate(r, s)
  PROVE  LockedOK'
<1> USE DEF IInv
<1>1. /\ s \in req[r].todo /\ req[r].saving = {s} /\ Hit(r, s)
      /\ session[s].hash = req[r].found[s] /\ session[s].hash # NoToken
      /\ \A q \in Reqs : q # r => req'[q] = req[q] /\ s \notin req[q].todo
      /\ req'[r].op = req[r].op /\ req'[r].todo = req[r].todo \ {s}
      /\ req'[r].new = req[r].new /\ req'[r].found = req[r].found
      /\ \A t \in Sids : t # s => session'[t] = session[t]
  BY SaveUpdateEffect DEF LockedOK, RowsLocked, Hit
<1>2. spent' = IF req[r].op = "refresh" THEN spent \cup {session[s].hash} ELSE spent
  BY DEF SaveUpdate
<1>3. \A q \in Reqs : \A t \in req'[q].todo : session'[t].hash = req'[q].found[t]
  <2> SUFFICES ASSUME NEW q \in Reqs, NEW t \in req'[q].todo
               PROVE  session'[t].hash = req'[q].found[t]
    OBVIOUS
  <2>1. t # s /\ t \in req[q].todo /\ t \in Sids /\ req'[q].found = req[q].found
    BY <1>1 DEF TypeOK, Request
  <2> QED
    BY <1>1, <2>1 DEF LockedOK
<1>4. ASSUME NEW q \in Reqs, NEW t \in Sids,
             req'[q].op = "refresh", Hit(q, t)', t \notin req'[q].todo
      PROVE  /\ req'[q].found[t] \in spent'
             /\ \A p \in Reqs : p # q /\ req'[p].op = "refresh" => req'[p].found[t] # req'[q].found[t]
  <2>1. /\ req[q].op = "refresh" /\ Hit(q, t)
        /\ \A p \in Reqs : req'[p].op = req[p].op /\ req'[p].found = req[p].found
    BY <1>1, <1>4 DEF Hit
  <2>2. CASE t \notin req[q].todo
    BY <1>2, <2>1, <2>2 DEF LockedOK
  <2>3. CASE t \in req[q].todo
    <3>1. q = r /\ t = s
      BY <1>1, <1>4, <2>3
    <3>2. req[r].found[s] \in spent'
      BY <1>1, <1>2, <2>1, <3>1
    <3>3. ASSUME NEW p \in Reqs, p # r, req[p].op = "refresh", req[p].found[s] = req[r].found[s]
          PROVE  FALSE
      <4>1. Hit(p, s) /\ s \notin req[p].todo
        BY <1>1, <3>3 DEF Hit
      <4>2. req[r].found[s] # req[p].found[s]
        BY <2>1, <3>1, <3>3, <4>1 DEF LockedOK
      <4> QED
        BY <3>3, <4>2
    <3> QED
      BY <2>1, <3>1, <3>2, <3>3
  <2> QED
    BY <2>2, <2>3
<1>5. ASSUME NEW t \in Sids, Created(t)'
      PROVE  session'[t].hash \notin spent'
  <2>1. CASE t # s
    <3>1. Created(t) /\ session'[t] = session[t]
      BY <1>1, <1>5, <2>1 DEF Created
    <3>2. TokenOf(session[s].hash, s) /\ TokenOf(session[t].hash, t)
      BY DEF TokenOf
    <3>3. session[t].hash # session[s].hash
      BY <1>1, <2>1, <3>2 DEF TokensApart, TypeOK, Row
    <3> QED
      BY <1>2, <3>1, <3>3 DEF LockedOK
  <2>2. CASE t = s /\ req[r].op = "refresh"
    <3>1. Pending(r) /\ "hash" \in req[r].cols
      BY <1>1, <2>2 DEF Pending, RequestsOK, RequestOK
    <3>2. session'[s].hash = req[r].new
      BY <2>2, <3>1, SaveUpdateEffect DEF Entity
    <3>3. req[r].new \notin spent /\ req[r].new # session[s].hash
      BY <3>1 DEF NewIsUnseen
    <3> QED
      BY <1>2, <2>2, <3>2, <3>3
  <2>3. CASE t = s /\ req[r].op # "refresh"
    <3>1. session'[s].hash = session[s].hash
      BY <1>1, <2>3, SaveUpdateEffect DEF Entity
    <3>2. session[s].hash \notin spent
      BY <1>1 DEF LockedOK, Created
    <3> QED
      BY <1>2, <2>3, <3>1, <3>2
  <2> QED
    BY <2>1, <2>2, <2>3
<1>6. ASSUME NEW q \in Reqs, NEW t \in Sids, Revokes(q)', Hit(q, t)', t \notin req'[q].todo
      PROVE  Claims(t)' = {}
  <2>1. Revokes(q) /\ Hit(q, t)
    BY <1>1, <1>6 DEF Revokes, Hit
  <2>2. CASE t = s
    BY <1>1, <2>2 DEF Claims
  <2>3. CASE t # s
    <3>1. Claims(t) = {}
      BY <1>1, <1>6, <2>1, <2>3 DEF LockedOK
    <3> QED
      BY <1>1, <3>1 DEF Claims
  <2> QED
    BY <2>2, <2>3
<1>7. \A q \in Reqs : overtaken'[q] = {}
  <2>1. req[r].op = "refresh" => \A q \in Reqs : ~(Revokes(q) /\ Hit(q, s))
    <3> SUFFICES ASSUME req[r].op = "refresh", NEW q \in Reqs, Revokes(q), Hit(q, s)
                 PROVE  FALSE
      OBVIOUS
    <3>1. q # r
      BY DEF Revokes
    <3>2. Claims(s) = {}
      BY <1>1, <3>1 DEF LockedOK
    <3> QED
      BY <1>1, <3>2 DEF Claims
  <2> QED
    BY <2>1 DEF SaveUpdate, LockedOK
<1> QED
  BY <1>3, <1>4, <1>5, <1>6, <1>7 DEF LockedOK

LEMMA LockedStep ==
  ASSUME SessionsAssumption, IInv, LockedOK, RowsLocked, [Next]_vars
  PROVE  LockedOK'
<1> USE DEF IInv
<1>1. ASSUME NEW s \in Sids, Login(s)
      PROVE  LockedOK'
  <2>1. /\ session' = [session EXCEPT ![s] = [hash |-> minted + 1, active |-> TRUE]]
        /\ UNCHANGED <<req, spent, revived, overtaken>> /\ ~Created(s)
    BY <1>1 DEF Login, NextToken, history
  <2>2. \A r \in Reqs : s \notin req[r].todo
    BY <2>1 DEF HitsExist, RequestsOK, RequestOK, Hit
  <2>3. minted + 1 \notin spent
    BY DEF TypeOK, Tokens, SessionsAssumption
  <2>4. \A t \in Sids \ {s} : session'[t] = session[t]
    BY <2>1 DEF TypeOK
  <2>5. session'[s].hash = minted + 1
    BY <2>1 DEF TypeOK
  <2>6. \A r \in Reqs : \A t \in req[r].todo : t \in Sids \ {s}
    BY <2>2 DEF TypeOK, Request
  <2> QED
    BY <2>1, <2>3, <2>4, <2>5, <2>6 DEF LockedOK, Hit, Created, Revokes, Claims
<1>2. ASSUME UNCHANGED <<req, spent, overtaken>>, \A t \in Sids : session'[t].hash = session[t].hash
      PROVE  LockedOK'
  <2>1. \A r \in Reqs : req[r].todo \subseteq Sids
    BY DEF TypeOK, Request
  <2> QED
    BY <1>2, <2>1 DEF LockedOK, Hit, Created, Revokes, Claims
<1>3. ASSUME NEW S \in SUBSET Sids, Deactivate(S)
      PROVE  LockedOK'
  <2>1. \A t \in Sids : session'[t].hash = session[t].hash
    BY <1>3 DEF Deactivate, TypeOK, Row
  <2> QED
    BY <1>2, <1>3, <2>1 DEF Deactivate, history
<1>4. ASSUME NEW r \in Reqs, NEW s \in Sids, RefreshFind(r, s)
      PROVE  LockedOK'
  <2>1. /\ UNCHANGED <<session, spent, overtaken>> /\ session[s].active
        /\ req'[r].op = "refresh" /\ req'[r].todo = {s}
        /\ \A t \in Sids : req'[r].found[t] = IF t = s THEN session[s].hash ELSE NoToken
        /\ \A q \in Reqs : q # r => req'[q] = req[q]
        /\ session[s].hash \notin spent
    BY <1>4, RefreshFindEffect DEF Redeemable, LockedOK
  <2>2. ASSUME NEW q \in Reqs, NEW t \in Sids, Revokes(q)', Hit(q, t)', t \notin req'[q].todo
        PROVE  Claims(t)' = {}
    <3>1. q # r /\ Revokes(q) /\ Hit(q, t) /\ t \notin req[q].todo
      BY <2>1, <2>2 DEF Revokes, Hit
    <3>2. Claims(t) = {}
      BY <3>1 DEF LockedOK
    <3>3. ~session[t].active
      BY <3>1 DEF LockedOK, RevocationTakesEffect
    <3> QED
      BY <2>1, <3>2, <3>3 DEF Claims
  <2>3. ASSUME NEW q \in Reqs, NEW t \in Sids,
               req'[q].op = "refresh", Hit(q, t)', t \notin req'[q].todo
        PROVE  /\ req'[q].found[t] \in spent
               /\ \A p \in Reqs : p # q /\ req'[p].op = "refresh" => req'[p].found[t] # req'[q].found[t]
    <3>1. q # r /\ req'[q] = req[q] /\ Hit(q, t)
      BY <2>1, <2>3 DEF Hit
    <3>2. req[q].found[t] \in spent /\ req[q].found[t] # NoToken
      BY <2>3, <3>1 DEF LockedOK, Hit
    <3>3. req'[r].found[t] # req[q].found[t]
      BY <2>1, <3>2
    <3> QED
      BY <2>1, <2>3, <3>1, <3>2, <3>3 DEF LockedOK
  <2>4. \A q \in Reqs : \A t \in req'[q].todo : session[t].hash = req'[q].found[t]
    BY <2>1 DEF LockedOK
  <2> QED
    BY <2>1, <2>2, <2>3, <2>4 DEF LockedOK, Created
<1>5. ASSUME NEW r \in Reqs, NEW op \in {"logout", "logoutAll"}, NEW S \in SUBSET Sids,
             RevokeFind(r, op, S)
      PROVE  LockedOK'
  <2>1. /\ UNCHANGED <<session, spent, overtaken>>
        /\ req'[r].op = op /\ op # "refresh" /\ req'[r].todo = S
        /\ \A t \in Sids : req'[r].found[t] = IF t \in S THEN session[t].hash ELSE NoToken
        /\ \A q \in Reqs : q # r => req'[q] = req[q]
    BY <1>5, RevokeFindEffect
  <2>2. ASSUME NEW q \in Reqs, NEW t \in Sids, Revokes(q)', Hit(q, t)', t \notin req'[q].todo
        PROVE  Claims(t)' = {}
    <3>1. q # r /\ Revokes(q) /\ Hit(q, t) /\ t \notin req[q].todo
      BY <2>1, <2>2 DEF Revokes, Hit
    <3>2. Claims(t) = {}
      BY <3>1 DEF LockedOK
    <3> QED
      BY <2>1, <3>2 DEF Claims
  <2> QED
    BY <2>1, <2>2 DEF LockedOK, Hit, Created
<1>6. ASSUME NEW r \in Reqs, NEW s \in Sids, SaveSelect(r, s)
      PROVE  LockedOK'
  <2>1. /\ UNCHANGED <<session, spent, overtaken>>
        /\ \A q \in Reqs : /\ req'[q].op = req[q].op /\ req'[q].todo = req[q].todo
                           /\ req'[q].found = req[q].found
    BY <1>6, SaveSelectEffect
  <2> QED
    BY <2>1 DEF LockedOK, Hit, Created, Revokes, Claims
<1>7. ASSUME NEW r \in Reqs, End(r)
      PROVE  LockedOK'
  <2>1. /\ UNCHANGED <<session, spent>> /\ overtaken'[r] = {}
        /\ \A q \in Reqs : q # r => req'[q] = req[q] /\ overtaken'[q] = overtaken[q]
        /\ req'[r].op = "none" /\ req'[r].todo = {}
    BY <1>7, EndEffect DEF Idle
  <2> QED
    BY <2>1 DEF LockedOK, Hit, Created, Revokes, Claims
<1>8. CASE (\E s \in Sids : Expire(s)) \/ UNCHANGED vars
  <2>1. UNCHANGED <<session, req, spent, overtaken>>
    BY <1>8 DEF Expire, vars, history
  <2> QED
    BY <1>2, <2>1
<1> QED
  BY LockedUpdate, <1>1, <1>3, <1>4, <1>5, <1>6, <1>7, <1>8, StepKinds

(* 05_SECURITY_DEEP_DIVE.md and 01_ARCHITECTURE.md are right about a token   *)
(* redeemed once and a logout that invalidates wherever the find and the     *)
(* save of refreshAccessToken and logoutSession are not interleaved; admin   *)
(* revocations, logins, failures and expiries may come in between.           *)
THEOREM LockedRowsSuffice == Spec /\ []RowsLocked => [](RedeemedOnce /\ LogoutInvalidates)
<1>1. Init => LockedOK
  BY DEF Init, LockedOK, Idle, NoRow, Hit, Created, Revokes
<1>2. IInv /\ LockedOK /\ RowsLocked /\ [Next]_vars => LockedOK'
  BY LockedStep, SessionsAssumption
<1>3. IInv /\ LockedOK => RedeemedOnce /\ LogoutInvalidates
  BY DEF IInv, LockedOK, RevocationTakesEffect, RedeemedOnce, LogoutInvalidates, Revokes
<1> QED
  BY <1>1, <1>2, <1>3, Invariance, PTL DEF Spec
==============================================================================
