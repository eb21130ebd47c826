-------------------------- MODULE UserStatusProofs --------------------------
(* Proofs about UserStatus, for any number of sessions and requests.  The    *)
(* inductive invariant IInv says where a request of each kind can be, and    *)
(* that nobody has changed the status a request saw while it is not missed.  *)
EXTENDS UserStatus, TLAPS

(* Where a request of each kind can be. *)
StepOK(q) ==
  /\ q.op = "none" <=> q.step = "idle"
  /\ q.op = "none" => q = Idle
  /\ q.step = "revoke" => q.op = "delete"
  /\ q.step = "open" => q.op \in {"otp", "login"}
  /\ q.op = "login" => q.step = "open"

StepsOK == \A r \in Reqs : StepOK(req[r])

(* Until its UPDATE, a request that is not missed has the row's own status,  *)
(* and the UPDATE sets status just if it is to be changed.                   *)
SeenOK ==
  \A r \in Reqs \ missed :
    /\ req[r].step \in {"select", "update"} => status = req[r].seen
    /\ req[r].step = "update" => (req[r].dirty <=> Entity(r) # status)

IInv == TypeOK /\ StepsOK /\ SeenOK /\ StatusAsAsked

Saving == {"disable", "delete", "profile", "otp"}

----------------------------------------------------------------------------
(* Lemmas about the operators *)

LEMMA IdleOK ==
  /\ Idle \in Request
  /\ StepOK(Idle)
  /\ Idle.op = "none" /\ Idle.step = "idle"
BY DEF Idle, Request, Ops, Steps, Statuses, StepOK

LEMMA AssignedTyped ==
  ASSUME NEW op \in Ops, NEW seen \in Statuses
  PROVE  Assigned(op, seen) \in Statuses
BY DEF Assigned, Ops, Statuses

(* The handlers' finds. *)
Find(r) ==
  \/ \E op \in Saving : Begin(r, op, "select")
  \/ status = "active" /\ Begin(r, "login", "open")

(* A request ends and leaves the row alone. *)
End(r) ==
  /\ Done(r)
  /\ \/ UNCHANGED phase
     \/ \E s \in Sids : At(r, "open") /\ Open(s)
  /\ UNCHANGED <<claims, status, outlived>>

(* A step of the sessions alone. *)
SessionStep ==
  /\ \/ \E r \in Reqs, s \in Sids : RefreshFind(r, s) \/ RefreshEnd(r, s)
     \/ \E s \in Sids : LogOut(s) \/ Expire(s) \/ Reuse(s)
  /\ UNCHANGED <<status, req, missed>>

(* The kinds of step there are, for the case analyses below. *)
LEMMA StepKinds ==
  ASSUME [Next]_vars
  PROVE  \/ \E r \in Reqs : Find(r)
         \/ \E r \in Reqs : SaveSelect(r)
         \/ \E r \in Reqs : SaveUpdate(r)
         \/ \E r \in Reqs : DeleteSessions(r)
         \/ \E r \in Reqs : End(r)
         \/ SessionStep
         \/ UNCHANGED vars
<1>1. ASSUME NEW r \in Reqs, DisableFind(r) \/ DeleteFind(r) \/ ProfileFind(r) \/ OtpFind(r)
      PROVE  Find(r)
  BY <1>1 DEF DisableFind, DeleteFind, ProfileFind, OtpFind, Find, Saving
<1>2. ASSUME NEW r \in Reqs, PasswordLogin(r)
      PROVE  Find(r)
  BY <1>2 DEF PasswordLogin, MayLogIn, Find
<1>3. ASSUME NEW r \in Reqs, Answer(r) \/ Fail(r)
      PROVE  End(r)
  BY <1>3 DEF Answer, Fail, End
<1>4. ASSUME NEW r \in Reqs, NEW s \in Sids, OpenSession(r, s)
      PROVE  End(r)
  BY <1>4 DEF OpenSession, Open, End
<1>5. ASSUME NEW r \in Reqs, NEW s \in Sids, RefreshFind(r, s) \/ RefreshEnd(r, s)
      PROVE  SessionStep
  BY <1>5 DEF RefreshFind, RefreshEnd, SessionStep
<1>6. ASSUME NEW s \in Sids, LogOut(s) \/ Expire(s) \/ Reuse(s)
      PROVE  SessionStep
  BY <1>6 DEF LogOut, Expire, Reuse, SessionStep
<1> QED
  BY <1>1, <1>2, <1>3, <1>4, <1>5, <1>6 DEF Next

----------------------------------------------------------------------------
(* What each kind of step does to the requests *)

LEMMA FindEffect ==
  ASSUME TypeOK, NEW r \in Reqs, Find(r)
  PROVE  /\ req[r] = Idle
         /\ r \notin missed
         /\ \A q \in Reqs \ {r} : req'[q] = req[q]
         /\ req'[r] \in Request
         /\ StepOK(req'[r])
         /\ req'[r].seen = status
         /\ req'[r].step \in {"select", "open"}
         /\ req'[r].step = "open" => req'[r].op = "login"
         /\ req' \in [Reqs -> Request]
         /\ req'[r] # Idle
         /\ UNCHANGED <<phase, claims, status, outlived, missed>>
<1>1. PICK op \in Saving \cup {"login"}, step \in {"select", "open"} :
        /\ Begin(r, op, step)
        /\ step = "open" <=> op = "login"
  BY DEF Find, Saving
<1> DEFINE q == [op |-> op, step |-> step, seen |-> status, dirty |-> FALSE]
<1>2. req' = [req EXCEPT ![r] = q] /\ req[r] = Idle /\ UNCHANGED <<phase, claims, status, outlived, missed>>
  BY <1>1 DEF Begin, Free
<1>3. q \in Request /\ StepOK(q) /\ q # Idle
  BY <1>1 DEF Request, Ops, Steps, TypeOK, StepOK, Saving, Idle
<1>4. r \notin missed
  BY <1>2 DEF TypeOK
<1> QED
  BY <1>1, <1>2, <1>3, <1>4 DEF TypeOK

LEMMA SelectEffect ==
  ASSUME TypeOK, StepsOK, NEW r \in Reqs, SaveSelect(r)
  PROVE  /\ req[r].op \in Saving
         /\ req[r].step = "select"
         /\ \A q \in Reqs \ {r} : req'[q] = req[q]
         /\ req'[r] \in Request
         /\ req'[r].op = req[r].op /\ req'[r].seen = req[r].seen
         /\ req'[r].step = "update"
         /\ req'[r].dirty <=> Entity(r) # status
         /\ StepOK(req'[r])
         /\ req' \in [Reqs -> Request]
         /\ UNCHANGED <<phase, claims, status, outlived, missed>>
<1>1. req[r] \in Request /\ req[r].step = "select" /\ StepOK(req[r])
  BY DEF TypeOK, StepsOK, SaveSelect, At
<1>2. req[r].op \in Saving
  BY <1>1 DEF Request, Ops, StepOK, Saving
<1>3. /\ req' = [req EXCEPT ![r] = [req[r] EXCEPT !.step = "update", !.dirty = Entity(r) # status]]
      /\ UNCHANGED <<phase, claims, status, outlived, missed>>
  BY DEF SaveSelect, TypeOK
<1>4. [req[r] EXCEPT !.step = "update", !.dirty = Entity(r) # status] \in Request
  BY <1>1 DEF Request, Steps
<1>5. StepOK([req[r] EXCEPT !.step = "update", !.dirty = Entity(r) # status])
  BY <1>1, <1>2 DEF StepOK, Saving, Request
<1> QED
  BY <1>1, <1>2, <1>3, <1>4, <1>5 DEF TypeOK, Request

LEMMA GoEffect ==
  ASSUME TypeOK, NEW r \in Reqs, NEW step \in Steps, Go(r, step)
  PROVE  /\ \A q \in Reqs \ {r} : req'[q] = req[q]
         /\ req'[r] = [req[r] EXCEPT !.step = step]
         /\ req'[r] \in Request
         /\ req'[r].op = req[r].op /\ req'[r].seen = req[r].seen
         /\ req'[r].step = step
         /\ req' \in [Reqs -> Request]
<1>1. req[r] \in Request
  BY DEF TypeOK
<1>2. [req[r] EXCEPT !.step = step] \in Request
  BY <1>1 DEF Request
<1> QED
  BY <1>1, <1>2 DEF Go, TypeOK, Request

LEMMA UpdateEffect ==
  ASSUME TypeOK, StepsOK, NEW r \in Reqs, SaveUpdate(r)
  PROVE  /\ req[r].op \in Saving
         /\ req[r].step = "update"
         /\ \A q \in Reqs \ {r} : req'[q] = req[q]
         /\ req'[r] \in Request
         /\ req'[r].op = req[r].op /\ req'[r].seen = req[r].seen
         /\ req'[r].step \in {"revoke", "open", "done"}
         /\ StepOK(req'[r])
         /\ req' \in [Reqs -> Request]
         /\ status' \in Statuses
         /\ UNCHANGED <<phase, claims, outlived>>
<1>1. req[r] \in Request /\ req[r].step = "update" /\ StepOK(req[r])
  BY DEF TypeOK, StepsOK, SaveUpdate, At
<1>2. req[r].op \in Saving
  BY <1>1 DEF Request, Ops, StepOK, Saving
<1>3. AfterSave(req[r].op) \in Steps
  BY DEF AfterSave, Steps
<1>4. Go(r, AfterSave(req[r].op)) /\ UNCHANGED <<phase, claims, outlived>>
  BY DEF SaveUpdate
<1>5. StepOK(req'[r]) /\ req'[r].step \in {"revoke", "open", "done"}
  BY <1>1, <1>2, <1>3, <1>4, GoEffect DEF StepOK, AfterSave, Saving
<1>6. status' \in Statuses
  <2>1. Entity(r) \in Statuses
    BY <1>1, AssignedTyped DEF Entity, Request
  <2> QED
    BY <2>1 DEF SaveUpdate, TypeOK
<1> QED
  BY <1>1, <1>2, <1>3, <1>4, <1>5, <1>6, GoEffect

LEMMA RevokeEffect ==
  ASSUME TypeOK, StepsOK, NEW r \in Reqs, DeleteSessions(r)
  PROVE  /\ req[r].op = "delete"
         /\ req[r].step = "revoke"
         /\ \A q \in Reqs \ {r} : req'[q] = req[q]
         /\ req'[r].op = "delete" /\ req'[r].seen = req[r].seen
         /\ req'[r].step = "done"
         /\ StepOK(req'[r])
         /\ req' \in [Reqs -> Request]
         /\ UNCHANGED <<claims, status, outlived, missed>>
<1>1. req[r].step = "revoke" /\ StepOK(req[r])
  BY DEF StepsOK, DeleteSessions, At
<1>2. "done" \in Steps /\ Go(r, "done") /\ UNCHANGED <<claims, status, outlived, missed>>
  BY DEF Steps, DeleteSessions, Revoke
<1>3. req'[r].op = req[r].op /\ req'[r].step = "done"
  BY <1>2, GoEffect
<1> QED
  BY <1>1, <1>2, <1>3, GoEffect DEF StepOK

LEMMA EndEffect ==
  ASSUME TypeOK, NEW r \in Reqs, End(r)
  PROVE  /\ \A q \in Reqs \ {r} : req'[q] = req[q]
         /\ req'[r] = Idle
         /\ req' \in [Reqs -> Request]
         /\ missed' = missed \ {r}
         /\ UNCHANGED <<claims, status, outlived>>
BY IdleOK DEF End, Done, TypeOK

----------------------------------------------------------------------------
(* The invariant *)

LEMMA InitIInv == Init => IInv
<1> SUFFICES ASSUME Init PROVE IInv
  OBVIOUS
<1>1. TypeOK
  BY IdleOK DEF Init, ContractInit, TypeOK, Phases, Statuses
<1>2. StepsOK
  BY IdleOK DEF Init, StepsOK
<1>3. SeenOK /\ StatusAsAsked
  BY IdleOK DEF Init, SeenOK, StatusAsAsked
<1> QED
  BY <1>1, <1>2, <1>3 DEF IInv

(* A step of the sessions keeps their types, and what has outlived exists. *)
LEMMA SessionTypes ==
  ASSUME TypeOK, SessionStep
  PROVE  TypeOK'
<1>1. CASE \E r \in Reqs, s \in Sids : RefreshFind(r, s)
  BY <1>1 DEF RefreshFind, Claim, TypeOK
<1>2. CASE \E r \in Reqs, s \in Sids : RefreshEnd(r, s)
  BY <1>2 DEF RefreshEnd, Settle, TypeOK, Phases
<1>3. CASE \E s \in Sids : LogOut(s)
  BY <1>3 DEF LogOut, Revoke, TypeOK, Phases
<1>4. CASE \E s \in Sids : Expire(s)
  BY <1>4 DEF Expire, TypeOK
<1>5. CASE \E s \in Sids : Reuse(s)
  BY <1>5 DEF Reuse, TypeOK, Phases
<1> QED
  BY <1>1, <1>2, <1>3, <1>4, <1>5 DEF SessionStep

LEMMA NextTypeOK ==
  ASSUME TypeOK, StepsOK, [Next]_vars
  PROVE  TypeOK'
<1>1. ASSUME NEW r \in Reqs, Find(r)
      PROVE  TypeOK'
  BY <1>1, FindEffect DEF TypeOK
<1>2. ASSUME NEW r \in Reqs, SaveSelect(r)
      PROVE  TypeOK'
  <2>1. req[r] # Idle /\ req'[r] # Idle
    BY <1>2, SelectEffect, IdleOK
  <2> QED
    BY <1>2, <2>1, SelectEffect DEF TypeOK
<1>3. ASSUME NEW r \in Reqs, SaveUpdate(r)
      PROVE  TypeOK'
  <2>1. req'[r] # Idle
    BY <1>3, UpdateEffect, IdleOK
  <2>2. missed' \subseteq missed \cup {q \in Reqs \ {r} : req[q] # Idle}
    BY <1>3 DEF SaveUpdate
  <2>3. missed' \subseteq {q \in Reqs : req'[q] # Idle}
    BY <1>3, <2>1, <2>2, UpdateEffect DEF TypeOK
  <2> QED
    BY <1>3, <2>3, UpdateEffect DEF TypeOK
<1>4. ASSUME NEW r \in Reqs, DeleteSessions(r)
      PROVE  TypeOK'
  <2>1. req'[r] # Idle
    BY <1>4, RevokeEffect, IdleOK
  <2>2. /\ phase' \in [Sids -> Phases]
        /\ outlived \subseteq {s \in Sids : phase'[s] # "none"}
    BY <1>4 DEF DeleteSessions, Revoke, TypeOK, Phases
  <2> QED
    BY <1>4, <2>1, <2>2, RevokeEffect DEF TypeOK
<1>5. ASSUME NEW r \in Reqs, End(r)
      PROVE  TypeOK'
  <2>1. /\ phase' \in [Sids -> Phases]
        /\ outlived \subseteq {s \in Sids : phase'[s] # "none"}
    BY <1>5 DEF End, Open, TypeOK, Phases
  <2> QED
    BY <1>5, <2>1, EndEffect DEF TypeOK
<1>6. CASE UNCHANGED vars
  BY <1>6 DEF vars, TypeOK
<1> QED
  BY <1>1, <1>2, <1>3, <1>4, <1>5, <1>6, SessionTypes, StepKinds

LEMMA NextStepsOK ==
  ASSUME TypeOK, StepsOK, [Next]_vars
  PROVE  StepsOK'
<1>1. ASSUME NEW r \in Reqs, StepOK(req'[r]), \A q \in Reqs \ {r} : req'[q] = req[q]
      PROVE  StepsOK'
  BY <1>1 DEF StepsOK
<1>2. ASSUME NEW r \in Reqs, Find(r)
      PROVE  StepsOK'
  BY <1>1, <1>2, FindEffect
<1>3. ASSUME NEW r \in Reqs, SaveSelect(r)
      PROVE  StepsOK'
  BY <1>1, <1>3, SelectEffect
<1>4. ASSUME NEW r \in Reqs, SaveUpdate(r)
      PROVE  StepsOK'
  BY <1>1, <1>4, UpdateEffect
<1>5. ASSUME NEW r \in Reqs, DeleteSessions(r)
      PROVE  StepsOK'
  BY <1>1, <1>5, RevokeEffect
<1>6. ASSUME NEW r \in Reqs, End(r)
      PROVE  StepsOK'
  BY <1>1, <1>6, EndEffect, IdleOK
<1>7. CASE SessionStep \/ UNCHANGED vars
  BY <1>7 DEF SessionStep, vars, StepsOK
<1> QED
  BY <1>2, <1>3, <1>4, <1>5, <1>6, <1>7, StepKinds

(* A request whose record, the status and whether it is missed all stay as   *)
(* they are keeps what SeenOK and StatusAsAsked say of it.                   *)
SeenBy(r) ==
  /\ req[r].step \in {"select", "update"} => status = req[r].seen
  /\ req[r].step = "update" => (req[r].dirty <=> Entity(r) # status)

AskedOf(r) ==
  req[r].step \in {"revoke", "open", "done"} =>
    CASE req[r].op = "disable" -> /\ status # "deleted"
                                  /\ status = "active" <=> req[r].seen = "suspended"
      [] req[r].op = "delete" -> status = "deleted"
      [] req[r].op \in {"profile", "otp"} -> status = req[r].seen
      [] OTHER -> TRUE

Kept == \A r \in Reqs \ missed : SeenBy(r) /\ AskedOf(r)

LEMMA KeptIs == Kept <=> SeenOK /\ StatusAsAsked
BY DEF Kept, SeenOK, StatusAsAsked, SeenBy, AskedOf

LEMMA Untouched ==
  ASSUME NEW q \in Reqs, SeenBy(q), AskedOf(q), req'[q] = req[q], status' = status
  PROVE  SeenBy(q)' /\ AskedOf(q)'
BY DEF SeenBy, AskedOf, Entity

(* The UPDATE of a request that has missed nothing does what it was asked. *)
LEMMA UpdateAsAsked ==
  ASSUME TypeOK, StepsOK, Kept, NEW r \in Reqs \ missed, SaveUpdate(r)
  PROVE  SeenBy(r)' /\ AskedOf(r)'
<1>1. /\ req[r].step = "update"
      /\ req[r].op \in Saving
      /\ req[r] \in Request
  BY UpdateEffect DEF TypeOK
<1>2. status = req[r].seen /\ (req[r].dirty <=> Entity(r) # status)
  BY <1>1 DEF Kept, SeenBy
<1>3. status' = Assigned(req[r].op, req[r].seen)
  BY <1>2 DEF SaveUpdate, Entity
<1>4. req'[r].op = req[r].op /\ req'[r].seen = req[r].seen
  BY UpdateEffect
<1>5. AskedOf(r)'
  BY <1>1, <1>3, <1>4 DEF AskedOf, Assigned, Saving
<1>6. SeenBy(r)'
  BY UpdateEffect DEF SeenBy
<1> QED
  BY <1>5, <1>6

LEMMA NextKept ==
  ASSUME TypeOK, StepsOK, Kept, [Next]_vars
  PROVE  Kept'
<1>1. ASSUME NEW r \in Reqs, Find(r)
      PROVE  Kept'
  <2> SUFFICES ASSUME NEW q \in Reqs \ missed'
               PROVE  SeenBy(q)' /\ AskedOf(q)'
    BY DEF Kept
  <2>1. CASE q = r
    <3>1. status' = req'[r].seen /\ req'[r].step \in {"select", "open"}
      BY <1>1, FindEffect
    <3>2. req'[r].step = "open" => req'[r].op = "login"
      BY <1>1, FindEffect
    <3> QED
      BY <2>1, <3>1, <3>2 DEF SeenBy, AskedOf
  <2>2. CASE q # r
    BY <1>1, <2>2, FindEffect, Untouched DEF Kept
  <2> QED
    BY <2>1, <2>2
<1>2. ASSUME NEW r \in Reqs, SaveSelect(r)
      PROVE  Kept'
  <2> SUFFICES ASSUME NEW q \in Reqs \ missed'
               PROVE  SeenBy(q)' /\ AskedOf(q)'
    BY DEF Kept
  <2>1. CASE q = r
    <3>1. status' = req'[r].seen /\ req'[r].step = "update"
      BY <1>2, <2>1, SelectEffect DEF Kept, SeenBy
    <3>2. Entity(r)' = Entity(r) /\ status' = status
      BY <1>2, SelectEffect DEF Entity
    <3>3. req'[r].dirty <=> Entity(r)' # status'
      BY <1>2, <3>2, SelectEffect
    <3> QED
      BY <2>1, <3>1, <3>3 DEF SeenBy, AskedOf
  <2>2. CASE q # r
    BY <1>2, <2>2, SelectEffect, Untouched DEF Kept
  <2> QED
    BY <2>1, <2>2
<1>3. ASSUME NEW r \in Reqs, SaveUpdate(r)
      PROVE  Kept'
  <2> SUFFICES ASSUME NEW q \in Reqs \ missed'
               PROVE  SeenBy(q)' /\ AskedOf(q)'
    BY DEF Kept
  <2>1. q \notin missed
    BY <1>3 DEF SaveUpdate
  <2>2. CASE q = r
    BY <1>3, <2>1, <2>2, UpdateAsAsked
  <2>3. CASE q # r /\ status' = status
    BY <1>3, <2>1, <2>3, UpdateEffect, Untouched DEF Kept
  <2>4. CASE q # r /\ status' # status
    <3>1. req'[q] = Idle
      BY <1>3, <2>4, UpdateEffect DEF SaveUpdate
    <3> QED
      BY <3>1, IdleOK DEF SeenBy, AskedOf
  <2> QED
    BY <2>2, <2>3, <2>4
<1>4. ASSUME NEW r \in Reqs, DeleteSessions(r)
      PROVE  Kept'
  <2> SUFFICES ASSUME NEW q \in Reqs \ missed'
               PROVE  SeenBy(q)' /\ AskedOf(q)'
    BY DEF Kept
  <2>1. CASE q = r
    <3>1. status = "deleted"
      BY <1>4, <2>1, RevokeEffect DEF Kept, AskedOf
    <3> QED
      BY <1>4, <2>1, <3>1, RevokeEffect DEF SeenBy, AskedOf
  <2>2. CASE q # r
    BY <1>4, <2>2, RevokeEffect, Untouched DEF Kept
  <2> QED
    BY <2>1, <2>2
<1>5. ASSUME NEW r \in Reqs, End(r)
      PROVE  Kept'
  <2> SUFFICES ASSUME NEW q \in Reqs \ missed'
               PROVE  SeenBy(q)' /\ AskedOf(q)'
    BY DEF Kept
  <2>1. CASE q = r
    BY <1>5, <2>1, EndEffect, IdleOK DEF SeenBy, AskedOf
  <2>2. CASE q # r
    BY <1>5, <2>2, EndEffect, Untouched DEF Kept
  <2> QED
    BY <2>1, <2>2
<1>6. CASE SessionStep \/ UNCHANGED vars
  BY <1>6, Untouched DEF SessionStep, vars, Kept
<1> QED
  BY <1>1, <1>2, <1>3, <1>4, <1>5, <1>6, StepKinds

LEMMA NextIInv == IInv /\ [Next]_vars => IInv'
<1> SUFFICES ASSUME IInv, [Next]_vars PROVE IInv'
  OBVIOUS
<1>1. TypeOK /\ StepsOK /\ Kept
  BY KeptIs DEF IInv
<1>2. TypeOK' /\ StepsOK' /\ Kept'
  BY <1>1, NextTypeOK, NextStepsOK, NextKept
<1>3. Kept' => (SeenOK /\ StatusAsAsked)'
  BY KeptIs, PTL
<1> QED
  BY <1>2, <1>3 DEF IInv

----------------------------------------------------------------------------
(* What follows for every behaviour *)

(* The inductive invariant holds in every reachable state. *)
THEOREM Invariance == Spec => []IInv
BY InitIInv, NextIInv, PTL DEF Spec

(* The row, the sessions and the requests keep their types. *)
THEOREM TypeCorrect == Spec => []TypeOK
<1>1. IInv => TypeOK
  BY DEF IInv
<1> QED
  BY <1>1, Invariance, PTL

(* disableUser, deleteUser, updateUserProfile and the SMS login do to the    *)
(* status what they were asked, or another request changed it meanwhile.     *)
THEOREM SavesAsAsked == Spec => []StatusAsAsked
<1>1. IInv => StatusAsAsked
  BY DEF IInv
<1> QED
  BY <1>1, Invariance, PTL

(* A deleted account that nobody holds an older copy of comes back only      *)
(* through disableUser or an SMS login.                                      *)
LEMMA ClosedStep ==
  ASSUME IInv, [Next]_vars, Closed
  PROVE  Closed' \/ \E r \in Reqs : DisableFind(r) \/ OtpFind(r)
<1> USE DEF IInv
<1>1. ASSUME NEW r \in Reqs, DeleteFind(r) \/ ProfileFind(r)
      PROVE  Closed'
  <2>1. PICK op \in {"delete", "profile"} : Begin(r, op, "select")
    BY <1>1 DEF DeleteFind, ProfileFind
  <2>2. req'[r].op = op /\ req'[r].seen = "deleted"
    BY <2>1 DEF Begin, Closed, TypeOK
  <2>3. /\ \A q \in Reqs \ {r} : req'[q] = req[q]
        /\ UNCHANGED <<phase, claims, status>>
    BY <2>1 DEF Begin, TypeOK
  <2> QED
    BY <2>2, <2>3 DEF Closed
<1>2. ASSUME NEW r \in Reqs, PasswordLogin(r)
      PROVE  FALSE
  BY <1>2 DEF PasswordLogin, MayLogIn, Closed
<1>3. ASSUME NEW r \in Reqs, SaveSelect(r)
      PROVE  Closed'
  <2>1. /\ \A q \in Reqs : req'[q].op = req[q].op /\ req'[q].seen = req[q].seen
        /\ UNCHANGED <<phase, claims, status>>
    BY <1>3, SelectEffect
  <2> QED
    BY <2>1 DEF Closed
<1>4. ASSUME NEW r \in Reqs, SaveUpdate(r)
      PROVE  Closed'
  <2>1. /\ \A q \in Reqs : req'[q].op = req[q].op /\ req'[q].seen = req[q].seen
        /\ UNCHANGED <<phase, claims>>
        /\ req[r].op \in Saving
    BY <1>4, UpdateEffect
  <2>2. Entity(r) = "deleted"
    BY <2>1 DEF Closed, Entity, Assigned, Saving
  <2>3. status' = "deleted"
    BY <1>4, <2>2 DEF SaveUpdate, Closed
  <2> QED
    BY <2>1, <2>3 DEF Closed
<1>5. ASSUME NEW r \in Reqs, DeleteSessions(r)
      PROVE  Closed'
  <2>1. /\ \A q \in Reqs : req'[q].op = req[q].op /\ req'[q].seen = req[q].seen
        /\ UNCHANGED <<claims, status>>
    BY <1>5, RevokeEffect
  <2>2. \A s \in Sids : phase'[s] # "live"
    BY <1>5 DEF DeleteSessions, Revoke, Closed
  <2> QED
    BY <2>1, <2>2 DEF Closed
<1>6. ASSUME NEW r \in Reqs, End(r)
      PROVE  Closed'
  <2>1. ~At(r, "open")
    BY DEF Closed, StepsOK, StepOK, At
  <2>2. UNCHANGED <<phase, claims, status>>
    BY <1>6, <2>1 DEF End
  <2>3. \A q \in Reqs : req'[q] = req[q] \/ req'[q] = Idle
    BY <1>6, EndEffect
  <2> QED
    BY <2>2, <2>3, IdleOK DEF Closed
<1>7. ASSUME SessionStep
      PROVE  Closed'
  <2>1. UNCHANGED <<claims, status, req>> /\ \A s \in Sids : phase'[s] # "live"
    BY <1>7 DEF SessionStep, RefreshFind, RefreshEnd, LogOut, Expire, Reuse,
                Claim, Settle, Revoke, Closed, TypeOK, Phases
  <2> QED
    BY <2>1 DEF Closed
<1>8. CASE UNCHANGED vars
  BY <1>8 DEF vars, Closed
<1>9. ASSUME NEW r \in Reqs, Find(r), ~Closed'
      PROVE  DisableFind(r) \/ OtpFind(r)
  BY <1>1, <1>2, <1>9 DEF Find, Saving, DisableFind, OtpFind, DeleteFind, ProfileFind,
                          PasswordLogin, MayLogIn
<1> QED
  BY <1>3, <1>4, <1>5, <1>6, <1>7, <1>8, <1>9, StepKinds

(* Deletion lasts, as far as it does, in every behaviour (deleteUser).       *)
THEOREM DeletedStaysDeleted == Spec => ClosedStaysClosed
<1>1. IInv /\ [Next]_vars => [Closed => Closed' \/ \E r \in Reqs : DisableFind(r) \/ OtpFind(r)]_vars
  BY ClosedStep
<1> QED
  BY <1>1, Invariance, PTL DEF Spec, ClosedStaysClosed
=============================================================================
