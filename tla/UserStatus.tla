----------------------------- MODULE UserStatus -----------------------------
(* One user's row in table users and the user's sessions: the handlers of    *)
(* AdminService (disableUser, deleteUser), AuthService.updateUserProfile and *)
(* SmsOtpProvider.authenticate, all of which save the whole row they found,  *)
(* and the sign-ins that look at it or do not.                               *)
(*                                                                           *)
(* Of the row only status is kept: the other columns are set by one handler  *)
(* each, and what a save does to status does not depend on them.  The        *)
(* sessions are those of SessionContract, which Sessions implements, on      *)
(* slots that are used again once a session is past expires_at.              *)
EXTENDS SessionContract

VARIABLES
  status,   \* users.status
  outlived, \* sessions whose expires_at has passed
  req,      \* req[r]: what the request in slot r does, and what it has read
  missed    \* history: requests under way since whose find another has changed status

vars == <<phase, claims, status, outlived, req, missed>>

Statuses == {"active", "suspended", "deleted"}
Ops == {"none", "disable", "delete", "profile", "otp", "login"}
Steps == {"idle", "select", "update", "revoke", "open", "done"}

(* seen is the status of the row as it was found, dirty whether the UPDATE   *)
(* on its way sets status.                                                   *)
Request == [op : Ops, step : Steps, seen : Statuses, dirty : BOOLEAN]

Idle == [op |-> "none", step |-> "idle", seen |-> "active", dirty |-> FALSE]

At(r, step) == req[r].step = step

Free(r) == req[r] = Idle /\ \A s \in Sids : r \notin claims[s]

Go(r, step) == req' = [req EXCEPT ![r].step = step]

Done(r) ==
  /\ req' = [req EXCEPT ![r] = Idle]
  /\ missed' = missed \ {r}

Begin(r, op, step) ==
  /\ Free(r)
  /\ req' = [req EXCEPT ![r] = [op |-> op, step |-> step, seen |-> status, dirty |-> FALSE]]
  /\ UNCHANGED <<phase, claims, status, outlived, missed>>

----------------------------------------------------------------------------
(* Handlers that save the row *)

DisableFind(r) == Begin(r, "disable", "select")

DeleteFind(r) == Begin(r, "delete", "select")

(* Any JWT that has not run out will do, whatever the status. *)
ProfileFind(r) == Begin(r, "profile", "select")

(* The code is right and the phone has an identity: its user is loaded with  *)
(* it.  Nobody looks at the status.                                          *)
OtpFind(r) == Begin(r, "otp", "select")

(* Mutant: the user is made active, as when one is created. *)
AssignedAsCreated(op, seen) ==
  CASE op = "disable" -> IF seen = "suspended" THEN "active" ELSE "suspended"
    [] op = "delete" -> "deleted"
    [] op = "otp" -> "active"
    [] OTHER -> seen

(* The status of the entity that is saved: a toggle, a deletion, or what was *)
(* found.                                                                    *)
Assigned(op, seen) ==
  CASE op = "disable" -> IF seen = "suspended" THEN "active" ELSE "suspended"
    [] op = "delete" -> "deleted"
    [] OTHER -> seen

Entity(r) == Assigned(req[r].op, req[r].seen)

(* save()'s SELECT: status is set if the entity differs from the row as it is. *)
SaveSelect(r) ==
  /\ At(r, "select")
  /\ req' = [req EXCEPT ![r].step = "update", ![r].dirty = Entity(r) # status]
  /\ UNCHANGED <<phase, claims, status, outlived, missed>>

AfterSave(op) == CASE op = "delete" -> "revoke" [] op = "otp" -> "open" [] OTHER -> "done"

(* save()'s UPDATE. *)
SaveUpdate(r) ==
  /\ At(r, "update")
  /\ status' = IF req[r].dirty THEN Entity(r) ELSE status
  /\ missed' = IF status' = status THEN missed
               ELSE missed \cup {q \in Reqs \ {r} : req[q] # Idle}
  /\ Go(r, AfterSave(req[r].op))
  /\ UNCHANGED <<phase, claims, outlived>>

(* Mutant: the sessions' rows are deleted. *)
DeleteRows(r) ==
  /\ At(r, "revoke")
  /\ phase' = [s \in Sids |-> "none"]
  /\ Go(r, "done")
  /\ UNCHANGED <<claims, status, outlived, missed>>

(* deleteUser's second statement: one UPDATE of all the user's sessions. *)
DeleteSessions(r) ==
  /\ At(r, "revoke")
  /\ Revoke({s \in Sids : phase[s] # "none"})
  /\ Go(r, "done")
  /\ UNCHANGED <<status, outlived, missed>>

Answer(r) ==
  /\ At(r, "done")
  /\ Done(r)
  /\ UNCHANGED <<phase, claims, status, outlived>>

(* A statement fails or the process stops: what was written stays. *)
Fail(r) ==
  /\ req[r].step \notin {"idle", "done"}
  /\ Done(r)
  /\ UNCHANGED <<phase, claims, status, outlived>>

----------------------------------------------------------------------------
(* Sessions *)

(* Mutant: the status is not asked. *)
MayLogInAlways == TRUE

(* The check of EmailPasswordProvider.authenticate, on the user as found. *)
MayLogIn == status = "active"

PasswordLogin(r) == MayLogIn /\ Begin(r, "login", "open")

(* createSession's INSERT.  It finds the user again, and takes any status. *)
OpenSession(r, s) ==
  /\ At(r, "open")
  /\ Open(s)
  /\ Done(r)
  /\ UNCHANGED <<status, outlived>>

(* refreshAccessToken loads the user with the session and ignores it. *)
RefreshFind(r, s) ==
  /\ Free(r)
  /\ s \notin outlived
  /\ Claim(r, s)
  /\ UNCHANGED <<status, outlived, req, missed>>

(* Mutant: a refresh gives the session seven more days. *)
RefreshRenewing(r, s) ==
  /\ Settle(r, s)
  /\ outlived' = outlived \ {s}
  /\ UNCHANGED <<status, req, missed>>

RefreshEnd(r, s) ==
  /\ Settle(r, s)
  /\ UNCHANGED <<status, outlived, req, missed>>

(* A logout of the user, or AdminService.revokeSession, has written its row. *)
LogOut(s) ==
  /\ Revoke({s})
  /\ UNCHANGED <<status, outlived, req, missed>>

(* Seven days after the login. *)
Expire(s) ==
  /\ phase[s] # "none"
  /\ s \notin outlived
  /\ outlived' = outlived \cup {s}
  /\ UNCHANGED <<phase, claims, status, req, missed>>

(* Nothing looks at the session any more: its slot stands for another one. *)
Reuse(s) ==
  /\ s \in outlived
  /\ claims[s] = {}
  /\ phase' = [phase EXCEPT ![s] = "none"]
  /\ outlived' = outlived \ {s}
  /\ UNCHANGED <<claims, status, req, missed>>

----------------------------------------------------------------------------
Init ==
  /\ ContractInit
  /\ status = "active"
  /\ outlived = {}
  /\ req = [r \in Reqs |-> Idle]
  /\ missed = {}

Next ==
  \/ \E r \in Reqs : DisableFind(r) \/ DeleteFind(r) \/ ProfileFind(r) \/ OtpFind(r)
  \/ \E r \in Reqs : SaveSelect(r) \/ SaveUpdate(r) \/ DeleteSessions(r)
  \/ \E r \in Reqs : Answer(r) \/ Fail(r) \/ PasswordLogin(r)
  \/ \E r \in Reqs, s \in Sids : OpenSession(r, s) \/ RefreshFind(r, s) \/ RefreshEnd(r, s)
  \/ \E s \in Sids : LogOut(s) \/ Expire(s) \/ Reuse(s)

Spec == Init /\ [][Next]_vars

(* Time passes: every session comes to its expires_at. *)
FairSpec == Spec /\ \A s \in Sids : WF_vars(Expire(s))

----------------------------------------------------------------------------
(* Properties *)

TypeOK ==
  /\ phase \in [Sids -> Phases]
  /\ claims \in [Sids -> SUBSET Reqs]
  /\ status \in Statuses
  /\ outlived \subseteq {s \in Sids : phase[s] # "none"}
  /\ req \in [Reqs -> Request]
  /\ missed \subseteq {r \in Reqs : req[r] # Idle}

(* A request that has saved the row has done to the status what it was asked *)
(* for (disableUser has toggled what its caller saw, deleteUser has deleted, *)
(* updateUserProfile and the SMS login have left it alone), unless another   *)
(* request changed the status while it ran.                                  *)
StatusAsAsked ==
  \A r \in Reqs \ missed :
    req[r].step \in {"revoke", "open", "done"} =>
      CASE req[r].op = "disable" -> /\ status # "deleted"
                                    /\ status = "active" <=> req[r].seen = "suspended"
        [] req[r].op = "delete" -> status = "deleted"
        [] req[r].op \in {"profile", "otp"} -> status = req[r].seen
        [] OTHER -> TRUE

(* An account is closed when deleteUser is through with it and no request is *)
(* under way that could write an older status or make a session live.  It    *)
(* stays closed until an administrator toggles it or its phone signs in.     *)
Closed ==
  /\ status = "deleted"
  /\ \A s \in Sids : phase[s] # "live" /\ claims[s] = {}
  /\ \A r \in Reqs : req[r].op \in {"none", "delete"} \/ (req[r].op = "profile" /\ req[r].seen = "deleted")

ClosedStaysClosed ==
  [][Closed => Closed' \/ \E r \in Reqs : DisableFind(r) \/ OtpFind(r)]_vars

(* A user who stays suspended or deleted and does not sign in by SMS has no  *)
(* usable session in the end, although disableUser revokes none and a        *)
(* deleteUser may die between its statements: refreshes never move           *)
(* expires_at.                                                               *)
Usable == {s \in Sids : phase[s] = "live" /\ s \notin outlived}

AccessEnds ==
  \/ []<>(status = "active")
  \/ []<><<\E r \in Reqs : OtpFind(r)>>_vars
  \/ <>[](Usable = {})
=============================================================================
