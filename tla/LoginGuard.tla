----------------------------- MODULE LoginGuard -----------------------------
(* Brute-force protection of e-mail login for one account:                   *)
(* AuthController.login and EmailPasswordProvider.authenticate with          *)
(* checkRateLimit, checkAccountLockout, recordFailedAttempt and              *)
(* clearFailedAttempts, over two cache counters and the account's rows of    *)
(* failed_attempts.                                                          *)
(*                                                                           *)
(* The controller counts attempts per spelling of the e-mail address, the    *)
(* provider counts failures per normalized address and locks per identity.   *)
EXTENDS RateLimit, FiniteSets

CONSTANTS
  Forms,      \* spellings of the e-mail address
  LoginMax,   \* loginRateLimitConfig.maxRequests
  BlockMax,   \* the failures at which checkRateLimit blocks
  MaxFailed,  \* MAX_FAILED_ATTEMPTS
  LockLife,   \* LOCKOUT_DURATION_MINUTES, in ticks
  Reqs        \* slots for requests under way at one time

ASSUME LoginGuardAssumption ==
  /\ {LoginMax, BlockMax, MaxFailed, LockLife} \subseteq Nat \ {0}
  /\ IsFiniteSet(Reqs)

VARIABLES
  limiter,    \* limiter[f]: the cache entry of key login:<f>
  failures,   \* the cache entry of key ratelimit:login:<normalized>
  rows,       \* failed_attempts rows of the identity, counted up to MaxFailed
  unlocked,   \* whether one of them has no locked_until
  lock,       \* ticks until the latest locked_until of the others
  suspended,  \* users.status is not active
  req,        \* req[r]: where the request in slot r is, and the count it has read
  recent,     \* history: the failures counted less than Window ticks ago;
              \* <<k, i>> was counted k ticks ago, after i others of that tick
  outdated,   \* history: requests whose count is from before the last clearing
  staleLock   \* history: a lock was written on an outdated count, not cleared since

vars == <<limiter, failures, rows, unlocked, lock, suspended, req, recent, outdated, staleLock>>
table == <<rows, unlocked, lock, staleLock>>

Steps == {"idle", "find", "lock", "count", "insert", "foreign", "bump", "clear"}
Idle == [pc |-> "idle", count |-> 0]

At(r, pc) == req[r].pc = pc

Go(r, pc) == req' = [req EXCEPT ![r] = [pc |-> pc, count |-> 0]]

----------------------------------------------------------------------------
(* The login request *)

(* Mutant: a refused check starts the window anew as well. *)
RefusedRefreshing(f) ==
  /\ Denies(limiter[f], LoginMax)
  /\ limiter' = [limiter EXCEPT ![f].left = Window]
  /\ UNCHANGED <<failures, table, suspended, req, recent, outdated>>

(* The controller answers 429; checkLimit leaves the entry alone. *)
Refused(f) ==
  /\ Denies(limiter[f], LoginMax)
  /\ UNCHANGED vars

(* Mutant: the provider does not look at its counter. *)
NeverBlocked == FALSE

(* checkRateLimit of the provider.  Nothing writes the counter per address.  *)
Blocked == failures.n >= BlockMax

(* The provider throws after the controller has counted: 401. *)
AttemptBlocked(f) ==
  /\ ~Denies(limiter[f], LoginMax)
  /\ Blocked
  /\ limiter' = [limiter EXCEPT ![f] = Counted(@)]
  /\ UNCHANGED <<failures, table, suspended, req, recent, outdated>>

(* Both cache checks pass without I/O; the find of the identity is awaited. *)
Attempt(r, f) ==
  /\ At(r, "idle")
  /\ ~Denies(limiter[f], LoginMax)
  /\ ~Blocked
  /\ limiter' = [limiter EXCEPT ![f] = Counted(@)]
  /\ Go(r, "find")
  /\ UNCHANGED <<failures, table, suspended, recent, outdated>>

(* A user who is not active is recorded as a failure of no identity. *)
Find(r) ==
  /\ At(r, "find")
  /\ Go(r, IF suspended THEN "foreign" ELSE "lock")
  /\ UNCHANGED <<limiter, failures, table, suspended, recent, outdated>>

(* Mutant: NULLS LAST, so that the latest locked_until is looked at. *)
LatestLock == lock > 0

(* checkAccountLockout: ORDER BY locked_until DESC puts NULL first, so a row *)
(* without locked_until hides the lockouts.                                  *)
Locked == ~unlocked /\ lock > 0

LockedOut(r) ==
  /\ At(r, "lock")
  /\ Locked
  /\ Go(r, "idle")
  /\ UNCHANGED <<limiter, failures, table, suspended, recent, outdated>>

(* The password is compared with the hash the find has read. *)
Judge(r) ==
  /\ At(r, "lock")
  /\ ~Locked
  /\ Go(r, "count") \/ Go(r, "clear")
  /\ UNCHANGED <<limiter, failures, table, suspended, recent, outdated>>

----------------------------------------------------------------------------
(* recordFailedAttempt: count, insert, then the cache counter *)

Count(r) ==
  /\ At(r, "count")
  /\ req' = [req EXCEPT ![r] = [pc |-> "insert", count |-> rows]]
  /\ UNCHANGED <<limiter, failures, table, suspended, recent, outdated>>

(* The same for a user who is not active: the row has no identity, so it is  *)
(* none of the rows modelled here.                                           *)
RecordForeign(r) ==
  /\ At(r, "foreign")
  /\ Go(r, "bump")
  /\ UNCHANGED <<limiter, failures, table, suspended, recent, outdated>>

(* Mutant: the lockout is added to one that is still running. *)
ExtendedLock == lock + LockLife

NewLock == LockLife

(* The new row locks the account only if MaxFailed rows were there before;   *)
(* how long ago they were made is not asked.                                 *)
Insert(r) ==
  LET locking == req[r].count >= MaxFailed
  IN /\ At(r, "insert")
     /\ rows' = IF rows < MaxFailed THEN rows + 1 ELSE rows
     /\ unlocked' = (unlocked \/ ~locking)
     /\ lock' = IF locking THEN NewLock ELSE lock
     /\ staleLock' = (staleLock \/ (locking /\ r \in outdated))
     /\ Go(r, "bump")
     /\ outdated' = outdated \ {r}
     /\ UNCHANGED <<limiter, failures, suspended, recent>>

Latest == {x \in recent : x[1] = 0}

Bump(r) ==
  /\ At(r, "bump")
  /\ failures' = Counted(failures)
  /\ recent' = recent \cup {<<0, Cardinality(Latest)>>}
  /\ Go(r, "idle")
  /\ UNCHANGED <<limiter, table, suspended, outdated>>

(* clearFailedAttempts: one DELETE.  Neither cache counter is reset. *)
Clear(r) ==
  /\ At(r, "clear")
  /\ rows' = 0
  /\ unlocked' = FALSE
  /\ lock' = 0
  /\ staleLock' = FALSE
  /\ outdated' = {q \in Reqs : At(q, "insert")}
  /\ Go(r, "idle")
  /\ UNCHANGED <<limiter, failures, suspended, recent>>

----------------------------------------------------------------------------
(* A statement fails: the handler ends, what it has written stays. *)
Fail(r) ==
  /\ req[r].pc \in {"find", "lock", "count", "insert", "foreign", "clear"}
  /\ Go(r, "idle")
  /\ outdated' = outdated \ {r}
  /\ UNCHANGED <<limiter, failures, table, suspended, recent>>

(* AdminService.disableUser is a toggle; a deleted user is not active either. *)
ToggleStatus ==
  /\ suspended' = ~suspended
  /\ UNCHANGED <<limiter, failures, table, req, recent, outdated>>

(* The process stops and starts: the cache is gone, the rows are not.        *)
(* Failures before the restart are no longer counted, by cache or history.   *)
Restart ==
  /\ limiter' = [f \in Forms |-> Absent]
  /\ failures' = Absent
  /\ req' = [r \in Reqs |-> Idle]
  /\ recent' = {}
  /\ outdated' = {}
  /\ UNCHANGED <<table, suspended>>

Tick ==
  /\ limiter' = [f \in Forms |-> Aged(limiter[f])]
  /\ failures' = Aged(failures)
  /\ lock' = IF lock > 0 THEN lock - 1 ELSE 0
  /\ recent' = {<<x[1] + 1, x[2]>> : x \in {y \in recent : y[1] + 1 < Window}}
  /\ UNCHANGED <<rows, unlocked, suspended, req, outdated, staleLock>>

----------------------------------------------------------------------------
Init ==
  /\ limiter = [f \in Forms |-> Absent]
  /\ failures = Absent
  /\ rows = 0
  /\ unlocked = FALSE
  /\ lock = 0
  /\ suspended = FALSE
  /\ req = [r \in Reqs |-> Idle]
  /\ recent = {}
  /\ outdated = {}
  /\ staleLock = FALSE

Work(r) ==
  Find(r) \/ LockedOut(r) \/ Judge(r) \/ Count(r) \/ Insert(r)
    \/ RecordForeign(r) \/ Bump(r) \/ Clear(r)

Next ==
  \/ \E f \in Forms : Refused(f) \/ AttemptBlocked(f)
  \/ \E r \in Reqs, f \in Forms : Attempt(r, f)
  \/ \E r \in Reqs : Find(r) \/ LockedOut(r) \/ Judge(r)
  \/ \E r \in Reqs : Count(r) \/ Insert(r) \/ RecordForeign(r) \/ Bump(r)
  \/ \E r \in Reqs : Clear(r) \/ Fail(r)
  \/ ToggleStatus
  \/ Restart
  \/ Tick

Spec == Init /\ [][Next]_vars

(* Time passes, and the database answers. *)
FairSpec == Spec /\ WF_vars(Tick) /\ \A r \in Reqs : WF_vars(Work(r))

----------------------------------------------------------------------------
(* Properties *)

TypeOK ==
  /\ limiter \in [Forms -> Entry]
  /\ failures \in Entry /\ failures.kind # "string"
  /\ rows \in 0..MaxFailed
  /\ lock \in 0..LockLife
  /\ {unlocked, suspended, staleLock} \subseteq BOOLEAN
  /\ req \in [Reqs -> [pc : Steps, count : 0..MaxFailed]]
  /\ recent \subseteq (0..(Window - 1)) \X Nat
  /\ outdated \subseteq Reqs

(* In one window at most BlockMax failed logins are answered, plus one for   *)
(* every further request that was under way: checkRateLimit reads the        *)
(* counter long before recordFailedAttempt writes it.                        *)
Undecided == {r \in Reqs : req[r].pc \notin {"idle", "clear"}}

FailuresBounded == Cardinality(recent) + Cardinality(Undecided) < BlockMax + Cardinality(Reqs)

(* The provider's counter and its window do what Quota says of such a limit: *)
(* a login is let in only while the last window has fewer failures than      *)
(* BlockMax, and makes at most one.                                          *)
Limit == INSTANCE Quota WITH Max <- BlockMax, used <- Cardinality(recent), pending <- Undecided

KeepsLimit == Limit!QuotaSpec

(* checkAccountLockout refuses a login only if a failure that had counted    *)
(* its rows before a successful login cleared them wrote its lock after: in  *)
(* every other order a row without locked_until hides the lock.              *)
LockoutOnlyByRace == Locked => staleLock

(* A refused or locked-out request does not prolong the refusal: once no     *)
(* more attempts get past the controller's limiter, the owner can log in     *)
(* again, in every spelling.                                                 *)
CanLogin == ~Blocked /\ ~Locked /\ \A f \in Forms : ~Denies(limiter[f], LoginMax)

CountedAttempt == \E f \in Forms : AttemptBlocked(f) \/ \E r \in Reqs : Attempt(r, f)

LoginAgain == []<>CanLogin \/ []<><<CountedAttempt>>_vars

(* 05_SECURITY_DEEP_DIVE.md: "Lock after 5 failed attempts", "Lockout        *)
(* duration: 15 minutes".  While a locked_until that was written for the     *)
(* account lies ahead, the account is locked.                                *)
LockoutInForce == lock > 0 => Locked
=============================================================================
