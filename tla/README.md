# Kimbu auth: a TLA+ verification project

Kimbu is an authentication service: NestJS controllers over TypeORM (Postgres) and an
in-memory cache. It has no tests, no transactions and no locks: every handler is a
sequence of awaited statements, and at each `await` any other handler may run. This
project models the handlers at that grain, checks small instances with TLC, and proves
every safety property of all six modules for every instance with TLAPS.

Paths below are relative to the repository; `src/` is its source directory.

## 1. Inventory

| Component | State | Operations | Modules |
|---|---|---|---|
| Sessions: `auth.service.ts`, `admin.service.ts` | table `sessions`: token hash, `is_active`, `expires_at` | `createSession`, `refreshAccessToken`, `logoutSession`, `logoutAllSessions`, admin `revokeSession`, `deleteUser` | `Sessions`, `SessionContract`, `SessionsProofs`, `MCSessions` |
| SMS codes: `sms-otp.provider.ts` | table `otp_codes`, cache keys `otp:<phone>`, `otp:requests:<phone>` | `requestOtp`, `authenticate` | `Otp`, `RateLimit`, `Quota`, `OtpProofs` |
| Login guard: `email-password.provider.ts` | table `failed_attempts`, cache keys `login:<email>`, `ratelimit:login:<email>` | `login`, `authenticate`, `checkRateLimit`, `checkAccountLockout`, `recordFailedAttempt`, `clearFailedAttempts` | `LoginGuard`, `RateLimit`, `Quota`, `LoginGuardProofs` |
| Accounts: `auth.service.ts`, `admin.service.ts` | tables `users`, `identities`, `user_apps` | `register`, `createPoolUser`, `linkIdentity`, `unlinkIdentity`, `changePassword` | `Accounts`, `MCAccounts`, `AccountsProofs` |
| Rate limiter: `rate-limit.middleware.ts` | cache counters with a time to live | `checkLimit` | `RateLimit` (operators), `RateLimitProofs` |
| User status: `admin.service.ts`, `auth.service.ts`, `sms-otp.provider.ts` | `users.status` | `disableUser`, `deleteUser`, `updateUserProfile`, the SMS login's save of the user | `UserStatus` over `SessionContract`, `UserStatusProofs` |
| Pools and roles: `admin.service.ts`, the guards | `apps` (config, key), `user_apps`, `user_app_roles`, roles in access tokens | `updatePoolConfig`, `regeneratePoolApiKey`, `assignUserRole`, `removeUserRole`, `deleteApp`, minting, `RoleGuard`, `AdminGuard`, `PermissionGuard` | `Pools`, `MCPools`, `PoolsProofs` |
| Token formats, security primitives | none | signing, hashing, random numbers, TOTP | not modelled, see section 9 |
| Wiring, DTOs, provider interfaces | none | configuration, validation, delegation | not modelled |

How they interact. The controller counts a request in the limiter, calls a provider
(`EmailPasswordProvider`, `SmsOtpProvider`), and with the user id that comes back calls
`createSession`. `refreshAccessToken` and the logouts touch only `sessions`. The admin
service writes the same `users` and `sessions` rows as the auth service, and
nothing but the database stands between the two. The limiter, both providers' counters and
the cached code live in one cache, told apart only by the text of their keys: `otp:` is used
twice (section 4). `AuthModule` registers that cache in memory
(`src/modules/auth/auth.module.ts:34`), so it does not survive a restart; the tables do.

What is hard, and what correctness means there:

* **Stale entities.** `save(entity)` in TypeORM is a SELECT of the row as it is now, then an
  UPDATE of the columns in which the entity differs from it; an entity that was loaded before
  another handler's write puts the old values back. Sessions: a revoked session comes back
  only through a refresh that was already under way, a rotated-out token never redeems
  anything, no token changes its session. Codes: how many guesses a code stands. Users, roles, pools: a
  save undoes what another request changed after its find, and nothing else.
* **Saves of rows that are gone.** If the SELECT of a `save` finds no row under the entity's id, the save is
  an INSERT of the whole entity: an unlinked identity, a deleted pool, a membership come back.
* **Check, then write.** Find and save of a refresh, check and count of the limits, count and
  remove of an unlink, check and INSERT of a registration. What remains true: bounds with one
  extra per request under way, uniqueness that another table's index decides.
* **Partial failure.** A handler that fails between two statements leaves the first. A user
  without a login is only left by such a failure or by two overlapping unlinks.
* **Crash and restart.** Counters are lost, rows are not.
* **Refusals that end.** Limits, cached values and lockouts must run out.

`PROJECT.json` lists every hazard at its line with the properties that cover it, and the
findings.

## 2. Conventions of the models

* A request is a slot `r \in Reqs`; its local variables are a record in `req[r]`. The number of slots bounds
  how many requests are under way at one time, not how many are made.
* One action per statement that reads or writes shared state. Code between two awaits is one
  step; so is code that only awaits the in-memory cache, whose `get` and `set`
  resolve without I/O, before the next request's event can be handled.
* `Fail(r)` ends a handler at any awaited statement: a database error or a process that stops.
  `Restart` (in the modules that use the cache) also empties the cache.
* Time is in ticks. `Window`, `OtpLife` and `LockLife` say how many ticks an entry lives; `Tick` ages
  everything by one and is always enabled.
* Variables marked *history* are never read by a guard or by the update of a variable that models code. Definitions marked *Mutant* are
  plausible bugs, used by no specification: each property is known to fail when its mutant takes
  the place of the definition that follows it.

## 3. Sessions

`Sessions` has one row per session: its token hash (a number; `NextToken` is the
generator) and `is_active`. A login uses a fresh device id, so sessions and devices are the same. `RefreshFind`,
`LogoutFind` and `LogoutAllFind` are the handlers' finds; `SaveSelect` and `SaveUpdate`
are the two statements of one `save`; `Respond` is the answer. `Entity` is what the handler
saves: the refresh assigns the new hash to a row it found active, the logouts clear `is_active` and
carry the hash they read. `Expire` is the passing of `expires_at`, which nothing extends.
The admin endpoints are single UPDATE statements. The rate limit in front of refresh is left out (it
only removes behaviours).

`SessionContract` is what the session service really promises: a session is
opened, is live, is revoked; a refresh that found it live has a *claim*, and settling a claim may
leave the session live even if it was revoked in between. `Contract == INSTANCE SessionContract
WITH phase <- ..., claims <- ...` maps a row to its phase and the refreshes that have not
saved yet to claims, and `KeepsContract` states that `Sessions` implements it. The contract is
deliberately as weak as the code: the stronger one the documents give is refuted by the two
violation runs, and proved below under a condition the code does not establish.

| Run | Instance | Shows |
|---|---|---|
| `sessions_race` | 1 session, 3 requests, 3 tokens, 289,000 states up to symmetry | `RevocationTakesEffect`: a logout's saved session is inactive, or a refresh brought it back *while the logout ran*. `SpentTokenIsDead`: a rotated-out token redeems nothing, unless a refresh has revived the session. `DeadStaysDead`: revoked and unclaimed is for good. `KeepsContract`. |
| `sessions_pair` | 2 sessions of one user and app, 2 requests, 3 tokens | `TokenOfOneSession`: `findOne` by hash never has a choice. `TypeOK`. |
| `sessions_logout` | 1 session, 2 requests | violation of `LogoutInvalidates`: logout answers 200, the session stays active. |
| `sessions_rotation` | 1 session, 2 requests | violation of `RedeemedOnce`: one token is redeemed twice. |

Bounds. Every property is about one row and the requests that hold a copy of it, or about two rows. Three requests
are the smallest number in which a logout's stale hash, a refresh and a second refresh meet; a
token is minted per login and per refresh, so three tokens allow one login and two refreshes. The proofs
remove all of these bounds. `Reqs` are interchangeable, so the runs use symmetry (safety only).

### Proofs (`SessionsProofs`)

For any users, apps, sessions, requests and any `MaxTokens`:

* `Invariance`: `Spec => []IInv`; `TypeCorrect`, `RevocationSafe`, `RotationSafe`,
  `TokensOfOneSession` follow for the properties the runs check;
* `Refinement`: `Spec => KeepsContract`; `RevokedForGood`: `Spec => DeadStaysDead`.

None of the properties is inductive. `IInv` adds: `RequestsOK` (how the fields of a request
belong together: a refresh holds one session and its UPDATE always sets the hash), `HitsExist`
(what a request found exists), `TokensApart` (`TokenOfOneSession` over every
token a request may still write), `RevokingUpdate` (an UPDATE of a logout omits `is_active`
only if the row was inactive when it was selected, or a refresh has switched it on since: the step on which
`RevocationTakesEffect` turns), `OvertakenRevived`, and `NewIsUnseen` (a token a refresh has minted is in
no row, no other request and not spent until its UPDATE: without it `SpentTokenIsDead` is not
preserved by `SaveUpdate`). Each conjunct has a lemma with one step per action; the effects of the
record-building operators are lemmas of their own. The refinement has one step per action: a login
opens, a refresh's find claims, its UPDATE or failure settles, a logout's UPDATE or an admin statement
revokes, everything else stutters.

`LockedRowsSuffice` says what is missing for the documents to be right: `Spec /\ []RowsLocked => [](RedeemedOnce /\ LogoutInvalidates)`,
where `RowsLocked` is that no two requests hold copies of one session that both still have to save, as `SELECT ... FOR
UPDATE` from find to save would ensure. Both properties are refuted by TLC without it, and `RowsLocked` leaves every handler
its behaviours: only overlaps on one row are excluded. Its invariant `LockedOK` says that what a handler has read is then what it overwrites,
that a token rotated out was found by one refresh, and that no refresh holds a session when a logout has saved it.

The only assumption is `SessionsAssumption` (owner and app of a session are
functions into users and apps, the bound is a natural number), which TLC evaluates in the runs.

## 4. SMS codes and the rate limiter

`Quota` is what a limit promises whose counter is read before the work and written after it: a request
is admitted (`Admit`) only while the last window has fewer events than `Max`, makes at most one event (`Complete`), and
events and requests may be gone at any time (`Release`: the window moves on, a request fails, the process restarts). Both providers' limits
implement it: `Limit == INSTANCE Quota WITH Max <- SendMax, used <- Cardinality(Recent), pending <- Flying` in `Otp`, and the
same with failures and undecided logins in `LoginGuard`; `KeepsLimit` states so in each. The mapping counts events and requests, never the cache
counter, so a counter that ends before the events it stands for breaks it (mutant `CountedFixed`).

`RateLimit` describes one cache key: nothing, a counter, or a string other code has put there. `checkLimit`
computes `current + 1`: with a string this appends a character, so the result compares as a far larger number
and the request is refused (`Denies`; the code 000000, which would not exceed the limit, is left out). Every allowed check sets the
counter with a full window (`Counted`), a refused one sets nothing.

`Otp` is one phone number. The controller's counter is kept per spelling
(`Forms`), the provider's per normalized number; the provider caches the code under
`otp:<normalized>`, which is the controller's key for that spelling (`Send` overwrites
`limiter[Norm]`). A verification reads the newest row (`latest`), judges it (`Judge`), then saves the
row with the count it read plus one (`CountFailure`) or as read (`MarkUsed`). Expired codes are never
judged again; their counts are forgotten to keep the state finite. `SignUp` is a right code for a phone without an
identity: the INSERT of a user without an e-mail address fails, and the code is neither used nor counted.

| Run | Instance | Shows |
|---|---|---|
| `otp` | 2 spellings, 2 requests, 3 codes, limits 2/1/2, window 3 ticks, code 1 tick, 382,000 states | `SendsBounded`: per window at most `SendMax` codes plus one for every *further* request under way. `KeepsLimit`: the refinement. `GuessLimit`: at most `AttemptMax` wrong guesses of a code, unless two verifications of it overlapped or one died before saving. `ServableAgain`: once no request gets past the limiter any more, a code can be had again. `TypeOK`. |
| `otp_limit` | 1 spelling, 1 request, `SendMax` 2 | violation of `RefusedOnlyAtLimit`: refused after one code, because the cached code is read as the counter. |

Bounds. A tick is five minutes: codes live for one, counters for three, as in the source. The limits are smaller than 3 so that
they are reached with few codes; `MaxCodes` leaves room for one more than `SendsBounded` allows. After a restart
earlier codes are no longer counted by the code, so `SendsBounded` does not count them either; the loss
itself is a listed hazard. `guesses` is counted up to one past the limit.

Fairness: `WF(Tick)`, time passes, and `WF(Work(r))`, the database answers each request. No fairness is assumed
of clients. `ServableAgain` says nothing of a phone for which counted requests keep arriving: there the code promises nothing.

### Proofs (`OtpProofs`, `RateLimitProofs`)

For any spellings, limits, lifetimes, requests and codes: `TypeCorrect`, `LimitKept` (`Spec => KeepsLimit`), `SendLimit` (`SendsBounded`), `GuessesLimited`
(`GuessLimit`). The inductive invariant `IInv` adds: `RequestsOK` (a failure on its way was judged below
the maximum; a code not made yet is no code), `SendsOK` and `GuessesOK`. `SendsOK` says that the provider's counter is at least
the number of codes in the window and outlives each of them (every send starts the counter's window anew), so that a passed check
is a passed `Admit`. `LimitStep` shows that every step of `Otp` is one of `Quota` or a stutter; `SendLimit` then follows from it and
`OverrunKept` (in `RateLimitProofs`), which says that the three steps of `Quota` keep used plus pending events below the limit plus the number of slots. `GuessesOK` says of every code not shaken that at most one
request verifies it, with the count it still has, and that the guesses are that count, or one more while that request has a
failure to save; `SaveStep` turns on it. `EntryFacts` in `RateLimitProofs` is what both `Otp` and
`LoginGuard` need of a cache entry: a counter never becomes a string by counting or by ageing. Assumed: `OtpAssumption` (positive limits, finitely
many requests, `Norm` is a spelling) and `WindowAssumption`.

## 5. Login guard

`LoginGuard` is one account, its address in several spellings. `Attempt` is the limiter and the
provider's failure counter, both in the cache; then come the find, the lockout SELECT with the password
verification (`LockedOut`, `Judge`), and either `Clear` (one DELETE) or `Count`, `Insert`, `Bump`. Of the rows of
`failed_attempts` only what the queries tell apart is kept: how many (up to the maximum), whether
one has no `locked_until`, the latest `locked_until`. Postgres puts NULL first in `ORDER BY ... DESC`, so one row without
`locked_until` hides every lockout (`Locked`). A user who is not active is recorded as a failure of no identity (`RecordForeign`).
There is no bound on behaviours: the state space is finite as it is.

| Run | Instance | Shows |
|---|---|---|
| `login` | 2 spellings, 2 requests, all limits 2, 163,000 states | `FailuresBounded`: per window at most `BlockMax` failures answered plus one per further request under way. `KeepsLimit`: the refinement. `LockoutOnlyByRace`: the lockout is in force *only* if a failure counted its rows before a successful login cleared them and wrote after. `LoginAgain`: refusals end once no attempt gets past the limiter. `TypeOK`. |
| `login_lockout` | 1 request | violation of `LockoutInForce`: a `locked_until` in the future does not lock. |

Two requests are enough for the race of `LockoutOnlyByRace` (one counts, one clears), and limits of 2 let a window
fill, lapse and fill again. Fairness as in section 4.

### Proofs (`LoginGuardProofs`)

For any spellings, limits and requests: `TypeCorrect`, `LockoutNeedsRace` (`LockoutOnlyByRace`), `LimitKept`
(`Spec => KeepsLimit`) and `FailuresLimited` (`FailuresBounded`). `IInv` adds `RowsOK`, an account
without rows has no lock, and one with rows has a row without a lock or a lock of the race; `CountsOK`: a failure that counted after the last clearing has
counted no more rows than there are when it inserts its own, so if it locks, rows without a lock precede it; and `WindowOK`: the
provider's counter is at least the number of failures in the window and outlives each of them, which is what a login that `Blocked` lets
through knows of the window. `LimitStep` and `OverrunKept` serve as in section 4. Assumed:
`LoginGuardAssumption` (positive limits and lifetimes, finitely many requests) and `WindowAssumption`.

The history `recent` holds one element per failure, numbered within its tick, so that the failures of a window are the
cardinality of a set, of which the library proves facts, and not a sum over ticks.

## 6. Accounts

`Accounts` holds users by e-mail address, identities of kind e-mail or other, and the membership of one pool. Ids of identities are
never reused (uuids). `Begin`, `InsertUser`, `InsertIdentity`, `InsertMember` are `register`
and `createPoolUser` statement by statement; `AddressFree` is the unique index on `users.email`, the only one that
protects an address. `HandToken` is `createSession`, which fails for the default app id (it is no uuid): `Fail`
may take its place. `PasswordFind` and `PhoneFind` are the two handlers that save an identity they
have found (`changePassword`, and the SMS login, which marks it verified), `IdentitySelect`,
`IdentityUpdate` and `IdentityInsert` the statements of that save. Linked e-mail addresses are taken to be normalized, OAuth and phone identities are not told apart.

| Run | Instance | Shows |
|---|---|---|
| `accounts` | 2 addresses, 2 users, 3 identity ids, 3 requests, 323,000 states up to symmetry | `OnePrimaryPerAddress`: one password per address, whatever races. `UserHasIdentity`: a user without any identity has never held a token, and the creation is under way or was interrupted; whoever has held one is left so only by two overlapping unlinks. `UnlinkedForGood`: an unlinked identity comes back only through a save that found it before. `TypeOK`. |
| `accounts_unlink` | 1 address, 1 user, 2 ids, 2 requests | violation of `LastIdentityKept`. |

Two addresses and users let an unrelated user link the other's address; two ids are the smallest number
for an overlapping unlink, the third lets one user keep a login.

### Proofs (`AccountsProofs`)

For any addresses, users, identities and requests: `TypeCorrect`, `OnePassword` (`OnePrimaryPerAddress`), `IdentityStays`
(`UserHasIdentity`), `UnlinkedStays` (`UnlinkedForGood`), `Completions` and `LockedUnlinksSuffice`. Nothing but the unique index on `users.email` protects an address, and it is on
another table than the identities; `IInv` therefore follows every primary identity, stored or held by a request that
may still write it, to its owner's address: `IdsOK` (an id has one owner), `AddressesOK` (addresses of users
differ), `CreationsOK` (where the user and the identity of a creation under way are), `PrimariesOK`, and `RemovalsOK` (what an unlink
that has counted knows), on which `UserHasIdentity` turns, with `OwnersOK`, its half about creations. Each action that writes has a lemma with one step per conjunct.

`Completions` is a second invariant, proved on top of `IInv`: whoever is in a pool, has held a token, has a known identity or is
served by any request but a creation (`Made`) exists and was not abandoned, and a creation under way concerns none of them. It
makes the strong form of `UserHasIdentity` follow, and with it `LockedUnlinksSuffice`:
`Spec /\ []UnlinksLocked => []LastIdentityKept`. `UnlinksLocked` is that no two requests unlink identities of one
user at a time, as a lock on the user's row would ensure; the comment of `unlinkIdentity` is then true whatever
registrations, links and saves go on beside it, and without it false (run `accounts_unlink`).

## 7. User status

`UserStatus` is one row of `users` and the user's sessions. `disableUser`, `deleteUser`, `updateUserProfile` and the SMS
login each find the row (`DisableFind`, `DeleteFind`, `ProfileFind`, `OtpFind`), change a
property or two in memory and save: `SaveSelect` decides whether the UPDATE will set `status` (it does if the entity's
differs from the row's at that moment, whoever changed it), `SaveUpdate` writes. So a profile change saves an old status over
a suspension that falls between its find and its SELECT, and not over one that falls after. `deleteUser` then revokes all
sessions in one statement (`DeleteSessions`), the SMS login opens a session without looking at the status; only
the password login asks (`MayLogIn`), once, before its later statements. Columns other than `status` are left out: no two handlers write the same
one, and they do not decide what a save does to `status`.

The sessions are those of `SessionContract`, which `Sessions` is proved to implement: what is used here is only that a
session is opened, claimed by a refresh, settled, revoked. `Expire` is the passing of `expires_at`; a slot whose session is past it and
has no refresh under way is used again (`Reuse`), so two slots stand for any number of sessions, two at a time.

| Run | Instance | Shows |
|---|---|---|
| `users` | 2 sessions, 2 requests, 198,000 states | `StatusAsAsked`: a saved request has done to the status what it was asked, unless *another* changed it while it ran. `ClosedStaysClosed`: a deleted account without live or claimed sessions, with nobody holding an older row, comes back only through an administrator's toggle or an SMS login (both of which the code allows). `AccessEnds`: a user who is never active again and never signs in by SMS ends up without a usable session. `TypeOK`. |

`AccessEnds` is what remains of a suspension: `disableUser` revokes nothing and refreshes do not ask for
the status, so access ends because no statement moves `expires_at`, and a `deleteUser` that dies between its two statements is
no worse. Fairness: `WF(Expire)`, time passes. None is assumed of clients, of administrators, or of the database: a
request may hang for ever. Two requests are enough for every pair of handlers to overlap (three were run once with one session: 4.4 million
states, the same results).

### Proofs (`UserStatusProofs`)

For any sessions and requests: `TypeCorrect`, `SavesAsAsked` (`StatusAsAsked`), `DeletedStaysDeleted` (`ClosedStaysClosed`), from no
assumption. The inductive invariant `IInv` adds to the types and `StatusAsAsked`: `StepsOK`, which requests can be at which
statement (only a deletion revokes, only logins open sessions: without it `Closed` says nothing of a request at `open`),
and `SeenOK`: a request that is not missed finds, until its UPDATE, the status it saw, and its UPDATE sets status just if its
entity differs, the step on which `StatusAsAsked` turns. `StepKinds` reduces the actions to six kinds; each has a lemma with what it does to
the requests, and each invariant one step per kind.

## 8. Pools and roles

`Pools` is one row of `apps` (settings that are on, `api_key`), one membership with its junction rows, and the access
tokens that carry its roles. A request on the pool's row or the role list is a find, a SELECT that fixes which columns or junction
rows the next statement writes, and that statement: `UpdatePool`, `UpdateRoles`, or, when the row is gone,
`InsertPool`, `InsertMember`. `Insertable` stands for the foreign keys and the primary key of the junction table. `DeleteApp`
is one DELETE with its cascades; it leaves sessions alone, so `Mint` (login and refresh, which both read the roles from
the database) goes on with no roles. Of the tokens with a role only the one that runs out last matters: `left`. `RoleGuardPasses` also stands for
`AdminGuard`, which is the same test for the role `admin` after `JwtAuthGuard`.

| Run | Instance | Shows |
|---|---|---|
| `pools` | 2 settings, 2 roles, 2 requests, 1 new key, tokens live 2 ticks, 1.3 million states up to symmetry | `PoolAsAsked`, `RolesAsAsked`: about to answer, a request has changed just what it was asked; everything else is as it found it, unless another request changed that very thing meanwhile. `DeletedForGood`: a deleted pool comes back only through a save that had found it. `GuardsAgreeInTime`: `RoleGuard` lets pass where `PermissionGuard` does not only within the life of a token after the role was held. `TypeOK`. |

Bounds. Two settings (or roles) tell what was asked from what was not; two requests overlap; one new key lets a configuration
save bring the old one back; a life of two ticks lets a token outlive its role by one tick, be replaced, and run out. `since`
follows a role only while some token has it. `MaxKeys` bounds keys, nothing bounds the number of requests.
No liveness is stated: the handlers promise none beyond answering.

### Proofs (`PoolsProofs`)

For any settings, roles, keys, requests and life of a token: `TypeCorrect`, `PoolSavesAsAsked`, `RoleSavesAsAsked`, `GuardsAgree`,
`DeletedStaysDeleted`, each for the property of the run. `PoolOK` and `RolesOK` say, for each request and each place it can be at, what it
still knows of the row: columns and junction rows that its statement will not write, and that no other request has touched, are as in its entity;
its statement makes the rest what was asked; and if the pool or the membership is gone, everything was touched.
`TokensOK` bounds the life a role still has in a token by the time since it was held. Assumed: `PoolsAssumption`.

## 9. What is checked, proved, and neither

| Module | Proved for every instance | Only model-checked |
|---|---|---|
| `Sessions` | all safety properties, and that it implements `SessionContract` | |
| `Otp` | `TypeOK`, `SendsBounded`, `GuessLimit`, and that it implements `Quota` | `ServableAgain` |
| `LoginGuard` | `TypeOK`, `FailuresBounded`, `LockoutOnlyByRace`, and that it implements `Quota` | `LoginAgain` |
| `Accounts` | all properties | |
| `UserStatus` | `TypeOK`, `StatusAsAsked`, `ClosedStaysClosed` | `AccessEnds` |
| `Pools` | all properties | |

What the last column holds is liveness, which needs fairness and ENABLED and is out of the prover's reach. No module declares a recursive operator. The violation runs are
counterexamples and need no proof; for three of the five properties they refute (`LogoutInvalidates`, `RedeemedOnce`,
`LastIdentityKept`) a theorem says under which condition on overlapping requests the same model keeps them. The other two,
`RefusedOnlyAtLimit` and `LockoutInForce`, fail with one request: no condition of that kind saves them.

Not modelled: signing and parsing of JWTs, Argon2, HMAC and TOTP (functions over bytes; of token generation the models need only that
tokens differ), audit rows (append-only, read by nobody but listings; where their failure changes an answer a
comment says so), DTO validation and wiring, OAuth login (answers "not implemented"), columns of sessions
that no handler compares (address, user agent, last activity), table growth, `createApp` and `createPoolRole` (one INSERT
each; no handler changes or deletes a role), `deleted_at` (written, never read), password hashes (a login
is judged by the hash it found; of two overlapping changes the last save stays). `resetPassword`,
`EmailPasswordProvider.register` and `cleanup` have no caller. docs/01_ARCHITECTURE.md:792
names a changed password as a use case of logging out everywhere; `changePassword` does not do so, and `Accounts` has no session in it.

## 10. Plan

* Creation of pools and roles in `Pools` (`createApp`, `createPoolRole`), with role names as the keys of a removal.
* Proofs still worth having: how long a session of a suspended user can stay usable as a bound in steps (a safety form of `AccessEnds`), and
  the same for a refusal (`ServableAgain`, `LoginAgain`): a counter's time to live as an invariant.
* `generateTotp`'s byte arithmetic as a pure module, should something call it.
