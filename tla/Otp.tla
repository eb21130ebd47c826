-------------------------------- MODULE Otp --------------------------------
(* Sign-in by SMS code for one phone number: AuthController.requestOtp and   *)
(* verifySmsOtp over SmsOtpProvider.requestOtp and authenticate, with the    *)
(* rows of otp_codes, the cache counters of both rate limits and the cached  *)
(* code, whose key is the key of one of the counters.                        *)
(*                                                                           *)
(* A client may spell the number in several ways.  The controller counts     *)
(* requests per spelling, the provider per normalized number.                *)
EXTENDS RateLimit, FiniteSets

CONSTANTS
  Forms, Norm,   \* spellings of the number; the normalized one
  LimiterMax,    \* otpRateLimitConfig.maxRequests
  SendMax,       \* MAX_OTP_REQUESTS_PER_WINDOW
  AttemptMax,    \* MAX_OTP_ATTEMPTS
  OtpLife,       \* OTP_EXPIRY_SECONDS, in ticks
  Reqs,          \* slots for requests under way at one time
  MaxCodes       \* bound: codes made in a behaviour

ASSUME OtpAssumption ==
  /\ Norm \in Forms
  /\ {LimiterMax, SendMax, AttemptMax, OtpLife} \subseteq Nat \ {0}
  /\ IsFiniteSet(Reqs)
  /\ MaxCodes \in Nat

VARIABLES
  limiter,  \* limiter[f]: the cache entry of key otp:<f>
  sends,    \* the cache entry of key otp:requests:<Norm>
  made,     \* codes made so far; code c is the c-th by created_at
  latest,   \* the newest code inserted, 0 if none
  code,     \* code[c]: ticks until expires_at, and attempt_count
  req,      \* req[r]: where the request in slot r is, and what it has read
  age,      \* history: age[c], ticks since c was sent, Window if longer ago or never
  guesses,  \* history: guesses[c], wrong guesses compared with c,
            \* counted up to AttemptMax + 1
  shaken    \* history: codes whose count was read while, or lost before, it was written

vars == <<limiter, sends, made, latest, code, req, age, guesses, shaken>>

Codes == 1..MaxCodes
Steps == {"idle", "insert", "send", "wrong", "right"}
Idle == [pc |-> "idle", code |-> 0, tries |-> 0]

Alive == {c \in Codes : code[c].left > 0}

Recent == {c \in Codes : age[c] < Window}

Verifying(r, c) == req[r].pc \in {"wrong", "right"} /\ req[r].code = c

At(r, pc) == req[r].pc = pc

----------------------------------------------------------------------------
(* Requesting a code *)

(* Mutant: a refused check starts the window anew as well. *)
RefusedRefreshing(f) ==
  /\ Denies(limiter[f], LimiterMax)
  /\ limiter' = [limiter EXCEPT ![f].left = Window]
  /\ UNCHANGED <<sends, made, latest, code, req, age, guesses, shaken>>

(* The controller answers 429; checkLimit leaves the entry alone. *)
RefusedByLimiter(f) ==
  /\ Denies(limiter[f], LimiterMax)
  /\ UNCHANGED vars

(* checkOtpRequestRateLimit throws after the controller has counted. *)
RefusedByProvider(f) ==
  /\ ~Denies(limiter[f], LimiterMax)
  /\ sends.n >= SendMax
  /\ limiter' = [limiter EXCEPT ![f] = Counted(@)]
  /\ UNCHANGED <<sends, made, latest, code, req, age, guesses, shaken>>

(* Mutant: the provider does not look at its own counter. *)
RequestUncounted(r, f) ==
  /\ At(r, "idle")
  /\ made < MaxCodes
  /\ ~Denies(limiter[f], LimiterMax)
  /\ limiter' = [limiter EXCEPT ![f] = Counted(@)]
  /\ made' = made + 1
  /\ code' = [code EXCEPT ![made + 1] = [left |-> OtpLife, attempts |-> 0]]
  /\ req' = [req EXCEPT ![r] = [pc |-> "insert", code |-> made + 1, tries |-> 0]]
  /\ UNCHANGED <<sends, latest, age, guesses, shaken>>

(* Both checks pass and the row is made; the INSERT is awaited. *)
Request(r, f) ==
  /\ At(r, "idle")
  /\ made < MaxCodes
  /\ ~Denies(limiter[f], LimiterMax)
  /\ sends.n < SendMax
  /\ limiter' = [limiter EXCEPT ![f] = Counted(@)]
  /\ made' = made + 1
  /\ code' = [code EXCEPT ![made + 1] = [left |-> OtpLife, attempts |-> 0]]
  /\ req' = [req EXCEPT ![r] = [pc |-> "insert", code |-> made + 1, tries |-> 0]]
  /\ UNCHANGED <<sends, latest, age, guesses, shaken>>

Insert(r) ==
  /\ At(r, "insert")
  /\ latest' = IF req[r].code > latest THEN req[r].code ELSE latest
  /\ req' = [req EXCEPT ![r].pc = "send"]
  /\ UNCHANGED <<limiter, sends, made, code, age, guesses, shaken>>

(* The code is cached under otp:<Norm>, sent, and counted: no I/O between. *)
Send(r) ==
  /\ At(r, "send")
  /\ limiter' = [limiter EXCEPT ![Norm] = [kind |-> "string", n |-> 0, left |-> OtpLife]]
  /\ sends' = Counted(sends)
  /\ age' = [age EXCEPT ![req[r].code] = 0]
  /\ req' = [req EXCEPT ![r] = Idle]
  /\ UNCHANGED <<made, latest, code, guesses, shaken>>

----------------------------------------------------------------------------
(* Verifying a code *)

(* Mutant: attempt_count is not compared with the maximum. *)
JudgeableForever(c) == c # 0 /\ code[c].left > 0

(* The newest row is found, not expired, and has attempts left. *)
Judgeable(c) == c # 0 /\ code[c].left > 0 /\ code[c].attempts < AttemptMax

Judge(r, pc) ==
  /\ At(r, "idle")
  /\ latest # 0
  /\ Judgeable(latest)
  /\ req' = [req EXCEPT ![r] = [pc |-> pc, code |-> latest, tries |-> code[latest].attempts]]
  /\ shaken' = IF \E q \in Reqs : Verifying(q, latest) THEN shaken \cup {latest} ELSE shaken
  /\ UNCHANGED <<limiter, sends, made, latest, code, age>>

GuessWrong(r) ==
  /\ Judge(r, "wrong")
  /\ guesses' = [guesses EXCEPT ![latest] = IF @ > AttemptMax THEN @ ELSE @ + 1]

(* The code matches and the phone has an identity. *)
GuessRight(r) ==
  /\ Judge(r, "right")
  /\ UNCHANGED guesses

(* The code matches and the phone has no identity: the new user has no       *)
(* email, users.email is NOT NULL, its INSERT fails, and the request ends    *)
(* with the code neither used nor counted.                                   *)
SignUp(r) ==
  /\ At(r, "idle")
  /\ latest # 0
  /\ Judgeable(latest)
  /\ UNCHANGED vars

(* save() of the row as it was read, with attempt_count set to n.  An        *)
(* expired row is never read again: its count is left as it is.              *)
SaveAttempts(r, n) ==
  LET c == req[r].code
  IN /\ code' = IF code[c].left > 0 THEN [code EXCEPT ![c].attempts = n] ELSE code
     /\ req' = [req EXCEPT ![r] = Idle]
     /\ UNCHANGED <<limiter, sends, made, latest, age, guesses, shaken>>

CountFailure(r) == At(r, "wrong") /\ SaveAttempts(r, req[r].tries + 1)

(* is_verified is set and never looked at: the code stays good. *)
MarkUsed(r) == At(r, "right") /\ SaveAttempts(r, req[r].tries)

----------------------------------------------------------------------------
(* An awaited statement fails: the handler ends where it is. *)
Fail(r) ==
  /\ req[r].pc \in {"insert", "wrong", "right"}
  /\ req' = [req EXCEPT ![r] = Idle]
  /\ shaken' = shaken \cup (IF At(r, "wrong") THEN {req[r].code} \cap Alive ELSE {})
  /\ UNCHANGED <<limiter, sends, made, latest, code, age, guesses>>

(* The process stops and starts: the cache is gone, the rows are not.  Codes *)
(* sent before the restart are no longer counted, by code or history.        *)
Restart ==
  /\ limiter' = [f \in Forms |-> Absent]
  /\ sends' = Absent
  /\ req' = [r \in Reqs |-> Idle]
  /\ age' = [c \in Codes |-> Window]
  /\ shaken' = shaken \cup ({req[r].code : r \in {x \in Reqs : At(x, "wrong")}} \cap Alive)
  /\ UNCHANGED <<made, latest, code, guesses>>

(* Time passes.  An expired code is never judged again: its count and its    *)
(* histories are no longer told apart.                                       *)
Tick ==
  /\ limiter' = [f \in Forms |-> Aged(limiter[f])]
  /\ sends' = Aged(sends)
  /\ code' = [c \in Codes |-> IF code[c].left > 1 THEN [code[c] EXCEPT !.left = @ - 1]
                                                  ELSE [left |-> 0, attempts |-> 0]]
  /\ age' = [c \in Codes |-> IF age[c] < Window THEN age[c] + 1 ELSE Window]
  /\ guesses' = [c \in Codes |-> IF code[c].left > 1 THEN guesses[c] ELSE 0]
  /\ shaken' = {c \in shaken : code[c].left > 1}
  /\ UNCHANGED <<made, latest, req>>

----------------------------------------------------------------------------
Init ==
  /\ limiter = [f \in Forms |-> Absent]
  /\ sends = Absent
  /\ made = 0
  /\ latest = 0
  /\ code = [c \in Codes |-> [left |-> 0, attempts |-> 0]]
  /\ req = [r \in Reqs |-> Idle]
  /\ age = [c \in Codes |-> Window]
  /\ guesses = [c \in Codes |-> 0]
  /\ shaken = {}

Work(r) == Insert(r) \/ Send(r) \/ CountFailure(r) \/ MarkUsed(r)

Next ==
  \/ \E f \in Forms : RefusedByLimiter(f) \/ RefusedByProvider(f)
  \/ \E r \in Reqs, f \in Forms : Request(r, f)
  \/ \E r \in Reqs : Insert(r) \/ Send(r)
  \/ \E r \in Reqs : GuessWrong(r) \/ GuessRight(r) \/ SignUp(r) \/ CountFailure(r) \/ MarkUsed(r)
  \/ \E r \in Reqs : Fail(r)
  \/ Restart
  \/ Tick

Spec == Init /\ [][Next]_vars

(* Time passes, and the database answers. *)
FairSpec == Spec /\ WF_vars(Tick) /\ \A r \in Reqs : WF_vars(Work(r))

----------------------------------------------------------------------------
(* Properties *)

TypeOK ==
  /\ limiter \in [Forms -> Entry]
  /\ sends \in Entry /\ sends.kind # "string"
  /\ made \in 0..MaxCodes
  /\ latest \in 0..made
  /\ code \in [Codes -> [left : 0..OtpLife, attempts : 0..AttemptMax]]
  /\ req \in [Reqs -> [pc : Steps, code : 0..made, tries : 0..AttemptMax]]
  /\ age \in [Codes -> 0..Window]
  /\ guesses \in [Codes -> 0..(AttemptMax + 1)]
  /\ shaken \subseteq Codes

(* In one window at most SendMax codes are sent to the phone, plus one for   *)
(* every further request that was under way: checkOtpRequestRateLimit and    *)
(* recordOtpRequest are on the two sides of the INSERT.                      *)
Flying == {r \in Reqs : At(r, "insert") \/ At(r, "send")}

SendsBounded == Cardinality(Recent) + Cardinality(Flying) < SendMax + Cardinality(Reqs)

(* The provider's counter and its window do what Quota says of such a limit: *)
(* a request is let in only while fewer than SendMax codes of the last       *)
(* window have been sent, and sends at most one.                             *)
Limit == INSTANCE Quota WITH Max <- SendMax, used <- Cardinality(Recent), pending <- Flying

KeepsLimit == Limit!QuotaSpec

(* authenticate compares at most AttemptMax wrong guesses with a code, as    *)
(* long as no two verifications of it overlap and none dies before it saves: *)
(* the count is read, incremented in memory and written back.                *)
GuessLimit == \A c \in Codes : guesses[c] <= AttemptMax \/ c \in shaken

(* A refused request does not prolong the refusal: once no more requests get *)
(* past the controller's limiter, the phone can be sent a code again, since  *)
(* both counters and the cached code run out.                                *)
Servable == ~Denies(limiter[Norm], LimiterMax) /\ sends.n < SendMax

CountedRequest == \E f \in Forms : RefusedByProvider(f) \/ \E r \in Reqs : Request(r, f)

ServableAgain == []<>Servable \/ []<><<CountedRequest>>_vars

(* 04_API_REFERENCE.md: "SMS OTP request: 3 per 15 minutes per phone".  A    *)
(* request is refused only when the window already has that many.            *)
RefusedOnlyAtLimit ==
  \A f \in Forms : Denies(limiter[f], LimiterMax) => Cardinality(Recent) >= SendMax
=============================================================================
