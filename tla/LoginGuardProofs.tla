-------------------------- MODULE LoginGuardProofs --------------------------
(* Proofs about LoginGuard, for any spellings, limits, lifetimes and         *)
(* requests.  The inductive invariant IInv relates the rows, their locks and *)
(* the counts that requests hold, and the failure counter to its window.     *)
EXTENDS LoginGuard, RateLimitProofs, FiniteSetTheorems, TLAPS

(* Without rows there is neither a lock nor a row that hides one; if there   *)
(* are rows, one of them has no locked_until, or a lock was written late.    *)
RowsOK ==
  /\ rows = 0 => lock = 0 /\ ~unlocked
  /\ rows > 0 => unlocked \/ staleLock

(* A count from after the last clearing is at most the rows there are now.   *)
CountsOK == \A r \in Reqs \ outdated : At(r, "insert") => req[r].count <= rows

(* The provider's counter has counted the failures of the window, and        *)
(* outlives them; the failures of one tick are numbered from 0.              *)
WindowOK ==
  /\ IsFiniteSet(recent)
  /\ Cardinality(recent) <= failures.n
  /\ \A x \in recent : x[1] + failures.left >= Window
  /\ \A x \in Latest : x[2] < Cardinality(Latest)

IInv == TypeOK /\ RowsOK /\ CountsOK /\ WindowOK

----------------------------------------------------------------------------
(* Lemmas about the operators *)

LEMMA GoEffect ==
  ASSUME TypeOK, NEW r \in Reqs, NEW pc \in Steps, Go(r, pc)
  PROVE  /\ req' \in [Reqs -> [pc : Steps, count : 0..MaxFailed]]
         /\ req'[r].pc = pc
         /\ \A q \in Reqs \ {r} : req'[q] = req[q]
<1>1. [pc |-> pc, count |-> 0] \in [pc : Steps, count : 0..MaxFailed]
  BY LoginGuardAssumption
<1> QED
  BY <1>1 DEF Go, TypeOK

(* A request that goes anywhere but to its INSERT holds no count. *)
LEMMA CountsKept ==
  ASSUME TypeOK, CountsOK, NEW r \in Reqs, NEW pc \in Steps \ {"insert"}, Go(r, pc),
         outdated \ {r} \subseteq outdated', rows' \in Nat, rows <= rows'
  PROVE  CountsOK'
<1>1. req'[r].pc = pc /\ \A q \in Reqs \ {r} : req'[q] = req[q]
  BY GoEffect
<1> SUFFICES ASSUME NEW q \in Reqs \ outdated', req'[q].pc = "insert"
             PROVE  req'[q].count <= rows'
  BY DEF CountsOK, At
<1>2. q # r /\ q \notin outdated /\ req'[q] = req[q]
  BY <1>1
<1>3. req[q].count <= rows
  BY <1>2 DEF CountsOK, At
<1> QED
  BY <1>2, <1>3 DEF TypeOK

----------------------------------------------------------------------------
(* The steps *)

LEMMA TableKept ==
  ASSUME RowsOK, UNCHANGED table
  PROVE  RowsOK'
BY DEF RowsOK, table

LEMMA WindowKept ==
  ASSUME WindowOK, UNCHANGED <<failures, recent>>
  PROVE  WindowOK'
BY DEF WindowOK, Latest

(* A failure is one more in the window and one more on the counter, whose    *)
(* lifetime starts anew.                                                     *)
LEMMA WindowCounts ==
  ASSUME TypeOK, WindowOK, failures' = Counted(failures),
         recent' = recent \cup {<<0, Cardinality(Latest)>>}
  PROVE  /\ WindowOK' /\ recent' \subseteq (0..(Window - 1)) \X Nat
         /\ Cardinality(recent') = Cardinality(recent) + 1
<1> DEFINE n == Cardinality(Latest)
           new == <<0, n>>
<1>1. IsFiniteSet(Latest) /\ n \in Nat
  BY FS_Subset, FS_CardinalityType DEF WindowOK, Latest
<1>2. /\ new \in (0..(Window - 1)) \X Nat /\ new[1] = 0 /\ new[2] = n
      /\ Window \in Nat
  BY <1>1, WindowAssumption
<1>3. new \notin Latest
  BY <1>1, <1>2 DEF WindowOK
<1>4. new \notin recent
  BY <1>2, <1>3 DEF Latest
<1> HIDE DEF new
<1>5. IsFiniteSet(recent') /\ Cardinality(recent') = Cardinality(recent) + 1
  BY <1>4, FS_AddElement DEF WindowOK, new
<1>6. Latest' = Latest \cup {new}
  BY <1>2 DEF Latest, new
<1>7. Cardinality(Latest') = n + 1
  BY <1>1, <1>3, <1>6, FS_AddElement
<1>8. failures'.n = failures.n + 1 /\ failures'.left = Window /\ failures.n \in Nat
  BY DEF Counted, TypeOK, Entry
<1>9. Cardinality(recent) \in Nat
  BY FS_CardinalityType DEF WindowOK
<1>10. recent' \subseteq (0..(Window - 1)) \X Nat
  BY <1>2 DEF TypeOK, new
<1>11. Cardinality(recent') <= failures'.n
  BY <1>5, <1>8, <1>9 DEF WindowOK
<1>12. \A x \in recent' : x[1] + failures'.left >= Window
  BY <1>2, <1>8, <1>10
<1>13. \A x \in Latest' : x[2] < Cardinality(Latest')
  <2>1. ASSUME NEW x \in Latest PROVE x[2] < n + 1
    <3>1. x \in (0..(Window - 1)) \X Nat
      BY DEF Latest, TypeOK
    <3>2. x[2] < n
      BY DEF WindowOK
    <3> QED
      BY <1>1, <3>1, <3>2
  <2> QED
    BY <1>1, <1>2, <1>6, <1>7, <2>1
<1> QED
  BY <1>5, <1>10, <1>11, <1>12, <1>13 DEF WindowOK

(* Each failure gets older by a tick or leaves the window. *)
LEMMA WindowAges ==
  ASSUME TypeOK, WindowOK, failures' = Aged(failures),
         recent' = {<<x[1] + 1, x[2]>> : x \in {y \in recent : y[1] + 1 < Window}}
  PROVE  /\ WindowOK' /\ recent' \subseteq (0..(Window - 1)) \X Nat
         /\ Cardinality(recent') \in 0..Cardinality(recent)
<1> DEFINE kept == {y \in recent : y[1] + 1 < Window}
           older == [x \in kept |-> <<x[1] + 1, x[2]>>]
<1>1. /\ IsFiniteSet(kept) /\ Cardinality(kept) <= Cardinality(recent)
      /\ Cardinality(kept) \in Nat /\ Cardinality(recent) \in Nat
  BY FS_Subset, FS_CardinalityType DEF WindowOK
<1>2. older \in Surjection(kept, recent')
  BY DEF Surjection
<1>3. IsFiniteSet(recent') /\ Cardinality(recent') <= Cardinality(kept)
  <2> HIDE DEF kept, older
  <2> QED
    BY <1>1, <1>2, FS_Surjection
<1>4. Cardinality(recent') \in Nat
  BY <1>3, FS_CardinalityType
<1>5. Cardinality(recent') \in 0..Cardinality(recent)
  BY <1>1, <1>3, <1>4
<1>6. ASSUME NEW z \in recent'
      PROVE  \E x \in recent : /\ x[1] \in Nat /\ x[1] + 1 < Window /\ x[2] \in Nat
                               /\ z = <<x[1] + 1, x[2]>> /\ x[1] + failures.left >= Window
  BY WindowAssumption DEF TypeOK, WindowOK
<1>7. recent' \subseteq (0..(Window - 1)) \X Nat
  BY <1>6, WindowAssumption
<1>8. Latest' = {}
  BY <1>6 DEF Latest
<1>9. failures.left \in Nat /\ failures.n \in Nat /\ Window \in Nat
  BY WindowAssumption DEF TypeOK, Entry
<1>10. CASE failures.left <= 1
  <2>1. recent' = {}
    BY <1>6, <1>9, <1>10
  <2>2. failures'.n = 0
    BY <1>10 DEF Aged, Absent
  <2>3. Cardinality(recent') <= failures'.n
    BY <2>1, <2>2, FS_EmptySet
  <2>4. WindowOK'
    BY <1>3, <1>8, <2>1, <2>3 DEF WindowOK
  <2> QED
    BY <1>5, <1>7, <2>4
<1>11. CASE ~(failures.left <= 1)
  <2>1. failures'.n = failures.n /\ failures'.left = failures.left - 1
    BY <1>9, <1>11 DEF Aged, TypeOK, Entry
  <2>2. \A z \in recent' : z[1] + failures'.left >= Window
    <3> SUFFICES ASSUME NEW z \in recent' PROVE z[1] + failures'.left >= Window
      OBVIOUS
    <3>1. PICK x \in recent : /\ x[1] \in Nat /\ z = <<x[1] + 1, x[2]>>
                              /\ x[1] + failures.left >= Window
      BY <1>6
    <3>2. z[1] = x[1] + 1
      BY <3>1
    <3> QED
      BY <1>9, <2>1, <3>1, <3>2
  <2>3. Cardinality(recent') <= failures'.n
    BY <1>1, <1>3, <1>4, <1>9, <2>1 DEF WindowOK
  <2>4. WindowOK'
    BY <1>3, <1>8, <2>2, <2>3 DEF WindowOK
  <2> QED
    BY <1>5, <1>7, <2>4
<1> QED
  BY <1>10, <1>11

(* A step of one request that leaves the table alone and takes no count. *)
LEMMA GoStep ==
  ASSUME IInv, NEW r \in Reqs, NEW pc \in Steps \ {"insert"}, Go(r, pc),
         UNCHANGED <<table, suspended>>, outdated' \in {outdated, outdated \ {r}},
         limiter' \in [Forms -> Entry], failures' \in Entry, failures'.kind # "string",
         recent' \subseteq (0..(Window - 1)) \X Nat, WindowOK'
  PROVE  IInv'
<1>1. TypeOK'
  <2>1. req' \in [Reqs -> [pc : Steps, count : 0..MaxFailed]]
    BY GoEffect DEF IInv
  <2> QED
    BY <2>1 DEF IInv, TypeOK, table
<1>2. CountsOK'
  <2>1. rows' \in Nat /\ rows <= rows' /\ outdated \ {r} \subseteq outdated'
    BY LoginGuardAssumption DEF IInv, TypeOK, table
  <2> QED
    BY <2>1, CountsKept DEF IInv
<1> QED
  BY <1>1, <1>2, TableKept DEF IInv

LEMMA LimiterCounts ==
  ASSUME TypeOK, NEW f \in Forms, limiter' = [limiter EXCEPT ![f] = Counted(@)]
  PROVE  limiter' \in [Forms -> Entry]
BY EntryFacts DEF TypeOK

LEMMA AttemptSteps ==
  ASSUME IInv, NEW f \in Forms,
         AttemptBlocked(f) \/ Refused(f) \/ \E r \in Reqs : Attempt(r, f)
  PROVE  IInv'
<1>1. CASE Refused(f)
  BY <1>1, WindowKept DEF Refused, vars, table, IInv, TypeOK, RowsOK, CountsOK, At
<1>2. CASE AttemptBlocked(f)
  <2>1. TypeOK'
    BY <1>2, LimiterCounts DEF AttemptBlocked, IInv, TypeOK, table
  <2>2. CountsOK'
    BY <1>2 DEF AttemptBlocked, IInv, CountsOK, At, table
  <2>3. WindowOK'
    BY <1>2, WindowKept DEF AttemptBlocked, IInv
  <2> QED
    BY <1>2, <2>1, <2>2, <2>3, TableKept DEF AttemptBlocked, IInv
<1>3. ASSUME NEW r \in Reqs, Attempt(r, f) PROVE IInv'
  <2>1. limiter' \in [Forms -> Entry]
    BY <1>3, LimiterCounts DEF Attempt, IInv
  <2>2. "find" \in Steps \ {"insert"} /\ Go(r, "find") /\ UNCHANGED <<failures, table, suspended, recent, outdated>>
    BY <1>3 DEF Attempt, Steps
  <2>3. failures \in Entry /\ failures.kind # "string" /\ recent \subseteq (0..(Window - 1)) \X Nat
    BY DEF IInv, TypeOK
  <2>4. WindowOK'
    BY <2>2, WindowKept DEF IInv
  <2> QED
    BY <2>1, <2>2, <2>3, <2>4, GoStep
<1> QED
  BY <1>1, <1>2, <1>3

LEMMA PlainSteps ==
  ASSUME IInv, NEW r \in Reqs,
         Find(r) \/ LockedOut(r) \/ Judge(r) \/ RecordForeign(r) \/ Fail(r)
  PROVE  IInv'
<1>1. PICK pc \in Steps \ {"insert"} : Go(r, pc)
  BY DEF Find, LockedOut, Judge, RecordForeign, Fail, Steps
<1>2. /\ UNCHANGED <<limiter, failures, table, suspended, recent>>
      /\ outdated' \in {outdated, outdated \ {r}}
  BY DEF Find, LockedOut, Judge, RecordForeign, Fail
<1>3. /\ limiter \in [Forms -> Entry] /\ failures \in Entry /\ failures.kind # "string"
      /\ recent \subseteq (0..(Window - 1)) \X Nat
  BY DEF IInv, TypeOK
<1>4. WindowOK'
  BY <1>2, WindowKept DEF IInv
<1> QED
  BY <1>1, <1>2, <1>3, <1>4, GoStep

LEMMA BumpStep ==
  ASSUME IInv, NEW r \in Reqs, Bump(r)
  PROVE  IInv'
<1>1. /\ "idle" \in Steps \ {"insert"} /\ Go(r, "idle")
      /\ UNCHANGED <<limiter, table, suspended, outdated>>
  BY DEF Bump, Steps
<1>2. failures' \in Entry /\ failures'.kind # "string"
  BY EntryFacts DEF Bump, IInv, TypeOK
<1>3. WindowOK' /\ recent' \subseteq (0..(Window - 1)) \X Nat
  BY WindowCounts DEF Bump, IInv
<1>4. limiter \in [Forms -> Entry]
  BY DEF IInv, TypeOK
<1> QED
  BY <1>1, <1>2, <1>3, <1>4, GoStep

(* The count that an INSERT will go by is the number of rows there are. *)
LEMMA CountStep ==
  ASSUME IInv, NEW r \in Reqs, Count(r)
  PROVE  IInv'
<1> DEFINE new == [pc |-> "insert", count |-> rows]
<1>1. /\ req' = [req EXCEPT ![r] = new]
      /\ UNCHANGED <<limiter, failures, table, suspended, recent, outdated>>
  BY DEF Count
<1>2. new \in [pc : Steps, count : 0..MaxFailed]
  BY DEF Steps, IInv, TypeOK
<1>3. new.count = rows
  OBVIOUS
<1> HIDE DEF new
<1>4. /\ req' \in [Reqs -> [pc : Steps, count : 0..MaxFailed]] /\ req'[r] = new
      /\ \A q \in Reqs \ {r} : req'[q] = req[q]
  BY <1>1, <1>2 DEF IInv, TypeOK
<1>5. TypeOK'
  BY <1>1, <1>4 DEF IInv, TypeOK, table
<1>6. CountsOK'
  BY <1>1, <1>3, <1>4, LoginGuardAssumption DEF IInv, TypeOK, CountsOK, At, table
<1>7. WindowOK'
  BY <1>1, WindowKept DEF IInv
<1> QED
  BY <1>1, <1>5, <1>6, <1>7, TableKept DEF IInv

(* A lock written on a count that is not outdated is written beside a row,   *)
(* and so beside one without a lock, unless an outdated one came before.     *)
LEMMA InsertStep ==
  ASSUME IInv, NEW r \in Reqs, Insert(r)
  PROVE  IInv'
<1> DEFINE locking == req[r].count >= MaxFailed
<1>1. /\ req[r].pc = "insert"
      /\ rows' = IF rows < MaxFailed THEN rows + 1 ELSE rows
      /\ unlocked' = (unlocked \/ ~locking)
      /\ lock' = IF locking THEN LockLife ELSE lock
      /\ staleLock' = (staleLock \/ (locking /\ r \in outdated))
      /\ Go(r, "bump") /\ outdated' = outdated \ {r}
      /\ UNCHANGED <<limiter, failures, suspended, recent>>
  BY DEF Insert, At, NewLock
<1>2. MaxFailed \in Nat \ {0} /\ LockLife \in Nat \ {0} /\ rows \in 0..MaxFailed
  BY LoginGuardAssumption DEF IInv, TypeOK
<1>3. rows' \in 0..MaxFailed /\ rows' > 0 /\ rows <= rows'
  BY <1>1, <1>2
<1>4. r \notin outdated /\ locking => rows > 0
  BY <1>1, <1>2 DEF IInv, TypeOK, CountsOK, At
<1> HIDE DEF locking
<1>5. "bump" \in Steps \ {"insert"}
  BY DEF Steps
<1>6. TypeOK'
  <2>1. req' \in [Reqs -> [pc : Steps, count : 0..MaxFailed]]
    BY <1>1, <1>5, GoEffect DEF IInv
  <2>2. lock' \in 0..LockLife
    BY <1>1, <1>2 DEF IInv, TypeOK
  <2>3. unlocked' \in BOOLEAN /\ staleLock' \in BOOLEAN
    BY <1>1
  <2> QED
    BY <1>1, <1>3, <2>1, <2>2, <2>3 DEF IInv, TypeOK
<1>7. RowsOK'
  <2>1. unlocked' \/ staleLock'
    BY <1>1, <1>4 DEF IInv, RowsOK
  <2> QED
    BY <1>3, <2>1 DEF RowsOK
<1>8. CountsOK'
  BY <1>1, <1>3, <1>5, CountsKept DEF IInv
<1>9. WindowOK'
  BY <1>1, WindowKept DEF IInv
<1> QED
  BY <1>6, <1>7, <1>8, <1>9 DEF IInv

(* Every count on its way is outdated from now on. *)
LEMMA ClearStep ==
  ASSUME IInv, NEW r \in Reqs, Clear(r)
  PROVE  IInv'
<1>1. /\ req[r].pc = "clear" /\ Go(r, "idle")
      /\ rows' = 0 /\ unlocked' = FALSE /\ lock' = 0 /\ staleLock' = FALSE
      /\ outdated' = {q \in Reqs : req[q].pc = "insert"}
      /\ UNCHANGED <<limiter, failures, suspended, recent>>
  BY DEF Clear, At
<1>2. /\ req' \in [Reqs -> [pc : Steps, count : 0..MaxFailed]] /\ req'[r].pc = "idle"
      /\ \A q \in Reqs \ {r} : req'[q] = req[q]
  <2>1. "idle" \in Steps
    BY DEF Steps
  <2> QED
    BY <1>1, <2>1, GoEffect DEF IInv
<1>3. TypeOK'
  <2>1. rows' \in 0..MaxFailed /\ lock' \in 0..LockLife
    BY <1>1, LoginGuardAssumption
  <2>2. {unlocked, suspended, staleLock}' \subseteq BOOLEAN
    BY <1>1 DEF IInv, TypeOK
  <2>3. outdated' \subseteq Reqs
    BY <1>1
  <2> QED
    BY <1>1, <1>2, <2>1, <2>2, <2>3 DEF IInv, TypeOK
<1>4. RowsOK'
  BY <1>1 DEF RowsOK
<1>5. CountsOK'
  BY <1>1, <1>2 DEF CountsOK, At
<1>6. WindowOK'
  BY <1>1, WindowKept DEF IInv
<1> QED
  BY <1>3, <1>4, <1>5, <1>6 DEF IInv

LEMMA RestartStep ==
  ASSUME IInv, Restart
  PROVE  IInv'
<1>1. /\ limiter' = [f \in Forms |-> Absent] /\ failures' = Absent
      /\ req' = [r \in Reqs |-> Idle] /\ recent' = {}
      /\ outdated' = {} /\ UNCHANGED <<table, suspended>>
  BY DEF Restart
<1>2. Idle \in [pc : Steps, count : 0..MaxFailed] /\ Idle.pc = "idle"
  BY LoginGuardAssumption DEF Idle, Steps
<1>3. TypeOK'
  <2>1. limiter' \in [Forms -> Entry] /\ failures' \in Entry /\ failures'.kind # "string"
    BY <1>1, EntryFacts
  <2>2. req' \in [Reqs -> [pc : Steps, count : 0..MaxFailed]] /\ recent' \subseteq (0..(Window - 1)) \X Nat
    BY <1>1, <1>2
  <2> QED
    BY <1>1, <2>1, <2>2 DEF IInv, TypeOK, table
<1>4. CountsOK'
  BY <1>1, <1>2 DEF CountsOK, At
<1>5. WindowOK'
  BY <1>1, FS_EmptySet DEF WindowOK, Latest, Absent
<1> QED
  BY <1>1, <1>3, <1>4, <1>5, TableKept DEF IInv

LEMMA TickStep ==
  ASSUME IInv, Tick
  PROVE  IInv'
<1>1. /\ limiter' = [f \in Forms |-> Aged(limiter[f])] /\ failures' = Aged(failures)
      /\ lock' = IF lock > 0 THEN lock - 1 ELSE 0
      /\ recent' = {<<x[1] + 1, x[2]>> : x \in {y \in recent : y[1] + 1 < Window}}
      /\ UNCHANGED <<rows, unlocked, suspended, req, outdated, staleLock>>
  BY DEF Tick
<1>2. TypeOK'
  <2>1. limiter' \in [Forms -> Entry] /\ failures' \in Entry /\ failures'.kind # "string"
    BY <1>1, EntryFacts DEF IInv, TypeOK
  <2>2. lock' \in 0..LockLife
    BY <1>1, LoginGuardAssumption DEF IInv, TypeOK
  <2>3. recent' \subseteq (0..(Window - 1)) \X Nat
    BY <1>1, WindowAges DEF IInv
  <2> QED
    BY <1>1, <2>1, <2>2, <2>3 DEF IInv, TypeOK
<1>3. RowsOK'
  BY <1>1 DEF IInv, RowsOK
<1>4. CountsOK'
  BY <1>1 DEF IInv, CountsOK, At
<1>5. WindowOK'
  BY <1>1, WindowAges DEF IInv
<1> QED
  BY <1>2, <1>3, <1>4, <1>5 DEF IInv

(* disableUser, and a step that changes nothing. *)
LEMMA OtherSteps ==
  ASSUME IInv, ToggleStatus \/ UNCHANGED vars
  PROVE  IInv'
<1>1. UNCHANGED <<limiter, failures, rows, unlocked, lock, staleLock, req, recent, outdated>>
  BY DEF ToggleStatus, vars, table
<1>2. suspended' \in BOOLEAN
  BY DEF ToggleStatus, vars, IInv, TypeOK
<1>3. WindowOK'
  BY <1>1, WindowKept DEF IInv
<1> QED
  BY <1>1, <1>2, <1>3 DEF IInv, TypeOK, RowsOK, CountsOK, At

----------------------------------------------------------------------------
(* The invariant *)

LEMMA InitIInv == Init => IInv
<1> SUFFICES ASSUME Init PROVE IInv
  OBVIOUS
<1>1. Idle \in [pc : Steps, count : 0..MaxFailed] /\ Idle.pc = "idle"
  BY LoginGuardAssumption DEF Idle, Steps
<1>2. TypeOK
  <2>1. limiter \in [Forms -> Entry] /\ failures \in Entry /\ failures.kind # "string"
    BY EntryFacts DEF Init
  <2>2. req \in [Reqs -> [pc : Steps, count : 0..MaxFailed]] /\ recent \subseteq (0..(Window - 1)) \X Nat
    BY <1>1 DEF Init
  <2>3. rows \in 0..MaxFailed /\ lock \in 0..LockLife
    BY LoginGuardAssumption DEF Init
  <2> QED
    BY <2>1, <2>2, <2>3 DEF Init, TypeOK
<1>3. RowsOK
  BY DEF Init, RowsOK
<1>4. CountsOK
  BY <1>1 DEF Init, CountsOK, At
<1>5. WindowOK
  BY FS_EmptySet DEF Init, WindowOK, Latest, Absent
<1> QED
  BY <1>2, <1>3, <1>4, <1>5 DEF IInv

LEMMA NextIInv == IInv /\ [Next]_vars => IInv'
<1> SUFFICES ASSUME IInv, [Next]_vars PROVE IInv'
  OBVIOUS
<1> QED
  BY AttemptSteps, PlainSteps, BumpStep, CountStep, InsertStep, ClearStep, RestartStep,
     TickStep, OtherSteps DEF Next

(* IInv holds in every reachable state, restarts and failures included. *)
THEOREM Invariance == Spec => []IInv
BY InitIInv, NextIInv, PTL DEF Spec

(* Counters, rows and locks of checkRateLimit and checkAccountLockout stay   *)
(* in their ranges.                                                          *)
THEOREM TypeCorrect == Spec => []TypeOK
<1>1. IInv => TypeOK
  BY DEF IInv
<1> QED
  BY <1>1, Invariance, PTL

(* checkAccountLockout never refuses a login because of MaxFailed failures   *)
(* in a row: only a lock that recordFailedAttempt has written on a count     *)
(* from before a clearing is ever in force.                                  *)
THEOREM LockoutNeedsRace == Spec => []LockoutOnlyByRace
<1>1. IInv => LockoutOnlyByRace
  BY LoginGuardAssumption DEF IInv, TypeOK, RowsOK, LockoutOnlyByRace, Locked
<1> QED
  BY <1>1, Invariance, PTL

----------------------------------------------------------------------------
(* The refinement of Quota *)

LEMMA UsedIsNat ==
  ASSUME WindowOK
  PROVE  Cardinality(recent) \in Nat
BY FS_CardinalityType DEF WindowOK

(* A step that makes no failure and lets nobody in, or nothing at all. *)
LEMMA Released ==
  ASSUME Cardinality(recent') \in 0..Cardinality(recent), Undecided' \subseteq Undecided
  PROVE  Limit!QuotaNext
<1>1. Limit!Release(Cardinality(recent'), Undecided')
  BY DEF Limit!Release
<1> QED
  BY <1>1 DEF Limit!QuotaNext

LEMMA ReleasedUnused ==
  ASSUME IInv, UNCHANGED recent, Undecided' \subseteq Undecided
  PROVE  Limit!QuotaNext
<1>1. Cardinality(recent') \in 0..Cardinality(recent)
  BY UsedIsNat DEF IInv
<1> QED
  BY <1>1, Released

(* Only Attempt makes a request one that may still fail. *)
LEMMA GoUndecided ==
  ASSUME TypeOK, NEW r \in Reqs, NEW pc \in Steps, Go(r, pc)
  PROVE  Undecided' = IF pc \in {"idle", "clear"} THEN Undecided \ {r} ELSE Undecided \cup {r}
<1>1. req'[r].pc = pc /\ \A q \in Reqs \ {r} : req'[q] = req[q]
  BY GoEffect
<1> QED
  BY <1>1 DEF Undecided

LEMMA LimitStep ==
  ASSUME IInv, [Next]_vars
  PROVE  [Limit!QuotaNext]_(Limit!qvars)
<1> SUFFICES Limit!QuotaNext
  OBVIOUS
<1>1. ASSUME NEW r \in Reqs, NEW f \in Forms, Attempt(r, f) PROVE Limit!QuotaNext
  <2>1. req[r].pc = "idle" /\ ~(failures.n >= BlockMax) /\ Go(r, "find") /\ recent' = recent
    BY <1>1 DEF Attempt, At, Blocked
  <2>2. Undecided' = Undecided \cup {r} /\ r \notin Undecided
    BY <2>1, GoUndecided DEF IInv, Steps, Undecided
  <2>3. Cardinality(recent) < BlockMax
    <3>1. failures.n \in Nat /\ BlockMax \in Nat /\ Cardinality(recent) \in Nat
      BY UsedIsNat, LoginGuardAssumption DEF IInv, TypeOK, Entry
    <3> QED
      BY <2>1, <3>1 DEF IInv, WindowOK
  <2>4. Limit!Admit(r)
    BY <2>1, <2>2, <2>3 DEF Limit!Admit
  <2> QED
    BY <2>4 DEF Limit!QuotaNext
<1>2. ASSUME NEW r \in Reqs, Bump(r) PROVE Limit!QuotaNext
  <2>1. req[r].pc = "bump" /\ Go(r, "idle")
    BY <1>2 DEF Bump, At
  <2>2. Undecided' = Undecided \ {r} /\ r \in Undecided
    BY <2>1, GoUndecided DEF IInv, Steps, Undecided
  <2>3. Cardinality(recent') = Cardinality(recent) + 1
    BY <1>2, WindowCounts DEF Bump, IInv
  <2>4. Limit!Complete(r)
    BY <2>2, <2>3 DEF Limit!Complete
  <2> QED
    BY <2>4 DEF Limit!QuotaNext
<1>3. ASSUME NEW r \in Reqs,
             Find(r) \/ LockedOut(r) \/ Judge(r) \/ RecordForeign(r) \/ Insert(r) \/ Clear(r) \/ Fail(r)
      PROVE  Limit!QuotaNext
  <2>1. /\ recent' = recent /\ req[r].pc \notin {"idle"}
        /\ \E pc \in Steps : Go(r, pc) /\ (req[r].pc = "clear" => pc = "idle")
    BY <1>3 DEF Find, LockedOut, Judge, RecordForeign, Insert, Clear, Fail, At, Steps
  <2>2. Undecided' \subseteq Undecided
    BY <2>1, GoUndecided DEF IInv, Undecided
  <2> QED
    BY <2>1, <2>2, ReleasedUnused
<1>4. ASSUME NEW r \in Reqs, Count(r) PROVE Limit!QuotaNext
  <2>1. recent' = recent /\ Undecided' = Undecided
    BY <1>4 DEF Count, At, Undecided, IInv, TypeOK
  <2> QED
    BY <2>1, ReleasedUnused
<1>5. CASE (\E f \in Forms : Refused(f) \/ AttemptBlocked(f)) \/ ToggleStatus \/ UNCHANGED vars
  <2>1. recent' = recent /\ Undecided' = Undecided
    BY <1>5 DEF Refused, AttemptBlocked, ToggleStatus, vars, Undecided
  <2> QED
    BY <2>1, ReleasedUnused
<1>6. CASE Restart
  <2>1. recent' = {} /\ Undecided' = {}
    BY <1>6 DEF Restart, Undecided, Idle
  <2>2. Cardinality(recent') \in 0..Cardinality(recent)
    BY <2>1, UsedIsNat, FS_EmptySet DEF IInv
  <2> QED
    BY <2>1, <2>2, Released
<1>7. CASE Tick
  <2>1. Cardinality(recent') \in 0..Cardinality(recent)
    BY <1>7, WindowAges DEF Tick, IInv
  <2>2. Undecided' = Undecided
    BY <1>7 DEF Tick, Undecided
  <2> QED
    BY <2>1, <2>2, Released
<1> QED
  BY <1>1, <1>2, <1>3, <1>4, <1>5, <1>6, <1>7 DEF Next

(* checkRateLimit and recordFailedAttempt, with whatever comes between, are  *)
(* a limit as Quota describes it, over windows that slide.                   *)
THEOREM LimitKept == Spec => KeepsLimit
<1>1. Init => Limit!QuotaInit
  <2> SUFFICES ASSUME Init PROVE Limit!QuotaInit
    OBVIOUS
  <2>1. Cardinality(recent) = 0 /\ Undecided = {}
    BY FS_EmptySet DEF Init, Undecided, Idle
  <2> QED
    BY <2>1 DEF Limit!QuotaInit
<1>2. IInv /\ [Next]_vars => [Limit!QuotaNext]_(Limit!qvars)
  BY LimitStep
<1> QED
  BY <1>1, <1>2, Invariance, PTL DEF Spec, KeepsLimit, Limit!QuotaSpec

(* So a step keeps the bound: it is that of any limit kept this way.         *)
LEMMA BoundStep ==
  ASSUME IInv, FailuresBounded, [Next]_vars
  PROVE  FailuresBounded'
<1> DEFINE used == Cardinality(recent)
<1>1. /\ IsFiniteSet(Reqs) /\ BlockMax \in Nat
      /\ used \in Nat /\ Undecided \in SUBSET Reqs
      /\ used + Cardinality(Undecided) < BlockMax + Cardinality(Reqs)
  BY UsedIsNat, LoginGuardAssumption DEF IInv, Undecided, FailuresBounded
<1>2. \/ /\ used < BlockMax /\ used' = used
         /\ \E r \in Reqs : Undecided' = Undecided \cup {r}
      \/ /\ used' = used + 1
         /\ \E r \in Undecided : Undecided' = Undecided \ {r}
      \/ used' \in 0..used /\ Undecided' \subseteq Undecided
  <2>1. CASE Limit!QuotaNext
    BY <2>1 DEF Limit!QuotaNext, Limit!Admit, Limit!Complete, Limit!Release
  <2>2. CASE UNCHANGED Limit!qvars
    BY <1>1, <2>2 DEF Limit!qvars
  <2> QED
    BY <2>1, <2>2, LimitStep
<1> HIDE DEF used
<1>3. used' + Cardinality(Undecided') < BlockMax + Cardinality(Reqs)
  BY <1>1, <1>2, OverrunKept
<1> QED
  BY <1>3 DEF FailuresBounded, used

(* However many logins of the account overlap, one window answers at most    *)
(* BlockMax failures, and one for every further request under way.           *)
THEOREM FailuresLimited == Spec => []FailuresBounded
<1>1. Init => FailuresBounded
  <2> SUFFICES ASSUME Init PROVE FailuresBounded
    OBVIOUS
  <2>1. Cardinality(recent) = 0 /\ Cardinality(Undecided) = 0
    BY FS_EmptySet DEF Init, Undecided, Idle
  <2>2. Cardinality(Reqs) \in Nat /\ BlockMax \in Nat \ {0}
    BY LoginGuardAssumption, FS_CardinalityType
  <2> QED
    BY <2>1, <2>2 DEF FailuresBounded
<1>2. IInv /\ FailuresBounded /\ [Next]_vars => FailuresBounded'
  BY BoundStep
<1> QED
  BY <1>1, <1>2, Invariance, PTL DEF Spec
=============================================================================
