----------------------------- MODULE OtpProofs -----------------------------
(* Proofs about Otp, for any spellings, limits, lifetimes and requests.  The *)
(* inductive invariant IInv relates the sender's counter to the codes of the *)
(* window, and attempt_count to the guesses a code has stood.                *)
EXTENDS Otp, RateLimitProofs, FiniteSetTheorems, TLAPS

Slot == [pc : Steps, code : 0..made, tries : 0..AttemptMax]

(* A failed attempt is counted below the maximum; codes not made yet are no  *)
(* codes.                                                                    *)
RequestsOK ==
  /\ \A r \in Reqs : At(r, "wrong") => req[r].tries < AttemptMax
  /\ \A r \in Reqs : ~At(r, "idle") => req[r].code # 0
  /\ \A c \in Codes : c > made => code[c].left = 0

(* The provider's counter has counted what the window has sent, and outlives *)
(* it.                                                                       *)
SendsOK ==
  /\ Cardinality(Recent) <= sends.n
  /\ \A c \in Recent : age[c] + sends.left >= Window

(* The guesses that a code alive has stood are counted, or on their way.     *)
GuessWaits(c) == \E r \in Reqs : At(r, "wrong") /\ req[r].code = c

CountOK(c) ==
  /\ code[c].left = 0 => guesses[c] = 0
  /\ code[c].left > 0 =>
       /\ \A r, q \in Reqs : Verifying(r, c) /\ Verifying(q, c) => r = q
       /\ \A r \in Reqs : Verifying(r, c) => req[r].tries = code[c].attempts
       /\ GuessWaits(c) => guesses[c] = code[c].attempts + 1
       /\ ~GuessWaits(c) => guesses[c] = code[c].attempts

GuessesOK == \A c \in Codes \ shaken : CountOK(c)

IInv == TypeOK /\ RequestsOK /\ SendsOK /\ GuessesOK

----------------------------------------------------------------------------
(* Lemmas about sets, counts and requests *)

LEMMA Sizes ==
  /\ \A S \in SUBSET Codes : IsFiniteSet(S) /\ Cardinality(S) \in Nat
  /\ \A S \in SUBSET Reqs : /\ IsFiniteSet(S) /\ Cardinality(S) \in Nat
                           /\ Cardinality(S) <= Cardinality(Reqs)
  /\ Cardinality(Reqs) \in Nat
<1>1. IsFiniteSet(Codes) /\ IsFiniteSet(Reqs)
  BY OtpAssumption, FS_Interval DEF Codes
<1>2. ASSUME NEW T, IsFiniteSet(T), NEW S \in SUBSET T
      PROVE  /\ IsFiniteSet(S) /\ Cardinality(S) \in Nat
             /\ Cardinality(S) <= Cardinality(T)
  BY <1>2, FS_Subset, FS_CardinalityType
<1> QED
  BY <1>1, <1>2, FS_CardinalityType

LEMMA IdleTyped ==
  ASSUME TypeOK
  PROVE  Idle \in Slot /\ Idle.pc = "idle" /\ Idle.code = 0
BY OtpAssumption DEF Idle, Slot, Steps, TypeOK

LEMMA SendsKept ==
  ASSUME SendsOK, UNCHANGED <<age, sends>>
  PROVE  SendsOK' /\ Recent' = Recent
BY DEF SendsOK, Recent

(* Requests that verify nothing leave the counts of guesses alone. *)
LEMMA GuessesKept ==
  ASSUME GuessesOK, UNCHANGED <<code, guesses, shaken>>,
         \A r \in Reqs :
           \/ req'[r] = req[r]
           \/ /\ req[r].pc \notin {"wrong", "right"}
              /\ req'[r].pc \notin {"wrong", "right"}
  PROVE  GuessesOK'
<1> SUFFICES ASSUME NEW c \in Codes \ shaken PROVE CountOK(c)'
  BY DEF GuessesOK
<1>1. CountOK(c)
  BY DEF GuessesOK
<1>2. /\ \A r \in Reqs : Verifying(r, c)' <=> Verifying(r, c)
      /\ \A r \in Reqs : Verifying(r, c) => req'[r] = req[r]
  BY DEF Verifying
<1>3. GuessWaits(c)' <=> GuessWaits(c)
  BY DEF GuessWaits, At
<1> QED
  BY <1>1, <1>2, <1>3 DEF CountOK

(* A request that ends leaves the slots of the others alone.                 *)
LEMMA Ended ==
  ASSUME TypeOK, NEW r \in Reqs, req' = [req EXCEPT ![r] = Idle], made' = made
  PROVE  /\ req' \in [Reqs -> Slot'] /\ req'[r].pc = "idle"
         /\ \A q \in Reqs \ {r} : req'[q] = req[q]
         /\ Flying' \subseteq Flying
<1>1. /\ req' \in [Reqs -> Slot] /\ req'[r] = Idle /\ Idle.pc = "idle"
      /\ \A q \in Reqs \ {r} : req'[q] = req[q]
  BY IdleTyped DEF TypeOK, Slot
<1> QED
  BY <1>1 DEF Slot, Flying, At

LEMMA LimiterCounts ==
  ASSUME TypeOK, NEW f \in Forms, limiter' = [limiter EXCEPT ![f] = Counted(@)]
  PROVE  limiter' \in [Forms -> Entry]
BY EntryFacts DEF TypeOK

----------------------------------------------------------------------------
(* Requesting a code *)

LEMMA StillStep ==
  ASSUME IInv, UNCHANGED <<sends, made, latest, code, req, age, guesses, shaken>>,
         limiter' \in [Forms -> Entry]
  PROVE  IInv'
<1>1. TypeOK'
  BY DEF IInv, TypeOK
<1>2. RequestsOK'
  BY DEF IInv, RequestsOK, At
<1>3. SendsOK' /\ Recent' = Recent
  BY SendsKept DEF IInv
<1>4. GuessesOK'
  <2>1. UNCHANGED <<code, guesses, shaken>> /\ \A r \in Reqs : req'[r] = req[r]
    OBVIOUS
  <2> QED
    BY <2>1, GuessesKept DEF IInv
<1> QED
  BY <1>1, <1>2, <1>3, <1>4 DEF IInv

LEMMA RequestStep ==
  ASSUME IInv, NEW r \in Reqs, NEW f \in Forms, Request(r, f)
  PROVE  IInv'
<1> DEFINE c == made + 1
           row == [left |-> OtpLife, attempts |-> 0]
           slot == [pc |-> "insert", code |-> c, tries |-> 0]
<1>1. /\ req[r].pc = "idle" /\ made < MaxCodes /\ sends.n < SendMax
      /\ limiter' = [limiter EXCEPT ![f] = Counted(@)] /\ made' = c
      /\ code' = [code EXCEPT ![c] = row] /\ req' = [req EXCEPT ![r] = slot]
      /\ UNCHANGED <<sends, latest, age, guesses, shaken>>
  BY DEF Request, At
<1>2. /\ made \in Nat /\ c \in Codes /\ OtpLife \in Nat \ {0} /\ AttemptMax \in Nat \ {0}
      /\ SendMax \in Nat /\ made < c /\ c \in 0..MaxCodes
  BY <1>1, OtpAssumption DEF Codes, IInv, TypeOK
<1>3. row \in [left : 0..OtpLife, attempts : 0..AttemptMax] /\ row.left > 0 /\ row.attempts = 0
  BY <1>2
<1>4. slot \in [pc : Steps, code : 0..c, tries : 0..AttemptMax] /\ slot.pc = "insert" /\ slot.code = c
  BY <1>2 DEF Steps
<1> HIDE DEF row, slot
<1>5. /\ code' \in [Codes -> [left : 0..OtpLife, attempts : 0..AttemptMax]] /\ code'[c] = row
      /\ \A d \in Codes \ {c} : code'[d] = code[d]
  BY <1>1, <1>2, <1>3 DEF IInv, TypeOK
<1>6. /\ req' \in [Reqs -> [pc : Steps, code : 0..c, tries : 0..AttemptMax]] /\ req'[r] = slot
      /\ \A q \in Reqs \ {r} : req'[q] = req[q]
  <2>1. \A q \in Reqs : req[q] \in [pc : Steps, code : 0..c, tries : 0..AttemptMax]
    BY <1>2 DEF IInv, TypeOK
  <2> QED
    BY <1>1, <1>4, <2>1 DEF IInv, TypeOK
<1>7. TypeOK'
  <2>1. limiter' \in [Forms -> Entry]
    BY <1>1, LimiterCounts DEF IInv
  <2>2. made' \in 0..MaxCodes /\ latest' \in 0..made'
    BY <1>1, <1>2 DEF IInv, TypeOK
  <2> QED
    BY <1>1, <1>5, <1>6, <2>1, <2>2 DEF IInv, TypeOK
<1>8. RequestsOK'
  <2>1. \A q \in Reqs :
          /\ req'[q].pc = "wrong" => req'[q].tries < AttemptMax
          /\ req'[q].pc # "idle" => req'[q].code # 0
    BY <1>2, <1>4, <1>6 DEF IInv, RequestsOK, At
  <2>2. \A d \in Codes : d > made' => code'[d].left = 0
    BY <1>1, <1>2, <1>5 DEF IInv, RequestsOK, Codes
  <2> QED
    BY <2>1, <2>2 DEF RequestsOK, At
<1>9. SendsOK' /\ Recent' = Recent
  BY <1>1, SendsKept DEF IInv
<1>10. GuessesOK'
  <2> SUFFICES ASSUME NEW d \in Codes \ shaken PROVE CountOK(d)'
    BY <1>1 DEF GuessesOK
  <2>1. CountOK(d)
    BY DEF IInv, GuessesOK
  <2>2. /\ \A q \in Reqs : Verifying(q, d)' <=> Verifying(q, d)
        /\ \A q \in Reqs : Verifying(q, d) => req'[q] = req[q]
    BY <1>1, <1>4, <1>6 DEF Verifying
  <2>3. GuessWaits(d)' <=> GuessWaits(d)
    BY <1>1, <1>4, <1>6 DEF GuessWaits, At
  <2>4. CASE d # c
    BY <1>1, <1>5, <2>1, <2>2, <2>3, <2>4 DEF CountOK
  <2>5. CASE d = c
    <3>1. guesses[c] = 0
      BY <1>2, <2>1, <2>5 DEF CountOK, IInv, RequestsOK
    <3>2. \A q \in Reqs : ~Verifying(q, c)
      BY <1>2 DEF Verifying, GuessWaits, At, IInv, TypeOK
    <3>3. ~GuessWaits(c)
      BY <1>2 DEF GuessWaits, At, IInv, TypeOK
    <3> QED
      BY <1>1, <1>2, <1>3, <1>5, <2>2, <2>3, <2>5, <3>1, <3>2, <3>3 DEF CountOK
  <2> QED
    BY <2>4, <2>5
<1> QED
  BY <1>7, <1>8, <1>9, <1>10 DEF IInv

LEMMA InsertStep ==
  ASSUME IInv, NEW r \in Reqs, Insert(r)
  PROVE  IInv'
<1> DEFINE slot == [req[r] EXCEPT !.pc = "send"]
<1>1. /\ req[r].pc = "insert" /\ req[r] \in Slot
      /\ latest' = IF req[r].code > latest THEN req[r].code ELSE latest
      /\ req' = [req EXCEPT ![r] = slot]
      /\ UNCHANGED <<limiter, sends, made, code, age, guesses, shaken>>
  BY DEF Insert, At, IInv, TypeOK, Slot
<1>2. slot \in Slot /\ slot.pc = "send" /\ slot.code = req[r].code
  BY <1>1 DEF Slot, Steps
<1> HIDE DEF slot
<1>3. req' \in [Reqs -> Slot] /\ req'[r] = slot /\ \A q \in Reqs \ {r} : req'[q] = req[q]
  BY <1>1, <1>2 DEF IInv, TypeOK, Slot
<1>4. TypeOK'
  <2>1. latest' \in 0..made
    BY <1>1 DEF IInv, TypeOK, Slot
  <2> QED
    BY <1>1, <1>3, <2>1 DEF IInv, TypeOK, Slot
<1>5. RequestsOK'
  BY <1>1, <1>2, <1>3 DEF IInv, RequestsOK, At
<1>6. SendsOK' /\ Recent' = Recent
  BY <1>1, SendsKept DEF IInv
<1>7. GuessesOK'
  <2>1. UNCHANGED <<code, guesses, shaken>>
    BY <1>1
  <2>2. ASSUME NEW q \in Reqs
        PROVE  \/ req'[q] = req[q]
               \/ /\ req[q].pc \notin {"wrong", "right"}
                  /\ req'[q].pc \notin {"wrong", "right"}
    BY <1>1, <1>2, <1>3
  <2> QED
    BY <2>1, <2>2, GuessesKept DEF IInv
<1> QED
  BY <1>4, <1>5, <1>6, <1>7 DEF IInv

(* A code sent is one more in the window, one more on the counter and one    *)
(* request less on its way.                                                  *)
LEMMA SendStep ==
  ASSUME IInv, NEW r \in Reqs, Send(r)
  PROVE  IInv'
<1> DEFINE c == req[r].code
           entry == [kind |-> "string", n |-> 0, left |-> OtpLife]
<1>1. /\ req[r].pc = "send" /\ c \in Codes
      /\ limiter' = [limiter EXCEPT ![Norm] = entry] /\ sends' = Counted(sends)
      /\ age' = [age EXCEPT ![c] = 0] /\ req' = [req EXCEPT ![r] = Idle]
      /\ UNCHANGED <<made, latest, code, guesses, shaken>>
  <2>1. req[r].code \in 0..made /\ made \in 0..MaxCodes
    BY DEF IInv, TypeOK
  <2>2. req[r].pc = "send"
    BY DEF Send, At
  <2>3. req[r].code # 0
    BY <2>2 DEF IInv, RequestsOK, At
  <2> QED
    BY <2>1, <2>2, <2>3, OtpAssumption DEF Send, Codes
<1>2. entry \in Entry
  BY OtpAssumption DEF Entry
<1> HIDE DEF entry
<1>3. /\ req' \in [Reqs -> Slot] /\ req'[r] = Idle /\ \A q \in Reqs \ {r} : req'[q] = req[q]
      /\ Idle.pc = "idle"
  BY <1>1, IdleTyped DEF IInv, TypeOK, Slot
<1>4. /\ age' \in [Codes -> 0..Window] /\ age'[c] = 0
      /\ \A d \in Codes \ {c} : age'[d] = age[d]
  BY <1>1, WindowAssumption DEF IInv, TypeOK
<1>5. sends' \in Entry /\ sends'.kind # "string" /\ sends'.n = sends.n + 1 /\ sends'.left = Window
      /\ sends.n \in Nat
  BY <1>1, EntryFacts DEF IInv, TypeOK, Counted, Entry
<1>6. TypeOK'
  <2>1. limiter' \in [Forms -> Entry]
    BY <1>1, <1>2 DEF IInv, TypeOK
  <2> QED
    BY <1>1, <1>3, <1>4, <1>5, <2>1 DEF IInv, TypeOK, Slot
<1>7. RequestsOK'
  BY <1>1, <1>3 DEF IInv, RequestsOK, At
<1>8. Recent' = Recent \cup {c}
  BY <1>1, <1>4, WindowAssumption DEF Recent
<1>9. /\ Cardinality(Recent') <= Cardinality(Recent) + 1
      /\ Cardinality(Recent') \in Nat /\ Cardinality(Recent) \in Nat
  <2>1. IsFiniteSet(Recent) /\ Cardinality(Recent) \in Nat
    BY Sizes DEF Recent
  <2>2. Cardinality(Recent \cup {c}) = IF c \in Recent THEN Cardinality(Recent)
                                      ELSE Cardinality(Recent) + 1
    <3> HIDE DEF c
    <3> QED
      BY <2>1, FS_AddElement
  <2> QED
    BY <1>8, <2>1, <2>2
<1>10. SendsOK'
  <2>1. Cardinality(Recent') <= sends'.n
    BY <1>5, <1>9 DEF IInv, SendsOK
  <2>2. \A d \in Recent' : age'[d] + sends'.left >= Window
    BY <1>4, <1>5, WindowAssumption DEF Recent
  <2> QED
    BY <2>1, <2>2 DEF SendsOK
<1>11. GuessesOK'
  <2>1. UNCHANGED <<code, guesses, shaken>>
    BY <1>1
  <2>2. ASSUME NEW q \in Reqs
        PROVE  \/ req'[q] = req[q]
               \/ /\ req[q].pc \notin {"wrong", "right"}
                  /\ req'[q].pc \notin {"wrong", "right"}
    BY <1>1, <1>3
  <2> QED
    BY <2>1, <2>2, GuessesKept DEF IInv
<1> QED
  BY <1>6, <1>7, <1>10, <1>11 DEF IInv

----------------------------------------------------------------------------
(* Verifying a code *)

(* A verification that overlaps none starts from the count. *)
LEMMA JudgeStep ==
  ASSUME IInv, NEW r \in Reqs, GuessWrong(r) \/ GuessRight(r)
  PROVE  IInv'
<1> DEFINE c == latest
<1>1. PICK pc \in {"wrong", "right"} :
        /\ Judge(r, pc)
        /\ pc = "wrong" => guesses' = [guesses EXCEPT ![latest] = IF @ > AttemptMax THEN @ ELSE @ + 1]
        /\ pc = "right" => guesses' = guesses
  BY DEF GuessWrong, GuessRight
<1> DEFINE slot == [pc |-> pc, code |-> c, tries |-> code[c].attempts]
<1>2. /\ req[r].pc = "idle" /\ c # 0 /\ code[c].left > 0 /\ code[c].attempts < AttemptMax
      /\ req' = [req EXCEPT ![r] = slot]
      /\ shaken' = IF \E q \in Reqs : Verifying(q, c) THEN shaken \cup {c} ELSE shaken
      /\ UNCHANGED <<limiter, sends, made, latest, code, age>>
  BY <1>1 DEF Judge, Judgeable, At
<1>3. c \in Codes /\ code[c].attempts \in 0..AttemptMax /\ AttemptMax \in Nat
  BY <1>2, OtpAssumption DEF IInv, TypeOK, Codes
<1>4. slot \in Slot /\ slot.pc = pc /\ slot.code = c /\ slot.tries = code[c].attempts
  BY <1>3 DEF Slot, Steps, IInv, TypeOK
<1> HIDE DEF slot
<1>5. req' \in [Reqs -> Slot] /\ req'[r] = slot /\ \A q \in Reqs \ {r} : req'[q] = req[q]
  BY <1>2, <1>4 DEF IInv, TypeOK, Slot
<1>6. /\ guesses' \in [Codes -> 0..(AttemptMax + 1)]
      /\ \A d \in Codes \ {c} : guesses'[d] = guesses[d]
      /\ pc = "wrong" /\ guesses[c] <= AttemptMax => guesses'[c] = guesses[c] + 1
  <2>1. guesses \in [Codes -> 0..(AttemptMax + 1)]
    BY DEF IInv, TypeOK
  <2>2. CASE pc = "wrong"
    BY <1>1, <1>3, <2>1, <2>2
  <2>3. CASE pc = "right"
    BY <1>1, <2>1, <2>3
  <2> QED
    BY <2>2, <2>3
<1>7. TypeOK'
  BY <1>2, <1>3, <1>5, <1>6 DEF IInv, TypeOK, Slot
<1>8. RequestsOK'
  BY <1>2, <1>4, <1>5 DEF IInv, RequestsOK, At
<1>9. SendsOK' /\ Recent' = Recent
  BY <1>2, SendsKept DEF IInv
<1>10. GuessesOK'
  <2> SUFFICES ASSUME NEW d \in Codes \ shaken' PROVE CountOK(d)'
    BY DEF GuessesOK
  <2>1. d \notin shaken /\ CountOK(d)
    BY <1>2 DEF IInv, GuessesOK
  <2>2. CASE d # c
    <3>1. /\ \A q \in Reqs : Verifying(q, d)' <=> Verifying(q, d)
          /\ \A q \in Reqs : Verifying(q, d) => req'[q] = req[q]
      BY <1>2, <1>4, <1>5, <2>2 DEF Verifying
    <3>2. GuessWaits(d)' <=> GuessWaits(d)
      BY <1>2, <1>4, <1>5, <2>2 DEF GuessWaits, At
    <3> QED
      BY <1>2, <1>6, <2>1, <2>2, <3>1, <3>2 DEF CountOK
  <2>3. CASE d = c
    <3>1. \A q \in Reqs : ~Verifying(q, c)
      BY <1>2, <2>3
    <3>2. guesses[c] = code[c].attempts
      <4>1. ~GuessWaits(c)
        BY <3>1 DEF GuessWaits, Verifying, At
      <4> QED
        BY <1>2, <2>1, <2>3, <4>1 DEF CountOK
    <3>3. \A q \in Reqs : Verifying(q, c)' => q = r
      BY <1>2, <1>5, <3>1 DEF Verifying
    <3>4. GuessWaits(c)' <=> pc = "wrong"
      <4>1. req'[r].pc = pc /\ req'[r].code = latest'
        BY <1>2, <1>4, <1>5
      <4>2. \A q \in Reqs : req'[q].pc = "wrong" /\ req'[q].code = latest' => q = r
        BY <3>3 DEF Verifying
      <4> QED
        BY <1>2, <4>1, <4>2 DEF GuessWaits, At
    <3>5. guesses'[c] = IF pc = "wrong" THEN code[c].attempts + 1 ELSE code[c].attempts
      BY <1>1, <1>2, <1>3, <1>6, <3>2
    <3> QED
      BY <1>2, <1>4, <1>5, <2>3, <3>3, <3>4, <3>5 DEF CountOK
  <2> QED
    BY <2>2, <2>3
<1> QED
  BY <1>7, <1>8, <1>9, <1>10 DEF IInv

LEMMA SaveStep ==
  ASSUME IInv, NEW r \in Reqs, CountFailure(r) \/ MarkUsed(r)
  PROVE  IInv'
<1> DEFINE c == req[r].code
           n == IF At(r, "wrong") THEN req[r].tries + 1 ELSE req[r].tries
<1>1. /\ req[r].pc \in {"wrong", "right"}
      /\ code' = IF code[c].left > 0 THEN [code EXCEPT ![c].attempts = n] ELSE code
      /\ req' = [req EXCEPT ![r] = Idle]
      /\ UNCHANGED <<limiter, sends, made, latest, age, guesses, shaken>>
  BY DEF CountFailure, MarkUsed, SaveAttempts, At
<1>2. c \in Codes /\ made \in 0..MaxCodes /\ c <= made
  <2>1. req[r].code \in 0..made /\ made \in 0..MaxCodes
    BY DEF IInv, TypeOK
  <2>2. req[r].code # 0
    BY <1>1 DEF IInv, RequestsOK, At
  <2> QED
    BY <2>1, <2>2, OtpAssumption DEF Codes
<1>3. n \in 0..AttemptMax
  <2>1. req[r].tries \in 0..AttemptMax /\ AttemptMax \in Nat
    BY OtpAssumption DEF IInv, TypeOK
  <2> QED
    BY <2>1 DEF IInv, RequestsOK
<1>4. /\ req' \in [Reqs -> Slot'] /\ req'[r].pc = "idle"
      /\ \A q \in Reqs \ {r} : req'[q] = req[q]
  BY <1>1, Ended DEF IInv
<1>5. /\ code' \in [Codes -> [left : 0..OtpLife, attempts : 0..AttemptMax]]
      /\ \A d \in Codes : code'[d].left = code[d].left
      /\ \A d \in Codes \ {c} : code'[d] = code[d]
      /\ code[c].left > 0 => code'[c].attempts = n
  BY <1>1, <1>2, <1>3 DEF IInv, TypeOK
<1>6. TypeOK'
  BY <1>1, <1>4, <1>5 DEF IInv, TypeOK, Slot
<1>7. RequestsOK'
  <2>1. \A d \in Codes : d > made' => code'[d].left = 0
    BY <1>1, <1>5 DEF IInv, RequestsOK
  <2>2. \A q \in Reqs :
          /\ req'[q].pc = "wrong" => req'[q].tries < AttemptMax
          /\ req'[q].pc # "idle" => req'[q].code # 0
    BY <1>4 DEF IInv, RequestsOK, At
  <2> QED
    BY <2>1, <2>2 DEF RequestsOK, At
<1>8. SendsOK' /\ Recent' = Recent
  BY <1>1, SendsKept DEF IInv
<1>9. GuessesOK'
  <2> SUFFICES ASSUME NEW d \in Codes \ shaken PROVE CountOK(d)'
    BY <1>1 DEF GuessesOK
  <2>1. CountOK(d)
    BY DEF IInv, GuessesOK
  <2>2. CASE d # c
    <3>1. /\ \A q \in Reqs : Verifying(q, d)' <=> Verifying(q, d)
          /\ \A q \in Reqs : Verifying(q, d) => req'[q] = req[q]
      BY <1>4, <2>2 DEF Verifying
    <3>2. GuessWaits(d)' <=> GuessWaits(d)
      BY <1>4, <2>2 DEF GuessWaits, At
    <3> QED
      BY <1>1, <1>5, <2>1, <2>2, <3>1, <3>2 DEF CountOK
  <2>3. CASE d = c /\ code[c].left = 0
    BY <1>1, <1>2, <1>5, <2>1, <2>3 DEF CountOK
  <2>4. CASE d = c /\ code[c].left > 0
    <3>1. Verifying(r, d)
      BY <1>1, <2>4 DEF Verifying
    <3>2. \A q \in Reqs : Verifying(q, d) => q = r
      BY <2>1, <2>4, <3>1 DEF CountOK
    <3>3. req[r].tries = code[d].attempts
      BY <2>1, <2>4, <3>1 DEF CountOK
    <3>4. GuessWaits(d) <=> At(r, "wrong")
      BY <2>4, <3>2 DEF GuessWaits, Verifying, At
    <3>5. guesses[d] = n
      BY <2>1, <2>4, <3>3, <3>4 DEF CountOK
    <3>6. \A q \in Reqs : ~Verifying(q, d)'
      BY <1>4, <3>2 DEF Verifying
    <3>7. ~GuessWaits(d)'
      BY <3>6 DEF GuessWaits, Verifying, At
    <3>8. code'[d].left > 0 /\ guesses'[d] = code'[d].attempts
      BY <1>1, <1>5, <2>4, <3>5
    <3> QED
      BY <3>6, <3>7, <3>8 DEF CountOK
  <2> QED
    BY <1>2, <2>2, <2>3, <2>4 DEF IInv, TypeOK
<1> QED
  BY <1>6, <1>7, <1>8, <1>9 DEF IInv

----------------------------------------------------------------------------
(* Failures and time *)

(* A guess that is lost before it is counted shakes its code. *)
LEMMA FailStep ==
  ASSUME IInv, NEW r \in Reqs, Fail(r)
  PROVE  IInv'
<1> DEFINE c == req[r].code
<1>1. /\ req[r].pc \in {"insert", "wrong", "right"}
      /\ req' = [req EXCEPT ![r] = Idle]
      /\ shaken' = shaken \cup (IF req[r].pc = "wrong" THEN {c} \cap Alive ELSE {})
      /\ UNCHANGED <<limiter, sends, made, latest, code, age, guesses>>
  BY DEF Fail, At
<1>2. /\ req' \in [Reqs -> Slot'] /\ req'[r].pc = "idle"
      /\ \A q \in Reqs \ {r} : req'[q] = req[q]
  BY <1>1, Ended DEF IInv
<1>3. TypeOK'
  <2>1. shaken' \subseteq Codes
    BY <1>1 DEF IInv, TypeOK, Alive
  <2> QED
    BY <1>1, <1>2, <2>1 DEF IInv, TypeOK, Slot
<1>4. RequestsOK'
  <2>1. \A q \in Reqs :
          /\ req'[q].pc = "wrong" => req'[q].tries < AttemptMax
          /\ req'[q].pc # "idle" => req'[q].code # 0
    BY <1>2 DEF IInv, RequestsOK, At
  <2> QED
    BY <1>1, <2>1 DEF IInv, RequestsOK, At
<1>5. SendsOK' /\ Recent' = Recent
  BY <1>1, SendsKept DEF IInv
<1>6. GuessesOK'
  <2> SUFFICES ASSUME NEW d \in Codes \ shaken' PROVE CountOK(d)'
    BY DEF GuessesOK
  <2>1. d \notin shaken /\ CountOK(d)
    BY <1>1 DEF IInv, GuessesOK
  <2>2. CASE ~Verifying(r, d)
    <3>1. /\ \A q \in Reqs : Verifying(q, d)' <=> Verifying(q, d)
          /\ \A q \in Reqs : Verifying(q, d) => req'[q] = req[q]
      BY <1>2, <2>2 DEF Verifying
    <3>2. GuessWaits(d)' <=> GuessWaits(d)
      BY <1>2, <2>2 DEF GuessWaits, Verifying, At
    <3> QED
      BY <1>1, <2>1, <3>1, <3>2 DEF CountOK
  <2>3. CASE Verifying(r, d) /\ ~(code[d].left > 0)
    BY <1>1, <2>1, <2>3 DEF CountOK
  <2>4. CASE Verifying(r, d) /\ code[d].left > 0
    <3>1. \A q \in Reqs : Verifying(q, d) => q = r
      BY <2>1, <2>4 DEF CountOK
    <3>2. req[r].pc # "wrong"
      BY <1>1, <2>4 DEF Verifying, Alive
    <3>3. ~GuessWaits(d)
      BY <3>1, <3>2 DEF GuessWaits, Verifying, At
    <3>4. \A q \in Reqs : ~Verifying(q, d)'
      BY <1>2, <3>1 DEF Verifying
    <3>5. ~GuessWaits(d)'
      BY <3>4 DEF GuessWaits, Verifying, At
    <3> QED
      BY <1>1, <2>1, <2>4, <3>3, <3>4, <3>5 DEF CountOK
  <2> QED
    BY <2>2, <2>3, <2>4
<1> QED
  BY <1>3, <1>4, <1>5, <1>6 DEF IInv

LEMMA RestartStep ==
  ASSUME IInv, Restart
  PROVE  IInv'
<1>1. /\ limiter' = [f \in Forms |-> Absent] /\ sends' = Absent
      /\ req' = [r \in Reqs |-> Idle] /\ age' = [c \in Codes |-> Window]
      /\ UNCHANGED <<made, latest, code, guesses>>
  BY DEF Restart
<1>2. shaken' = shaken \cup ({req[r].code : r \in {x \in Reqs : At(x, "wrong")}} \cap Alive)
  BY DEF Restart
<1>3. req' \in [Reqs -> Slot'] /\ \A r \in Reqs : req'[r].pc = "idle"
  <2>1. Idle \in Slot' /\ Idle.pc = "idle"
    BY <1>1, IdleTyped DEF IInv, Slot
  <2> QED
    BY <1>1, <2>1
<1>4. Recent' = {}
  BY <1>1, WindowAssumption DEF Recent
<1>5. TypeOK'
  <2>1. shaken' \subseteq Codes
    BY <1>2 DEF IInv, TypeOK, Alive
  <2>2. age' \in [Codes -> 0..Window]
    BY <1>1, WindowAssumption
  <2> QED
    BY <1>1, <1>3, <2>1, <2>2, EntryFacts DEF IInv, TypeOK, Slot
<1>6. RequestsOK'
  BY <1>1, <1>3 DEF IInv, RequestsOK, At
<1>7. SendsOK'
  BY <1>1, <1>4, FS_EmptySet DEF SendsOK, Absent
<1>8. GuessesOK'
  <2> SUFFICES ASSUME NEW d \in Codes \ shaken' PROVE CountOK(d)'
    BY DEF GuessesOK
  <2>1. d \notin shaken /\ CountOK(d)
    BY <1>2 DEF IInv, GuessesOK
  <2>2. code[d].left > 0 => ~GuessWaits(d)
    BY <1>2 DEF GuessWaits, Alive
  <2>3. (\A r \in Reqs : ~Verifying(r, d)') /\ ~GuessWaits(d)'
    BY <1>3 DEF Verifying, GuessWaits, At
  <2> QED
    BY <1>1, <2>1, <2>2, <2>3 DEF CountOK
<1> QED
  BY <1>5, <1>6, <1>7, <1>8 DEF IInv

(* The counter runs out with the last code it has counted, or later. *)
LEMMA TickStep ==
  ASSUME IInv, Tick
  PROVE  IInv'
<1>1. /\ limiter' = [f \in Forms |-> Aged(limiter[f])] /\ sends' = Aged(sends)
      /\ age' = [c \in Codes |-> IF age[c] < Window THEN age[c] + 1 ELSE Window]
      /\ UNCHANGED <<made, latest, req>>
  BY DEF Tick
<1>2. /\ code' = [c \in Codes |-> IF code[c].left > 1 THEN [code[c] EXCEPT !.left = @ - 1]
                                                     ELSE [left |-> 0, attempts |-> 0]]
      /\ guesses' = [c \in Codes |-> IF code[c].left > 1 THEN guesses[c] ELSE 0]
      /\ shaken' = {c \in shaken : code[c].left > 1}
  BY DEF Tick
<1>3. /\ code \in [Codes -> [left : 0..OtpLife, attempts : 0..AttemptMax]]
      /\ OtpLife \in Nat /\ AttemptMax \in Nat
  BY OtpAssumption DEF IInv, TypeOK
<1>4. ASSUME NEW c \in Codes
      PROVE  /\ code'[c] \in [left : 0..OtpLife, attempts : 0..AttemptMax]
             /\ code[c].left > 1 => /\ code'[c].left = code[c].left - 1
                                    /\ code'[c].attempts = code[c].attempts
                                    /\ guesses'[c] = guesses[c]
             /\ ~(code[c].left > 1) => code'[c].left = 0 /\ guesses'[c] = 0
  <2>1. code[c] \in [left : 0..OtpLife, attempts : 0..AttemptMax]
    BY <1>3
  <2>2. CASE code[c].left > 1
    BY <1>2, <1>3, <2>1, <2>2
  <2>3. CASE ~(code[c].left > 1)
    BY <1>2, <1>3, <2>3
  <2> QED
    BY <2>2, <2>3
<1>5. age \in [Codes -> 0..Window] /\ age' \in [Codes -> 0..Window]
  BY <1>1, WindowAssumption DEF IInv, TypeOK
<1>6. TypeOK'
  <2>1. limiter' \in [Forms -> Entry] /\ sends' \in Entry /\ sends'.kind # "string"
    BY <1>1, EntryFacts DEF IInv, TypeOK
  <2>2. code' \in [Codes -> [left : 0..OtpLife, attempts : 0..AttemptMax]]
    BY <1>2, <1>4
  <2>3. guesses' \in [Codes -> 0..(AttemptMax + 1)]
    BY <1>2, <1>3 DEF IInv, TypeOK
  <2>4. shaken' \subseteq Codes
    BY <1>2 DEF IInv, TypeOK
  <2> QED
    BY <1>1, <1>5, <2>1, <2>2, <2>3, <2>4 DEF IInv, TypeOK
<1>7. RequestsOK'
  <2>1. \A c \in Codes : c > made' => code'[c].left = 0
    BY <1>1, <1>4 DEF IInv, RequestsOK
  <2> QED
    BY <1>1, <2>1 DEF IInv, RequestsOK, At
<1>8. Recent' \subseteq Recent
  BY <1>1, <1>5, WindowAssumption DEF Recent
<1>9. SendsOK'
  <2>1. sends \in Entry /\ sends.left \in Nat /\ Window \in Nat
    BY WindowAssumption DEF IInv, TypeOK, Entry
  <2>2. ASSUME NEW c \in Recent'
        PROVE  age'[c] = age[c] + 1 /\ age[c] + sends.left >= Window /\ age'[c] < Window
               /\ age[c] \in Nat
    BY <1>1, <1>5, <1>8, <2>1 DEF Recent, IInv, SendsOK
  <2>3. CASE sends.left <= 1
    <3>1. Recent' = {}
      BY <2>1, <2>2, <2>3
    <3> QED
      BY <1>1, <2>3, <3>1, FS_EmptySet DEF SendsOK, Aged, Absent
  <2>4. CASE ~(sends.left <= 1)
    <3>1. sends'.n = sends.n /\ sends'.left = sends.left - 1
      BY <1>1, <2>1, <2>4 DEF Aged, Entry
    <3>2. Cardinality(Recent') <= Cardinality(Recent)
      BY <1>8, Sizes, FS_Subset DEF Recent
    <3>3. Cardinality(Recent') <= sends'.n
      <4>1. Cardinality(Recent') \in Nat /\ Cardinality(Recent) \in Nat /\ sends.n \in Nat
        BY <1>8, <2>1, Sizes DEF Recent, Entry
      <4> QED
        BY <3>1, <3>2, <4>1 DEF IInv, SendsOK
    <3>4. \A c \in Recent' : age'[c] + sends'.left >= Window
      BY <2>1, <2>2, <3>1
    <3> QED
      BY <3>3, <3>4 DEF SendsOK
  <2> QED
    BY <2>3, <2>4
<1>10. GuessesOK'
  <2> SUFFICES ASSUME NEW d \in Codes \ shaken' PROVE CountOK(d)'
    BY DEF GuessesOK
  <2>1. CASE ~(code[d].left > 1)
    BY <1>4, <2>1 DEF CountOK
  <2>2. CASE code[d].left > 1
    <3>1. CountOK(d)
      BY <1>2, <2>2 DEF IInv, GuessesOK
    <3>2. code[d].left \in Nat
      BY <1>3
    <3>3. /\ \A q \in Reqs : Verifying(q, d)' <=> Verifying(q, d)
          /\ GuessWaits(d)' <=> GuessWaits(d)
      BY <1>1 DEF Verifying, GuessWaits, At
    <3> QED
      BY <1>1, <1>4, <2>2, <3>1, <3>2, <3>3 DEF CountOK
  <2> QED
    BY <2>1, <2>2
<1> QED
  BY <1>6, <1>7, <1>9, <1>10 DEF IInv

----------------------------------------------------------------------------
(* The theorems *)

LEMMA InitIInv == Init => IInv
<1> SUFFICES ASSUME Init PROVE IInv
  OBVIOUS
<1>1. /\ limiter = [f \in Forms |-> Absent] /\ sends = Absent /\ made = 0 /\ latest = 0
      /\ code = [c \in Codes |-> [left |-> 0, attempts |-> 0]] /\ req = [r \in Reqs |-> Idle]
      /\ age = [c \in Codes |-> Window] /\ guesses = [c \in Codes |-> 0] /\ shaken = {}
  BY DEF Init
<1>2. TypeOK
  <2>1. Idle \in [pc : Steps, code : 0..0, tries : 0..AttemptMax]
    BY OtpAssumption DEF Idle, Steps
  <2>2. /\ [left |-> 0, attempts |-> 0] \in [left : 0..OtpLife, attempts : 0..AttemptMax]
        /\ 0 \in 0..(AttemptMax + 1) /\ 0 \in 0..MaxCodes /\ 0 \in 0..0 /\ Window \in 0..Window
    BY OtpAssumption, WindowAssumption
  <2> QED
    BY <1>1, <2>1, <2>2, EntryFacts DEF TypeOK
<1>3. RequestsOK
  BY <1>1 DEF RequestsOK, At, Idle
<1>4. Recent = {}
  BY <1>1, WindowAssumption DEF Recent
<1>5. SendsOK
  BY <1>1, <1>4, FS_EmptySet DEF SendsOK, Absent
<1>6. GuessesOK
  BY <1>1 DEF GuessesOK, CountOK
<1> QED
  BY <1>2, <1>3, <1>5, <1>6 DEF IInv

LEMMA NextIInv == IInv /\ [Next]_vars => IInv'
<1> SUFFICES ASSUME IInv, [Next]_vars PROVE IInv'
  OBVIOUS
<1>1. CASE UNCHANGED vars
  <2>1. UNCHANGED <<sends, made, latest, code, req, age, guesses, shaken>> /\ limiter' \in [Forms -> Entry]
    BY <1>1 DEF vars, IInv, TypeOK
  <2> QED
    BY <2>1, StillStep
<1>2. ASSUME NEW f \in Forms, RefusedByProvider(f) PROVE IInv'
  <2>1. /\ UNCHANGED <<sends, made, latest, code, req, age, guesses, shaken>>
        /\ limiter' = [limiter EXCEPT ![f] = Counted(@)]
    BY <1>2 DEF RefusedByProvider
  <2>2. limiter' \in [Forms -> Entry]
    BY <2>1, LimiterCounts DEF IInv
  <2> QED
    BY <2>1, <2>2, StillStep
<1>3. ASSUME NEW f \in Forms, RefusedByLimiter(f) PROVE IInv'
  BY <1>1, <1>3 DEF RefusedByLimiter
<1>4. ASSUME NEW r \in Reqs, SignUp(r) PROVE IInv'
  BY <1>1, <1>4 DEF SignUp
<1>5. ASSUME NEW r \in Reqs, NEW f \in Forms, Request(r, f) PROVE IInv'
  BY <1>5, RequestStep
<1>6. ASSUME NEW r \in Reqs, Insert(r) PROVE IInv'
  BY <1>6, InsertStep
<1>7. ASSUME NEW r \in Reqs, Send(r) PROVE IInv'
  BY <1>7, SendStep
<1>8. ASSUME NEW r \in Reqs, GuessWrong(r) \/ GuessRight(r) PROVE IInv'
  BY <1>8, JudgeStep
<1>9. ASSUME NEW r \in Reqs, CountFailure(r) \/ MarkUsed(r) PROVE IInv'
  BY <1>9, SaveStep
<1>10. ASSUME NEW r \in Reqs, Fail(r) PROVE IInv'
  BY <1>10, FailStep
<1>11. CASE Restart
  BY <1>11, RestartStep
<1>12. CASE Tick
  BY <1>12, TickStep
<1> QED
  BY <1>1, <1>2, <1>3, <1>4, <1>5, <1>6, <1>7, <1>8, <1>9, <1>10, <1>11, <1>12 DEF Next

(* The inductive invariant holds of every behaviour. *)
THEOREM Invariance == Spec => []IInv
BY InitIInv, NextIInv, PTL DEF Spec

(* Every variable keeps its type. *)
THEOREM TypeCorrect == Spec => []TypeOK
<1>1. IInv => TypeOK
  BY DEF IInv
<1> QED
  BY <1>1, Invariance, PTL

(* A code stands at most AttemptMax wrong guesses unless two verifications   *)
(* of it overlapped or one died before its save (authenticate).              *)
THEOREM GuessesLimited == Spec => []GuessLimit
<1>1. ASSUME IInv PROVE GuessLimit
  <2> SUFFICES ASSUME NEW c \in Codes, c \notin shaken PROVE guesses[c] <= AttemptMax
    BY DEF GuessLimit
  <2>1. CountOK(c)
    BY <1>1 DEF IInv, GuessesOK
  <2>2. code[c].left \in Nat /\ code[c].attempts \in 0..AttemptMax /\ AttemptMax \in Nat
    BY <1>1, OtpAssumption DEF IInv, TypeOK
  <2>3. CASE code[c].left = 0
    BY <2>1, <2>2, <2>3 DEF CountOK
  <2>4. CASE code[c].left > 0 /\ ~GuessWaits(c)
    BY <2>1, <2>2, <2>4 DEF CountOK
  <2>5. CASE code[c].left > 0 /\ GuessWaits(c)
    <3>1. PICK r \in Reqs : At(r, "wrong") /\ req[r].code = c
      BY <2>5 DEF GuessWaits
    <3>2. req[r].tries = code[c].attempts
      BY <2>1, <2>5, <3>1 DEF CountOK, Verifying, At
    <3>3. req[r].tries < AttemptMax
      BY <1>1, <3>1 DEF IInv, RequestsOK
    <3> QED
      BY <2>1, <2>2, <2>5, <3>2, <3>3 DEF CountOK
  <2> QED
    BY <2>2, <2>3, <2>4, <2>5
<1> QED
  BY <1>1, Invariance, PTL

----------------------------------------------------------------------------
(* The refinement of Quota *)

(* A step that sends nothing and lets nobody in, or nothing at all.          *)
LEMMA Released ==
  ASSUME Recent' \subseteq Recent, Flying' \subseteq Flying
  PROVE  Limit!QuotaNext
<1>1. Cardinality(Recent') <= Cardinality(Recent)
  BY Sizes, FS_Subset DEF Recent
<1>2. Cardinality(Recent) \in Nat /\ Cardinality(Recent') \in Nat
  <2>1. Recent \in SUBSET Codes /\ Recent' \in SUBSET Codes
    BY DEF Recent
  <2> QED
    BY <2>1, Sizes
<1>3. Limit!Release(Cardinality(Recent'), Flying')
  BY DEF Limit!Release
<1> QED
  BY <1>1, <1>2, <1>3 DEF Limit!QuotaNext

LEMMA AdmitStep ==
  ASSUME IInv, NEW r \in Reqs, NEW f \in Forms, Request(r, f)
  PROVE  Limit!QuotaNext
<1>1. /\ req[r].pc = "idle" /\ sends.n < SendMax /\ age' = age
      /\ req' = [req EXCEPT ![r] = [pc |-> "insert", code |-> made + 1, tries |-> 0]]
  BY DEF Request, At
<1>2. /\ req'[r].pc = "insert" /\ \A q \in Reqs \ {r} : req'[q] = req[q]
  BY <1>1 DEF IInv, TypeOK
<1>3. Recent' = Recent /\ Flying' = Flying \cup {r} /\ r \notin Flying
  BY <1>1, <1>2 DEF Recent, Flying, At
<1>4. Cardinality(Recent) < SendMax
  <2>1. Cardinality(Recent) \in Nat /\ sends.n \in Nat /\ SendMax \in Nat
    BY Sizes, OtpAssumption DEF Recent, IInv, TypeOK, Entry
  <2> QED
    BY <1>1, <2>1 DEF IInv, SendsOK
<1>5. Limit!Admit(r)
  BY <1>3, <1>4 DEF Limit!Admit
<1> QED
  BY <1>5 DEF Limit!QuotaNext

(* A code sent is one of the window more, unless it was one already.         *)
LEMMA CompleteStep ==
  ASSUME IInv, NEW r \in Reqs, Send(r)
  PROVE  Limit!QuotaNext
<1> DEFINE c == req[r].code
<1>1. req[r].pc = "send" /\ age' = [age EXCEPT ![c] = 0] /\ req' = [req EXCEPT ![r] = Idle]
  BY DEF Send, At
<1>2. c \in Codes
  <2>1. c \in 0..made /\ made \in 0..MaxCodes
    BY DEF IInv, TypeOK
  <2>2. c # 0
    BY <1>1 DEF IInv, RequestsOK, At
  <2> QED
    BY <2>1, <2>2, OtpAssumption DEF Codes
<1>3. req'[r].pc = "idle" /\ \A q \in Reqs \ {r} : req'[q] = req[q]
  BY <1>1 DEF Idle, IInv, TypeOK
<1>4. Flying' = Flying \ {r} /\ r \in Flying
  BY <1>1, <1>3 DEF Flying, At
<1> HIDE DEF c
<1>5. Recent' = Recent \cup {c}
  BY <1>1, <1>2, WindowAssumption DEF Recent, IInv, TypeOK
<1>6. CASE c \in Recent
  BY <1>4, <1>5, <1>6, Released
<1>7. CASE c \notin Recent
  <2>1. IsFiniteSet(Recent)
    BY Sizes DEF Recent
  <2>2. Cardinality(Recent') = Cardinality(Recent) + 1
    BY <1>5, <1>7, <2>1, FS_AddElement
  <2>3. Limit!Complete(r)
    BY <1>4, <2>2 DEF Limit!Complete
  <2> QED
    BY <2>3 DEF Limit!QuotaNext
<1> QED
  BY <1>6, <1>7

LEMMA LimitStep ==
  ASSUME IInv, [Next]_vars
  PROVE  [Limit!QuotaNext]_(Limit!qvars)
<1> SUFFICES Limit!QuotaNext
  OBVIOUS
<1>1. ASSUME UNCHANGED <<age, req>> PROVE Limit!QuotaNext
  <2>1. Recent' = Recent /\ Flying' = Flying
    BY <1>1 DEF Recent, Flying, At
  <2> QED
    BY <2>1, Released
<1>2. ASSUME NEW f \in Forms, RefusedByLimiter(f) \/ RefusedByProvider(f) PROVE Limit!QuotaNext
  BY <1>1, <1>2 DEF RefusedByLimiter, RefusedByProvider, vars
<1>3. ASSUME NEW r \in Reqs, SignUp(r) PROVE Limit!QuotaNext
  BY <1>1, <1>3 DEF SignUp, vars
<1>4. ASSUME NEW r \in Reqs, Insert(r) \/ GuessWrong(r) \/ GuessRight(r) PROVE Limit!QuotaNext
  <2>1. age' = age
    BY <1>4 DEF Insert, GuessWrong, GuessRight, Judge
  <2>2. /\ req[r].pc = "insert" \/ req'[r].pc \in {"wrong", "right"}
        /\ \A q \in Reqs \ {r} : req'[q] = req[q]
    <3>1. CASE Insert(r)
      BY <3>1 DEF Insert, At, IInv, TypeOK
    <3>2. CASE GuessWrong(r)
      BY <3>2 DEF GuessWrong, Judge, IInv, TypeOK
    <3>3. CASE GuessRight(r)
      BY <3>3 DEF GuessRight, Judge, IInv, TypeOK
    <3> QED
      BY <1>4, <3>1, <3>2, <3>3
  <2>3. Recent' = Recent /\ Flying' \subseteq Flying
    BY <2>1, <2>2 DEF Recent, Flying, At
  <2> QED
    BY <2>3, Released
<1>5. ASSUME NEW r \in Reqs, CountFailure(r) \/ MarkUsed(r) \/ Fail(r) PROVE Limit!QuotaNext
  <2>1. age' = age /\ made' = made /\ req' = [req EXCEPT ![r] = Idle]
    BY <1>5 DEF CountFailure, MarkUsed, SaveAttempts, Fail
  <2>2. Recent' = Recent /\ Flying' \subseteq Flying
    BY <2>1, Ended DEF IInv, Recent
  <2> QED
    BY <2>2, Released
<1>6. CASE Restart
  <2>1. Recent' = {} /\ Flying' = {}
    BY <1>6, WindowAssumption DEF Restart, Recent, Flying, At, Idle
  <2> QED
    BY <2>1, Released
<1>7. CASE Tick
  <2>1. Recent' \subseteq Recent /\ Flying' = Flying
    BY <1>7, WindowAssumption DEF Tick, Recent, Flying, At, IInv, TypeOK
  <2> QED
    BY <2>1, Released
<1>8. CASE UNCHANGED vars
  BY <1>1, <1>8 DEF vars
<1> QED
  BY AdmitStep, CompleteStep, <1>2, <1>3, <1>4, <1>5, <1>6, <1>7, <1>8 DEF Next

(* checkOtpRequestRateLimit and recordOtpRequest, with the INSERT between    *)
(* them, are a limit as Quota describes it, over windows that slide.         *)
THEOREM LimitKept == Spec => KeepsLimit
<1>1. Init => Limit!QuotaInit
  <2> SUFFICES ASSUME Init PROVE Limit!QuotaInit
    OBVIOUS
  <2>1. Recent = {} /\ Flying = {}
    BY WindowAssumption DEF Init, Recent, Flying, At, Idle
  <2> QED
    BY <2>1, FS_EmptySet DEF Limit!QuotaInit
<1>2. IInv /\ [Next]_vars => [Limit!QuotaNext]_(Limit!qvars)
  BY LimitStep
<1> QED
  BY <1>1, <1>2, Invariance, PTL DEF Spec, KeepsLimit, Limit!QuotaSpec

(* So a step keeps the bound: it is that of any limit kept this way.         *)
LEMMA BoundStep ==
  ASSUME IInv, SendsBounded, [Next]_vars
  PROVE  SendsBounded'
<1> DEFINE used == Cardinality(Recent)
<1>1. /\ IsFiniteSet(Reqs) /\ SendMax \in Nat
      /\ used \in Nat /\ Flying \in SUBSET Reqs
      /\ used + Cardinality(Flying) < SendMax + Cardinality(Reqs)
  BY Sizes, OtpAssumption DEF Recent, Flying, SendsBounded
<1>2. \/ /\ used < SendMax /\ used' = used
         /\ \E r \in Reqs : Flying' = Flying \cup {r}
      \/ /\ used' = used + 1
         /\ \E r \in Flying : Flying' = Flying \ {r}
      \/ used' \in 0..used /\ Flying' \subseteq Flying
  <2>1. CASE Limit!QuotaNext
    BY <2>1 DEF Limit!QuotaNext, Limit!Admit, Limit!Complete, Limit!Release
  <2>2. CASE UNCHANGED Limit!qvars
    BY <1>1, <2>2 DEF Limit!qvars
  <2> QED
    BY <2>1, <2>2, LimitStep
<1> HIDE DEF used
<1>3. used' + Cardinality(Flying') < SendMax + Cardinality(Reqs)
  BY <1>1, <1>2, OverrunKept
<1> QED
  BY <1>3 DEF SendsBounded, used

(* One window sees at most SendMax codes sent to the phone, and one more for *)
(* every further request under way (requestOtp of the provider).             *)
THEOREM SendLimit == Spec => []SendsBounded
<1>1. Init => SendsBounded
  <2> SUFFICES ASSUME Init PROVE SendsBounded
    OBVIOUS
  <2>1. Recent = {} /\ Flying = {}
    BY WindowAssumption DEF Init, Recent, Flying, At, Idle
  <2>2. Cardinality(Recent) + Cardinality(Flying) < SendMax + Cardinality(Reqs)
    BY <2>1, FS_EmptySet, Sizes, OtpAssumption
  <2> QED
    BY <2>2 DEF SendsBounded
<1>2. IInv /\ SendsBounded /\ [Next]_vars => SendsBounded'
  BY BoundStep
<1> QED
  BY <1>1, <1>2, Invariance, PTL DEF Spec
=============================================================================
