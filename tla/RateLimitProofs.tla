-------------------------- MODULE RateLimitProofs --------------------------
(* What checkLimit makes of a cache entry, for any lifetime of a counter,    *)
(* and how far a limit can be overrun that is checked before it is counted.  *)
EXTENDS RateLimit, FiniteSetTheorems, TLAPS

(* An entry stays an entry, and a counter never becomes a string.            *)
LEMMA EntryFacts ==
  /\ Absent \in Entry /\ Absent.kind # "string"
  /\ \A e \in Entry : Counted(e) \in Entry /\ Counted(e).kind # "string"
  /\ \A e \in Entry : Aged(e) \in Entry /\ (e.kind # "string" => Aged(e).kind # "string")
<1>1. Absent \in Entry /\ Absent.kind # "string"
  BY DEF Absent, Entry
<1>2. ASSUME NEW e \in Entry PROVE Counted(e) \in Entry /\ Counted(e).kind # "string"
  BY WindowAssumption DEF Counted, Entry
<1>3. ASSUME NEW e \in Entry PROVE Aged(e) \in Entry /\ (e.kind # "string" => Aged(e).kind # "string")
  <2>1. CASE e.left <= 1
    BY <1>1, <2>1 DEF Aged
  <2>2. CASE ~(e.left <= 1)
    BY <2>2 DEF Aged, Entry
  <2> QED
    BY <2>1, <2>2
<1> QED
  BY <1>1, <1>2, <1>3

(* used events of a window and the requests pending that may still make one: *)
(* letting a request in while used is below max, an event of a request that  *)
(* is pending, and forgetting any of both keep to the same bound.            *)
LEMMA OverrunKept ==
  ASSUME NEW reqs, IsFiniteSet(reqs), NEW max \in Nat,
         NEW used \in Nat, NEW pending \in SUBSET reqs,
         used + Cardinality(pending) < max + Cardinality(reqs),
         NEW n, NEW after,
         \/ /\ used < max /\ n = used
            /\ \E r \in reqs : after = pending \cup {r}
         \/ /\ n = used + 1
            /\ \E r \in pending : after = pending \ {r}
         \/ n \in 0..used /\ after \subseteq pending
  PROVE  n \in Nat /\ after \subseteq reqs /\ n + Cardinality(after) < max + Cardinality(reqs)
<1>1. ASSUME NEW S \in SUBSET reqs
      PROVE  /\ IsFiniteSet(S) /\ Cardinality(S) \in Nat
             /\ Cardinality(S) <= Cardinality(reqs)
  BY FS_Subset, FS_CardinalityType
<1>2. Cardinality(reqs) \in Nat /\ Cardinality(pending) \in Nat /\ IsFiniteSet(pending)
  BY <1>1, FS_CardinalityType
<1>3. CASE used < max /\ n = used /\ \E r \in reqs : after = pending \cup {r}
  <2>1. Cardinality(after) \in Nat /\ Cardinality(after) <= Cardinality(reqs)
    BY <1>1, <1>3
  <2> QED
    BY <1>2, <1>3, <2>1
<1>4. CASE n = used + 1 /\ \E r \in pending : after = pending \ {r}
  <2>1. Cardinality(after) = Cardinality(pending) - 1
    BY <1>2, <1>4, FS_RemoveElement
  <2> QED
    BY <1>2, <1>4, <2>1
<1>5. CASE n \in 0..used /\ after \subseteq pending
  <2>1. Cardinality(after) \in Nat /\ Cardinality(after) <= Cardinality(pending)
    BY <1>2, <1>5, FS_Subset, FS_CardinalityType
  <2> QED
    BY <1>2, <1>5, <2>1
<1> QED
  BY <1>3, <1>4, <1>5
=============================================================================
