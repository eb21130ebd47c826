----------------------------- MODULE RateLimit -----------------------------
(* RateLimitService.checkLimit on one key of the cache, and what else the    *)
(* cache may hold under that key.  AuthModule registers an in-memory cache:  *)
(* its get and set resolve without I/O, so nothing runs between them.        *)
EXTENDS Naturals

CONSTANT Window  \* bound and windowMs: the lifetime of a counter, in ticks

ASSUME WindowAssumption == Window \in Nat \ {0}

(* A cache entry: nothing, a counter, or a string some other code has put    *)
(* under the same key; it lives for left more ticks.                         *)
Entry == [kind : {"none", "count", "string"}, n : Nat, left : Nat]

Absent == [kind |-> "none", n |-> 0, left |-> 0]

(* "current + 1" is a number above maxRequests, or, if current is a string,  *)
(* the string with a 1 appended: compared as a number it exceeds any limit   *)
(* (only the code 000000 does not, which is left out).                       *)
Denies(e, max) == e.kind = "string" \/ (e.kind = "count" /\ e.n >= max)

(* Mutant: a counter keeps the lifetime that its first set gave it. *)
CountedFixed(e) ==
  [kind |-> "count", n |-> e.n + 1, left |-> IF e.left = 0 THEN Window ELSE e.left]

(* The set of an allowed check starts the window anew. *)
Counted(e) == [kind |-> "count", n |-> e.n + 1, left |-> Window]

(* One tick passes; an entry whose lifetime is over is gone. *)
Aged(e) == IF e.left <= 1 THEN Absent ELSE [e EXCEPT !.left = @ - 1]
=============================================================================
