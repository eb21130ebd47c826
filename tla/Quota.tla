------------------------------- MODULE Quota -------------------------------
(* What a limit promises whose counter is looked at before the work and      *)
(* written after it, with awaited statements between: the provider's limits  *)
(* on codes sent (Otp) and on failed logins (LoginGuard).                    *)
EXTENDS Naturals

CONSTANTS Max,  \* the count at which requests are refused
          Reqs  \* slots for requests under way at one time

VARIABLES used,    \* events of the last window
          pending  \* the requests that were let in and may still make an event

qvars == <<used, pending>>

QuotaInit ==
  /\ used = 0
  /\ pending = {}

Admit(r) ==
  /\ r \notin pending
  /\ used < Max
  /\ pending' = pending \cup {r}
  /\ UNCHANGED used

Complete(r) ==
  /\ r \in pending
  /\ pending' = pending \ {r}
  /\ used' = used + 1

(* Events leave the window, requests end without one. *)
Release(n, R) ==
  /\ used' = n
  /\ pending' = R

QuotaNext ==
  \/ \E r \in Reqs : Admit(r) \/ Complete(r)
  \/ \E n \in 0..used, R \in SUBSET pending : Release(n, R)

QuotaSpec == QuotaInit /\ [][QuotaNext]_qvars
=============================================================================
