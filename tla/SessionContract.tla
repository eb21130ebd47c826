--------------------------- MODULE SessionContract ---------------------------
(* What the session service of AuthService really promises, without tokens,  *)
(* rows or columns.  A session is opened once, is live until it is revoked,  *)
(* and a refresh that found it live keeps a claim on it until the refresh    *)
(* has written its result or has failed.  A settled claim may make the       *)
(* session live again, even one revoked in the meantime; a revoked session   *)
(* that no refresh has a claim on is dead for good.                          *)
CONSTANTS Sids,  \* the sessions
          Reqs   \* the requests that may be under way at one time

VARIABLES phase, \* phase[s]: "none" before login, then "live" or "revoked"
          claims \* claims[s]: the refresh requests that hold a claim on s

cvars == <<phase, claims>>

Phases == {"none", "live", "revoked"}

ContractInit ==
  /\ phase = [s \in Sids |-> "none"]
  /\ claims = [s \in Sids |-> {}]

Open(s) ==
  /\ phase[s] = "none"
  /\ phase' = [phase EXCEPT ![s] = "live"]
  /\ UNCHANGED claims

Claim(r, s) ==
  /\ phase[s] = "live"
  /\ \A u \in Sids : r \notin claims[u]
  /\ claims' = [claims EXCEPT ![s] = @ \cup {r}]
  /\ UNCHANGED phase

(* The claim ends with the session as it is, or live. *)
Settle(r, s) ==
  /\ r \in claims[s]
  /\ claims' = [claims EXCEPT ![s] = @ \ {r}]
  /\ \/ UNCHANGED phase
     \/ phase' = [phase EXCEPT ![s] = "live"]

(* One revocation takes down any set of opened sessions at once. *)
Revoke(S) ==
  /\ \A s \in S : phase[s] # "none"
  /\ phase' = [s \in Sids |-> IF s \in S THEN "revoked" ELSE phase[s]]
  /\ UNCHANGED claims

ContractNext ==
  \/ \E s \in Sids : Open(s)
  \/ \E r \in Reqs, s \in Sids : Claim(r, s) \/ Settle(r, s)
  \/ \E S \in SUBSET Sids : Revoke(S)

ContractSpec == ContractInit /\ [][ContractNext]_cvars
==============================================================================
