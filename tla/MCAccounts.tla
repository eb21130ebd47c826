----------------------------- MODULE MCAccounts -----------------------------
(* Accounts for TLC: addresses, users, identities and requests are all       *)
(* interchangeable.                                                          *)
EXTENDS Accounts, TLC

Symmetry ==
  Permutations(Addresses) \cup Permutations(Uids) \cup Permutations(Ids) \cup Permutations(Reqs)
=============================================================================
