----------------------------- MODULE MCSessions -----------------------------
(* Model values for Sessions: one user signed in to one app on one device    *)
(* (three or four requests racing on one row) or on two.                     *)
EXTENDS Sessions, TLC

CONSTANTS u1, a1

MCOwnerOf == [s \in Sids |-> u1]
MCAppOf == [s \in Sids |-> a1]

Symmetry == Permutations(Reqs)
==============================================================================
