CONSTANTS
  u1 = u1
  a1 = a1
  Users = {u1}
  Apps = {a1}
  Sids = {s1}
  Reqs = {r1, r2}
  OwnerOf <- MCOwnerOf
  AppOf <- MCAppOf
  MaxTokens = 3
SPECIFICATION Spec
INVARIANT LogoutInvalidates
SYMMETRY Symmetry
CHECK_DEADLOCK FALSE
