CONSTANTS
  Addresses = {a1}
  Uids = {u1}
  Ids = {i1, i2}
  Reqs = {r1, r2}
SPECIFICATION Spec
SYMMETRY Symmetry
INVARIANT LastIdentityKept
CHECK_DEADLOCK FALSE
