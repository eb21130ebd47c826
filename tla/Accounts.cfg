CONSTANTS
  Addresses = {a1, a2}
  Uids = {u1, u2}
  Ids = {i1, i2, i3}
  Reqs = {r1, r2, r3}
SPECIFICATION Spec
SYMMETRY Symmetry
INVARIANTS TypeOK OnePrimaryPerAddress UserHasIdentity
PROPERTY UnlinkedForGood
CHECK_DEADLOCK FALSE
