CONSTANTS
  Settings = {s1, s2}
  Roles = {o1, o2}
  JwtLife = 2
  Reqs = {r1, r2}
  MaxKeys = 1
SPECIFICATION Spec
SYMMETRY Symmetry
INVARIANTS TypeOK PoolAsAsked RolesAsAsked GuardsAgreeInTime
PROPERTY DeletedForGood
CHECK_DEADLOCK FALSE
