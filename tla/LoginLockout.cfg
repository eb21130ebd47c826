CONSTANTS
  Forms = {plain, upper}
  LoginMax = 2
  BlockMax = 2
  MaxFailed = 2
  LockLife = 2
  Window = 2
  Reqs = {r1}
SPECIFICATION Spec
INVARIANT LockoutInForce
CHECK_DEADLOCK FALSE
