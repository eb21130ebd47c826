CONSTANTS
  Forms = {norm}
  Norm = norm
  LimiterMax = 2
  SendMax = 2
  AttemptMax = 1
  OtpLife = 1
  Window = 3
  Reqs = {r1}
  MaxCodes = 2
SPECIFICATION Spec
INVARIANT RefusedOnlyAtLimit
CHECK_DEADLOCK FALSE
