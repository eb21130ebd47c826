CONSTANTS
  Forms = {norm, spaced}
  Norm = norm
  LimiterMax = 2
  SendMax = 1
  AttemptMax = 2
  OtpLife = 1
  Window = 3
  Reqs = {r1, r2}
  MaxCodes = 3
SPECIFICATION FairSpec
INVARIANTS TypeOK SendsBounded GuessLimit
PROPERTIES ServableAgain KeepsLimit
CHECK_DEADLOCK FALSE
