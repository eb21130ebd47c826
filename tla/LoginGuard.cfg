CONSTANTS
  Forms = {plain, upper}
  LoginMax = 2
  BlockMax = 2
  MaxFailed = 2
  LockLife = 2
  Window = 2
  Reqs = {r1, r2}
SPECIFICATION FairSpec
INVARIANTS TypeOK FailuresBounded LockoutOnlyByRace
PROPERTIES LoginAgain KeepsLimit
CHECK_DEADLOCK FALSE
