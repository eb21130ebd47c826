CONSTANTS
  Sids = {s1, s2}
  Reqs = {r1, r2}
SPECIFICATION FairSpec
INVARIANTS TypeOK StatusAsAsked
PROPERTIES ClosedStaysClosed AccessEnds
CHECK_DEADLOCK FALSE
