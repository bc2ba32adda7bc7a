SPECIFICATION Spec
CONSTANTS
  Requests = {r1, r2, r3}
  Door = Door
  DbAhead = 0
  ServerAhead = 1
  MaxTime = 2
  NoToken = NoToken
CHECK_DEADLOCK FALSE
SYMMETRY MCSymmetry
INVARIANTS
  TypeOK
  SessionEndsWithPassword
  CallerStaysIn
  CodeRedeemedOnce
  OneLiveCode
  FirstPasswordOnce
  SuspendedIsShut
