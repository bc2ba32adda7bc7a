SPECIFICATION Spec
CONSTANTS
  t1 = t1
  stray = stray
  Tenants = {t1}
  Grants = {g1}
  Amounts = {1}
  StarterCredits = 1
  MaxInt = 2
  NoGrant = NoGrant
  Handlers = {h1, h2}
  Events = {ring, stray, notice}
  CallEvents = {ring, stray}
  Owner <- MCOwner
  NoTenant = NoTenant
  Tolerance = 1
  Skew = 1
  Idle = Idle
  Unsigned = Unsigned
  MaxTime = 2
  MaxSigned = 1
  MaxAttempts = 2
SYMMETRY MCSymmetry
INVARIANTS
  TypeOK
  OnlyVerifiedCallsRecorded
  ChargesCoveredByCredits
  SpentCreditsAccounted
  RememberedMeansLanded
  OneReplyPerRecordedCall
PROPERTIES
  GuardHoldsInsideWindow
  LedgerSpec
