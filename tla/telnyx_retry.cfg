SPECIFICATION Spec
CONSTANTS
  t1 = t1
  stray = stray
  Tenants = {t1}
  Grants = {}
  Amounts = {}
  StarterCredits = 2
  MaxInt = 4
  NoGrant = NoGrant
  Handlers = {h1}
  Events = {ring}
  CallEvents = {ring}
  Owner <- MCOwner
  NoTenant = NoTenant
  Tolerance = 2
  Skew = 0
  Idle = Idle
  Unsigned = Unsigned
  MaxTime = 2
  MaxSigned = 2
  MaxAttempts = 2
PROPERTY RetryOfProcessedIsRefused
