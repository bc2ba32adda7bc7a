SPECIFICATION LedgerSpec
CONSTANTS
  Tenants = {t1, t2}
  Grants = {g1, g2}
  Amounts = {1, 3}
  StarterCredits = 1
  MaxInt = 5
  NoGrant = NoGrant
SYMMETRY MCSymmetry
INVARIANTS
  LedgerTypeOK
  WithinLifetime
  ExactUnlessOverlapped
PROPERTY GrantPaidInFull
