SPECIFICATION LedgerSpec
CONSTANTS
  Tenants = {t1}
  Grants = {g1}
  Amounts = {1}
  StarterCredits = 1
  MaxInt = 5
  NoGrant = NoGrant
INVARIANT LedgerExact
