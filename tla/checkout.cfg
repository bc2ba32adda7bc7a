SPECIFICATION FairSpec
CONSTANTS
  Sessions = {s1, s2}
  Workers = {w1, w2}
  Addresses = {payer, buyer}
  Payers = {payer}
  Plans = {pro}
  Slugs = {slug1, slug2}
  Free = free
  NoAddress = NoAddress
  NoPlan = NoPlan
  NoSession = NoSession
  NoRow = NoRow
INVARIANTS
  TypeOK
  SeatedOnce
  PaidIsSeated
  MintedOnPlan
PROPERTIES
  SeatsAsBought
  PaidIsClaimed
