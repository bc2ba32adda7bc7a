SPECIFICATION Spec
CONSTANTS
  Sessions = {s1}
  Workers = {w1, w2}
  Addresses = {payer, buyer}
  Payers = {payer}
  Plans = {pro}
  Slugs = {slug1, slug2}
  Free = free
  NoAddress = NoAddress
  NoPlan = NoPlan
  NoSession = NoSession
  NoRow = NoRow
INVARIANT CompletedSeatsPlan
