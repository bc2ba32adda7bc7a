SPECIFICATION Spec
CONSTANTS
  Texts = {c1}
  Records = {c2, c3}
  Replies = {}
  Limit = 2
  NoRow = NoRow
SYMMETRY MCSymmetry
INVARIANTS
  TypeOK
  StampsAgree
  AcceptedAccounted
  AckedIsShown
  LimitHeldUnlessOverlapped
PROPERTIES
  StampsKept
  KeepsLifecycle
