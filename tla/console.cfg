SPECIFICATION Spec
CONSTANTS
  q1 = q1
  q2 = q2
  q3 = q3
  A = A
  B = B
  Op = Op
  None = None
  Requests = {q1, q2, q3}
  Workspaces = {A, B, Op}
  Operator = Op
  Workloads <- MCWorkloads
SYMMETRY Symmetry
INVARIANTS
  TypeOK
  EditsKept
  AnswersTrue
  LimitHeldUnlessCountedApart
  TwinsOnlyFromOverlap
  NumbersKept
PROPERTIES
  OnlyOwnRows
CHECK_DEADLOCK FALSE
