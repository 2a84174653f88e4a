SPECIFICATION Spec
CONSTANTS
  b1 = b1
  b2 = b2
  a = a
  p1 = p1
  p2 = p2
  None = None
  Browser = {b1, b2}
  Stream = {a, p1, p2}
  Counter = {"a", "p"}
  CounterOf <- MCCounterOf
  Budgets <- MCBudgets
SYMMETRY MCSymmetry
INVARIANT
  TypeOK
  GapsAreLosses
  LossIsNeverUnderstated
  OneRun
  PagesAgree
  PagesKnowTheRun
PROPERTY
  FinishedRunsKeep
CHECK_DEADLOCK FALSE
