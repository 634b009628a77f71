SPECIFICATION Spec
CONSTANTS
  Jobs = {j1}
  Polls = {p1, p2, p3}
  Limit = 2
  MaxAttempts = 3
  MaxResets = 1
  MaxRestarts = 1
SYMMETRY Symmetry
INVARIANTS
  LockExclusive
  HoldersBoundedByRetries
  AttemptsBounded
  DuplicatesExplained
  SuccessMeansSent
PROPERTY
  VerdictFinal
  ImplementsOutbox
CHECK_DEADLOCK FALSE
