SPECIFICATION FairSpec
CONSTANTS
  Jobs = {j1, j2}
  Polls = {p1, p2}
  Limit = 1
  MaxAttempts = 2
  MaxResets = 0
  MaxRestarts = 1
PROPERTY
  QueuedMailSettles
CHECK_DEADLOCK FALSE
