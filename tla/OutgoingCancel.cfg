SPECIFICATION FairSpec
CONSTANTS
  Callers = {c1, c2}
  Cancellable = {c1}
  MaxLimit = 1
  MaxWaits = 2
PROPERTY OpenedWhenPossible
CHECK_DEADLOCK FALSE
