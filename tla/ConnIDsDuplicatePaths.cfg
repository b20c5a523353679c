CONSTANTS
  Client = FALSE
  Paths = {p1, p2}
  MaxSeq = 5
  MaxActive = 4
  ConnIDLimit = 4
  MaxIssued = 6
  Duplicates = TRUE
SPECIFICATION ConnIDsSpec
CHECK_DEADLOCK FALSE
INVARIANT RetireNeverRejected
