CONSTANTS
  Streams = {s1}
  Cancellable = {s1}
  StreamWindow = 2
  MaxStreamWindow = 5
  ConnWindow = 2
  MaxConnWindow = 4
  MaxData = 2
SPECIFICATION FairSpec
CHECK_DEADLOCK FALSE
PROPERTY ConnUpdateAdvertised
