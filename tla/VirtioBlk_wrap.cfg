SPECIFICATION FairSpec
CONSTANTS
  QUEUE_ENTS = 16
  BOUNCE_SECS = 1
  QNumMax = 1024
  Capacity = 2
  LbaMod = 4
  Values = {"a", "b"}
  MaxCount = 2
  MaxSubmits = 6
  Reloads = TRUE
PROPERTY CallReturns
CHECK_DEADLOCK FALSE
