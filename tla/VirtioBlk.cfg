SPECIFICATION FairSpec
CONSTANTS
  QUEUE_ENTS = 7
  BOUNCE_SECS = 2
  QNumMax = 1024
  Capacity = 3
  LbaMod = 6
  Values = {"a", "b"}
  MaxCount = 3
  MaxSubmits = 4
  Reloads = TRUE
PROPERTIES ImplementsBlockDevice AnsweredOrBroken
CHECK_DEADLOCK FALSE
