SPECIFICATION FairSpec
CONSTANTS
  Capacity = 3
  LbaMod = 16
  Lba48 = 8
  Values = {"a", "b"}
  MaxCount = 2
PROPERTIES OnlyEarlyWordsAreLost CallReturns
