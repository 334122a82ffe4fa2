SPECIFICATION FairSpec
CONSTANTS
  RX_DESCS = 3
  TX_DESCS = 2
  MaxArrivals = 3
  Lan <- AllFrames
  Addresses <- Addrs
  Swap <- Reversed
  Hosts = {"far", "h"}
  OnLink = {"h"}
  Gateway = "gw"
  MaxCalls = 2
INVARIANTS TypeOK RxRingExact
PROPERTIES SentToNextHop SentWhenReported CallReturns
CHECK_DEADLOCK FALSE
