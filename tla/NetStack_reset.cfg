SPECIFICATION FairSpec
CONSTANTS
  RX_DESCS = 3
  TX_DESCS = 2
  MaxArrivals = 4
  Lan <- FewFrames
  Addresses <- Addrs
  Swap <- Reversed
  Hosts = {"far", "h"}
  OnLink = {"h"}
  Gateway = "gw"
  MaxCalls = 1
PROPERTY ActiveOpenOnly
CHECK_DEADLOCK FALSE
