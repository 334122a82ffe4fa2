SPECIFICATION FairBootSpec
CONSTANTS
  Choices = {"standard", "version", "secure"}
  MaxFaults = 3
  MaxCuts = 3
INVARIANTS BootTypeOK StampKept ReasonRecorded
 
CHECK_DEADLOCK FALSE
