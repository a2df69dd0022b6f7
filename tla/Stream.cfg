CONSTANTS
  Size = 3
  PerAck = 2
  Buffer = 2
  MaxFlight = 1
  MaxFaults = 1
  MaxTroubles = 1
SPECIFICATION FairSpec
INVARIANTS TypeOK Verdicts
PROPERTIES Ends FileArrives
CHECK_DEADLOCK FALSE
