CONSTANTS
  ParityToData <- Ecc2
  MaxRequests = 1
  MaxBlock = 1
  Correctable = 1
  Presence <- AllOrOne
  KeepsCopies = FALSE
  MaxFaults = 1
  FaultBlock = 0
  MaxStreams = 2
  MaxWaiting = 0
SPECIFICATION FairRestoreSpec
INVARIANTS RestoreTypeOK Settled
PROPERTY Downloads
CHECK_DEADLOCK FALSE
