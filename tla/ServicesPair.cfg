CONSTANTS
  network = network
  gateway = gateway
  transport = transport
  connections = connections
  hookups = hookups
  Service = {network, gateway}
  DependsOn <- Pair
  MaxQueue = 2
  MaxRestarts = 1
  MaxStops = 1
  MayBeMissing = {gateway}
  MayFail = {network}
  AsyncStart = {gateway}
  AsyncStop = {gateway}
SPECIFICATION FairSpec
INVARIANTS TypeOK OneOutcome AnswerOnce
PROPERTY Resolves
CHECK_DEADLOCK FALSE
