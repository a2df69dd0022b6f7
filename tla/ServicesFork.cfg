CONSTANTS
  network = network
  gateway = gateway
  transport = transport
  connections = connections
  hookups = hookups
  Service = {network, gateway, transport}
  DependsOn <- Fork
  MaxQueue = 2
  MaxRestarts = 0
  MaxStops = 1
  MayBeMissing = {transport}
  MayFail = {gateway}
  AsyncStart = {network, transport}
  AsyncStop = {gateway}
SPECIFICATION Spec
INVARIANTS DependenciesUp NotLeftBehind
PROPERTIES KeepsPromise
CHECK_DEADLOCK FALSE
