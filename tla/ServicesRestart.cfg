CONSTANTS
  network = network
  gateway = gateway
  transport = transport
  connections = connections
  hookups = hookups
  Service = {network, gateway, transport, connections, hookups}
  DependsOn <- Tower
  MaxQueue = 1
  MaxRestarts = 1
  MaxStops = 1
  MayBeMissing = {}
  MayFail = {}
  AsyncStart = {gateway, transport}
  AsyncStop = {gateway}
SPECIFICATION RestartSpec
PROPERTY AllUpInTheEnd
CHECK_DEADLOCK FALSE
