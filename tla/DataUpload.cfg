CONSTANTS
  data = data
  parity = parity
  other = other
  hired = hired
  next = next
  Packet = {data, parity, other}
  Big = {data}
  MaxActive = 2
  MaxLoops = 1
  Supplier = {hired}
  First = hired
  Backup <- OneBackup
  MaxFaults = 2
  MaxCalls = 1
SPECIFICATION FairSpec
INVARIANTS TypeOK LoopAlive
PROPERTY Uploads
