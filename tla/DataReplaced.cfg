CONSTANTS
  data = data
  parity = parity
  other = other
  hired = hired
  next = next
  Packet = {data, parity}
  Big = {data}
  MaxActive = 1
  MaxLoops = 2
  Supplier = {hired, next}
  First = hired
  Backup <- OneBackup
  MaxFaults = 1
  MaxCalls = 1
SPECIFICATION Spec
PROPERTIES KeepsCopy Told
