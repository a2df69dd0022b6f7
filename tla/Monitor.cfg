CONSTANTS
  u1 = u1
  u2 = u2
  Lists <- SomeLists
  FirstSuppliers <- First
  MaxTrouble <- Few
SPECIFICATION FairSpec
INVARIANTS TypeOK Awaits
PROPERTY Relisted
