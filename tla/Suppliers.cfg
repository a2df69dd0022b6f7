CONSTANTS
  u1 = u1
  u2 = u2
  u3 = u3
  User = {u1, u2, u3}
  Numbers = {1, 2}
  CorrectableErrors <- Errors
  FirstSuppliers <- OneOfTwo
  FirstNumber = 2
  MaxWaiting = 1
  MaxAttempts = 2
  MaxTrouble = 1
SPECIFICATION Spec
SYMMETRY Strangers
PROPERTIES Promise Replaced Awaited
INVARIANT TypeOK
CHECK_DEADLOCK FALSE
