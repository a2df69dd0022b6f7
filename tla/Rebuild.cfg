CONSTANTS
  b1 = b1
  b2 = b2
  Newest <- One
  MaxBlock = 1
  ParityToData <- Ecc2
  Stored <- SomeLost
  OnDisk <- SomeFiles
  Vacancies <- FullOrNot
  Cpus = 1
  MaxEvents = 2
  MaxWaiting = 4
SPECIFICATION FairSpec
INVARIANTS TypeOK Books
PROPERTIES StopWorks Healed
CHECK_DEADLOCK FALSE
