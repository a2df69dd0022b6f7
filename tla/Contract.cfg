CONSTANTS
  c1 = c1
  c2 = c2
  Customer = {c1, c2}
  Needed <- Needs
  Donations <- Amounts
  FreeBefore = 3
  MaxAsked = 2
  MaxTrouble = 2
SPECIFICATION FairSpec
INVARIANTS TypeOK SpaceConserved Agrees
PROPERTY Reported
CHECK_DEADLOCK FALSE
