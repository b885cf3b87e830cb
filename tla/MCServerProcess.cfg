CONSTANTS
  Sessions = {s1, s2}
  Port = 3
  LastPort = 5
  MaxNumber = 6
  Text <- Texts
  Decimal <- Decimals
  MaxPending = 2
  MaxCommands = 2
  Serial = TRUE
VIEW Relevant
SPECIFICATION FairSpec
INVARIANT ProcessTypeOK
INVARIANT OwnAddress
 
PROPERTY StopsOrOverwritten
CHECK_DEADLOCK FALSE
