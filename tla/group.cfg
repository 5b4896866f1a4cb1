CONSTANTS
  ann = ann
  bob = bob
  cat = cat
  dan = dan
  nobody = nobody
  noTx = noTx
  People <- MCPeople
  Users <- MCUsers
  Lists <- MCLists
  Requests <- MCRequests
  Limit = 3
  NoTx = noTx
  Scenarios <- MCScenarios
  MaxFaults = 1
SPECIFICATION FairSpec
INVARIANTS
  WithinLimit
  OneOwner
PROPERTIES
  OnlyAddsJoin
  EveryRequestAnswered
CHECK_DEADLOCK FALSE
