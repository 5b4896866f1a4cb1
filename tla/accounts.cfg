CONSTANTS
  ann = ann
  bob = bob
  nobody = nobody
  p1 = p1
  p2 = p2
  noUser = noUser
  t1 = t1
  t2 = t2
  t3 = t3
  t4 = t4
  t5 = t5
  t6 = t6
  Handles = {ann, bob, nobody}
  Passwords = {p1, p2}
  NoUser = noUser
  Requests <- MCRequests
  Body <- MCBody
  MaxRequests = 2
  Window = 1
  MaxTime = 4
  Scenarios <- MCScenarios
SPECIFICATION Spec
SYMMETRY MCSymmetry
INVARIANTS
  HalfAccountsExplained
  DirectChatsComplete
  SomebodyGetsTheChat
  AtMostTwoWindows
CHECK_DEADLOCK FALSE
