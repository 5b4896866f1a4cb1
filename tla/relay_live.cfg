CONSTANTS
  alice = alice
  bob = bob
  carol = carol
  ghost = ghost
  chatA = chatA
  chatB = chatB
  noConn = noConn
  c1 = c1
  c2 = c2
  UserIds <- MCUserIds
  Users <- MCUsers
  Chats <- MCChats
  Conns = {c1, c2}
  NoConn = noConn
  UserOf <- TwoConns
  Msgs <- Refused
  Prior <- AcceptFirst
  MaxFaults = 1
  MaxCrashes = 0
SPECIFICATION FairSpec
PROPERTIES
  SyncEnds
  OnItsWayArrives
CHECK_DEADLOCK FALSE
