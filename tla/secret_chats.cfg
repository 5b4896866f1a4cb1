CONSTANTS
  ann = ann
  bob = bob
  Users <- MCUsers
  Chats <- TwoChats
  Texts <- HelloOnly
  MaxUnderway = 3
  MaxFaults = 1
  MaxRestarts = 1
SPECIFICATION Spec
INVARIANTS
  KeysAgree
  Readable
  NoGhost
  NoInvitationHangs
PROPERTIES
  DeletedStaysDeleted
CHECK_DEADLOCK FALSE
