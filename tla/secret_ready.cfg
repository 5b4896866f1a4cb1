CONSTANTS
  ann = ann
  bob = bob
  Users <- MCUsers
  Chats <- OneChat
  Texts <- HelloOnly
  MaxUnderway = 3
  MaxFaults = 0
  MaxRestarts = 0
SPECIFICATION Spec
PROPERTY ReadyForMessaging
CHECK_DEADLOCK FALSE
