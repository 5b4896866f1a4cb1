CONSTANTS
  member = member
  message = message
  chat = chat
  user = user
  none = none
  noTx = noTx
  Rows = {member, message, chat, user}
  Columns <- MCColumns
  Requests <- MCRequests
  Default = none
  Stored = {member, message, chat, user}
  NoTx = noTx
  Scenarios <- MCScenarios
  MaxFaults = 1
  MaxCrashes = 1
SPECIFICATION FairSpec
INVARIANTS
  EditedTogether
  FailedLeavesNothing
PROPERTIES
  ImplementsStore
  NoRowStaysLocked
CHECK_DEADLOCK FALSE
