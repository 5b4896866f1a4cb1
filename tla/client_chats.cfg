CONSTANTS
  ann = ann
  bob = bob
  noUser = noUser
  chatA = chatA
  chatB = chatB
  Users = {ann, bob}
  NoUser = noUser
  Chats = {chatA, chatB}
  MembersOf <- MCMembersOf
  MaxPosts = 3
  MaxCalls = 2
  PageSize = 2
  Scenarios <- MCScenarios
SPECIFICATION Spec
INVARIANTS
  NoHoles
  AccountsSeparate
  SessionsAgree
CHECK_DEADLOCK FALSE
