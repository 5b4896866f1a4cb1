CONSTANTS
  ann = ann
  bob = bob
  cat = cat
  dan = dan
  room = room
  Users = {ann, bob, cat, dan}
  Chats = {room}
  MembersAtFirst <- MCMembers
  Online = {ann, bob, dan}
  Requests <- MCRequests
  NoRequest = 0
  Body <- MCBody
  Limit = 2
  MaxFiles = 2
  PoolSize = 2
  MaxAttempts = 2
  Scenarios <- MCScenarios
SPECIFICATION Spec
INVARIANTS
  UpMeansBucket
  AttachmentsWhole
  ToldOrInHistory
  ReadMeansGot
  PreviewNeverHidesUnread
  NoJamBelowPoolSize
PROPERTIES
  MarkMovesBackOnlyByOverlap
CHECK_DEADLOCK FALSE
