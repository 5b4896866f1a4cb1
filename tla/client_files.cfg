CONSTANTS
  photo = photo
  paper = paper
  voice = voice
  Files = {photo, paper, voice}
  Clip = voice
  Messages = {1, 2}
  Scenarios <- MCScenarios
SPECIFICATION LiveSpec
INVARIANTS
  StallsOnlyUnsaved
  PostedWithTheRest
  WholeOrTorn
PROPERTIES
  FetchedInTheEnd
CHECK_DEADLOCK FALSE
