SPECIFICATION FairSpec
CONSTANTS
  m1 = m1
  m2 = m2
  general = general
  ann = ann
  x1 = x1
  x2 = x2
  None = None
  Managers = {m1, m2}
  Channels = {general}
  People = {ann}
  Messages = {x1, x2}
  ChannelOf <- MCChannelOf
  AuthorOf <- MCAuthorOf
  SaveEvery = 2
  FaultLimit = 1
  EndLimit = 1
INVARIANTS
  NothingCountedTwice
PROPERTIES
  CleanExitSaves
  SavedKeepsCount
  RhythmIsSaved
CHECK_DEADLOCK FALSE
