SPECIFICATION FairSpec
CONSTANTS
  Messages <- MCMessages
  Builds <- MCBuilds
  Token = "t"
  Folder <- MCFolder
  MaxMessages = 3
  MaxEnds = 2
INVARIANTS
  RepliesMatch
  LoadsAccounted
PROPERTIES
  RequestsAnswered
CHECK_DEADLOCK FALSE
