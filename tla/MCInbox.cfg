SPECIFICATION FairSpec
CONSTANTS
  Reader = {r1}
  MaxId = 2
  Kind = {"ack"}
  Limit = None
  MaxByHand = 1
  PruneNewest = FALSE
  None = None
INVARIANTS
  NothingLost
PROPERTIES
  PostsLandOnTop
  EveryMessageShown
