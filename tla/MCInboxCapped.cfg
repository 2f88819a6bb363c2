SPECIFICATION Spec
CONSTANTS
  Reader = {r1}
  MaxId = 2
  Kind = {"ack", "read"}
  Limit = 1
  MaxByHand = 0
  PruneNewest = FALSE
  None = None
INVARIANT NothingLost
