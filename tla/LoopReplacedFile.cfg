\* A file that is watched, and replaced by another one of the same name.
SPECIFICATION FairSpec
CONSTANTS
  Kind <- File
  Values = {v1, v2}
  NoData = NoData
  Malformed = Malformed
  Torn = Torn
  NumOps = 1
  Clients = {}
  Poll = FALSE
  QueueCap = 1
  Edits = {"replace"}
  Faults = {}
PROPERTY FollowsWatchedFiles
CHECK_DEADLOCK FALSE
