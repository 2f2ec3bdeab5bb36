\* A file and a ConfigMap, every kind of edit once the loop runs, and every failure of the watches, the
\* API server and the operation.
SPECIFICATION FairSpec
CONSTANTS
  Kind <- FileAndMap
  Values = {v1}
  NoData = NoData
  Malformed = Malformed
  Torn = Torn
  NumOps = 1
  Clients = {}
  Poll = FALSE
  QueueCap = 1
  Edits = {"modify", "corrupt", "replace", "remove"}
  Faults = {"setup", "api", "disconnect", "apply"}
INVARIANTS TypeOK NoLostWakeup IdleMeansFresh
PROPERTIES UnwrapHolds ImplementsLiveConfig Converges
CHECK_DEADLOCK FALSE
