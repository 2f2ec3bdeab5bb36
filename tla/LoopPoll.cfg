\* With --poll every change is followed, reported or not, although one of two operations
\* fails or tears its file, and so does on-reload; with a webhook beside it the callers
\* are answered and reported changes read, however busy the channel.
SPECIFICATION FairSpec
CONSTANTS
  Kind <- File
  Values = {v1, v2}
  NoData = NoData
  Malformed = Malformed
  Torn = Torn
  NumOps = 2
  Clients = {c1}
  Poll = TRUE
  QueueCap = 1
  Edits = {"modify", "replace", "early"}
  Faults = {"bind", "hangup", "unrouted", "apply", "panic", "notify"}
INVARIANT ChangesAnnounced
PROPERTIES FollowsSources HookAnswers PaysItsDebts
CHECK_DEADLOCK FALSE
