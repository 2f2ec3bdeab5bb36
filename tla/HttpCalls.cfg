\* Calls of two requests to a server that changes, fails and answers 304 unasked.
SPECIFICATION Spec
CONSTANTS
  Requests = {r1, r2}
  Versions <- AllVersions
  Etag <- Tags
  NoEtag = "none"
  NoResponse = NoResponse
  NotModified = NotModified
  Failed = Failed
  MaxCalls = 3
  Faults = {"lost", "unasked"}
INVARIANTS TypeOK AnswersAreCurrent
CHECK_DEADLOCK FALSE
