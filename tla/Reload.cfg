\* Hooks and processes that end early, late or never, ids that are used again,
\* and signals and hooks that fail.
SPECIFICATION FairSpec
CONSTANTS
  Pids = {i1, i2, i3, i4}
  NoPid = NoPid
  Faults = {"kill", "spawn"}
INVARIANTS TypeOK OneHookUnwarned HooksHaveOneOwner OkMeansNoneSkipped
PROPERTIES InterruptsHooksOnly HooksAreReaped
CHECK_DEADLOCK FALSE
