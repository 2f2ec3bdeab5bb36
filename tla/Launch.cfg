\* Every command line, every fork that fails and every order of the processes' steps.
SPECIFICATION FairSpec
CONSTANTS
  a = a
  b = b
  c = c
  Files = {a, b, c}
  StdIn = StdIn
  StdOut = StdOut
  NoBackup = NoBackup
  Dash = Dash
  NoArg = NoArg
  Suffixes = {"bak"}
  BackupName <- BackupNames
  CommandLines <- AllLines
  Faults = {"fork", "bind", "runtime", "panic"}
INVARIANTS TypeOK AcceptedPlansAreValid RenderedFirst OneRenderer SignalReachesTarget TargetHasWatcher TargetUnderway
PROPERTIES WatcherFollows OrphansAreSignalled TargetIsWatched TargetStarts ShellReturns
CHECK_DEADLOCK FALSE
