\* The death of the target before its child has asked for a signal.
SPECIFICATION FairSpec
CONSTANTS
  a = a
  b = b
  c = c
  Files = {a, b, c}
  StdIn = StdIn
  StdOut = StdOut
  NoBackup = NoBackup
  Dash = Dash
  NoArg = NoArg
  Suffixes = {"bak"}
  BackupName <- BackupNames
  CommandLines <- AllLines
  Faults = {"fork", "bind", "runtime", "panic"}
PROPERTY WatcherEndsWithTarget
CHECK_DEADLOCK FALSE
