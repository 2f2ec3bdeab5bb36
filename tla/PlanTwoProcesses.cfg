\* Two invocations at the same time.
SPECIFICATION Spec
CONSTANTS
  Plan <- Backed
  Procs = {p1, p2}
  a = a
  b = b
  c = c
  bak = bak
  Files = {a, bak}
  Input = "tmpl"
  Text <- AllText
  Empty = ""
  Torn = "torn"
  Absent = Absent
  StdIn = StdIn
  StdOut = StdOut
  NoBackup = NoBackup
  Dash = Dash
  NoArg = NoArg
  Suffixes = {"bak"}
  BackupName <- BackupNames
  Data = {"d1", "d2"}
  Rendering <- RenderedTexts
  NoText = "error"
  Watch = FALSE
  DryRuns = {}
  Faults = {}
INVARIANT OriginalRecoverable
