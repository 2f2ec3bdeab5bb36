\* Operations that overwrite the templates of others, in every pass and by every
\* invocation, failing and killed.
SPECIFICATION Spec
CONSTANTS
  Plan <- Chain
  Procs = {p1}
  a = a
  b = b
  c = c
  bak = bak
  Files = {a, b, c, bak}
  Input = "tmpl"
  Text <- AllText
  Empty = ""
  Torn = "torn"
  Absent = Absent
  StdIn = StdIn
  StdOut = StdOut
  NoBackup = NoBackup
  Dash = Dash
  NoArg = NoArg
  Suffixes = {"bak"}
  BackupName <- BackupNames
  Data = {"d1", "d2"}
  Rendering <- RenderedTexts
  NoText = "error"
  Watch = TRUE
  DryRuns = {}
  Faults = {"open", "write", "crash"}
INVARIANTS PassDelivers ReportIsExact UpToDateIsUntouched
PROPERTY ImplementsAtomicPlan
