\* A ConfigMap with a key that begins with a separator.
SPECIFICATION Spec
CONSTANTS
  Names <- BareName
  Segments <- Splits
  Fields = {"x"}
  MaxSpecs = 1
  MaxSources = 2
  MaxKeys = 1
INVARIANT KeysNest
CHECK_DEADLOCK FALSE
