\* Two sources of every kind with up to two entries each.
SPECIFICATION Spec
CONSTANTS
  Names <- FourNames
  Segments <- Splits
  Fields = {"x", "y"}
  MaxSpecs = 1
  MaxSources = 2
  MaxKeys = 2
INVARIANTS TypeOK LayersStack NodesMakeTrees
CHECK_DEADLOCK FALSE
