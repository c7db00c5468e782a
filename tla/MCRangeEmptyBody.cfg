CONSTANTS
  Lens = {0}
  RangeHeaders <- MCRangeHeaders
  NoRange = NoRange
  Encodings = {"absent", "gzip", "identity"}
  SizeMod = 64
  CompressStatic = TRUE

SPECIFICATION Spec
INVARIANT InvalidRangeRejected
CHECK_DEADLOCK FALSE
