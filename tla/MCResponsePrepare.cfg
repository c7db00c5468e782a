CONSTANTS
  Lens = {0, 1, 2, 3}
  RangeHeaders <- MCRangeHeaders
  NoRange = NoRange
  Encodings = {"absent", "gzip", "identity"}
  SizeMod = 64
  CompressStatic = TRUE

SPECIFICATION Spec
INVARIANT RangesAgreeWithSpec
INVARIANT RangeTerminal
CHECK_DEADLOCK FALSE
