SPECIFICATION CodecSpec
CONSTANTS
  Cells = 9
  MaxRank = 3
  Dims = {0, 1, 2, 3}
  Strides = {0, 1, 2, 3, 4, 6}
  Offsets = {0, 1}
INVARIANTS
  CodecTypeOK
  RoundTrip
CHECK_DEADLOCK FALSE
