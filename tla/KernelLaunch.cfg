SPECIFICATION LaunchSpec
CONSTANTS
  Nibble = 2
  Byte = 6
  LeastMatch = 1
  Align = 2
  Digits = 3
  Word = 2
  MaxFatBinaries = 2
  Layout <- MCLayout
  Restored <- MCRestored
  FatBinaries <- MCFatBinaries
INVARIANTS
  LaunchTypeOK
  StaysInside
  SectionArrives
  KernelsAreKnown
  ArgumentsArrive
CHECK_DEADLOCK FALSE
