SPECIFICATION FairSpec
CONSTANTS
  Threads = {main, t}
  Main = main
  Nobody = nobody
  Tensors = {1, 2, 3}
  Values = {0, 1, 2}
  Result <- MCResult
  Kinds = {"functional", "view", "in_place"}
  Workers = 1
  MaxOps = 2
  MaxChannels = 2
  MaxFaults = 1
INVARIANTS
  TypeOK
  OnlyEffectsDiffer
PROPERTIES
  OpsReturn
