SPECIFICATION Spec
CONSTANTS
  Handle = {h1, h2}
  None = None
  Confs = {c}
  Devices = {0, 1}
  Kinds = {"stream", "cublas", "cudnn"}
  Modules = {m, n}
  Functions = {f}
  Placement = "fresh"
  MaxCalls = 4
  MaxCheckpoints = 2
  MaxRestarts = 2
  MaxFailures = 1
SYMMETRY NamesAreAlike
INVARIANTS
  TypeOK
  HandlesLead
  EveryObjectIsHeld
  FunctionsLead
PROPERTIES
  ImplementsClientHandles
CHECK_DEADLOCK FALSE
