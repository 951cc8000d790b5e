SPECIFICATION Spec
CONSTANTS
  ArgumentOrder = "forward"
  Clocks <- MCClocks
  Payloads <- MCPayloads
  Dependencies <- MCDependencies
  Setups <- MCSetups
  CopyDependencies = TRUE
  MaxTraces = 2
  MaxRecords = 2
  MaxDependencies = 1
  MaxClocks = 2
  MaxFlushes = 0
INVARIANTS
  CopiesKeepDependencies
CHECK_DEADLOCK FALSE
