SPECIFICATION Spec
CONSTANTS
  ArgumentOrder = "forward"
  Clocks <- MCClocks
  Payloads <- MCPayloads
  Dependencies <- MCDependencies
  Setups <- MCSetups
  CopyDependencies = FALSE
  MaxTraces = 2
  MaxRecords = 2
  MaxDependencies = 1
  MaxClocks = 2
  MaxFlushes = 1
INVARIANTS
  TracesStandAlone
  TransactionsReadAsWritten
CHECK_DEADLOCK FALSE
