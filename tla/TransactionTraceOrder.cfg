SPECIFICATION Spec
CONSTANTS
  ArgumentOrder = "backward"
  Clocks <- MCClocks
  Payloads <- MCPayloads
  Dependencies <- MCDependencies
  Setups <- MCSetups
  CopyDependencies = FALSE
  MaxTraces = 2
  MaxRecords = 2
  MaxDependencies = 1
  MaxClocks = 2
  MaxFlushes = 1
INVARIANTS
  TransactionsReadAsWritten
CHECK_DEADLOCK FALSE
