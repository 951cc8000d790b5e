SPECIFICATION Spec
CONSTANTS
  MaxFiles = 2
  MaxWrites = 0
  RawRecords = {}
  Values <- MCValues
INVARIANTS
  DisabledForOneFile
