SPECIFICATION Spec
CONSTANTS
  MaxFiles = 2
  MaxWrites = 1
  RawRecords = {"isa", "access"}
  Values <- MCValues
INVARIANTS
  FinalizedIsReadable
  NothingLeaks
PROPERTIES
  SettingsAreKept
