\* Up to four recording operations; up to four operands.
SPECIFICATION SuiteSpec
CONSTANTS
  Classes = {"A", "B", "C"}
  Bodies <- MCBodies
  Exports <- MCExports
  DataTypes = {"H", "S"}
  FieldTypes <- MCFieldTypes
  MaxWrites = 4
  MaxDepth = 3
CHECK_DEADLOCK FALSE
INVARIANTS RecordedAsWritten BuiltIsWellTyped ElaboratedMeans BuiltIsDeclaredRight RefusedForCause
