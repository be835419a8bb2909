\* Up to three active blocks and four statements; three statements on objects, five on bits.
SPECIFICATION SuiteSpec
CONSTANTS
  Size = 2
  Values = {0, 1}
  Calls <- CallStatements
  MaxDepth = 3
  MaxSteps = 4
  Elements = 2
  Bit = {0, 1}
  HeaderLValues <- LValuesOfHeaders
  MaxOps = 3
  Packets <- PacketBytes
  Widths <- FieldWidths
  StackSize = 3
  Counts = {1, 4}
  LookaheadBits = {1, 2}
  MaxStatements = 5
INVARIANTS CopyOrderIrrelevant PacketsKept
PROPERTIES PassesByReference ActsOnValues RaiseChangesNothing
CHECK_DEADLOCK FALSE
