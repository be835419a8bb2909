\* The same programs, asked the docstring of stmt.extract.
SPECIFICATION SuiteSpec
CONSTANTS
  Size = 2
  Values = {0, 1}
  Calls <- CallStatements
  MaxDepth = 3
  MaxSteps = 4
  Elements = 2
  Bit = {0, 1}
  HeaderLValues <- LValuesOfHeaders
  MaxOps = 3
  Packets <- PacketBytes
  Widths <- FieldWidths
  StackSize = 3
  Counts = {1, 4}
  LookaheadBits = {1, 2}
  MaxStatements = 5
PROPERTIES ShortPacketConsumesNothing
CHECK_DEADLOCK FALSE
