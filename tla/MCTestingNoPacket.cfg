\* Files as in MCTesting.cfg; the claim is that of the documentation.
SPECIFICATION SuiteSpec
CONSTANTS
  States = {"s0", "s1"}
  Outputs = {"o0", "o1"}
  Nothing = "o0"
  Messages = {"m1"}
  Tags = {}
  Targets <- NoTargets
  Budget = 2
  MaxCases = 2
  Program <- MCProgram
  Files <- MCFiles
  Emitted <- MCOutputs
  PortBits = 1
CHECK_DEADLOCK FALSE
INVARIANTS NoPacketMeansNone
