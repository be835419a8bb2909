\* Files of up to three lines of every kind, and of four of packets and claims;
\* a campaign of two samples of up to two cases.
SPECIFICATION SuiteSpec
CONSTANTS
  States = {"s0", "s1"}
  Outputs = {"o0", "o1"}
  Nothing = "o0"
  Messages = {"m1"}
  Tags = {}
  Targets <- NoTargets
  Budget = 2
  MaxCases = 2
  Program <- MCProgram
  Files <- MCFiles
  Emitted <- MCOutputs
  PortBits = 1
CHECK_DEADLOCK FALSE
INVARIANTS EntriesMeanWhatIsWritten VerdictIsExact DesyncIsNeverSilent
PROPERTIES PassMeansAgreement EveryBudgetIsSpent
