\* Statements with up to three calls in them; four applies and action calls; parsers of two states,
\* four of them entered; controls of two actions and two tables; expressions of
\* five nodes over one and two bits; tables
\* of two entries; packages of two roles over three levels of instances.
SPECIFICATION SuiteSpec
CONSTANTS
  Vars = {"x", "y"}
  Field = "s"
  Temps <- MCTemps
  Params <- MCParams
  Functions = {"toggle", "keep"}
  Formals <- MCFormals
  Body <- MCBody
  Result <- MCResult
  Effect <- MCEffect
  Statements <- Straight
  Parsers <- PlainParsers
  P4Tables <- MCP4Tables
  NoDefault = "NoAction"
  NoPriority <- MCNoPriority
  MaxKeyWidth = 2
CHECK_DEADLOCK FALSE
INVARIANTS LoweredAsWritten ParserRunsAsWritten NamesKept FoldedMeans ChoosesAsWritten InstancesKept
PROPERTY RightBranch
