\* Parsers in which a state declares a name of the parser again.
SPECIFICATION SuiteSpec
CONSTANTS
  Vars = {"x", "y"}
  Field = "s"
  Temps <- MCTemps
  Params <- MCParams
  Functions = {"toggle", "keep"}
  Formals <- MCFormals
  Body <- MCBody
  Result <- MCResult
  Effect <- MCEffect
  Statements = {}
  Parsers <- ShadowingParsers
  P4Tables = {}
  NoDefault = "NoAction"
  NoPriority <- MCNoPriority
  MaxKeyWidth = 2
CHECK_DEADLOCK FALSE
INVARIANTS StateFramesAreFresh
