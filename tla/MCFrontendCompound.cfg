\* Compound assignments of an expression with a call.
SPECIFICATION SuiteSpec
CONSTANTS
  Vars = {"x", "y"}
  Field = "s"
  Temps <- MCTemps
  Params <- MCParams
  Functions = {"toggle", "keep"}
  Formals <- MCFormals
  Body <- MCBody
  Result <- MCResult
  Effect <- MCEffect
  Statements <- AnyCompound
  Parsers = {}
  P4Tables = {}
  NoDefault = "NoAction"
  NoPriority <- MCNoPriority
  MaxKeyWidth = 2
CHECK_DEADLOCK FALSE
INVARIANTS CompoundIsBinary
