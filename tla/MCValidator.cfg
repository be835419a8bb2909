\* Every graph of three blocks with up to two calls each; expressions of four nodes;
\* tables of at most three entries over keys of at most two bits.
SPECIFICATION SuiteSpec
CONSTANTS
  N = 3
  MaxCalls = 2
  Fields <- DeclaredFields
  HeaderTypes = {"H"}
  StructTypes = {"S"}
  EnumTypes <- OneEnum
  Errors = {"NoError", "PacketTooShort"}
  Decls <- DeclaredVars
  Values <- HeldValues
  Envs <- Environments
  Peeks = {0, 5}
  Widths = {0, 1, 2}
  IndexBits = 4
  MaxNodes = 4
  MaxOpen = 3
  TableDecls <- MCDecls
  ConstLists <- MCConstLists
  HostEntries <- MCHostEntries
  HostActions <- MCHostActions
  NoAction = "none"
  MaxWidth = 2
  MaxEntries = 3
CHECK_DEADLOCK FALSE
INVARIANTS SearchIsExact WellTypedEvaluates NoTypeIsReported AdmissionIsExact
  ConstEntriesInstall LookupIsBest
