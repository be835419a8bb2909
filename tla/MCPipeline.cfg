\* Two ports, a port that is not there, a drop; two packets of up to two statements.
SPECIFICATION SuiteSpec
CONSTANTS
  Ports = 2
  DropPort = 3
  Size = 1
  MaxCell = 1
  Packets = 2
  MaxOps = 2
  Roles <- MCRoles
  MetaFields <- MCMetaFields
  Names <- MCNames
  Programs <- MCPrograms
INVARIANTS RequestsServed EveryPacketAccounted AccessHolds HashesAsWritten
PROPERTIES EveryPacketAnswered
CHECK_DEADLOCK FALSE
