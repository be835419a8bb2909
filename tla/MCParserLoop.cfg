\* Three parser blocks, four states, a packet of three bits; walks of three states.
SPECIFICATION SuiteSpec
CONSTANTS
  Blocks <- MCBlocks
  Root = "main"
  States <- MCStates
  BlockOf <- MCBlockOf
  Start <- MCStart
  Paths <- MCPaths
  Targets <- MCTargets
  Total = 3
INVARIANTS WalkIsFollowed
PROPERTIES TimeoutExactlyOnRepeat Terminates
CHECK_DEADLOCK FALSE
