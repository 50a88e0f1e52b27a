SPECIFICATION LayoutSpec
CONSTANTS
  Page = 16
  EhdrSize = 4
  PhdrSize = 2
  ShdrSize = 2
  WordSize = 4
  ThunkSize = 4
  PoolSpacing = 12
  Reach = 32
  FREE_PASSES = 4
  ShortReach = 16
  JumpReach = 32
  LowReach = 16
  MAX_ROUNDS = 8
  MAX_PASSES = 30
  AddrBits = 10
  SCRIPT_PASSES = 7
  Inputs <- PowerInputs
INVARIANTS
  BranchesReach
