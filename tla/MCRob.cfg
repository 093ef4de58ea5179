SPECIFICATION RobSpec
CONSTANTS
  ROB_SIZE = 3
  ZERO_REG = 0
  Reg <- MCReg
  Value <- MCValue
  Pc <- MCPc
  IdPacket <- MCIdPacket
  CdbPacket <- MCCdbPacket
INVARIANTS
  RobInv
  EarlyBranchIsOldest
PROPERTIES
  AnnouncedIsSquashed
  ImplementsInOrderCommit
