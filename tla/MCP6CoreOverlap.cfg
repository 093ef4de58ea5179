SPECIFICATION CoreSpec
CONSTANTS
  WORD = 16
  BYTE = 4
  MEM_BYTES = 4
  ROB_SIZE = 4
  ZERO_TAG = 4
  STORE_QUEUE_SIZE = 3
  NUM_STAGE = 2
  FU_ALU = {0, 1}
  FU_LS = {2, 3}
  FU_MULT = {4}
  FU_BEQ = {5, 6}
  HALF_0 = {0, 3, 4, 5}
  Reg <- MCReg
  Programs <- OverlapOnly
  InitRegs <- MCInitRegs
  Targets <- MCTargets
  IcacheMiss <- Sometimes
  DcacheMiss <- Sometimes
PROPERTIES
  ImplementsIsa
CHECK_DEADLOCK FALSE
