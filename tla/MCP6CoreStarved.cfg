SPECIFICATION CoreFairSpec
CONSTANTS
  WORD = 16
  BYTE = 4
  MEM_BYTES = 4
  ROB_SIZE = 8
  ZERO_TAG = 8
  STORE_QUEUE_SIZE = 3
  NUM_STAGE = 4
  FU_ALU = {0, 1}
  FU_LS = {2, 3}
  FU_MULT = {4}
  FU_BEQ = {5, 6, 7, 8}
  HALF_0 = {0, 3, 4, 6, 8}
  Reg <- MCReg
  Programs <- StarvedOnly
  InitRegs <- MCInitRegs
  Targets <- NoTargets
  IcacheMiss <- Always
  DcacheMiss <- Always
PROPERTIES
  Halts
CHECK_DEADLOCK FALSE
