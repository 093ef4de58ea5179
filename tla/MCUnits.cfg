SPECIFICATION UnitsSpec
CONSTANTS
  XLEN = 3
  NUM_STAGE = 3
  FU_ALU = {0, 2, 4, 6}
  FU_LS = {8, 10}
  FU_MULT = {13}
  FU_BEQ = {17}
  HALF_0 = {0, 2, 4, 6, 17}
  RAS_SIZE = 3
  BTB_SIZE = 2
  BHT_SIZE = 1
  PCS = 4
  Texts <- MCTexts
  LINES = 6
  SETS = 2
  FETCH_SIZE = 2
  NUM_MEM_TAGS = 2
  Targets = {1}
  OTHERS = 1
INVARIANTS
  MultiplierInv
  ChoosesAsPromised
  PassedOverBriefly
  RingIsBoundedStack
  PredictorsInv
  ICacheInv
  DeliveredLineStays
PROPERTIES
  ProductIsOffered
  HeldFetchIsAnsweredAlike
  FetchIsServed
