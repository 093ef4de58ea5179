SPECIFICATION SystemSpec
CONSTANTS
  FU_LS = {0, 1}
  STORE_QUEUE_SIZE = 3
  WINDOW = 3
  BUSES = 2
  Holds <- MCHolds
  Addr <- MCAddr
  Word <- MCWord
  Size <- MCSize
INVARIANTS
  LsqInv
  LoadsSeeProgramOrder
  SearchIsOlderStores
  EveryStoreReachesMemoryOnce
  LoadsDoNotOvertakeStores
