SPECIFICATION DCacheSpec
CONSTANTS
  Line <- MCLine
  Stored <- MCStored
  Data <- MCData
  Instr = 2
  NoLine = NoLine
  l1 = l1
  l2 = l2
  l3 = l3
  l4 = l4
  Set <- MCSet
  SetOf <- MCSetOf
  VICTIMS = 1
  MISS_LINES = 2
  NUM_MEM_TAGS = 2
  Steady = TRUE
INVARIANTS
  DCacheInv
  SentMeansInFlight
  AckedStoresAreEverywhere
  LoadsAreCoherent
  RequestStands
SYMMETRY Lines
