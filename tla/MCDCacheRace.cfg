SPECIFICATION DCacheSpec
CONSTANTS
  Line <- MCLine
  Stored <- MCNoStores
  Data <- MCData
  Instr = 2
  NoLine = NoLine
  l1 = l1
  l2 = l2
  l3 = l3
  l4 = l4
  Set <- MCSet
  SetOf <- MCSetOf
  VICTIMS = 1
  MISS_LINES = 5
  NUM_MEM_TAGS = 7
  Steady = FALSE
SYMMETRY AnyLines
INVARIANTS
  SentMeansInFlight
