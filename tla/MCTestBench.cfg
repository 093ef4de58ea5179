SPECIFICATION TestBenchSpec
CONSTANTS
  NUM_HISTORY = 3
  REGS = 2
  EDGES = 5
  Funct7s = {0, 1, 8, 32, 64, 95, 127}
  Regs = {0, 1, 5, 31}
INVARIANTS
  RingHoldsLastEdges
  TablesAgree
PROPERTY
  BothEnd
CHECK_DEADLOCK FALSE
