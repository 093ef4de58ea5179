SPECIFICATION ProgramsSpec
CONSTANTS
  MAX = 5
  LISTED = 4
  ELEMENTS = 5
  KEYS = 3
  Boards = {1, 3, 4}
  DIM = 2
  VALUES = 2
  INT = 3
  Factors <- MCFactors
  TEST_ITR = 3
  HEAP_SIZE = 80
  Sizes = {12}
  WORD = 1024
  PUSHES = 5
  CAPACITY = 4
  PRIORITIES = 3
INVARIANTS
  HeapIsWhole
  SearchesInOrder
  KeepsOrder
  ComputesWhatItShould
PROPERTIES
  ProgramEnds
CHECK_DEADLOCK FALSE
