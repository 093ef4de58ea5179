SPECIFICATION HeapSpec
CONSTANTS
  HEAP_SIZE = 80
  Sizes = {12, 16}
  WORD = 1024
INVARIANTS
  LiveBlocksAreApart
