\* An arena of 11 bytes, headers of 2: up to five blocks, requests from none at
\* all to four bytes.
CONSTANTS
  START_ADDR = 4
  INITIAL_SIZE = 9
  HDR = 2
  MARGIN = 1
  Sizes = {0, 1, 4}
  NULL = NULL
SPECIFICATION FairSpec
INVARIANTS Tiled NoFreeNeighbours NothingLost
PROPERTIES ImplementsHeapSpec CallsReturn
