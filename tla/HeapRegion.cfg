\* One request for everything init_malloc says there is.
CONSTANTS
  START_ADDR = 4
  INITIAL_SIZE = 9
  HDR = 2
  MARGIN = 1
  Sizes = {1, 9}
  NULL = NULL
SPECIFICATION Spec
INVARIANT PayloadsInRegion
