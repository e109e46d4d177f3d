\* Two calls of fwrite, of one process at any offset, or of two processes.
CONSTANTS
  full = full
  partial = partial
  empty = empty
  main = main
  Proc = {main, task}
  File <- MCFile
  LAST_CLUSTER = 6
  FAT_ENTRIES = 8
  bytes_per_cluster = 2
  Chains <- MCChains
  Entries <- MCEntries
  Sizes = {1, 2, 3, 5}
  Seeks = {0, 1, 2, 3, 4, 5, 6}
  WRITES = 2
SPECIFICATION MCSpec
INVARIANTS TypeOK ChainsApart CursorInStep DiskHoldsContent
PROPERTIES WritesOwnClusters CallsReturn
CHECK_DEADLOCK FALSE
