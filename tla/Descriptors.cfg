\* Two programs, three entries beside the standard ones, two places for a FILE.
CONSTANTS
  NFDS = 6
  Proc = {p, q}
  FILEs = {f, g}
  COPIES = 1
  NULL = NULL
SPECIFICATION Spec
INVARIANTS DescriptorsExclusive FilesOneToOne OnlyCopiesFault
CHECK_DEADLOCK FALSE
