\* Words of four bits, integers of ten, and a screen of four by three pixels.
CONSTANTS
  HALF = 2
  Words = {0, 1, 2, 3, 4, 5, 6, 7, 8, 9, 10, 11, 12, 13, 14, 15}
  WORDS = 1024
  WIDTH = 4
  HEIGHT = 3
  LEVELS = 8
  UINT16 = 64
  UINT32 = 4096
  Char <- CharDef
  Jobs <- JobsDef
SPECIFICATION MCSpec
INVARIANTS DivisionExact TextExact EntryNamed 
\* A call returns.
CHECK_DEADLOCK FALSE
