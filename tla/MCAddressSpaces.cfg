\* Tables of three entries, a heap of five pages in two tables, of which a task
\* gets four, and every size of memory up to more than enough.
CONSTANTS
  Memories <- MCMemories
  Programs <- MCPrograms
  NoPrograms <- MCNoPrograms
  ENTRIES = 3
  PAGE_SIZE = 2
  FB_BASE = 60
  FB_PAGES = 2
  HEAP_BASE = 12
  HEAP_PAGES = 5
  TASK_HEAP = 4
  STACK = 20
  WINDOW = 24
  UserPages = {4, 5, 6, 7, 8, 9}
SPECIFICATION Spec
INVARIANTS TypeOK TaskIsWhole FramesApart LoadOutcome
CHECK_DEADLOCK FALSE
