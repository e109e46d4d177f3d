\* main and two programs with buffers of two bytes.
CONSTANTS
  TASKS = 3
  LENGTH = 2
  Lens = {0, 1, 2}
  Keys = {"LSHIFT", "LSHIFT_UP", "LMAJ", "BACKSPACE", "ENTER", "LETTER", "RELEASE"}
SPECIFICATION MCSpec
INVARIANT LineDelivered
PROPERTIES StoresInside EndedReadsReturn
CHECK_DEADLOCK FALSE
