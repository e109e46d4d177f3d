\* 40 frames of 4 bytes above address 8 and a remainder that is no whole
\* frame: five bytes of bitmap, so the hint moves several times.
CONSTANTS
  AvailableMemory = 171
  ALLOC_START = 8
  PAGE_SIZE = 4
  ByteBits = 8
  NULL = NULL
SPECIFICATION Spec
INVARIANT HintSound
PROPERTY ImplementsFrameSource
