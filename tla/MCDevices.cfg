\* Two keys, and three movements behind the answer of the mouse.
CONSTANTS
  Moves <- MovesDef
  ACK = 250
  SCR_WIDTH = 20
  SCR_HEIGHT = 15
  WORD = 1024
  KEYS = 2
  PACKETS = 3
SPECIFICATION FairDevicesSpec
INVARIANTS ToOwnHandler PositionFollowsBytes
PROPERTY EveryByteTaken
\* The devices fall silent at the bounds.
CHECK_DEADLOCK FALSE
