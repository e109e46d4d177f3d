\* Two glyphs in a row, three rows and a line of pixels left over.
CONSTANTS
  FONT_WIDTH = 2
  FONT_HEIGHT = 2
  SCR_WIDTH = 4
  SCR_HEIGHT = 7
  MAX_X = 7
  MAX_UP = 2
SPECIFICATION TerminalSpec
INVARIANTS RowOnScreen TextOnScreen
