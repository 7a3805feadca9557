\* Three places on each of three lines.
SPECIFICATION PrintSpec
CONSTANTS
  DISPLAY_NUM_COLUMNS = 14
  DISPLAY_NUM_ROWS = 11
  text_offset_x = 3
  text_offset_y = 1
  CHAR_WIDTH = 2
  CHAR_HEIGHT = 1
  CHAR_INTERCHARSPACING = 1
  CHAR_INTERLINESPACING = 2
  StringStarts <- NoStart
  Splash <- OneSplash
INVARIANT RemainderWhite
