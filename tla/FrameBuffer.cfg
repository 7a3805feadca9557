\* Two rows of two segments, the last pixel of a segment in two transfers.
SPECIFICATION Spec
CONSTANTS
  DISPLAY_NUM_COLUMNS = 4
  DISPLAY_NUM_ROWS = 2
  PixelsPerSegment = 2
  PixelBits = 12
  TransferBits = 16
  Colours = {white, black}
  Rects <- ScreenAndCorner
INVARIANTS TypeOK ShownAsWritten StoresInside TornOnlyWhereWritten
