\* A small raster: 4 lines of 9 pixels, 2 of 6 shown, in words of 3 pixels.
CONSTANTS
  LineLast = 8
  FrameLast = 3
  HSyncFirst = 0
  HSyncLimit = 1
  VSyncFirst = 0
  VSyncLimit = 1
  HActAfter = 1
  HActLast = 7
  VActAfter = 1
  VActLast = 3
  DEPTH = 8
  RdLag = 1
  WrLag = 1
  BUFFERWIDTH = 4
  Bases = {0}
  FRAMEWORDS = 4
  MaxInflight = 4
  MaxAddress = 8
  PXPERREAD = 3
  LATENCY = 1
  GAP = 4

SPECIFICATION Spec
INVARIANT PictureExact
PROPERTY StaysSettled
PROPERTY SpaceAlways
