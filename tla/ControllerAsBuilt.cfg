\* The proportions of the code: BUFFERWIDTH is DEPTH - 1.
CONSTANTS
  LineLast = 11
  FrameLast = 4
  HSyncFirst = 0
  HSyncLimit = 1
  VSyncFirst = 1
  VSyncLimit = 2
  HActAfter = 2
  HActLast = 8
  VActAfter = 2
  VActLast = 4
  DEPTH = 4
  RdLag = 1
  WrLag = 0
  BUFFERWIDTH = 3
  Bases = {0}
  FRAMEWORDS = 4
  MaxInflight = 3
  MaxAddress = 12
  PXPERREAD = 3
  LATENCY = 1
  GAP = 4

SPECIFICATION Spec
PROPERTY SpaceAlways
