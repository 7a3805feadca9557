CONSTANTS
  LineLast = 799
  FrameLast = 524
  HSyncFirst = 8
  HSyncLimit = 104
  VSyncFirst = 2
  VSyncLimit = 4
  HActAfter = 150
  HActLast = 790
  VActAfter = 36
  VActLast = 516

SPECIFICATION Spec
INVARIANT TypeOK
INVARIANT ActiveWindow
PROPERTY LinesInOrder
PROPERTY FramesKeepComing
