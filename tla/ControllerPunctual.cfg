\* The proportions of the code: BUFFERWIDTH is DEPTH - 1, words of 5 pixels, lines of
\* 40 of them.  The memory may make a request wait for LATENCY edges of clk50, and
\* then takes up to GAP for a word, 6 where the SDRAM needs 4: FastEnough holds.
\* Software writes either base at any time.
CONSTANTS
  LineLast = 52
  FrameLast = 6
  HSyncFirst = 0
  HSyncLimit = 6
  VSyncFirst = 0
  VSyncLimit = 1
  HActAfter = 9
  HActLast = 49
  VActAfter = 1
  VActLast = 6
  DEPTH = 16
  RdLag = 2
  WrLag = 2
  BUFFERWIDTH = 15
  Bases = {0, 40}
  FRAMEWORDS = 40
  MaxInflight = 15
  MaxAddress = 100
  PXPERREAD = 5
  LATENCY = 10
  GAP = 6

SPECIFICATION SteadySpec
INVARIANT PictureExact
PROPERTY FlipArrives
