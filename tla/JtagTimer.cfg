\* With a timer; rings of two characters, FIFOs of two.
SPECIFICATION OneWaySpec
CONSTANTS
  BUF_LEN = 3
  DEPTH = 2
  THRESHOLD = 1
  DEFAULT_TIMEOUT = 2
  INT_MAX = 4
  Chars = 3
  MaxSpace = 2
  HasTimer = TRUE
PROPERTIES Lossless FailsOnlyTimed AbsenceNoticed
