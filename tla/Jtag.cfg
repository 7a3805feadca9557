\* As in this system, without a timer; rings of two characters, FIFOs of three.
\* Two characters leave the receive interrupt to the pause.
SPECIFICATION LightSpec
CONSTANTS
  BUF_LEN = 3
  DEPTH = 3
  THRESHOLD = 1
  DEFAULT_TIMEOUT = 2
  INT_MAX = 4
  Chars = 1
  MaxSpace = 3
  HasTimer = FALSE
INVARIANTS TypeOK Armed
PROPERTIES RoutineEnds CallsServed
