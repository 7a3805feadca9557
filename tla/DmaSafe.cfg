\* BUFFERWIDTH leaves room for what either side of the FIFO does not know yet;
\* resets of any length, a fair clock, arbiter and memory; two bases.
CONSTANTS
  DEPTH = 8
  RdLag = 1
  WrLag = 1
  BUFFERWIDTH = 4
  Bases = {0, 3}
  FRAMEWORDS = 9
  MaxInflight = 6
  MaxAddress = 22

SPECIFICATION Spec
INVARIANTS TypeOK PendingExact ThereIsSpace 
PROPERTIES IsWordStream Refill
