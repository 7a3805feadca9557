\* Five descriptors on two devices and a file system; three alarms and a counter
\* that wraps at 6.
SPECIFICATION HalSpec
CONSTANTS
  ALT_MAX_FD = 5
  Devices = {null, jtag_uart}
  FileSystems = {fs}
  Null = null
  Stdio = jtag_uart
  NoDev = none
  Alarms = {a, b, c}
  Head = head
  NoAlarm = noalarm
  Wrap = 6
  MaxPeriod = 4
INVARIANTS HalTypeOK NoLeak
PROPERTIES NoJoin LockKept StdioUsable IsTimers TickEnds
