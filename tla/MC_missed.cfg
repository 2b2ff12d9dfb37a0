SPECIFICATION Spec
CONSTANTS
  MaxSweep = 2
  InboxCap = 1
  ClientFns = {"STATUS", "DATA_ALT", "MEAS_CTL"}
  ClientSizes = {"exact"}
  Garbage = {0}
INVARIANTS NothingMissed
CHECK_DEADLOCK FALSE
