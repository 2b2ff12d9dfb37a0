SPECIFICATION FairSpec
CONSTANTS
  MaxSweep = 2
  InboxCap = 1
  ClientFns = {"STATUS", "DATA_ALT", "MEAS_CTL", "SET_TH"}
  ClientSizes = {"short", "exact", "long"}
  Garbage = {0}
PROPERTIES ImplementsService MeasurementPublished
CHECK_DEADLOCK FALSE
