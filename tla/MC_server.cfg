SPECIFICATION Spec
CONSTANTS
  MaxSweep = 3
  InboxCap = 2
  ClientFns = {"STATUS", "DATA_ALT", "MEAS_CTL", "GET_TH", "UNKNOWN"}
  ClientSizes = {"exact"}
  Garbage = {0}
INVARIANTS TypeOK CaptureIntact ReplyConsistent UnreadIsNew AtMostOneLate
PROPERTIES MeasurementsAdvance
