SPECIFICATION LiveSpec
CONSTANTS
  PRMBLE_LEN = 1
  HEADER_LEN = 1
  DATAFRAME_LEN = 4
  RADAR_STATUS_LEN = 1
  ZEROS_LEN = 1
  DelayMax = 2
  FifoWords = 4
  WordGap = 12
  SweepGap = 53
  MinIdle = 4
  RequestGap = 12
  Window = 2
  MaxSweeps = 2
  MaxRequests = 2
PROPERTIES
  FramesWhole
  FramesApart
  SweepsLeave
