SPECIFICATION Spec
CONSTANTS
  NFrames = 2
  MaxFrames = 16
  MaxFaults = 3
  SocketCap = 3
INVARIANTS UsedOnce CaptureIsShort NothingSkipped CollectionEnds
