SPECIFICATION Spec
CONSTANTS
  NFrames = 4
  MaxFrames = 16
  MaxFaults = 0
  SocketCap = 2
INVARIANTS SweepsWhole
