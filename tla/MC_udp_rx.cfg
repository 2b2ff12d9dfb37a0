SPECIFICATION Spec
CONSTANTS
  CntMod = 64
  MinGap = 12
  Number = 160
  CheckByte = {255, 85}
INVARIANTS
  SafeFrameHeard
PROPERTIES
  PulsesApart
