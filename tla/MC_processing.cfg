SPECIFICATION FairSpec
CONSTANTS
  NaN = NaN
  Inf = Inf
  MinusInf = MinusInf
  MaxHarm = 4
  MaxFails = 2
  AvgNum = 2
  SpdLimit = 1
  DistLimit = 2
  Reach = 2
  Behind <- MCBehind
  Levels <- MCLevels
  Spectra <- MCSpectra
  Thresholds <- MCThresholds
  Configs <- MCConfigs
  Junk <- MCJunk
INVARIANTS GhostsAreNull SpeedIsMeasured NaNHasCause PeakIsStrongest
PROPERTIES TargetGivenUp
