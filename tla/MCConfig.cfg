SPECIFICATION ConfigFairSpec
CONSTANTS
  AddrBits = 3
  Chars <- MCChars
  Patterns <- MCPatterns
  Texts <- MCTexts
  Configs <- MCConfigs
  Options <- MCOptions
  Partial = Partial
  Missing = Missing
  Hosts <- MCHosts
  MaxClock = 3
  MaxStamps = 3
INVARIANTS
  PolicyFollowsConfig
  
PROPERTY
  FileTakesEffect
CHECK_DEADLOCK FALSE
