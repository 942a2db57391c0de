CONSTANTS
  Up = Up
  Down = Down
  Back = Back
  DialKey = DialKey
  s = s
  e = e
  space = space
  None = None
  VolumeUp = Up
  VolumeDown = Down
  Dial = DialKey
  KeyList <- BackKeys
  ScanKeys <- MCScanKeys
  Combos <- MCCombos
  Deltas <- MCDeltas
  DebounceTime = 2
  RepeatTime = 2
  LongpressTime = 3
  MaxTimers = 2
SPECIFICATION DeviceSpec
PROPERTIES
  HeldKeyWasReported
