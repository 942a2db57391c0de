\* The keypad device, and the liveness of the notifications.
CONSTANTS
  Up = Up
  Down = Down
  Back = Back
  DialKey = DialKey
  s = s
  e = e
  space = space
  None = None
  VolumeUp = Up
  VolumeDown = Down
  Dial = DialKey
  KeyList <- ComboKeys
  ScanKeys <- MCScanKeys
  Combos <- MCCombos
  Deltas <- MCDeltas
  DebounceTime = 2
  RepeatTime = 2
  LongpressTime = 3
  MaxTimers = 2
  KEYPAD_EFI_KEY_MAX_COUNT = 3
  Codes = {null, a}
  NullCode = null
  Shifts = {0}
  Handles = {h1, h2}
  Fns = {f1, f2}
  NoLink = NoLink
  MaxKeys = 1
SPECIFICATION Spec
INVARIANTS
  ContextsOK
  TapReportedOnce
  DialReportsOnce
  LedNotStuck
PROPERTIES
  ReportsPaced
  ComboMatchesVolume
  NotifyDrained
CHECK_DEADLOCK FALSE
