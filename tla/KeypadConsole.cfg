\* Safety: two registrations, three ring cells, three keys.
SPECIFICATION Spec
CONSTANTS
    KEYPAD_EFI_KEY_MAX_COUNT = 3
    Codes = {null, a}
    NullCode = null
    Shifts = {0}
    Handles = {h1, h2}
    Fns = {f1, f2}
    NoLink = NoLink
    MaxKeys = 3
SYMMETRY Symmetry
VIEW View
INVARIANTS
    TypeOK
    KeysAreLatest
    SignalledKeyStays
    NotifyPending
    WalkOnLiveEntry
PROPERTIES
    ReadsInOrder
    NotifiedInOrder
    ReaderQueueIsFifo
CHECK_DEADLOCK FALSE
