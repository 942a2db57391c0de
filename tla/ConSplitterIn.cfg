\* Two consoles that come and go as a stack.
SPECIFICATION Spec
CONSTANTS
    Consoles = {d1, d2}
    KeyDatas <- OneKeyData
    Fns = {f}
    SyncKey <- MCSyncKey
    SyncFn = sync
    NULL = NULL
    Exposed = exposed
    Toggles = {exposed, caps}
    Off = off
    Unit = 1
    MaxKeys = 3
    AnyOrder = FALSE
SYMMETRY Symmetry
VIEW View
INVARIANTS
    TypeOK
    RegisteredWithAll
    NoKeyLost
    SignalledKeyStays
    TogglesAgree
PROPERTIES
    KeysInOrder
