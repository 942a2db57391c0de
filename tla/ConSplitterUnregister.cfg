\* Two consoles in any order: a function that was unregistered is still there.
SPECIFICATION Spec
CONSTANTS
    Consoles = {d1, d2}
    KeyDatas <- TwoKeyDatas
    Fns = {f}
    SyncKey <- MCSyncKey
    SyncFn = sync
    NULL = NULL
    Exposed = exposed
    Toggles = {exposed}
    Off = off
    Unit = 1
    MaxKeys = 0
    AnyOrder = TRUE
VIEW View
INVARIANTS
    UnregisteredNowhere
