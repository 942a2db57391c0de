\* A key that was saved is not seen by WaitForKey.
SPECIFICATION Spec
CONSTANTS
    Consoles = {d1, d2}
    KeyDatas <- TwoKeyDatas
    Fns = {f}
    SyncKey <- MCSyncKey
    SyncFn = sync
    NULL = NULL
    Exposed = exposed
    Toggles = {exposed}
    Off = off
    Unit = 1
    MaxKeys = 2
    AnyOrder = FALSE
VIEW View
PROPERTIES
    WaitSeesKeys
